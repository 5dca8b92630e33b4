------------------------------ MODULE Accounts ------------------------------
(***************************************************************************)
(* Signing in, sessions and the administration of accounts and staff       *)
(* status, as the service runs them.                                       *)
(*                                                                         *)
(* A request that administers something has two steps.  It is admitted:    *)
(* auth() validates the session cookie against the database and the        *)
(* permission table is consulted.  Later its transaction commits, or the   *)
(* request ends without effect.  Between the two everything may change,    *)
(* the actor's own account included; what the transaction checks again     *)
(* differs between user management and staff management.                   *)
(*                                                                         *)
(* Each transaction is one step: it is SERIALIZABLE, takes row locks, and  *)
(* withSerializableRetry only repeats attempts that were rolled back.      *)
(***************************************************************************)
EXTENDS AccountRows

CONSTANTS
    InitialRole,   \* the role of each person that has one of the seeded accounts
    Reviewers,     \* the people assigned as team reviewers
    NoHuman,       \* the actor of a statement no person stands behind
    Worker,        \* the requests the server can be processing at once
    Idle           \* a worker without a request

ASSUME InitialRoleAssumption ==
    /\ DOMAIN InitialRole \subseteq Person
    /\ \A p \in DOMAIN InitialRole : InitialRole[p] \in Roles
ASSUME NoHumanAssumption == NoHuman \notin Person

VARIABLES
    account,   \* user_accounts
    person,    \* people
    sessions,  \* the session cookies that somebody still holds
    work       \* what each worker is processing

rows == <<account, person>>
vars == <<account, person, sessions, work>>

UserOperations == {"create", "username", "role", "disable", "reactivate", "reset"}
StaffOperations == {"edit", "deactivate", "reactivate-person"}

Session == [owner : Person, version : 0..MaxVersion]

(* What a request carries from its admission to its transaction: the       *)
(* session it was admitted with, and the row version its form was showing  *)
(* (session_version of an account, row_version of a person).               *)
Request ==
    [operation : UserOperations \cup StaffOperations \cup {"own-password"},
     session   : Session,
     target    : Person,
     expected  : Nat,
     role      : Roles]

ASSUME IdleAssumption == Idle \notin Request

Usable(p) == UsableAdministrator(account[p], person[p])

TypeOK ==
    /\ account \in [Person -> AccountRow]
    /\ person \in [Person -> PersonRow]
    /\ sessions \subseteq Session
    /\ work \in [Worker -> Request \cup {Idle}]

Init ==
    /\ account = [p \in Person |->
                    IF p \in DOMAIN InitialRole
                    THEN SeededAccount(InitialRole[p])
                    ELSE NoAccount]
    /\ person = [p \in Person |->
                    [active |-> TRUE, canLogin |-> p \in DOMAIN InitialRole,
                     rowVersion |-> 1]]
    /\ sessions = {}
    /\ work = [w \in Worker |-> Idle]

(* One committed transaction on the rows of p.                             *)
Write(p, a, q) ==
    /\ Storable(a, q)
    /\ account' = [account EXCEPT ![p] = a]
    /\ person' = [person EXCEPT ![p] = q]

-----------------------------------------------------------------------------
(* authenticateCredentials: an attempt on an account that is locked or     *)
(* cannot sign in changes nothing but the audit trail; the actions below   *)
(* are the two attempts that reach the password comparison's outcome.      *)
MaySignIn(p) ==
    /\ account[p].exists
    /\ account[p].lock # "locked"
    /\ account[p].enabled
    /\ person[p].active
    /\ person[p].canLogin
    /\ account[p].password # 0

(* A lock that has run out starts the count afresh.                        *)
PriorFailures(a) == IF a.lock = "open" THEN a.failures ELSE 0

AfterWrongPassword(a) ==
    LET counted  == PriorFailures(a) + 1
        failures == IF counted < LockoutFailures THEN counted ELSE LockoutFailures
    IN  [a EXCEPT !.failures = failures,
                  !.lock = IF failures = LockoutFailures THEN "locked" ELSE "open"]

SignInRefused(p) ==
    /\ MaySignIn(p)
    /\ account' = [account EXCEPT ![p] = AfterWrongPassword(account[p])]
    /\ UNCHANGED <<person, sessions, work>>

SignIn(p) ==
    /\ MaySignIn(p)
    /\ account' = [account EXCEPT ![p] = Unlocked(account[p])]
    /\ sessions' = sessions \cup {[owner |-> p, version |-> account[p].version]}
    /\ UNCHANGED <<person, work>>

(* validateSessionClaims, on every request that carries a cookie.          *)
ValidSession(s) ==
    /\ account[s.owner].enabled
    /\ account[s.owner].password # 0
    /\ person[s.owner].active
    /\ person[s.owner].canLogin
    /\ account[s.owner].version = s.version

(* The cookie reaches its absolute expiry, or its holder signs out.        *)
SessionEnds(s) ==
    /\ sessions' = sessions \ {s}
    /\ UNCHANGED <<account, person, work>>

LockElapses(p) ==
    /\ account[p].lock = "locked"
    /\ account' = [account EXCEPT ![p] = LockElapsed(account[p])]
    /\ UNCHANGED <<person, sessions, work>>

(* setApprovedAccountPassword: the local command for the seeded accounts.  *)
SetApprovedAccountPassword(p) ==
    /\ p \in DOMAIN InitialRole
    /\ account[p].exists
    /\ Write(p, Rekeyed(account[p], TRUE), person[p])
    /\ UNCHANGED <<sessions, work>>

-----------------------------------------------------------------------------
(* auth() and decideAuthorization for /users and /staff: only the          *)
(* Administrator role manages, and only after the forced password change.  *)
(* The form's row version is no newer than the row; only an up-to-date one *)
(* can still match at commit, so that is the one a request carries.  Only  *)
(* two forms have a role field; elsewhere the field is a constant.         *)
AdmitManagement(w, s, operation, p, role) ==
    /\ work[w] = Idle
    /\ ValidSession(s)
    /\ account[s.owner].role = "Administrator"
    /\ ~account[s.owner].mustChange
    /\ operation \notin {"create", "role"} => role = "Administrator"
    /\ work' = [work EXCEPT ![w] =
                  [operation |-> operation, session |-> s, target |-> p,
                   expected |-> IF operation \in StaffOperations
                                THEN person[p].rowVersion ELSE account[p].version,
                   role |-> role]]
    /\ UNCHANGED <<account, person, sessions>>

AdmitOwnPassword(w, s) ==
    /\ work[w] = Idle
    /\ ValidSession(s)
    /\ work' = [work EXCEPT ![w] =
                  [operation |-> "own-password", session |-> s,
                   target |-> s.owner, expected |-> s.version,
                   role |-> account[s.owner].role]]
    /\ UNCHANGED <<account, person, sessions>>

(* The request ends without a change: a check fails, the input is a no-op, *)
(* the transaction is rolled back, or the server process goes away.        *)
Abandon(w) ==
    /\ work[w] # Idle
    /\ work' = [work EXCEPT ![w] = Idle]
    /\ UNCHANGED <<account, person, sessions>>

(* The part every committing request shares.                               *)
Committing(w, operation) ==
    /\ work[w] # Idle
    /\ work[w].operation = operation
    /\ work' = [work EXCEPT ![w] = Idle]
    /\ UNCHANGED sessions

(* Mutants: the actor was checked when the request was admitted, that has  *)
(* to do; and the session is not read again.                               *)
ActorAdmittedEarlier(r) == TRUE
AdministratorOfAnySession(r) == Usable(r.session.owner)

(* lockActingAdministrator does not look at the session any more.          *)
LockActingAdministrator(r) == Usable(r.session.owner)

(* administrator() in staff-mutations does.                                *)
StaffAdministrator(r) ==
    /\ Usable(r.session.owner)
    /\ ~account[r.session.owner].mustChange
    /\ account[r.session.owner].version = r.session.version

(* lockActingAdministrator, lockedManagementAccount, requireCurrentVersion *)
ManagedTarget(r) ==
    /\ LockActingAdministrator(r)
    /\ account[r.target].exists
    /\ account[r.target].version = r.expected

-----------------------------------------------------------------------------
(* User management, one action per function.                               *)
CommitCreate(w) ==
    LET r == work[w]
        p == r.target
    IN  /\ Committing(w, "create")
        /\ LockActingAdministrator(r)
        /\ person[p].active
        /\ ~account[p].exists
        /\ Write(p, NewAccount(r.role), LoginSynced(person[p], TRUE))

(* A username is not part of the row here: any correction only moves the   *)
(* version, and its collision with another username is an abandoned one.   *)
CommitUsername(w) ==
    LET r == work[w]
    IN  /\ Committing(w, "username")
        /\ ManagedTarget(r)
        /\ Write(r.target, NextVersion(account[r.target]), person[r.target])

WithRole(a, role) == [NextVersion(a) EXCEPT !.role = role]

CommitRole(w) ==
    LET r == work[w]
    IN  /\ Committing(w, "role")
        /\ ManagedTarget(r)
        /\ account[r.target].role # r.role
        /\ r.target = r.session.owner => r.role = "Administrator"
        /\ Write(r.target, WithRole(account[r.target], r.role), person[r.target])

CommitDisable(w) ==
    LET r == work[w]
    IN  /\ Committing(w, "disable")
        /\ ManagedTarget(r)
        /\ r.target # r.session.owner
        /\ account[r.target].enabled
        /\ Write(r.target, Disabled(account[r.target]),
                 LoginSynced(person[r.target], FALSE))

(* A mutant: the temporary password may be kept.                           *)
WithLastingPassword(a) == [Rekeyed(a, FALSE) EXCEPT !.enabled = TRUE]

(* setAdministrativeTemporaryPassword, which always writes is_enabled.     *)
WithTemporaryPassword(a) == [Rekeyed(a, TRUE) EXCEPT !.enabled = TRUE]

(* The service does not look at the person; staff_account_eligibility does. *)
CommitReactivate(w) ==
    LET r == work[w]
    IN  /\ Committing(w, "reactivate")
        /\ ManagedTarget(r)
        /\ ~account[r.target].enabled
        /\ person[r.target].active
        /\ Write(r.target, WithTemporaryPassword(account[r.target]),
                 LoginSynced(person[r.target], TRUE))

CommitReset(w) ==
    LET r == work[w]
    IN  /\ Committing(w, "reset")
        /\ ManagedTarget(r)
        /\ r.target # r.session.owner
        /\ account[r.target].enabled
        /\ Write(r.target, WithTemporaryPassword(account[r.target]),
                 LoginSynced(person[r.target], TRUE))

(* changeOwnPassword, the current password having been confirmed.          *)
CommitOwnPassword(w) ==
    LET r == work[w]
        p == r.session.owner
    IN  /\ Committing(w, "own-password")
        /\ ValidSession(r.session)
        /\ Write(p, Rekeyed(account[p], FALSE), person[p])

-----------------------------------------------------------------------------
(* Staff management on the person's row: staff_lock_person compares the    *)
(* row version again inside the transaction.                               *)
StaffTarget(r) ==
    /\ StaffAdministrator(r)
    /\ person[r.target].rowVersion = r.expected

(* update, rename and alias operations, as far as this module sees them.   *)
CommitEdit(w) ==
    LET r == work[w]
    IN  /\ Committing(w, "edit")
        /\ StaffTarget(r)
        /\ Write(r.target, account[r.target], NextRow(person[r.target]))

(* Deactivating takes the account along; an assigned reviewer and one's    *)
(* own person are refused.                                                 *)
CommitDeactivate(w) ==
    LET r == work[w]
    IN  /\ Committing(w, "deactivate")
        /\ StaffTarget(r)
        /\ r.target # r.session.owner
        /\ person[r.target].active
        /\ r.target \notin Reviewers
        /\ Write(r.target, DisabledWithPerson(account[r.target]),
                 WithActive(person[r.target], FALSE, FALSE))

(* Reactivating restores employment only; the account stays disabled.      *)
CommitReactivatePerson(w) ==
    LET r == work[w]
    IN  /\ Committing(w, "reactivate-person")
        /\ StaffTarget(r)
        /\ ~person[r.target].active
        /\ Write(r.target, account[r.target],
                 WithActive(person[r.target], TRUE, account[r.target].enabled))

-----------------------------------------------------------------------------
Admit(w) ==
    \E s \in sessions :
        \/ \E operation \in UserOperations \cup StaffOperations, p \in Person, role \in Roles :
              AdmitManagement(w, s, operation, p, role)
        \/ AdmitOwnPassword(w, s)

Commit(w) ==
    \/ CommitCreate(w)
    \/ CommitUsername(w)
    \/ CommitRole(w)
    \/ CommitDisable(w)
    \/ CommitReactivate(w)
    \/ CommitReset(w)
    \/ CommitOwnPassword(w)
    \/ CommitEdit(w)
    \/ CommitDeactivate(w)
    \/ CommitReactivatePerson(w)

Next ==
    \/ \E p \in Person : \/ SignInRefused(p)
                         \/ SignIn(p)
                         \/ LockElapses(p)
                         \/ SetApprovedAccountPassword(p)
    \/ \E s \in sessions : SessionEnds(s)
    \/ \E w \in Worker : Admit(w) \/ Commit(w) \/ Abandon(w)

Spec == Init /\ [][Next]_vars

-----------------------------------------------------------------------------
(* The sessions somebody can still act under: in a cookie, or carried by a *)
(* request that was admitted with it.                                      *)
Carried == {work[w].session : w \in {v \in Worker : work[v] # Idle}}
Held == sessions \cup Carried

(* A session with the account's current session_version belongs to an      *)
(* account that may sign in: whoever disables an account, deactivates its  *)
(* person or replaces its password raises the version in the same          *)
(* transaction, so the version alone decides about old cookies and about   *)
(* the requests that were admitted with them.                              *)
SessionsSound ==
    \A s \in Held :
        /\ s.version <= account[s.owner].version
        /\ s.version = account[s.owner].version =>
              /\ account[s.owner].enabled
              /\ account[s.owner].password # 0
              /\ person[s.owner].active
              /\ person[s.owner].canLogin

(* An account is enabled only for an active person and can_login follows   *)
(* is_enabled, across user management and roster management alike.         *)
EligibilityInSync ==
    \A p \in Person : /\ account[p].enabled => person[p].active
                      /\ person[p].canLogin <=> account[p].enabled

(* A session that was revoked is never revived: not by reactivating the    *)
(* person, the account or both, nor by a role or password change (D46).    *)
(* That holds for cookies and for what requests in progress carry.         *)
RevokedSessionsStayRevoked ==
    [][\A s \in Held : ~ValidSession(s) => ~ValidSession(s)']_vars

(* Once somebody can administer the system, the service alone never leaves *)
(* it without a usable Administrator, whatever requests of several         *)
(* Administrators against each other are in progress (D37).                *)
HasUsableAdministrator == \E p \in Person : Usable(p)
AdministratorRetained ==
    [][HasUsableAdministrator => HasUsableAdministrator']_vars

(* A change to staff status is committed only while the session it was     *)
(* admitted with is still valid: staff management re-reads the session in  *)
(* its transaction, however long ago the request was admitted.             *)
StaffCommitsAreCurrent ==
    [][\A p \in Person : \A w \in Worker :
          (/\ person[p].active # person'[p].active
           /\ work[w] # Idle /\ work'[w] = Idle)
          => ValidSession(work[w].session)]_vars

(* A raised session_version invalidates every older session                *)
(* (DATA-MODEL.md): nothing is committed on behalf of one.  User           *)
(* management reads the actor's row again in its transaction, but not the  *)
(* session version the request was admitted with.                          *)
CommitsAreCurrent ==
    [][\A w \in Worker :
          (work[w] # Idle /\ work'[w] = Idle /\ rows' # rows)
          => ValidSession(work[w].session)]_vars

(* Every step of the service is one the database boundary admits: none of  *)
(* the triggers the actions above leave out would have refused it.         *)
Boundary == INSTANCE AccountBoundary
ImplementsBoundary == Boundary!Promise
=============================================================================

-------------------------- MODULE AccountBoundary --------------------------
(***************************************************************************)
(* What the database alone promises about accounts: the account rows any   *)
(* statement of the runtime role can produce, given the triggers and the   *)
(* gateways it must pass.  The service (module Accounts) is one client of  *)
(* this boundary and is shown to implement it.                             *)
(***************************************************************************)
EXTENDS AccountRows

CONSTANTS
    InitialRole,   \* the role of each person that has one of the seeded accounts
    Reviewers,     \* the people assigned as team reviewers
    NoHuman        \* the actor of a statement no person stands behind

VARIABLES account, person

vars == <<account, person>>

Usable(p) == UsableAdministrator(account[p], person[p])

AnotherUsable(p) == \E q \in Person \ {p} : Usable(q)

(* The seeded accounts are enabled and have no password yet.               *)
Init ==
    /\ account = [p \in Person |->
                    IF p \in DOMAIN InitialRole
                    THEN SeededAccount(InitialRole[p])
                    ELSE NoAccount]
    /\ person = [p \in Person |->
                    [active |-> TRUE, canLogin |-> p \in DOMAIN InitialRole,
                     rowVersion |-> 1]]

-----------------------------------------------------------------------------
(* guard_user_account_security, on the old and the new row.                *)
SecurityGuard(old, new) ==
    LET rekeyed   == new.password # old.password
        toggled   == new.enabled # old.enabled
    IN  /\ new.version >= old.version
        /\ old.password # 0 => new.password # 0
        /\ (rekeyed \/ toggled \/ new.role # old.role) => new.version = old.version + 1
        /\ (rekeyed \/ toggled) => new.failures = 0 /\ new.lock = "open"
        /\ new.enabled /\ ~old.enabled => rekeyed /\ new.mustChange

(* guard_usable_administrator, on a row of user_accounts.                  *)
AvailabilityGuard(actor, p, new) ==
    /\ (/\ account[p].role = "Administrator"
        /\ (account[p].enabled /\ ~new.enabled) \/ new.role # "Administrator")
       => actor # p
    /\ (Usable(p) /\ ~UsableAdministrator(new, person[p])) => AnotherUsable(p)

(* staff_account_eligibility.                                              *)
EligibilityGuard(p, new) ==
    new.enabled /\ ~account[p].enabled => person[p].active

(* Any UPDATE of one account row that the triggers let through.            *)
UpdateAccount(actor, p, new) ==
    LET synced == IF new.enabled = account[p].enabled THEN person[p]
                  ELSE LoginSynced(person[p], new.enabled)
    IN  /\ account[p].exists
        /\ new \in AccountRow
        /\ new.exists
        /\ new.password \in {account[p].password, new.version + 1}
        /\ ShapeConstraints(new)
        /\ SecurityGuard(account[p], new)
        /\ AvailabilityGuard(actor, p, new)
        /\ EligibilityGuard(p, new)
        /\ Storable(new, synced)
        /\ account' = [account EXCEPT ![p] = new]
        /\ person' = [person EXCEPT ![p] = synced]

(* create_user_account_with_actor: the only way to a new account.          *)
CreateAccount(p, role) ==
    /\ \E actor \in Person : Usable(actor)
    /\ person[p].active
    /\ ~account[p].exists
    /\ Storable(NewAccount(role), LoginSynced(person[p], TRUE))
    /\ account' = [account EXCEPT ![p] = NewAccount(role)]
    /\ person' = [person EXCEPT ![p] = LoginSynced(person[p], TRUE)]

(* staff_update_person writing is_active, with staff_person_guard,         *)
(* guard_usable_administrator on people, and the cascade to the account.   *)
SetActive(actor, p, active) ==
    LET disabled == IF active THEN account[p] ELSE DisabledWithPerson(account[p])
        changed  == WithActive(person[p], active, disabled.enabled)
    IN  /\ Usable(actor)
        /\ person[p].active # active
        /\ ~active => /\ actor # p
                      /\ p \notin Reviewers
                      /\ Usable(p) => AnotherUsable(p)
        /\ Storable(disabled, changed)
        /\ account' = [account EXCEPT ![p] = disabled]
        /\ person' = [person EXCEPT ![p] = changed]

(* Every other roster write on the person: only the version moves.         *)
EditPerson(actor, p) ==
    /\ Usable(actor)
    /\ person[p].rowVersion < MaxRowVersion
    /\ person' = [person EXCEPT ![p] = NextRow(person[p])]
    /\ UNCHANGED account

(* The clock passes locked_until.                                          *)
LockElapses(p) ==
    /\ account[p].lock = "locked"
    /\ account' = [account EXCEPT ![p] = LockElapsed(account[p])]
    /\ UNCHANGED person

(* Every statement writes one account or one person.  The row written is  *)
(* read off the second state: the form to hold another specification to.   *)
Step ==
    \E p \in Person :
        \/ \E actor \in Person \cup {NoHuman} : UpdateAccount(actor, p, account'[p])
        \/ CreateAccount(p, account'[p].role)
        \/ \E actor \in Person : SetActive(actor, p, person'[p].active)
        \/ \E actor \in Person : EditPerson(actor, p)
        \/ LockElapses(p)

Promise == Init /\ [][Step]_vars
=============================================================================

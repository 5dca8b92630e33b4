---------------------------- MODULE AccountRows ----------------------------
(***************************************************************************)
(* The two rows the account life cycle is about, as the migrations declare *)
(* them: user_accounts and the part of people that signing in depends on.  *)
(* An account belongs to exactly one person and never moves to another one *)
(* (UNIQUE(person_id), guard_user_account_security), so both tables are    *)
(* functions of the person; an account that has not been created yet is a  *)
(* row with exists = FALSE.                                                *)
(*                                                                         *)
(* A password is the session version at which its hash was stored, plus    *)
(* one; 0 is the NULL hash of an account that was never initialised.  Each *)
(* stored hash is salted afresh, so two different writes never store equal *)
(* hashes, and every write of a hash raises the session version.           *)
(***************************************************************************)
EXTENDS Integers

CONSTANTS
    Person,           \* the internal staff people
    Roles,            \* the fixed role codes
    LockoutFailures,  \* the failed attempt that locks the account
    MaxVersion,       \* the largest value the session_version column stores
    MaxRowVersion     \* the largest value the people.row_version column stores

ASSUME RolesAssumption == "Administrator" \in Roles
ASSUME LockoutAssumption == LockoutFailures \in Nat \ {0}
ASSUME VersionAssumption == MaxVersion \in Nat /\ MaxRowVersion \in Nat \ {0}

(* locked_until is NULL ("open"), in the future ("locked") or in the past  *)
(* ("elapsed"): a past lock stays in the row until the next attempt.       *)
LockStates == {"open", "locked", "elapsed"}

AccountRow ==
    [exists     : BOOLEAN,
     role       : Roles,
     enabled    : BOOLEAN,
     password   : Nat,
     mustChange : BOOLEAN,
     failures   : 0..LockoutFailures,
     lock       : LockStates,
     version    : 0..MaxVersion]

PersonRow ==
    [active     : BOOLEAN,
     canLogin   : BOOLEAN,
     rowVersion : 1..MaxRowVersion]

(* The row of a person without an account; its other fields mean nothing.  *)
NoAccount ==
    [exists |-> FALSE, role |-> "Administrator", enabled |-> FALSE,
     password |-> 0, mustChange |-> TRUE, failures |-> 0, lock |-> "open",
     version |-> 0]

(* The table's CHECK constraints that relate two columns.                  *)
ShapeConstraints(a) ==
    /\ (a.failures = LockoutFailures) <=> (a.lock # "open")
    /\ a.password = 0 => a.mustChange /\ a.failures = 0 /\ a.lock = "open"

(* user_account_is_usable_administrator: what both the service and the     *)
(* database mean by an Administrator who can act.                          *)
UsableAdministrator(a, q) ==
    /\ a.exists
    /\ a.role = "Administrator"
    /\ a.enabled
    /\ a.password # 0
    /\ q.active
    /\ q.canLogin

(* Every write of the people row counts in row_version (staff_person_guard) *)
(* and every security write of an account in session_version.              *)
NextRow(q) == [q EXCEPT !.rowVersion = @ + 1]
NextVersion(a) == [a EXCEPT !.version = @ + 1]

(* The lockout columns as a security write leaves them.                    *)
Unlocked(a) == [a EXCEPT !.failures = 0, !.lock = "open"]

(* The same columns when the clock passes locked_until.                    *)
LockElapsed(a) == [a EXCEPT !.lock = "elapsed"]

(* A freshly stored hash.                                                  *)
Rekeyed(a, mustChange) ==
    [NextVersion(Unlocked(a)) EXCEPT !.password = a.version + 2,
                                     !.mustChange = mustChange]

Disabled(a) == [NextVersion(Unlocked(a)) EXCEPT !.enabled = FALSE]

(* create_user_account_with_actor: enabled, with a temporary password.     *)
NewAccount(role) ==
    [exists |-> TRUE, role |-> role, enabled |-> TRUE, password |-> 1,
     mustChange |-> TRUE, failures |-> 0, lock |-> "open", version |-> 0]

(* The accounts the authentication migration inserts: no password yet.     *)
SeededAccount(role) == [NewAccount(role) EXCEPT !.password = 0]

(* sync_user_account_person_login with enforce_person_login_eligibility:   *)
(* can_login is recomputed whenever the account appears or its is_enabled  *)
(* is written; only a real change of it counts as a write.                 *)
LoginSynced(q, enabled) ==
    LET can == q.active /\ enabled
    IN  IF q.canLogin <=> can THEN q ELSE [NextRow(q) EXCEPT !.canLogin = can]

(* Mutants of the next definition: the account is left alone, or disabled  *)
(* without a new session version.                                          *)
AccountLeftAlone(a) == a
DisabledAtOldVersion(a) ==
    IF a.exists THEN [Unlocked(a) EXCEPT !.enabled = FALSE] ELSE a

(* staff_person_lifecycle: deactivating a person disables the account it   *)
(* has, enabled or not, in the same transaction.                           *)
DisabledWithPerson(a) == IF a.exists THEN Disabled(a) ELSE a

(* The people row after is_active was written, with the recomputed         *)
(* can_login of people_login_eligibility_guard.                            *)
WithActive(q, active, enabled) ==
    [NextRow(q) EXCEPT !.active = active, !.canLogin = active /\ enabled]

(* The integer columns refuse a value past their largest one.              *)
Storable(a, q) == a.version <= MaxVersion /\ q.rowVersion <= MaxRowVersion
=============================================================================

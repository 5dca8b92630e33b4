--------------------------- MODULE AccountsProofs ---------------------------
(* Theorems about module Accounts, for any people, roles, workers, bounds; *)
(* the last part shows that it implements AccountBoundary.                 *)
EXTENDS Accounts, TLAPS

(* Rows before the integer columns have had their say: what the row        *)
(* operators return.                                                       *)
WideAccount ==
    [exists : BOOLEAN, role : Roles, enabled : BOOLEAN, password : Nat,
     mustChange : BOOLEAN, failures : 0..LockoutFailures, lock : LockStates,
     version : Nat]

WidePerson == [active : BOOLEAN, canLogin : BOOLEAN, rowVersion : Nat \ {0}]

USE RolesAssumption, LockoutAssumption, VersionAssumption

(* A row that fits the columns has the type of the table.                  *)
LEMMA StorableRow ==
    ASSUME NEW a \in WideAccount, NEW q \in WidePerson, Storable(a, q)
    PROVE  a \in AccountRow /\ q \in PersonRow
  BY DEF WideAccount, WidePerson, Storable, AccountRow, PersonRow

(* Rows of the tables are rows in the wide sense.                          *)
LEMMA RowIsWide ==
    /\ \A a \in AccountRow : a \in WideAccount
    /\ \A q \in PersonRow : q \in WidePerson
  BY DEF WideAccount, WidePerson, AccountRow, PersonRow

(* NextVersion raises the version by one and touches nothing else.         *)
LEMMA NextVersionFields ==
    ASSUME NEW a \in WideAccount
    PROVE  LET b == NextVersion(a)
           IN  /\ b \in WideAccount
               /\ b.exists = a.exists /\ b.role = a.role
               /\ b.enabled = a.enabled /\ b.password = a.password
               /\ b.mustChange = a.mustChange /\ b.failures = a.failures
               /\ b.lock = a.lock /\ b.version = a.version + 1
  BY DEF WideAccount, NextVersion

(* Unlocked clears the two lockout columns and touches nothing else.       *)
LEMMA UnlockedFields ==
    ASSUME NEW a \in WideAccount
    PROVE  LET b == Unlocked(a)
           IN  /\ b \in WideAccount
               /\ b.exists = a.exists /\ b.role = a.role
               /\ b.enabled = a.enabled /\ b.password = a.password
               /\ b.mustChange = a.mustChange /\ b.failures = 0
               /\ b.lock = "open" /\ b.version = a.version
  <1>1. 0 \in 0..LockoutFailures /\ "open" \in LockStates
    BY DEF LockStates
  <1>2. Unlocked(a) = [a EXCEPT !.failures = 0, !.lock = "open"]
    BY DEF Unlocked
  <1>3. QED
    BY <1>1, <1>2 DEF WideAccount

(* Rekeyed stores a fresh hash, clears the lockout, raises the version.    *)
LEMMA RekeyedFields ==
    ASSUME NEW a \in WideAccount, NEW must \in BOOLEAN
    PROVE  LET b == Rekeyed(a, must)
           IN  /\ b \in WideAccount
               /\ b.exists = a.exists /\ b.role = a.role
               /\ b.enabled = a.enabled /\ b.password = a.version + 2 /\ b.password # 0
               /\ b.mustChange = must /\ b.failures = 0
               /\ b.lock = "open" /\ b.version = a.version + 1
  <1> DEFINE u == Unlocked(a)
             v == NextVersion(u)
             w == [v EXCEPT !.password = a.version + 2]
  <1>1. /\ u \in WideAccount
        /\ u.exists = a.exists /\ u.role = a.role
        /\ u.enabled = a.enabled /\ u.failures = 0
        /\ u.lock = "open" /\ u.version = a.version
    BY UnlockedFields
  <1>2. /\ v \in WideAccount
        /\ v.exists = a.exists /\ v.role = a.role
        /\ v.enabled = a.enabled /\ v.failures = 0
        /\ v.lock = "open" /\ v.version = a.version + 1
    <2> HIDE DEF u
    <2> QED BY <1>1, NextVersionFields
  <1>3. a.version + 2 \in Nat /\ a.version + 2 # 0
    BY DEF WideAccount
  <1>4. Rekeyed(a, must) = [v EXCEPT !.password = a.version + 2, !.mustChange = must]
    BY DEF Rekeyed
  <1> HIDE DEF v
  <1>5. QED
    BY <1>2, <1>3, <1>4 DEF WideAccount

(* Disabled clears is_enabled and the lockout, raises the version.         *)
LEMMA DisabledFields ==
    ASSUME NEW a \in WideAccount
    PROVE  LET b == Disabled(a)
           IN  /\ b \in WideAccount
               /\ b.exists = a.exists /\ b.role = a.role
               /\ b.enabled = FALSE /\ b.password = a.password
               /\ b.mustChange = a.mustChange /\ b.failures = 0
               /\ b.lock = "open" /\ b.version = a.version + 1
  <1> DEFINE u == Unlocked(a)
             v == NextVersion(u)
  <1>1. /\ u \in WideAccount
        /\ u.exists = a.exists /\ u.role = a.role /\ u.password = a.password
        /\ u.mustChange = a.mustChange /\ u.failures = 0
        /\ u.lock = "open" /\ u.version = a.version
    BY UnlockedFields
  <1>2. /\ v \in WideAccount
        /\ v.exists = a.exists /\ v.role = a.role /\ v.password = a.password
        /\ v.mustChange = a.mustChange /\ v.failures = 0
        /\ v.lock = "open" /\ v.version = a.version + 1
    <2> HIDE DEF u
    <2> QED BY <1>1, NextVersionFields
  <1>3. Disabled(a) = [v EXCEPT !.enabled = FALSE]
    BY DEF Disabled
  <1> HIDE DEF v
  <1>4. QED
    BY <1>2, <1>3 DEF WideAccount

(* A temporary password re-enables the account besides rekeying it.        *)
LEMMA TemporaryPasswordFields ==
    ASSUME NEW a \in WideAccount
    PROVE  LET b == WithTemporaryPassword(a)
           IN  /\ b \in WideAccount
               /\ b.exists = a.exists /\ b.role = a.role
               /\ b.enabled = TRUE /\ b.password = a.version + 2 /\ b.password # 0
               /\ b.mustChange = TRUE /\ b.failures = 0
               /\ b.lock = "open" /\ b.version = a.version + 1
  <1> DEFINE v == Rekeyed(a, TRUE)
  <1>1. /\ v \in WideAccount
        /\ v.exists = a.exists /\ v.role = a.role
        /\ v.password = a.version + 2 /\ v.password # 0
        /\ v.mustChange = TRUE /\ v.failures = 0
        /\ v.lock = "open" /\ v.version = a.version + 1
    BY RekeyedFields
  <1>2. WithTemporaryPassword(a) = [v EXCEPT !.enabled = TRUE]
    BY DEF WithTemporaryPassword
  <1> HIDE DEF v
  <1>3. QED
    BY <1>1, <1>2 DEF WideAccount

(* A role change raises the version as well.                               *)
LEMMA WithRoleFields ==
    ASSUME NEW a \in WideAccount, NEW role \in Roles
    PROVE  LET b == WithRole(a, role)
           IN  /\ b \in WideAccount
               /\ b.exists = a.exists /\ b.role = role
               /\ b.enabled = a.enabled /\ b.password = a.password
               /\ b.mustChange = a.mustChange /\ b.failures = a.failures
               /\ b.lock = a.lock /\ b.version = a.version + 1
  <1> DEFINE v == NextVersion(a)
  <1>1. /\ v \in WideAccount
        /\ v.exists = a.exists /\ v.enabled = a.enabled
        /\ v.password = a.password
        /\ v.mustChange = a.mustChange /\ v.failures = a.failures
        /\ v.lock = a.lock /\ v.version = a.version + 1
    BY NextVersionFields
  <1>2. WithRole(a, role) = [v EXCEPT !.role = role]
    BY DEF WithRole
  <1> HIDE DEF v
  <1>3. QED
    BY <1>1, <1>2 DEF WideAccount

(* A wrong password touches the lockout columns only.                      *)
LEMMA WrongPasswordFields ==
    ASSUME NEW a \in WideAccount
    PROVE  LET b == AfterWrongPassword(a)
           IN  /\ b \in WideAccount
               /\ b.exists = a.exists /\ b.role = a.role
               /\ b.enabled = a.enabled /\ b.password = a.password
               /\ b.mustChange = a.mustChange /\ b.version = a.version
               /\ b.lock # "open" <=> b.failures = LockoutFailures
  <1> DEFINE counted  == PriorFailures(a) + 1
             failures == IF counted < LockoutFailures THEN counted ELSE LockoutFailures
             lock     == IF failures = LockoutFailures THEN "locked" ELSE "open"
  <1>1. failures \in 0..LockoutFailures
    BY DEF WideAccount, PriorFailures
  <1>2. lock \in LockStates /\ (lock # "open" <=> failures = LockoutFailures)
    BY DEF LockStates
  <1>3. AfterWrongPassword(a) = [a EXCEPT !.failures = failures, !.lock = lock]
    BY DEF AfterWrongPassword
  <1> HIDE DEF failures, lock
  <1>4. QED
    BY <1>1, <1>2, <1>3 DEF WideAccount

(* The clock touches the lock only.                                        *)
LEMMA LockElapsedFields ==
    ASSUME NEW a \in WideAccount
    PROVE  LET b == LockElapsed(a)
           IN  /\ b \in WideAccount
               /\ b.exists = a.exists /\ b.role = a.role
               /\ b.enabled = a.enabled /\ b.password = a.password
               /\ b.mustChange = a.mustChange /\ b.failures = a.failures
               /\ b.lock = "elapsed" /\ b.version = a.version
  BY DEF WideAccount, LockElapsed, LockStates

(* The three rows an account can start from.                               *)
LEMMA FreshRows ==
    ASSUME NEW role \in Roles
    PROVE  /\ NewAccount(role) \in AccountRow
           /\ NoAccount \in AccountRow
           /\ SeededAccount(role) \in AccountRow
           /\ SeededAccount(role).enabled = TRUE
           /\ SeededAccount(role).exists = TRUE
  <1>1. NewAccount(role) \in AccountRow
    BY DEF AccountRow, NewAccount, LockStates
  <1>2. NoAccount \in AccountRow
    BY DEF AccountRow, NoAccount, LockStates
  <1>3. SeededAccount(role) \in AccountRow
    BY <1>1 DEF AccountRow, SeededAccount
  <1>4. QED
    BY <1>1, <1>2, <1>3 DEF SeededAccount, NewAccount

(* What the roster operators make of a people row.                         *)
LEMMA PersonFields ==
    ASSUME NEW q \in WidePerson, NEW active \in BOOLEAN, NEW enabled \in BOOLEAN
    PROVE  /\ NextRow(q) \in WidePerson
           /\ NextRow(q).active = q.active /\ NextRow(q).canLogin = q.canLogin
           /\ LoginSynced(q, enabled) \in WidePerson
           /\ LoginSynced(q, enabled).active = q.active
           /\ LoginSynced(q, enabled).canLogin <=> (q.active /\ enabled)
           /\ WithActive(q, active, enabled) \in WidePerson
           /\ WithActive(q, active, enabled).active = active
           /\ WithActive(q, active, enabled).canLogin = (active /\ enabled)
  <1> DEFINE n == NextRow(q)
  <1>1. n \in WidePerson /\ n.active = q.active /\ n.canLogin = q.canLogin
    BY DEF WidePerson, NextRow
  <1>2. \A can \in BOOLEAN :
            LET b == [n EXCEPT !.canLogin = can]
            IN  b \in WidePerson /\ b.active = q.active /\ b.canLogin = can
    <2> HIDE DEF n
    <2> QED BY <1>1 DEF WidePerson
  <1>3. \A can \in BOOLEAN :
            LET b == [n EXCEPT !.active = active, !.canLogin = can]
            IN  b \in WidePerson /\ b.active = active /\ b.canLogin = can
    <2> HIDE DEF n
    <2> QED BY <1>1 DEF WidePerson
  <1>4. /\ LoginSynced(q, enabled) \in WidePerson
        /\ LoginSynced(q, enabled).active = q.active
        /\ LoginSynced(q, enabled).canLogin <=> (q.active /\ enabled)
    <2>1. (q.active /\ enabled) \in BOOLEAN
      OBVIOUS
    <2> HIDE DEF n
    <2>2. CASE q.canLogin <=> (q.active /\ enabled)
      BY <2>2 DEF LoginSynced
    <2>3. CASE ~(q.canLogin <=> (q.active /\ enabled))
      <3>1. LoginSynced(q, enabled) = [n EXCEPT !.canLogin = (q.active /\ enabled)]
        BY <2>3 DEF LoginSynced, n
      <3>2. QED BY <3>1, <2>1, <1>2
    <2>4. QED BY <2>2, <2>3
  <1>5. WithActive(q, active, enabled)
          = [n EXCEPT !.active = active, !.canLogin = (active /\ enabled)]
    BY DEF WithActive
  <1>6. (active /\ enabled) \in BOOLEAN
    OBVIOUS
  <1>7. /\ WithActive(q, active, enabled) \in WidePerson
        /\ WithActive(q, active, enabled).active = active
        /\ WithActive(q, active, enabled).canLogin = (active /\ enabled)
    <2> HIDE DEF n
    <2> QED BY <1>3, <1>5, <1>6
  <1>8. QED
    BY <1>1, <1>4, <1>7

-----------------------------------------------------------------------------
(* The inductive invariant.  A row is sound by itself: eligibility is in   *)
(* sync, nothing is enabled that does not exist, a row without an account  *)
(* has version 0, no hash is newer than its row, and the CHECK constraints *)
(* hold.                                                                   *)
RowSound(a, q) ==
    /\ a.enabled => q.active
    /\ q.canLogin <=> a.enabled
    /\ a.enabled => a.exists
    /\ ~a.exists => a.version = 0
    /\ a.password <= a.version + 1
    /\ ShapeConstraints(a)

RowsSound == \A p \in Person : RowSound(account[p], person[p])

IInv == TypeOK /\ RowsSound /\ SessionsSound

(* What every write of the service does to a pair of rows: the result is   *)
(* typed and sound, the version does not fall, and while it stands still   *)
(* the account does not stop being able to sign in.                        *)
Transition(p, b, c) ==
    /\ b \in AccountRow
    /\ c \in PersonRow
    /\ account' = [account EXCEPT ![p] = b]
    /\ person' = [person EXCEPT ![p] = c]
    /\ RowSound(b, c)
    /\ b.version >= account[p].version
    /\ b.version = account[p].version =>
          /\ account[p].enabled => b.enabled
          /\ account[p].password # 0 => b.password # 0

(* No session appears but the one of an account that may sign in.          *)
SessionsGrowSoundly ==
    /\ sessions' \subseteq Session
    /\ \A s \in Held' \ Held :
          /\ s.version = account'[s.owner].version
          /\ account'[s.owner].enabled
          /\ account'[s.owner].password # 0

(* The fields of the typed tables.                                         *)
LEMMA RowTypes ==
    ASSUME TypeOK, NEW p \in Person
    PROVE  /\ account[p] \in AccountRow /\ account[p] \in WideAccount
           /\ person[p] \in PersonRow /\ person[p] \in WidePerson
           /\ account[p].exists \in BOOLEAN /\ account[p].enabled \in BOOLEAN
           /\ account[p].mustChange \in BOOLEAN /\ account[p].role \in Roles
           /\ account[p].version \in 0..MaxVersion /\ account[p].version \in Nat
           /\ account[p].password \in Nat /\ account[p].failures \in Nat
           /\ person[p].active \in BOOLEAN /\ person[p].canLogin \in BOOLEAN
           /\ person[p].rowVersion \in Nat
  <1>1. account[p] \in AccountRow /\ person[p] \in PersonRow
    BY DEF TypeOK
  <1>2. account[p] \in WideAccount /\ person[p] \in WidePerson
    BY <1>1, RowIsWide
  <1>3. QED
    BY <1>1, <1>2 DEF AccountRow, PersonRow

(* A Write of wide rows that are sound is a Transition.                    *)
LEMMA WriteIsTransition ==
    ASSUME TypeOK, NEW p \in Person, NEW a \in WideAccount,
           NEW q \in WidePerson, Write(p, a, q), RowSound(a, q),
           a.version >= account[p].version,
           a.version = account[p].version =>
             /\ account[p].enabled => a.enabled
             /\ account[p].password # 0 => a.password # 0
    PROVE  Transition(p, a, q)
  <1>1. a \in AccountRow /\ q \in PersonRow
    BY StorableRow DEF Write
  <1>2. QED
    BY <1>1 DEF Write, Transition

(* Cookies and requests hold typed sessions.                               *)
LEMMA HeldTyped == TypeOK => Held \subseteq Session
  BY DEF TypeOK, Held, Carried, Request

(* A Transition keeps the invariant.                                       *)
LEMMA TransitionKeepsIInv ==
    ASSUME IInv, NEW p \in Person, NEW b, NEW c, Transition(p, b, c),
           SessionsGrowSoundly, work' \in [Worker -> Request \cup {Idle}]
    PROVE  IInv'
  <1>1. account' \in [Person -> AccountRow] /\ person' \in [Person -> PersonRow]
    BY DEF IInv, TypeOK, Transition
  <1>2. TypeOK'
    BY <1>1 DEF TypeOK, SessionsGrowSoundly
  <1>3. /\ account'[p] = b /\ person'[p] = c
        /\ \A x \in Person \ {p} : account'[x] = account[x] /\ person'[x] = person[x]
    BY DEF IInv, TypeOK, Transition
  <1>4. RowsSound'
    <2>1. \A x \in Person : RowSound(account'[x], person'[x])
      BY <1>3 DEF IInv, RowsSound, Transition
    <2>2. QED
      BY <2>1 DEF RowsSound
  <1>5. SessionsSound'
    <2> SUFFICES ASSUME NEW s \in Held'
                 PROVE  /\ s.version <= account'[s.owner].version
                        /\ s.version = account'[s.owner].version =>
                             /\ account'[s.owner].enabled
                             /\ account'[s.owner].password # 0
                             /\ person'[s.owner].active
                             /\ person'[s.owner].canLogin
      BY DEF SessionsSound
    <2> Held' \subseteq Session
      BY <1>2 DEF TypeOK, Held, Carried, Request, Session
    <2>1. s.owner \in Person /\ s.version \in Nat
      BY DEF Session
    <2>2. account'[s.owner].enabled => person'[s.owner].active /\ person'[s.owner].canLogin
      BY <2>1, <1>4 DEF RowsSound, RowSound
    <2>3. account'[s.owner].version \in Nat /\ account[s.owner].version \in Nat
      BY <2>1, <1>1 DEF IInv, TypeOK, AccountRow
    <2>4. CASE s \notin Held
      BY <2>4, <2>1, <2>2, <2>3 DEF SessionsGrowSoundly
    <2>5. CASE s \in Held /\ s.owner # p
      BY <2>5, <2>1, <1>3 DEF IInv, SessionsSound
    <2>6. CASE s \in Held /\ s.owner = p
      <3>1. /\ s.version <= account[p].version
            /\ s.version = account[p].version =>
                  account[p].enabled /\ account[p].password # 0
        BY <2>6 DEF IInv, SessionsSound
      <3>2. account'[p].version >= account[p].version
        BY <1>3 DEF Transition
      <3>3. ASSUME s.version = account'[p].version
            PROVE  account'[p].enabled /\ account'[p].password # 0
        <4>1. account'[p].version = account[p].version
          BY <3>1, <3>2, <3>3, <2>3, <2>1, <2>6
        <4>2. account[p].enabled /\ account[p].password # 0
          BY <4>1, <3>1, <3>3
        <4>3. QED
          BY <4>1, <4>2, <1>3 DEF Transition
      <3>4. QED
        BY <3>1, <3>2, <3>3, <2>1, <2>2, <2>3, <2>6
    <2>7. QED
      BY <2>4, <2>5, <2>6
  <1>6. QED
    BY <1>2, <1>4, <1>5 DEF IInv

(* Sessions that merely disappear disturb nothing.                         *)
LEMMA SameSessions ==
    ASSUME TypeOK, sessions' \subseteq sessions, Held' \subseteq Held
    PROVE  SessionsGrowSoundly
  BY DEF TypeOK, SessionsGrowSoundly

(* A step that leaves both tables alone and holds nothing new keeps it too. *)
LEMMA SameRowsKeepIInv ==
    ASSUME IInv, UNCHANGED rows, sessions' \subseteq sessions, Held' \subseteq Held,
           work' \in [Worker -> Request \cup {Idle}]
    PROVE  IInv'
  <1>1. account' = account /\ person' = person
    BY DEF rows
  <1>2. TypeOK'
    BY <1>1 DEF IInv, TypeOK
  <1>3. RowsSound'
    BY <1>1 DEF IInv, RowsSound
  <1>4. SessionsSound'
    BY <1>1 DEF IInv, SessionsSound
  <1>5. QED
    BY <1>2, <1>3, <1>4 DEF IInv

-----------------------------------------------------------------------------
(* Each row write of the service is a Transition of a row of Person.       *)
RowWrite == \E p \in Person : \E b, c : Transition(p, b, c)

(* The parts of a request, and the version its target will have.           *)
LEMMA RequestTypes ==
    ASSUME TypeOK, NEW w \in Worker, work[w] # Idle
    PROVE  /\ work[w] \in Request
           /\ work[w].target \in Person /\ work[w].role \in Roles
           /\ work[w].session \in Session
           /\ work[w].session.owner \in Person
           /\ work[w].session.version \in Nat
  <1>1. work[w] \in Request
    BY DEF TypeOK
  <1>2. work[w].session \in Session
    BY <1>1 DEF Request
  <1>3. QED
    BY <1>1, <1>2 DEF Request, Session

(* An attempt to sign in that fails.                                       *)
LEMMA SignInRefusedWrites ==
    ASSUME IInv, NEW p \in Person, SignInRefused(p)
    PROVE  RowWrite
  <1> DEFINE a == account[p]
             b == AfterWrongPassword(a)
  <1>1. TypeOK /\ RowSound(a, person[p])
    BY DEF IInv, RowsSound
  <1>2. a \in AccountRow /\ a \in WideAccount /\ person[p] \in PersonRow
    BY <1>1, RowTypes
  <1>3. /\ b \in WideAccount
        /\ b.exists = a.exists /\ b.enabled = a.enabled
        /\ b.password = a.password /\ b.version = a.version
        /\ b.lock # "open" <=> b.failures = LockoutFailures
    BY <1>2, WrongPasswordFields
  <1>4. b \in AccountRow
    BY <1>2, <1>3 DEF AccountRow, WideAccount
  <1>5. RowSound(b, person[p])
    <2> HIDE DEF b
    <2> QED BY <1>1, <1>3 DEF RowSound, ShapeConstraints, SignInRefused, MaySignIn
  <1>6. person' = [person EXCEPT ![p] = person[p]]
    BY <1>1 DEF SignInRefused, TypeOK
  <1>7. account' = [account EXCEPT ![p] = b]
    BY DEF SignInRefused
  <1> HIDE DEF b
  <1>8. b.version >= a.version
    BY <1>2, <1>3 DEF AccountRow
  <1>9. Transition(p, b, person[p])
    BY <1>2, <1>3, <1>4, <1>5, <1>6, <1>7, <1>8 DEF Transition
  <1>10. QED
    BY <1>9 DEF RowWrite

(* A successful one.                                                       *)
LEMMA SignInWrites ==
    ASSUME IInv, NEW p \in Person, SignIn(p)
    PROVE  RowWrite /\ SessionsGrowSoundly
  <1> DEFINE a == account[p]
             b == Unlocked(a)
             s == [owner |-> p, version |-> a.version]
  <1>1. TypeOK /\ RowSound(a, person[p])
    BY DEF IInv, RowsSound
  <1>2. a \in AccountRow /\ a \in WideAccount /\ person[p] \in PersonRow
    BY <1>1, RowTypes
  <1>3. /\ b \in WideAccount
        /\ b.exists = a.exists /\ b.enabled = a.enabled
        /\ b.password = a.password /\ b.version = a.version
        /\ b.failures = 0 /\ b.lock = "open"
    BY <1>2, UnlockedFields
  <1>4. b \in AccountRow
    BY <1>2, <1>3 DEF AccountRow, WideAccount
  <1>5. RowSound(b, person[p])
    <2> HIDE DEF b
    <2> QED BY <1>1, <1>3 DEF RowSound, ShapeConstraints, SignIn, MaySignIn
  <1>6. person' = [person EXCEPT ![p] = person[p]]
    BY <1>1 DEF SignIn, TypeOK
  <1>7. account' = [account EXCEPT ![p] = b]
    BY DEF SignIn
  <1>8. sessions' = sessions \cup {s}
    BY DEF SignIn
  <1>9. account'[p] = b
    BY <1>1, <1>7 DEF TypeOK
  <1>10. a.enabled /\ a.password # 0
    BY DEF SignIn, MaySignIn
  <1> HIDE DEF b
  <1>11. b.version >= a.version
    BY <1>2, <1>3 DEF AccountRow
  <1>12. Transition(p, b, person[p])
    BY <1>2, <1>3, <1>4, <1>5, <1>6, <1>7, <1>11 DEF Transition
  <1>13. s \in Session /\ s.owner = p /\ s.version = a.version
    BY <1>2 DEF Session, AccountRow
  <1> HIDE DEF s
  <1>14. SessionsGrowSoundly
    <2>1. Held' = Held \cup {s}
      BY <1>8 DEF SignIn, Held, Carried
    <2>2. QED
      BY <1>1, <1>3, <1>8, <1>9, <1>10, <1>13, <2>1 DEF SessionsGrowSoundly, TypeOK
  <1>15. QED
    BY <1>12, <1>14 DEF RowWrite

(* The clock.                                                              *)
LEMMA LockElapsesWrites ==
    ASSUME IInv, NEW p \in Person, LockElapses(p)
    PROVE  RowWrite
  <1> DEFINE a == account[p]
             b == LockElapsed(a)
  <1>1. TypeOK /\ RowSound(a, person[p])
    BY DEF IInv, RowsSound
  <1>2. a \in AccountRow /\ a \in WideAccount /\ person[p] \in PersonRow
    BY <1>1, RowTypes
  <1>3. /\ b \in WideAccount
        /\ b.exists = a.exists /\ b.enabled = a.enabled
        /\ b.password = a.password /\ b.version = a.version
        /\ b.failures = a.failures /\ b.lock = "elapsed"
    BY <1>2, LockElapsedFields
  <1>4. b \in AccountRow
    BY <1>2, <1>3 DEF AccountRow, WideAccount
  <1>5. RowSound(b, person[p])
    <2> HIDE DEF b
    <2> QED BY <1>1, <1>3 DEF RowSound, ShapeConstraints, LockElapses
  <1>6. person' = [person EXCEPT ![p] = person[p]]
    BY <1>1 DEF LockElapses, TypeOK
  <1>7. account' = [account EXCEPT ![p] = b]
    BY DEF LockElapses
  <1> HIDE DEF b
  <1>8. b.version >= a.version
    BY <1>2, <1>3 DEF AccountRow
  <1>9. Transition(p, b, person[p])
    BY <1>2, <1>3, <1>4, <1>5, <1>6, <1>7, <1>8 DEF Transition
  <1>10. QED
    BY <1>9 DEF RowWrite

(* Any write that raises the version by one and clears the lockout or      *)
(* leaves it alone is a Transition, provided eligibility stays in sync.    *)
LEMMA RaisingWrites ==
    ASSUME IInv, NEW p \in Person, NEW b \in WideAccount, NEW q \in WidePerson,
           Write(p, b, q),
           b.version = account[p].version + 1,
           b.exists, account[p].exists,
           b.password = account[p].password \/ b.password = account[p].version + 2,
           \/ b.failures = 0 /\ b.lock = "open"
           \/ /\ b.failures = account[p].failures /\ b.lock = account[p].lock
              /\ b.password = account[p].password
              /\ b.mustChange = account[p].mustChange,
           b.password = 0 => b.mustChange,
           b.enabled => q.active,
           q.canLogin <=> b.enabled
    PROVE  RowWrite
  <1>1. TypeOK /\ RowSound(account[p], person[p])
    BY DEF IInv, RowsSound
  <1>2. account[p].version \in Nat /\ account[p].password \in Nat
    BY <1>1, RowTypes
  <1>3. ShapeConstraints(b)
    BY <1>1 DEF RowSound, ShapeConstraints
  <1>4. b.password <= b.version + 1
    BY <1>1, <1>2 DEF RowSound
  <1>5. RowSound(b, q)
    BY <1>3, <1>4 DEF RowSound
  <1>6. Transition(p, b, q)
    BY <1>1, <1>2, <1>5, WriteIsTransition
  <1>7. QED
    BY <1>6 DEF RowWrite

(* The local password command.                                             *)
LEMMA ApprovedPasswordWrites ==
    ASSUME IInv, NEW p \in Person, SetApprovedAccountPassword(p)
    PROVE  RowWrite
  <1>1. TypeOK /\ RowSound(account[p], person[p])
    BY DEF IInv, RowsSound
  <1>2. account[p] \in WideAccount /\ person[p] \in WidePerson /\ account[p].version \in Nat
    BY <1>1, RowTypes
  <1>3. Write(p, Rekeyed(account[p], TRUE), person[p]) /\ account[p].exists
    BY DEF SetApprovedAccountPassword
  <1> DEFINE a == account[p]
             b == Rekeyed(a, TRUE)
  <1>4. /\ b \in WideAccount /\ b.exists = a.exists /\ b.enabled = a.enabled
        /\ b.password = a.version + 2 /\ b.password # 0
        /\ b.failures = 0 /\ b.lock = "open"
        /\ b.version = a.version + 1
    BY <1>2, RekeyedFields
  <1> HIDE DEF b
  <1>5. QED
    BY <1>1, <1>2, <1>3, <1>4, RaisingWrites DEF RowSound, b

(* The user-management operations on an account that exists: whatever they *)
(* write, they write it to a target with the expected version.             *)
LEMMA UserCommitWrites ==
    ASSUME IInv, NEW w \in Worker,
           \/ CommitUsername(w) \/ CommitRole(w) \/ CommitDisable(w)
           \/ CommitReactivate(w) \/ CommitReset(w)
    PROVE  RowWrite
  <1> DEFINE r == work[w]
             p == r.target
             a == account[p]
             q == person[p]
  <1>1. work[w] # Idle /\ ManagedTarget(r)
    BY DEF CommitUsername, CommitRole, CommitDisable, CommitReactivate,
           CommitReset, Committing
  <1>2. TypeOK
    BY DEF IInv
  <1>3. p \in Person /\ r.role \in Roles
    BY <1>1, <1>2, RequestTypes
  <1>4. a \in WideAccount /\ q \in WidePerson /\ a.version \in Nat /\ a.exists
    BY <1>1, <1>2, <1>3, RowTypes DEF ManagedTarget
  <1>5. RowSound(a, q)
    BY <1>3 DEF IInv, RowsSound
  <1>6. CASE CommitUsername(w)
    <2>1. Write(p, NextVersion(a), q)
      BY <1>6 DEF CommitUsername
    <2>2. QED
      <3> HIDE DEF a, q, p
      <3> QED BY <1>3, <1>4, <1>5, <2>1, NextVersionFields, RaisingWrites
                 DEF a, q, RowSound, ShapeConstraints
  <1>7. CASE CommitRole(w)
    <2>1. Write(p, WithRole(a, r.role), q)
      BY <1>7 DEF CommitRole
    <2>2. QED
      <3> HIDE DEF p
      <3> QED BY <1>3, <1>4, <1>5, <2>1, WithRoleFields, RaisingWrites
                 DEF RowSound, ShapeConstraints
  <1>8. CASE CommitDisable(w)
    <2>1. Write(p, Disabled(a), LoginSynced(q, FALSE))
      BY <1>8 DEF CommitDisable
    <2>2. LoginSynced(q, FALSE) \in WidePerson /\ ~LoginSynced(q, FALSE).canLogin
      BY <1>4, PersonFields
    <2> DEFINE b == Disabled(a)
               c == LoginSynced(q, FALSE)
    <2>3. /\ b \in WideAccount /\ b.exists = a.exists /\ b.enabled = FALSE
          /\ b.password = a.password /\ b.mustChange = a.mustChange
          /\ b.failures = 0 /\ b.lock = "open" /\ b.version = a.version + 1
      BY <1>4, DisabledFields
    <2>4. Write(p, b, c) /\ c \in WidePerson /\ ~c.canLogin
      BY <2>1, <2>2
    <2>5. b.password = 0 => b.mustChange
      BY <1>5, <2>3 DEF RowSound, ShapeConstraints
    <2> HIDE DEF b, c, p
    <2>6. QED
      BY <1>3, <1>4, <2>3, <2>4, <2>5, RaisingWrites
  <1>9. CASE CommitReactivate(w) \/ CommitReset(w)
    <2>1. Write(p, WithTemporaryPassword(a), LoginSynced(q, TRUE)) /\ q.active
      BY <1>5, <1>9 DEF CommitReactivate, CommitReset, RowSound
    <2>2. /\ LoginSynced(q, TRUE) \in WidePerson /\ LoginSynced(q, TRUE).active = q.active
          /\ LoginSynced(q, TRUE).canLogin <=> q.active
      BY <1>4, PersonFields
    <2> DEFINE b == WithTemporaryPassword(a)
    <2>3. /\ b \in WideAccount /\ b.exists = a.exists /\ b.enabled = TRUE
          /\ b.password = a.version + 2 /\ b.password # 0
        /\ b.failures = 0 /\ b.lock = "open"
          /\ b.version = a.version + 1
      BY <1>4, TemporaryPasswordFields
    <2> DEFINE c == LoginSynced(q, TRUE)
    <2>4. Write(p, b, c)
      BY <2>1
    <2>5. /\ c \in WidePerson
          /\ b.enabled => c.active
          /\ c.canLogin <=> b.enabled
      BY <2>1, <2>2, <2>3
    <2>6. b.password = 0 => b.mustChange
      BY <2>3
    <2> HIDE DEF b, c, p
    <2>7. QED
      BY <1>3, <1>4, <2>3, <2>4, <2>5, <2>6, RaisingWrites
  <1>10. QED
    BY <1>6, <1>7, <1>8, <1>9

(* The forced or voluntary change of one's own password.                   *)
LEMMA OwnPasswordWrites ==
    ASSUME IInv, NEW w \in Worker, CommitOwnPassword(w)
    PROVE  RowWrite
  <1> DEFINE r == work[w]
             p == r.session.owner
             a == account[p]
             q == person[p]
  <1>1. TypeOK /\ work[w] # Idle
    BY DEF IInv, CommitOwnPassword, Committing
  <1>2. p \in Person
    BY <1>1, RequestTypes
  <1>3. a \in WideAccount /\ q \in WidePerson /\ a.version \in Nat
    BY <1>1, <1>2, RowTypes
  <1>4. RowSound(a, q)
    BY <1>2 DEF IInv, RowsSound
  <1>5. Write(p, Rekeyed(a, FALSE), q)
    BY DEF CommitOwnPassword
  <1>6. a.exists
    BY <1>4 DEF CommitOwnPassword, ValidSession, RowSound
  <1> DEFINE b == Rekeyed(a, FALSE)
  <1>7. /\ b \in WideAccount /\ b.exists = a.exists /\ b.enabled = a.enabled
        /\ b.password = a.version + 2 /\ b.password # 0
        /\ b.failures = 0 /\ b.lock = "open"
        /\ b.version = a.version + 1
    BY <1>3, RekeyedFields
  <1>8. Write(p, b, q)
    BY <1>5
  <1> HIDE DEF b, p
  <1>9. QED
    BY <1>2, <1>3, <1>4, <1>6, <1>7, <1>8, RaisingWrites DEF RowSound

(* A new account.                                                          *)
LEMMA CreateWrites ==
    ASSUME IInv, NEW w \in Worker, CommitCreate(w)
    PROVE  RowWrite
  <1> DEFINE r == work[w]
             p == r.target
             b == NewAccount(r.role)
             c == LoginSynced(person[p], TRUE)
  <1>1. TypeOK /\ work[w] # Idle
    BY DEF IInv, CommitCreate, Committing
  <1>2. p \in Person /\ r.role \in Roles
    BY <1>1, RequestTypes
  <1>3. person[p] \in WidePerson /\ account[p].version \in Nat
    BY <1>1, <1>2, RowTypes
  <1>4. RowSound(account[p], person[p])
    BY <1>2 DEF IInv, RowsSound
  <1>5. Write(p, b, c) /\ person[p].active /\ ~account[p].exists
    BY DEF CommitCreate
  <1>6. b \in WideAccount
    BY <1>2, FreshRows, RowIsWide
  <1>7. c \in WidePerson /\ c.active /\ c.canLogin
    BY <1>3, <1>5, PersonFields
  <1>8. RowSound(b, c) /\ b.version = 0 /\ b.password # 0
    <2>1. /\ b.exists /\ b.enabled /\ b.version = 0 /\ b.password = 1
          /\ b.failures = 0 /\ b.lock = "open"
      BY DEF NewAccount
    <2> HIDE DEF b, c
    <2>2. QED
      BY <1>7, <2>1 DEF RowSound, ShapeConstraints
  <1>9. account[p].version = 0 /\ ~account[p].enabled
    BY <1>4, <1>5 DEF RowSound
  <1> HIDE DEF b, c, p
  <1>10. Transition(p, b, c)
    BY <1>1, <1>2, <1>5, <1>6, <1>7, <1>8, <1>9, WriteIsTransition
  <1>11. QED
    BY <1>2, <1>10 DEF RowWrite

(* Roster work on the person's row, deactivation included.                 *)
LEMMA StaffCommitWrites ==
    ASSUME IInv, NEW w \in Worker,
           CommitEdit(w) \/ CommitDeactivate(w) \/ CommitReactivatePerson(w)
    PROVE  RowWrite
  <1> DEFINE r == work[w]
             p == r.target
             a == account[p]
             q == person[p]
  <1>1. TypeOK /\ work[w] # Idle
    BY DEF IInv, CommitEdit, CommitDeactivate, CommitReactivatePerson, Committing
  <1>2. p \in Person
    BY <1>1, RequestTypes
  <1>3. a \in WideAccount /\ q \in WidePerson /\ a.version \in Nat /\ a.enabled \in BOOLEAN
    BY <1>1, <1>2, RowTypes
  <1>4. RowSound(a, q)
    BY <1>2 DEF IInv, RowsSound
  <1>5. CASE CommitEdit(w)
    <2> DEFINE c == NextRow(q)
    <2>1. Write(p, a, c)
      BY <1>5 DEF CommitEdit
    <2>2. c \in WidePerson /\ c.active = q.active /\ c.canLogin = q.canLogin
      BY <1>3, PersonFields
    <2> HIDE DEF c
    <2>3. RowSound(a, c)
      BY <1>4, <2>2 DEF RowSound
    <2> HIDE DEF p
    <2>4. Transition(p, a, c)
      BY <1>1, <1>2, <1>3, <2>1, <2>2, <2>3, WriteIsTransition
    <2>5. QED
      BY <1>2, <2>4 DEF RowWrite
  <1>6. CASE CommitDeactivate(w)
    <2> DEFINE b == DisabledWithPerson(a)
               c == WithActive(q, FALSE, FALSE)
    <2>1. Write(p, b, c)
      BY <1>6 DEF CommitDeactivate
    <2>2. c \in WidePerson /\ c.canLogin = FALSE
      BY <1>3, PersonFields
    <2>3. /\ b \in WideAccount /\ b.enabled = FALSE
          /\ b.version = a.version => b = a
          /\ b.version >= a.version
          /\ RowSound(b, c)
      <3>1. CASE a.exists
        <4> DEFINE d == Disabled(a)
        <4>1. b = d
          BY <3>1 DEF DisabledWithPerson
        <4>2. /\ d \in WideAccount /\ d.exists = a.exists /\ d.enabled = FALSE
              /\ d.password = a.password /\ d.mustChange = a.mustChange
              /\ d.failures = 0 /\ d.lock = "open" /\ d.version = a.version + 1
          BY <1>3, DisabledFields
        <4> HIDE DEF d
        <4> HIDE DEF b, c
        <4>3. a.password <= a.version + 1 /\ a.password \in Nat
          BY <1>3, <1>4 DEF RowSound, WideAccount
        <4>4. d.password <= d.version + 1 /\ d.version >= a.version /\ d.version # a.version
          BY <1>3, <4>2, <4>3
        <4>5. RowSound(d, c)
          BY <1>4, <2>2, <3>1, <4>2, <4>4 DEF RowSound, ShapeConstraints
        <4>6. QED
          BY <4>1, <4>2, <4>4, <4>5
      <3>2. CASE ~a.exists
        <4>1. b = a
          BY <3>2 DEF DisabledWithPerson
        <4>2. a.enabled = FALSE
          BY <1>3, <1>4, <3>2 DEF RowSound
        <4> HIDE DEF b, c
        <4>3. QED
          BY <1>3, <1>4, <2>2, <3>2, <4>1, <4>2 DEF RowSound
      <3>3. QED
        BY <3>1, <3>2
    <2> HIDE DEF b, c, p
    <2>4. Transition(p, b, c)
      BY <1>1, <1>2, <2>1, <2>2, <2>3, WriteIsTransition
    <2>5. QED
      BY <1>2, <2>4 DEF RowWrite
  <1>7. CASE CommitReactivatePerson(w)
    <2> DEFINE c == WithActive(q, TRUE, a.enabled)
    <2>1. Write(p, a, c)
      BY <1>7 DEF CommitReactivatePerson
    <2>2. c \in WidePerson /\ c.active = TRUE /\ (c.canLogin <=> a.enabled)
      <3>1. \A x \in WidePerson, active, enabled \in BOOLEAN :
               /\ WithActive(x, active, enabled) \in WidePerson
               /\ WithActive(x, active, enabled).active = active
               /\ WithActive(x, active, enabled).canLogin <=> (active /\ enabled)
        BY PersonFields
      <3>2. QED
        BY <1>3, <3>1, Zenon
    <2> HIDE DEF c
    <2>3. RowSound(a, c)
      BY <1>4, <2>2 DEF RowSound
    <2> HIDE DEF p
    <2>4. Transition(p, a, c)
      BY <1>1, <1>2, <1>3, <2>1, <2>2, <2>3, WriteIsTransition
    <2>5. QED
      BY <1>2, <2>4 DEF RowWrite
  <1>8. QED
    BY <1>5, <1>6, <1>7

-----------------------------------------------------------------------------
(* Every step of Next keeps the invariant: a step that writes a row does   *)
(* it by a Transition, the others leave both tables alone.                 *)
LEMMA CommitsKeepIInv ==
    ASSUME IInv, NEW w \in Worker, Commit(w)
    PROVE  IInv'
  <1>1. TypeOK
    BY DEF IInv
  <1>2. sessions' = sessions /\ work' = [work EXCEPT ![w] = Idle]
    BY DEF Commit, CommitCreate, CommitUsername, CommitRole, CommitDisable,
           CommitReactivate, CommitReset, CommitOwnPassword, CommitEdit,
           CommitDeactivate, CommitReactivatePerson, Committing
  <1>3. work' \in [Worker -> Request \cup {Idle}]
    BY <1>1, <1>2 DEF TypeOK
  <1>4. SessionsGrowSoundly
    <2>1. Held' \subseteq Held
      BY <1>1, <1>2 DEF TypeOK, Held, Carried
    <2>2. QED
      BY <1>1, <1>2, <2>1, SameSessions
  <1>5. RowWrite
    BY CreateWrites, UserCommitWrites, OwnPasswordWrites, StaffCommitWrites DEF Commit
  <1>6. QED
    BY <1>3, <1>4, <1>5, TransitionKeepsIInv DEF RowWrite

(* What an admitted request carries has the types of its fields.           *)
LEMMA AdmissionTyped ==
    ASSUME TypeOK, NEW w \in Worker, Admit(w)
    PROVE  work' \in [Worker -> Request \cup {Idle}]
  <1>1. PICK s \in sessions :
          \/ \E operation \in UserOperations \cup StaffOperations, p \in Person, role \in Roles :
                AdmitManagement(w, s, operation, p, role)
          \/ AdmitOwnPassword(w, s)
    BY DEF Admit
  <1>2. s \in Session /\ s.owner \in Person /\ s.version \in Nat
    BY DEF TypeOK, Session
  <1>3. CASE \E operation \in UserOperations \cup StaffOperations, p \in Person, role \in Roles :
                AdmitManagement(w, s, operation, p, role)
    <2>1. PICK operation \in UserOperations \cup StaffOperations, p \in Person, role \in Roles :
                AdmitManagement(w, s, operation, p, role)
      BY <1>3
    <2> DEFINE e == IF operation \in StaffOperations
                    THEN person[p].rowVersion ELSE account[p].version
               r == [operation |-> operation, session |-> s, target |-> p,
                     expected |-> e, role |-> role]
    <2>2. e \in Nat
      BY RowTypes
    <2>3. work' = [work EXCEPT ![w] = r]
      BY <2>1 DEF AdmitManagement
    <2> HIDE DEF e
    <2>4. r \in Request
      BY <1>2, <2>2 DEF Request
    <2> HIDE DEF r
    <2>5. QED
      BY <2>3, <2>4 DEF TypeOK
  <1>4. CASE AdmitOwnPassword(w, s)
    <2> DEFINE r == [operation |-> "own-password", session |-> s, target |-> s.owner,
                     expected |-> s.version, role |-> account[s.owner].role]
    <2>1. work' = [work EXCEPT ![w] = r]
      BY <1>4 DEF AdmitOwnPassword
    <2>2. account[s.owner].role \in Roles
      BY <1>2, RowTypes
    <2>3. r \in Request
      BY <1>2, <2>2 DEF Request
    <2> HIDE DEF r
    <2>4. QED
      BY <2>1, <2>3 DEF TypeOK
  <1>5. QED
    BY <1>1, <1>3, <1>4

(* It carries the session of a cookie, so nothing new is held.             *)
LEMMA AdmissionCarries ==
    ASSUME TypeOK, NEW w \in Worker, Admit(w)
    PROVE  Held' \subseteq Held
  <1>1. PICK r : /\ work' = [work EXCEPT ![w] = r]
                 /\ r.session \in sessions
                 /\ sessions' = sessions
    <2>1. PICK s \in sessions :
            \/ \E operation \in UserOperations \cup StaffOperations, p \in Person, role \in Roles :
                  AdmitManagement(w, s, operation, p, role)
            \/ AdmitOwnPassword(w, s)
      BY DEF Admit
    <2>2. CASE AdmitOwnPassword(w, s)
      <3> DEFINE q == [operation |-> "own-password", session |-> s, target |-> s.owner,
                       expected |-> s.version, role |-> account[s.owner].role]
      <3>1. q.session = s
        OBVIOUS
      <3>2. work' = [work EXCEPT ![w] = q] /\ sessions' = sessions
        BY <2>2 DEF AdmitOwnPassword
      <3> HIDE DEF q
      <3>3. QED
        BY <3>1, <3>2
    <2>3. CASE \E operation \in UserOperations \cup StaffOperations, p \in Person, role \in Roles :
                  AdmitManagement(w, s, operation, p, role)
      <3>1. PICK operation, p, role : AdmitManagement(w, s, operation, p, role)
        BY <2>3
      <3> DEFINE q == [operation |-> operation, session |-> s, target |-> p,
                       expected |-> IF operation \in StaffOperations
                                    THEN person[p].rowVersion ELSE account[p].version,
                       role |-> role]
      <3>2. q.session = s
        OBVIOUS
      <3>3. work' = [work EXCEPT ![w] = q] /\ sessions' = sessions
        BY <3>1 DEF AdmitManagement
      <3> HIDE DEF q
      <3>4. QED
        BY <3>2, <3>3
    <2>4. QED
      BY <2>1, <2>2, <2>3
  <1>2. \A v \in Worker : work'[v] = IF v = w THEN r ELSE work[v]
    BY <1>1 DEF TypeOK
  <1>3. QED
    BY <1>1, <1>2 DEF Held, Carried

(* The seeded tables satisfy the invariant.                                *)
LEMMA InitIInv == ASSUME Init PROVE IInv
  <1>1. account \in [Person -> AccountRow]
    <2>1. \A p \in Person : account[p] \in AccountRow
      BY FreshRows, InitialRoleAssumption DEF Init
    <2>2. QED
      BY <2>1 DEF Init
  <1>2. person \in [Person -> PersonRow]
    BY DEF Init, PersonRow
  <1>3. TypeOK
    BY <1>1, <1>2 DEF Init, TypeOK
  <1>4. RowsSound
    <2> SUFFICES ASSUME NEW p \in Person
                 PROVE  RowSound(account[p], person[p])
      BY DEF RowsSound
    <2>1. person[p].active /\ (person[p].canLogin <=> p \in DOMAIN InitialRole)
      BY DEF Init
    <2>2. CASE p \in DOMAIN InitialRole
      <3>1. account[p] = SeededAccount(InitialRole[p])
        BY <2>2 DEF Init
      <3>2. QED
        BY <2>1, <2>2, <3>1 DEF RowSound, ShapeConstraints, SeededAccount, NewAccount
    <2>3. CASE p \notin DOMAIN InitialRole
      <3>1. account[p] = NoAccount
        BY <2>3 DEF Init
      <3>2. QED
        BY <2>1, <2>3, <3>1 DEF RowSound, ShapeConstraints, NoAccount
    <2>4. QED
      BY <2>2, <2>3
  <1>5. SessionsSound
    BY DEF Init, SessionsSound, Held, Carried
  <1>6. QED
    BY <1>3, <1>4, <1>5 DEF IInv

(* The inductive step: one case per action of Next.                        *)
LEMMA NextKeepsIInv == ASSUME IInv, [Next]_vars PROVE IInv'
  <1>1. TypeOK
    BY DEF IInv
  <1>2. CASE UNCHANGED vars
    BY <1>1, <1>2, SameRowsKeepIInv DEF vars, rows, TypeOK, Held, Carried
  <1>3. ASSUME NEW p \in Person, SignInRefused(p) PROVE IInv'
    <2>1. RowWrite
      BY <1>3, SignInRefusedWrites
    <2>2. sessions' = sessions /\ work' = work
      BY <1>3 DEF SignInRefused
    <2>3. QED
      BY <1>1, <2>1, <2>2, SameSessions, TransitionKeepsIInv
         DEF RowWrite, TypeOK, Held, Carried
  <1>4. ASSUME NEW p \in Person, SignIn(p) PROVE IInv'
    <2>1. RowWrite /\ SessionsGrowSoundly
      BY <1>4, SignInWrites
    <2>2. work' = work
      BY <1>4 DEF SignIn
    <2>3. QED
      BY <1>1, <2>1, <2>2, TransitionKeepsIInv DEF RowWrite, TypeOK
  <1>5. ASSUME NEW p \in Person, LockElapses(p) PROVE IInv'
    <2>1. RowWrite
      BY <1>5, LockElapsesWrites
    <2>2. sessions' = sessions /\ work' = work
      BY <1>5 DEF LockElapses
    <2>3. QED
      BY <1>1, <2>1, <2>2, SameSessions, TransitionKeepsIInv
         DEF RowWrite, TypeOK, Held, Carried
  <1>6. ASSUME NEW p \in Person, SetApprovedAccountPassword(p) PROVE IInv'
    <2>1. RowWrite
      BY <1>6, ApprovedPasswordWrites
    <2>2. sessions' = sessions /\ work' = work
      BY <1>6 DEF SetApprovedAccountPassword
    <2>3. QED
      BY <1>1, <2>1, <2>2, SameSessions, TransitionKeepsIInv
         DEF RowWrite, TypeOK, Held, Carried
  <1>7. ASSUME NEW s \in sessions, SessionEnds(s) PROVE IInv'
    BY <1>1, <1>7, SameRowsKeepIInv DEF SessionEnds, rows, TypeOK, Held, Carried
  <1>8. ASSUME NEW w \in Worker, Admit(w) PROVE IInv'
    <2>1. work' \in [Worker -> Request \cup {Idle}]
      BY <1>1, <1>8, AdmissionTyped
    <2>2. UNCHANGED rows /\ sessions' = sessions
      BY <1>8 DEF Admit, AdmitManagement, AdmitOwnPassword, rows
    <2>3. Held' \subseteq Held
      BY <1>1, <1>8, AdmissionCarries
    <2>4. QED
      BY <2>1, <2>2, <2>3, SameRowsKeepIInv
  <1>9. ASSUME NEW w \in Worker, Abandon(w) PROVE IInv'
    <2>1. work' \in [Worker -> Request \cup {Idle}]
      BY <1>1, <1>9 DEF Abandon, TypeOK
    <2>2. Held' \subseteq Held
      BY <1>1, <1>9 DEF Abandon, TypeOK, Held, Carried
    <2>3. QED
      BY <1>9, <2>1, <2>2, SameRowsKeepIInv DEF Abandon, rows
  <1>10. QED
    BY <1>2, <1>3, <1>4, <1>5, <1>6, <1>7, <1>8, <1>9, CommitsKeepIInv DEF Next

(* The inductive invariant holds in every state.                           *)
LEMMA Invariant == Spec => []IInv
  <1>1. Init => IInv
    BY InitIInv
  <1>2. IInv /\ [Next]_vars => IInv'
    BY NextKeepsIInv
  <1>3. QED
    BY <1>1, <1>2, PTL DEF Spec

(* Both tables, the cookies and the requests in progress keep their types, *)
(* whatever the versions and counters do.                                  *)
THEOREM TypeCorrect == Spec => []TypeOK
  <1>1. IInv => TypeOK
    BY DEF IInv
  <1>2. QED
    BY <1>1, Invariant, PTL

(* A cookie with the current session version belongs to an account that    *)
(* may sign in.                                                            *)
THEOREM SessionsAreSound == Spec => []SessionsSound
  <1>1. IInv => SessionsSound
    BY DEF IInv
  <1>2. QED
    BY <1>1, Invariant, PTL

(* No order of sign-ins, account and roster work leaves an account enabled *)
(* for a former employee, or can_login behind is_enabled.                  *)
THEOREM EligibilityStaysInSync == Spec => []EligibilityInSync
  <1>1. IInv => EligibilityInSync
    BY DEF IInv, RowsSound, RowSound, EligibilityInSync
  <1>2. QED
    BY <1>1, Invariant, PTL

-----------------------------------------------------------------------------
(* Every step writes one pair of rows by a Transition, or none.            *)
LEMMA NextWrites ==
    ASSUME IInv, [Next]_vars
    PROVE  UNCHANGED rows \/ RowWrite
  <1>1. CASE UNCHANGED vars
    BY <1>1 DEF vars, rows
  <1>2. CASE \E p \in Person : \/ SignInRefused(p) \/ SignIn(p) \/ LockElapses(p)
                               \/ SetApprovedAccountPassword(p)
    BY <1>2, SignInRefusedWrites, SignInWrites, LockElapsesWrites, ApprovedPasswordWrites
  <1>3. CASE \E s \in sessions : SessionEnds(s)
    BY <1>3 DEF SessionEnds, rows
  <1>4. CASE \E w \in Worker : Commit(w)
    BY <1>4, CreateWrites, UserCommitWrites, OwnPasswordWrites, StaffCommitWrites
       DEF Commit
  <1>5. CASE \E w \in Worker : Admit(w) \/ Abandon(w)
    BY <1>5 DEF Admit, AdmitManagement, AdmitOwnPassword, Abandon, rows
  <1>6. QED
    BY <1>1, <1>2, <1>3, <1>4, <1>5 DEF Next

(* No cookie that fails validation is ever accepted again: its version is  *)
(* behind the account's, and that one never falls.                         *)
THEOREM RevocationIsFinal == Spec => RevokedSessionsStayRevoked
  <1>1. ASSUME IInv, [Next]_vars
        PROVE  \A s \in Held : ~ValidSession(s) => ~ValidSession(s)'
    <2> SUFFICES ASSUME NEW s \in Held, ~ValidSession(s)
                 PROVE  ~ValidSession(s)'
      OBVIOUS
    <2>1. TypeOK /\ SessionsSound
      BY <1>1 DEF IInv
    <2>2. s.owner \in Person /\ s.version \in Nat
      BY <2>1, HeldTyped DEF Session
    <2>3. account[s.owner].version \in Nat /\ account'[s.owner].version \in Nat
      BY <1>1, <2>1, <2>2, NextKeepsIInv, RowTypes DEF IInv, TypeOK, AccountRow
    <2>4. s.version < account[s.owner].version
      BY <2>1, <2>2, <2>3 DEF SessionsSound, ValidSession
    <2>5. account'[s.owner].version >= account[s.owner].version
      <3>1. CASE UNCHANGED rows
        BY <2>3, <3>1 DEF rows
      <3>2. CASE RowWrite
        <4>1. PICK p \in Person : \E b, c : Transition(p, b, c)
          BY <3>2 DEF RowWrite
        <4>2. account'[p].version >= account[p].version
          BY <2>1, <4>1 DEF Transition, TypeOK
        <4>3. s.owner # p => account'[s.owner] = account[s.owner]
          BY <2>1, <2>2, <4>1 DEF Transition, TypeOK
        <4>4. QED
          BY <2>3, <4>2, <4>3
      <3>3. QED
        BY <1>1, <3>1, <3>2, NextWrites
    <2>6. account'[s.owner].version # s.version
      BY <2>2, <2>3, <2>4, <2>5
    <2>7. QED
      BY <2>6 DEF ValidSession
  <1>2. QED
    BY <1>1, Invariant, PTL DEF Spec, RevokedSessionsStayRevoked

(* What a Write leaves in the tables.                                      *)
LEMMA WriteEffect ==
    ASSUME TypeOK, NEW p \in Person, NEW b, NEW c, Write(p, b, c)
    PROVE  /\ account'[p] = b /\ person'[p] = c
           /\ \A x \in Person \ {p} : account'[x] = account[x] /\ person'[x] = person[x]
  BY DEF TypeOK, Write

(* Whoever commits a managing request is a usable Administrator before it  *)
(* and after it.                                                           *)
LEMMA ActorStaysUsable ==
    ASSUME IInv, NEW w \in Worker, Commit(w), ~CommitOwnPassword(w),
           NEW o \in Person, o = work[w].session.owner
    PROVE  Usable(o)'
  <1> DEFINE r == work[w]
             p == r.target
             a == account[p]
             q == person[p]
  <1>1. /\ TypeOK /\ work[w] # Idle /\ Usable(o)
        /\ \E b, c : Write(p, b, c)
    BY DEF IInv, Commit, Committing, CommitCreate, CommitUsername, CommitRole,
           CommitDisable, CommitReactivate, CommitReset, CommitEdit,
           CommitDeactivate, CommitReactivatePerson, ManagedTarget,
           LockActingAdministrator, StaffTarget, StaffAdministrator
  <1>2. o \in Person /\ p \in Person /\ r.role \in Roles
    BY <1>1, RequestTypes
  <1>3. CASE o # p
    <2>1. account'[o] = account[o] /\ person'[o] = person[o]
      BY <1>1, <1>2, <1>3, WriteEffect
    <2>2. QED
      BY <1>1, <1>2, <2>1 DEF Usable
  <1>4. CASE o = p
    <2>1. /\ a \in WideAccount /\ q \in WidePerson
          /\ a.enabled \in BOOLEAN /\ q.active \in BOOLEAN
      BY <1>1, <1>2, RowTypes
    <2>2. UsableAdministrator(a, q)
      BY <1>1, <1>4 DEF Usable
    <2>3. CommitUsername(w) \/ CommitRole(w) \/ CommitEdit(w)
      <3>1. a.exists /\ a.enabled /\ q.active
        BY <2>2 DEF UsableAdministrator
      <3>2. QED
        BY <1>4, <3>1 DEF Commit, CommitCreate, CommitDisable, CommitReactivate,
           CommitReset, CommitDeactivate, CommitReactivatePerson
    <2>4. CASE CommitUsername(w)
      <3>1. Write(p, NextVersion(a), q)
        BY <2>4 DEF CommitUsername
      <3>2. account'[p] = NextVersion(a) /\ person'[p] = q
        BY <1>1, <1>2, <3>1, WriteEffect
      <3>3. UsableAdministrator(NextVersion(a), q)
        BY <2>1, <2>2, NextVersionFields DEF UsableAdministrator
      <3>4. QED
        BY <1>2, <1>4, <3>2, <3>3 DEF Usable
    <2>5. CASE CommitRole(w)
      <3>1. Write(p, WithRole(a, r.role), q) /\ r.role = "Administrator"
        BY <1>4, <2>5 DEF CommitRole
      <3>2. account'[p] = WithRole(a, r.role) /\ person'[p] = q
        BY <1>1, <1>2, <3>1, WriteEffect
      <3>3. UsableAdministrator(WithRole(a, r.role), q)
        BY <1>2, <2>1, <2>2, <3>1, WithRoleFields DEF UsableAdministrator
      <3>4. QED
        BY <1>2, <1>4, <3>2, <3>3 DEF Usable
    <2>6. CASE CommitEdit(w)
      <3>1. Write(p, a, NextRow(q))
        BY <2>6 DEF CommitEdit
      <3>2. account'[p] = a /\ person'[p] = NextRow(q)
        BY <1>1, <1>2, <3>1, WriteEffect
      <3>3. UsableAdministrator(a, NextRow(q))
        BY <2>1, <2>2, PersonFields DEF UsableAdministrator
      <3>4. QED
        BY <1>2, <1>4, <3>2, <3>3 DEF Usable
    <2>7. QED
      BY <2>3, <2>4, <2>5, <2>6
  <1>5. QED
    BY <1>2, <1>3, <1>4

(* A write of p's row that keeps everything an Administrator needs.        *)
KeepsPower(p, b) ==
    /\ account' = [account EXCEPT ![p] = b]
    /\ person' = [person EXCEPT ![p] = person[p]]
    /\ b.exists = account[p].exists /\ b.role = account[p].role
    /\ b.enabled = account[p].enabled
    /\ account[p].password # 0 => b.password # 0

(* A row write that no other user asked for leaves a usable Administrator  *)
(* usable.                                                                 *)
LEMMA OwnWritesKeepUsable ==
    ASSUME IInv, NEW x \in Person, Usable(x),
           \/ \E p \in Person : \/ SignInRefused(p) \/ SignIn(p) \/ LockElapses(p)
                                \/ SetApprovedAccountPassword(p)
           \/ \E w \in Worker : CommitOwnPassword(w)
    PROVE  Usable(x)'
  <1>1. TypeOK
    BY DEF IInv
  <1>2. PICK p \in Person : \E b : KeepsPower(p, b)
    <2>1. CASE \E p \in Person : SignInRefused(p)
      <3>1. PICK p \in Person : SignInRefused(p)
        BY <2>1
      <3> DEFINE b == AfterWrongPassword(account[p])
      <3>2. account[p] \in WideAccount
        BY <1>1, RowTypes
      <3>3. /\ person' = [person EXCEPT ![p] = person[p]]
            /\ account' = [account EXCEPT ![p] = b]
        BY <1>1, <3>1 DEF SignInRefused, TypeOK
      <3>4. /\ b.exists = account[p].exists /\ b.role = account[p].role
            /\ b.enabled = account[p].enabled /\ b.password = account[p].password
        BY <3>2, WrongPasswordFields
      <3> HIDE DEF b
      <3>5. KeepsPower(p, b)
        BY <3>3, <3>4 DEF KeepsPower
      <3>6. QED
        BY <3>5
    <2>2. CASE \E p \in Person : SignIn(p)
      <3>1. PICK p \in Person : SignIn(p)
        BY <2>2
      <3> DEFINE b == Unlocked(account[p])
      <3>2. account[p] \in WideAccount
        BY <1>1, RowTypes
      <3>3. /\ person' = [person EXCEPT ![p] = person[p]]
            /\ account' = [account EXCEPT ![p] = b]
        BY <1>1, <3>1 DEF SignIn, TypeOK
      <3>4. /\ b.exists = account[p].exists /\ b.role = account[p].role
            /\ b.enabled = account[p].enabled /\ b.password = account[p].password
        BY <3>2, UnlockedFields
      <3> HIDE DEF b
      <3>5. KeepsPower(p, b)
        BY <3>3, <3>4 DEF KeepsPower
      <3>6. QED
        BY <3>5
    <2>3. CASE \E p \in Person : LockElapses(p)
      <3>1. PICK p \in Person : LockElapses(p)
        BY <2>3
      <3> DEFINE b == LockElapsed(account[p])
      <3>2. account[p] \in WideAccount
        BY <1>1, RowTypes
      <3>3. /\ person' = [person EXCEPT ![p] = person[p]]
            /\ account' = [account EXCEPT ![p] = b]
        BY <1>1, <3>1 DEF LockElapses, TypeOK
      <3>4. /\ b.exists = account[p].exists /\ b.role = account[p].role
            /\ b.enabled = account[p].enabled /\ b.password = account[p].password
        BY <3>2, LockElapsedFields
      <3> HIDE DEF b
      <3>5. KeepsPower(p, b)
        BY <3>3, <3>4 DEF KeepsPower
      <3>6. QED
        BY <3>5
    <2>4. ASSUME NEW p \in Person, NEW must \in BOOLEAN,
                 Write(p, Rekeyed(account[p], must), person[p])
          PROVE  \E b : KeepsPower(p, b)
      <3> DEFINE b == Rekeyed(account[p], must)
      <3>1. account[p] \in WideAccount
        BY <1>1, RowTypes
      <3>2. /\ account' = [account EXCEPT ![p] = b]
            /\ person' = [person EXCEPT ![p] = person[p]]
        BY <2>4 DEF Write
      <3>3. /\ b.exists = account[p].exists /\ b.role = account[p].role
            /\ b.enabled = account[p].enabled /\ b.password # 0
        BY <3>1, RekeyedFields
      <3> HIDE DEF b
      <3>4. KeepsPower(p, b)
        BY <3>2, <3>3 DEF KeepsPower
      <3>5. QED
        BY <3>4
    <2>5. CASE \E p \in Person : SetApprovedAccountPassword(p)
      BY <2>4, <2>5 DEF SetApprovedAccountPassword
    <2>6. CASE \E w \in Worker : CommitOwnPassword(w)
      <3>1. PICK w \in Worker : CommitOwnPassword(w)
        BY <2>6
      <3>2. work[w].session.owner \in Person
        BY <1>1, <3>1, RequestTypes DEF CommitOwnPassword, Committing
      <3>3. QED
        BY <2>4, <3>1, <3>2 DEF CommitOwnPassword
    <2>7. QED
      BY <2>1, <2>2, <2>3, <2>5, <2>6
  <1> PICK b : KeepsPower(p, b)
    BY <1>2
  <1>3. CASE x = p
    <2>1. account'[x] = b /\ person'[x] = person[x]
      BY <1>1, <1>3 DEF KeepsPower, TypeOK
    <2>2. QED
      BY <1>3, <2>1 DEF KeepsPower, Usable, UsableAdministrator
  <1>4. CASE x # p
    <2>1. account'[x] = account[x] /\ person'[x] = person[x]
      BY <1>1, <1>4 DEF KeepsPower, TypeOK
    <2>2. QED
      BY <2>1 DEF Usable
  <1>5. QED
    BY <1>3, <1>4

(* However many Administrators work against each other, the requests that  *)
(* commit never remove the last one who can act.                           *)
THEOREM AnAdministratorRemains == Spec => AdministratorRetained
  <1>1. ASSUME IInv, [Next]_vars, HasUsableAdministrator
        PROVE  HasUsableAdministrator'
    <2>1. PICK x \in Person : Usable(x)
      BY <1>1 DEF HasUsableAdministrator
    <2>2. CASE UNCHANGED rows
      BY <2>1, <2>2 DEF rows, HasUsableAdministrator, Usable
    <2>3. CASE \/ \E p \in Person : \/ SignInRefused(p) \/ SignIn(p) \/ LockElapses(p)
                                      \/ SetApprovedAccountPassword(p)
               \/ \E w \in Worker : CommitOwnPassword(w)
      BY <1>1, <2>1, <2>3, OwnWritesKeepUsable DEF HasUsableAdministrator
    <2>4. CASE \E w \in Worker : Commit(w) /\ ~CommitOwnPassword(w)
      <3>1. PICK w \in Worker : Commit(w) /\ ~CommitOwnPassword(w)
        BY <2>4
      <3>2. work[w] # Idle
        BY <3>1 DEF Commit, Committing, CommitCreate, CommitUsername, CommitRole,
           CommitDisable, CommitReactivate, CommitReset, CommitEdit,
           CommitDeactivate, CommitReactivatePerson
      <3>3. PICK o \in Person : o = work[w].session.owner
        BY <1>1, <3>2, RequestTypes DEF IInv
      <3>4. Usable(o)'
        BY <1>1, <3>1, <3>3, ActorStaysUsable
      <3>5. QED
        BY <3>4 DEF HasUsableAdministrator
    <2>5. CASE \E w \in Worker : Admit(w) \/ Abandon(w)
      <3>1. UNCHANGED rows
        BY <2>5 DEF Admit, AdmitManagement, AdmitOwnPassword, Abandon, rows
      <3>2. QED
        BY <2>2, <3>1
    <2>6. CASE UNCHANGED vars \/ \E s \in sessions : SessionEnds(s)
      <3>1. UNCHANGED rows
        BY <2>6 DEF SessionEnds, rows, vars
      <3>2. QED
        BY <2>2, <3>1
    <2>7. QED
      BY <1>1, <2>3, <2>4, <2>5, <2>6 DEF Next
  <1>2. QED
    BY <1>1, Invariant, PTL DEF Spec, AdministratorRetained

(* Only the two staff-status operations write is_active.                   *)
LEMMA OthersKeepActive ==
    ASSUME IInv, [Next]_vars, NEW x \in Person,
           \A w \in Worker : ~CommitDeactivate(w) /\ ~CommitReactivatePerson(w)
    PROVE  person'[x].active = person[x].active
  <1>1. TypeOK
    BY DEF IInv
  <1>2. CASE UNCHANGED person
    BY <1>2
  <1>3. ASSUME NEW w \in Worker, Commit(w)
        PROVE  person'[x].active = person[x].active
    <2>1. work[w] # Idle
      BY <1>3 DEF Commit, Committing, CommitCreate, CommitUsername, CommitRole,
         CommitDisable, CommitReactivate, CommitReset, CommitOwnPassword,
         CommitEdit, CommitDeactivate, CommitReactivatePerson
    <2>2. work[w].target \in Person /\ work[w].session.owner \in Person
      BY <1>1, <2>1, RequestTypes
    <2>3. PICK p \in Person : \E b, c : Write(p, b, c) /\ c.active = person[p].active
      <3>1. \A q \in WidePerson, enabled \in BOOLEAN :
               /\ NextRow(q).active = q.active
               /\ LoginSynced(q, enabled).active = q.active
        BY PersonFields
      <3>2. \A p \in Person : person[p] \in WidePerson
        BY <1>1, RowTypes
      <3>3. \E p \in Person : \E b, c :
               /\ Write(p, b, c)
               /\ \/ c = person[p] \/ c = NextRow(person[p])
                  \/ c = LoginSynced(person[p], TRUE)
                  \/ c = LoginSynced(person[p], FALSE)
        BY <1>3, <2>2 DEF Commit, CommitCreate, CommitUsername, CommitRole,
           CommitDisable, CommitReactivate, CommitReset, CommitOwnPassword, CommitEdit
      <3>4. PICK p \in Person : \E b, c :
               /\ Write(p, b, c)
               /\ \/ c = person[p] \/ c = NextRow(person[p])
                  \/ c = LoginSynced(person[p], TRUE)
                  \/ c = LoginSynced(person[p], FALSE)
        BY <3>3
      <3>5. PICK b, c :
               /\ Write(p, b, c)
               /\ \/ c = person[p] \/ c = NextRow(person[p])
                  \/ c = LoginSynced(person[p], TRUE)
                  \/ c = LoginSynced(person[p], FALSE)
        BY <3>4
      <3>6. c.active = person[p].active
        BY <3>1, <3>2, <3>5, TRUE \in BOOLEAN, FALSE \in BOOLEAN
      <3>7. QED
        BY <3>5, <3>6
    <2>4. QED
      BY <1>1, <2>3, WriteEffect
  <1>4. CASE \E p \in Person : SetApprovedAccountPassword(p)
    <2>1. PICK p \in Person : \E b : Write(p, b, person[p])
      BY <1>4 DEF SetApprovedAccountPassword
    <2>2. QED
      BY <1>1, <2>1, WriteEffect
  <1>5. QED
    BY <1>2, <1>3, <1>4 DEF Next, vars, SignInRefused, SignIn, LockElapses,
       SessionEnds, Admit, AdmitManagement, AdmitOwnPassword, Abandon

(* Staff status changes only for a request whose session is still valid in *)
(* the transaction that changes it.                                        *)
THEOREM StaffChangesAreCurrent == Spec => StaffCommitsAreCurrent
  <1>1. ASSUME IInv, [Next]_vars
        PROVE  \A p \in Person : \A w \in Worker :
                 (/\ person[p].active # person'[p].active
                  /\ work[w] # Idle /\ work'[w] = Idle)
                 => ValidSession(work[w].session)
    <2> SUFFICES ASSUME NEW p \in Person, NEW w \in Worker,
                        person[p].active # person'[p].active,
                        work[w] # Idle, work'[w] = Idle
                 PROVE  ValidSession(work[w].session)
      OBVIOUS
    <2>1. PICK v \in Worker : CommitDeactivate(v) \/ CommitReactivatePerson(v)
      BY <1>1, OthersKeepActive
    <2>2. /\ work' = [work EXCEPT ![v] = Idle]
          /\ StaffAdministrator(work[v])
      BY <2>1 DEF CommitDeactivate, CommitReactivatePerson, Committing, StaffTarget
    <2>3. w = v
      <3>1. work \in [Worker -> Request \cup {Idle}]
        BY <1>1 DEF IInv, TypeOK
      <3>2. QED
        BY <2>2, <3>1
    <2>4. QED
      BY <2>2, <2>3 DEF StaffAdministrator, Usable, UsableAdministrator, ValidSession
  <1>2. QED
    BY <1>1, Invariant, PTL DEF Spec, StaffCommitsAreCurrent

-----------------------------------------------------------------------------
(* The service implements the database boundary: none of its transactions  *)
(* relies on a write that a trigger would refuse.                          *)

(* The boundary's row operators are the service's.                         *)
LEMMA BoundaryOperators ==
    /\ \A a, q : Boundary!UsableAdministrator(a, q) = UsableAdministrator(a, q)
    /\ \A a : Boundary!ShapeConstraints(a) = ShapeConstraints(a)
    /\ \A a, q : Boundary!Storable(a, q) = Storable(a, q)
    /\ \A a : Boundary!DisabledWithPerson(a) = DisabledWithPerson(a)
    /\ \A a : Boundary!LockElapsed(a) = LockElapsed(a)
    /\ \A q : Boundary!NextRow(q) = NextRow(q)
    /\ \A q, enabled : Boundary!LoginSynced(q, enabled) = LoginSynced(q, enabled)
    /\ \A q, active, enabled :
          Boundary!WithActive(q, active, enabled) = WithActive(q, active, enabled)
    /\ \A role : Boundary!NewAccount(role) = NewAccount(role)
    /\ \A role : Boundary!SeededAccount(role) = SeededAccount(role)
    /\ Boundary!NoAccount = NoAccount
    /\ Boundary!AccountRow = AccountRow
    /\ \A p : Boundary!Usable(p) = Usable(p)
  BY DEF Boundary!UsableAdministrator, UsableAdministrator,
         Boundary!ShapeConstraints, ShapeConstraints, Boundary!Storable, Storable,
         Boundary!DisabledWithPerson, DisabledWithPerson, Boundary!Disabled, Disabled,
         Boundary!NextVersion, NextVersion, Boundary!Unlocked, Unlocked,
         Boundary!LockElapsed, LockElapsed, Boundary!NextRow, NextRow,
         Boundary!LoginSynced, LoginSynced, Boundary!WithActive, WithActive,
         Boundary!NewAccount, NewAccount, Boundary!SeededAccount, SeededAccount,
         Boundary!NoAccount, NoAccount, Boundary!AccountRow, AccountRow,
         Boundary!LockStates, LockStates, Boundary!Usable, Usable

(* The initial tables are the boundary's.                                  *)
LEMMA InitRefines == ASSUME Init PROVE Boundary!Init
  BY BoundaryOperators DEF Init, Boundary!Init

(* An UPDATE of an account that keeps role and is_enabled and passes the   *)
(* security trigger is one the boundary admits, whoever issues it.         *)
LEMMA KeepingUpdateRefines ==
    ASSUME IInv, NEW p \in Person, NEW b \in WideAccount,
           account' = [account EXCEPT ![p] = b],
           person' = [person EXCEPT ![p] = person[p]],
           Storable(b, person[p]),
           account[p].exists, b.exists,
           b.enabled = account[p].enabled,
           b.role = account[p].role,
           ShapeConstraints(b),
           \/ /\ b.password = account[p].password
              /\ b.version \in {account[p].version, account[p].version + 1}
           \/ /\ b.password = b.version + 1
              /\ b.password # 0
              /\ b.version = account[p].version + 1
              /\ b.failures = 0 /\ b.lock = "open"
    PROVE  Boundary!Step
  <1>1. TypeOK /\ RowSound(account[p], person[p])
    BY DEF IInv, RowsSound
  <1>2. /\ account[p] \in WideAccount /\ person[p] \in WidePerson
        /\ account[p].version \in Nat
        /\ account[p].enabled \in BOOLEAN
    BY <1>1, RowTypes
  <1>3. b \in AccountRow
    BY <1>2, StorableRow
  <1>4. account'[p] = b
    BY <1>1 DEF TypeOK
  <1>5. Boundary!SecurityGuard(account[p], b)
    BY <1>2 DEF Boundary!SecurityGuard
  <1>6. Boundary!AvailabilityGuard(NoHuman, p, b)
    <2>1. NoHuman # p
      BY NoHumanAssumption
    <2>2. Usable(p) => UsableAdministrator(b, person[p])
      <3>1. Usable(p) => account[p].password # 0 /\ b.password # 0
        BY DEF Usable, UsableAdministrator
      <3>2. QED
        BY <3>1 DEF Usable, UsableAdministrator
    <2>3. QED
      BY <2>1, <2>2, BoundaryOperators DEF Boundary!AvailabilityGuard
  <1>7. Boundary!EligibilityGuard(p, b)
    BY DEF Boundary!EligibilityGuard
  <1>8. Boundary!UpdateAccount(NoHuman, p, b)
    BY <1>3, <1>5, <1>6, <1>7, BoundaryOperators DEF Boundary!UpdateAccount
  <1>9. QED
    BY <1>4, <1>8 DEF Boundary!Step

(* An UPDATE by a usable Administrator of another one's account, or of the *)
(* own account without loss of power.                                      *)
LEMMA ManagedUpdateRefines ==
    ASSUME IInv, NEW p \in Person, NEW b \in WideAccount, NEW c \in WidePerson,
           NEW actor \in Person, Usable(actor),
           Write(p, b, c),
           c = IF b.enabled = account[p].enabled THEN person[p]
               ELSE LoginSynced(person[p], b.enabled),
           account[p].exists, b.exists,
           ShapeConstraints(b),
           b.version = account[p].version + 1,
           actor = p => b.enabled /\ b.role = "Administrator",
           \/ /\ b.password = account[p].password
              /\ b.enabled = account[p].enabled
           \/ /\ b.password = account[p].password
              /\ ~b.enabled
              /\ b.failures = 0 /\ b.lock = "open"
           \/ /\ b.password = b.version + 1 /\ b.password # 0
              /\ b.enabled /\ b.mustChange /\ person[p].active
              /\ b.failures = 0 /\ b.lock = "open"
    PROVE  Boundary!Step
  <1>1. TypeOK /\ RowSound(account[p], person[p])
    BY DEF IInv, RowsSound
  <1>2. /\ account[p] \in WideAccount /\ person[p] \in WidePerson
        /\ account[p].version \in Nat /\ account[p].password \in Nat
        /\ account[p].enabled \in BOOLEAN
    BY <1>1, RowTypes
  <1>3. b \in AccountRow /\ Storable(b, c)
    BY StorableRow DEF Write
  <1>4. account'[p] = b
    BY <1>1, WriteEffect
  <1>5. b.password \in Nat /\ b.version \in Nat /\ b.enabled \in BOOLEAN
    BY DEF WideAccount
  <1>6. \/ b.password = account[p].password
        \/ b.password = b.version + 1 /\ b.password # 0
    OBVIOUS
  <1>8. Boundary!SecurityGuard(account[p], b)
    <2>1. b.version >= account[p].version
      BY <1>2
    <2>2. account[p].password # 0 => b.password # 0
      BY <1>6
    <2>3. b.password # account[p].password \/ b.enabled # account[p].enabled
          => b.failures = 0 /\ b.lock = "open"
      OBVIOUS
    <2>4. b.enabled /\ ~account[p].enabled
          => b.password # account[p].password /\ b.mustChange
      <3>1. SUFFICES ASSUME b.enabled, ~account[p].enabled
                     PROVE  b.password # account[p].password /\ b.mustChange
        OBVIOUS
      <3>2. /\ b.password = b.version + 1 /\ b.password # 0
            /\ b.enabled /\ b.mustChange /\ person[p].active
        BY <3>1
      <3>3. account[p].password <= account[p].version + 1
        BY <1>1 DEF RowSound
      <3>4. QED
        BY <1>2, <3>2, <3>3
    <2>5. QED
      BY <2>1, <2>2, <2>3, <2>4 DEF Boundary!SecurityGuard
  <1>9. Boundary!AvailabilityGuard(actor, p, b)
    <2>1. (/\ account[p].role = "Administrator"
           /\ (account[p].enabled /\ ~b.enabled) \/ b.role # "Administrator")
          => actor # p
      OBVIOUS
    <2>2. (Usable(p) /\ ~UsableAdministrator(b, person[p])) => \E x \in Person \ {p} : Usable(x)
      <3>1. CASE actor # p
        BY <3>1
      <3>2. CASE actor = p
        <4>1. Usable(p) => b.password # 0
          BY <1>6 DEF Usable, UsableAdministrator
        <4>2. QED
          BY <3>2, <4>1 DEF Usable, UsableAdministrator
      <3>3. QED
        BY <3>1, <3>2
    <2>3. QED
      BY <2>1, <2>2, BoundaryOperators DEF Boundary!AvailabilityGuard, Boundary!AnotherUsable
  <1>10. Boundary!EligibilityGuard(p, b)
    BY DEF Boundary!EligibilityGuard
  <1>11. Boundary!UpdateAccount(actor, p, b)
    BY <1>3, <1>6, <1>8, <1>9, <1>10, BoundaryOperators DEF Boundary!UpdateAccount, Write
  <1>12. QED
    BY <1>4, <1>11 DEF Boundary!Step

(* Every committing user-management request on an existing account.        *)
LEMMA UserCommitRefines ==
    ASSUME IInv, NEW w \in Worker,
           \/ CommitUsername(w) \/ CommitRole(w) \/ CommitDisable(w)
           \/ CommitReactivate(w) \/ CommitReset(w)
    PROVE  Boundary!Step
  <1> DEFINE r == work[w]
  <1>1. TypeOK /\ r # Idle /\ ManagedTarget(r)
    BY DEF IInv, CommitUsername, CommitRole, CommitDisable, CommitReactivate,
           CommitReset, Committing
  <1>2. PICK p \in Person, actor \in Person, role \in Roles :
           p = r.target /\ actor = r.session.owner /\ role = r.role
    BY <1>1, RequestTypes
  <1> DEFINE a == account[p]
             q == person[p]
  <1>3. Usable(actor) /\ a.exists
    BY <1>1, <1>2 DEF ManagedTarget, LockActingAdministrator
  <1>4. RowSound(a, q)
    BY DEF IInv, RowsSound
  <1>5. a \in WideAccount /\ q \in WidePerson /\ a.enabled \in BOOLEAN
    BY <1>1, RowTypes
  <1>6. actor = p => a.enabled /\ a.role = "Administrator"
    BY <1>3 DEF Usable, UsableAdministrator
  <1>7. CASE CommitUsername(w)
    <2> DEFINE b == NextVersion(a)
    <2>1. Write(p, b, q)
      BY <1>2, <1>7 DEF CommitUsername
    <2>2. /\ b \in WideAccount
          /\ b.exists = a.exists /\ b.role = a.role
          /\ b.enabled = a.enabled /\ b.password = a.password
          /\ b.mustChange = a.mustChange /\ b.failures = a.failures
          /\ b.lock = a.lock /\ b.version = a.version + 1
      BY <1>5, NextVersionFields
    <2> HIDE DEF b
    <2>3. ShapeConstraints(b)
      BY <1>4, <2>2 DEF RowSound, ShapeConstraints
    <2>4. QED
      BY <1>3, <1>5, <1>6, <2>1, <2>2, <2>3, ManagedUpdateRefines
  <1>8. CASE CommitRole(w)
    <2> DEFINE b == WithRole(a, role)
    <2>1. Write(p, b, q) /\ (actor = p => role = "Administrator")
      BY <1>2, <1>8 DEF CommitRole
    <2>2. /\ b \in WideAccount
          /\ b.exists = a.exists /\ b.role = role
          /\ b.enabled = a.enabled /\ b.password = a.password
          /\ b.mustChange = a.mustChange /\ b.failures = a.failures
          /\ b.lock = a.lock /\ b.version = a.version + 1
      BY <1>5, WithRoleFields
    <2> HIDE DEF b
    <2>3. ShapeConstraints(b)
      BY <1>4, <2>2 DEF RowSound, ShapeConstraints
    <2>4. QED
      BY <1>3, <1>5, <1>6, <2>1, <2>2, <2>3, ManagedUpdateRefines
  <1>9. CASE CommitDisable(w)
    <2> DEFINE b == Disabled(a)
               c == LoginSynced(q, FALSE)
    <2>1. Write(p, b, c) /\ actor # p /\ a.enabled
      BY <1>2, <1>9 DEF CommitDisable
    <2>2. /\ b \in WideAccount /\ b.exists = a.exists /\ b.enabled = FALSE
          /\ b.password = a.password /\ b.mustChange = a.mustChange
          /\ b.failures = 0 /\ b.lock = "open" /\ b.version = a.version + 1
      BY <1>5, DisabledFields
    <2>3. c \in WidePerson /\ c = LoginSynced(q, b.enabled)
      BY <1>5, <2>2, PersonFields
    <2> HIDE DEF b, c
    <2>4. ShapeConstraints(b)
      BY <1>4, <2>2 DEF RowSound, ShapeConstraints
    <2>5. QED
      BY <1>3, <2>1, <2>2, <2>3, <2>4, ManagedUpdateRefines
  <1>10. CASE CommitReactivate(w) \/ CommitReset(w)
    <2> DEFINE b == WithTemporaryPassword(a)
               c == LoginSynced(q, TRUE)
    <2>1. Write(p, b, c) /\ q.active
      BY <1>2, <1>4, <1>10 DEF CommitReactivate, CommitReset, RowSound
    <2>2. /\ b \in WideAccount /\ b.exists = a.exists /\ b.role = a.role
          /\ b.enabled = TRUE /\ b.password = a.version + 2 /\ b.password # 0
          /\ b.mustChange = TRUE
          /\ b.failures = 0 /\ b.lock = "open" /\ b.version = a.version + 1
      BY <1>5, TemporaryPasswordFields
    <2>3. c \in WidePerson /\ c = LoginSynced(q, b.enabled)
      BY <1>5, <2>2, PersonFields
    <2>4. b.enabled = a.enabled => c = q
      BY <1>4, <2>1, <2>2 DEF LoginSynced, RowSound
    <2> HIDE DEF b, c
    <2>5. ShapeConstraints(b) /\ b.password = b.version + 1
      BY <1>5, <2>2 DEF RowSound, ShapeConstraints, WideAccount
    <2>6. QED
      BY <1>3, <1>5, <1>6, <2>1, <2>2, <2>3, <2>4, <2>5, ManagedUpdateRefines
  <1>11. QED
    BY <1>7, <1>8, <1>9, <1>10

(* The two password writes that no managing request stands behind.         *)
LEMMA RekeyRefines ==
    ASSUME IInv, NEW p \in Person, NEW must \in BOOLEAN, account[p].exists,
           Write(p, Rekeyed(account[p], must), person[p])
    PROVE  Boundary!Step
  <1> DEFINE a == account[p]
             b == Rekeyed(a, must)
  <1>1. TypeOK /\ RowSound(a, person[p])
    BY DEF IInv, RowsSound
  <1>2. a \in WideAccount /\ a.version \in Nat
    BY <1>1, RowTypes
  <1>3. /\ b \in WideAccount /\ b.exists = a.exists /\ b.role = a.role
        /\ b.enabled = a.enabled /\ b.password = a.version + 2 /\ b.password # 0
        /\ b.failures = 0 /\ b.lock = "open" /\ b.version = a.version + 1
    BY <1>2, RekeyedFields
  <1>4. /\ account' = [account EXCEPT ![p] = b]
        /\ person' = [person EXCEPT ![p] = person[p]]
        /\ Storable(b, person[p])
    BY DEF Write
  <1> HIDE DEF b
  <1>5. ShapeConstraints(b)
    BY <1>3 DEF ShapeConstraints
  <1>6. b.password = b.version + 1
    BY <1>2, <1>3
  <1>7. QED
    BY <1>3, <1>4, <1>5, <1>6, KeepingUpdateRefines

(* The attempts to sign in.                                                *)
LEMMA AttemptRefines ==
    ASSUME IInv, NEW p \in Person, SignInRefused(p) \/ SignIn(p)
    PROVE  Boundary!Step
  <1> DEFINE a == account[p]
  <1>1. TypeOK /\ RowSound(a, person[p])
    BY DEF IInv, RowsSound
  <1>2. a \in WideAccount /\ a.version \in 0..MaxVersion /\ person[p] \in PersonRow
    BY <1>1, RowTypes
  <1>3. person' = [person EXCEPT ![p] = person[p]]
    BY <1>1 DEF SignInRefused, SignIn, TypeOK
  <1>4. a.exists /\ a.password # 0
    BY DEF SignInRefused, SignIn, MaySignIn
  <1>5. PICK b : /\ account' = [account EXCEPT ![p] = b]
                 /\ b = AfterWrongPassword(a) \/ b = Unlocked(a)
    BY DEF SignInRefused, SignIn
  <1>6. /\ b \in WideAccount
        /\ b.exists = a.exists /\ b.role = a.role
        /\ b.enabled = a.enabled /\ b.password = a.password
        /\ b.version = a.version
        /\ b.lock # "open" <=> b.failures = LockoutFailures
    BY <1>2, <1>5, WrongPasswordFields, UnlockedFields
  <1>7. ShapeConstraints(b)
    BY <1>4, <1>6 DEF ShapeConstraints
  <1>8. Storable(b, person[p])
    BY <1>2, <1>6 DEF Storable, PersonRow
  <1>9. QED
    BY <1>3, <1>4, <1>5, <1>6, <1>7, <1>8, KeepingUpdateRefines

(* Creating an account is the boundary's own CreateAccount.                *)
LEMMA CreateRefines ==
    ASSUME IInv, NEW w \in Worker, CommitCreate(w)
    PROVE  Boundary!Step
  <1>1. TypeOK /\ work[w] # Idle
    BY DEF IInv, CommitCreate, Committing
  <1>2. PICK p \in Person, actor \in Person, role \in Roles :
           p = work[w].target /\ actor = work[w].session.owner /\ role = work[w].role
    BY <1>1, RequestTypes
  <1>3. Write(p, NewAccount(role), LoginSynced(person[p], TRUE))
    BY <1>2 DEF CommitCreate
  <1>4. /\ Usable(actor) /\ person[p].active /\ ~account[p].exists
    BY <1>2 DEF CommitCreate, LockActingAdministrator
  <1>5. account'[p].role = role
    <2>1. account'[p] = NewAccount(role)
      BY <1>1, <1>3, WriteEffect
    <2>2. QED
      BY <2>1 DEF NewAccount
  <1>6. Boundary!CreateAccount(p, role)
    BY <1>3, <1>4, BoundaryOperators DEF Boundary!CreateAccount, Write
  <1>7. QED
    BY <1>5, <1>6 DEF Boundary!Step

(* Roster work on the person's row is its EditPerson or its SetActive.     *)
LEMMA StaffCommitRefines ==
    ASSUME IInv, NEW w \in Worker,
           CommitEdit(w) \/ CommitDeactivate(w) \/ CommitReactivatePerson(w)
    PROVE  Boundary!Step
  <1> DEFINE r == work[w]
  <1>1. TypeOK /\ r # Idle /\ StaffTarget(r)
    BY DEF IInv, CommitEdit, CommitDeactivate, CommitReactivatePerson, Committing
  <1>2. PICK p \in Person, actor \in Person :
           p = r.target /\ actor = r.session.owner
    BY <1>1, RequestTypes
  <1>3. Usable(actor)
    BY <1>1, <1>2 DEF StaffTarget, StaffAdministrator
  <1>4. /\ RowSound(account[p], person[p])
        /\ account[p] \in WideAccount /\ person[p] \in WidePerson
        /\ account[p].enabled \in BOOLEAN /\ person[p].active \in BOOLEAN
        /\ person[p].rowVersion \in Nat
    BY <1>1, RowTypes DEF IInv, RowsSound
  <1>5. CASE CommitEdit(w)
    <2>1. Write(p, account[p], NextRow(person[p]))
      BY <1>2, <1>5 DEF CommitEdit
    <2>2. account' = account /\ person' = [person EXCEPT ![p] = NextRow(person[p])]
      BY <1>1, <2>1 DEF Write, TypeOK
    <2>3. person[p].rowVersion < MaxRowVersion
      <3>1. NextRow(person[p]).rowVersion <= MaxRowVersion
        BY <2>1 DEF Write, Storable
      <3>2. NextRow(person[p]).rowVersion = person[p].rowVersion + 1
        BY <1>4 DEF NextRow, WidePerson
      <3>3. QED
        BY <1>4, <3>1, <3>2
    <2>4. Boundary!EditPerson(actor, p)
      BY <1>3, <2>2, <2>3, BoundaryOperators DEF Boundary!EditPerson
    <2>5. QED
      BY <2>4 DEF Boundary!Step
  <1>6. CASE CommitDeactivate(w)
    <2> DEFINE b == DisabledWithPerson(account[p])
               c == WithActive(person[p], FALSE, FALSE)
    <2>1. /\ Write(p, b, c) /\ actor # p /\ person[p].active
          /\ p \notin Reviewers
      BY <1>2, <1>6 DEF CommitDeactivate
    <2>2. b.enabled = FALSE
      <3>1. CASE account[p].exists
        <4> DEFINE d == Disabled(account[p])
        <4>1. d.enabled = FALSE
          BY <1>4, DisabledFields
        <4>2. b = d
          BY <3>1 DEF DisabledWithPerson
        <4> HIDE DEF b, d
        <4>3. QED
          BY <4>1, <4>2
      <3>2. CASE ~account[p].exists
        BY <1>4, <3>2 DEF DisabledWithPerson, RowSound
      <3>3. QED
        BY <3>1, <3>2
    <2>3. person'[p].active = FALSE
      <3>1. person'[p] = c
        BY <1>1, <2>1, WriteEffect
      <3>2. c.active = FALSE
        BY <1>4, PersonFields
      <3>3. QED
        BY <3>1, <3>2
    <2>4. Boundary!SetActive(actor, p, FALSE)
      <3>1. Usable(actor) /\ person[p].active # FALSE
        BY <1>3, <2>1
      <3>2. \E x \in Person \ {p} : Usable(x)
        BY <1>3, <2>1
      <3>3. WithActive(person[p], FALSE, b.enabled) = c
        BY <2>2
      <3>4. /\ Storable(b, c)
            /\ account' = [account EXCEPT ![p] = b]
            /\ person' = [person EXCEPT ![p] = c]
        BY <2>1 DEF Write
      <3> HIDE DEF b, c
      <3>5. QED
        BY <2>1, <3>1, <3>2, <3>3, <3>4, BoundaryOperators
           DEF Boundary!SetActive, Boundary!AnotherUsable, b
    <2>5. QED
      BY <2>3, <2>4 DEF Boundary!Step
  <1>7. CASE CommitReactivatePerson(w)
    <2> DEFINE c == WithActive(person[p], TRUE, account[p].enabled)
    <2>1. Write(p, account[p], c) /\ ~person[p].active
      BY <1>2, <1>7 DEF CommitReactivatePerson
    <2>2. person'[p].active = TRUE
      <3>1. person'[p] = c
        BY <1>1, <2>1, WriteEffect
      <3>2. c.active = TRUE
        BY <1>4, PersonFields
      <3>3. QED
        BY <3>1, <3>2
    <2>3. Boundary!SetActive(actor, p, TRUE)
      BY <1>3, <1>4, <2>1, BoundaryOperators DEF Boundary!SetActive, Write
    <2>4. QED
      BY <2>2, <2>3 DEF Boundary!Step
  <1>8. QED
    BY <1>5, <1>6, <1>7

(* The clock is the same step on both sides.                               *)
LEMMA LockRefines ==
    ASSUME IInv, NEW p \in Person, LockElapses(p)
    PROVE  Boundary!Step
  <1>1. Boundary!LockElapses(p)
    BY BoundaryOperators DEF LockElapses, Boundary!LockElapses
  <1>2. QED
    BY <1>1 DEF Boundary!Step

(* Every behaviour of the service is one of the database boundary: each    *)
(* step writes what the triggers admit, or neither table.                  *)
THEOREM ServiceImplementsBoundary == Spec => ImplementsBoundary
  <1>1. Init => Boundary!Init
    BY InitRefines
  <1>2. ASSUME IInv, [Next]_vars
        PROVE  [Boundary!Step]_(Boundary!vars)
    <2>1. ASSUME NEW p \in Person,
                 \/ SignInRefused(p) \/ SignIn(p) \/ LockElapses(p)
                 \/ SetApprovedAccountPassword(p)
          PROVE  Boundary!Step
      <3>1. CASE SetApprovedAccountPassword(p)
        BY <1>2, <3>1, RekeyRefines DEF SetApprovedAccountPassword
      <3>2. QED
        BY <1>2, <2>1, <3>1, AttemptRefines, LockRefines
    <2>2. ASSUME NEW w \in Worker, CommitOwnPassword(w)
          PROVE  Boundary!Step
      <3>1. /\ work[w] # Idle /\ ValidSession(work[w].session)
            /\ Write(work[w].session.owner,
                     Rekeyed(account[work[w].session.owner], FALSE),
                     person[work[w].session.owner])
        BY <2>2 DEF CommitOwnPassword, Committing
      <3>2. PICK p \in Person : p = work[w].session.owner
        BY <1>2, <3>1, RequestTypes DEF IInv
      <3>3. account[p].exists
        BY <1>2, <3>1, <3>2 DEF ValidSession, IInv, RowsSound, RowSound
      <3>4. Write(p, Rekeyed(account[p], FALSE), person[p])
        BY <3>1, <3>2
      <3>5. QED
        BY <1>2, <3>3, <3>4, RekeyRefines
    <2>3. ASSUME NEW w \in Worker, Commit(w)
          PROVE  Boundary!Step
      BY <1>2, <2>2, <2>3, UserCommitRefines, CreateRefines, StaffCommitRefines
         DEF Commit
    <2>4. CASE UNCHANGED rows
      BY <2>4 DEF rows, Boundary!vars
    <2>5. CASE \/ UNCHANGED vars
               \/ \E s \in sessions : SessionEnds(s)
               \/ \E w \in Worker : Admit(w) \/ Abandon(w)
      <3>1. UNCHANGED rows
        BY <2>5 DEF vars, rows, SessionEnds, Admit, AdmitManagement,
           AdmitOwnPassword, Abandon
      <3>2. QED
        BY <2>4, <3>1
    <2>6. QED
      BY <1>2, <2>1, <2>3, <2>5 DEF Next
  <1>3. QED
    BY <1>1, <1>2, Invariant, PTL DEF Spec, ImplementsBoundary, Boundary!Promise
=============================================================================

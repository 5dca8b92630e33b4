---------------------------- MODULE CaseRecords ----------------------------
(***************************************************************************)
(* The records of a case file: matters, the hearings and administrative    *)
(* works that may belong to one, and the steps of a work.  A record keeps  *)
(* its identity and its parent for ever (hearing_edit_guard,               *)
(* admin_edit_guard), is never deleted, and is archived and restored       *)
(* instead.  Text stands for all the business fields of a record.          *)
(***************************************************************************)
EXTENDS Integers, FiniteSets

CONSTANTS Matter, Hearing, Work, Step,  \* the identities a sequence hands out
          Text,                         \* the values of the business fields
          None                          \* SQL's NULL

Record == Matter \cup Hearing \cup Work \cup Step

ASSUME KindsAssumption ==
    /\ Matter \cap (Hearing \cup Work \cup Step) = {}
    /\ Hearing \cap (Work \cup Step) = {}
    /\ Work \cap Step = {}
    /\ None \notin Record
    /\ IsFiniteSet(Record)    \* PostgreSQL integers

Row == [there : BOOLEAN, parent : Record \cup {None}, text : Text, archived : BOOLEAN]

(* What a record of this kind may belong to.  Imported steps without a     *)
(* work, which no gateway accepts, are left out.                           *)
ParentsOf(r) ==
    IF r \in Matter THEN {None} ELSE IF r \in Step THEN Work ELSE Matter \cup {None}

(* The record with this parent, and the parent's own one: a step has two   *)
(* records above it, nothing has three.                                    *)
Lineage(rows, p) == {p, IF p = None THEN None ELSE rows[p].parent} \ {None}

Above(rows, r) == Lineage(rows, rows[r].parent)

Below(rows, r) == {x \in Record : rows[x].there /\ r \in Above(rows, x)}

(* The checks on matters and admin_tasks that come before every write.     *)
Unarchived(rows, records) == \A a \in records : ~rows[a].archived
=============================================================================

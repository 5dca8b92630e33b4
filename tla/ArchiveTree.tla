---------------------------- MODULE ArchiveTree ----------------------------
(***************************************************************************)
(* What the tables' triggers (matter_lifecycle_guard,                      *)
(* hearing_lifecycle_guard, admin_edit_guard, admin_lifecycle_guard) let   *)
(* any writer do to one record: it begins unarchived under a parent that   *)
(* is not in the archive; while it, and everything above it, is out of the *)
(* archive its fields may change; and its archive flag alone may change    *)
(* while everything above it is out of the archive.  Archiving a record    *)
(* does not write to the records below it.                                 *)
(***************************************************************************)
EXTENDS CaseRecords

VARIABLE row

(* What the data import left is out of the archive, every record below     *)
(* another that is there.                                                  *)
Init ==
    /\ row \in [Record -> Row]
    /\ \A r \in Record :
          /\ ~row[r].archived
          /\ row[r].there => /\ row[r].parent \in ParentsOf(r)
                            /\ \A a \in Above(row, r) : row[a].there

Create(r) ==
    \E p \in ParentsOf(r), t \in Text :
       /\ ~row[r].there
       /\ \A a \in Lineage(row, p) : row[a].there
       /\ Unarchived(row, Lineage(row, p))
       /\ row' = [row EXCEPT ![r] = [there |-> TRUE, parent |-> p, text |-> t,
                                     archived |-> FALSE]]

Change(r) ==
    \E t \in Text :
       /\ row[r].there /\ Unarchived(row, {r} \cup Above(row, r))
       /\ row' = [row EXCEPT ![r].text = t]

SetArchived(r) ==
    /\ row[r].there /\ Unarchived(row, Above(row, r))
    /\ row' = [row EXCEPT ![r].archived = ~@]

Next == \E r \in Record : Create(r) \/ Change(r) \/ SetArchived(r)

Spec == Init /\ [][Next]_row

-----------------------------------------------------------------------------
(* Once a record is archived nothing below it changes, is added or has its *)
(* own archive flag set until it is restored: what a restoration brings    *)
(* back is exactly the family that was archived.                           *)
ArchivedFamiliesAreFrozen ==
    [][\A r \in Record :
          row[r].there /\ row[r].archived /\ row'[r].archived =>
             /\ Below(row', r) = Below(row, r)
             /\ \A x \in Below(row, r) : row'[x] = row[x]]_row
=============================================================================

----------------------------- MODULE MCCaseFile -----------------------------
(***************************************************************************)
(* Instances of CaseFile.  The records in Existing were imported, with the *)
(* first identity of the kind above them as parent, if there is one; the   *)
(* other identities are free.                                              *)
(***************************************************************************)
EXTENDS CaseFile, TLC

CONSTANTS Existing, m1, m2, m3, h1, h2, w1, s1, s2, s3, old, new

Nothing == [there |-> FALSE, parent |-> None, text |-> old, archived |-> FALSE]
Import(p) == [Nothing EXCEPT !.there = TRUE, !.parent = p]

MCImported ==
    [r \in Record |->
       CASE r \notin Existing -> Nothing
         [] r \in Matter      -> Import(None)
         [] r \in Step        -> Import(w1)
         [] OTHER             -> Import(IF m1 \in Existing THEN m1 ELSE None)]

MCForms == Permutations(Form)
=============================================================================

------------------------------ MODULE CaseFile ------------------------------
(***************************************************************************)
(* The gateways through which pages write matters, hearings,               *)
(* administrative works and their steps: matter_edit_save,                 *)
(* hearing_edit_save, admin_edit_save and the three lifecycle saves, with  *)
(* the forms that call them.  A call is one serializable transaction       *)
(* (withSerializableRetry) and hence one step here.                        *)
(*                                                                         *)
(* A form is given its submission identity when the page is rendered and   *)
(* keeps it.  What it displayed travels with it as `seen`, which the       *)
(* properties compare with what the save found; the code has only the      *)
(* version and the confirmation facts.                                     *)
(***************************************************************************)
EXTENDS CaseRecords

CONSTANTS Form,                            \* submission identities
          Administrator, Assistant, Paralegal,  \* who signs in, by role
          Imported                         \* the rows the data import left

(* The import archives nothing, and its records have their parents.        *)
ASSUME ImportedAssumption ==
    /\ Imported \in [Record -> Row]
    /\ \A r \in Record :
          /\ ~Imported[r].archived
          /\ Imported[r].there => /\ Imported[r].parent \in ParentsOf(r)
                                 /\ \A a \in Above(Imported, r) : Imported[a].there

VARIABLES
    row,       \* matters, hearings, admin_tasks and task_actions
    version,   \* row_version of a matter, a hearing or a work
    order,     \* task_actions.current_order, 0 for the NULL of an import
    receipt,   \* the *_edit_submission rows, with their *_edit_change row
    form       \* the forms open in browsers

vars == <<row, version, order, receipt, form>>

Actor == Administrator \cup Assistant \cup Paralegal
Root == Matter \cup Hearing \cup Work
Kinds == {"matter", "hearing", "work", "step"}
Lifecycle == {"archive", "restore"}

Identities(kind) ==
    IF kind = "matter" THEN Matter
    ELSE IF kind = "hearing" THEN Hearing
    ELSE IF kind = "work" THEN Work ELSE Step

(* A request names the record, or for a new one its kind, and the parent.  *)
RequestType ==
    [op : {"create", "edit"} \cup Lifecycle, kind : Kinds, record : Record \cup {None},
     parent : Record \cup {None}, version : Nat, text : Text]

(* The record whose version guards the request: a step's is its work.      *)
RootOf(q) == IF q.kind = "step" THEN q.parent ELSE q.record

-----------------------------------------------------------------------------
(* What the confirmation of archiving or restoring sends back.             *)
CaseNumber(r) == {row[a].text : a \in Above(row, r) \cap Matter}

StepsOf(w) == {s \in Step : row[s].there /\ row[s].parent = w}

WorkOf(r) == IF r \in Step THEN row[r].parent ELSE r

(* A mutant: the steps are left out of the counts.                         *)
MatterCountsWithoutSteps(m) ==
    [hearings |-> Cardinality(Below(row, m) \cap Hearing),
     tasks    |-> Cardinality(Below(row, m) \cap Work)]

(* matter_lifecycle_counts; archived records are counted as well.          *)
MatterCounts(m) ==
    [hearings |-> Cardinality(Below(row, m) \cap Hearing),
     tasks    |-> Cardinality(Below(row, m) \cap Work),
     steps    |-> Cardinality(Below(row, m) \cap Step)]

(* A mutant: the case number is displayed but not sent back.               *)
HearingFactsWithoutCase(h) == [matterId |-> row[h].parent]

(* hearing_lifecycle_facts.                                                *)
HearingFacts(h) == [matterId |-> row[h].parent, caseNumber |-> CaseNumber(h)]

(* admin_lifecycle_facts.                                                  *)
AdminFacts(r) ==
    [requiredWork |-> row[WorkOf(r)].text, caseNumber |-> CaseNumber(r),
     subject      |-> row[r],
     currentSteps  |-> Cardinality({s \in StepsOf(WorkOf(r)) : ~row[s].archived}),
     archivedSteps |-> Cardinality({s \in StepsOf(WorkOf(r)) : row[s].archived})]

Facts(r) ==
    IF r \in Matter THEN MatterCounts(r)
    ELSE IF r \in Hearing THEN HearingFacts(r) ELSE AdminFacts(r)

(* What the page of a record shows of it, of what it belongs to and of     *)
(* what belongs to it; only a work's page tells its archived steps apart.  *)
Shown(r) ==
    [self  |-> row[r],
     above |-> {<<a, row[a].text>> : a \in Above(row, r)},
     below |-> {<<x, r \in Work /\ row[x].archived>> : x \in Below(row, r)}]

-----------------------------------------------------------------------------
(* *_edit_require_account and the role test of the lifecycle gateways.     *)
Authorized(a, q) ==
    IF q.op \in Lifecycle THEN a \in Administrator
    ELSE a \in Administrator \cup Assistant \/ q.kind \in {"work", "step"}

(* A mutant: every gateway looks its receipts up by actor and submission.  *)
ReceiptsOfActor(f, a, q) == {e \in receipt : e.form = f /\ e.actor = a}

(* A matter's receipts are looked up by actor and submission, the others   *)
(* by submission alone.                                                    *)
ReceiptsFor(f, a, q) ==
    {e \in receipt : e.form = f /\ (q.kind = "matter" => e.actor = a)}

(* A mutant: only the parent itself is looked at, not what it belongs to.  *)
NearestParentOpen(q) == Unarchived(row, {q.parent} \ {None})

(* Nothing above the record is archived.                                   *)
ParentOpen(q) == Unarchived(row, Lineage(row, q.parent))

Fresh(q) == RootOf(q) # None => version[RootOf(q)] = q.version

Editable(q) == q.op = "edit" => ~row[q.record].archived

Confirmed(f) ==
    LET q == form[f].request
    IN  q.op \in Lifecycle => form[f].facts = Facts(q.record)

Accepted(f) ==
    LET q == form[f].request
    IN  ParentOpen(q) /\ Fresh(q) /\ Editable(q) /\ Confirmed(f)

(* Whether the request would change anything.                              *)
Effective(q) ==
    \/ q.op = "create"
    \/ q.op = "edit" /\ row[q.record].text # q.text
    \/ q.op \in Lifecycle /\ row[q.record].archived # (q.op = "archive")

(* A mutant of the next one: receipts are consulted after the checks.      *)
ReplayedIfStillAccepted(f, a) ==
    LET q == form[f].request
    IN  /\ Accepted(f)
        /\ \E e \in ReceiptsFor(f, a, q) : e.actor = a /\ e.request = q

(* The exact request was saved before, by the same actor: its stored       *)
(* result is returned whatever has happened since.                         *)
Replayed(f, a) ==
    LET q == form[f].request
    IN  \E e \in ReceiptsFor(f, a, q) : e.actor = a /\ e.request = q

Saves(f, a) ==
    LET q == form[f].request
    IN  /\ Authorized(a, q) /\ ReceiptsFor(f, a, q) = {}
        /\ Accepted(f) /\ Effective(q)

Acknowledges(f, a) ==
    LET q == form[f].request
    IN  /\ Authorized(a, q)
        /\ \/ Replayed(f, a)
           \/ ReceiptsFor(f, a, q) = {} /\ Accepted(f) /\ ~Effective(q)

-----------------------------------------------------------------------------
Unused == [status |-> "unused"]
Spent  == [status |-> "spent"]

Pending(f) == form[f].status \in {"typing", "uncertain"}

(* A page that is still open: what it will send, and what it displayed.    *)
OpenPage(o) ==
    /\ o = [status |-> o.status, request |-> o.request, facts |-> o.facts, seen |-> o.seen]
    /\ o.status \in {"typing", "uncertain"} /\ o.request \in RequestType

(* The rows, versions, orders, receipts and forms that exist; a form that  *)
(* was answered keeps nothing.                                             *)
TypeOK ==
    /\ row \in [Record -> Row]
    /\ version \in [Root -> Nat]
    /\ order \in [Step -> Nat]
    /\ \A e \in receipt :
          /\ e.form \in Form /\ e.actor \in Actor /\ e.request \in RequestType
          /\ e.root \in Root /\ e.version \in Nat
    /\ form = [f \in Form |-> form[f]]
    /\ \A f \in Form : form[f] \in {Unused, Spent} \/ OpenPage(form[f])

(* The import numbers its rows from version 1.                             *)
Init ==
    /\ row = Imported
    /\ version = [r \in Root |-> IF Imported[r].there THEN 1 ELSE 0]
    /\ order = [s \in Step |-> 0]
    /\ receipt = {}
    /\ form = [f \in Form |-> Unused]

-----------------------------------------------------------------------------
(* The pages.  A picker or an edit page is only offered while neither the  *)
(* record nor anything above it is archived, a confirmation while nothing  *)
(* above it is.                                                            *)
Displayed(f, q) ==
    form' = [form EXCEPT ![f] =
               [status |-> "typing", request |-> q,
                facts  |-> IF q.op \in Lifecycle THEN Facts(q.record) ELSE None,
                seen   |-> IF q.op = "create" THEN None ELSE Shown(q.record)]]

OpenNew(f) ==
    \E k \in Kinds, p \in Record \cup {None}, t \in Text :
       /\ form[f] = Unused
       /\ \E r \in Identities(k) : ~row[r].there /\ p \in ParentsOf(r)
       /\ \A a \in Lineage(row, p) : row[a].there /\ ~row[a].archived
       /\ Displayed(f, [op |-> "create", kind |-> k, record |-> None, parent |-> p,
                        version |-> IF k = "step" THEN version[p] ELSE 0, text |-> t])
       /\ UNCHANGED <<row, version, order, receipt>>

OpenEdit(f) ==
    \E k \in Kinds : \E r \in Identities(k), t \in Text :
       /\ form[f] = Unused
       /\ row[r].there /\ Unarchived(row, {r} \cup Above(row, r))
       /\ Displayed(f, [op |-> "edit", kind |-> k, record |-> r, parent |-> row[r].parent,
                        version |-> version[WorkOf(r)], text |-> t])
       /\ UNCHANGED <<row, version, order, receipt>>

OpenLifecycle(f) ==
    \E k \in Kinds, o \in Lifecycle : \E r \in Identities(k) :
       /\ form[f] = Unused
       /\ row[r].there /\ Unarchived(row, Above(row, r))
       /\ Displayed(f, [op |-> o, kind |-> k, record |-> r, parent |-> row[r].parent,
                        version |-> version[WorkOf(r)], text |-> row[r].text])
       /\ UNCHANGED <<row, version, order, receipt>>

(* After a refusal the fields can be typed in again under the same         *)
(* submission; after an uncertain answer they cannot.                      *)
Retype(f) ==
    \E t \in Text :
       /\ form[f].status = "typing" /\ form[f].request.op \in {"create", "edit"}
       /\ form' = [form EXCEPT ![f].request.text = t]
       /\ UNCHANGED <<row, version, order, receipt>>

(* The answer arrives and leaves the form as given, or it is lost: the     *)
(* form then sends again exactly what it sent.                             *)
Answered(f, after) ==
    \/ form' = [form EXCEPT ![f] = after]
    \/ form' = [form EXCEPT ![f].status = "uncertain"]

-----------------------------------------------------------------------------
(* A mutant: one more than the steps that are not archived.                *)
OrderAfterCurrentSteps(w) == {Cardinality({s \in StepsOf(w) : ~row[s].archived}) + 1}

(* greatest(max(current_order), count(all rows)) + 1, archived steps too:  *)
(* a set with that one element.                                            *)
NextOrder(w) ==
    LET used == {order[s] : s \in StepsOf(w)} \cup {Cardinality(StepsOf(w))}
    IN  {n + 1 : n \in {u \in used : \A m \in used : m <= u}}

(* A mutant: saving a step leaves its work's version alone.                *)
NextVersionOfRoots(q, r) == IF r \in Step THEN version[RootOf(q)] ELSE version[r] + 1

(* The version of the root after the save, at r itself or at r's work.     *)
NextVersion(q, r) == version[IF r \in Step THEN q.parent ELSE r] + 1

(* The change row, the receipt and the new version, with every save.       *)
Commit(f, a, r) ==
    LET q    == form[f].request
        root == IF r \in Step THEN q.parent ELSE r
    IN  /\ version' = [version EXCEPT ![root] = NextVersion(q, r)]
        /\ receipt' = receipt \cup
              {[form |-> f, actor |-> a, request |-> q, root |-> root,
                version |-> NextVersion(q, r)]}
        /\ Answered(f, Spent)

(* The sequence hands out an identity never used before.                   *)
SaveNew(f, a) ==
    LET q == form[f].request
    IN  /\ Pending(f) /\ q.op = "create" /\ Saves(f, a)
        /\ \E r \in Identities(q.kind) :
              /\ ~row[r].there
              /\ row' = [row EXCEPT ![r] = [there |-> TRUE, parent |-> q.parent,
                                            text |-> q.text, archived |-> FALSE]]
              /\ IF r \in Step
                 THEN \E n \in NextOrder(q.parent) : order' = [order EXCEPT ![r] = n]
                 ELSE UNCHANGED order
              /\ Commit(f, a, r)

SaveEdit(f, a) ==
    LET q == form[f].request
    IN  /\ Pending(f) /\ q.op = "edit" /\ Saves(f, a)
        /\ row' = [row EXCEPT ![q.record].text = q.text]
        /\ UNCHANGED order
        /\ Commit(f, a, q.record)

SaveLifecycle(f, a) ==
    LET q == form[f].request
    IN  /\ Pending(f) /\ q.op \in Lifecycle /\ Saves(f, a)
        /\ row' = [row EXCEPT ![q.record].archived = (q.op = "archive")]
        /\ UNCHANGED order
        /\ Commit(f, a, q.record)

Acknowledge(f, a) ==
    /\ Pending(f) /\ Acknowledges(f, a)
    /\ Answered(f, Spent)
    /\ UNCHANGED <<row, version, order, receipt>>

Refuse(f, a) ==
    /\ Pending(f) /\ ~Saves(f, a) /\ ~Acknowledges(f, a)
    /\ Answered(f, [form[f] EXCEPT !.status = "typing"])
    /\ UNCHANGED <<row, version, order, receipt>>

(* The call fails before it commits: rolled back, reported as uncertain.   *)
Fail(f) ==
    /\ Pending(f)
    /\ form' = [form EXCEPT ![f].status = "uncertain"]
    /\ UNCHANGED <<row, version, order, receipt>>

Next ==
    \E f \in Form :
       \/ OpenNew(f) \/ OpenEdit(f) \/ OpenLifecycle(f) \/ Retype(f) \/ Fail(f)
       \/ \E a \in Actor :
             SaveNew(f, a) \/ SaveEdit(f, a) \/ SaveLifecycle(f, a)
                \/ Acknowledge(f, a) \/ Refuse(f, a)

Spec == Init /\ [][Next]_vars
-----------------------------------------------------------------------------
(* The save that this step commits through a form, if it does.             *)
Saved(f) == {e \in receipt' \ receipt : e.form = f}

(* Nothing is overwritten unseen: the text an edit replaces is the text    *)
(* its form displayed, however many other saves came in between.  A step   *)
(* has no version of its own and relies on its work's (D62.11).            *)
NoLostUpdate ==
    [][\A f \in Form : \A e \in Saved(f) :
          e.request.op = "edit" =>
             row[e.request.record].text = form[f].seen.self.text]_vars

(* Whoever archives or restores a record confirmed what the archive flag   *)
(* then applies to: the record, the texts above it and the set of records  *)
(* below it are, at the commit, those the confirmation displayed (D58.9,   *)
(* D61.8, D63.7), although counts are all that is sent back about them.    *)
ConfirmationHolds ==
    [][\A f \in Form : \A e \in Saved(f) :
          e.request.op \in Lifecycle => Shown(e.request.record) = form[f].seen]_vars

(* A form takes effect once, whoever sends it and however often.  Only a   *)
(* matter's form that a second person sends on counts as that person's     *)
(* own (the key of matter_edit_submission).                                *)
OneEffectPerForm ==
    \A e, d \in receipt :
       e.form = d.form /\ (e.request.kind = "matter" => e.actor = d.actor) => e = d

(* Whoever saved a form and lost the answer is told so when it is sent     *)
(* again, although the record has moved on or is archived by then          *)
(* (D62.12, D63.9).                                                        *)
ResendsAreAcknowledged ==
    \A e \in receipt :
       Pending(e.form) /\ form[e.form].request = e.request => Acknowledges(e.form, e.actor)

(* The history has no hole and no fork: every version of a matter, hearing *)
(* or work after the import's is the result of exactly one receipt.  This  *)
(* is what the *_edit_change keys and *_edit_current_valid demand.         *)
VersionsAreAccountedFor ==
    \A r \in Root :
       /\ {e.version : e \in {d \in receipt : d.root = r}}
             = (IF Imported[r].there THEN 2 ELSE 1)..version[r]
       /\ \A e, d \in receipt : e.root = r /\ d.root = r /\ e.version = d.version => e = d

(* No two steps that were made here have one order in their work, neither  *)
(* with an archived one nor after a restoration (D63.5).                   *)
StepOrdersAreDistinct ==
    \A s, u \in Step :
       /\ row[s].there /\ row[u].there /\ row[s].parent = row[u].parent
       /\ order[s] # 0 /\ s # u
       => order[s] # order[u]

(* The gateways never trip a trigger.                                      *)
Tree == INSTANCE ArchiveTree
ImplementsArchiveTree == Tree!Spec
FamiliesBelowTheArchiveAreFrozen == Tree!ArchivedFamiliesAreFrozen
=============================================================================

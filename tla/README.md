# A verification project for the litigation system

The repository is a Next.js application (`src/src/app`, `src/src/lib`) over
PostgreSQL (`src/prisma/migrations`): the case files of a law office, its staff,
its clients and their documents. Every page runs on the server, every change is
one Serializable transaction, and most rules live twice, in TypeScript and in
triggers and SECURITY DEFINER functions of the database, because the runtime
role may be used by more than one program. What makes the system hard is
therefore not one algorithm but what many users do to the same rows at the same
time: forms filled in against versions that are gone, requests admitted with
sessions that are revoked before they commit, responses lost and requests sent
again, and, for logos, a file system that is not part of the transaction.

## Inventory

| Part | State | Operations | What makes it correct | Here |
|---|---|---|---|---|
| Accounts, sign-in, sessions (`lib/auth`, `auth.ts`, `app/users`, `app/change-password`) | `user_accounts` (role, enabled, password, must-change, failures, lock, session_version), the JWT cookies | sign in, own password, create, username, role, disable, temporary password, reset, reactivate | a usable Administrator remains; a revoked session is dead for good; eligibility follows the roster; lockout counts right | `Accounts`, `AccountRows`, `AccountBoundary` |
| Staff roster (`staff-mutations.ts`, `20260906180000`) | `people` (active, can_login, row_version), aliases, teams, reviewers | create, rename, edit aliases, deactivate, reactivate | deactivation takes the account along; reviewers stay; changes by a current session | `StaffRoster`; the cascade to accounts in `Accounts` |
| Client logos (`client-logo-*.ts`, `20260910140000`) | `client_logos`, versions, receipts, the files | create, replace, archive, restore | no registered version without its bytes; a resent request is answered alike | `LogoStore`, `LogoHistory` |
| Matters (`matter-*.ts`, `20260912*`) | `matters`, parties, capacities, lawyers, receipts, change ledger | create, edit, archive, restore | no edit overwrites, and no confirmation archives, what its form did not show; a form counts once | `CaseFile`, `CaseRecords`, `ArchiveTree`; the lawyers in `Assignments`; parties and capacities as one text |
| Hearings (`hearing-*.ts`, `20260913*`) | `hearings`, attendees, receipts, ledger | create, edit, archive, restore | the same; nothing below an archived matter changes | the same modules |
| Administrative works and steps (`admin-*.ts`, `20260914*`, `20260915120000`) | `admin_tasks`, `task_actions`, receipts | create, edit, archive, restore | the same, two levels down, with one version for a work and its steps; step orders stay distinct | the same modules |
| Clients and contacts (`client-mutations.ts`, `20260909120000`) | `clients`, contacts, main contact, receipts | create, edit, archive, restore, choose the main contact | the main contact is the client's own and not archived; an edit, which has no submission, takes effect once | `ClientContacts`, `ContactFamily` |
| Powers of attorney (`20260915180000`), documents and fee letters (`20260916180000`, `20261007220000`, `20261008000000`) | rows, members below them, receipts | create, edit, archive, restore, cover and uncover matters, refer to a letter | members stay single and ordered; what is below the archive rests | `Papers` |
| Locking and retries (`service.ts:79`, the `FOR UPDATE` and `FOR SHARE` statements of all gateways) | row locks, snapshots, attempts | take, wait, retry, give up | saves of case records never wait in a circle; contention alone refuses nobody | `LockOrder` |
| Audit trail (`audit*.ts`, `20260902180000`, `20260920140000`) | append-only events | append, read, export | every change has an event; an export is of one snapshot | planned; the events of clients are the variable `event` of `ClientContacts` |
| Reports and selections (`lib/reports`) | none, selections travel with the request | generate, select | a report is of one snapshot, its selection re-checked | planned |
| Restoration of Task 6.9 (`202610*`, `scripts/task69-*`) | receipts per repair | restore, compensate | compensation undoes exactly what was restored | planned, last |
| Dashboards, lists, billing, data import, operator scripts, user interface | none of their own, or run alone | queries, rendering, batch conversion | formatting | not modelled |

How the parts meet: all of them read the session through `decideAuthorization`,
and the database functions re-read the account row inside the transaction;
the roster writes into the accounts (deactivating a person disables and revokes
its account); matters hang below clients, hearings and works below matters,
steps below works, and an archived parent refuses work on what is below it.

## Modules

| Module | Models | Role |
|---|---|---|
| `AccountRows` | the rows of `user_accounts` and `people` and what the writers do to one row | shared operators |
| `AccountBoundary` | the triggers and gateways of migrations 20260831100000, 20260903160000, 20260906180000 | abstract specification: whatever UPDATE the runtime role issues |
| `Accounts` | `service.ts`, `session.ts`, `user-management.ts`, the status part of `staff-mutations.ts` | detailed specification; implements `AccountBoundary` |
| `AccountsProofs` | | the theorems, the refinement among them |
| `LogoHistory` | what the logo pages promise | abstract specification |
| `LogoStore` | `client-logo-storage.ts`, `client-logo-management.ts`, `client_logo_mutate`, the file system | detailed specification; implements `LogoHistory` |
| `LogoStoreProofs` | | the theorems |
| `CaseRecords` | matters, hearings, administrative works, steps: their rows and what belongs to what | shared operators |
| `ArchiveTree` | the guards on `matters`, `hearings`, `admin_tasks`, `task_actions` | abstract specification: what the triggers let any writer do to one record |
| `CaseFile` | `matter_edit_save`, `hearing_edit_save`, `admin_edit_save`, the three `*_lifecycle_save`, the pages and forms that call them | detailed specification; implements `ArchiveTree` |
| `CaseFileProofs` | | the theorems |
| `Assignments` | the lists of lawyers, attendees and assignees inside the saves of matters, hearings and works | detailed specification of what `CaseFile` has as text |
| `AssignmentsProofs` | | the theorems |
| `ContactFamily` | `client_contact_guard` | abstract specification: what the trigger lets any writer do to a client or contact |
| `ClientContacts` | `mutateClient`, `client_contact_create`, `client_contact_update`, the pages in front of them | detailed specification; implements `ContactFamily` |
| `ClientContactsProofs` | | the theorems |
| `StaffRoster` | people, name spellings, trainees and team reviewers: `staff-mutations.ts` and the gateways and guards of 20260906180000 | specification |
| `StaffRosterProofs` | | the theorems |
| `LockOrder` | the row locks of all gateways, sign-in and user management, with `withSerializableRetry` | specification across the components |
| `LockOrderProofs` | | the theorems |
| `Papers` | `document_edit_save`, `poa_edit_save`, `fee_letter_edit_save`, `matter_fee_reference_edit_save` and their lifecycle functions | specification |
| `PapersProofs` | | the theorems |
| `MC*` | | constants, symmetry, bounds and initial states for TLC |

### Accounts

A request is two steps. *Admit* is what happens before the transaction:
`auth()` validates the cookie against the row, `decideAuthorization` looks at the
role and the forced password change, and the form contributes the version it was
filled in against. *Commit* is the transaction; it is one step because it is
Serializable and `withSerializableRetry` reruns it. Any number of requests may
be between the two, and a request can also end there without a change
(`Abandon`: every refusal, rollback or lost process, all of which leave the
tables alone). Passwords are generations: 0 is "no hash", and a write counts up.
Time appears only as "the lock elapses", which may happen at any moment; a lock
that has elapsed stays in the row until the next attempt, as in the code, so
`lock` has three values. The sessions that matter are the ones in cookies and
the ones that admitted requests still carry (`Held`): the latter decide about a
commit long after the cookie is gone.

`AccountBoundary` has no service in it: any row the CHECK constraints accept may
be proposed, and the triggers decide. The service is shown to be an
implementation of it, by TLC on small instances and by proof.

### Logos

A worker goes through the phases of `mutateLogo` and `publishLogo` one system
call at a time: read, look the final name up, write and flush a private file,
link it, verify and flush whatever is published, flush the directory, run
`client_logo_mutate`. A published name carries whether its bytes and its
directory entry have been flushed. `PowerLoss` may come between any two steps:
what was not flushed is lost or garbled independently per name, all workers die,
the database keeps its commits. The directory of the client is taken to exist
durably; the code does not flush its entry in the parent, and the documentation
(`src/docs/DATABASE.md:1149`) claims nothing there. Only the POSIX branch of
`publishLogo` is modelled.

A refusal carries its cause, because the causes decide what a user who sends a
request again may expect. `mutateLogo` checks four things before the transaction
that knows the receipts: the session, the client's archive flag (`archived`),
for uploads the logo's archive flag (`withdrawn`), and the files it would need
(`unavailable`). A request that was applied never meets the last;
`AppliedRequestsWelcome` names the other three as the only exceptions, the third
only for uploads whose logo was archived after them. Requests to archive or
restore carry no bytes and, once applied, are never refused for the state of the
logo.

### Case files

Six gateways have one shape, and `CaseFile` gives it once, with the points in
which they differ as conditions on the kind of record. In the order of the code:
the role, the receipt (`ReceiptsFor`, `Replayed`), what is above the record
(`ParentOpen`), the version (`Fresh`), the archive flag (`Editable`) or the
confirmation (`Confirmed`), whether anything changes (`Effective`), and then the
write with the change row, the receipt and the version (`Commit`). The receipt
comes first, so a save that was committed is confirmed even when everything
below would now refuse it. A refusal has no side effect, which is why `Refuse`
is the negation of the other two outcomes and does not repeat the order.

| TLA+ | Code |
|---|---|
| `row` | the rows of the four tables: parent, archive flag, all business fields and lists as one `text` |
| `version` | `row_version` of `matters`, `hearings`, `admin_tasks`; steps have none and use the one of their work |
| `order` | `task_actions.current_order`, 0 for imported steps, which have none |
| `receipt` | `*_edit_submission` with the `*_edit_change` row written next to it |
| `form` | a page open in a browser: what it will send (`request`, `facts`) and what it displayed (`seen`) |
| `OpenNew`, `OpenEdit`, `OpenLifecycle` | `*-management-page.tsx`, `*-lifecycle-page.tsx` over `*_edit_state`, `*_lifecycle_state` |
| `Retype`, `Answered`, `Fail` | the editors: fields stay open after a refusal and are frozen after an uncertain answer, when only the last payload can be sent again |

`seen` is not in the code. It is written when a page is displayed, is never read
by an action, and lets a property compare what somebody looked at with what the
save found; the code has the version and the confirmation facts instead, and
`NoLostUpdate` and `ConfirmationHolds` say that those are enough. For archiving
a matter the facts are counts, and creating a hearing leaves the matter's
version alone: the counts catch it because records are never deleted and never
move (`hearing_edit_guard`, `admin_edit_guard`). A hearing's facts carry the
case number for the same reason.

A gateway call is one step: it runs at the Serializable level inside
`withSerializableRetry`. Any actor may send any open form at any time, again
and again, and the answer may be lost each time. What a matter's receipts are
keyed by (actor and submission) differs from the others (submission alone, with
a refusal for another actor), and `OneEffectPerForm` states exactly that
difference: a matter form sent on by a second person counts as that person's.
`DECISIONS.md` asks for that refusal where it speaks of works and their
lifecycles (D62.12 at line 1716) and of hearings (line 1669), and the code does
refuse there; it does not say so of matters, so the difference is stated as
a property and not as a finding.

Left out of the case file: the liveness of the session inside the gateways
(that is `Accounts`), lookups, protected imported fields, clients as parents of
matters, documents and fee letters among the counts, and imported steps without
a work, which no gateway accepts. The lists of people are one text here and a
module of their own below.

### Lists of people

`Assignments` opens the lists up. All three are kept in rows that are retired
and never deleted, and each differs from the others in what decides a bug:
lawyers are written one row at a time under an index that allows one current
lead, so `Assigned(q, i)` gives the table after every statement; attendees are
appended behind the highest place ever given, retired ones included; assignees
are numbered anew by every save, and the older column `assigned_to_person_id`
must follow. A form keeps the list it displayed. The roster may deactivate
anybody in between: who joins must be active at the save, who was kept need not.
Imported hearings may name a person twice; `OneRowPerPerson` makes exactly this
exception. Versions, confirmations and receipts are those of `CaseFile` and are
reduced here to one version per list; refused forms are closed. The comparison
of matter lists in the code sees the lead as part of the row, as `Row` does.
Not distinguished are co-leads and supporting lawyers, which are a label of the
row that a save may set, and imported attendees without a person are left out: a
save can keep or drop them and no rule about joining concerns them.
The serial `id` of a row is modelled as the version of the list that inserted it
and the position in that insert (`NewId`), with 0 for imported rows: new and
ordered like a sequence (`Before`), and no counter has to be carried along.

### Clients and contacts

`ClientContacts` has one action per answer of `mutateClient`. The order of its
checks is kept where it can be seen: the parent is asked about before the
receipt is looked up, which is the finding below. Only creations have a
submission; an edit is protected by the version it displayed, and
`OneEffectPerForm` says that this is enough for everybody who sends it, while a
creation counts once per person. The audit events are kept as "which form, by
whom, changed which row to which version", and the properties speak of them.
`ContactFamily` is the trigger: it accepts or refuses single rows, whoever
proposes them, and archiving a client freezes its family
(`FamilyRestsWhileArchived`). The counts the archive page of a client shows
(D52) are shown and not rechecked by the code, so no property speaks of them.
The text of a row stands for all business fields; of a client the main contact
is apart. An edit is the row with what was typed: `mutateClient` drops the
fields that are as they were.

### The roster

In `StaffRoster` the gateways run one after the other, because each writes the
row of `staff_roster_mutex` first; a step is a transaction. Only the three
statements of a renaming are kept apart: `name_ar`, the demotion of the old
primary alias and the new primary alias, with the guard on aliases evaluated on
the tables between them (`Taken(.., Demoted(p), named)`). The version of a
person rises once per statement, also for its aliases, which have none of their
own; that is what `NoLostUpdate` rests on. `Norm` is `ar_normalise` as an
arbitrary function: two free spellings that normalise alike are the interesting
case. Accounts and the acting Administrator's session are `Accounts`; the unique
e-mail address is left out with the other texts.

### Locks

`LockOrder` is about all components together. A request is the set of row locks
its transaction takes, each with the statement that takes it and its mode; a
statement that locks several rows takes them in the order of their ids. A
transaction takes its next lock, waits, commits, is refused, fails with 40001
(its row was changed after its snapshot, or its page is outdated) or is the
victim that PostgreSQL chooses in a circle of waits, with 40P01. The retries are
those of `withSerializableRetry`. Left open, as a choice, is whether the driver
reports 40P01 as a conflict that is retried or as an error.

Saves of case records (`CaseKinds`) climb one order of the tables. The other
kinds do not: sign-in and user management lock an account before the mutex, and
documents and letters lock people or clients in another order than matters do,
although a comment (`20260913160000/migration.sql:117`) describes the mutex as
preceding account locks. Circles among those exist, PostgreSQL ends them, and
`EveryRequestIsAnswered` includes them. Some code locks people in the order of
the list that was sent (`20261007160000/migration.sql:179`) and not of the ids;
these locks are shared and nobody who keeps case records takes another on a
person, so their order makes no circle. Advisory locks on submissions and the
queries of report selections take no row locks and are left out.

### Papers

`Papers` has documents, powers of attorney, fee letters and the letter a matter
refers to as four kinds of one versioned row with rows of members below it, and
one action per operation. What is above a paper depends on the kind and, for
documents, on the members themselves: with matters it is those, without it is
the client (`Parents`). Matters, clients and people are archived and
deactivated by `Elsewhere`, at any moment. Covering a matter again makes a
second row, so restoring the first one must be refused (`Restorable`). The facts
of a confirmation are what the code compares; for letters they count the
matters that refer to it, which do not touch the letter's version.
Left out: the texts (a save changes a parent or a list) also where a
confirmation repeats them, the count of invoices in the facts of a letter (no
page writes invoices), imported provenance and scope rows, with them the refusal
to cover a matter whose imported scope is bounded
(`20261008000000/migration.sql:462`; `Cover` allows it, so the properties hold of
more behaviours than the code has), the older form of document requests that has no lists, and the
actors of submissions, which here are keyed by the form alone.

The rows below a paper are a set: a row is known by its member, and a covered
row of a letter by its place as well, because covering again makes another row
of the same matter. Serial ids are not needed, since no operation here orders
by them: lists are ordered by place.

## Runs

| Run | Question | Bounds, and why they are enough | Distinct states |
|---|---|---|---|
| `accounts` | Is eligibility in sync with the roster, and does every step of the service pass the triggers? | two people, from the seeded account without password; one request in flight, one cookie, two failures to a lockout, versions to 2 and roster versions to 5, which is what a deactivation and reactivation need | 556,000 |
| `account_races` | Can two Administrators remove each other? Is a staff change committed for a revoked session? Is a revoked session ever accepted again? | two Administrators, two requests in flight with one cookie each; versions to 3, so that each row is written once more by whatever wins and a person can be deactivated and reactivated while an old session is carried | 1,516,000 |
| `account_stale_commit` | (violation) Raising the session version stops what was admitted with it | the same; finding below | |
| `logo_store` | Are registered bytes always on the device; are resent requests answered alike and welcome; is the visible history proper; does resending settle an upload? | two workers, six requests chosen to meet (same submission with other bytes, same bytes under another submission, replacement, archive, restore, archive of what was uploaded, under the submission of another archive), one accident | 438,000 |
| `case_file` | Does a save ever overwrite or archive what its form did not show? Is every save one the triggers admit, so that what is restored is the family that was archived? Do receipts account for versions, and are step orders distinct? | three forms, each used once: two saves that can pass each other and one that meets the result (for steps: add, archive, add again). Two matters, a hearing, a work and its steps give every kind of parent and both depths; two texts are one to show and one to change it to; one Administrator may do everything, so roles only shrink the run | 142,000 |
| `case_submissions` | Does a form take effect once, and is whoever saved it told so? | two forms, one person of each of the three roles; a form and a rival that moves the record on, with any number of sends; a third matter and a second hearing so that sending a form again could create one more | 49,000 |
| `assignments` | Are the lists sound, do only active people join, does nobody leave unseen, and is nothing refused without reason? | two forms and three people: the list a form shows, somebody to leave it and somebody to join. The imported hearing names one person twice | 99,000 |
| `client_contacts` | Is the main contact sound, does a form take effect once and only on what it showed, and is every save one the guard admits? | one client with a main and another contact, identities for two more clients and one contact; three forms (choose, archive, and what meets the result), two people of whom one may archive | 163,000 |
| `contact_replay` | (violation) A resent creation is answered with the created identity | two forms of the same; finding below | |
| `staff_names` | Do names stay with one person, and reviewers eligible, over any sequence of pages? | two people and a newcomer, five spellings of which two normalise alike; five pages, since retire, give away, rename and restore are four and a stale one meets them | 41,000 |
| `lock_order` | Do saves of case records ever wait in a circle? Is anybody refused by contention alone? Is every request answered? | a matter save with every two of fourteen requests: a circle of two needs a third only as the one who holds a shared lock. Two attempts, so that the last one is used up | 327,000 |
| `papers` | Are memberships single and ordered, does a form take effect once and only on what it showed, and do papers below the archive rest? | three forms; six groups of papers and what is above them (`Desks`), each one question (a document of two matters, responsible people, a power of attorney with a former lawyer, references and letters, covered matters, new documents); versions to 4, one more than the forms can reach | 497,000 |

Where forms or requests are used up, nothing can happen once the last one is
answered: those cfgs say `CHECK_DEADLOCK FALSE`. Deadlock is checked in the runs
on accounts and logos. Forms and requests are interchangeable where `SYMMETRY`
is used, and no run with symmetry has a liveness property. Cookies are capped by
a state constraint (`SessionBound`): they do not influence each other.

Type invariants are checked where they are part of `ListsSound` or, for logos,
by themselves; elsewhere they are proved and not repeated in a run.

### Fairness

Only two properties need any. `EveryRequestIsAnswered` assumes that the server
and the database go on as long as anything can (`WF_vars(Next)`): locks that are
free are granted, circles are broken, attempts follow each other; nothing is
assumed about who goes first. `ResendingSettles`
assumes weak fairness of each worker's own steps (the server runs what it
accepted; an interrupted worker is an `Abandon`, which is bounded by
`MaxFaults`) and strong fairness of sending each upload: `save` in
`logo-manager.tsx` keeps the submission until it is answered, so a user who got
no answer sends the same request again, whenever a worker is free again and
again. Nothing is assumed of requests to archive or restore. An upload is
settled when it was applied, when a later version overtook it, or when its bytes
are the current ones and there is nothing to apply.

### Findings

* `account_stale_commit`: `lockActingAdministrator` (`user-management.ts:126`)
  re-reads the actor's row but not the session the request came with, so a
  request admitted before a revocation commits after it; `DATA-MODEL.md:218`
  says raising the version invalidates every older session. `administrator` in
  `staff-mutations.ts` does compare it, and `StaffChangesAreCurrent` is proved.
* `contact_replay`: `mutateClient` (`client-mutations.ts:149`) asks whether the
  client of a new contact is archived before `client_contact_create` looks the
  submission up. A contact that was created, whose answer was lost and whose
  client was archived since is refused when its form is sent again;
  `DECISIONS.md:1503` says "Replayed creation submissions must return the same
  created identity without another record/event". No second record results:
  `OneEffectPerForm` holds.

The third exception of `AppliedRequestsWelcome` is of the same kind as
`contact_replay`: `mutateLogo` (`client-logo-management.ts:125`) refuses every
upload while the logo is archived, before `client_logo_mutate` looks the
submission up. An upload that was applied, whose answer was lost and whose logo
was archived since is refused when it is sent again, although
`2026-09-10-task-4-1a-client-logos.md:54` says "A matching retry verifies the
same bytes and uses an immutable submission receipt"; `PERMISSIONS.md:159` asks
for the restoration "before replacement", and the retry replaces nothing.
`logo_store` reaches it: without the last line of the property TLC finds the
refusal in fourteen states. Nothing is registered twice, as `ImplementsHistory`
shows.

## Proofs

`AccountsProofs` proves for every set of people, roles and workers and all
bounds: `TypeCorrect`, `SessionsAreSound`, `EligibilityStaysInSync`,
`RevocationIsFinal`, `AnAdministratorRemains`, `StaffChangesAreCurrent` and
`ServiceImplementsBoundary`.

The inductive invariant is `IInv == TypeOK /\ RowsSound /\ SessionsSound`.
`SessionsSound` (a cookie carrying the current version belongs to an enabled,
initialised account of an active person) is not inductive alone: reactivating a
person must not revive a cookie, and that holds because a disabled account never
has a cookie of its current version, which in turn needs that every way of
disabling raises the version (`RowsSound` ties enabled, can_login, active and
the existence of a password together). The proof has one lemma per way of
writing a row (`AccountRows`), one step per action, and the action properties
follow from the same invariant. The refinement maps the rows identically;
workers and cookies are invisible to the boundary, so admissions stutter.

`LogoStoreProofs` proves for any requests, contents and numbers of workers and
faults: `TypeCorrect`, `RegisteredVersionsAreOnDisk`, `AnswersOfOneRequestAgree`,
`AppliedRequestsAreWelcome` and `StoreImplementsHistory`. Its `Inv` says for each
phase of a worker how far its bytes are (`StorageOK`): what is ready to be
registered is flushed and durable under its name, or will not be registered
because nothing changes. That a published name is never written again is what
carries this over the steps of all the others, and over a power failure. For the
answers, `AnswerOK` says that an answer is the one of the receipt or was given
without one to a request that changed nothing, and `RefusalOK` that a request
that was refused for good had not been applied and cannot be any more
(`Hopeless`), apart from the exceptions named above (`Excused`). That an upload
is only ever excused after a later change needs the versions of the receipts:
none is ahead of the logo, and while the logo is archived the receipt of every
upload is behind it (`ReceiptsOK`). Both speak of requests that are still in some worker's hands, and
without them neither agreement nor welcome is inductive.

`CaseFileProofs` proves for any finite set of records and any forms, people and
texts: `CaseFileTypeCorrect`, `CaseFileLosesNoUpdate`, `CaseFileOrdersSteps`,
`CaseFileImplementsTree`, `CaseFileFreezesArchivedFamilies`, `CaseFileSavesOnce`,
`CaseFileHistoryIsWhole`, `CaseFileAcknowledgesResends` and
`CaseFileConfirmationsHold`.

The inductive invariant of the first is `Inv`: the types, `TreeOK` (everything
above a record is there and of the right kind) and, for every open page,
`PageOK`. The heart of `PageOK` is one implication: if the version the page
holds is still the stored one, the text it shows is the stored one. A save
changes one record and raises the version of its root, so a page either keeps
both or has lost the right to save (`PageKept`). `NoLostUpdate` alone is not
inductive because it speaks of the moment of the save only. The refinement maps
`row` to itself; `TreeStep` has one case per save, and everything else leaves
`row` alone. `FrozenStep` is about the abstract specification only and carries
over to the gateways through the refinement.

The receipts need `ReceiptsOK` as well: the kind of a form's request does not
change while the form is open, so that the gateway it is sent to is the one that
kept its receipt, and the versions of a root up to now are those of its
receipts. `IsFiniteSet(Record)` is used for the number of steps of a work and
for the counts of a confirmation.

`CaseFileConfirmationsHold` is about records that were created while somebody
reads the confirmation page of their matter, whose version they leave alone. The
invariant remembers the table the page was made from (`PastOK`): since then
records were neither deleted nor moved (`Keeps`), so what is below the record
has only grown, and a finite set that only grew and has as many members is the
same set (`CountsSuffice`). The version accounts for everything else that was
shown.

`AssignmentsProofs` proves for any finite staff and any records, forms and
imported rows: `ListsStaySound`, `RefusalsAreJustified`, `OnlyActiveStaffJoins`,
`NobodyIsRemovedUnseen` and `ReturnsComeLast`. They say of a save both what it
does to those who come or go and that it leaves the others alone: a fresh form
is refused for a newcomer who is not active and for nobody who was on the list
already; whom the form keeps, stays; and an attendee who stays has the same row
and place as before. Its `Inv` has `RowsOK` for each
list (rows are known by their id, numbered below the version of the list, and
repeat a person only among the imported attendees of a hearing) and `FormOK` for
each page (not stale, it shows the list as it is). All three saves keep the rows
they find and add rows for people without one; what follows from that alone is
`Rebuilt`, proved once. That no statement of a matter save runs into the index
on leads needs the order of the statements, which is why the table after each of
them, and not just the last, is in the property.

`PapersProofs` proves for any papers, people, clients, forms and finite desks:
`PaperListsStaySound`, `SubmissionsCountOnce`, `PapersChangeAsDisplayed`,
`PaperConfirmationsHold` and `PapersBelowArchivesRest`. Its `Inv` has `RowsOK`
for the rows of each kind of paper: one row per member, or, of a letter, one
current row per matter and one place per row; lists of a document each with
distinct places; at most one current letter of a reference. Former rows are
in it because they come back: that a lawyer returns to an old place is sound
only since no place is ever given twice. `ColumnsOK` ties the older columns of
documents to their lists, and `FormOK` lets a page that is not stale show the
paper as it is. There is one lemma for what each operation makes of the rows,
and one for each action that says that it is a save of a sound row of a paper
that does not rest (`Saved`), from which the action properties follow.

`ClientContactsProofs` proves for any clients, contacts, texts, people and
forms: `ClientsTypeCorrect`, `MainContactsAreSound`, `FormsTakeEffectOnce`,
`ClientsImplementFamily`, `ClientsLoseNoUpdate` and `ArchivedFamiliesRest`. Its
`IInv` adds to the properties that every contact has its client (`OwnersThere`),
that an open form shows a row of its table, equal to the stored one if their
versions are equal and older otherwise (`FormsSound`), and that every event of a
form left its trace: a receipt, or a version that its page no longer shows
(`EventsTold`). The last is why sending an edit again cannot take effect.
`ArchivedFamiliesRest` is proved of the abstract guards and carried over.

`StaffRosterProofs` proves for any people, spellings, teams, pages and any
normalisation: `RosterTypeCorrect`, `NamesAreSound`, `ReviewersStayEligible`,
`RosterLosesNoUpdate` and `SpellingsStay`. `NamesTied` says that name and primary
alias lead to each other; without it nothing follows about the statement that
demotes the old name. Everything that writes aliases is one of two operations,
a mere alias is put (`PutAlias`) or a name is (`PutName`), and a page stays sound
because a write of a person or alias advances that person's version (`Writes`).

`LockOrderProofs` proves for any finite set of transactions, any requests and
any number of attempts: `TypeCorrect`, `CaseSavesAreDeadlockFree` and
`RetriesHideContention`. `HeldInOrder` says that whoever has a lock has all that
come before it. `Rank` orders the tables: mutex, matter, reference, letter,
client, then the records, and steps last; of staff rows the requests for case
records take shared locks only. In a group that waits in a circle somebody waits
for the greatest lock of all, and its holder would have to wait for a greater
one. For the retries the induction keeps `attempts <= commits seen + 1` for
everybody who was no victim and whose page is not outdated.

Assumptions are those named in the modules (`LockoutFailures` at least one,
`NoHuman` not a person, the seeded roles are roles, ...); TLC evaluates them in
every run.

Only model-checked: the two liveness properties, `ResendingSettles` of the logos
and `EveryRequestIsAnswered` of the locks, since TLAPS does not reason about
fairness or ENABLED. Every invariant and every action property of the passing
runs is proved. No module uses RECURSIVE operators.

## Not modelled

* Report generation, report selections, dashboards and lists: queries and
  rendering over one snapshot. A selection is re-checked when the report is
  generated; what can be stale there is a hazard without a property.
* The audit trail's export capability and its snapshot; reading and appending
  are one statement each.
* Parties and capacities of matters: rows inside the save of a matter, part of
  its text in `CaseFile`.
* Restoration and compensation of Task 6.9 and the high-impact review: run once,
  alone, by the owner of the database, with receipts of their own.
* Data import and staging, migrations and operator scripts: batches that run
  before or without the system; the scripts and tests under `src/scripts`, the
  strings and the page components are by far the largest part of the
  repository's lines, and have no state to model.
* Of the modelled components: password hashing, validation and parsing of
  fields, image decoding, texts, formatting and the wording of refusals.

## Plan

What is left, in this order.

Modules to come:

1. `ReportSelections`: selections against the versions of the matters and
   hearings they name, and their check when a report is generated.
2. `AuditExport`: the snapshot of an export and the capability it is made with.
3. Parties and capacities in `Assignments`.
4. `Restoration`: the receipts of Task 6.9 and its compensation, with the state
   before it as the abstract specification.

Theorems to come: those of these modules. For what stands today the next ones
are about what no run states yet: that a save of `CaseFile` which replaces a list
is one of `Assignments`, and that a list of `Papers` is stored as it was sent.

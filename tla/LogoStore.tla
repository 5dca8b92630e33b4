------------------------------ MODULE LogoStore ------------------------------
(***************************************************************************)
(* The logo of one client: uploading, replacing, archiving and restoring   *)
(* it, with the bytes on a file system and the metadata in PostgreSQL.     *)
(*                                                                         *)
(* A request is read against the database, then an upload stores its bytes *)
(* under the path of its submission (private file, hard link, verify,      *)
(* flush, flush of the directory), and only then one transaction,          *)
(* client_logo_mutate, registers the version, moves the pointer and leaves *)
(* a receipt.  The same request may be sent any number of times, at the    *)
(* same time too; the power may fail between any two steps.                *)
(*                                                                         *)
(* The transaction is one step: SERIALIZABLE, with the client's row locked *)
(* first.  The client's directory itself exists durably (mkdir's own entry *)
(* is not flushed by the code), and the file system is the POSIX one.      *)
(***************************************************************************)
EXTENDS Integers

CONSTANTS
    Submission,       \* the identities that browsers draw for their requests
    Import,           \* the identity of the version the data import registered
    Content,          \* what the prepared bytes of a logo can be
    Extension,        \* the file extension of each content
    Garbage,          \* bytes that were linked but never flushed
    Actor,            \* the users who may upload
    Administrators,   \* those of them who may archive and restore as well
    Requests,         \* the requests that arrive, each any number of times
    Worker,           \* the requests the server can be processing at once
    None,
    MaxClientVersion, \* bound on the changes of the client itself
    MaxFaults         \* bound on interrupted requests and power losses

VersionId == Submission \cup {Import}
Path == VersionId \X {Extension[c] : c \in Content}
PathOf(v, c) == <<v, Extension[c]>>

Upload(r) == r.action \in {"create", "update"}

(* What the routes let through: uploads carry a file and no target, the    *)
(* other two a target and no file, and only an Administrator may send them. *)
WellFormed(r) ==
    IF Upload(r) THEN r.target = None /\ r.content # None
    ELSE r.target # None /\ r.content = None /\ r.actor \in Administrators

Request ==
    {r \in [actor         : Actor,
            action        : {"create", "update", "archive", "restore"},
            submission    : Submission,
            expected      : Nat,
            clientVersion : Nat,
            target        : VersionId \cup {None},
            content       : Content \cup {None}] : WellFormed(r)}

ASSUME ImportAssumption == Import \notin Submission
ASSUME ContentAssumption == DOMAIN Extension = Content /\ Garbage \notin Content
ASSUME NoneAssumption == None \notin VersionId \cup Content \cup {Garbage}
ASSUME AdministratorsAssumption == Administrators \subseteq Actor
ASSUME RequestsAssumption == \A r \in Requests : r \in Request
ASSUME BoundsAssumption == MaxClientVersion \in Nat \ {0} /\ MaxFaults \in Nat

VARIABLES
    client,      \* the client's row: its version and whether it is archived
    logo,        \* client_logos: version 0 and no current one before the first
    registered,  \* client_logo_versions: the content of each version
    receipts,    \* client_logo_submissions
    files,       \* the published names in the client's directory
    work,        \* what each worker is processing
    faults       \* how much has gone wrong so far

rows == <<logo, registered, receipts>>
vars == <<client, rows, files, work, faults>>

(* A published name: what the file holds, whether that was flushed to the  *)
(* device, and whether the directory entry was.                            *)
File == [content : Content \cup {Garbage}, flushed : BOOLEAN, durable : BOOLEAN]

Idle == [phase |-> "idle"]

Phases == {"reading", "lookup", "private", "published", "flushed", "ready"}

(* "archived" is the client's archive, "withdrawn" the logo's.             *)
Causes == {"session", "archived", "withdrawn", "unavailable", "conflict", "stale", "invalid"}

Work ==
    {Idle}
    \cup [phase : Phases, request : Requests, live : BOOLEAN]
    \cup [phase : {"answered"}, request : Requests, id : VersionId, version : Nat]
    \cup [phase : {"refused"}, request : Requests, cause : Causes]

Receipt == [request : Requests, id : VersionId, version : Nat]

ASSUME RowsAssumption == None \notin File \cup Receipt

TypeOK ==
    /\ client \in [version : 1..MaxClientVersion, archived : BOOLEAN]
    /\ logo \in [version : Nat, current : VersionId \cup {None}, archived : BOOLEAN]
    /\ registered \in [VersionId -> Content \cup {None}]
    /\ receipts \in [Submission -> Receipt \cup {None}]
    /\ files \in [Path -> File \cup {None}]
    /\ work \in [Worker -> Work]
    /\ faults \in 0..MaxFaults

(* Either nothing, or what the data import left: one registered version    *)
(* with its file.                                                          *)
Init ==
    /\ client = [version |-> 1, archived |-> FALSE]
    /\ receipts = [s \in Submission |-> None]
    /\ work = [w \in Worker |-> Idle]
    /\ faults = 0
    /\ \/ /\ logo = [version |-> 0, current |-> None, archived |-> FALSE]
          /\ registered = [v \in VersionId |-> None]
          /\ files = [p \in Path |-> None]
       \/ \E c \in Content :
             /\ logo = [version |-> 1, current |-> Import, archived |-> FALSE]
             /\ registered = [v \in VersionId |-> IF v = Import THEN c ELSE None]
             /\ files = [p \in Path |->
                           IF p = PathOf(Import, c)
                           THEN [content |-> c, flushed |-> TRUE, durable |-> TRUE]
                           ELSE None]

-----------------------------------------------------------------------------
SameAsCurrent(c) == logo.current # None /\ registered[logo.current] = c

(* readClientLogoFile: the bytes on disk are the registered ones.          *)
Readable(v) ==
    /\ registered[v] # None
    /\ files[PathOf(v, registered[v])] # None
    /\ files[PathOf(v, registered[v])].content = registered[v]

Holds(p, c) == files[p] # None /\ files[p].content = c

At(w, phase) == work[w].phase = phase
Busy(w) == work[w].phase \in Phases
RequestOf(w) == work[w].request
OwnPath(w) == PathOf(RequestOf(w).submission, RequestOf(w).content)

GoTo(w, phase) == work' = [work EXCEPT ![w].phase = phase]
Answer(w, id, version) ==
    work' = [work EXCEPT ![w] = [phase |-> "answered", request |-> RequestOf(w),
                                 id |-> id, version |-> version]]
Refuse(w, cause) ==
    work' = [work EXCEPT ![w] = [phase |-> "refused", request |-> RequestOf(w),
                                 cause |-> cause]]

(* handleLogoRequest.  A form shows the versions of a state that existed.  *)
Send(w, r) ==
    /\ work[w] = Idle
    /\ r.expected <= logo.version
    /\ r.clientVersion <= client.version
    /\ work' = [work EXCEPT ![w] = [phase |-> "reading", request |-> r, live |-> TRUE]]
    /\ UNCHANGED <<client, rows, files, faults>>

-----------------------------------------------------------------------------
(* readLogoManagement and the checks mutateLogo makes on its result, all   *)
(* of them before any receipt is looked up.                                *)
ReadWithdrawn(r) == Upload(r) /\ logo.archived

ReadUnavailable(r) ==
    IF Upload(r) THEN SameAsCurrent(r.content) /\ ~Readable(logo.current)
    ELSE IF r.action = "restore" THEN ~Readable(r.target)
    ELSE registered[r.target] = None

(* Bytes that are current already are not stored again.                    *)
NeedsStoring(r) ==
    Upload(r) /\ ~(logo.version = r.expected /\ SameAsCurrent(r.content))

Read(w) ==
    LET r == RequestOf(w)
    IN  /\ At(w, "reading")
        /\ \/ ~work[w].live /\ Refuse(w, "session")
           \/ work[w].live /\ client.archived /\ Refuse(w, "archived")
           \/ /\ work[w].live /\ ~client.archived
              /\ \/ ReadWithdrawn(r) /\ Refuse(w, "withdrawn")
                 \/ ~ReadWithdrawn(r) /\ ReadUnavailable(r) /\ Refuse(w, "unavailable")
                 \/ /\ ~ReadWithdrawn(r) /\ ~ReadUnavailable(r)
                    /\ GoTo(w, IF NeedsStoring(r) THEN "lookup" ELSE "ready")
        /\ UNCHANGED <<client, rows, files, faults>>

(* A mutant: the path exists, so somebody stored it already.               *)
AdoptAsStored(w) ==
    /\ At(w, "lookup")
    /\ GoTo(w, IF files[OwnPath(w)] = None THEN "private" ELSE "ready")
    /\ UNCHANGED <<client, rows, files, faults>>

(* lstat of the final path; if there is nothing, the bytes are written to  *)
(* a private name that no other request looks at, and flushed.             *)
Lookup(w) ==
    /\ At(w, "lookup")
    /\ GoTo(w, IF files[OwnPath(w)] = None THEN "private" ELSE "published")
    /\ UNCHANGED <<client, rows, files, faults>>

(* A mutant of the next definition: linked before it is flushed.           *)
LinkedUnflushed(c) == [content |-> c, flushed |-> FALSE, durable |-> FALSE]

(* The private file was flushed before the link.                           *)
Linked(c) == [content |-> c, flushed |-> TRUE, durable |-> FALSE]

(* link: whoever comes first; EEXIST adopts the winner's file.             *)
Publish(w) ==
    /\ At(w, "private")
    /\ files' = IF files[OwnPath(w)] # None THEN files
                ELSE [files EXCEPT ![OwnPath(w)] = Linked(RequestOf(w).content)]
    /\ GoTo(w, "published")
    /\ UNCHANGED <<client, rows, faults>>

(* Size and digest of whatever is published, and a flush of the same       *)
(* handle, even if another request wrote it.                               *)
Verify(w) ==
    /\ At(w, "published")
    /\ \/ /\ Holds(OwnPath(w), RequestOf(w).content)
          /\ files' = [files EXCEPT ![OwnPath(w)].flushed = TRUE]
          /\ GoTo(w, "flushed")
       \/ /\ ~Holds(OwnPath(w), RequestOf(w).content)
          /\ Refuse(w, "conflict")
          /\ UNCHANGED files
    /\ UNCHANGED <<client, rows, faults>>

(* fsync of the directory: every name in it is durable.                    *)
SyncDirectory(w) ==
    /\ At(w, "flushed")
    /\ files' = [p \in Path |-> IF files[p] = None THEN None
                                ELSE [files[p] EXCEPT !.durable = TRUE]]
    /\ GoTo(w, "ready")
    /\ UNCHANGED <<client, rows, faults>>

-----------------------------------------------------------------------------
(* client_logo_mutate.                                                     *)

(* A mutant: only the client's version is compared.                        *)
StaleClient(r) == client.version # r.clientVersion

Stale(r) == client.version # r.clientVersion \/ logo.version # r.expected

(* A mutant: the receipt only answers while the versions still match.      *)
ReceiptedIfCurrent(r) == receipts[r.submission] # None /\ ~Stale(r)

Receipted(r) == receipts[r.submission] # None

Inapplicable(r) ==
    IF Upload(r) THEN (r.action = "create") # (logo.current = None) \/ logo.archived
    ELSE \/ logo.current = None
         \/ registered[r.target] = None
         \/ r.action = "archive" /\ r.target # logo.current

(* A mutant: only archiving and restoring look for a change.               *)
AlreadyInState(r) ==
    /\ ~Upload(r)
    /\ r.target = logo.current
    /\ logo.archived <=> r.action = "archive"

(* The client shows exactly what is asked for: nothing is written.         *)
AlreadySo(r) ==
    IF Upload(r) THEN SameAsCurrent(r.content)
    ELSE r.target = logo.current /\ (logo.archived <=> r.action = "archive")

(* A mutant: the target of the request, which an upload does not have.     *)
RequestedTarget(r) == r.target

Retained(r) == IF Upload(r) THEN r.submission ELSE r.target

(* The checks in the order of the function; "none" lets the request pass.  *)
Refusal(w) ==
    LET r == RequestOf(w)
    IN  IF ~work[w].live THEN "session"
        ELSE IF client.archived THEN "archived"
        ELSE IF Receipted(r)
             THEN IF receipts[r.submission].request = r THEN "none" ELSE "conflict"
        ELSE IF Stale(r) THEN "stale"
        ELSE IF Inapplicable(r) THEN "invalid"
        ELSE "none"

CommitRefused(w) ==
    /\ At(w, "ready")
    /\ Refusal(w) # "none"
    /\ Refuse(w, Refusal(w))
    /\ UNCHANGED <<client, rows, files, faults>>

Accepted(w) == At(w, "ready") /\ Refusal(w) = "none"

Replay(w) ==
    LET receipt == receipts[RequestOf(w).submission]
    IN  /\ Accepted(w)
        /\ Receipted(RequestOf(w))
        /\ Answer(w, receipt.id, receipt.version)
        /\ UNCHANGED <<client, rows, files, faults>>

(* An unchanged request leaves no receipt.                                 *)
Unchanged(w) ==
    /\ Accepted(w)
    /\ ~Receipted(RequestOf(w))
    /\ AlreadySo(RequestOf(w))
    /\ Answer(w, logo.current, logo.version)
    /\ UNCHANGED <<client, rows, files, faults>>

Apply(w) ==
    LET r == RequestOf(w)
        v == logo.version + 1
    IN  /\ Accepted(w)
        /\ ~Receipted(r)
        /\ ~AlreadySo(r)
        /\ registered' = IF Upload(r)
                         THEN [registered EXCEPT ![r.submission] = r.content]
                         ELSE registered
        /\ logo' = [version |-> v, current |-> Retained(r), archived |-> r.action = "archive"]
        /\ receipts' = [receipts EXCEPT ![r.submission] =
                          [request |-> r, id |-> Retained(r), version |-> v]]
        /\ Answer(w, Retained(r), v)
        /\ UNCHANGED <<client, files, faults>>

(* The response reaches the browser, or is lost on the way.                *)
Finish(w) ==
    /\ work[w].phase \in {"answered", "refused"}
    /\ work' = [work EXCEPT ![w] = Idle]
    /\ UNCHANGED <<client, rows, files, faults>>

-----------------------------------------------------------------------------
(* Client maintenance: every edit, archive and restore of the client moves *)
(* its version; an archived client can only be restored.                   *)
ClientChanges(archived) ==
    /\ client.version < MaxClientVersion
    /\ client.archived => ~archived
    /\ client' = [version |-> client.version + 1, archived |-> archived]
    /\ UNCHANGED <<rows, files, work, faults>>

Fault == faults < MaxFaults /\ faults' = faults + 1

(* The session of a request is revoked while it is being processed.        *)
SessionEnds(w) ==
    /\ Fault
    /\ Busy(w)
    /\ work[w].live
    /\ work' = [work EXCEPT ![w].live = FALSE]
    /\ UNCHANGED <<client, rows, files>>

(* An I/O error, a timeout, contention past the retries, a dead process:   *)
(* the request ends without an answer; what it published stays.            *)
Abandon(w) ==
    /\ Fault
    /\ Busy(w)
    /\ work' = [work EXCEPT ![w] = Idle]
    /\ UNCHANGED <<client, rows, files>>

(* The published names whose entry, or whose bytes, were never flushed.    *)
Loose == {p \in Path : files[p] # None /\ ~files[p].durable}
Torn == {p \in Path : files[p] # None /\ ~files[p].flushed}

(* The database keeps what was committed; the file system keeps what was   *)
(* flushed, and of the rest whatever happens to be written.                *)
PowerLoss ==
    /\ Fault
    /\ \E lost \in SUBSET Loose, garbled \in SUBSET Torn :
          files' = [p \in Path |->
                      IF files[p] = None \/ p \in lost THEN None
                      ELSE [content |-> IF p \in garbled THEN Garbage
                                        ELSE files[p].content,
                            flushed |-> TRUE, durable |-> TRUE]]
    /\ work' = [w \in Worker |-> Idle]
    /\ UNCHANGED <<client, rows>>

Proceed(w) ==
    \/ Read(w) \/ Lookup(w) \/ Publish(w) \/ Verify(w) \/ SyncDirectory(w)
    \/ CommitRefused(w) \/ Replay(w) \/ Unchanged(w) \/ Apply(w)
    \/ Finish(w)

Next ==
    \/ \E w \in Worker, r \in Requests : Send(w, r)
    \/ \E w \in Worker : Proceed(w) \/ SessionEnds(w) \/ Abandon(w)
    \/ \E archived \in BOOLEAN : ClientChanges(archived)
    \/ PowerLoss

Spec == Init /\ [][Next]_vars

(* The server runs whatever it accepted, and a user who got no answer to   *)
(* an upload sends it again: the form keeps its submission.                *)
Fairness ==
    /\ \A w \in Worker : WF_vars(Proceed(w))
    /\ \A r \in Requests : Upload(r) => SF_vars(\E w \in Worker : Send(w, r))

FairSpec == Spec /\ Fairness

-----------------------------------------------------------------------------
(* Whatever version the database knows has its bytes on the device, under  *)
(* its own name, flushed together with that name: no power loss, and no    *)
(* request that found somebody else's half-finished file, can separate     *)
(* them.  This includes the bytes that were not stored again because they  *)
(* were current when the request was read.                                 *)
RegisteredFilesDurable ==
    \A v \in VersionId :
        registered[v] # None =>
            files[PathOf(v, registered[v])] =
                [content |-> registered[v], flushed |-> TRUE, durable |-> TRUE]

(* The same request is given the same answer however often it is sent and  *)
(* whatever happened in between, with or without a receipt.                *)
AnswersAgree ==
    \A w, x \in Worker :
        (At(w, "answered") /\ At(x, "answered") /\ RequestOf(w) = RequestOf(x))
        => work[w] = work[x]

(* This very request was applied.                                          *)
Recorded(r) == receipts[r.submission] # None /\ receipts[r.submission].request = r

(* An upload was applied, and the logo has changed since.                  *)
OvertakenUpload(r) == Upload(r) /\ receipts[r.submission].version < logo.version

(* A request that was applied, its response lost, is not turned away when  *)
(* it is sent again: not as stale, though the versions have moved, nor for *)
(* its own file, nor as inapplicable to what it brought about.  There are  *)
(* three exceptions, each checked before the receipt is looked up: the     *)
(* session is over, the client is archived, or the request is an upload    *)
(* and the logo was archived after it (mutateLogo asks for the restoration *)
(* of an archived logo before it would learn that nothing is left to do);  *)
(* archiving and restoring are never turned away for the state of the logo. *)
AppliedRequestsWelcome ==
    \A w \in Worker :
        (At(w, "refused") /\ Recorded(RequestOf(w)))
        => \/ work[w].cause \in {"session", "archived"}
           \/ work[w].cause = "withdrawn" /\ OvertakenUpload(RequestOf(w))

(* No accident during storage poisons a submission: there are finitely     *)
(* many of them, and an upload that is sent again and again ends applied,  *)
(* overtaken by a later version, or with its bytes the current ones.       *)
Overtaken(r) == client.version > r.clientVersion \/ logo.version > r.expected
Settled(r) == receipts[r.submission] # None \/ Overtaken(r) \/ SameAsCurrent(r.content)
ResendingSettles == \A r \in Requests : Upload(r) => <>Settled(r)

(* The pages' promise, with the bytes read from the disk.                  *)
BytesOnDisk ==
    [v \in VersionId |->
        IF registered[v] = None \/ files[PathOf(v, registered[v])] = None THEN None
        ELSE files[PathOf(v, registered[v])].content]
History == INSTANCE LogoHistory
             WITH current <- logo.current, archived <- logo.archived,
                  version <- logo.version, bytes <- BytesOnDisk
ImplementsHistory == History!Spec
=============================================================================

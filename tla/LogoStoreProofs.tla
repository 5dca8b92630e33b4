--------------------------- MODULE LogoStoreProofs ---------------------------
(***************************************************************************)
(* Theorems about LogoStore, for any requests, workers, contents and       *)
(* numbers of faults.  The invariant relates what each worker is about to  *)
(* do, or was told, to the three tables and to the directory:              *)
(*   - StorageOK: how far the bytes of an upload are;                      *)
(*   - AnswerOK: an answer is the receipt's, or it was given without one,  *)
(*     and then the request can no longer be applied as another change;    *)
(*   - RefusalOK: a refused request was never applied, and never can be.   *)
(***************************************************************************)
EXTENDS LogoStore, TLAPS

USE ImportAssumption, NoneAssumption, ContentAssumption

Stored(c) == [content |-> c, flushed |-> TRUE, durable |-> TRUE]

(* A version is registered together with the receipt of its request.       *)
ReceiptsOK ==
    \A s \in Submission :
        /\ registered[s] # None => receipts[s] # None
        /\ receipts[s] # None =>
              /\ receipts[s].request.submission = s
              /\ registered[Retained(receipts[s].request)] # None
              /\ Upload(receipts[s].request) => registered[s] = receipts[s].request.content
              /\ receipts[s].version <= logo.version
              /\ Upload(receipts[s].request) /\ logo.archived =>
                    receipts[s].version < logo.version

(* The bytes are in place, or they need not be while nothing changes.      *)
BytesReady(r) ==
    \/ files[PathOf(r.submission, r.content)] = Stored(r.content)
    \/ logo.version = r.expected => SameAsCurrent(r.content)

StorageOK(w) ==
    /\ work[w].phase \in {"lookup", "private", "published", "flushed"} => Upload(RequestOf(w))
    /\ At(w, "published") => files[OwnPath(w)] # None
    /\ At(w, "flushed") =>
         Holds(OwnPath(w), RequestOf(w).content) /\ files[OwnPath(w)].flushed
    /\ At(w, "ready") /\ Upload(RequestOf(w)) => BytesReady(RequestOf(w))

ToldReceipt(w) ==
    /\ Recorded(RequestOf(w))
    /\ work[w].id = receipts[RequestOf(w).submission].id
    /\ work[w].version = receipts[RequestOf(w).submission].version

ToldUnchanged(w) ==
    /\ ~Recorded(RequestOf(w))
    /\ work[w].version = RequestOf(w).expected
    /\ \/ logo.version > RequestOf(w).expected
       \/ work[w].id = logo.current /\ AlreadySo(RequestOf(w))

AnswerOK(w) == At(w, "answered") => ToldReceipt(w) \/ ToldUnchanged(w)

(* The path of the upload holds other bytes.                               *)
Occupied(r) ==
    /\ Upload(r)
    /\ files[PathOf(r.submission, r.content)] # None
    /\ files[PathOf(r.submission, r.content)].content # r.content

(* No later attempt of this request can be applied.                        *)
Hopeless(r) ==
    \/ logo.version > r.expected
    \/ client.version > r.clientVersion
    \/ Inapplicable(r)
    \/ Occupied(r)

(* Why a request may have been turned away.                                *)
Excused(r, cause) ==
    \/ cause \in {"session", "archived"}
    \/ cause = "withdrawn" /\ Recorded(r) /\ OvertakenUpload(r)
    \/ ~Recorded(r) /\ (Receipted(r) \/ Hopeless(r))

RefusalOK(w) ==
    At(w, "refused") => Excused(RequestOf(w), work[w].cause)

FormOK(w) ==
    ~At(w, "idle") => /\ RequestOf(w).expected <= logo.version
                      /\ RequestOf(w).clientVersion <= client.version

WorkOK(w) == FormOK(w) /\ StorageOK(w) /\ AnswerOK(w) /\ RefusalOK(w)

Inv ==
    /\ TypeOK
    /\ RegisteredFilesDurable
    /\ ReceiptsOK
    /\ \A w \in Worker : WorkOK(w)
    /\ AnswersAgree

-----------------------------------------------------------------------------
(* What is in a request.                                                   *)
LEMMA RequestLemma ==
    ASSUME NEW r \in Requests
    PROVE  /\ r.submission \in Submission
           /\ r.expected \in Nat
           /\ r.clientVersion \in Nat
           /\ Upload(r) => r.content \in Content
           /\ ~Upload(r) => r.target \in VersionId /\ r.action \in {"archive", "restore"}
           /\ Retained(r) \in VersionId
           /\ Upload(r) => PathOf(r.submission, r.content) \in Path
<1>1. r \in Request
  BY RequestsAssumption
<1>2. /\ r.submission \in Submission
      /\ r.expected \in Nat
      /\ r.clientVersion \in Nat
      /\ r.content \in Content \cup {None}
      /\ r.target \in VersionId \cup {None}
      /\ r.action \in {"create", "update", "archive", "restore"}
      /\ WellFormed(r)
  BY <1>1 DEF Request
<1>3. Upload(r) => r.content \in Content
  BY <1>2 DEF WellFormed
<1>4. ~Upload(r) => r.target \in VersionId /\ r.action \in {"archive", "restore"}
  BY <1>2 DEF WellFormed, Upload
<1>5. Retained(r) \in VersionId
  BY <1>2, <1>4 DEF Retained, VersionId
<1>6. ASSUME Upload(r) PROVE PathOf(r.submission, r.content) \in Path
  BY <1>2, <1>3, <1>6 DEF Path, PathOf, VersionId
<1>7. QED
  BY <1>2, <1>3, <1>4, <1>5, <1>6

(* What a worker holds in each phase.                                      *)
LEMMA WorkLemma ==
    ASSUME TypeOK, NEW w \in Worker
    PROVE  /\ Busy(w) => work[w] \in [phase : Phases, request : Requests, live : BOOLEAN]
           /\ At(w, "answered") =>
                work[w] \in [phase : {"answered"}, request : Requests,
                             id : VersionId, version : Nat]
           /\ At(w, "refused") =>
                work[w] \in [phase : {"refused"}, request : Requests, cause : Causes]
           /\ At(w, "idle") => work[w] = Idle
           /\ ~At(w, "idle") => RequestOf(w) \in Requests
           /\ work[w].phase \in Phases \cup {"idle", "answered", "refused"}
<1>1. work[w] \in Work
  BY DEF TypeOK
<1>2. CASE work[w] = Idle
  BY <1>2 DEF Idle, Busy, At, Phases
<1>3. CASE work[w] \in [phase : Phases, request : Requests, live : BOOLEAN]
  BY <1>3 DEF Busy, At, Phases, RequestOf
<1>4. CASE work[w] \in [phase : {"answered"}, request : Requests, id : VersionId, version : Nat]
  BY <1>4 DEF Busy, At, Phases, RequestOf
<1>5. CASE work[w] \in [phase : {"refused"}, request : Requests, cause : Causes]
  BY <1>5 DEF Busy, At, Phases, RequestOf
<1>6. QED
  BY <1>1, <1>2, <1>3, <1>4, <1>5 DEF Work

(* The shape of the rows.                                                  *)
LEMMA RowLemma ==
    ASSUME TypeOK
    PROVE  /\ logo.version \in Nat /\ logo.current \in VersionId \cup {None}
           /\ logo.archived \in BOOLEAN
           /\ client.version \in Nat /\ client.archived \in BOOLEAN
           /\ \A v \in VersionId : registered[v] \in Content \cup {None}
           /\ \A v \in VersionId :
                 registered[v] # None => PathOf(v, registered[v]) \in Path
           /\ \A s \in Submission :
                 receipts[s] # None => /\ receipts[s] \in Receipt
                                       /\ receipts[s].request \in Requests
                                       /\ receipts[s].id \in VersionId
                                       /\ receipts[s].version \in Nat
           /\ Submission \subseteq VersionId
<1>1. /\ logo.version \in Nat /\ logo.current \in VersionId \cup {None}
      /\ logo.archived \in BOOLEAN
  BY DEF TypeOK
<1>2. client.version \in Nat /\ client.archived \in BOOLEAN
  BY BoundsAssumption DEF TypeOK
<1>3. \A v \in VersionId : registered[v] \in Content \cup {None}
  BY DEF TypeOK
<1>4. \A v \in VersionId : registered[v] # None => PathOf(v, registered[v]) \in Path
  BY <1>3 DEF Path, PathOf
<1>5. \A s \in Submission : receipts[s] # None => receipts[s] \in Receipt
  BY DEF TypeOK
<1>6. \A e \in Receipt : e.request \in Requests /\ e.id \in VersionId /\ e.version \in Nat
  BY DEF Receipt
<1>7. QED
  BY <1>1, <1>2, <1>3, <1>4, <1>5, <1>6 DEF VersionId

-----------------------------------------------------------------------------
(* A step that changes no row of the logo, and takes nothing off the disk. *)
FilesKept ==
    \A p \in Path :
        files[p] # None =>
            /\ files'[p] # None
            /\ files'[p].content = files[p].content
            /\ files[p].flushed => files'[p].flushed
            /\ files[p].durable => files'[p].durable

Quiet ==
    /\ UNCHANGED rows
    /\ client' \in [version : 1..MaxClientVersion, archived : BOOLEAN]
    /\ client.version <= client'.version
    /\ files' \in [Path -> File \cup {None}]
    /\ FilesKept
    /\ faults' \in 0..MaxFaults

(* A flushed and named file with the right bytes stays just that.          *)
LEMMA StoredKept ==
    ASSUME Quiet, NEW p \in Path, NEW c \in Content, files[p] = Stored(c)
    PROVE  files'[p] = Stored(c)
<1>1. files[p] # None
  <2>1. Stored(c) \in File
    BY DEF Stored, File
  <2>2. None \notin File
    BY RowsAssumption
  <2>3. QED
    BY <2>1, <2>2
<1>2. /\ files'[p] # None /\ files'[p].content = c
      /\ files'[p].flushed /\ files'[p].durable
  BY <1>1 DEF Quiet, FilesKept, Stored
<1>3. files'[p] \in File
  BY <1>2 DEF Quiet
<1>4. QED
  BY <1>2, <1>3 DEF File, Stored

LEMMA RowsKept ==
    ASSUME Inv, Quiet, work' \in [Worker -> Work]
    PROVE  TypeOK' /\ RegisteredFilesDurable' /\ ReceiptsOK'
<1>1. logo' = logo /\ registered' = registered /\ receipts' = receipts
  BY DEF Quiet, rows
<1>2. TypeOK'
  BY <1>1 DEF Inv, TypeOK, Quiet
<1>3. RegisteredFilesDurable'
  <2> SUFFICES ASSUME NEW v \in VersionId, registered[v] # None
               PROVE  files'[PathOf(v, registered[v])] = Stored(registered[v])
    BY <1>1 DEF RegisteredFilesDurable, Stored, PathOf
  <2>1. files[PathOf(v, registered[v])] = Stored(registered[v])
    BY DEF Inv, RegisteredFilesDurable, Stored
  <2>2. registered[v] \in Content /\ PathOf(v, registered[v]) \in Path
    BY RowLemma DEF Inv
  <2>3. QED
    BY <2>1, <2>2, StoredKept
<1>4. ReceiptsOK'
  BY <1>1 DEF Inv, ReceiptsOK, Retained, Upload
<1>5. QED
  BY <1>2, <1>3, <1>4

(* Whoever does not move is not disturbed; nor is a request whose session  *)
(* ends.                                                                   *)
LEMMA WorkerKept ==
    ASSUME Inv, Quiet, NEW x \in Worker,
           \/ work'[x] = work[x]
           \/ /\ Busy(x)
              /\ work'[x].phase = work[x].phase
              /\ work'[x].request = work[x].request
    PROVE  WorkOK(x)'
<1>1. logo' = logo /\ registered' = registered /\ receipts' = receipts
  BY DEF Quiet, rows
<1>2. work'[x].phase = work[x].phase
  OBVIOUS
<1>3. CASE At(x, "idle")
  BY <1>2, <1>3 DEF WorkOK, FormOK, StorageOK, AnswerOK, RefusalOK, At
<1>4. CASE ~At(x, "idle")
  <2>. PICK r \in Requests : r = RequestOf(x)
    BY <1>4, WorkLemma DEF Inv
  <2>1. WorkOK(x) /\ work[x].request = r /\ work'[x].request = r
    BY <1>4 DEF Inv, RequestOf, Busy, At
  <2>2. r.expected \in Nat /\ r.clientVersion \in Nat
        /\ (Upload(r) => PathOf(r.submission, r.content) \in Path /\ r.content \in Content)
    BY <2>1, RequestLemma
  <2>3. client.version \in Nat /\ client'.version \in Nat /\ logo.version \in Nat
    BY RowLemma, BoundsAssumption DEF Inv, Quiet
  <2>4. FormOK(x)'
    BY <1>1, <1>4, <2>1, <2>2, <2>3 DEF WorkOK, FormOK, At, RequestOf, Quiet
  <2>5. StorageOK(x)'
    <3>1. /\ work[x].phase \in {"lookup", "private", "published", "flushed"} => Upload(r)
          /\ At(x, "published") => files[PathOf(r.submission, r.content)] # None
          /\ At(x, "flushed") =>
               Holds(PathOf(r.submission, r.content), r.content)
               /\ files[PathOf(r.submission, r.content)].flushed
          /\ At(x, "ready") /\ Upload(r) => BytesReady(r)
      BY <2>1 DEF WorkOK, StorageOK, OwnPath
    <3>2. At(x, "published") => files'[PathOf(r.submission, r.content)] # None
      BY <2>2, <3>1 DEF Quiet, FilesKept, At
    <3>3. At(x, "flushed") =>
             /\ files'[PathOf(r.submission, r.content)] # None
             /\ files'[PathOf(r.submission, r.content)].content = r.content
             /\ files'[PathOf(r.submission, r.content)].flushed
      BY <2>2, <3>1 DEF Quiet, FilesKept, At, Holds
    <3>4. ASSUME At(x, "ready"), Upload(r)
          PROVE  \/ files'[PathOf(r.submission, r.content)] = Stored(r.content)
                 \/ logo.version = r.expected => SameAsCurrent(r.content)
      BY <2>2, <3>1, <3>4, StoredKept DEF BytesReady
    <3>5. QED
      BY <1>1, <1>2, <2>1, <3>1, <3>2, <3>3, <3>4
      DEF StorageOK, At, RequestOf, OwnPath, Holds, BytesReady, PathOf, Upload, Stored, SameAsCurrent
  <2>6. AnswerOK(x)'
    <3>1. At(x, "answered") => work'[x] = work[x]
      BY DEF At, Busy, Phases
    <3>2. QED
      BY <1>1, <1>2, <2>1, <3>1
      DEF WorkOK, AnswerOK, ToldReceipt, ToldUnchanged, At, RequestOf, Recorded, Receipted,
          AlreadySo, SameAsCurrent, Upload
  <2>7. RefusalOK(x)'
    <3>1. At(x, "refused") => work'[x] = work[x]
      BY DEF At, Busy, Phases
    <3>2. Occupied(r) => /\ Upload(r)
                         /\ files'[PathOf(r.submission, r.content)] # None
                         /\ files'[PathOf(r.submission, r.content)].content # r.content
      BY <2>2 DEF Occupied, Quiet, FilesKept
    <3>3. client.version > r.clientVersion => client'.version > r.clientVersion
      BY <2>2, <2>3 DEF Quiet
    <3>4. Hopeless(r) => Hopeless(r)'
      BY <1>1, <3>2, <3>3 DEF Hopeless, Occupied, Inapplicable, Upload, PathOf
    <3>5. /\ Recorded(r)' = Recorded(r) /\ Receipted(r)' = Receipted(r)
          /\ OvertakenUpload(r)' = OvertakenUpload(r)
      BY <1>1 DEF Recorded, Receipted, OvertakenUpload, Upload
    <3>6. QED
      BY <1>2, <2>1, <3>1, <3>4, <3>5 DEF WorkOK, RefusalOK, Excused, At, RequestOf
  <2>8. QED
    BY <2>4, <2>5, <2>6, <2>7 DEF WorkOK
<1>5. QED
  BY <1>3, <1>4

(* A step of one worker that answers nothing.                              *)
LEMMA QuietStep ==
    ASSUME Inv, Quiet, NEW w \in Worker, NEW job \in Work,
           work' = [work EXCEPT ![w] = job],
           job.phase # "answered",
           WorkOK(w)'
    PROVE  Inv'
<1>1. work \in [Worker -> Work]
  BY DEF Inv, TypeOK
<1>2. /\ work' \in [Worker -> Work]
      /\ work'[w] = job
      /\ \A x \in Worker \ {w} : work'[x] = work[x]
  BY <1>1
<1>3. \A x \in Worker : WorkOK(x)'
  BY <1>2, WorkerKept
<1>4. AnswersAgree'
  BY <1>2 DEF Inv, AnswersAgree, At, RequestOf
<1>5. QED
  BY <1>2, <1>3, <1>4, RowsKept DEF Inv

LEMMA NothingMoves ==
    ASSUME TypeOK, UNCHANGED <<client, rows, files, faults>>
    PROVE  Quiet
<1>1. client.version \in Int
  BY RowLemma
<1>2. QED
  BY <1>1 DEF TypeOK, Quiet, FilesKept

(* A request proceeds to a phase whose conditions hold.                    *)
LEMMA GoToStep ==
    ASSUME Inv, Quiet, NEW w \in Worker, Busy(w), NEW phase \in Phases, GoTo(w, phase),
           StorageOK(w)'
    PROVE  Inv'
<1>. DEFINE job == [work[w] EXCEPT !.phase = phase]
<1>1. work[w] \in [phase : Phases, request : Requests, live : BOOLEAN]
  BY WorkLemma DEF Inv
<1>2. /\ job \in [phase : Phases, request : Requests, live : BOOLEAN]
      /\ job.phase = phase /\ job.request = RequestOf(w)
  BY <1>1 DEF RequestOf
<1>3. job \in Work /\ work' = [work EXCEPT ![w] = job]
  BY <1>2 DEF Work, GoTo
<1>4. work'[w] = job
  BY <1>3 DEF Inv, TypeOK
<1>5. phase \notin {"answered", "refused", "idle"}
  BY DEF Phases
<1>. PICK r \in Requests : r = RequestOf(w)
  BY <1>1 DEF RequestOf
<1>6. r.expected <= logo.version /\ r.clientVersion <= client.version
  BY DEF Inv, WorkOK, FormOK, At, Busy, Phases
<1>7. logo' = logo /\ client.version <= client'.version
  BY DEF Quiet, rows
<1>8. r.clientVersion \in Nat /\ client.version \in Nat /\ client'.version \in Nat
  BY RequestLemma, RowLemma, BoundsAssumption DEF Inv, Quiet
<1>9. FormOK(w)'
  BY <1>2, <1>4, <1>6, <1>7, <1>8 DEF FormOK, RequestOf
<1>10. WorkOK(w)'
  BY <1>2, <1>4, <1>5, <1>9 DEF WorkOK, AnswerOK, RefusalOK, At
<1>11. QED
  BY <1>2, <1>3, <1>5, <1>10, QuietStep

(* A request is turned away for a cause that accounts for it.              *)
LEMMA RefuseStep ==
    ASSUME Inv, NEW w \in Worker, Busy(w), NEW cause \in Causes, Refuse(w, cause),
           UNCHANGED <<client, rows, files, faults>>,
           Excused(RequestOf(w), cause)
    PROVE  Inv'
<1>1. work[w] \in [phase : Phases, request : Requests, live : BOOLEAN]
  BY WorkLemma DEF Inv
<1>. PICK r \in Requests : r = RequestOf(w)
  BY <1>1 DEF RequestOf
<1>. DEFINE job == [phase |-> "refused", request |-> r, cause |-> cause]
<1>2. job \in Work /\ work' = [work EXCEPT ![w] = job]
  BY DEF Work, Refuse
<1>3. work'[w] = job
  BY <1>2 DEF Inv, TypeOK
<1>4. /\ client' = client /\ logo' = logo /\ registered' = registered
      /\ receipts' = receipts /\ files' = files
  BY DEF rows
<1>5. r.expected <= logo.version /\ r.clientVersion <= client.version
  BY DEF Inv, WorkOK, FormOK, At, Busy, Phases
<1>6. FormOK(w)'
  BY <1>3, <1>4, <1>5 DEF FormOK, RequestOf
<1>7. StorageOK(w)' /\ AnswerOK(w)'
  BY <1>3 DEF StorageOK, AnswerOK, At
<1>8. /\ Recorded(r)' = Recorded(r) /\ Receipted(r)' = Receipted(r)
      /\ OvertakenUpload(r)' = OvertakenUpload(r)
  BY <1>4 DEF Recorded, Receipted, OvertakenUpload, Upload
<1>9. Hopeless(r)' = Hopeless(r)
  BY <1>4 DEF Hopeless, Inapplicable, Occupied, Upload, PathOf
<1>10. RefusalOK(w)'
  BY <1>3, <1>8, <1>9 DEF RefusalOK, Excused, RequestOf
<1>11. Quiet
  BY NothingMoves DEF Inv
<1>12. QED
  BY <1>2, <1>6, <1>7, <1>10, <1>11, QuietStep DEF WorkOK

(* A worker is free again.                                                 *)
LEMMA IdleStep ==
    ASSUME Inv, Quiet, NEW w \in Worker, work' = [work EXCEPT ![w] = Idle]
    PROVE  Inv'
<1>1. work'[w] = Idle
  BY DEF Inv, TypeOK
<1>2. WorkOK(w)'
  BY <1>1 DEF WorkOK, FormOK, StorageOK, AnswerOK, RefusalOK, At, Idle
<1>3. Idle \in Work /\ Idle.phase # "answered"
  BY DEF Work, Idle
<1>4. QED
  BY <1>2, <1>3, QuietStep

-----------------------------------------------------------------------------
(* Registered versions are always readable.                                *)
LEMMA ReadableLemma ==
    ASSUME Inv, NEW v \in VersionId, registered[v] # None
    PROVE  Readable(v)
<1>1. files[PathOf(v, registered[v])] = Stored(registered[v])
  BY DEF Inv, RegisteredFilesDurable, Stored
<1>2. registered[v] \in Content
  BY RowLemma DEF Inv
<1>3. Stored(registered[v]) \in File
  BY <1>2 DEF Stored, File
<1>4. Stored(registered[v]) # None
  BY <1>3, RowsAssumption
<1>5. QED
  BY <1>1, <1>4 DEF Readable, Stored

(* What a recorded request registered.                                     *)
LEMMA RecordedLemma ==
    ASSUME Inv, NEW r \in Requests, Recorded(r)
    PROVE  /\ registered[Retained(r)] # None
           /\ Upload(r) => /\ registered[r.submission] = r.content
                           /\ files[PathOf(r.submission, r.content)] = Stored(r.content)
<1>1. r.submission \in Submission /\ (Upload(r) => r.content \in Content)
  BY RequestLemma
<1>2. registered[Retained(r)] # None
  BY <1>1 DEF Inv, ReceiptsOK, Recorded, Receipted
<1>3. Upload(r) => registered[r.submission] = r.content
  BY <1>1 DEF Inv, ReceiptsOK, Recorded, Receipted
<1>4. r.submission \in VersionId
  BY <1>1 DEF VersionId
<1>5. Upload(r) => files[PathOf(r.submission, r.content)] = Stored(r.content)
  BY <1>1, <1>3, <1>4 DEF Inv, RegisteredFilesDurable, Stored
<1>6. QED
  BY <1>2, <1>3, <1>5

LEMMA SendStep ==
    ASSUME Inv, NEW w \in Worker, NEW r \in Requests, Send(w, r)
    PROVE  Inv'
<1>. DEFINE job == [phase |-> "reading", request |-> r, live |-> TRUE]
<1>1. job \in Work /\ work' = [work EXCEPT ![w] = job]
  BY DEF Send, Work, Phases
<1>2. work'[w] = job
  BY <1>1 DEF Inv, TypeOK
<1>3. Quiet
  BY NothingMoves DEF Inv, Send
<1>4. FormOK(w)'
  BY <1>2 DEF FormOK, RequestOf, Send, rows
<1>5. WorkOK(w)'
  BY <1>2, <1>4 DEF WorkOK, StorageOK, AnswerOK, RefusalOK, At
<1>6. QED
  BY <1>1, <1>3, <1>5, QuietStep

LEMMA ReadStep ==
    ASSUME Inv, NEW w \in Worker, Read(w)
    PROVE  Inv'
<1>1. Busy(w) /\ At(w, "reading")
  BY DEF Read, At, Busy, Phases
<1>2. UNCHANGED <<client, rows, files, faults>>
  BY DEF Read
<1>3. Quiet
  BY <1>2, NothingMoves DEF Inv
<1>4. work[w] \in [phase : Phases, request : Requests, live : BOOLEAN]
  BY <1>1, WorkLemma DEF Inv
<1>. PICK r \in Requests : r = RequestOf(w)
  BY <1>4 DEF RequestOf
<1>5. CASE Refuse(w, "session") \/ Refuse(w, "archived")
  BY <1>1, <1>2, <1>5, RefuseStep DEF Causes, Excused
<1>6. CASE ReadWithdrawn(r) /\ Refuse(w, "withdrawn")
  <2>1. Upload(r) /\ logo.archived
    BY <1>6 DEF ReadWithdrawn
  <2>2. ~Recorded(r) => Hopeless(r)
    BY <2>1 DEF Hopeless, Inapplicable
  <2>3. Recorded(r) => OvertakenUpload(r)
    BY <2>1, RequestLemma DEF Inv, ReceiptsOK, Recorded, Receipted, OvertakenUpload
  <2>4. Excused(r, "withdrawn")
    BY <2>2, <2>3 DEF Excused
  <2>5. QED
    BY <1>1, <1>2, <1>6, <2>4, RefuseStep DEF Causes
<1>7. CASE ReadUnavailable(r) /\ Refuse(w, "unavailable")
  <2>1. ASSUME Upload(r), SameAsCurrent(r.content) PROVE Readable(logo.current)
    <3>1. r.content # None
      BY <2>1, RequestLemma
    <3>2. logo.current \in VersionId /\ registered[logo.current] # None
      BY <2>1, <3>1, RowLemma DEF Inv, SameAsCurrent
    <3>3. QED
      BY <3>2, ReadableLemma
  <2>2. ~Upload(r) /\ registered[r.target] = None
    BY <1>7, <2>1, ReadableLemma, RequestLemma DEF ReadUnavailable
  <2>3. Inapplicable(r)
    BY <2>2 DEF Inapplicable
  <2>4. ~Recorded(r)
    BY <2>2, RecordedLemma DEF Retained
  <2>5. QED
    BY <1>1, <1>2, <1>7, <2>3, <2>4, RefuseStep DEF Causes, Hopeless, Excused
<1>8. CASE GoTo(w, IF NeedsStoring(r) THEN "lookup" ELSE "ready")
  <2>. DEFINE phase == IF NeedsStoring(r) THEN "lookup" ELSE "ready"
  <2>1. phase \in Phases
    BY DEF Phases
  <2>2. work'[w].phase = phase /\ work'[w].request = r
    BY <1>4, <1>8 DEF GoTo, Inv, TypeOK, RequestOf
  <2>3. StorageOK(w)'
    BY <1>2, <2>2
    DEF StorageOK, At, RequestOf, NeedsStoring, BytesReady, SameAsCurrent, rows
  <2>4. QED
    BY <1>1, <1>3, <1>8, <2>1, <2>3, GoToStep
<1>9. QED
  BY <1>5, <1>6, <1>7, <1>8 DEF Read

LEMMA LookupStep ==
    ASSUME Inv, NEW w \in Worker, Lookup(w)
    PROVE  Inv'
<1>1. Busy(w) /\ At(w, "lookup")
  BY DEF Lookup, At, Busy, Phases
<1>2. UNCHANGED <<client, rows, files, faults>>
  BY DEF Lookup
<1>3. Quiet
  BY <1>2, NothingMoves DEF Inv
<1>4. work[w] \in [phase : Phases, request : Requests, live : BOOLEAN]
  BY <1>1, WorkLemma DEF Inv
<1>. PICK r \in Requests : r = RequestOf(w)
  BY <1>4 DEF RequestOf
<1>. DEFINE phase == IF files[OwnPath(w)] = None THEN "private" ELSE "published"
<1>5. phase \in Phases
  BY DEF Phases
<1>6. work'[w].phase = phase /\ work'[w].request = r
  BY <1>4 DEF Lookup, GoTo, Inv, TypeOK, RequestOf
<1>7. Upload(r)
  BY <1>1 DEF Inv, WorkOK, StorageOK, At
<1>8. StorageOK(w)'
  BY <1>2, <1>6, <1>7 DEF StorageOK, At, RequestOf, OwnPath, Upload, PathOf
<1>9. QED
  BY <1>1, <1>3, <1>5, <1>8, GoToStep DEF Lookup

LEMMA PublishStep ==
    ASSUME Inv, NEW w \in Worker, Publish(w)
    PROVE  Inv'
<1>1. Busy(w) /\ At(w, "private")
  BY DEF Publish, At, Busy, Phases
<1>2. work[w] \in [phase : Phases, request : Requests, live : BOOLEAN]
  BY <1>1, WorkLemma DEF Inv
<1>. PICK r \in Requests : r = RequestOf(w)
  BY <1>2 DEF RequestOf
<1>3. Upload(r)
  BY <1>1 DEF Inv, WorkOK, StorageOK, At
<1>. PICK p \in Path : p = OwnPath(w)
  BY <1>3, RequestLemma DEF OwnPath
<1>4. Linked(r.content) \in File /\ Linked(r.content) # None
  <2>1. Linked(r.content) \in File
    BY <1>3, RequestLemma DEF Linked, File
  <2>2. QED
    BY <2>1, RowsAssumption
<1>5. files \in [Path -> File \cup {None}]
  BY DEF Inv, TypeOK
<1>6. files' = IF files[p] # None THEN files ELSE [files EXCEPT ![p] = Linked(r.content)]
  BY DEF Publish
<1>7. FilesKept /\ files' \in [Path -> File \cup {None}] /\ files'[p] # None
  BY <1>4, <1>5, <1>6 DEF FilesKept
<1>8. Quiet
  <2>1. client.version \in Int
    BY RowLemma DEF Inv
  <2>2. QED
    BY <1>7, <2>1 DEF Quiet, Publish, Inv, TypeOK
<1>9. work'[w].phase = "published" /\ work'[w].request = r
  BY <1>2 DEF Publish, GoTo, Inv, TypeOK, RequestOf
<1>10. p = PathOf(r.submission, r.content)
  BY DEF OwnPath
<1>11. StorageOK(w)'
  BY <1>3, <1>7, <1>9, <1>10 DEF StorageOK, At, RequestOf, OwnPath, Upload, PathOf
<1>12. QED
  BY <1>1, <1>8, <1>11, GoToStep DEF Publish, Phases

LEMMA VerifyStep ==
    ASSUME Inv, NEW w \in Worker, Verify(w)
    PROVE  Inv'
<1>1. Busy(w) /\ At(w, "published")
  BY DEF Verify, At, Busy, Phases
<1>2. work[w] \in [phase : Phases, request : Requests, live : BOOLEAN]
  BY <1>1, WorkLemma DEF Inv
<1>. PICK r \in Requests : r = RequestOf(w)
  BY <1>2 DEF RequestOf
<1>3. Upload(r)
  BY <1>1 DEF Inv, WorkOK, StorageOK, At
<1>. PICK p \in Path : p = OwnPath(w)
  BY <1>3, RequestLemma DEF OwnPath
<1>4. p = PathOf(r.submission, r.content)
  BY DEF OwnPath
<1>5. files[p] # None
  BY <1>1 DEF Inv, WorkOK, StorageOK
<1>6. files \in [Path -> File \cup {None}] /\ files[p] \in File
  BY <1>5 DEF Inv, TypeOK
<1>7. CASE /\ Holds(p, r.content)
           /\ files' = [files EXCEPT ![p].flushed = TRUE]
           /\ GoTo(w, "flushed")
  <2>. DEFINE flushed == [files[p] EXCEPT !.flushed = TRUE]
  <2>1. /\ flushed \in File /\ flushed.content = files[p].content
        /\ flushed.flushed /\ flushed.durable = files[p].durable
    BY <1>6 DEF File
  <2>2. flushed # None
    BY <2>1, RowsAssumption
  <2>3. files' = [files EXCEPT ![p] = flushed]
    BY <1>7
  <2>. HIDE DEF flushed
  <2>4. /\ FilesKept /\ files' \in [Path -> File \cup {None}]
        /\ files'[p] = flushed
    BY <1>6, <2>1, <2>2, <2>3 DEF FilesKept
  <2>5. Quiet
    <3>1. client.version \in Int
      BY RowLemma DEF Inv
    <3>2. QED
      BY <2>4, <3>1 DEF Quiet, Verify, Inv, TypeOK
  <2>6. work'[w].phase = "flushed" /\ work'[w].request = r
    BY <1>2, <1>7 DEF GoTo, Inv, TypeOK, RequestOf
  <2>7. StorageOK(w)'
    BY <1>3, <1>4, <1>7, <2>1, <2>2, <2>4, <2>6
    DEF StorageOK, At, RequestOf, OwnPath, Upload, PathOf, Holds
  <2>8. QED
    BY <1>1, <1>7, <2>5, <2>7, GoToStep DEF Phases
<1>8. CASE ~Holds(p, r.content) /\ Refuse(w, "conflict") /\ UNCHANGED files
  <2>1. Occupied(r)
    BY <1>3, <1>4, <1>5, <1>8 DEF Occupied, Holds
  <2>2. ASSUME Recorded(r) PROVE FALSE
    <3>1. files[PathOf(r.submission, r.content)] = Stored(r.content)
      BY <1>3, <2>2, RecordedLemma
    <3>2. Stored(r.content).content = r.content
      BY DEF Stored
    <3>3. QED
      BY <2>1, <3>1, <3>2 DEF Occupied
  <2>3. QED
    BY <1>1, <1>8, <2>1, <2>2, RefuseStep DEF Verify, Causes, Hopeless, Excused
<1>9. QED
  BY <1>7, <1>8 DEF Verify

LEMMA SyncDirectoryStep ==
    ASSUME Inv, NEW w \in Worker, SyncDirectory(w)
    PROVE  Inv'
<1>1. Busy(w) /\ At(w, "flushed")
  BY DEF SyncDirectory, At, Busy, Phases
<1>2. work[w] \in [phase : Phases, request : Requests, live : BOOLEAN]
  BY <1>1, WorkLemma DEF Inv
<1>. PICK r \in Requests : r = RequestOf(w)
  BY <1>2 DEF RequestOf
<1>3. Upload(r)
  BY <1>1 DEF Inv, WorkOK, StorageOK, At
<1>. PICK p \in Path : p = OwnPath(w)
  BY <1>3, RequestLemma DEF OwnPath
<1>4. p = PathOf(r.submission, r.content)
  BY DEF OwnPath
<1>5. Holds(p, r.content) /\ files[p].flushed
  BY <1>1 DEF Inv, WorkOK, StorageOK
<1>6. \A q \in Path : files[q] # None => files[q] \in File
  BY DEF Inv, TypeOK
<1>7. ASSUME NEW q \in Path, files[q] # None
      PROVE  /\ files'[q] \in File /\ files'[q] # None
             /\ files'[q].content = files[q].content
             /\ files'[q].flushed = files[q].flushed
             /\ files'[q].durable
  <2>1. files'[q] = [files[q] EXCEPT !.durable = TRUE]
    BY <1>7 DEF SyncDirectory
  <2>2. files[q] \in File
    BY <1>6, <1>7
  <2>3. /\ files'[q] \in File
        /\ files'[q].content = files[q].content
        /\ files'[q].flushed = files[q].flushed
        /\ files'[q].durable
    BY <2>1, <2>2 DEF File
  <2>4. QED
    BY <2>3, RowsAssumption
<1>8. \A q \in Path : files[q] = None => files'[q] = None
  BY DEF SyncDirectory
<1>9. files' \in [Path -> File \cup {None}]
  <2>1. files' = [q \in Path |-> files'[q]]
    BY DEF SyncDirectory
  <2>2. \A q \in Path : files'[q] \in File \cup {None}
    BY <1>7, <1>8
  <2>3. QED
    BY <2>1, <2>2
<1>10. Quiet
  <2>1. client.version \in Int
    BY RowLemma DEF Inv
  <2>2. QED
    BY <1>7, <1>9, <2>1 DEF Quiet, FilesKept, SyncDirectory, Inv, TypeOK
<1>11. work'[w].phase = "ready" /\ work'[w].request = r
  BY <1>2 DEF SyncDirectory, GoTo, Inv, TypeOK, RequestOf
<1>12. files'[p] = Stored(r.content)
  BY <1>5, <1>7 DEF Holds, File, Stored
<1>13. StorageOK(w)'
  BY <1>4, <1>11, <1>12 DEF StorageOK, At, RequestOf, BytesReady, PathOf, Stored
<1>14. QED
  BY <1>1, <1>10, <1>13, GoToStep DEF SyncDirectory, Phases

-----------------------------------------------------------------------------
(* The transaction: refused, repeated, without effect, or applied.         *)

LEMMA CommitRefusedStep ==
    ASSUME Inv, NEW w \in Worker, CommitRefused(w)
    PROVE  Inv'
<1>1. Busy(w)
  BY DEF CommitRefused, At, Busy, Phases
<1>2. UNCHANGED <<client, rows, files, faults>>
  BY DEF CommitRefused
<1>3. RequestOf(w) \in Requests
  BY <1>1, WorkLemma DEF Inv, At, Busy, Phases
<1>. PICK r \in Requests : r = RequestOf(w)
  BY <1>3
<1>4. r.expected <= logo.version /\ r.clientVersion <= client.version
  BY <1>1 DEF Inv, WorkOK, FormOK, At, Busy, Phases
<1>5. /\ r.expected \in Nat /\ r.clientVersion \in Nat
      /\ logo.version \in Nat /\ client.version \in Nat
  BY RequestLemma, RowLemma DEF Inv
<1>. PICK cause : cause = Refusal(w)
  OBVIOUS
<1>6. /\ cause \in Causes
      /\ \/ cause \in {"session", "archived"}
         \/ Receipted(r) /\ ~Recorded(r)
         \/ ~Receipted(r) /\ (Stale(r) \/ Inapplicable(r))
  BY DEF CommitRefused, Refusal, Causes, Recorded
<1>7. Stale(r) => client.version > r.clientVersion \/ logo.version > r.expected
  BY <1>4, <1>5 DEF Stale
<1>8. Excused(r, cause)
  BY <1>6, <1>7 DEF Hopeless, Recorded, Receipted, Excused
<1>9. QED
  BY <1>1, <1>2, <1>6, <1>8, RefuseStep DEF CommitRefused

(* The answer of a request that changes nothing now agrees with every      *)
(* answer it was given before.                                             *)
LEMMA AnswerStep ==
    ASSUME Inv, UNCHANGED <<client, rows, files, faults>>,
           NEW w \in Worker, Busy(w),
           NEW id \in VersionId, NEW version \in Nat, Answer(w, id, version),
           AnswerOK(w)',
           \A x \in Worker \ {w} :
              At(x, "answered") /\ RequestOf(x) = RequestOf(w)
              => work[x].id = id /\ work[x].version = version
    PROVE  Inv'
<1>1. work[w] \in [phase : Phases, request : Requests, live : BOOLEAN]
  BY WorkLemma DEF Inv
<1>. PICK r \in Requests : r = RequestOf(w)
  BY <1>1 DEF RequestOf
<1>. DEFINE job == [phase |-> "answered", request |-> r, id |-> id, version |-> version]
<1>2. job \in Work /\ work' = [work EXCEPT ![w] = job]
  BY DEF Work, Answer
<1>3. work \in [Worker -> Work]
  BY DEF Inv, TypeOK
<1>4. /\ work' \in [Worker -> Work]
      /\ work'[w] = job
      /\ \A x \in Worker \ {w} : work'[x] = work[x]
  BY <1>2, <1>3
<1>5. Quiet
  BY NothingMoves DEF Inv
<1>6. r.expected <= logo.version /\ r.clientVersion <= client.version
  BY DEF Inv, WorkOK, FormOK, At, Busy, Phases
<1>7. FormOK(w)'
  BY <1>4, <1>6 DEF FormOK, RequestOf, rows
<1>8. WorkOK(w)'
  BY <1>4, <1>7 DEF WorkOK, StorageOK, RefusalOK, At
<1>9. \A x \in Worker : WorkOK(x)'
  BY <1>4, <1>5, <1>8, WorkerKept
<1>10. ASSUME NEW x \in Worker \ {w}, At(x, "answered"), RequestOf(x) = r
       PROVE  work[x] = job
  BY <1>10, WorkLemma DEF Inv, RequestOf
<1>11. AnswersAgree'
  BY <1>4, <1>10 DEF Inv, AnswersAgree, At, RequestOf
<1>12. QED
  BY <1>4, <1>5, <1>9, <1>11, RowsKept DEF Inv

LEMMA ReplayStep ==
    ASSUME Inv, NEW w \in Worker, Replay(w)
    PROVE  Inv'
<1>1. Busy(w)
  BY DEF Replay, Accepted, At, Busy, Phases
<1>2. work[w] \in [phase : Phases, request : Requests, live : BOOLEAN]
  BY <1>1, WorkLemma DEF Inv
<1>. PICK r \in Requests : r = RequestOf(w)
  BY <1>2 DEF RequestOf
<1>3. Receipted(r) /\ Recorded(r)
  BY DEF Replay, Accepted, Refusal, Recorded, Receipted
<1>. PICK id, version : /\ id = receipts[r.submission].id
                        /\ version = receipts[r.submission].version
  OBVIOUS
<1>4. id \in VersionId /\ version \in Nat
  BY <1>3, RowLemma, RequestLemma DEF Inv, Receipted
<1>5. Answer(w, id, version)
  BY DEF Replay
<1>6. work'[w] = [phase |-> "answered", request |-> r, id |-> id, version |-> version]
  BY <1>5 DEF Inv, TypeOK, Answer
<1>7. receipts' = receipts
  BY DEF Replay, rows
<1>8. AnswerOK(w)'
  BY <1>3, <1>6, <1>7 DEF AnswerOK, ToldReceipt, RequestOf, Recorded, Receipted
<1>9. ASSUME NEW x \in Worker, At(x, "answered"), RequestOf(x) = r
      PROVE  work[x].id = id /\ work[x].version = version
  BY <1>3, <1>9 DEF Inv, WorkOK, AnswerOK, ToldReceipt, ToldUnchanged
<1>10. QED
  BY <1>1, <1>4, <1>5, <1>8, <1>9, AnswerStep DEF Replay

LEMMA UnchangedStep ==
    ASSUME Inv, NEW w \in Worker, Unchanged(w)
    PROVE  Inv'
<1>1. Busy(w)
  BY DEF Unchanged, Accepted, At, Busy, Phases
<1>2. work[w] \in [phase : Phases, request : Requests, live : BOOLEAN]
  BY <1>1, WorkLemma DEF Inv
<1>. PICK r \in Requests : r = RequestOf(w)
  BY <1>2 DEF RequestOf
<1>3. ~Receipted(r) /\ AlreadySo(r)
  BY DEF Unchanged
<1>4. logo.version = r.expected
  BY <1>3 DEF Unchanged, Accepted, Refusal, Stale
<1>. PICK id, version : id = logo.current /\ version = logo.version
  OBVIOUS
<1>5. id \in VersionId /\ version \in Nat
  BY <1>3, RowLemma, RequestLemma DEF Inv, AlreadySo, SameAsCurrent
<1>6. Answer(w, id, version)
  BY DEF Unchanged
<1>7. work'[w] = [phase |-> "answered", request |-> r, id |-> id, version |-> version]
  BY <1>6 DEF Inv, TypeOK, Answer
<1>8. receipts' = receipts /\ logo' = logo /\ registered' = registered
  BY DEF Unchanged, rows
<1>9. AlreadySo(r)'
  BY <1>3, <1>8 DEF AlreadySo, SameAsCurrent, Upload
<1>10. AnswerOK(w)'
  BY <1>3, <1>4, <1>7, <1>8, <1>9
  DEF AnswerOK, ToldUnchanged, RequestOf, Recorded, Receipted
<1>11. ASSUME NEW x \in Worker, At(x, "answered"), RequestOf(x) = r
       PROVE  work[x].id = id /\ work[x].version = version
  <2>1. ToldUnchanged(x)
    BY <1>3, <1>11 DEF Inv, WorkOK, AnswerOK, ToldReceipt, Recorded, Receipted
  <2>2. r.expected \in Nat
    BY RequestLemma
  <2>3. QED
    BY <1>4, <1>11, <2>1, <2>2 DEF ToldUnchanged
<1>12. QED
  BY <1>1, <1>5, <1>6, <1>10, <1>11, AnswerStep DEF Unchanged

(* What is known of a request that is applied: no attempt of it was        *)
(* applied before, it changes something, and its bytes are in place.       *)
LEMMA AppliedLemma ==
    ASSUME Inv, NEW w \in Worker, Apply(w)
    PROVE  \E r \in Requests :
              /\ r = RequestOf(w)
              /\ r.submission \in Submission /\ r.submission \in VersionId
              /\ logo.version = r.expected /\ client.version = r.clientVersion
              /\ receipts[r.submission] = None /\ registered[r.submission] = None
              /\ ~Inapplicable(r) /\ ~AlreadySo(r)
              /\ Upload(r) => files[PathOf(r.submission, r.content)] = Stored(r.content)
<1>1. Busy(w) /\ At(w, "ready")
  BY DEF Apply, Accepted, At, Busy, Phases
<1>2. work[w] \in [phase : Phases, request : Requests, live : BOOLEAN]
  BY <1>1, WorkLemma DEF Inv
<1>. PICK r \in Requests : r = RequestOf(w)
  BY <1>2 DEF RequestOf
<1>3. /\ ~Receipted(r) /\ ~AlreadySo(r)
      /\ Refusal(w) = "none"
  BY DEF Apply, Accepted
<1>4. ~Stale(r) /\ ~Inapplicable(r)
  BY <1>3 DEF Refusal
<1>5. r.submission \in Submission /\ r.submission \in VersionId
  BY RequestLemma DEF VersionId
<1>6. receipts[r.submission] = None /\ registered[r.submission] = None
  BY <1>3, <1>5 DEF Inv, ReceiptsOK, Receipted
<1>7. logo.version = r.expected /\ client.version = r.clientVersion
  BY <1>4 DEF Stale
<1>8. ASSUME Upload(r) PROVE files[PathOf(r.submission, r.content)] = Stored(r.content)
  <2>1. BytesReady(r)
    BY <1>1, <1>8 DEF Inv, WorkOK, StorageOK
  <2>2. ~SameAsCurrent(r.content)
    BY <1>3, <1>8 DEF AlreadySo
  <2>3. QED
    BY <1>7, <2>1, <2>2 DEF BytesReady
<1>9. QED
  BY <1>3, <1>4, <1>5, <1>6, <1>7, <1>8

(* Nobody was told anything yet about a request that is being applied.     *)
LEMMA NobodyWasTold ==
    ASSUME Inv, NEW r \in Requests, NEW x \in Worker, RequestOf(x) = r,
           logo.version = r.expected, client.version = r.clientVersion,
           receipts[r.submission] = None, ~Inapplicable(r), ~AlreadySo(r),
           Upload(r) => files[PathOf(r.submission, r.content)] = Stored(r.content)
    PROVE  /\ ~At(x, "answered")
           /\ At(x, "refused") => work[x].cause \in {"session", "archived"}
<1>1. r.expected \in Nat /\ r.clientVersion \in Nat
  BY RequestLemma
<1>2. ~Receipted(r) /\ ~Recorded(r)
  BY DEF Receipted, Recorded
<1>3. WorkOK(x)
  BY DEF Inv
<1>4. ~At(x, "answered")
  BY <1>1, <1>2, <1>3 DEF WorkOK, AnswerOK, ToldReceipt, ToldUnchanged
<1>5. ~Occupied(r)
  <2>1. Stored(r.content).content = r.content
    BY DEF Stored
  <2>2. QED
    BY <2>1 DEF Occupied
<1>6. ~Hopeless(r)
  BY <1>1, <1>5 DEF Hopeless
<1>7. At(x, "refused") => work[x].cause \in {"session", "archived"}
  BY <1>2, <1>3, <1>6 DEF WorkOK, RefusalOK, Excused
<1>8. QED
  BY <1>4, <1>7

LEMMA ApplyStep ==
    ASSUME Inv, NEW w \in Worker, Apply(w)
    PROVE  Inv'
<1>. PICK r \in Requests :
        /\ r = RequestOf(w)
        /\ r.submission \in Submission /\ r.submission \in VersionId
        /\ logo.version = r.expected /\ client.version = r.clientVersion
        /\ receipts[r.submission] = None /\ registered[r.submission] = None
        /\ ~Inapplicable(r) /\ ~AlreadySo(r)
        /\ Upload(r) => files[PathOf(r.submission, r.content)] = Stored(r.content)
  BY AppliedLemma
<1>. PICK id \in VersionId : id = Retained(r)
  BY RequestLemma
<1>. PICK v \in Nat : v = logo.version + 1
  BY RowLemma DEF Inv
<1>. DEFINE told == [phase |-> "answered", request |-> r, id |-> id, version |-> v]
            entry == [request |-> r, id |-> id, version |-> v]
<1>1. entry \in Receipt /\ told \in Work /\ entry # None
  <2>1. entry \in Receipt
    BY DEF Receipt
  <2>2. QED
    BY <2>1, RowsAssumption DEF Work
<1>2. /\ registered' = IF Upload(r) THEN [registered EXCEPT ![r.submission] = r.content]
                       ELSE registered
      /\ logo' = [version |-> v, current |-> id, archived |-> r.action = "archive"]
      /\ receipts' = [receipts EXCEPT ![r.submission] = entry]
      /\ work' = [work EXCEPT ![w] = told]
      /\ UNCHANGED <<client, files, faults>>
  BY DEF Apply, Answer
<1>3. /\ registered \in [VersionId -> Content \cup {None}]
      /\ receipts \in [Submission -> Receipt \cup {None}]
      /\ work \in [Worker -> Work]
      /\ logo.version \in Nat
  BY DEF Inv, TypeOK
<1>4. Upload(r) => r.content \in Content
  BY RequestLemma
<1>. HIDE DEF told, entry
<1>5. /\ registered' \in [VersionId -> Content \cup {None}]
      /\ \A u \in VersionId : registered'[u] =
            IF Upload(r) /\ u = r.submission THEN r.content ELSE registered[u]
      /\ \A u \in VersionId : registered[u] # None => registered'[u] # None
  BY <1>2, <1>3, <1>4
<1>6. /\ receipts' \in [Submission -> Receipt \cup {None}]
      /\ receipts'[r.submission] = entry
      /\ \A s \in Submission \ {r.submission} : receipts'[s] = receipts[s]
  BY <1>1, <1>2, <1>3
<1>7. /\ work' \in [Worker -> Work]
      /\ work'[w] = told
      /\ \A x \in Worker \ {w} : work'[x] = work[x]
  BY <1>1, <1>2, <1>3
<1>8. TypeOK'
  BY <1>2, <1>5, <1>6, <1>7 DEF Inv, TypeOK
<1>9. RegisteredFilesDurable'
  <2> SUFFICES ASSUME NEW u \in VersionId, registered'[u] # None
               PROVE  files[PathOf(u, registered'[u])] = Stored(registered'[u])
    BY <1>2 DEF RegisteredFilesDurable, Stored, PathOf
  <2>1. CASE Upload(r) /\ u = r.submission
    BY <1>5, <2>1
  <2>2. CASE ~(Upload(r) /\ u = r.submission)
    BY <1>5, <2>2 DEF Inv, RegisteredFilesDurable, Stored
  <2>3. QED
    BY <2>1, <2>2
<1>10. registered'[id] # None
  BY <1>4, <1>5 DEF Retained, Inapplicable
<1>11. ReceiptsOK'
  <2> SUFFICES ASSUME NEW s \in Submission
               PROVE  /\ registered'[s] # None => receipts'[s] # None
                      /\ receipts'[s] # None =>
                            /\ receipts'[s].request.submission = s
                            /\ registered'[Retained(receipts'[s].request)] # None
                            /\ Upload(receipts'[s].request) =>
                                  registered'[s] = receipts'[s].request.content
                            /\ receipts'[s].version <= logo'.version
                            /\ Upload(receipts'[s].request) /\ logo'.archived =>
                                  receipts'[s].version < logo'.version
    BY DEF ReceiptsOK, Retained, Upload
  <2>1. CASE s = r.submission
    <3>1. /\ receipts'[s] # None /\ receipts'[s].request = r
          /\ receipts'[s].version = v
      BY <1>1, <1>6, <2>1 DEF entry
    <3>2. logo'.version = v /\ (Upload(r) => ~logo'.archived)
      BY <1>2 DEF Upload
    <3>3. QED
      BY <1>5, <1>10, <2>1, <3>1, <3>2
  <2>2. CASE s # r.submission
    <3>1. receipts'[s] = receipts[s] /\ registered'[s] = registered[s]
      BY <1>5, <1>6, <2>2 DEF VersionId
    <3>2. receipts[s] # None => receipts[s].request \in Requests
      BY RowLemma DEF Inv
    <3>3. receipts[s] # None => Retained(receipts[s].request) \in VersionId
      BY <3>2, RequestLemma
    <3>4. receipts[s] # None => receipts[s].version \in Nat /\ receipts[s].version < v
      BY <1>3, RowLemma DEF Inv, ReceiptsOK
    <3>5. logo'.version = v
      BY <1>2
    <3>6. QED
      BY <1>5, <3>1, <3>3, <3>4, <3>5 DEF Inv, ReceiptsOK
  <2>3. QED
    BY <2>1, <2>2
<1>12. AnswerOK(w)'
  <2>1. Recorded(r)'
    BY <1>1, <1>6 DEF Recorded, Receipted, entry
  <2>2. work'[w].request = r /\ work'[w].id = id /\ work'[w].version = v
    BY <1>7 DEF told
  <2>3. receipts'[r.submission].id = id /\ receipts'[r.submission].version = v
    BY <1>6 DEF entry
  <2>4. QED
    BY <2>1, <2>2, <2>3 DEF AnswerOK, ToldReceipt, RequestOf
<1>13. WorkOK(w)'
  <2>1. /\ work'[w].phase = "answered" /\ work'[w].request = r
    BY <1>7 DEF told
  <2>2. r.expected \in Nat /\ r.clientVersion \in Nat
    BY RequestLemma
  <2>3. FormOK(w)'
    BY <1>2, <1>3, <2>1, <2>2 DEF FormOK, RequestOf
  <2>4. QED
    BY <1>12, <2>1, <2>3 DEF WorkOK, StorageOK, RefusalOK, At
<1>14. ASSUME NEW x \in Worker \ {w} PROVE WorkOK(x)'
  <2>1. work'[x] = work[x] /\ WorkOK(x)
    BY <1>7 DEF Inv
  <2>2. CASE At(x, "idle")
    BY <2>1, <2>2 DEF WorkOK, FormOK, StorageOK, AnswerOK, RefusalOK, At
  <2>3. CASE ~At(x, "idle")
    <3>. PICK q \in Requests : q = RequestOf(x)
      BY <2>3, WorkLemma DEF Inv
    <3>1. /\ q.expected \in Nat /\ q.expected <= logo.version
          /\ q.clientVersion <= client.version
          /\ q.submission \in Submission
      BY <2>1, <2>3, RequestLemma DEF WorkOK, FormOK
    <3>2. logo'.version = v /\ v > q.expected
      BY <1>2, <1>3, <3>1
    <3>3. RequestOf(x)' = q
      BY <2>1 DEF RequestOf
    <3>4. FormOK(x)'
      BY <1>2, <1>3, <3>1, <3>2, <3>3 DEF FormOK
    <3>5. StorageOK(x)'
      <4>1. BytesReady(q) => BytesReady(q)'
        BY <1>2, <3>1, <3>2 DEF BytesReady, PathOf, Stored
      <4>2. QED
        BY <1>2, <2>1, <3>3, <4>1
        DEF WorkOK, StorageOK, At, OwnPath, Holds, PathOf, Upload
    <3>6. Recorded(q) => Recorded(q)' /\ receipts'[q.submission] = receipts[q.submission]
      BY <1>6, <3>1 DEF Recorded, Receipted
    <3>7. ~Recorded(q) /\ q # r => ~Recorded(q)'
      BY <1>6, <3>1 DEF Recorded, Receipted, entry
    <3>8. AnswerOK(x)'
      <4>1. At(x, "answered") => q # r
        BY NobodyWasTold
      <4>2. At(x, "answered") => ToldReceipt(x) \/ ToldUnchanged(x)
        BY <2>1 DEF WorkOK, AnswerOK
      <4>3. ToldReceipt(x) => ToldReceipt(x)'
        BY <2>1, <3>3, <3>6 DEF ToldReceipt
      <4>4. ToldUnchanged(x) /\ q # r => ToldUnchanged(x)'
        BY <2>1, <3>2, <3>3, <3>7 DEF ToldUnchanged
      <4>5. QED
        BY <2>1, <4>1, <4>2, <4>3, <4>4 DEF AnswerOK, At
    <3>9. RefusalOK(x)'
      <4>1. At(x, "refused") /\ work[x].cause \notin {"session", "archived"} => q # r
        BY NobodyWasTold
      <4>2. Hopeless(q)'
        BY <3>2 DEF Hopeless
      <4>3. Recorded(q) /\ OvertakenUpload(q) => OvertakenUpload(q)'
        BY <1>2, <1>3, <3>1, <3>6, RowLemma DEF Inv, OvertakenUpload, Upload, Recorded, Receipted
      <4>4. QED
        BY <2>1, <3>3, <3>6, <3>7, <4>1, <4>2, <4>3 DEF WorkOK, RefusalOK, Excused, At
    <3>10. QED
      BY <3>4, <3>5, <3>8, <3>9 DEF WorkOK
  <2>4. QED
    BY <2>2, <2>3
<1>15. AnswersAgree'
  <2>1. \A x \in Worker \ {w} : At(x, "answered") => RequestOf(x) # r
    BY NobodyWasTold
  <2>2. work'[w].request = r
    BY <1>7 DEF told
  <2>3. QED
    BY <1>7, <2>1, <2>2 DEF Inv, AnswersAgree, At, RequestOf
<1>16. QED
  BY <1>8, <1>9, <1>11, <1>13, <1>14, <1>15 DEF Inv

-----------------------------------------------------------------------------
LEMMA FinishStep ==
    ASSUME Inv, NEW w \in Worker, Finish(w)
    PROVE  Inv'
  BY NothingMoves, IdleStep DEF Inv, Finish

LEMMA SessionEndsStep ==
    ASSUME Inv, NEW w \in Worker, SessionEnds(w)
    PROVE  Inv'
<1>. DEFINE job == [work[w] EXCEPT !.live = FALSE]
<1>1. work[w] \in [phase : Phases, request : Requests, live : BOOLEAN]
  BY WorkLemma DEF Inv, SessionEnds
<1>2. /\ job \in [phase : Phases, request : Requests, live : BOOLEAN]
      /\ job.phase = work[w].phase /\ job.request = work[w].request
  BY <1>1
<1>3. job \in Work /\ work' = [work EXCEPT ![w] = job]
  BY <1>2 DEF Work, SessionEnds
<1>4. work'[w] = job
  BY <1>3 DEF Inv, TypeOK
<1>5. Quiet
  <2>1. client.version \in Int /\ faults \in Nat /\ MaxFaults \in Nat
    BY RowLemma, BoundsAssumption DEF Inv, TypeOK
  <2>2. faults' \in 0..MaxFaults
    BY <2>1 DEF SessionEnds, Fault
  <2>3. QED
    BY <2>1, <2>2 DEF SessionEnds, Inv, TypeOK, Quiet, FilesKept
<1>6. WorkOK(w)'
  BY <1>2, <1>4, <1>5, WorkerKept DEF SessionEnds
<1>7. job.phase # "answered"
  BY <1>2 DEF SessionEnds, Busy, Phases
<1>8. QED
  BY <1>3, <1>5, <1>6, <1>7, QuietStep

LEMMA AbandonStep ==
    ASSUME Inv, NEW w \in Worker, Abandon(w)
    PROVE  Inv'
<1>1. client.version \in Int /\ faults \in Nat /\ MaxFaults \in Nat
  BY RowLemma, BoundsAssumption DEF Inv, TypeOK
<1>2. faults' \in 0..MaxFaults
  BY <1>1 DEF Abandon, Fault
<1>3. Quiet
  BY <1>1, <1>2 DEF Abandon, Inv, TypeOK, Quiet, FilesKept
<1>4. QED
  BY <1>3, IdleStep DEF Abandon

LEMMA ClientStep ==
    ASSUME Inv, NEW archived \in BOOLEAN, ClientChanges(archived)
    PROVE  Inv'
<1>1. client.version \in Int /\ client.version \in 1..MaxClientVersion
      /\ MaxClientVersion \in Nat
  BY BoundsAssumption DEF Inv, TypeOK
<1>2. client.version + 1 \in 1..MaxClientVersion
  BY <1>1 DEF ClientChanges
<1>3. Quiet
  BY <1>1, <1>2 DEF ClientChanges, Inv, TypeOK, Quiet, FilesKept
<1>4. work' = work /\ work \in [Worker -> Work]
  BY DEF ClientChanges, Inv, TypeOK
<1>5. \A w \in Worker : WorkOK(w)'
  BY <1>3, <1>4, WorkerKept
<1>6. AnswersAgree'
  BY <1>4 DEF Inv, AnswersAgree, At, RequestOf
<1>7. QED
  BY <1>3, <1>4, <1>5, <1>6, RowsKept DEF Inv

(* Nobody is left to be told anything, and what is registered is neither   *)
(* loose nor torn.                                                         *)
LEMMA PowerLossStep ==
    ASSUME Inv, PowerLoss
    PROVE  Inv'
<1>1. PICK lost \in SUBSET Loose, garbled \in SUBSET Torn :
        files' = [p \in Path |->
                    IF files[p] = None \/ p \in lost THEN None
                    ELSE [content |-> IF p \in garbled THEN Garbage ELSE files[p].content,
                          flushed |-> TRUE, durable |-> TRUE]]
  BY DEF PowerLoss
<1>2. /\ client' = client /\ logo' = logo /\ registered' = registered
      /\ receipts' = receipts
      /\ work' = [w \in Worker |-> Idle]
  BY DEF PowerLoss, rows
<1>3. files' \in [Path -> File \cup {None}]
  <2>1. ASSUME NEW p \in Path, files[p] # None
        PROVE  [content |-> IF p \in garbled THEN Garbage ELSE files[p].content,
                flushed |-> TRUE, durable |-> TRUE] \in File
    BY <2>1 DEF Inv, TypeOK, File
  <2>2. QED
    BY <1>1, <2>1
<1>4. faults' \in 0..MaxFaults
  BY BoundsAssumption DEF PowerLoss, Fault, Inv, TypeOK
<1>5. Idle \in Work
  BY DEF Work
<1>6. TypeOK'
  BY <1>2, <1>3, <1>4, <1>5 DEF Inv, TypeOK
<1>7. ASSUME NEW v \in VersionId, registered[v] # None
      PROVE  files'[PathOf(v, registered[v])] = Stored(registered[v])
  <2>. PICK p \in Path : p = PathOf(v, registered[v])
    BY <1>7, RowLemma DEF Inv
  <2>1. files[p] = Stored(registered[v])
    BY <1>7 DEF Inv, RegisteredFilesDurable, Stored
  <2>2. /\ files[p].content = registered[v] /\ files[p].flushed /\ files[p].durable
    BY <2>1 DEF Stored
  <2>3. files[p] # None
    BY <1>7, ReadableLemma DEF Readable
  <2>4. p \notin lost /\ p \notin garbled
    BY <2>2 DEF Loose, Torn
  <2>5. QED
    BY <1>1, <2>2, <2>3, <2>4 DEF Stored
<1>8. RegisteredFilesDurable'
  BY <1>2, <1>7 DEF RegisteredFilesDurable, Stored, PathOf
<1>9. ReceiptsOK'
  BY <1>2 DEF Inv, ReceiptsOK, Retained, Upload
<1>10. \A w \in Worker : WorkOK(w)'
  BY <1>2 DEF WorkOK, FormOK, StorageOK, AnswerOK, RefusalOK, At, Idle
<1>11. AnswersAgree'
  BY <1>2 DEF AnswersAgree, At, Idle
<1>12. QED
  BY <1>6, <1>8, <1>9, <1>10, <1>11 DEF Inv

-----------------------------------------------------------------------------
(* A client starts without a version or with the one of the import.        *)
LEMMA InitLemma == ASSUME Init PROVE Inv
<1>1. /\ client = [version |-> 1, archived |-> FALSE]
      /\ receipts = [s \in Submission |-> None]
      /\ work = [w \in Worker |-> Idle]
      /\ faults = 0
  BY DEF Init
<1>2. \A w \in Worker : WorkOK(w)
  BY <1>1 DEF WorkOK, FormOK, StorageOK, AnswerOK, RefusalOK, At, Idle
<1>3. AnswersAgree
  BY <1>1 DEF AnswersAgree, At, Idle
<1>4. /\ client \in [version : 1..MaxClientVersion, archived : BOOLEAN]
      /\ receipts \in [Submission -> Receipt \cup {None}]
      /\ work \in [Worker -> Work]
      /\ faults \in 0..MaxFaults
  BY <1>1, BoundsAssumption DEF Work
<1>5. CASE /\ logo = [version |-> 0, current |-> None, archived |-> FALSE]
           /\ registered = [v \in VersionId |-> None]
           /\ files = [p \in Path |-> None]
  <2>1. TypeOK
    BY <1>4, <1>5 DEF TypeOK
  <2>2. RegisteredFilesDurable
    BY <1>5 DEF RegisteredFilesDurable
  <2>3. ReceiptsOK
    BY <1>1, <1>5 DEF ReceiptsOK, VersionId
  <2>4. QED
    BY <1>2, <1>3, <2>1, <2>2, <2>3 DEF Inv
<1>6. ASSUME NEW c \in Content,
             logo = [version |-> 1, current |-> Import, archived |-> FALSE],
             registered = [v \in VersionId |-> IF v = Import THEN c ELSE None],
             files = [p \in Path |-> IF p = PathOf(Import, c) THEN Stored(c) ELSE None]
      PROVE  Inv
  <2>1. Stored(c) \in File
    BY DEF Stored, File
  <2>2. Import \in VersionId /\ PathOf(Import, c) \in Path
    BY DEF VersionId, Path, PathOf
  <2>3. logo \in [version : Nat, current : VersionId \cup {None}, archived : BOOLEAN]
    BY <1>6, <2>2
  <2>4. files \in [Path -> File \cup {None}]
    BY <1>6, <2>1
  <2>5. registered \in [VersionId -> Content \cup {None}]
    BY <1>6
  <2>6. TypeOK
    BY <1>4, <2>3, <2>4, <2>5 DEF TypeOK
  <2>7. RegisteredFilesDurable
    BY <1>6, <2>2 DEF RegisteredFilesDurable, Stored
  <2>8. ReceiptsOK
    BY <1>1, <1>6 DEF ReceiptsOK, VersionId
  <2>9. QED
    BY <1>2, <1>3, <2>6, <2>7, <2>8 DEF Inv
<1>7. QED
  BY <1>5, <1>6 DEF Init, Stored

LEMMA StepLemma == ASSUME Inv, [Next]_vars PROVE Inv'
<1>1. CASE \E w \in Worker, r \in Requests : Send(w, r)
  BY <1>1, SendStep
<1>2. ASSUME NEW w \in Worker, Proceed(w) PROVE Inv'
  BY <1>2, ReadStep, LookupStep, PublishStep, VerifyStep, SyncDirectoryStep,
     CommitRefusedStep, ReplayStep, UnchangedStep, ApplyStep, FinishStep DEF Proceed
<1>3. ASSUME NEW w \in Worker, SessionEnds(w) \/ Abandon(w) PROVE Inv'
  BY <1>3, SessionEndsStep, AbandonStep
<1>4. CASE \E archived \in BOOLEAN : ClientChanges(archived)
  BY <1>4, ClientStep
<1>5. CASE PowerLoss
  BY <1>5, PowerLossStep
<1>6. CASE UNCHANGED vars
  <2>1. Quiet
    BY <1>6, NothingMoves DEF Inv, vars
  <2>2. work' = work /\ work \in [Worker -> Work]
    BY <1>6 DEF vars, Inv, TypeOK
  <2>3. \A w \in Worker : WorkOK(w)'
    BY <2>1, <2>2, WorkerKept
  <2>4. AnswersAgree'
    BY <2>2 DEF Inv, AnswersAgree, At, RequestOf
  <2>5. QED
    BY <2>1, <2>2, <2>3, <2>4, RowsKept DEF Inv
<1>7. QED
  BY <1>1, <1>2, <1>3, <1>4, <1>5, <1>6 DEF Next

(* The invariant holds in every reachable state.                           *)
THEOREM Invariance == Spec => []Inv
  BY InitLemma, StepLemma, PTL DEF Spec

(* The variables of LogoStore keep their types.                            *)
THEOREM TypeCorrect == Spec => []TypeOK
<1>1. Inv => TypeOK
  BY DEF Inv
<1>2. QED
  BY <1>1, Invariance, PTL

(* Every version that is registered has its bytes on the device, flushed   *)
(* together with their name: storeClientLogoFile is finished, or not       *)
(* needed, before client_logo_mutate registers anything.                   *)
THEOREM RegisteredVersionsAreOnDisk == Spec => []RegisteredFilesDurable
<1>1. Inv => RegisteredFilesDurable
  BY DEF Inv
<1>2. QED
  BY <1>1, Invariance, PTL

(* Two answers to the same request are the same, whether they came from a  *)
(* receipt or from finding the client as it was wanted.                    *)
THEOREM AnswersOfOneRequestAgree == Spec => []AnswersAgree
<1>1. Inv => AnswersAgree
  BY DEF Inv
<1>2. QED
  BY <1>1, Invariance, PTL

(* A request that was applied is refused only for the client's archive or  *)
(* the end of the session, however late it is sent again, and an upload    *)
(* also for the archive of the logo after it was applied.                  *)
THEOREM AppliedRequestsAreWelcome == Spec => []AppliedRequestsWelcome
<1>1. Inv => AppliedRequestsWelcome
  BY DEF Inv, WorkOK, RefusalOK, Excused, AppliedRequestsWelcome
<1>2. QED
  BY <1>1, Invariance, PTL

-----------------------------------------------------------------------------
(* The registered versions are what the pages would read from the disk.    *)
LEMMA BytesLemma == Inv => BytesOnDisk = registered
<1>. SUFFICES ASSUME Inv PROVE BytesOnDisk = registered
  OBVIOUS
<1>1. registered \in [VersionId -> Content \cup {None}]
  BY DEF Inv, TypeOK
<1>2. ASSUME NEW v \in VersionId PROVE BytesOnDisk[v] = registered[v]
  <2>1. CASE registered[v] = None
    BY <2>1 DEF BytesOnDisk
  <2>2. CASE registered[v] # None
    BY <2>2, ReadableLemma DEF BytesOnDisk, Readable
  <2>3. QED
    BY <2>1, <2>2
<1>3. BytesOnDisk = [v \in VersionId |-> BytesOnDisk[v]]
  BY DEF BytesOnDisk
<1>4. QED
  BY <1>1, <1>2, <1>3

LEMMA BytesAfterwards == Inv' => (BytesOnDisk = registered)'
  BY BytesLemma, PTL

LEMMA InitRefines == ASSUME Init PROVE History!Init
<1>1. Inv
  BY InitLemma
<1>2. BytesOnDisk = registered
  BY <1>1, BytesLemma
<1>3. Import \in VersionId
  BY DEF VersionId
<1>4. QED
  BY <1>2, <1>3 DEF Init, History!Init

(* What is applied is a replacement, an archiving or a restoration.        *)
LEMMA ApplyRefines ==
    ASSUME Inv, NEW w \in Worker, Apply(w)
    PROVE  History!Next
<1>. PICK r \in Requests :
        /\ r = RequestOf(w)
        /\ r.submission \in Submission /\ r.submission \in VersionId
        /\ logo.version = r.expected /\ client.version = r.clientVersion
        /\ receipts[r.submission] = None /\ registered[r.submission] = None
        /\ ~Inapplicable(r) /\ ~AlreadySo(r)
        /\ Upload(r) => files[PathOf(r.submission, r.content)] = Stored(r.content)
  BY AppliedLemma
<1>1. BytesOnDisk = registered
  BY BytesLemma
<1>2. BytesOnDisk' = registered'
  BY ApplyStep, BytesAfterwards
<1>3. /\ registered' = IF Upload(r) THEN [registered EXCEPT ![r.submission] = r.content]
                       ELSE registered
      /\ logo'.version = logo.version + 1
      /\ logo'.current = Retained(r)
      /\ logo'.archived = (r.action = "archive")
  BY DEF Apply
<1>4. logo.archived \in BOOLEAN
  BY RowLemma DEF Inv
<1>5. CASE Upload(r)
  <2>1. r.action # "archive" /\ r.content \in Content
    BY <1>5, RequestLemma DEF Upload
  <2>2. ~logo.archived /\ (logo.current # None => registered[logo.current] # r.content)
    BY <1>5 DEF Inapplicable, AlreadySo, SameAsCurrent
  <2>3. History!Replace(r.submission, r.content)
    BY <1>1, <1>2, <1>3, <1>4, <1>5, <2>1, <2>2 DEF History!Replace, Retained
  <2>4. QED
    BY <2>1, <2>3 DEF History!Next
<1>6. CASE ~Upload(r)
  <2>1. r.target \in VersionId /\ r.action \in {"archive", "restore"}
    BY <1>6, RequestLemma
  <2>2. /\ logo.current # None /\ registered[r.target] # None
        /\ r.action = "archive" => r.target = logo.current
        /\ ~(r.target = logo.current /\ (logo.archived <=> r.action = "archive"))
    BY <1>6 DEF Inapplicable, AlreadySo
  <2>3. r.action = "archive" => History!Archive
    BY <1>1, <1>2, <1>3, <1>4, <1>6, <2>2 DEF History!Archive, Retained
  <2>4. r.action = "restore" => History!Restore(r.target)
    BY <1>1, <1>2, <1>3, <1>4, <1>6, <2>2 DEF History!Restore, Retained
  <2>5. QED
    BY <2>1, <2>3, <2>4 DEF History!Next
<1>7. QED
  BY <1>5, <1>6

(* Every other step leaves the logo and its bytes alone.                   *)
LEMMA NextRefines ==
    ASSUME Inv, [Next]_vars
    PROVE  [History!Next]_(History!vars)
<1>1. CASE \E w \in Worker : Apply(w)
  BY <1>1, ApplyRefines
<1>2. CASE UNCHANGED rows
  <2>1. BytesOnDisk = registered /\ BytesOnDisk' = registered'
    BY StepLemma, BytesLemma, BytesAfterwards
  <2>2. QED
    BY <1>2, <2>1 DEF rows, History!vars
<1>3. CASE ~\E w \in Worker : Apply(w)
  <2>1. UNCHANGED rows
    BY <1>3 DEF Next, Proceed, Send, Read, Lookup, Publish, Verify, SyncDirectory,
                CommitRefused, Replay, Unchanged, Finish, SessionEnds, Abandon,
                ClientChanges, PowerLoss, vars
  <2>2. QED
    BY <1>2, <2>1
<1>4. QED
  BY <1>1, <1>3

(* The logo of a client, as the pages read it from database and disk, is   *)
(* the history that LogoHistory promises: no fault, repetition or race     *)
(* loses a version or its bytes.                                           *)
THEOREM StoreImplementsHistory == Spec => ImplementsHistory
<1>1. Init => History!Init
  BY InitRefines
<1>2. Inv /\ [Next]_vars => [History!Next]_(History!vars)
  BY NextRefines
<1>3. QED
  BY <1>1, <1>2, Invariance, PTL DEF Spec, ImplementsHistory, History!Spec
=============================================================================

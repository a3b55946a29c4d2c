-------------------------- MODULE PasteStore_proofs --------------------------
(***************************************************************************)
(* Proofs about PasteStore: the live version keeps its body and its read   *)
(* counter, and a read that found a version gets its body, for every       *)
(* number of writes, reads and deletes and every length of the request     *)
(* time, the staleness of KV and the grace period, as long as the first    *)
(* two together are less than the third (GraceAssumption).                 *)
(***************************************************************************)
EXTENDS PasteStore, TLAPS

-----------------------------------------------------------------------------
(* The invariant.                                                          *)

\* A write that did not reach the index yet.
Fresh(v) == writer[v].pc \in {"idle", "creating", "updating", "preparing", "indexing"}

\* A write that Tick waits for.
Underway(w) == writer[w].pc \in {"preparing", "indexing", "failed", "queueing", "retiring"}

\* Every read of the version was taken.
Spent(v) == v \in Limited /\ remaining[v] = 0

\* Nothing that is under way is older than its limit.
Timed ==
  /\ \A old \in stale : now <= old.until /\ old.until <= now + Staleness
  /\ \A w \in Writers :
       Underway(w) => writer[w].since <= now /\ now <= writer[w].since + RequestSpan
  /\ sweep.at <= now

\* Only its own request knows of a fresh version.
FreshIsUnknown ==
  \A v \in Versions : Fresh(v) =>
    /\ index # v
    /\ \A old \in stale : old.version # v
    /\ \A w \in Writers : writer[w].original # v
    /\ \A r \in Readers : reader[r].version # v
    /\ queue[v] = Never
    /\ v \notin retired
    /\ v \notin sweep.todo /\ v \notin sweep.doomed

\* The object of a fresh version is as old as its request, and it is there before
\* the index is put.
FreshObject ==
  \A v \in Versions :
    /\ writer[v].pc \in {"idle", "creating", "updating"} => objects[v] = Never
    /\ Fresh(v) => objects[v] = Never \/ writer[v].since <= objects[v]
    /\ v \in Multipart /\ writer[v].pc \in {"preparing", "indexing"} =>
         objects[v] = writer[v].since
    /\ writer[v].pc = "indexing" /\ location[v] = "R2" => objects[v] # Never

\* A write cleans up after a version that the index does not name.
OriginalIsReplaced ==
  \A w \in Writers : writer[w].pc \in {"queueing", "retiring"} =>
    writer[w].original \in Versions /\ writer[w].original # index

\* The index names a queued version only when its own request queued it, late: no
\* location serves anything else once the grace period of the entry is over.
QueuedIndexIsSettled ==
  index # None /\ queue[index] # Never =>
    /\ writer[index].pc = "done"
    /\ \A old \in stale : old.until <= queue[index] + Staleness

\* A version that was uploaded in parts was put soon after its upload.
UploadedIndexIsSettled ==
  index \in Multipart =>
    /\ objects[index] = Never \/ objects[index] = writer[index].since
    /\ \A old \in stale : old.until <= writer[index].since + RequestSpan + Staleness

\* Reads clean up only after what nobody can read.
ReapingIsDead ==
  \A r \in Readers :
    LET v == reader[r].version IN
    /\ reader[r].pc \in {"found", "admitted", "reaping", "lost"} => v \in Versions
    /\ reader[r].pc = "found" => ~reader[r].final
    /\ reader[r].pc = "reaping" => Expired(v) \/ Spent(v)
    /\ reader[r].pc = "admitted" /\ reader[r].final => Spent(v)

\* The sweep dooms the live version only when it is expired.
SweepIsSound ==
  /\ sweep.phase = "idle" => sweep.todo = {} /\ sweep.doomed = {}
  /\ sweep.todo \cap sweep.doomed = {}
  /\ sweep.phase = "queue" /\ index \in sweep.todo =>
       queue[index] # Never /\ queue[index] + Grace <= sweep.at
  /\ sweep.phase = "bucket" =>
       \A v \in sweep.todo \cap Direct : expiresAt[v] < sweep.at
  /\ sweep.phase = "bucket" /\ index \in sweep.todo \cap Multipart =>
       writer[index].since + Grace <= sweep.at
  /\ index \in sweep.doomed => Expired(index)

LiveInv ==
  /\ Timed /\ FreshIsUnknown /\ FreshObject /\ OriginalIsReplaced
  /\ QueuedIndexIsSettled /\ UploadedIndexIsSettled /\ ReapingIsDead /\ SweepIsSound
  /\ RetiredIsReplaced /\ LiveObjectPresent

-----------------------------------------------------------------------------
(* With what a read in progress may rely on.                               *)

Reading(r) == reader[r].pc \in {"found", "admitted"}

ReadsAreTimed ==
  \A r \in Readers : Reading(r) =>
    reader[r].since <= now /\ now <= reader[r].since + RequestSpan

\* A KV put that fails is not stored: nobody finds the version of a failed write.
FailedIsUnknown ==
  \A v \in Versions : writer[v].pc = "failed" =>
    /\ v \notin Visible
    /\ \A r \in Readers : reader[r].version # v

\* A version is queued once it is replaced, and is found for Staleness after that.
QueuedIsFading ==
  \A v \in Versions : queue[v] # Never =>
    /\ index # v
    /\ \A old \in stale : old.version = v => old.until <= queue[v] + Staleness
    /\ \A r \in Readers : Reading(r) /\ reader[r].version = v =>
         reader[r].since <= queue[v] + Staleness

\* Nobody finds or reads a version that the sweep takes from the queue.
SweptIsForgotten ==
  /\ sweep.phase = "queue" =>
       \A v \in sweep.todo \cup sweep.doomed :
         /\ v \notin Visible
         /\ \A r \in Readers : Reading(r) => reader[r].version # v
  /\ sweep.phase = "bucket" => \A v \in sweep.doomed \cap Direct : Expired(v)

\* The body of a direct version can be had by whoever may find it or has found it.
BodyIsKept ==
  \A v \in Direct :
    v \in Visible \/ (\E r \in Readers : Reading(r) /\ reader[r].version = v) =>
      \/ location[v] = "KV" \/ objects[v] # Never
      \/ Expired(v) \/ Spent(v)

ReadInv ==
  /\ ReadsAreTimed /\ FailedIsUnknown /\ QueuedIsFading /\ SweptIsForgotten /\ BodyIsKept
  /\ FoundDirectVersionIsServed
-----------------------------------------------------------------------------
(* What the store and the requests hold has its type.                      *)

Stages == {"idle", "creating", "updating", "preparing", "indexing", "failed", "queueing",
           "retiring", "done"}
Writes == [pc : Stages, original : Versions \cup {None}, since : Nat]
Reads == [pc : {"idle", "found", "admitted", "reaping", "lost", "done"},
          version : Versions \cup {None}, final : BOOLEAN, since : Nat]
Sweeps == [phase : {"idle", "queue", "bucket"}, at : Nat,
           todo : SUBSET Versions, doomed : SUBSET Versions]

LEMMA Records ==
  ASSUME TypeOK
  PROVE  /\ writer \in [Writers -> Writes] /\ reader \in [Readers -> Reads]
         /\ sweep \in Sweeps
BY DEF TypeOK, Stages, Writes, Reads, Sweeps

\* A step of a write changes the record of that write only.
LEMMA GotoMoves ==
  ASSUME TypeOK, NEW w \in Writers, NEW pc, Goto(w, pc)
  PROVE  /\ writer'[w].pc = pc /\ writer'[w].original = writer[w].original
         /\ writer'[w].since = writer[w].since
         /\ \A x \in Writers : x # w => writer'[x] = writer[x]
BY DEF TypeOK, Goto

LEMMA BeginMoves ==
  ASSUME TypeOK, NEW w \in Writers, NEW original, NEW pc, Begin(w, original, pc)
  PROVE  /\ writer'[w].pc = pc /\ writer'[w].original = original
         /\ writer'[w].since = now
         /\ \A x \in Writers : x # w => writer'[x] = writer[x]
BY DEF TypeOK, Begin

\* KV knows versions of the name only.
LEMMA VisibleVersions ==
  ASSUME TypeOK
  PROVE  Visible \subseteq Versions \cup {None} /\ Lookup \subseteq Versions \cup {None}
BY DEF TypeOK, Visible, Lookup

\* What is looked up is there, as long as it is not None.
LEMMA LookupIsVisible ==
  ASSUME NEW v \in Lookup, v # None
  PROVE  v \in Visible
BY DEF Lookup

LEMMA InitTypes == Init => TypeOK
BY StoreAssumption DEF Init, TypeOK, Idle, NoSweep, Never, Writers, Versions

LEMMA GotoTypes ==
  ASSUME TypeOK, NEW w \in Writers, NEW pc, Goto(w, pc),
         pc \in Stages
  PROVE  writer' \in [Writers -> Writes]
<1>. writer \in [Writers -> Writes]
  BY Records
<1>1. [writer[w] EXCEPT !.pc = pc] \in Writes
  BY DEF Writes
<1>2. writer' = [writer EXCEPT ![w] = [writer[w] EXCEPT !.pc = pc]]
  BY DEF Goto
<1>3. QED
  BY <1>1, <1>2

LEMMA BeginTypes ==
  ASSUME TypeOK, NEW w \in Writers, NEW original \in Versions \cup {None}, NEW pc,
         Begin(w, original, pc),
         pc \in Stages
  PROVE  writer' \in [Writers -> Writes]
<1>1. [pc |-> pc, original |-> original, since |-> now] \in Writes
  BY DEF TypeOK, Writes
<1>2. QED
  BY <1>1, Records DEF Begin

LEMMA PrepareTypes ==
  ASSUME TypeOK, NEW v \in Versions, NEW original, Prepare(v, original)
  PROVE  /\ expiresAt' \in [Versions -> Nat]
         /\ location' \in [Versions -> {"KV", "R2"}]
BY StoreAssumption DEF TypeOK, Prepare

LEMMA SetIndexTypes ==
  ASSUME TypeOK, NEW w \in Writers, SetIndex(IF w \in Versions THEN w ELSE None)
  PROVE  /\ index' \in Versions \cup {None}
         /\ stale' \subseteq [version : Versions \cup {None}, until : Nat]
BY StoreAssumption DEF TypeOK, SetIndex

LEMMA WriteTypes ==
  ASSUME TypeOK, NEW w \in Writers, WriteStep(w) \/ AbortWrite(w)
  PROVE  TypeOK'
<1>1. CASE PutIndex(w)
  <2>1. writer' \in [Writers -> Writes]
    BY <1>1, GotoTypes DEF PutIndex, Stages
  <2>2. QED
    BY <1>1, <2>1, SetIndexTypes
    DEF PutIndex, TypeOK, Stages, Writes, Reads, Sweeps, r2, counters, metadata
<1>2. CASE FailIndex(w)
  <2>1. writer' \in [Writers -> Writes]
    BY <1>2, GotoTypes DEF FailIndex, Stages
  <2>2. QED
    BY <1>2, <2>1, SetIndexTypes
    DEF FailIndex, TypeOK, Stages, Writes, Reads, Sweeps, kv, r2, counters, metadata
<1>3. CASE QueueOriginal(w)
  <2>1. queue' \in [Versions -> Nat \cup {Never}]
    BY <1>3 DEF QueueOriginal, Queue, TypeOK
  <2>2. QED
    BY <1>3, <2>1, GotoTypes
    DEF QueueOriginal, TypeOK, Stages, Writes, Reads, Sweeps, kv, counters, metadata
<1>4. CASE RetireOriginal(w)
  BY <1>4, GotoTypes
  DEF RetireOriginal, TypeOK, Stages, Writes, Reads, Sweeps, kv, r2, metadata
<1>5. CASE w \in Versions /\ StoreContent(w)
  <2>1. remaining' \in [Versions -> 0 .. Limit]
    BY <1>5, StoreAssumption DEF StoreContent, TypeOK
  <2>2. objects' \in [Versions -> Nat \cup {Never}]
    BY <1>5 DEF StoreContent, TypeOK
  <2>3. QED
    BY <1>5, <2>1, <2>2, GotoTypes
    DEF StoreContent, TypeOK, Stages, Writes, Reads, Sweeps, kv, metadata
<1>6. CASE w \in Versions /\ FailContent(w)
  <2>1. objects' \in [Versions -> Nat \cup {Never}]
    BY <1>6 DEF FailContent, TypeOK
  <2>2. QED
    BY <1>6, <2>1, GotoTypes
    DEF FailContent, TypeOK, Stages, Writes, Reads, Sweeps, kv, counters, metadata
<1>7. CASE w \in Versions /\ QueueFailed(w)
  <2>1. queue' \in [Versions -> Nat \cup {Never}]
    BY <1>7 DEF QueueFailed, Queue, TypeOK
  <2>2. QED
    BY <1>7, <2>1, GotoTypes
    DEF QueueFailed, TypeOK, Stages, Writes, Reads, Sweeps, kv, counters, metadata
<1>8. CASE AbortWrite(w)
  BY <1>8, GotoTypes
  DEF AbortWrite, TypeOK, Stages, Writes, Reads, Sweeps, kv, r2, counters, metadata
<1>9. QED
  BY <1>1, <1>2, <1>3, <1>4, <1>5, <1>6, <1>7, <1>8 DEF WriteStep

LEMMA StartTypes ==
  ASSUME TypeOK, NEW v \in Versions,
         StartWrite(v) \/ CreateUpload(v) \/ CompleteUpload(v) \/ RejectUpload(v)
  PROVE  TypeOK'
<1>. v \in Writers
  BY DEF Writers
<1>1. CASE StartWrite(v)
  <2>1. PICK original \in Versions \cup {None} :
          Begin(v, original, "preparing") /\ Prepare(v, original)
    BY <1>1, VisibleVersions DEF StartWrite
  <2>2. QED
    BY <1>1, <2>1, BeginTypes, PrepareTypes
    DEF StartWrite, TypeOK, Stages, Writes, Reads, Sweeps, kv, r2, counters
<1>2. CASE CreateUpload(v)
  BY <1>2, GotoTypes
  DEF CreateUpload, TypeOK, Stages, Writes, Reads, Sweeps, kv, r2, counters, metadata
<1>3. CASE CompleteUpload(v)
  <2>1. PICK original \in Versions \cup {None} :
          Begin(v, original, "preparing") /\ Prepare(v, original)
    BY <1>3, VisibleVersions DEF CompleteUpload
  <2>2. objects' \in [Versions -> Nat \cup {Never}]
    BY <1>3 DEF CompleteUpload, TypeOK
  <2>3. QED
    BY <1>3, <2>1, <2>2, BeginTypes, PrepareTypes
    DEF CompleteUpload, TypeOK, Stages, Writes, Reads, Sweeps, kv, counters
<1>4. CASE RejectUpload(v)
  <2>1. objects' \in [Versions -> Nat \cup {Never}]
    BY <1>4 DEF RejectUpload, TypeOK
  <2>2. QED
    BY <1>4, <2>1, GotoTypes
    DEF RejectUpload, TypeOK, Stages, Writes, Reads, Sweeps, kv, counters, metadata
<1>5. QED
  BY <1>1, <1>2, <1>3, <1>4

LEMMA DeleteTypes ==
  ASSUME TypeOK, NEW d \in Deletes, StartDelete(d)
  PROVE  TypeOK'
<1>1. d \in Writers
  BY DEF Writers
<1>2. PICK seen \in Versions \cup {None} : Begin(d, seen, "indexing")
  BY VisibleVersions DEF StartDelete
<1>3. QED
  BY <1>1, <1>2, BeginTypes
  DEF StartDelete, TypeOK, Stages, Writes, Reads, Sweeps, kv, r2, counters, metadata

LEMMA ReadTypes ==
  ASSUME TypeOK, NEW r \in Readers, FindRecord(r) \/ ReadStep(r)
  PROVE  TypeOK'
<1>1. CASE FindRecord(r)
  BY <1>1, VisibleVersions
  DEF FindRecord, TypeOK, Stages, Writes, Reads, Sweeps, kv, r2, counters, metadata
<1>2. CASE ConsumeRead(r)
  <2>1. reader' \in [Readers -> Reads]
    BY <1>2, Records DEF ConsumeRead, Reads
  <2>2. remaining' \in [Versions -> 0 .. Limit]
    BY <1>2, StoreAssumption DEF ConsumeRead, TypeOK, ReadsLeft
  <2>3. QED
    BY <1>2, <2>1, <2>2
    DEF ConsumeRead, TypeOK, Stages, Writes, Reads, Sweeps, kv, r2, metadata
<1>3. CASE OpenBody(r)
  <2>1. reader' \in [Readers -> Reads]
    BY <1>3, Records DEF OpenBody, Reads
  <2>2. QED
    BY <1>3, <2>1
    DEF OpenBody, TypeOK, Stages, Writes, Reads, Sweeps, kv, r2, counters, metadata
<1>4. CASE CleanupVersion(r)
  <2>1. reader' \in [Readers -> Reads]
    BY <1>4, Records DEF CleanupVersion, Reads
  <2>2. objects' \in [Versions -> Nat \cup {Never}]
    BY <1>4 DEF CleanupVersion, TypeOK
  <2>3. QED
    BY <1>4, <2>1, <2>2
    DEF CleanupVersion, TypeOK, Stages, Writes, Reads, Sweeps, kv, counters, metadata
<1>5. QED
  BY <1>1, <1>2, <1>3, <1>4 DEF ReadStep

LEMMA SweepTypes ==
  ASSUME TypeOK, SweepStep \/ AbortSweep
  PROVE  TypeOK'
<1>1. CASE SweepQueue
  BY <1>1 DEF SweepQueue, TypeOK, Stages, Writes, Reads, Sweeps, kv, r2, counters, metadata
<1>2. ASSUME NEW v \in Versions, LookupQueued(v)
      PROVE  TypeOK'
  <2>1. sweep' \in Sweeps
    <3>1. PICK doomed \in SUBSET Versions :
            sweep' = [sweep EXCEPT !.todo = sweep.todo \ {v}, !.doomed = doomed]
      BY <1>2, Records DEF LookupQueued, Sweeps
    <3>2. QED
      BY <3>1, Records DEF Sweeps
  <2>2. QED
    BY <1>2, <2>1
    DEF LookupQueued, TypeOK, Stages, Writes, Reads, Sweeps, kv, r2, counters, metadata
<1>3. ASSUME NEW v \in Versions, DeleteQueued(v)
      PROVE  TypeOK'
  <2>1. sweep' \in Sweeps
    BY <1>3, Records DEF DeleteQueued, Sweeps
  <2>2. /\ objects' \in [Versions -> Nat \cup {Never}]
        /\ queue' \in [Versions -> Nat \cup {Never}]
    BY <1>3 DEF DeleteQueued, TypeOK
  <2>3. QED
    BY <1>3, <2>1, <2>2
    DEF DeleteQueued, TypeOK, Stages, Writes, Reads, Sweeps, kv, counters, metadata
<1>4. ASSUME NEW v \in Versions, LookupScanned(v)
      PROVE  TypeOK'
  <2>1. sweep' \in Sweeps
    <3>1. PICK doomed \in SUBSET Versions :
            sweep' = [sweep EXCEPT !.todo = sweep.todo \ {v}, !.doomed = doomed]
      BY <1>4, Records DEF LookupScanned, Sweeps
    <3>2. QED
      BY <3>1, Records DEF Sweeps
  <2>2. QED
    BY <1>4, <2>1
    DEF LookupScanned, TypeOK, Stages, Writes, Reads, Sweeps, kv, r2, counters, metadata
<1>5. CASE SweepBucket
  BY <1>5 DEF SweepBucket, TypeOK, Stages, Writes, Reads, Sweeps, kv, r2, counters, metadata
<1>6. CASE DeleteScanned
  BY <1>6
  DEF DeleteScanned, NoSweep, TypeOK, Stages, Writes, Reads, Sweeps, kv, counters,
      metadata
<1>7. CASE AbortSweep
  <2>1. objects' \in [Versions -> Nat \cup {Never}]
    BY <1>7 DEF AbortSweep, TypeOK
  <2>2. QED
    BY <1>7, <2>1
    DEF AbortSweep, NoSweep, TypeOK, Stages, Writes, Reads, Sweeps, kv, counters, metadata
<1>8. QED
  BY <1>1, <1>2, <1>3, <1>4, <1>5, <1>6, <1>7 DEF SweepStep

LEMMA TickTypes ==
  ASSUME TypeOK, Tick
  PROVE  TypeOK'
BY StoreAssumption DEF Tick, TypeOK, Stages, Writes, Reads, Sweeps, r2, counters, metadata

\* Every step keeps the types.
LEMMA NextTypes ==
  ASSUME TypeOK, [Next]_vars
  PROVE  TypeOK'
<1>1. CASE UNCHANGED vars
  BY <1>1 DEF vars, kv, r2, counters, metadata, TypeOK
<1>2. CASE Next
  BY <1>2, StartTypes, DeleteTypes, WriteTypes, ReadTypes, SweepTypes, TickTypes
  DEF Next, Step
<1>3. QED
  BY <1>1, <1>2

\* The services and the requests hold what they may hold, for any number of
\* requests and every grace period, staleness and request time.
THEOREM StoreIsTyped == Spec => []TypeOK
BY InitTypes, NextTypes, PTL DEF Spec
-----------------------------------------------------------------------------
(* The live version keeps its body and its counter.                        *)

\* The types, one by one.
LEMMA Numbers ==
  ASSUME TypeOK
  PROVE  /\ now \in Nat /\ sweep.at \in Nat
         /\ index \in Versions \cup {None}
         /\ Versions \subseteq Writers /\ None \notin Writers
         /\ Direct \subseteq Versions /\ Multipart \subseteq Versions
         /\ Limited \subseteq Versions
         /\ retired \subseteq Versions
         /\ sweep.todo \subseteq Versions /\ sweep.doomed \subseteq Versions
         /\ \A v \in Versions : /\ expiresAt[v] \in Nat /\ remaining[v] \in Nat
                               /\ queue[v] \in Int /\ objects[v] \in Int
         /\ \A w \in Writers : writer[w].since \in Nat /\ writer[w].original \in Versions \cup {None}
         /\ \A r \in Readers : reader[r].since \in Nat
         /\ \A old \in stale : old.until \in Nat
BY StoreAssumption DEF TypeOK, Versions, Writers, Never

LEMMA InitLive == Init => LiveInv
BY StoreAssumption
DEF Init, LiveInv, Timed, FreshIsUnknown, FreshObject, OriginalIsReplaced,
    QueuedIndexIsSettled, UploadedIndexIsSettled, ReapingIsDead, SweepIsSound,
    RetiredIsReplaced, LiveObjectPresent, Idle, NoSweep, Never, Fresh, Underway,
    Versions, Writers

\* When the sweep looks up a queued version, the grace period of its entry is over
\* and no location serves what the index replaced.
LEMMA SettledQueue ==
  ASSUME TypeOK, LiveInv, sweep.phase = "queue", index \in sweep.todo
  PROVE  stale = {}
<1>1. index \in Versions /\ index # None
  BY StoreAssumption DEF TypeOK, Writers
<1>2. /\ queue[index] # Never /\ queue[index] + Grace <= sweep.at
      /\ \A old \in stale : old.until <= queue[index] + Staleness
  BY <1>1 DEF LiveInv, SweepIsSound, QueuedIndexIsSettled
<1>3. queue[index] \in Nat /\ now \in Nat /\ sweep.at \in Nat /\ \A old \in stale : old.until \in Nat
  BY <1>1, <1>2 DEF TypeOK
<1>4. sweep.at <= now /\ \A old \in stale : now <= old.until
  BY DEF LiveInv, Timed
<1>5. \A old \in stale : FALSE
  BY <1>2, <1>3, <1>4, StoreAssumption, GraceAssumption
<1>6. QED
  BY <1>5

\* So it is when it looks up an upload, which was put soon after it was completed.
LEMMA SettledUpload ==
  ASSUME TypeOK, LiveInv, sweep.phase = "bucket", index \in sweep.todo, index \in Multipart
  PROVE  stale = {}
<1>1. index \in Writers /\ index \in Versions
  BY DEF Writers, Versions
<1>2. /\ writer[index].since + Grace <= sweep.at
      /\ \A old \in stale : old.until <= writer[index].since + RequestSpan + Staleness
  BY DEF LiveInv, SweepIsSound, UploadedIndexIsSettled
<1>3. writer[index].since \in Nat /\ now \in Nat /\ sweep.at \in Nat /\ \A old \in stale : old.until \in Nat
  BY <1>1 DEF TypeOK
<1>4. sweep.at <= now /\ \A old \in stale : now <= old.until
  BY DEF LiveInv, Timed
<1>5. \A old \in stale : FALSE
  BY <1>2, <1>3, <1>4, StoreAssumption, GraceAssumption
<1>6. QED
  BY <1>5

\* The object of a request that did not reach the index is younger than the grace.
LEMMA ScannedIsNotFresh ==
  ASSUME TypeOK, LiveInv, NEW v \in Versions, InBucketScan(v)
  PROVE  ~Fresh(v)
<1>1. SUFFICES ASSUME Fresh(v)
               PROVE  FALSE
  OBVIOUS
<1>2. v \in Writers /\ now \in Nat /\ sweep.at \in Nat /\ writer[v].since \in Nat
  BY DEF TypeOK, Writers
<1>3. objects[v] \in Nat /\ objects[v] + Grace <= sweep.at
  BY StoreAssumption DEF InBucketScan, TypeOK
<1>4. writer[v].since <= objects[v] /\ Underway(v)
  BY <1>1, <1>3 DEF LiveInv, FreshObject, Fresh, Underway, Never, InBucketScan
<1>5. now <= writer[v].since + RequestSpan /\ sweep.at <= now
  BY <1>2, <1>4 DEF LiveInv, Timed
<1>6. QED
  BY <1>2, <1>3, <1>4, <1>5, StoreAssumption, GraceAssumption

\* A write or a complete-upload request begins: its version is prepared.
LEMMA LaunchLive ==
  ASSUME TypeOK, LiveInv, NEW v \in Versions, NEW original \in Lookup \cup {None},
         writer[v].pc \in {"idle", "creating", "updating"},
         Begin(v, original, "preparing"), Prepare(v, original),
         \/ v \notin Multipart /\ UNCHANGED objects
         \/ objects' = [objects EXCEPT ![v] = now],
         UNCHANGED <<now, kv, queue, counters, reader, sweep>>
  PROVE  LiveInv'
<1>. USE DEF LiveInv
<1>1. v \in Writers /\ Fresh(v) /\ now \in Nat /\ v # None
  BY StoreAssumption DEF Writers, Fresh, TypeOK
<1>2. /\ writer'[v].pc = "preparing" /\ writer'[v].original = original
      /\ writer'[v].since = now
      /\ \A x \in Writers : x # v => writer'[x] = writer[x]
  BY <1>1, BeginMoves
<1>3. /\ \A u \in Versions : u # v => /\ expiresAt'[u] = expiresAt[u]
                                    /\ location'[u] = location[u]
                                    /\ objects'[u] = objects[u]
      /\ objects'[v] \in {objects[v], now} /\ (v \in Multipart => objects'[v] = now)
  BY DEF Prepare, TypeOK
<1>4. original # None => original \in Visible
  BY LookupIsVisible
<1>5. /\ now' = now /\ index' = index /\ stale' = stale /\ queue' = queue
      /\ reader' = reader
      /\ sweep' = sweep /\ remaining' = remaining /\ retired' = retired
  BY DEF kv, counters
<1>6. /\ index # v /\ \A r \in Readers : reader[r].version # v
      /\ v \notin sweep.todo /\ v \notin sweep.doomed /\ v \notin Visible
  BY <1>1 DEF FreshIsUnknown, Visible
<1>7. Timed'
  BY <1>1, <1>2, <1>5, StoreAssumption DEF Timed, Underway
<1>8. FreshIsUnknown'
  <2>1. ASSUME NEW u \in Versions, Fresh(u)'
        PROVE  Fresh(u) /\ u # original
    <3>1. Fresh(u)
      BY <1>1, <1>2, <2>1 DEF Fresh, Writers
    <3>2. u \notin Visible /\ u # None
      BY <3>1, StoreAssumption DEF FreshIsUnknown, Visible, Writers
    <3>3. QED
      BY <3>1, <3>2, <1>4
  <2>2. QED
    BY <1>1, <1>2, <1>5, <2>1 DEF FreshIsUnknown
<1>9. FreshObject'
  BY <1>1, <1>2, <1>3, <1>5 DEF FreshObject, Fresh, Writers, TypeOK
<1>10. OriginalIsReplaced'
  BY <1>1, <1>2, <1>5 DEF OriginalIsReplaced, TypeOK
<1>11. QueuedIndexIsSettled'
  BY <1>1, <1>2, <1>3, <1>5, <1>6 DEF QueuedIndexIsSettled, Versions, Writers, TypeOK
<1>12. UploadedIndexIsSettled'
  BY <1>1, <1>2, <1>3, <1>5, <1>6 DEF UploadedIndexIsSettled, Versions, Writers
<1>13. ReapingIsDead'
  BY <1>1, <1>2, <1>3, <1>4, <1>5, <1>6, Numbers, StoreAssumption
  DEF ReapingIsDead, Expired, Spent
<1>14. SweepIsSound'
  BY <1>1, <1>2, <1>3, <1>5, <1>6 DEF SweepIsSound, Expired, Writers, TypeOK
<1>15. LiveObjectPresent'
  BY <1>1, <1>2, <1>3, <1>5, <1>6 DEF LiveObjectPresent, Expired, TypeOK
<1>16. RetiredIsReplaced'
  BY <1>1, <1>2, <1>3, <1>4, <1>5, <1>6 DEF RetiredIsReplaced
<1>17. QED
  BY <1>7, <1>8, <1>9, <1>10, <1>11, <1>12, <1>13, <1>14, <1>15, <1>16

\* An upload is created or will replace a paste: the store does not know of it yet.
LEMMA CreateUploadLive ==
  ASSUME TypeOK, LiveInv, NEW v \in Versions, CreateUpload(v)
  PROVE  LiveInv'
<1>. USE DEF LiveInv
<1>1. v \in Writers
  BY DEF Writers
<1>2. /\ writer'[v].pc \in {"creating", "updating"}
      /\ writer'[v].original = writer[v].original /\ writer'[v].since = writer[v].since
      /\ \A x \in Writers : x # v => writer'[x] = writer[x]
  BY <1>1, GotoMoves DEF CreateUpload
<1>3. /\ now' = now /\ index' = index /\ stale' = stale /\ queue' = queue
      /\ objects' = objects /\ remaining' = remaining
      /\ retired' = retired /\ location' = location /\ expiresAt' = expiresAt
      /\ reader' = reader /\ sweep' = sweep
  BY DEF CreateUpload, kv, r2, counters, metadata
<1>4. writer[v].pc = "idle"
  BY DEF CreateUpload
<1>5. Timed'
  BY <1>1, <1>2, <1>3, <1>4, Numbers, StoreAssumption DEF Timed, Underway
<1>6. FreshIsUnknown'
  BY <1>1, <1>2, <1>3, <1>4, Numbers, StoreAssumption DEF FreshIsUnknown, Fresh
<1>7. FreshObject'
  BY <1>1, <1>2, <1>3, <1>4, Numbers, StoreAssumption DEF FreshObject, Fresh
<1>8. OriginalIsReplaced'
  BY <1>1, <1>2, <1>3, <1>4, Numbers, StoreAssumption DEF OriginalIsReplaced
<1>9. QueuedIndexIsSettled'
  BY <1>1, <1>2, <1>3, <1>4, Numbers, StoreAssumption DEF QueuedIndexIsSettled
<1>10. UploadedIndexIsSettled'
  BY <1>1, <1>2, <1>3, <1>4, Numbers, StoreAssumption DEF UploadedIndexIsSettled
<1>11. SweepIsSound'
  BY <1>1, <1>2, <1>3, <1>4, Numbers, StoreAssumption DEF SweepIsSound, Expired
<1>12. ReapingIsDead' /\ RetiredIsReplaced' /\ LiveObjectPresent'
  BY <1>1, <1>2, <1>3, <1>4
  DEF ReapingIsDead, Expired, Spent, RetiredIsReplaced, LiveObjectPresent
<1>13. QED
  BY <1>5, <1>6, <1>7, <1>8, <1>9, <1>10, <1>11, <1>12

\* A rejected upload was never known; its object may stay.
LEMMA RejectUploadLive ==
  ASSUME TypeOK, LiveInv, NEW v \in Versions, RejectUpload(v)
  PROVE  LiveInv'
<1>. USE DEF LiveInv
<1>1. v \in Writers
  BY DEF Writers
<1>2. /\ writer'[v].pc = "done"
      /\ writer'[v].original = writer[v].original /\ writer'[v].since = writer[v].since
      /\ \A x \in Writers : x # v => writer'[x] = writer[x]
  BY <1>1, GotoMoves DEF RejectUpload
<1>3. /\ now' = now /\ index' = index /\ stale' = stale /\ queue' = queue
      /\ remaining' = remaining /\ retired' = retired
      /\ location' = location /\ expiresAt' = expiresAt /\ reader' = reader
      /\ sweep' = sweep
  BY DEF RejectUpload, kv, r2, counters, metadata
<1>4. /\ Fresh(v) /\ objects'[v] \in {objects[v], now}
      /\ \A u \in Versions : u # v => objects'[u] = objects[u]
  BY DEF RejectUpload, Fresh, TypeOK
<1>5. index # v
  BY <1>4 DEF FreshIsUnknown
<1>6. Timed'
  BY <1>1, <1>2, <1>3, <1>4, <1>5, Numbers, StoreAssumption DEF Timed, Underway
<1>7. FreshIsUnknown'
  BY <1>1, <1>2, <1>3, <1>4, <1>5, Numbers, StoreAssumption DEF FreshIsUnknown, Fresh
<1>8. FreshObject'
  BY <1>1, <1>2, <1>3, <1>4, <1>5, Numbers, StoreAssumption DEF FreshObject, Fresh
<1>9. OriginalIsReplaced'
  BY <1>1, <1>2, <1>3, <1>4, <1>5, Numbers, StoreAssumption DEF OriginalIsReplaced
<1>10. QueuedIndexIsSettled'
  BY <1>1, <1>2, <1>3, <1>4, <1>5, Numbers, StoreAssumption DEF QueuedIndexIsSettled
<1>11. UploadedIndexIsSettled'
  BY <1>1, <1>2, <1>3, <1>4, <1>5, Numbers, StoreAssumption DEF UploadedIndexIsSettled
<1>12. SweepIsSound'
  BY <1>1, <1>2, <1>3, <1>4, <1>5, Numbers, StoreAssumption DEF SweepIsSound, Expired
<1>13. LiveObjectPresent'
  BY <1>1, <1>2, <1>3, <1>4, <1>5, Numbers, StoreAssumption DEF LiveObjectPresent, Expired
<1>14. ReapingIsDead' /\ RetiredIsReplaced'
  BY <1>1, <1>2, <1>3, <1>4, <1>5 DEF ReapingIsDead, Expired, Spent, RetiredIsReplaced
<1>15. QED
  BY <1>6, <1>7, <1>8, <1>9, <1>10, <1>11, <1>12, <1>13, <1>14

\* A delete begins with the version it found.
LEMMA StartDeleteLive ==
  ASSUME TypeOK, LiveInv, NEW d \in Deletes, StartDelete(d)
  PROVE  LiveInv'
<1>. USE DEF LiveInv
<1>1. d \in Writers /\ d \notin Versions /\ now \in Nat
  BY StoreAssumption DEF Writers, TypeOK
<1>2. PICK seen \in Lookup : seen # None /\ Begin(d, seen, "indexing")
  BY DEF StartDelete, Usable
<1>3. /\ writer'[d].pc = "indexing" /\ writer'[d].original = seen /\ writer'[d].since = now
      /\ \A x \in Writers : x # d => writer'[x] = writer[x]
  BY <1>1, <1>2, BeginMoves
<1>4. /\ now' = now /\ index' = index /\ stale' = stale /\ queue' = queue
      /\ objects' = objects /\ remaining' = remaining
      /\ retired' = retired /\ location' = location /\ expiresAt' = expiresAt
      /\ reader' = reader /\ sweep' = sweep
  BY DEF StartDelete, kv, r2, counters, metadata
<1>5. \A u \in Versions : Fresh(u) => seen # u
  BY <1>2, LookupIsVisible DEF FreshIsUnknown, Visible
<1>6. Timed'
  BY <1>1, <1>2, <1>3, <1>4, <1>5, Numbers, StoreAssumption DEF Timed, Underway
<1>7. FreshIsUnknown'
  BY <1>1, <1>2, <1>3, <1>4, <1>5, Numbers, StoreAssumption DEF FreshIsUnknown, Fresh
<1>8. FreshObject'
  BY <1>1, <1>2, <1>3, <1>4, <1>5, Numbers, StoreAssumption DEF FreshObject, Fresh
<1>9. OriginalIsReplaced'
  BY <1>1, <1>2, <1>3, <1>4, <1>5, Numbers, StoreAssumption DEF OriginalIsReplaced
<1>10. QueuedIndexIsSettled'
  BY <1>1, <1>2, <1>3, <1>4, <1>5, Numbers, StoreAssumption DEF QueuedIndexIsSettled
<1>11. UploadedIndexIsSettled'
  BY <1>1, <1>2, <1>3, <1>4, <1>5, Numbers, StoreAssumption DEF UploadedIndexIsSettled
<1>12. SweepIsSound'
  BY <1>1, <1>2, <1>3, <1>4, <1>5, Numbers, StoreAssumption DEF SweepIsSound, Expired
<1>13. ReapingIsDead' /\ RetiredIsReplaced' /\ LiveObjectPresent'
  BY <1>1, <1>2, <1>3, <1>4, <1>5
  DEF ReapingIsDead, Expired, Spent, RetiredIsReplaced, LiveObjectPresent
<1>14. QED
  BY <1>6, <1>7, <1>8, <1>9, <1>10, <1>11, <1>12, <1>13

\* The counter starts before the index is put, and the object is stored.
LEMMA StoreContentLive ==
  ASSUME TypeOK, LiveInv, NEW v \in Versions, StoreContent(v)
  PROVE  LiveInv'
<1>. USE DEF LiveInv
<1>1. v \in Writers
  BY DEF Writers
<1>2. /\ writer'[v].pc = "indexing"
      /\ writer'[v].original = writer[v].original /\ writer'[v].since = writer[v].since
      /\ \A x \in Writers : x # v => writer'[x] = writer[x]
  BY <1>1, GotoMoves DEF StoreContent
<1>3. /\ now' = now /\ index' = index /\ stale' = stale /\ queue' = queue
      /\ retired' = retired /\ location' = location
      /\ expiresAt' = expiresAt /\ reader' = reader /\ sweep' = sweep
  BY DEF StoreContent, kv, r2, counters, metadata
<1>4. /\ Fresh(v) /\ writer[v].pc = "preparing"
      /\ \A u \in Versions : u # v => objects'[u] = objects[u] /\ remaining'[u] = remaining[u]
      /\ objects'[v] = IF v \in Direct /\ location[v] = "R2" THEN now ELSE objects[v]
  BY DEF StoreContent, Fresh, TypeOK
<1>5. /\ index # v /\ \A r \in Readers : reader[r].version # v
  BY <1>4 DEF FreshIsUnknown
<1>6. /\ writer[v].since <= now
      /\ v \in Multipart => v \notin Direct /\ objects[v] = writer[v].since
  BY <1>1, <1>4, StoreAssumption DEF Timed, Underway, FreshObject
<1>7. v \in Multipart \/ v \in Direct
  BY DEF Versions
<1>8. Timed'
  BY <1>1, <1>2, <1>3, <1>4, <1>5, <1>6, <1>7, Numbers, StoreAssumption DEF Timed, Underway
<1>9. FreshIsUnknown'
  BY <1>1, <1>2, <1>3, <1>4, <1>5, <1>6, <1>7, Numbers, StoreAssumption
  DEF FreshIsUnknown, Fresh
<1>10. FreshObject'
  BY <1>1, <1>2, <1>3, <1>4, <1>6, <1>7, Numbers DEF FreshObject, Fresh, Never
<1>11. OriginalIsReplaced'
  BY <1>1, <1>2, <1>3, <1>4, <1>5, <1>6, <1>7, Numbers, StoreAssumption
  DEF OriginalIsReplaced
<1>12. QueuedIndexIsSettled'
  BY <1>1, <1>2, <1>3, <1>4, <1>5, <1>6, <1>7, Numbers, StoreAssumption
  DEF QueuedIndexIsSettled
<1>13. UploadedIndexIsSettled'
  BY <1>1, <1>2, <1>3, <1>4, <1>5, <1>6, <1>7, Numbers, StoreAssumption
  DEF UploadedIndexIsSettled
<1>14. ReapingIsDead'
  BY <1>1, <1>2, <1>3, <1>4, <1>5, <1>6, <1>7, Numbers, StoreAssumption
  DEF ReapingIsDead, Expired, Spent
<1>15. SweepIsSound'
  BY <1>1, <1>2, <1>3, <1>4, <1>5, <1>6, <1>7, Numbers, StoreAssumption
  DEF SweepIsSound, Expired
<1>16. LiveObjectPresent'
  BY <1>1, <1>2, <1>3, <1>4, <1>5, <1>6, <1>7, Numbers, StoreAssumption
  DEF LiveObjectPresent, Expired
<1>17. RetiredIsReplaced'
  BY <1>1, <1>2, <1>3, <1>4, <1>5, <1>6, <1>7 DEF RetiredIsReplaced
<1>18. QED
  BY <1>8, <1>9, <1>10, <1>11, <1>12, <1>13, <1>14, <1>15, <1>16, <1>17

\* A failed write leaves an object that nobody knows of.
LEMMA FailContentLive ==
  ASSUME TypeOK, LiveInv, NEW v \in Versions, FailContent(v)
  PROVE  LiveInv'
<1>. USE DEF LiveInv
<1>1. v \in Writers
  BY DEF Writers
<1>2. /\ writer'[v].pc = "failed"
      /\ writer'[v].original = writer[v].original /\ writer'[v].since = writer[v].since
      /\ \A x \in Writers : x # v => writer'[x] = writer[x]
  BY <1>1, GotoMoves DEF FailContent
<1>3. /\ now' = now /\ index' = index /\ stale' = stale /\ queue' = queue
      /\ remaining' = remaining /\ retired' = retired
      /\ location' = location /\ expiresAt' = expiresAt /\ reader' = reader
      /\ sweep' = sweep
  BY DEF FailContent, kv, r2, counters, metadata
<1>4. /\ Fresh(v) /\ objects'[v] \in {objects[v], now}
      /\ \A u \in Versions : u # v => objects'[u] = objects[u]
  BY DEF FailContent, Fresh, TypeOK
<1>5. Underway(v)
  BY DEF FailContent, Underway
<1>6. index # v
  BY <1>4 DEF FreshIsUnknown
<1>7. Timed'
  BY <1>1, <1>2, <1>3, <1>4, <1>5, <1>6, Numbers, StoreAssumption DEF Timed, Underway
<1>8. FreshIsUnknown'
  BY <1>1, <1>2, <1>3, <1>4, <1>5, <1>6, Numbers, StoreAssumption DEF FreshIsUnknown, Fresh
<1>9. FreshObject'
  BY <1>1, <1>2, <1>3, <1>4, <1>5, <1>6, Numbers, StoreAssumption DEF FreshObject, Fresh
<1>10. OriginalIsReplaced'
  BY <1>1, <1>2, <1>3, <1>4, <1>5, <1>6, Numbers, StoreAssumption DEF OriginalIsReplaced
<1>11. QueuedIndexIsSettled'
  BY <1>1, <1>2, <1>3, <1>4, <1>5, <1>6, Numbers, StoreAssumption DEF QueuedIndexIsSettled
<1>12. UploadedIndexIsSettled'
  BY <1>1, <1>2, <1>3, <1>4, <1>5, <1>6, Numbers, StoreAssumption DEF UploadedIndexIsSettled
<1>13. SweepIsSound'
  BY <1>1, <1>2, <1>3, <1>4, <1>5, <1>6, Numbers, StoreAssumption DEF SweepIsSound, Expired
<1>14. LiveObjectPresent'
  BY <1>1, <1>2, <1>3, <1>4, <1>5, <1>6, Numbers, StoreAssumption
  DEF LiveObjectPresent, Expired
<1>15. ReapingIsDead' /\ RetiredIsReplaced'
  BY <1>1, <1>2, <1>3, <1>4, <1>5, <1>6 DEF ReapingIsDead, Expired, Spent, RetiredIsReplaced
<1>16. QED
  BY <1>7, <1>8, <1>9, <1>10, <1>11, <1>12, <1>13, <1>14, <1>15

\* A request ends or fails without another call.
LEMMA StopLive ==
  ASSUME TypeOK, LiveInv, NEW w \in Writers, NEW pc \in {"failed", "done"}, Goto(w, pc),
         pc = "failed" => writer[w].pc = "indexing",
         UNCHANGED <<now, kv, r2, counters, metadata, reader, sweep>>
  PROVE  LiveInv'
<1>. USE DEF LiveInv
<1>1. /\ writer'[w].pc = pc
      /\ writer'[w].original = writer[w].original /\ writer'[w].since = writer[w].since
      /\ \A x \in Writers : x # w => writer'[x] = writer[x]
  BY GotoMoves
<1>2. /\ now' = now /\ index' = index /\ stale' = stale /\ queue' = queue
      /\ objects' = objects /\ remaining' = remaining
      /\ retired' = retired /\ location' = location /\ expiresAt' = expiresAt
      /\ reader' = reader /\ sweep' = sweep
  BY DEF kv, r2, counters, metadata
<1>3. Versions \subseteq Writers
  BY DEF Writers
<1>4. Timed'
  BY <1>1, <1>2, <1>3, Numbers, StoreAssumption DEF Timed, Underway
<1>5. FreshIsUnknown'
  BY <1>1, <1>2, <1>3, Numbers, StoreAssumption DEF FreshIsUnknown, Fresh
<1>6. FreshObject'
  BY <1>1, <1>2, <1>3, Numbers, StoreAssumption DEF FreshObject, Fresh
<1>7. OriginalIsReplaced'
  BY <1>1, <1>2, <1>3, Numbers, StoreAssumption DEF OriginalIsReplaced
<1>8. QueuedIndexIsSettled'
  BY <1>1, <1>2, <1>3, Numbers, StoreAssumption DEF QueuedIndexIsSettled
<1>9. UploadedIndexIsSettled'
  BY <1>1, <1>2, <1>3, Numbers, StoreAssumption DEF UploadedIndexIsSettled
<1>10. SweepIsSound'
  BY <1>1, <1>2, <1>3, Numbers, StoreAssumption DEF SweepIsSound, Expired
<1>11. ReapingIsDead' /\ RetiredIsReplaced' /\ LiveObjectPresent'
  BY <1>1, <1>2, <1>3
  DEF ReapingIsDead, Expired, Spent, RetiredIsReplaced, LiveObjectPresent
<1>12. QED
  BY <1>4, <1>5, <1>6, <1>7, <1>8, <1>9, <1>10, <1>11

\* The index is put for a version that nobody knew, or deleted.
LEMMA PutLive ==
  ASSUME TypeOK, LiveInv, NEW w \in Writers, NEW pc \in {"failed", "queueing", "done"},
         writer[w].pc = "indexing", SetIndex(IF w \in Versions THEN w ELSE None), Goto(w, pc),
         pc = "queueing" => writer[w].original # None,
         UNCHANGED <<now, r2, counters, metadata, reader, sweep>>
  PROVE  LiveInv'
<1>. USE DEF LiveInv
<1>1. /\ writer'[w].pc = pc
      /\ writer'[w].original = writer[w].original /\ writer'[w].since = writer[w].since
      /\ \A x \in Writers : x # w => writer'[x] = writer[x]
  BY GotoMoves
<1>2. /\ now' = now /\ queue' = queue /\ objects' = objects /\ remaining' = remaining
      /\ retired' = retired /\ location' = location
      /\ expiresAt' = expiresAt /\ reader' = reader /\ sweep' = sweep
  BY DEF kv, r2, counters, metadata
<1>3. Versions \subseteq Writers /\ None \notin Versions /\ now \in Nat
  BY StoreAssumption DEF Writers, TypeOK
<1>4. /\ index' = (IF w \in Versions THEN w ELSE None)
      /\ stale' = stale \cup {[version |-> index, until |-> now + Staleness]}
  BY DEF SetIndex
<1>5. Underway(w)
  BY DEF Underway
<1>6. w \in Versions =>
        /\ queue[w] = Never /\ w \notin retired /\ w \notin sweep.todo
        /\ w \notin sweep.doomed
        /\ \A x \in Writers : writer[x].original # w
  BY <1>3 DEF FreshIsUnknown, Fresh
<1>7. /\ w \in Multipart => objects[w] = writer[w].since
      /\ w \in Versions /\ location[w] = "R2" => objects[w] # Never
  BY Numbers DEF FreshObject
<1>8. /\ now <= writer[w].since + RequestSpan
      /\ \A old \in stale' : old.until <= now + Staleness
  BY <1>4, <1>5, Numbers, StoreAssumption DEF Timed
<1>9. Timed'
  BY <1>1, <1>2, <1>3, <1>4, <1>5, <1>6, <1>7, <1>8, Numbers, StoreAssumption
  DEF Timed, Underway
<1>10. FreshIsUnknown'
  BY <1>1, <1>2, <1>3, <1>4, <1>5, <1>6, <1>7, <1>8, Numbers, StoreAssumption
  DEF FreshIsUnknown, Fresh
<1>11. FreshObject'
  BY <1>1, <1>2, <1>3, <1>4, <1>5, <1>6, <1>7, <1>8, Numbers, StoreAssumption
  DEF FreshObject, Fresh
<1>12. OriginalIsReplaced'
  BY <1>1, <1>2, <1>3, <1>4, <1>5, <1>6, <1>7, <1>8, Numbers, StoreAssumption
  DEF OriginalIsReplaced
<1>13. QueuedIndexIsSettled'
  BY <1>1, <1>2, <1>3, <1>4, <1>5, <1>6, <1>7, <1>8, Numbers, StoreAssumption
  DEF QueuedIndexIsSettled
<1>14. UploadedIndexIsSettled'
  BY <1>1, <1>2, <1>3, <1>4, <1>5, <1>6, <1>7, <1>8, Numbers, StoreAssumption
  DEF UploadedIndexIsSettled
<1>15. SweepIsSound'
  BY <1>1, <1>2, <1>3, <1>4, <1>5, <1>6, <1>7, <1>8, Numbers, StoreAssumption
  DEF SweepIsSound, Expired
<1>16. RetiredIsReplaced'
  BY <1>1, <1>2, <1>3, <1>4, <1>5, <1>6, <1>7, <1>8, Numbers, StoreAssumption
  DEF RetiredIsReplaced
<1>17. LiveObjectPresent'
  BY <1>1, <1>2, <1>3, <1>4, <1>5, <1>6, <1>7, <1>8, Numbers, StoreAssumption
  DEF LiveObjectPresent, Expired
<1>18. ReapingIsDead'
  BY <1>1, <1>2, <1>3, <1>4, <1>5, <1>6, <1>7, <1>8 DEF ReapingIsDead, Expired, Spent
<1>19. QED
  BY <1>9, <1>10, <1>11, <1>12, <1>13, <1>14, <1>15, <1>16, <1>17, <1>18

\* A failed write queues its own version, which the index names only if the put was
\* stored.
LEMMA QueueFailedLive ==
  ASSUME TypeOK, LiveInv, NEW v \in Versions, QueueFailed(v)
  PROVE  LiveInv'
<1>. USE DEF LiveInv
<1>1. v \in Writers
  BY DEF Writers
<1>2. /\ writer'[v].pc = "done"
      /\ writer'[v].original = writer[v].original /\ writer'[v].since = writer[v].since
      /\ \A x \in Writers : x # v => writer'[x] = writer[x]
  BY <1>1, GotoMoves DEF QueueFailed
<1>3. /\ now' = now /\ index' = index /\ stale' = stale /\ objects' = objects
      /\ remaining' = remaining /\ retired' = retired
      /\ location' = location /\ expiresAt' = expiresAt /\ reader' = reader
      /\ sweep' = sweep
  BY DEF QueueFailed, kv, r2, counters, metadata
<1>4. /\ ~Fresh(v) /\ queue'[v] \in {queue[v], now} /\ now \in Nat
      /\ \A u \in Versions : u # v => queue'[u] = queue[u]
  BY DEF QueueFailed, Queue, Fresh, TypeOK
<1>5. writer[v].pc = "failed" /\ \A old \in stale : old.until <= now + Staleness
  BY DEF QueueFailed, Timed
<1>6. index = v /\ sweep.phase = "queue" => v \notin sweep.todo
  BY <1>5, Numbers DEF SweepIsSound, QueuedIndexIsSettled
<1>7. Timed'
  BY <1>1, <1>2, <1>3, <1>4, <1>5, <1>6, Numbers, StoreAssumption DEF Timed, Underway
<1>8. FreshIsUnknown'
  BY <1>1, <1>2, <1>3, <1>4, <1>5, <1>6, Numbers, StoreAssumption DEF FreshIsUnknown, Fresh
<1>9. FreshObject'
  BY <1>1, <1>2, <1>3, <1>4, <1>5, <1>6, Numbers, StoreAssumption DEF FreshObject, Fresh
<1>10. OriginalIsReplaced'
  BY <1>1, <1>2, <1>3, <1>4, <1>5, <1>6, Numbers, StoreAssumption DEF OriginalIsReplaced
<1>11. QueuedIndexIsSettled'
  BY <1>1, <1>2, <1>3, <1>4, <1>5, <1>6, Numbers, StoreAssumption DEF QueuedIndexIsSettled
<1>12. UploadedIndexIsSettled'
  BY <1>1, <1>2, <1>3, <1>4, <1>5, <1>6, Numbers, StoreAssumption DEF UploadedIndexIsSettled
<1>13. SweepIsSound'
  BY <1>1, <1>2, <1>3, <1>4, <1>5, <1>6, Numbers, StoreAssumption DEF SweepIsSound, Expired
<1>14. ReapingIsDead' /\ RetiredIsReplaced' /\ LiveObjectPresent'
  BY <1>1, <1>2, <1>3, <1>4, <1>5, <1>6
  DEF ReapingIsDead, Expired, Spent, RetiredIsReplaced, LiveObjectPresent
<1>15. QED
  BY <1>7, <1>8, <1>9, <1>10, <1>11, <1>12, <1>13, <1>14

\* A write queues the version it replaced, which the index does not name.
LEMMA QueueOriginalLive ==
  ASSUME TypeOK, LiveInv, NEW w \in Writers, QueueOriginal(w)
  PROVE  LiveInv'
<1>. USE DEF LiveInv
<1>1. /\ writer'[w].pc = "retiring"
      /\ writer'[w].original = writer[w].original /\ writer'[w].since = writer[w].since
      /\ \A x \in Writers : x # w => writer'[x] = writer[x]
  BY GotoMoves DEF QueueOriginal
<1>2. /\ now' = now /\ index' = index /\ stale' = stale /\ objects' = objects
      /\ remaining' = remaining /\ retired' = retired
      /\ location' = location /\ expiresAt' = expiresAt /\ reader' = reader
      /\ sweep' = sweep
  BY DEF QueueOriginal, kv, r2, counters, metadata
<1>3. /\ writer[w].original \in Versions /\ writer[w].original # index
      /\ ~Fresh(writer[w].original)
  BY DEF QueueOriginal, OriginalIsReplaced, FreshIsUnknown
<1>4. \A u \in Versions : u # writer[w].original => queue'[u] = queue[u]
  BY DEF QueueOriginal, Queue, TypeOK
<1>5. Underway(w) /\ writer[w].pc = "queueing"
  BY DEF QueueOriginal, Underway
<1>6. Timed'
  BY <1>1, <1>2, <1>3, <1>4, <1>5, Numbers, StoreAssumption DEF Timed, Underway
<1>7. FreshIsUnknown'
  BY <1>1, <1>2, <1>3, <1>4, <1>5, Numbers, StoreAssumption DEF FreshIsUnknown, Fresh
<1>8. FreshObject'
  BY <1>1, <1>2, <1>3, <1>4, <1>5, Numbers, StoreAssumption DEF FreshObject, Fresh
<1>9. OriginalIsReplaced'
  BY <1>1, <1>2, <1>3, <1>4, <1>5, Numbers, StoreAssumption DEF OriginalIsReplaced
<1>10. QueuedIndexIsSettled'
  BY <1>1, <1>2, <1>3, <1>4, <1>5, Numbers, StoreAssumption DEF QueuedIndexIsSettled
<1>11. UploadedIndexIsSettled'
  BY <1>1, <1>2, <1>3, <1>4, <1>5, Numbers, StoreAssumption DEF UploadedIndexIsSettled
<1>12. SweepIsSound'
  BY <1>1, <1>2, <1>3, <1>4, <1>5, Numbers, StoreAssumption DEF SweepIsSound, Expired
<1>13. ReapingIsDead' /\ RetiredIsReplaced' /\ LiveObjectPresent'
  BY <1>1, <1>2, <1>3, <1>4, <1>5
  DEF ReapingIsDead, Expired, Spent, RetiredIsReplaced, LiveObjectPresent
<1>14. QED
  BY <1>6, <1>7, <1>8, <1>9, <1>10, <1>11, <1>12, <1>13

\* A write retires the counter of the version it replaced.
LEMMA RetireOriginalLive ==
  ASSUME TypeOK, LiveInv, NEW w \in Writers, RetireOriginal(w)
  PROVE  LiveInv'
<1>. USE DEF LiveInv
<1>1. /\ writer'[w].pc = "done"
      /\ writer'[w].original = writer[w].original /\ writer'[w].since = writer[w].since
      /\ \A x \in Writers : x # w => writer'[x] = writer[x]
  BY GotoMoves DEF RetireOriginal
<1>2. /\ now' = now /\ index' = index /\ stale' = stale /\ queue' = queue
      /\ objects' = objects /\ remaining' = remaining
      /\ location' = location /\ expiresAt' = expiresAt /\ reader' = reader
      /\ sweep' = sweep
  BY DEF RetireOriginal, kv, r2, counters, metadata
<1>3. /\ writer[w].original \in Versions /\ writer[w].original # index
      /\ ~Fresh(writer[w].original)
  BY DEF RetireOriginal, OriginalIsReplaced, FreshIsUnknown
<1>4. retired' \subseteq retired \cup {writer[w].original}
  BY DEF RetireOriginal
<1>5. Timed'
  BY <1>1, <1>2, <1>3, <1>4, Numbers, StoreAssumption DEF Timed, Underway
<1>6. FreshIsUnknown'
  BY <1>1, <1>2, <1>3, <1>4, Numbers, StoreAssumption DEF FreshIsUnknown, Fresh
<1>7. FreshObject'
  BY <1>1, <1>2, <1>3, <1>4, Numbers, StoreAssumption DEF FreshObject, Fresh
<1>8. OriginalIsReplaced'
  BY <1>1, <1>2, <1>3, <1>4, Numbers, StoreAssumption DEF OriginalIsReplaced
<1>9. QueuedIndexIsSettled'
  BY <1>1, <1>2, <1>3, <1>4, Numbers, StoreAssumption DEF QueuedIndexIsSettled
<1>10. UploadedIndexIsSettled'
  BY <1>1, <1>2, <1>3, <1>4, Numbers, StoreAssumption DEF UploadedIndexIsSettled
<1>11. SweepIsSound'
  BY <1>1, <1>2, <1>3, <1>4, Numbers, StoreAssumption DEF SweepIsSound, Expired
<1>12. RetiredIsReplaced'
  BY <1>1, <1>2, <1>3, <1>4, Numbers, StoreAssumption DEF RetiredIsReplaced
<1>13. ReapingIsDead' /\ LiveObjectPresent'
  BY <1>1, <1>2, <1>3, <1>4 DEF ReapingIsDead, Expired, Spent, LiveObjectPresent
<1>14. QED
  BY <1>5, <1>6, <1>7, <1>8, <1>9, <1>10, <1>11, <1>12, <1>13

\* A read finds a version, which is not fresh.
LEMMA FindRecordLive ==
  ASSUME TypeOK, LiveInv, NEW r \in Readers, FindRecord(r)
  PROVE  LiveInv'
<1>. USE DEF LiveInv
<1>1. /\ now' = now /\ index' = index /\ stale' = stale /\ queue' = queue
      /\ objects' = objects /\ remaining' = remaining
      /\ retired' = retired /\ location' = location /\ expiresAt' = expiresAt
      /\ writer' = writer /\ sweep' = sweep
  BY DEF FindRecord, kv, r2, counters, metadata
<1>2. /\ \A x \in Readers : x # r => reader'[x] = reader[x]
      /\ reader'[r].version \in Visible \ {None} /\ reader'[r].final = FALSE
      /\ reader'[r].pc = "reaping" => Expired(reader'[r].version)
      /\ reader'[r].pc \in {"found", "reaping"}
  BY DEF FindRecord, TypeOK
<1>3. Visible \subseteq Versions \cup {None}
  BY VisibleVersions
<1>4. \A u \in Versions : Fresh(u) => u \notin Visible
  BY DEF FreshIsUnknown, Visible
<1>5. FreshIsUnknown'
  BY <1>1, <1>2, <1>3, <1>4, Numbers, StoreAssumption DEF FreshIsUnknown, Fresh
<1>6. ReapingIsDead'
  BY <1>1, <1>2, <1>3, <1>4, Numbers, StoreAssumption DEF ReapingIsDead, Expired, Spent
<1>7. /\ Timed' /\ FreshObject' /\ OriginalIsReplaced' /\ QueuedIndexIsSettled'
      /\ UploadedIndexIsSettled' /\ SweepIsSound' /\ RetiredIsReplaced'
      /\ LiveObjectPresent'
  BY <1>1, <1>2, <1>3, <1>4
  DEF Timed, Underway, FreshObject, Fresh, OriginalIsReplaced, QueuedIndexIsSettled,
      UploadedIndexIsSettled, SweepIsSound, Expired, RetiredIsReplaced, LiveObjectPresent
<1>8. QED
  BY <1>5, <1>6, <1>7

\* A read is counted, and the last one is known to be the last.
LEMMA ConsumeReadLive ==
  ASSUME TypeOK, LiveInv, NEW r \in Readers, ConsumeRead(r)
  PROVE  LiveInv'
<1>. USE DEF LiveInv
<1>1. /\ now' = now /\ index' = index /\ stale' = stale /\ queue' = queue
      /\ objects' = objects /\ retired' = retired
      /\ location' = location /\ expiresAt' = expiresAt /\ writer' = writer
      /\ sweep' = sweep
  BY DEF ConsumeRead, kv, r2, counters, metadata
<1>2. /\ \A x \in Readers : x # r => reader'[x] = reader[x]
      /\ reader[r].pc = "found" /\ reader'[r].version = reader[r].version
  BY DEF ConsumeRead, TypeOK
<1>3. reader[r].version \in Versions
  BY <1>2 DEF ReapingIsDead
<1>4. \A u \in Versions : remaining'[u] <= remaining[u] /\ remaining'[u] \in Nat
  BY DEF ConsumeRead, ReadsLeft, TypeOK
<1>5. \A u \in Versions : Spent(u) => Spent(u)'
  BY <1>3, <1>4 DEF ConsumeRead, ReadsLeft, Spent, TypeOK
<1>6. reader'[r].pc \in {"admitted", "done"}
  BY DEF ConsumeRead, TypeOK
<1>7. reader'[r].pc = "admitted" /\ reader'[r].final /\ ~reader[r].final => Spent(reader[r].version)'
  BY <1>2, <1>3 DEF ConsumeRead, Spent, TypeOK
<1>8. ~reader[r].final
  BY <1>2 DEF ReapingIsDead
<1>9. FreshIsUnknown'
  BY <1>1, <1>2, <1>3, <1>4, <1>5, <1>6, <1>7, <1>8, Numbers, StoreAssumption
  DEF FreshIsUnknown, Fresh
<1>10. ReapingIsDead'
  <2>1. \A u \in Versions : Expired(u) => Expired(u)'
    BY <1>1 DEF Expired
  <2>2. QED
    BY <1>2, <1>3, <1>5, <1>6, <1>7, <1>8, <2>1 DEF ReapingIsDead
<1>11. LiveObjectPresent'
  BY <1>1, <1>2, <1>3, <1>4, <1>5, <1>6, <1>7, <1>8, Numbers, StoreAssumption
  DEF LiveObjectPresent, Expired
<1>12. /\ Timed' /\ FreshObject' /\ OriginalIsReplaced' /\ QueuedIndexIsSettled'
       /\ UploadedIndexIsSettled' /\ SweepIsSound' /\ RetiredIsReplaced'
  BY <1>1, <1>2, <1>3, <1>4, <1>5, <1>6, <1>7, <1>8
  DEF Timed, Underway, FreshObject, Fresh, OriginalIsReplaced, QueuedIndexIsSettled,
      UploadedIndexIsSettled, SweepIsSound, Expired, RetiredIsReplaced
<1>13. QED
  BY <1>9, <1>10, <1>11, <1>12

\* A read that took the last allowance goes on to clean up.
LEMMA OpenBodyLive ==
  ASSUME TypeOK, LiveInv, NEW r \in Readers, OpenBody(r)
  PROVE  LiveInv'
<1>. USE DEF LiveInv
<1>1. /\ now' = now /\ index' = index /\ stale' = stale /\ queue' = queue
      /\ objects' = objects /\ remaining' = remaining
      /\ retired' = retired /\ location' = location /\ expiresAt' = expiresAt
      /\ writer' = writer /\ sweep' = sweep
  BY DEF OpenBody, kv, r2, counters, metadata
<1>2. /\ \A x \in Readers : x # r => reader'[x] = reader[x]
      /\ reader[r].pc = "admitted" /\ reader'[r].version = reader[r].version
      /\ reader'[r].pc = "reaping" => reader[r].final
      /\ reader'[r].pc \in {"lost", "reaping", "done"}
  BY DEF OpenBody, TypeOK
<1>3. FreshIsUnknown'
  BY <1>1, <1>2, Numbers, StoreAssumption DEF FreshIsUnknown, Fresh
<1>4. ReapingIsDead'
  BY <1>1, <1>2, Numbers, StoreAssumption DEF ReapingIsDead, Expired, Spent
<1>5. /\ Timed' /\ FreshObject' /\ OriginalIsReplaced' /\ QueuedIndexIsSettled'
      /\ UploadedIndexIsSettled' /\ SweepIsSound' /\ RetiredIsReplaced'
      /\ LiveObjectPresent'
  BY <1>1, <1>2
  DEF Timed, Underway, FreshObject, Fresh, OriginalIsReplaced, QueuedIndexIsSettled,
      UploadedIndexIsSettled, SweepIsSound, Expired, RetiredIsReplaced, LiveObjectPresent
<1>6. QED
  BY <1>3, <1>4, <1>5

\* A read cleans up after a version that nobody can read.
LEMMA CleanupVersionLive ==
  ASSUME TypeOK, LiveInv, NEW r \in Readers, CleanupVersion(r)
  PROVE  LiveInv'
<1>. USE DEF LiveInv
<1>1. /\ now' = now /\ index' = index /\ stale' = stale /\ queue' = queue
      /\ remaining' = remaining /\ retired' = retired
      /\ location' = location /\ expiresAt' = expiresAt /\ writer' = writer
      /\ sweep' = sweep
  BY DEF CleanupVersion, kv, r2, counters, metadata
<1>2. /\ \A x \in Readers : x # r => reader'[x] = reader[x]
      /\ reader'[r].version = reader[r].version /\ reader'[r].pc = "done"
      /\ reader[r].pc = "reaping"
  BY DEF CleanupVersion, TypeOK
<1>3. /\ objects'[reader[r].version] = Never
      /\ \A u \in Versions : u # reader[r].version => objects'[u] = objects[u]
  BY <1>2 DEF CleanupVersion, ReapingIsDead, TypeOK
<1>4. reader[r].version \in Versions /\ ~Fresh(reader[r].version)
  BY <1>2 DEF ReapingIsDead, FreshIsUnknown
<1>5. Expired(reader[r].version) \/ Spent(reader[r].version)
  BY <1>2 DEF ReapingIsDead
<1>6. FreshIsUnknown'
  BY <1>1, <1>2, <1>3, <1>4, <1>5, Numbers, StoreAssumption DEF FreshIsUnknown, Fresh
<1>7. FreshObject'
  BY <1>1, <1>2, <1>3, <1>4, <1>5, Numbers, StoreAssumption DEF FreshObject, Fresh
<1>8. UploadedIndexIsSettled'
  BY <1>1, <1>2, <1>3, <1>4, <1>5, Numbers, StoreAssumption DEF UploadedIndexIsSettled
<1>9. ReapingIsDead'
  BY <1>1, <1>2, <1>3, <1>4, <1>5, Numbers, StoreAssumption
  DEF ReapingIsDead, Expired, Spent
<1>10. LiveObjectPresent'
  BY <1>1, <1>3, <1>4, <1>5, Numbers DEF LiveObjectPresent, Expired, Spent
<1>11. /\ Timed' /\ OriginalIsReplaced' /\ QueuedIndexIsSettled' /\ SweepIsSound'
       /\ RetiredIsReplaced'
  BY <1>1, <1>2, <1>3, <1>4, <1>5
  DEF Timed, Underway, OriginalIsReplaced, QueuedIndexIsSettled, SweepIsSound, Expired,
      RetiredIsReplaced
<1>12. QED
  BY <1>6, <1>7, <1>8, <1>9, <1>10, <1>11

\* The queue phase takes the entries whose grace period is over.
LEMMA SweepQueueLive ==
  ASSUME TypeOK, LiveInv, SweepQueue
  PROVE  LiveInv'
<1>. USE DEF LiveInv
<1>1. /\ now' = now /\ index' = index /\ stale' = stale /\ queue' = queue
      /\ objects' = objects /\ remaining' = remaining
      /\ retired' = retired /\ location' = location /\ expiresAt' = expiresAt
      /\ writer' = writer /\ reader' = reader
  BY DEF SweepQueue, kv, r2, counters, metadata
<1>2. /\ sweep'.phase = "queue" /\ sweep'.at = now /\ sweep'.doomed = {}
      /\ sweep'.todo = {v \in Versions : queue[v] # Never /\ queue[v] <= now - Grace}
  BY DEF SweepQueue
<1>3. Timed'
  BY <1>1, <1>2, Numbers, StoreAssumption DEF Timed, Underway
<1>4. FreshIsUnknown'
  BY <1>1, <1>2, Numbers, StoreAssumption DEF FreshIsUnknown, Fresh
<1>5. SweepIsSound'
  BY <1>1, <1>2, Numbers, StoreAssumption DEF SweepIsSound, Expired
<1>6. /\ FreshObject' /\ OriginalIsReplaced' /\ QueuedIndexIsSettled'
      /\ UploadedIndexIsSettled' /\ ReapingIsDead' /\ RetiredIsReplaced'
      /\ LiveObjectPresent'
  BY <1>1, <1>2
  DEF FreshObject, Fresh, OriginalIsReplaced, QueuedIndexIsSettled,
      UploadedIndexIsSettled, ReapingIsDead, Expired, Spent, RetiredIsReplaced,
      LiveObjectPresent
<1>7. QED
  BY <1>3, <1>4, <1>5, <1>6

\* A queued version is kept while the index names it: after the grace period every
\* location serves the same index.
LEMMA LookupQueuedLive ==
  ASSUME TypeOK, LiveInv, NEW v \in Versions, LookupQueued(v)
  PROVE  LiveInv'
<1>. USE DEF LiveInv
<1>1. /\ now' = now /\ index' = index /\ stale' = stale /\ queue' = queue
      /\ objects' = objects /\ remaining' = remaining
      /\ retired' = retired /\ location' = location /\ expiresAt' = expiresAt
      /\ writer' = writer /\ reader' = reader
  BY DEF LookupQueued, kv, r2, counters, metadata
<1>2. PICK live \in Lookup : sweep' = [sweep EXCEPT !.todo = sweep.todo \ {v},
        !.doomed = IF live = v THEN sweep.doomed ELSE sweep.doomed \cup {v}]
  BY DEF LookupQueued
<1>3. /\ sweep'.phase = "queue" /\ sweep'.at = sweep.at /\ sweep.phase = "queue"
      /\ v \in sweep.todo
      /\ sweep'.todo = sweep.todo \ {v}
      /\ sweep'.doomed = IF live = v THEN sweep.doomed ELSE sweep.doomed \cup {v}
  BY <1>2 DEF LookupQueued, TypeOK
<1>4. index = v => stale = {}
  BY <1>3, SettledQueue
<1>5. index = v => live = v \/ Expired(v)
  BY <1>4, StoreAssumption DEF Lookup, Visible, Writers
<1>6. Timed'
  BY <1>1, <1>2, <1>3, <1>4, <1>5, Numbers, StoreAssumption DEF Timed, Underway
<1>7. FreshIsUnknown'
  BY <1>1, <1>2, <1>3, <1>4, <1>5, Numbers, StoreAssumption DEF FreshIsUnknown, Fresh
<1>8. SweepIsSound'
  BY <1>1, <1>2, <1>3, <1>4, <1>5, Numbers, StoreAssumption DEF SweepIsSound, Expired
<1>9. /\ FreshObject' /\ OriginalIsReplaced' /\ QueuedIndexIsSettled'
      /\ UploadedIndexIsSettled' /\ ReapingIsDead' /\ RetiredIsReplaced'
      /\ LiveObjectPresent'
  BY <1>1, <1>2, <1>3, <1>4, <1>5
  DEF FreshObject, Fresh, OriginalIsReplaced, QueuedIndexIsSettled,
      UploadedIndexIsSettled, ReapingIsDead, Expired, Spent, RetiredIsReplaced,
      LiveObjectPresent
<1>10. QED
  BY <1>6, <1>7, <1>8, <1>9

\* The object of a doomed version is deleted with its entry.
LEMMA DeleteQueuedLive ==
  ASSUME TypeOK, LiveInv, NEW v \in Versions, DeleteQueued(v)
  PROVE  LiveInv'
<1>. USE DEF LiveInv
<1>1. /\ now' = now /\ index' = index /\ stale' = stale /\ remaining' = remaining
      /\ retired' = retired /\ location' = location
      /\ expiresAt' = expiresAt /\ writer' = writer /\ reader' = reader
  BY DEF DeleteQueued, kv, r2, counters, metadata
<1>2. /\ sweep'.phase = "queue" /\ sweep'.at = sweep.at /\ sweep.phase = "queue"
      /\ v \in sweep.doomed
      /\ sweep'.todo = sweep.todo /\ sweep'.doomed = sweep.doomed \ {v}
  BY DEF DeleteQueued, TypeOK
<1>3. /\ objects'[v] = Never /\ queue'[v] = Never
      /\ \A u \in Versions : u # v => objects'[u] = objects[u] /\ queue'[u] = queue[u]
  BY DEF DeleteQueued, TypeOK
<1>4. ~Fresh(v) /\ (index = v => Expired(v))
  BY <1>2 DEF FreshIsUnknown, SweepIsSound
<1>5. v \notin sweep.todo
  BY <1>2 DEF SweepIsSound
<1>6. Timed'
  BY <1>1, <1>2, <1>3, <1>4, <1>5, Numbers, StoreAssumption DEF Timed, Underway
<1>7. FreshIsUnknown'
  BY <1>1, <1>2, <1>3, <1>4, <1>5, Numbers, StoreAssumption DEF FreshIsUnknown, Fresh
<1>8. FreshObject'
  BY <1>1, <1>2, <1>3, <1>4, <1>5, Numbers, StoreAssumption DEF FreshObject, Fresh
<1>9. QueuedIndexIsSettled'
  BY <1>1, <1>2, <1>3, <1>4, <1>5, Numbers, StoreAssumption DEF QueuedIndexIsSettled
<1>10. UploadedIndexIsSettled'
  BY <1>1, <1>2, <1>3, <1>4, <1>5, Numbers, StoreAssumption DEF UploadedIndexIsSettled
<1>11. SweepIsSound'
  BY <1>1, <1>2, <1>3, <1>4, <1>5, Numbers, StoreAssumption DEF SweepIsSound, Expired
<1>12. LiveObjectPresent'
  BY <1>1, <1>2, <1>3, <1>4, <1>5, Numbers, StoreAssumption DEF LiveObjectPresent, Expired
<1>13. OriginalIsReplaced' /\ ReapingIsDead' /\ RetiredIsReplaced'
  BY <1>1, <1>2, <1>3, <1>4, <1>5
  DEF OriginalIsReplaced, ReapingIsDead, Expired, Spent, RetiredIsReplaced
<1>14. QED
  BY <1>6, <1>7, <1>8, <1>9, <1>10, <1>11, <1>12, <1>13

\* The bucket phase takes expired objects and old uploads.
LEMMA SweepBucketLive ==
  ASSUME TypeOK, LiveInv, SweepBucket
  PROVE  LiveInv'
<1>. USE DEF LiveInv
<1>1. /\ now' = now /\ index' = index /\ stale' = stale /\ queue' = queue
      /\ objects' = objects /\ remaining' = remaining
      /\ retired' = retired /\ location' = location /\ expiresAt' = expiresAt
      /\ writer' = writer /\ reader' = reader
  BY DEF SweepBucket, kv, r2, counters, metadata
<1>2. /\ sweep'.phase = "bucket" /\ sweep'.at = sweep.at /\ sweep'.doomed = {}
      /\ sweep'.todo = {v \in Versions : InBucketScan(v)} /\ sweep.phase = "queue"
  BY DEF SweepBucket, TypeOK
<1>3. \A v \in Versions : InBucketScan(v) => ~Fresh(v)
  BY ScannedIsNotFresh
<1>4. Timed'
  BY <1>1, <1>2, <1>3, Numbers, StoreAssumption DEF Timed, Underway
<1>5. FreshIsUnknown'
  BY <1>1, <1>2, <1>3, Numbers, StoreAssumption DEF FreshIsUnknown, Fresh
<1>6. SweepIsSound'
  <2>1. index \in sweep'.todo \cap Multipart => writer[index].since + Grace <= sweep.at
    BY <1>2, Numbers, StoreAssumption DEF InBucketScan, UploadedIndexIsSettled
  <2>2. \A v \in sweep'.todo \cap Direct : expiresAt[v] < sweep.at
    BY <1>2, StoreAssumption DEF InBucketScan
  <2>3. QED
    BY <1>1, <1>2, <2>1, <2>2 DEF SweepIsSound
<1>7. /\ FreshObject' /\ OriginalIsReplaced' /\ QueuedIndexIsSettled'
      /\ UploadedIndexIsSettled' /\ ReapingIsDead' /\ RetiredIsReplaced'
      /\ LiveObjectPresent'
  BY <1>1, <1>2, <1>3
  DEF FreshObject, Fresh, OriginalIsReplaced, QueuedIndexIsSettled,
      UploadedIndexIsSettled, ReapingIsDead, Expired, Spent, RetiredIsReplaced,
      LiveObjectPresent
<1>8. QED
  BY <1>4, <1>5, <1>6, <1>7

\* A scanned version is kept while the index names it and it is not expired.
LEMMA LookupScannedLive ==
  ASSUME TypeOK, LiveInv, NEW v \in Versions, LookupScanned(v)
  PROVE  LiveInv'
<1>. USE DEF LiveInv
<1>1. /\ now' = now /\ index' = index /\ stale' = stale /\ queue' = queue
      /\ objects' = objects /\ remaining' = remaining
      /\ retired' = retired /\ location' = location /\ expiresAt' = expiresAt
      /\ writer' = writer /\ reader' = reader
  BY DEF LookupScanned, kv, r2, counters, metadata
<1>2. PICK live \in Lookup : sweep' = [sweep EXCEPT !.todo = sweep.todo \ {v},
        !.doomed = IF live = v /\ expiresAt[v] >= sweep.at THEN sweep.doomed ELSE sweep.doomed \cup {v}]
  BY DEF LookupScanned
<1>3. /\ sweep'.phase = "bucket" /\ sweep'.at = sweep.at /\ sweep.phase = "bucket"
      /\ v \in sweep.todo
      /\ sweep'.todo = sweep.todo \ {v}
      /\ sweep'.doomed = IF live = v /\ expiresAt[v] >= sweep.at THEN sweep.doomed ELSE sweep.doomed \cup {v}
  BY <1>2 DEF LookupScanned, TypeOK
<1>4. index = v /\ v \in Multipart => stale = {}
  BY <1>3, SettledUpload
<1>5. index = v => live = v \/ Expired(v)
  BY <1>3, <1>4, StoreAssumption
  DEF Lookup, Visible, Versions, Writers, SweepIsSound, Timed, Expired, TypeOK
<1>6. v \in sweep'.doomed /\ index = v => Expired(v)
  BY <1>3, <1>5 DEF SweepIsSound, Timed, Expired, TypeOK
<1>7. Timed'
  BY <1>1, <1>2, <1>3, <1>4, <1>5, <1>6, Numbers, StoreAssumption DEF Timed, Underway
<1>8. FreshIsUnknown'
  BY <1>1, <1>2, <1>3, <1>4, <1>5, <1>6, Numbers, StoreAssumption DEF FreshIsUnknown, Fresh
<1>9. SweepIsSound'
  BY <1>1, <1>2, <1>3, <1>4, <1>5, <1>6, Numbers, StoreAssumption DEF SweepIsSound, Expired
<1>10. /\ FreshObject' /\ OriginalIsReplaced' /\ QueuedIndexIsSettled'
       /\ UploadedIndexIsSettled' /\ ReapingIsDead' /\ RetiredIsReplaced'
       /\ LiveObjectPresent'
  BY <1>1, <1>2, <1>3, <1>4, <1>5, <1>6
  DEF FreshObject, Fresh, OriginalIsReplaced, QueuedIndexIsSettled,
      UploadedIndexIsSettled, ReapingIsDead, Expired, Spent, RetiredIsReplaced,
      LiveObjectPresent
<1>11. QED
  BY <1>7, <1>8, <1>9, <1>10

\* The doomed objects are deleted.
LEMMA DeleteScannedLive ==
  ASSUME TypeOK, LiveInv, DeleteScanned
  PROVE  LiveInv'
<1>. USE DEF LiveInv
<1>1. /\ now' = now /\ index' = index /\ stale' = stale /\ queue' = queue
      /\ remaining' = remaining /\ retired' = retired
      /\ location' = location /\ expiresAt' = expiresAt /\ writer' = writer
      /\ reader' = reader
  BY DEF DeleteScanned, kv, r2, counters, metadata
<1>2. sweep' = NoSweep /\ objects' = [v \in Versions |-> IF v \in sweep.doomed THEN Never ELSE objects[v]]
  BY DEF DeleteScanned
<1>3. /\ sweep'.phase = "idle" /\ sweep'.at = 0 /\ sweep'.todo = {} /\ sweep'.doomed = {}
  BY <1>2 DEF NoSweep
<1>4. \A u \in Versions : u \notin sweep.doomed => objects'[u] = objects[u]
  BY <1>2
<1>5. \A u \in sweep.doomed : u \in Versions /\ objects'[u] = Never /\ ~Fresh(u) /\ (index = u => Expired(u))
  BY <1>2 DEF FreshIsUnknown, SweepIsSound, TypeOK
<1>6. Timed'
  BY <1>1, <1>2, <1>3, <1>4, <1>5, Numbers, StoreAssumption DEF Timed, Underway
<1>7. FreshIsUnknown'
  BY <1>1, <1>2, <1>3, <1>4, <1>5, Numbers, StoreAssumption DEF FreshIsUnknown, Fresh
<1>8. FreshObject'
  BY <1>1, <1>2, <1>3, <1>4, <1>5, Numbers, StoreAssumption DEF FreshObject, Fresh
<1>9. UploadedIndexIsSettled'
  BY <1>1, <1>2, <1>3, <1>4, <1>5, Numbers, StoreAssumption DEF UploadedIndexIsSettled
<1>10. SweepIsSound'
  BY <1>1, <1>2, <1>3, <1>4, <1>5, Numbers, StoreAssumption DEF SweepIsSound, Expired
<1>11. LiveObjectPresent'
  BY <1>1, <1>2, <1>3, <1>4, <1>5, Numbers, StoreAssumption DEF LiveObjectPresent, Expired
<1>12. OriginalIsReplaced' /\ QueuedIndexIsSettled' /\ ReapingIsDead' /\ RetiredIsReplaced'
  BY <1>1, <1>2, <1>3, <1>4, <1>5
  DEF OriginalIsReplaced, QueuedIndexIsSettled, ReapingIsDead, Expired, Spent,
      RetiredIsReplaced
<1>13. QED
  BY <1>6, <1>7, <1>8, <1>9, <1>10, <1>11, <1>12

\* A sweep that is stopped may have deleted one of the doomed objects.
LEMMA AbortSweepLive ==
  ASSUME TypeOK, LiveInv, AbortSweep
  PROVE  LiveInv'
<1>. USE DEF LiveInv
<1>1. /\ now' = now /\ index' = index /\ stale' = stale /\ queue' = queue
      /\ remaining' = remaining /\ retired' = retired
      /\ location' = location /\ expiresAt' = expiresAt /\ writer' = writer
      /\ reader' = reader
  BY DEF AbortSweep, kv, r2, counters, metadata
<1>2. /\ sweep'.phase = "idle" /\ sweep'.at = 0 /\ sweep'.todo = {} /\ sweep'.doomed = {}
  BY DEF AbortSweep, NoSweep
<1>3. \A u \in Versions : objects'[u] = objects[u] \/ (u \in sweep.doomed /\ objects'[u] = Never)
  BY DEF AbortSweep, TypeOK
<1>4. \A u \in sweep.doomed : u \in Versions /\ ~Fresh(u) /\ (index = u => Expired(u))
  BY DEF FreshIsUnknown, SweepIsSound, TypeOK
<1>5. Timed'
  BY <1>1, <1>2, <1>3, <1>4, Numbers, StoreAssumption DEF Timed, Underway
<1>6. FreshIsUnknown'
  BY <1>1, <1>2, <1>3, <1>4, Numbers, StoreAssumption DEF FreshIsUnknown, Fresh
<1>7. FreshObject'
  BY <1>1, <1>2, <1>3, <1>4, Numbers, StoreAssumption DEF FreshObject, Fresh
<1>8. UploadedIndexIsSettled'
  BY <1>1, <1>2, <1>3, <1>4, Numbers, StoreAssumption DEF UploadedIndexIsSettled
<1>9. SweepIsSound'
  BY <1>1, <1>2, <1>3, <1>4, Numbers, StoreAssumption DEF SweepIsSound, Expired
<1>10. LiveObjectPresent'
  BY <1>1, <1>2, <1>3, <1>4, Numbers, StoreAssumption DEF LiveObjectPresent, Expired
<1>11. OriginalIsReplaced' /\ QueuedIndexIsSettled' /\ ReapingIsDead' /\ RetiredIsReplaced'
  BY <1>1, <1>2, <1>3, <1>4
  DEF OriginalIsReplaced, QueuedIndexIsSettled, ReapingIsDead, Expired, Spent,
      RetiredIsReplaced
<1>12. QED
  BY <1>5, <1>6, <1>7, <1>8, <1>9, <1>10, <1>11

\* Time passes: what is expired stays so, and KV forgets what no location serves.
LEMMA TickLive ==
  ASSUME TypeOK, LiveInv, Tick
  PROVE  LiveInv'
<1>. USE DEF LiveInv
<1>1. /\ index' = index /\ queue' = queue /\ objects' = objects /\ remaining' = remaining
      /\ retired' = retired /\ location' = location
      /\ expiresAt' = expiresAt /\ writer' = writer /\ reader' = reader /\ sweep' = sweep
  BY DEF Tick, r2, counters, metadata
<1>2. now' = now + 1 /\ now \in Nat /\ stale' = {old \in stale : old.until > now}
  BY DEF Tick, TypeOK
<1>3. \A w \in Writers : Underway(w) => now < writer[w].since + RequestSpan
  BY DEF Tick, Underway, InTime
<1>4. \A v \in Versions : Expired(v) => Expired(v)'
  BY <1>1, <1>2 DEF Expired, TypeOK
<1>5. \A old \in stale : old.until \in Nat
  BY DEF TypeOK
<1>6. Timed'
  BY <1>1, <1>2, <1>3, <1>4, <1>5, Numbers, StoreAssumption DEF Timed, Underway
<1>7. FreshIsUnknown'
  BY <1>1, <1>2, <1>3, <1>4, <1>5, Numbers, StoreAssumption DEF FreshIsUnknown, Fresh
<1>8. QueuedIndexIsSettled'
  BY <1>1, <1>2, <1>3, <1>4, <1>5, Numbers, StoreAssumption DEF QueuedIndexIsSettled
<1>9. UploadedIndexIsSettled'
  BY <1>1, <1>2, <1>3, <1>4, <1>5, Numbers, StoreAssumption DEF UploadedIndexIsSettled
<1>10. ReapingIsDead'
  BY <1>1, <1>2, <1>3, <1>4, <1>5, Numbers, StoreAssumption
  DEF ReapingIsDead, Expired, Spent
<1>11. SweepIsSound'
  BY <1>1, <1>2, <1>3, <1>4, <1>5, Numbers, StoreAssumption DEF SweepIsSound, Expired
<1>12. LiveObjectPresent'
  BY <1>1, <1>2, <1>3, <1>4, <1>5, Numbers, StoreAssumption DEF LiveObjectPresent, Expired
<1>13. FreshObject' /\ OriginalIsReplaced' /\ RetiredIsReplaced'
  BY <1>1, <1>2, <1>3, <1>4, <1>5
  DEF FreshObject, Fresh, OriginalIsReplaced, RetiredIsReplaced
<1>14. QED
  BY <1>6, <1>7, <1>8, <1>9, <1>10, <1>11, <1>12, <1>13

\* Every step keeps the invariant.
LEMMA NextLive ==
  ASSUME TypeOK, LiveInv, [Next]_vars
  PROVE  LiveInv'
<1>1. CASE UNCHANGED vars
  BY <1>1
  DEF vars, kv, r2, counters, metadata, LiveInv, Timed, FreshIsUnknown, FreshObject,
      OriginalIsReplaced, QueuedIndexIsSettled, UploadedIndexIsSettled, ReapingIsDead,
      SweepIsSound, RetiredIsReplaced, LiveObjectPresent, Fresh, Underway, Expired, Spent
<1>2. ASSUME NEW v \in Versions, StartWrite(v)
      PROVE  LiveInv'
  <2>1. v \notin Multipart
    BY <1>2, StoreAssumption DEF StartWrite
  <2>2. PICK original \in Lookup \cup {None} :
          Begin(v, original, "preparing") /\ Prepare(v, original)
    BY <1>2 DEF StartWrite
  <2>3. QED
    BY <1>2, <2>1, <2>2, LaunchLive DEF StartWrite, r2
<1>3. ASSUME NEW v \in Versions, CompleteUpload(v)
      PROVE  LiveInv'
  <2>1. PICK original \in Lookup \cup {None} :
          Begin(v, original, "preparing") /\ Prepare(v, original)
    BY <1>3 DEF CompleteUpload
  <2>2. QED
    BY <1>3, <2>1, LaunchLive DEF CompleteUpload
<1>4. ASSUME NEW w \in Writers, WriteStep(w) \/ AbortWrite(w)
      PROVE  LiveInv'
  <2>1. CASE PutIndex(w)
    BY <2>1, PutLive DEF PutIndex
  <2>2. CASE FailIndex(w)
    <3>1. PICK pc \in {"failed", "done"} : Goto(w, pc)
      BY <2>2 DEF FailIndex
    <3>2. CASE UNCHANGED kv
      BY <2>2, <3>1, <3>2, StopLive DEF FailIndex
    <3>3. CASE SetIndex(IF w \in Versions THEN w ELSE None)
      BY <2>2, <3>1, <3>3, PutLive DEF FailIndex
    <3>4. QED
      BY <2>2, <3>2, <3>3 DEF FailIndex
  <2>3. CASE AbortWrite(w)
    BY <2>3, StopLive DEF AbortWrite
  <2>4. QED
    BY <1>4, <2>1, <2>2, <2>3, QueueOriginalLive, RetireOriginalLive, StoreContentLive,
       FailContentLive, QueueFailedLive
    DEF WriteStep
<1>5. CASE SweepStep \/ AbortSweep
  BY <1>5, SweepQueueLive, LookupQueuedLive, DeleteQueuedLive, SweepBucketLive,
     LookupScannedLive, DeleteScannedLive, AbortSweepLive
  DEF SweepStep
<1>6. ASSUME NEW r \in Readers, FindRecord(r) \/ ReadStep(r)
      PROVE  LiveInv'
  BY <1>6, FindRecordLive, ConsumeReadLive, OpenBodyLive, CleanupVersionLive DEF ReadStep
<1>7. QED
  BY <1>1, <1>2, <1>3, <1>4, <1>5, <1>6, CreateUploadLive, RejectUploadLive,
     StartDeleteLive, TickLive
  DEF Next, Step

LEMMA LiveInvariant == Spec => [](TypeOK /\ LiveInv)
<1>1. Init => TypeOK /\ LiveInv
  BY InitTypes, InitLive
<1>2. TypeOK /\ LiveInv /\ [Next]_vars => (TypeOK /\ LiveInv)'
  BY NextTypes, NextLive
<1>3. QED
  BY <1>1, <1>2, PTL DEF Spec

\* The body of the live version stays in R2 while the version is readable, whatever
\* writes fail or are acknowledged late, and whenever requests or the sweep stop.
THEOREM LiveVersionKeepsItsBody == Spec => []LiveObjectPresent
<1>1. LiveInv => LiveObjectPresent
  BY DEF LiveInv
<1>2. QED
  BY <1>1, LiveInvariant, PTL

\* The counter of the live version is never retired.
THEOREM LiveVersionKeepsItsReads == Spec => []RetiredIsReplaced
<1>1. LiveInv => RetiredIsReplaced
  BY DEF LiveInv
<1>2. QED
  BY <1>1, LiveInvariant, PTL

-----------------------------------------------------------------------------
(* A read that found a version gets its body.                              *)

LEMMA InitReads == Init => ReadInv
BY StoreAssumption
DEF Init, ReadInv, ReadsAreTimed, FailedIsUnknown, QueuedIsFading, SweptIsForgotten,
    BodyIsKept, FoundDirectVersionIsServed, Reading, Visible, Idle, NoSweep, Never,
    Versions, Writers

\* What a write does before its version reaches the index, or to a counter, is not
\* noticed by any read: a fresh version is in nobody's hands.
LEMMA UnseenWriteReads ==
  ASSUME TypeOK, LiveInv, ReadInv, ~LostAcks, 
         \A v \in Versions : writer'[v].pc = "failed" => Fresh(v) \/ writer[v].pc = "failed",
         \A v \in Versions : Fresh(v) \/
           /\ objects'[v] = objects[v] /\ remaining'[v] = remaining[v]
           /\ location'[v] = location[v] /\ expiresAt'[v] = expiresAt[v],
         UNCHANGED <<now, kv, queue, reader, sweep>>
  PROVE  ReadInv'
<1>. USE DEF LiveInv, ReadInv
<1>1. /\ now' = now /\ index' = index /\ stale' = stale /\ queue' = queue
      /\ reader' = reader
      /\ sweep' = sweep
  BY DEF kv
<1>2. \A v \in Versions : Fresh(v) =>
        /\ v \notin Visible /\ v \notin sweep.todo /\ v \notin sweep.doomed
        /\ \A r \in Readers : reader[r].version # v
  BY DEF FreshIsUnknown, Visible
<1>3. Visible' = Visible
  BY <1>1 DEF Visible
<1>4. \A v \in Versions : ~Fresh(v) => (Expired(v)' <=> Expired(v)) /\ (Spent(v)' <=> Spent(v))
  BY <1>1 DEF Expired, Spent
<1>5. FailedIsUnknown'
  BY <1>1, <1>2, <1>3, Numbers DEF FailedIsUnknown
<1>6. SweptIsForgotten'
  BY <1>1, <1>2, <1>3, <1>4, Numbers DEF SweptIsForgotten, Reading
<1>7. BodyIsKept'
  BY <1>1, <1>2, <1>3, <1>4, Numbers DEF BodyIsKept, Reading
<1>8. FoundDirectVersionIsServed'
  BY <1>1, <1>2, <1>4, Numbers DEF FoundDirectVersionIsServed
<1>9. ReadsAreTimed' /\ QueuedIsFading'
  BY <1>1, <1>2, <1>3, <1>4 DEF ReadsAreTimed, Reading, QueuedIsFading
<1>10. QED
  BY <1>5, <1>6, <1>7, <1>8, <1>9

\* The version that is put has its body, and the one it replaces can be found for a
\* while.
LEMMA PutReads ==
  ASSUME TypeOK, LiveInv, ReadInv, ~LostAcks, NEW w \in Writers, PutIndex(w)
  PROVE  ReadInv'
<1>. USE DEF LiveInv, ReadInv
<1>1. writer[w].pc = "indexing" /\ writer'[w].pc # "failed"
  BY GotoMoves DEF PutIndex
<1>2. \A x \in Writers : x # w => writer'[x] = writer[x]
  BY GotoMoves DEF PutIndex
<1>3. /\ now' = now /\ queue' = queue /\ objects' = objects /\ remaining' = remaining
      /\ retired' = retired /\ location' = location
      /\ expiresAt' = expiresAt /\ reader' = reader /\ sweep' = sweep
  BY DEF PutIndex, r2, counters, metadata
<1>4. /\ index' = (IF w \in Versions THEN w ELSE None)
      /\ stale' = stale \cup {[version |-> index, until |-> now + Staleness]}
  BY DEF PutIndex, SetIndex
<1>5. Visible' \subseteq Visible \cup {w, None}
  BY <1>4 DEF Visible
<1>6. w \in Versions => Fresh(w) /\ queue[w] = Never /\ w \notin sweep.todo /\ w \notin sweep.doomed
  BY <1>1 DEF Fresh, FreshIsUnknown
<1>7. w \in Versions => \A r \in Readers : reader[r].version # w
  BY <1>6 DEF FreshIsUnknown
<1>8. w \in Versions /\ location[w] = "R2" => objects[w] # Never
  BY <1>1 DEF FreshObject
<1>9. FailedIsUnknown'
  BY <1>1, <1>2, <1>3, <1>5, Numbers DEF FailedIsUnknown
<1>10. QueuedIsFading'
  BY <1>3, <1>4, <1>6, Numbers DEF QueuedIsFading, Reading
<1>11. SweptIsForgotten'
  BY <1>3, <1>5, <1>6, <1>7, Numbers DEF SweptIsForgotten, Reading, Expired
<1>12. BodyIsKept'
  BY <1>3, <1>5, <1>7, <1>8, Numbers DEF BodyIsKept, Reading, Expired, Spent, TypeOK
<1>13. ReadsAreTimed' /\ FoundDirectVersionIsServed'
  BY <1>1, <1>2, <1>3, <1>4, <1>5, <1>6, <1>7, <1>8
  DEF ReadsAreTimed, Reading, FoundDirectVersionIsServed, Expired, Spent
<1>14. QED
  BY <1>9, <1>10, <1>11, <1>12, <1>13

\* A failed write queues a version that nobody found.
LEMMA QueueFailedReads ==
  ASSUME TypeOK, LiveInv, ReadInv, ~LostAcks, NEW v \in Versions, QueueFailed(v)
  PROVE  ReadInv'
<1>. USE DEF LiveInv, ReadInv
<1>1. v \in Writers
  BY DEF Writers
<1>2. writer[v].pc = "failed" /\ writer'[v].pc = "done" /\ \A x \in Writers : x # v => writer'[x] = writer[x]
  BY <1>1, GotoMoves DEF QueueFailed
<1>3. /\ now' = now /\ index' = index /\ stale' = stale /\ objects' = objects
      /\ remaining' = remaining /\ retired' = retired
      /\ location' = location /\ expiresAt' = expiresAt /\ reader' = reader
      /\ sweep' = sweep
  BY DEF QueueFailed, kv, counters, metadata
<1>4. \A u \in Versions : u # v => queue'[u] = queue[u]
  BY DEF QueueFailed, Queue, TypeOK
<1>5. v \notin Visible /\ \A r \in Readers : reader[r].version # v
  BY <1>2 DEF FailedIsUnknown
<1>6. FailedIsUnknown'
  BY <1>1, <1>2, <1>3, <1>4, <1>5, Numbers, StoreAssumption DEF FailedIsUnknown, Visible
<1>7. QueuedIsFading'
  BY <1>3, <1>4, <1>5 DEF QueuedIsFading, Reading, Visible
<1>8. ReadsAreTimed' /\ SweptIsForgotten' /\ BodyIsKept' /\ FoundDirectVersionIsServed'
  BY <1>1, <1>2, <1>3, <1>4, <1>5
  DEF ReadsAreTimed, Reading, SweptIsForgotten, Visible, Expired, BodyIsKept, Spent,
      FoundDirectVersionIsServed
<1>9. QED
  BY <1>6, <1>7, <1>8

\* The entry of a replaced version is younger than whatever serves it.
LEMMA QueueOriginalReads ==
  ASSUME TypeOK, LiveInv, ReadInv, ~LostAcks, NEW w \in Writers, QueueOriginal(w)
  PROVE  ReadInv'
<1>. USE DEF LiveInv, ReadInv
<1>1. writer'[w].pc = "retiring" /\ \A x \in Writers : x # w => writer'[x] = writer[x]
  BY GotoMoves DEF QueueOriginal
<1>2. /\ now' = now /\ index' = index /\ stale' = stale /\ objects' = objects
      /\ remaining' = remaining /\ retired' = retired
      /\ location' = location /\ expiresAt' = expiresAt /\ reader' = reader
      /\ sweep' = sweep
  BY DEF QueueOriginal, kv, counters, metadata
<1>3. writer[w].original \in Versions /\ writer[w].original # index
  BY DEF QueueOriginal, OriginalIsReplaced
<1>4. /\ \A u \in Versions : u # writer[w].original => queue'[u] = queue[u]
      /\ queue'[writer[w].original] \in {queue[writer[w].original], now}
  BY <1>3 DEF QueueOriginal, Queue, TypeOK
<1>5. \A old \in stale : old.until <= now + Staleness
  BY DEF Timed
<1>6. FailedIsUnknown'
  BY <1>1, <1>2, <1>3, <1>4, <1>5, Numbers, StoreAssumption DEF FailedIsUnknown, Visible
<1>7. QueuedIsFading'
  <2>1. \A r \in Readers : Reading(r) => reader[r].since <= now + Staleness
    BY Numbers, StoreAssumption DEF ReadsAreTimed
  <2>2. QED
    BY <1>2, <1>3, <1>4, <1>5, <2>1 DEF QueuedIsFading, Reading
<1>8. ReadsAreTimed' /\ SweptIsForgotten' /\ BodyIsKept' /\ FoundDirectVersionIsServed'
  BY <1>1, <1>2, <1>3, <1>4, <1>5
  DEF ReadsAreTimed, Reading, SweptIsForgotten, Visible, Expired, BodyIsKept, Spent,
      FoundDirectVersionIsServed
<1>9. QED
  BY <1>6, <1>7, <1>8

\* A read that begins finds a version no later than KV serves it.
LEMMA FindRecordReads ==
  ASSUME TypeOK, LiveInv, ReadInv, ~LostAcks, NEW r \in Readers, FindRecord(r)
  PROVE  ReadInv'
<1>. USE DEF LiveInv, ReadInv
<1>1. /\ now' = now /\ index' = index /\ stale' = stale /\ queue' = queue
      /\ objects' = objects /\ remaining' = remaining
      /\ retired' = retired /\ location' = location /\ expiresAt' = expiresAt
      /\ writer' = writer /\ sweep' = sweep
  BY DEF FindRecord, kv, r2, counters, metadata
<1>2. /\ \A x \in Readers : x # r => reader'[x] = reader[x]
      /\ reader'[r].version \in Visible \ {None} /\ reader'[r].since = now
      /\ reader'[r].pc \in {"found", "reaping"}
  BY DEF FindRecord, TypeOK
<1>3. reader'[r].version \in Versions
  BY <1>2, VisibleVersions
<1>4. writer[reader'[r].version].pc # "failed"
  BY <1>2, <1>3 DEF FailedIsUnknown
<1>5. Visible' = Visible
  BY <1>1 DEF Visible
<1>6. ReadsAreTimed'
  BY <1>1, <1>2, <1>3, <1>4, <1>5, Numbers, StoreAssumption DEF ReadsAreTimed, Reading
<1>7. FailedIsUnknown'
  BY <1>1, <1>2, <1>4, <1>5 DEF FailedIsUnknown
<1>8. QueuedIsFading'
  <2>1. queue[reader'[r].version] # Never => now <= queue[reader'[r].version] + Staleness
    <3>1. SUFFICES ASSUME queue[reader'[r].version] # Never
                   PROVE  now <= queue[reader'[r].version] + Staleness
      OBVIOUS
    <3>2. reader'[r].version # index
      BY <1>3, <3>1 DEF QueuedIsFading
    <3>3. PICK old \in stale : old.version = reader'[r].version
      BY <1>2, <3>2 DEF Visible
    <3>4. now <= old.until /\ old.until <= queue[reader'[r].version] + Staleness
      BY <1>3, <3>1, <3>3 DEF QueuedIsFading, Timed
    <3>5. QED
      BY <1>3, <3>4, Numbers, StoreAssumption
  <2>2. QED
    BY <1>1, <1>2, <2>1 DEF QueuedIsFading, Reading
<1>9. SweptIsForgotten'
  BY <1>1, <1>2, <1>5, Numbers DEF SweptIsForgotten, Reading, Expired
<1>10. BodyIsKept'
  BY <1>1, <1>2, <1>5, Numbers DEF BodyIsKept, Reading, Expired, Spent
<1>11. FoundDirectVersionIsServed'
  BY <1>1, <1>2, <1>3, <1>4, <1>5, Numbers, StoreAssumption
  DEF FoundDirectVersionIsServed, Expired, Spent
<1>12. QED
  BY <1>6, <1>7, <1>8, <1>9, <1>10, <1>11

\* A read that goes on reads the version it found.
LEMMA ConsumeReadReads ==
  ASSUME TypeOK, LiveInv, ReadInv, ~LostAcks, NEW r \in Readers, ConsumeRead(r)
  PROVE  ReadInv'
<1>. USE DEF LiveInv, ReadInv
<1>1. /\ now' = now /\ index' = index /\ stale' = stale /\ queue' = queue
      /\ objects' = objects /\ retired' = retired
      /\ location' = location /\ expiresAt' = expiresAt /\ writer' = writer
      /\ sweep' = sweep
  BY DEF ConsumeRead, kv, r2, counters, metadata
<1>2. /\ \A x \in Readers : x # r => reader'[x] = reader[x]
      /\ reader[r].pc = "found" /\ reader'[r].version = reader[r].version
      /\ reader'[r].since = reader[r].since
  BY DEF ConsumeRead, TypeOK
<1>3. reader'[r].pc \in {"admitted", "done"}
  BY DEF ConsumeRead, TypeOK
<1>4. \A u \in Versions : Spent(u) => Spent(u)'
  BY Numbers DEF ConsumeRead, ReadsLeft, Spent, TypeOK
<1>5. \A u \in Versions : Expired(u)' <=> Expired(u)
  BY <1>1 DEF Expired
<1>6. Visible' = Visible
  BY <1>1 DEF Visible
<1>7. \A x \in Readers : Reading(x)' => Reading(x)
  BY <1>2 DEF Reading
<1>8. ReadsAreTimed'
  BY <1>1, <1>2, <1>3, <1>4, <1>5, <1>6, <1>7, Numbers, StoreAssumption
  DEF ReadsAreTimed, Reading
<1>9. FailedIsUnknown'
  BY <1>1, <1>2, <1>6 DEF FailedIsUnknown
<1>10. QueuedIsFading'
  BY <1>1, <1>2, <1>7 DEF QueuedIsFading
<1>11. SweptIsForgotten'
  BY <1>1, <1>2, <1>5, <1>6, <1>7, Numbers DEF SweptIsForgotten
<1>12. BodyIsKept'
  BY <1>1, <1>2, <1>4, <1>5, <1>6, <1>7, Numbers DEF BodyIsKept
<1>13. FoundDirectVersionIsServed'
  BY <1>2, <1>3, <1>4, <1>5, Numbers DEF FoundDirectVersionIsServed, Spent
<1>14. QED
  BY <1>8, <1>9, <1>10, <1>11, <1>12, <1>13

\* A read opens its body, which is there unless the version is dead.
LEMMA OpenBodyReads ==
  ASSUME TypeOK, LiveInv, ReadInv, ~LostAcks, NEW r \in Readers, OpenBody(r)
  PROVE  ReadInv'
<1>. USE DEF LiveInv, ReadInv
<1>1. /\ now' = now /\ index' = index /\ stale' = stale /\ queue' = queue
      /\ objects' = objects /\ remaining' = remaining
      /\ retired' = retired /\ location' = location /\ expiresAt' = expiresAt
      /\ writer' = writer /\ sweep' = sweep
  BY DEF OpenBody, kv, r2, counters, metadata
<1>2. /\ \A x \in Readers : x # r => reader'[x] = reader[x]
      /\ reader[r].pc = "admitted" /\ reader'[r].version = reader[r].version
      /\ reader'[r].since = reader[r].since
  BY DEF OpenBody, TypeOK
<1>3. reader'[r].pc \in {"lost", "reaping", "done"}
  BY DEF OpenBody, TypeOK
<1>4. reader'[r].pc = "lost" => location[reader[r].version] = "R2" /\ objects[reader[r].version] = Never
  BY DEF OpenBody, TypeOK
<1>5. Visible' = Visible
  BY <1>1 DEF Visible
<1>6. \A x \in Readers : Reading(x)' => Reading(x)
  BY <1>2, <1>3 DEF Reading
<1>7. \A u \in Versions : (Expired(u)' <=> Expired(u)) /\ (Spent(u)' <=> Spent(u))
  BY <1>1 DEF Expired, Spent
<1>8. Reading(r)
  BY <1>2 DEF Reading
<1>9. ReadsAreTimed'
  BY <1>1, <1>2, <1>3, <1>4, <1>5, <1>6, <1>7, <1>8, Numbers, StoreAssumption
  DEF ReadsAreTimed, Reading
<1>10. FailedIsUnknown'
  BY <1>1, <1>2, <1>5 DEF FailedIsUnknown
<1>11. QueuedIsFading'
  BY <1>1, <1>2, <1>6 DEF QueuedIsFading
<1>12. SweptIsForgotten'
  BY <1>1, <1>2, <1>5, <1>6, <1>7, Numbers DEF SweptIsForgotten
<1>13. BodyIsKept'
  BY <1>1, <1>2, <1>5, <1>6, <1>7, Numbers DEF BodyIsKept
<1>14. FoundDirectVersionIsServed'
  <2>1. reader'[r].pc = "lost" /\ reader[r].version \in Direct =>
          Expired(reader[r].version) \/ Spent(reader[r].version)
    BY <1>4, <1>8 DEF BodyIsKept
  <2>2. QED
    BY <1>2, <1>3, <1>7, <2>1, Numbers DEF FoundDirectVersionIsServed, Spent
<1>15. QED
  BY <1>9, <1>10, <1>11, <1>12, <1>13, <1>14

\* What a read cleans up is dead.
LEMMA CleanupVersionReads ==
  ASSUME TypeOK, LiveInv, ReadInv, ~LostAcks, NEW r \in Readers, CleanupVersion(r)
  PROVE  ReadInv'
<1>. USE DEF LiveInv, ReadInv
<1>1. /\ now' = now /\ index' = index /\ stale' = stale /\ queue' = queue
      /\ remaining' = remaining /\ retired' = retired
      /\ location' = location /\ expiresAt' = expiresAt /\ writer' = writer
      /\ sweep' = sweep
  BY DEF CleanupVersion, kv, r2, counters, metadata
<1>2. /\ \A x \in Readers : x # r => reader'[x] = reader[x]
      /\ reader'[r].version = reader[r].version /\ reader'[r].since = reader[r].since
      /\ reader'[r].pc = "done" /\ reader[r].pc = "reaping"
  BY DEF CleanupVersion, TypeOK
<1>3. \A u \in Versions : u # reader[r].version => objects'[u] = objects[u]
  BY DEF CleanupVersion, TypeOK
<1>4. Expired(reader[r].version) \/ Spent(reader[r].version)
  BY <1>2 DEF ReapingIsDead
<1>5. Visible' = Visible
  BY <1>1 DEF Visible
<1>6. \A x \in Readers : Reading(x)' => Reading(x)
  BY <1>2 DEF Reading
<1>7. \A u \in Versions : (Expired(u)' <=> Expired(u)) /\ (Spent(u)' <=> Spent(u))
  BY <1>1 DEF Expired, Spent
<1>8. ReadsAreTimed'
  BY <1>1, <1>2, <1>3, <1>4, <1>5, <1>6, <1>7, Numbers, StoreAssumption
  DEF ReadsAreTimed, Reading
<1>9. FailedIsUnknown'
  BY <1>1, <1>2, <1>5 DEF FailedIsUnknown
<1>10. QueuedIsFading'
  BY <1>1, <1>2, <1>6 DEF QueuedIsFading
<1>11. SweptIsForgotten'
  BY <1>1, <1>2, <1>5, <1>6, <1>7, Numbers DEF SweptIsForgotten
<1>12. BodyIsKept'
  BY <1>1, <1>2, <1>3, <1>4, <1>5, <1>6, <1>7, Numbers DEF BodyIsKept
<1>13. FoundDirectVersionIsServed'
  BY <1>2, <1>7, Numbers DEF FoundDirectVersionIsServed, Spent
<1>14. QED
  BY <1>8, <1>9, <1>10, <1>11, <1>12, <1>13

\* When an entry is due, nobody finds its version any more, and whoever found it is done.
LEMMA SweepQueueReads ==
  ASSUME TypeOK, LiveInv, ReadInv, ~LostAcks, SweepQueue
  PROVE  ReadInv'
<1>. USE DEF LiveInv, ReadInv
<1>1. /\ now' = now /\ index' = index /\ stale' = stale /\ queue' = queue
      /\ objects' = objects /\ remaining' = remaining
      /\ retired' = retired /\ location' = location /\ expiresAt' = expiresAt
      /\ writer' = writer /\ reader' = reader
  BY DEF SweepQueue, kv, r2, counters, metadata
<1>2. /\ sweep'.phase = "queue" /\ sweep'.at = now /\ sweep'.doomed = {}
      /\ sweep'.todo = {v \in Versions : queue[v] # Never /\ queue[v] <= now - Grace}
  BY DEF SweepQueue
<1>3. \A v \in sweep'.todo : v \in Versions /\ queue[v] # Never /\ queue[v] + Grace <= now
  BY <1>2, Numbers, StoreAssumption
<1>4. \A v \in sweep'.todo : v \notin Visible
  BY <1>3, Numbers, StoreAssumption, GraceAssumption DEF QueuedIsFading, Visible, Timed
<1>5. \A v \in sweep'.todo : \A r \in Readers : Reading(r) => reader[r].version # v
  BY <1>3, Numbers, StoreAssumption, GraceAssumption DEF QueuedIsFading, ReadsAreTimed
<1>6. Visible' = Visible /\ \A r \in Readers : Reading(r)' <=> Reading(r)
  BY <1>1 DEF Visible, Reading
<1>7. SweptIsForgotten'
  BY <1>1, <1>2, <1>4, <1>5, <1>6 DEF SweptIsForgotten
<1>8. /\ ReadsAreTimed' /\ FailedIsUnknown' /\ QueuedIsFading' /\ BodyIsKept'
      /\ FoundDirectVersionIsServed'
  BY <1>1, <1>2, <1>3, <1>4, <1>5, <1>6
  DEF ReadsAreTimed, Reading, FailedIsUnknown, Visible, QueuedIsFading, BodyIsKept,
      Expired, Spent, FoundDirectVersionIsServed
<1>9. QED
  BY <1>7, <1>8

\* A version that is doomed was to be looked up.
LEMMA LookupQueuedReads ==
  ASSUME TypeOK, LiveInv, ReadInv, ~LostAcks, NEW v \in Versions, LookupQueued(v)
  PROVE  ReadInv'
<1>. USE DEF LiveInv, ReadInv
<1>1. /\ now' = now /\ index' = index /\ stale' = stale /\ queue' = queue
      /\ objects' = objects /\ remaining' = remaining
      /\ retired' = retired /\ location' = location /\ expiresAt' = expiresAt
      /\ writer' = writer /\ reader' = reader
  BY DEF LookupQueued, kv, r2, counters, metadata
<1>2. /\ sweep'.phase = "queue" /\ sweep.phase = "queue"
      /\ sweep'.todo \cup sweep'.doomed \subseteq sweep.todo \cup sweep.doomed
  BY DEF LookupQueued, TypeOK
<1>3. Visible' = Visible /\ \A r \in Readers : Reading(r)' <=> Reading(r)
  BY <1>1 DEF Visible, Reading
<1>4. SweptIsForgotten'
  BY <1>1, <1>2, <1>3 DEF SweptIsForgotten
<1>5. /\ ReadsAreTimed' /\ FailedIsUnknown' /\ QueuedIsFading' /\ BodyIsKept'
      /\ FoundDirectVersionIsServed'
  BY <1>1, <1>2, <1>3
  DEF ReadsAreTimed, Reading, FailedIsUnknown, Visible, QueuedIsFading, BodyIsKept,
      Expired, Spent, FoundDirectVersionIsServed
<1>6. QED
  BY <1>4, <1>5

\* Nobody finds or reads what is deleted from the queue.
LEMMA DeleteQueuedReads ==
  ASSUME TypeOK, LiveInv, ReadInv, ~LostAcks, NEW v \in Versions, DeleteQueued(v)
  PROVE  ReadInv'
<1>. USE DEF LiveInv, ReadInv
<1>1. /\ now' = now /\ index' = index /\ stale' = stale /\ remaining' = remaining
      /\ retired' = retired /\ location' = location
      /\ expiresAt' = expiresAt /\ writer' = writer /\ reader' = reader
  BY DEF DeleteQueued, kv, r2, counters, metadata
<1>2. /\ sweep'.phase = "queue" /\ sweep.phase = "queue" /\ v \in sweep.doomed
      /\ sweep'.todo = sweep.todo /\ sweep'.doomed = sweep.doomed \ {v}
  BY DEF DeleteQueued, TypeOK
<1>3. /\ queue'[v] = Never
      /\ \A u \in Versions : u # v => objects'[u] = objects[u] /\ queue'[u] = queue[u]
  BY DEF DeleteQueued, TypeOK
<1>4. v \notin Visible /\ \A r \in Readers : Reading(r) => reader[r].version # v
  BY <1>2 DEF SweptIsForgotten
<1>5. /\ Visible' = Visible /\ \A r \in Readers : Reading(r)' <=> Reading(r)
      /\ \A u \in Versions : (Expired(u)' <=> Expired(u)) /\ (Spent(u)' <=> Spent(u))
  BY <1>1 DEF Visible, Reading, Expired, Spent
<1>6. QueuedIsFading'
  BY <1>1, <1>3, <1>5 DEF QueuedIsFading
<1>7. SweptIsForgotten'
  BY <1>1, <1>2, <1>5 DEF SweptIsForgotten
<1>8. BodyIsKept'
  BY <1>1, <1>3, <1>4, <1>5, Numbers DEF BodyIsKept
<1>9. ReadsAreTimed' /\ FailedIsUnknown' /\ FoundDirectVersionIsServed'
  BY <1>1, <1>2, <1>3, <1>4, <1>5
  DEF ReadsAreTimed, Reading, FailedIsUnknown, Visible, FoundDirectVersionIsServed,
      Expired, Spent
<1>10. QED
  BY <1>6, <1>7, <1>8, <1>9

\* The bucket phase begins with nothing doomed.
LEMMA SweepBucketReads ==
  ASSUME TypeOK, LiveInv, ReadInv, ~LostAcks, SweepBucket
  PROVE  ReadInv'
<1>. USE DEF LiveInv, ReadInv
<1>1. /\ now' = now /\ index' = index /\ stale' = stale /\ queue' = queue
      /\ objects' = objects /\ remaining' = remaining
      /\ retired' = retired /\ location' = location /\ expiresAt' = expiresAt
      /\ writer' = writer /\ reader' = reader
  BY DEF SweepBucket, kv, r2, counters, metadata
<1>2. /\ sweep'.phase = "bucket" /\ sweep'.doomed = {}
  BY DEF SweepBucket, TypeOK
<1>3. SweptIsForgotten'
  BY <1>2 DEF SweptIsForgotten
<1>4. /\ ReadsAreTimed' /\ FailedIsUnknown' /\ QueuedIsFading' /\ BodyIsKept'
      /\ FoundDirectVersionIsServed'
  BY <1>1, <1>2
  DEF ReadsAreTimed, Reading, FailedIsUnknown, Visible, QueuedIsFading, BodyIsKept,
      Expired, Spent, FoundDirectVersionIsServed
<1>5. QED
  BY <1>3, <1>4

\* A direct version is scanned only when it is expired.
LEMMA LookupScannedReads ==
  ASSUME TypeOK, LiveInv, ReadInv, ~LostAcks, NEW v \in Versions, LookupScanned(v)
  PROVE  ReadInv'
<1>. USE DEF LiveInv, ReadInv
<1>1. /\ now' = now /\ index' = index /\ stale' = stale /\ queue' = queue
      /\ objects' = objects /\ remaining' = remaining
      /\ retired' = retired /\ location' = location /\ expiresAt' = expiresAt
      /\ writer' = writer /\ reader' = reader
  BY DEF LookupScanned, kv, r2, counters, metadata
<1>2. /\ sweep'.phase = "bucket" /\ sweep.phase = "bucket" /\ v \in sweep.todo
      /\ sweep'.doomed \subseteq sweep.doomed \cup {v}
  BY DEF LookupScanned, TypeOK
<1>3. v \in Direct => Expired(v)
  BY <1>2, Numbers DEF SweepIsSound, Timed, Expired
<1>4. \A u \in Versions : Expired(u)' <=> Expired(u)
  BY <1>1 DEF Expired
<1>5. SweptIsForgotten'
  BY <1>2, <1>3, <1>4, Numbers DEF SweptIsForgotten
<1>6. /\ ReadsAreTimed' /\ FailedIsUnknown' /\ QueuedIsFading' /\ BodyIsKept'
      /\ FoundDirectVersionIsServed'
  BY <1>1, <1>2, <1>3, <1>4
  DEF ReadsAreTimed, Reading, FailedIsUnknown, Visible, QueuedIsFading, BodyIsKept,
      Expired, Spent, FoundDirectVersionIsServed
<1>7. QED
  BY <1>5, <1>6

\* What the bucket phase deletes of the direct versions is expired.
LEMMA DeleteScannedReads ==
  ASSUME TypeOK, LiveInv, ReadInv, ~LostAcks, DeleteScanned
  PROVE  ReadInv'
<1>. USE DEF LiveInv, ReadInv
<1>1. /\ now' = now /\ index' = index /\ stale' = stale /\ queue' = queue
      /\ remaining' = remaining /\ retired' = retired
      /\ location' = location /\ expiresAt' = expiresAt /\ writer' = writer
      /\ reader' = reader
  BY DEF DeleteScanned, kv, r2, counters, metadata
<1>2. sweep.phase = "bucket" /\ sweep'.phase = "idle"
  BY DEF DeleteScanned, NoSweep
<1>3. \A u \in Versions : u \notin sweep.doomed => objects'[u] = objects[u]
  BY DEF DeleteScanned
<1>4. \A u \in sweep.doomed \cap Direct : Expired(u)
  BY <1>2 DEF SweptIsForgotten
<1>5. /\ Visible' = Visible /\ \A r \in Readers : Reading(r)' <=> Reading(r)
      /\ \A u \in Versions : (Expired(u)' <=> Expired(u)) /\ (Spent(u)' <=> Spent(u))
  BY <1>1 DEF Visible, Reading, Expired, Spent
<1>6. SweptIsForgotten'
  BY <1>2 DEF SweptIsForgotten
<1>7. BodyIsKept'
  BY <1>1, <1>3, <1>4, <1>5, Numbers DEF BodyIsKept
<1>8. ReadsAreTimed' /\ FailedIsUnknown' /\ QueuedIsFading' /\ FoundDirectVersionIsServed'
  BY <1>1, <1>2, <1>3, <1>4, <1>5
  DEF ReadsAreTimed, Reading, FailedIsUnknown, Visible, QueuedIsFading,
      FoundDirectVersionIsServed, Expired, Spent
<1>9. QED
  BY <1>6, <1>7, <1>8

\* So it is when the sweep is stopped.
LEMMA AbortSweepReads ==
  ASSUME TypeOK, LiveInv, ReadInv, ~LostAcks, AbortSweep
  PROVE  ReadInv'
<1>. USE DEF LiveInv, ReadInv
<1>1. /\ now' = now /\ index' = index /\ stale' = stale /\ queue' = queue
      /\ remaining' = remaining /\ retired' = retired
      /\ location' = location /\ expiresAt' = expiresAt /\ writer' = writer
      /\ reader' = reader
  BY DEF AbortSweep, kv, r2, counters, metadata
<1>2. sweep'.phase = "idle" /\ sweep.phase \in {"queue", "bucket"}
  BY DEF AbortSweep, NoSweep, TypeOK
<1>3. \A u \in Versions : u \notin sweep.doomed => objects'[u] = objects[u]
  BY DEF AbortSweep, TypeOK
<1>4. \A u \in sweep.doomed \cap Direct :
        Expired(u) \/ (u \notin Visible /\ \A r \in Readers : Reading(r) => reader[r].version # u)
  BY <1>2 DEF SweptIsForgotten
<1>5. /\ Visible' = Visible /\ \A r \in Readers : Reading(r)' <=> Reading(r)
      /\ \A u \in Versions : (Expired(u)' <=> Expired(u)) /\ (Spent(u)' <=> Spent(u))
  BY <1>1 DEF Visible, Reading, Expired, Spent
<1>6. SweptIsForgotten'
  BY <1>2 DEF SweptIsForgotten
<1>7. BodyIsKept'
  BY <1>1, <1>3, <1>4, <1>5, Numbers DEF BodyIsKept
<1>8. ReadsAreTimed' /\ FailedIsUnknown' /\ QueuedIsFading' /\ FoundDirectVersionIsServed'
  BY <1>1, <1>2, <1>3, <1>4, <1>5
  DEF ReadsAreTimed, Reading, FailedIsUnknown, Visible, QueuedIsFading,
      FoundDirectVersionIsServed, Expired, Spent
<1>9. QED
  BY <1>6, <1>7, <1>8

\* Time passes: nothing becomes visible, and a read is waited for.
LEMMA TickReads ==
  ASSUME TypeOK, LiveInv, ReadInv, ~LostAcks, Tick
  PROVE  ReadInv'
<1>. USE DEF LiveInv, ReadInv
<1>1. /\ index' = index /\ queue' = queue /\ objects' = objects /\ remaining' = remaining
      /\ retired' = retired /\ location' = location
      /\ expiresAt' = expiresAt /\ writer' = writer /\ reader' = reader /\ sweep' = sweep
  BY DEF Tick, r2, counters, metadata
<1>2. now' = now + 1 /\ now \in Nat /\ stale' \subseteq stale
  BY DEF Tick, TypeOK
<1>3. \A r \in Readers : Reading(r) => now < reader[r].since + RequestSpan
  BY DEF Tick, Reading, InTime
<1>4. \A v \in Versions : (Expired(v) => Expired(v)') /\ (Spent(v)' <=> Spent(v))
  BY <1>1, <1>2 DEF Expired, Spent, TypeOK
<1>5. Visible' \subseteq Visible /\ \A r \in Readers : Reading(r)' <=> Reading(r)
  BY <1>1, <1>2 DEF Visible, Reading
<1>6. ReadsAreTimed'
  BY <1>1, <1>2, <1>3, <1>5, Numbers, StoreAssumption DEF ReadsAreTimed
<1>7. FailedIsUnknown'
  BY <1>1, <1>5 DEF FailedIsUnknown
<1>8. QueuedIsFading'
  BY <1>1, <1>2, <1>5 DEF QueuedIsFading
<1>9. SweptIsForgotten'
  BY <1>1, <1>4, <1>5, Numbers DEF SweptIsForgotten
<1>10. BodyIsKept'
  BY <1>1, <1>4, <1>5, Numbers DEF BodyIsKept
<1>11. FoundDirectVersionIsServed'
  BY <1>1, <1>4, Numbers DEF FoundDirectVersionIsServed
<1>12. QED
  BY <1>6, <1>7, <1>8, <1>9, <1>10, <1>11

LEMMA WriteReads ==
  ASSUME TypeOK, LiveInv, ReadInv, ~LostAcks, NEW w \in Writers, WriteStep(w) \/ AbortWrite(w)
  PROVE  ReadInv'
<1>1. CASE PutIndex(w)
  BY <1>1, PutReads
<1>2. CASE QueueOriginal(w)
  BY <1>2, QueueOriginalReads
<1>3. CASE w \in Versions /\ QueueFailed(w)
  BY <1>3, QueueFailedReads
<1>4. CASE FailIndex(w)
  <2>1. UNCHANGED <<now, kv, r2, counters, metadata, reader, sweep>>
    BY <1>4 DEF FailIndex
  <2>2. \A v \in Versions : writer'[v].pc = "failed" => Fresh(v) \/ writer[v].pc = "failed"
    BY <1>4, GotoMoves DEF FailIndex, Fresh, Writers
  <2>3. QED
    BY <2>1, <2>2, UnseenWriteReads DEF r2, counters, metadata
<1>5. CASE RetireOriginal(w)
  <2>1. \A v \in Versions : writer'[v].pc = "failed" => Fresh(v) \/ writer[v].pc = "failed"
    BY <1>5, GotoMoves DEF RetireOriginal, Writers
  <2>2. QED
    BY <1>5, <2>1, UnseenWriteReads DEF RetireOriginal, r2, metadata
<1>6. CASE AbortWrite(w)
  <2>1. \A v \in Versions : writer'[v].pc = "failed" => Fresh(v) \/ writer[v].pc = "failed"
    BY <1>6, GotoMoves DEF AbortWrite, Writers
  <2>2. QED
    BY <1>6, <2>1, UnseenWriteReads DEF AbortWrite, r2, counters, metadata
<1>7. CASE w \in Versions /\ StoreContent(w)
  <2>1. Fresh(w)
    BY <1>7 DEF StoreContent, Fresh
  <2>2. \A v \in Versions : writer'[v].pc = "failed" => Fresh(v) \/ writer[v].pc = "failed"
    BY <1>7, GotoMoves DEF StoreContent, Writers
  <2>3. \A v \in Versions : v # w => objects'[v] = objects[v] /\ remaining'[v] = remaining[v]
    BY <1>7 DEF StoreContent, TypeOK
  <2>4. QED
    BY <1>7, <2>1, <2>2, <2>3, UnseenWriteReads DEF StoreContent, metadata
<1>8. CASE w \in Versions /\ FailContent(w)
  <2>1. Fresh(w)
    BY <1>8 DEF FailContent, Fresh
  <2>2. \A v \in Versions : writer'[v].pc = "failed" => Fresh(v) \/ writer[v].pc = "failed"
    BY <1>8, <2>1, GotoMoves DEF FailContent, Writers
  <2>3. \A v \in Versions : v # w => objects'[v] = objects[v]
    BY <1>8 DEF FailContent, TypeOK
  <2>4. QED
    BY <1>8, <2>1, <2>2, <2>3, UnseenWriteReads DEF FailContent, counters, metadata
<1>9. QED
  BY <1>1, <1>2, <1>3, <1>4, <1>5, <1>6, <1>7, <1>8 DEF WriteStep

LEMMA StartReads ==
  ASSUME TypeOK, LiveInv, ReadInv, ~LostAcks, NEW v \in Versions,
         StartWrite(v) \/ CreateUpload(v) \/ CompleteUpload(v) \/ RejectUpload(v)
  PROVE  ReadInv'
<1>1. v \in Writers /\ Fresh(v)
  BY DEF Writers, Fresh, StartWrite, CreateUpload, CompleteUpload, RejectUpload
<1>2. UNCHANGED <<now, kv, queue, counters, reader, sweep>>
  BY DEF StartWrite, CreateUpload, CompleteUpload, RejectUpload, r2
<1>3. \A u \in Versions : u # v => objects'[u] = objects[u]
  BY DEF StartWrite, CreateUpload, CompleteUpload, RejectUpload, r2, TypeOK
<1>4. \A u \in Versions : u # v => location'[u] = location[u] /\ expiresAt'[u] = expiresAt[u]
  BY DEF StartWrite, CreateUpload, CompleteUpload, RejectUpload, Prepare, metadata, TypeOK
<1>5. \A u \in Versions : writer'[u].pc = "failed" => Fresh(u) \/ writer[u].pc = "failed"
  <2>1. \A x \in Writers : x # v => writer'[x] = writer[x]
    BY <1>1, GotoMoves, BeginMoves
    DEF StartWrite, CreateUpload, CompleteUpload, RejectUpload
  <2>2. QED
    BY <1>1, <2>1 DEF Writers
<1>6. QED
  BY <1>1, <1>2, <1>3, <1>4, <1>5, UnseenWriteReads DEF counters

LEMMA DeleteReads ==
  ASSUME TypeOK, LiveInv, ReadInv, ~LostAcks, NEW d \in Deletes, StartDelete(d)
  PROVE  ReadInv'
<1>1. d \in Writers /\ d \notin Versions
  BY StoreAssumption DEF Writers
<1>2. \A u \in Versions : writer'[u] = writer[u]
  BY <1>1, BeginMoves DEF StartDelete, Writers
<1>3. QED
  BY <1>2, UnseenWriteReads DEF StartDelete, r2, counters, metadata

\* Every step keeps the invariant, as long as a KV put that fails is not stored.
LEMMA NextReads ==
  ASSUME TypeOK, LiveInv, ReadInv, ~LostAcks, [Next]_vars
  PROVE  ReadInv'
<1>1. CASE UNCHANGED vars
  BY <1>1
  DEF vars, kv, r2, counters, metadata, ReadInv, ReadsAreTimed, FailedIsUnknown,
      QueuedIsFading, SweptIsForgotten, BodyIsKept, FoundDirectVersionIsServed, Reading,
      Visible, Expired, Spent
<1>2. CASE SweepStep \/ AbortSweep
  BY <1>2, SweepQueueReads, LookupQueuedReads, DeleteQueuedReads, SweepBucketReads,
     LookupScannedReads, DeleteScannedReads, AbortSweepReads
  DEF SweepStep
<1>3. ASSUME NEW r \in Readers, FindRecord(r) \/ ReadStep(r)
      PROVE  ReadInv'
  BY <1>3, FindRecordReads, ConsumeReadReads, OpenBodyReads, CleanupVersionReads
  DEF ReadStep
<1>4. QED
  BY <1>1, <1>2, <1>3, StartReads, DeleteReads, WriteReads, TickReads DEF Next, Step

LEMMA ReadInvariant ==
  ASSUME ~LostAcks
  PROVE  Spec => []ReadInv
<1>1. Init => ReadInv
  BY InitReads
<1>2. TypeOK /\ LiveInv /\ ReadInv /\ [Next]_vars => ReadInv'
  BY NextReads
<1>3. QED
  BY <1>1, <1>2, LiveInvariant, PTL DEF Spec

\* A read that found a version that was written directly gets its body, also when
\* the version was replaced or deleted meanwhile, unless the version is dead.  A
\* put that is reported as failed must not be stored: the version of such a put is
\* queued while the index names it, and a sweep that has taken the entry deletes the
\* object as soon as the version is replaced, while other locations still serve it.
THEOREM FoundDirectVersionKeepsItsBody ==
  ASSUME ~LostAcks
  PROVE  Spec => []FoundDirectVersionIsServed
<1>1. ReadInv => FoundDirectVersionIsServed
  BY DEF ReadInv
<1>2. QED
  BY <1>1, ReadInvariant, PTL

=============================================================================

----------------------------- MODULE PasteStore -----------------------------
(***************************************************************************)
(* One paste name in the store (worker/storage/storage.ts with the request *)
(* handlers that call it): the KV index that names the live version, the   *)
(* immutable R2 objects of the versions, the clean-up queue and the        *)
(* scheduled sweep.  Writers, readers and the sweep run in different       *)
(* Workers, with nothing between them but KV, R2 and the read counters;    *)
(* each await of the code is a step here.                                  *)
(*                                                                         *)
(* KV is eventually consistent: for Staleness after a change, a reader     *)
(* elsewhere may find what was there before.  R2 and the counters are      *)
(* strongly consistent.  A KV put may fail after it was stored (LostAcks). *)
(*                                                                         *)
(* A write is identified with the version it creates, so an object key is  *)
(* the version.  Left out: bodies, passwords, the metadata that is not     *)
(* about a version's life, the paging of the sweep (every listing fits a   *)
(* page here), and the counters' own alarms (PasteReadCounter).            *)
(***************************************************************************)
EXTENDS Integers

CONSTANTS
  Direct,       \* writes that carry their content
  Multipart,    \* writes that complete a multipart upload
  Deletes,      \* DELETE requests
  Readers,      \* GET requests
  None,         \* no version
  Limited,      \* the versions with a read limit
  Limit,        \* their number of reads
  Lifetime,     \* expirationSeconds of every version
  Grace,        \* R2_CLEANUP_GRACE_MS
  Staleness,    \* how long a location may serve a replaced KV value
  RequestSpan,  \* how long a request or a sweep may take
  LostAcks,     \* may a KV put be stored and still be reported as failed?
  Horizon,      \* bound: requests begin before this instant
  LastInstant   \* bound: the clock stops here

Versions == Direct \cup Multipart
Writers == Versions \cup Deletes

ASSUME StoreAssumption ==
  /\ Direct \cap Multipart = {} /\ Versions \cap Deletes = {}
  /\ None \notin Writers
  /\ Limited \subseteq Versions
  /\ Limit \in Nat \ {0}
  /\ Lifetime \in Nat /\ Grace \in Nat /\ Staleness \in Nat /\ RequestSpan \in Nat
  /\ LostAcks \in BOOLEAN
  /\ Horizon \in Nat /\ LastInstant \in Nat

\* The grace period covers a write and the propagation of its index entry.
ASSUME GraceAssumption == RequestSpan + Staleness < Grace

VARIABLES
  now,
  index,       \* KV: the version the name stands for, or None
  stale,       \* KV: replaced index values a location may still serve
  queue,       \* KV: queuedAtMs of each version's clean-up entry, or Never
  objects,     \* R2: when the object of each version was uploaded, or Never
  remaining,   \* counters: reads left of each version
  retired,     \* counters: the versions replaced by a tombstone
  location,    \* metadata of each version: "KV" or "R2"
  expiresAt,   \* metadata of each version: willExpireAtUnix
  writer,      \* the running writes
  reader,      \* the running reads
  sweep        \* the scheduled clean-up

kv == <<index, stale>>
r2 == <<objects, queue>>
counters == <<remaining, retired>>
metadata == <<location, expiresAt>>
vars == <<now, kv, r2, counters, metadata, writer, reader, sweep>>

Never == -1

-----------------------------------------------------------------------------
(* What KV and the counters answer.                                        *)

Visible == {index} \cup {old.version : old \in stale}

Expired(v) == expiresAt[v] < now

\* getPasteMetadata, from any location: an expired version is no version.
Lookup == {IF v = None \/ Expired(v) THEN None ELSE v : v \in Visible \ {None}}
          \cup (Visible \cap {None})

\* What the counter of a version with a read limit answers.
ReadsLeft(v) == v \notin retired /\ now < expiresAt[v] /\ remaining[v] > 0

\* requirePasteMetadata and pasteNameAvailable: a paste without reads is no paste.
Usable(v) == v # None /\ (v \in Limited => ReadsLeft(v))

\* A KV write of the index: other locations go on serving the old value.
SetIndex(v) ==
  /\ index' = v
  /\ stale' = stale \cup {[version |-> index, until |-> now + Staleness]}

-----------------------------------------------------------------------------
Idle == [pc |-> "idle", original |-> None, since |-> 0]
NoSweep == [phase |-> "idle", at |-> 0, todo |-> {}, doomed |-> {}]

Init ==
  /\ now = 0
  /\ index = None
  /\ stale = {}
  /\ queue = [v \in Versions |-> Never]
  /\ objects = [v \in Versions |-> Never]
  /\ remaining = [v \in Versions |-> 0]
  /\ retired = {}
  /\ location = [v \in Versions |-> "KV"]
  /\ expiresAt = [v \in Versions |-> 0]
  /\ writer = [w \in Writers |-> Idle]
  /\ reader = [r \in Readers |-> [pc |-> "idle", version |-> None, final |-> FALSE, since |-> 0]]
  /\ sweep = NoSweep

Goto(w, pc) == writer' = [writer EXCEPT ![w].pc = pc]

-----------------------------------------------------------------------------
(* Writes.                                                                 *)

Begin(w, original, pc) ==
  writer' = [writer EXCEPT ![w] = [pc |-> pc, original |-> original, since |-> now]]

\* preparePasteWrite: an update never moves a paste out of R2.
Prepare(v, original) ==
  /\ expiresAt' = [expiresAt EXCEPT ![v] = now + Lifetime]
  /\ \E loc \in {"KV", "R2"} :
       /\ v \in Multipart \/ (original # None /\ location[original] = "R2") => loc = "R2"
       /\ location' = [location EXCEPT ![v] = loc]

\* POST takes an unused name; PUT takes the version it finds as its original.
StartWrite(v) ==
  /\ v \in Direct /\ writer[v].pc = "idle" /\ now < Horizon
  /\ \E seen \in Lookup :
       LET original == IF Usable(seen) THEN seen ELSE None IN
       /\ Begin(v, original, "preparing")
       /\ Prepare(v, original)
  /\ UNCHANGED <<now, kv, r2, counters, reader, sweep>>

\* /mpu/create and /mpu/create-update: the name was unused, or named a paste.
\* The upload may take any time; nothing reserves the name.
CreateUpload(v) ==
  /\ v \in Multipart /\ writer[v].pc = "idle" /\ now < Horizon
  /\ \E seen \in Lookup : Goto(v, IF Usable(seen) THEN "updating" ELSE "creating")
  /\ UNCHANGED <<now, kv, r2, counters, metadata, reader, sweep>>

\* /mpu/complete: an update reads its original again, then R2 has the object.
CompleteUpload(v) ==
  /\ now < Horizon
  /\ \E original \in Lookup \cup {None} :
       /\ \/ writer[v].pc = "creating" /\ original = None
          \/ writer[v].pc = "updating" /\ original \in Lookup /\ Usable(original)
       /\ Begin(v, original, "preparing")
       /\ Prepare(v, original)
  /\ objects' = [objects EXCEPT ![v] = now]
  /\ UNCHANGED <<now, kv, queue, counters, reader, sweep>>

\* The completed object is too large: it is deleted, if that succeeds.
RejectUpload(v) ==
  /\ writer[v].pc \in {"creating", "updating"} /\ now < Horizon
  /\ objects' \in {objects, [objects EXCEPT ![v] = now]}
  /\ Goto(v, "done")
  /\ UNCHANGED <<now, kv, queue, counters, metadata, reader, sweep>>

StartDelete(d) ==
  /\ d \in Deletes /\ writer[d].pc = "idle" /\ now < Horizon
  /\ \E seen \in Lookup : Usable(seen) /\ Begin(d, seen, "indexing")
  /\ UNCHANGED <<now, kv, r2, counters, metadata, reader, sweep>>

\* persistPaste: the counter, then the object of a direct write to R2.
StoreContent(v) ==
  /\ writer[v].pc = "preparing"
  /\ remaining' = [remaining EXCEPT ![v] = IF v \in Limited THEN Limit ELSE 0]
  /\ objects' = IF v \in Direct /\ location[v] = "R2"
                THEN [objects EXCEPT ![v] = now] ELSE objects
  /\ Goto(v, "indexing")
  /\ UNCHANGED <<now, kv, queue, retired, metadata, reader, sweep>>

\* The counter or R2 failed, with or without the object.
FailContent(v) ==
  /\ writer[v].pc = "preparing"
  /\ \/ UNCHANGED objects
     \/ v \in Direct /\ location[v] = "R2" /\ objects' = [objects EXCEPT ![v] = now]
  /\ Goto(v, "failed")
  /\ UNCHANGED <<now, kv, queue, counters, metadata, reader, sweep>>

\* As PutIndex, but the counter of the original is retired before the index is put.
EagerlyRetiringPutIndex(w) ==
  /\ writer[w].pc = "indexing"
  /\ retired' = retired \cup ({writer[w].original} \cap Limited)
  /\ \/ /\ SetIndex(IF w \in Versions THEN w ELSE None)
        /\ Goto(w, IF writer[w].original = None THEN "done" ELSE "queueing")
     \/ UNCHANGED <<kv, writer>>
  /\ UNCHANGED <<now, r2, remaining, metadata, reader, sweep>>

\* The index is put (or deleted): this commits the write.
PutIndex(w) ==
  /\ writer[w].pc = "indexing"
  /\ SetIndex(IF w \in Versions THEN w ELSE None)
  /\ Goto(w, IF writer[w].original = None THEN "done" ELSE "queueing")
  /\ UNCHANGED <<now, r2, counters, metadata, reader, sweep>>

FailIndex(w) ==
  /\ writer[w].pc = "indexing"
  /\ \/ UNCHANGED kv
     \/ LostAcks /\ SetIndex(IF w \in Versions THEN w ELSE None)
  /\ Goto(w, IF w \in Versions THEN "failed" ELSE "done")
  /\ UNCHANGED <<now, r2, counters, metadata, reader, sweep>>

\* queueR2Cleanup: a failure to queue is ignored.
Queue(v) ==
  queue' \in {queue, IF location[v] = "R2" THEN [queue EXCEPT ![v] = now] ELSE queue}

QueueFailed(v) ==
  /\ writer[v].pc = "failed"
  /\ Queue(v)
  /\ Goto(v, "done")
  /\ UNCHANGED <<now, kv, objects, counters, metadata, reader, sweep>>

\* As QueueOriginal, but the object is deleted at once.
HastyQueueOriginal(w) ==
  /\ writer[w].pc = "queueing"
  /\ objects' = [objects EXCEPT ![writer[w].original] = Never]
  /\ Goto(w, "retiring")
  /\ UNCHANGED <<now, kv, queue, counters, metadata, reader, sweep>>

QueueOriginal(w) ==
  /\ writer[w].pc = "queueing"
  /\ Queue(writer[w].original)
  /\ Goto(w, "retiring")
  /\ UNCHANGED <<now, kv, objects, counters, metadata, reader, sweep>>

\* retireReadState: a failure is ignored.
RetireOriginal(w) ==
  /\ writer[w].pc = "retiring"
  /\ retired' \in {retired, retired \cup ({writer[w].original} \cap Limited)}
  /\ Goto(w, "done")
  /\ UNCHANGED <<now, kv, r2, remaining, metadata, reader, sweep>>

\* The Worker is stopped in the middle of a request.
AbortWrite(w) ==
  /\ writer[w].pc \notin {"idle", "done"}
  /\ Goto(w, "done")
  /\ UNCHANGED <<now, kv, r2, counters, metadata, reader, sweep>>

WriteStep(w) ==
  \/ PutIndex(w) \/ FailIndex(w) \/ QueueOriginal(w) \/ RetireOriginal(w)
  \/ w \in Versions /\ (StoreContent(w) \/ FailContent(w) \/ QueueFailed(w))

-----------------------------------------------------------------------------
(* Reads.                                                                  *)

\* getPasteRecord: an expired version is cleaned up behind the answer.
FindRecord(r) ==
  /\ reader[r].pc = "idle" /\ now < Horizon
  /\ \E v \in Visible \ {None} :
       reader' = [reader EXCEPT ![r] =
         [pc |-> IF Expired(v) THEN "reaping" ELSE "found",
          version |-> v, final |-> FALSE, since |-> now]]
  /\ UNCHANGED <<now, kv, r2, counters, metadata, writer, sweep>>

\* As ConsumeRead, but an exhausted counter is not noticed.
UncheckedConsumeRead(r) ==
  LET v == reader[r].version IN
  /\ reader[r].pc = "found"
  /\ remaining' = IF v \in Limited THEN [remaining EXCEPT ![v] = @ - 1] ELSE remaining
  /\ reader' = [reader EXCEPT ![r].pc = "admitted"]
  /\ UNCHANGED <<now, kv, r2, retired, metadata, writer, sweep>>

\* consumeReadBeforeResponse: the read that takes the last one cleans up.
ConsumeRead(r) ==
  LET v == reader[r].version IN
  /\ reader[r].pc = "found"
  /\ \/ /\ v \notin Limited
        /\ reader' = [reader EXCEPT ![r].pc = "admitted"]
        /\ UNCHANGED remaining
     \/ /\ v \in Limited /\ ~ReadsLeft(v)
        /\ reader' = [reader EXCEPT ![r].pc = "done"]
        /\ UNCHANGED remaining
     \/ /\ v \in Limited /\ ReadsLeft(v)
        /\ remaining' = [remaining EXCEPT ![v] = @ - 1]
        /\ reader' = [reader EXCEPT ![r].pc = "admitted", ![r].final = (remaining[v] = 1)]
  /\ UNCHANGED <<now, kv, r2, retired, metadata, writer, sweep>>

\* openPasteBody: without its object the read fails, although it was counted.
OpenBody(r) ==
  LET v == reader[r].version IN
  /\ reader[r].pc = "admitted"
  /\ reader' = [reader EXCEPT ![r].pc =
       IF location[v] = "R2" /\ objects[v] = Never THEN "lost"
       ELSE IF reader[r].final THEN "reaping"
       ELSE "done"]
  /\ UNCHANGED <<now, kv, r2, counters, metadata, writer, sweep>>

\* cleanupPasteVersion, in waitUntil: only the object of the version it read.
CleanupVersion(r) ==
  /\ reader[r].pc = "reaping"
  /\ objects' = [objects EXCEPT ![reader[r].version] = Never]
  /\ reader' = [reader EXCEPT ![r].pc = "done"]
  /\ UNCHANGED <<now, kv, queue, counters, metadata, writer, sweep>>

ReadStep(r) == ConsumeRead(r) \/ OpenBody(r) \/ CleanupVersion(r)

-----------------------------------------------------------------------------
(* The sweep: first the queue, then the bucket.                            *)

SweepQueue ==
  /\ sweep.phase = "idle"
  /\ sweep' = [phase |-> "queue", at |-> now, doomed |-> {},
               todo |-> {v \in Versions : queue[v] # Never /\ queue[v] <= now - Grace}]
  /\ UNCHANGED <<now, kv, r2, counters, metadata, writer, reader>>

\* A queued object is kept for as long as the index names it.
LookupQueued(v) ==
  /\ sweep.phase = "queue" /\ v \in sweep.todo
  /\ \E live \in Lookup :
       sweep' = [sweep EXCEPT !.todo = @ \ {v},
                              !.doomed = IF live = v THEN @ ELSE @ \cup {v}]
  /\ UNCHANGED <<now, kv, r2, counters, metadata, writer, reader>>

\* The object, then its entry.
DeleteQueued(v) ==
  /\ sweep.phase = "queue" /\ v \in sweep.doomed
  /\ objects' = [objects EXCEPT ![v] = Never]
  /\ queue' = [queue EXCEPT ![v] = Never]
  /\ sweep' = [sweep EXCEPT !.doomed = @ \ {v}]
  /\ UNCHANGED <<now, kv, counters, metadata, writer, reader>>

\* As InBucketScan, but a recent upload is scanned too.
GracelessInBucketScan(v) ==
  /\ objects[v] # Never
  /\ v \in Multipart \/ expiresAt[v] < sweep.at

\* As InBucketScan, but only an object that carries its expiry is scanned.
MetadataInBucketScan(v) ==
  /\ objects[v] # Never
  /\ objects[v] <= sweep.at - Grace
  /\ v \in Direct /\ expiresAt[v] < sweep.at

\* An old upload that is expired, or carries no expiry because it was multipart.
InBucketScan(v) ==
  /\ objects[v] # Never
  /\ objects[v] <= sweep.at - Grace
  /\ v \in Multipart \/ expiresAt[v] < sweep.at

SweepBucket ==
  /\ sweep.phase = "queue" /\ sweep.todo = {} /\ sweep.doomed = {}
  /\ sweep' = [sweep EXCEPT !.phase = "bucket", !.todo = {v \in Versions : InBucketScan(v)}]
  /\ UNCHANGED <<now, kv, r2, counters, metadata, writer, reader>>

LookupScanned(v) ==
  /\ sweep.phase = "bucket" /\ v \in sweep.todo
  /\ \E live \in Lookup :
       sweep' = [sweep EXCEPT
         !.todo = @ \ {v},
         !.doomed = IF live = v /\ expiresAt[v] >= sweep.at THEN @ ELSE @ \cup {v}]
  /\ UNCHANGED <<now, kv, r2, counters, metadata, writer, reader>>

DeleteScanned ==
  /\ sweep.phase = "bucket" /\ sweep.todo = {}
  /\ objects' = [v \in Versions |-> IF v \in sweep.doomed THEN Never ELSE objects[v]]
  /\ sweep' = NoSweep
  /\ UNCHANGED <<now, kv, queue, counters, metadata, writer, reader>>

\* A call failed, or the Worker was stopped: perhaps an object is gone, its entry not.
AbortSweep ==
  /\ sweep.phase # "idle"
  /\ \/ UNCHANGED objects
     \/ \E v \in sweep.doomed : objects' = [objects EXCEPT ![v] = Never]
  /\ sweep' = NoSweep
  /\ UNCHANGED <<now, kv, queue, counters, metadata, writer, reader>>

SweepStep ==
  \/ SweepQueue
  \/ \E v \in Versions : LookupQueued(v) \/ DeleteQueued(v) \/ LookupScanned(v)
  \/ SweepBucket
  \/ DeleteScanned

-----------------------------------------------------------------------------
InTime(since) == now < since + RequestSpan

\* Time passes while nothing takes longer than RequestSpan; KV forgets old values.
Tick ==
  /\ now < LastInstant
  /\ \A w \in Writers :
       writer[w].pc \in {"idle", "creating", "updating", "done"} \/ InTime(writer[w].since)
  /\ \A r \in Readers : reader[r].pc \in {"idle", "lost", "done"} \/ InTime(reader[r].since)
  /\ sweep.phase = "idle" \/ InTime(sweep.at)
  /\ now' = now + 1
  /\ stale' = {old \in stale : old.until > now}
  /\ UNCHANGED <<index, r2, counters, metadata, writer, reader, sweep>>

Step ==
  \/ \E v \in Versions : StartWrite(v) \/ CreateUpload(v) \/ CompleteUpload(v) \/ RejectUpload(v)
  \/ \E d \in Deletes : StartDelete(d)
  \/ \E w \in Writers : WriteStep(w) \/ AbortWrite(w)
  \/ \E r \in Readers : FindRecord(r) \/ ReadStep(r)
  \/ SweepStep
  \/ Tick

Next == Step \/ AbortSweep

Spec == Init /\ [][Next]_vars

\* Liveness is claimed when sweeps run through: time passes, a request that began
\* ends, and the schedule starts another sweep.
FairSpec ==
  /\ Init
  /\ [][Step]_vars
  /\ WF_vars(Tick)
  /\ \A w \in Writers : WF_vars(WriteStep(w))
  /\ \A r \in Readers : WF_vars(ReadStep(r))
  /\ WF_vars(SweepStep)

-----------------------------------------------------------------------------
(* Properties.                                                             *)

\* The variables hold what the services and the requests may hold.
TypeOK ==
  /\ now \in 0..LastInstant
  /\ index \in Versions \cup {None}
  /\ stale \subseteq [version : Versions \cup {None}, until : Nat]
  /\ queue \in [Versions -> Nat \cup {Never}]
  /\ objects \in [Versions -> Nat \cup {Never}]
  /\ remaining \in [Versions -> 0..Limit]
  /\ retired \subseteq Limited
  /\ location \in [Versions -> {"KV", "R2"}]
  /\ expiresAt \in [Versions -> Nat]
  /\ writer \in [Writers ->
       [pc : {"idle", "creating", "updating", "preparing", "indexing", "failed", "queueing",
              "retiring", "done"},
        original : Versions \cup {None}, since : Nat]]
  /\ reader \in [Readers ->
       [pc : {"idle", "found", "admitted", "reaping", "lost", "done"},
        version : Versions \cup {None}, final : BOOLEAN, since : Nat]]
  /\ sweep \in [phase : {"idle", "queue", "bucket"}, at : Nat,
                todo : SUBSET Versions, doomed : SUBSET Versions]

\* The body of the live version is in R2 for as long as the version is readable:
\* no failed write, late clean-up, stale lookup or sweep ever takes it away.
LiveObjectPresent ==
  (/\ index # None /\ location[index] = "R2" /\ ~Expired(index)
   /\ index \in Limited => remaining[index] > 0)
  => objects[index] # Never

\* The counter of a version is retired only once the index no longer names it: a
\* failed update or delete leaves the live version with its reads.
RetiredIsReplaced == index \notin retired

\* A read that found a version which was written directly gets its body, also when the
\* version was replaced or deleted meanwhile, unless the version expired or its last read
\* was taken.  An upload in parts may lose its body: the bucket scan measures its grace
\* from the upload (storage.ts:557).
FoundDirectVersionIsServed ==
  \A r \in Readers :
    LET v == reader[r].version IN
    reader[r].pc = "lost" /\ v \in Direct => Expired(v) \/ (v \in Limited /\ remaining[v] = 0)

\* An object that the index does not name, and never will, is deleted in the end.
OrphanIsReclaimed ==
  \A v \in Versions :
    (writer[v].pc = "done" /\ index # v /\ objects[v] # Never) ~> objects[v] = Never

=============================================================================

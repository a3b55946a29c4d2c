-------------------------- MODULE PasteReadCounter --------------------------
(***************************************************************************)
(* The Durable Object that counts the reads of ONE version of a            *)
(* read-limited paste (worker/readCounter.ts), with the calls the paste    *)
(* store makes to it (worker/storage/storage.ts): /init before the version *)
(* is published, /consume and /peek by readers, /init with a tombstone     *)
(* once the version was replaced or deleted, and the clean-up alarm.       *)
(*                                                                         *)
(* A request is a storage transaction followed by scheduleCleanup; the     *)
(* object may crash between the two.  The metadata of a version never      *)
(* changes, so every reader sends the same seed; a reader may hold that    *)
(* metadata for any length of time (a stale KV location, a slow request).  *)
(*                                                                         *)
(* Data left out: the uuids, the JSON bodies and the HTTP framing.  Time   *)
(* is in seconds.                                                          *)
(***************************************************************************)
EXTENDS Integers

CONSTANTS
  Limit,              \* remainingReads of the version's metadata
  ExpiresAt,          \* its willExpireAtUnix
  OriginalExpiresAt,  \* expiry of the version it replaces (0 for a new paste)
  Horizon             \* bound: requests arrive before this instant

ASSUME CounterAssumption ==
  /\ Limit \in Nat
  /\ ExpiresAt \in Nat
  /\ OriginalExpiresAt \in Nat
  /\ Horizon \in Nat

VARIABLES
  now,         \* Date.now() of the Durable Object
  stored,      \* the record under READ_STATE_KEY, or NoState
  alarm,       \* the alarm of the object, or NoAlarm
  scheduling,  \* requests whose transaction is done and scheduleCleanup is not
  status,      \* where the version is in its life
  retired,     \* history: a tombstone was stored
  granted,     \* history: number of transactions that answered "allowed"
  unwatched    \* history: the object crashed and has not answered a request since

vars == <<now, stored, alarm, scheduling, status, retired, granted, unwatched>>

NoAlarm == -1
NullReads == -1      \* remainingReads: null

NoState ==
  [version |-> "none", remainingReads |-> NullReads, expiresAt |-> 0, cleanupAt |-> 0]

Later(a, b) == IF a < b THEN b ELSE a

-----------------------------------------------------------------------------
(* Seeds: what the paste store sends, after normalizeSeed.                 *)

\* readStateSeed: sent with /consume and /peek; no cleanupAt, so it is expiresAt.
Seed ==
  [version |-> "live", remainingReads |-> Limit,
   expiresAt |-> ExpiresAt, cleanupAt |-> ExpiresAt]

\* The seed of preparePasteWrite: the counter outlives the version it replaces.
InitSeed == [Seed EXCEPT !.cleanupAt = Later(ExpiresAt, OriginalExpiresAt)]

\* The seed of retireReadState.  It must stay until the metadata it answers
\* for has expired, or a stale reader would seed the counter again.
Tombstone ==
  [version |-> "deleted", remainingReads |-> NullReads,
   expiresAt |-> now, cleanupAt |-> Later(now, ExpiresAt)]

\* As Reconcile, but the seed wins when it is larger.
GenerousReconcile(record, seed) ==
  IF record.version = seed.version /\ record.remainingReads < seed.remainingReads
  THEN [record EXCEPT !.remainingReads = seed.remainingReads]
  ELSE record

\* reconcileRemainingReads: the stored count is lowered to the seed's, never raised.
Reconcile(record, seed) ==
  IF \/ record.version # seed.version
     \/ record.remainingReads = NullReads
     \/ seed.remainingReads = NullReads
     \/ seed.remainingReads >= record.remainingReads
  THEN record
  ELSE [record EXCEPT !.remainingReads = seed.remainingReads]

\* As MergeInit, but a tombstone does not replace the live count.
ReconcilingMergeInit(record, seed) ==
  IF record = NoState THEN seed ELSE Reconcile(record, seed)

\* mergeInit.  Tombstone versions are fresh uuids: two are never the same version.
MergeInit(record, seed) ==
  IF record.version # seed.version \/ seed.version = "deleted"
  THEN seed
  ELSE Reconcile([record EXCEPT !.expiresAt = seed.expiresAt,
                                !.cleanupAt = Later(record.cleanupAt, seed.cleanupAt)],
                 seed)

\* What a request finds: the stored record, or its own seed when there is none.
Found == Reconcile(IF stored = NoState THEN Seed ELSE stored, Seed)

Denied(record) ==
  \/ record.version # Seed.version
  \/ record.remainingReads = NullReads
  \/ now >= record.expiresAt

\* As AlarmTime, but the alarm is not held back until cleanupAt.
EagerAlarmTime(cleanupAt) == now + 1

AlarmTime(cleanupAt) == Later(cleanupAt, now + 1)

-----------------------------------------------------------------------------
Init ==
  /\ now = 0
  /\ stored = NoState
  /\ alarm = NoAlarm
  /\ scheduling = {}
  /\ status = "unpublished"
  /\ retired = FALSE
  /\ granted = 0
  /\ unwatched = FALSE

\* persistPaste prepares the counter of the new version first.
InitCounter ==
  /\ status = "unpublished"
  /\ now < Horizon
  /\ stored' = MergeInit(stored, InitSeed)
  /\ scheduling' = scheduling \cup {[op |-> "init", cleanupAt |-> stored'.cleanupAt]}
  /\ status' = "preparing"
  /\ UNCHANGED <<now, alarm, retired, granted, unwatched>>

\* The counter answered and the KV index put succeeded: readers can find the version.
Publish ==
  /\ status = "prepared"
  /\ status' = "published"
  /\ UNCHANGED <<now, stored, alarm, scheduling, retired, granted, unwatched>>

\* The R2 or KV put failed: the counter exists, and no reader ever learns of it.
AbandonWrite ==
  /\ status = "prepared"
  /\ status' = "abandoned"
  /\ UNCHANGED <<now, stored, alarm, scheduling, retired, granted, unwatched>>

\* As Consume, but an exhausted counter still answers "allowed".
UncheckedConsume ==
  /\ status = "published"
  /\ now < Horizon
  /\ scheduling' = scheduling \cup {[op |-> "read", cleanupAt |-> Found.cleanupAt]}
  /\ \/ /\ Denied(Found)
        /\ UNCHANGED <<stored, granted>>
     \/ /\ ~Denied(Found)
        /\ stored' = [Found EXCEPT !.remainingReads = @ - 1]
        /\ granted' = granted + 1
  /\ UNCHANGED <<now, alarm, status, retired, unwatched>>

\* /consume: the check and the decrement are one transaction.
Consume ==
  /\ status = "published"
  /\ now < Horizon
  /\ scheduling' = scheduling \cup {[op |-> "read", cleanupAt |-> Found.cleanupAt]}
  /\ \/ /\ Denied(Found) \/ Found.remainingReads <= 0
        /\ UNCHANGED <<stored, granted>>
     \/ /\ ~Denied(Found) /\ Found.remainingReads > 0
        /\ stored' = [Found EXCEPT !.remainingReads = @ - 1]
        /\ granted' = granted + 1
  /\ UNCHANGED <<now, alarm, status, retired, unwatched>>

\* /peek (HEAD, /m, name reuse): persists what it found when the count changed.
Peek ==
  /\ status = "published"
  /\ now < Horizon
  /\ scheduling' = scheduling \cup {[op |-> "read", cleanupAt |-> Found.cleanupAt]}
  /\ stored' = IF Denied(Found) THEN stored ELSE Found
  /\ UNCHANGED <<now, alarm, status, retired, granted, unwatched>>

\* updatePaste or deletePaste, holding this version as the original, is done with it.
Retire ==
  /\ status = "published"
  /\ now < Horizon
  /\ stored' = MergeInit(stored, Tombstone)
  /\ scheduling' = scheduling \cup {[op |-> "retire", cleanupAt |-> stored'.cleanupAt]}
  /\ retired' = TRUE
  /\ UNCHANGED <<now, alarm, status, granted, unwatched>>

\* As ScheduleCleanup, but only the first request of the object sets an alarm.
ScheduleOnce(request) ==
  /\ request \in scheduling
  /\ scheduling' = scheduling \ {request}
  /\ alarm' = IF request.op = "init" THEN AlarmTime(request.cleanupAt) ELSE alarm
  /\ status' = IF request.op = "init" /\ status = "preparing" THEN "prepared" ELSE status
  /\ unwatched' = FALSE
  /\ UNCHANGED <<now, stored, retired, granted>>

\* scheduleCleanup, then the answer: the alarm only ever moves later.
ScheduleCleanup(request) ==
  /\ request \in scheduling
  /\ scheduling' = scheduling \ {request}
  /\ alarm' = IF alarm = NoAlarm \/ alarm < AlarmTime(request.cleanupAt)
              THEN AlarmTime(request.cleanupAt)
              ELSE alarm
  /\ status' = IF request.op = "init" /\ status = "preparing" THEN "prepared" ELSE status
  /\ unwatched' = FALSE
  /\ UNCHANGED <<now, stored, retired, granted>>

\* alarm(): everything this object stored is gone.
Alarm ==
  /\ alarm # NoAlarm
  /\ now >= alarm
  /\ stored' = NoState
  /\ alarm' = NoAlarm
  /\ UNCHANGED <<now, scheduling, status, retired, granted, unwatched>>

\* The object is evicted or reset: transactions stay, unfinished requests fail.
\* A writer whose /init failed does not publish.
Crash ==
  /\ scheduling # {}
  /\ scheduling' = {}
  /\ status' = IF status = "preparing" THEN "abandoned" ELSE status
  /\ unwatched' = TRUE
  /\ UNCHANGED <<now, stored, alarm, retired, granted>>

\* Bound: the clock runs one second past Horizon, once every request was answered.
Tick ==
  /\ now <= Horizon
  /\ now = Horizon => scheduling = {}
  /\ now' = now + 1
  /\ UNCHANGED <<stored, alarm, scheduling, status, retired, granted, unwatched>>

Next ==
  \/ InitCounter \/ Publish \/ AbandonWrite
  \/ Consume \/ Peek \/ Retire
  \/ \E request \in scheduling : ScheduleCleanup(request)
  \/ Alarm \/ Tick \/ Crash

Spec == Init /\ [][Next]_vars

\* Time passes, a request that began is finished unless the object crashes, and
\* the platform delivers an alarm that is due.
FairSpec ==
  /\ Spec
  /\ WF_vars(Tick)
  /\ WF_vars(Alarm)
  /\ WF_vars(\E request \in scheduling : ScheduleCleanup(request))

-----------------------------------------------------------------------------
(* Properties.                                                             *)

LiveRecord(r) ==
  /\ r.version = "live"
  /\ r.remainingReads \in 0..Limit
  /\ r.expiresAt = ExpiresAt
  /\ r.cleanupAt \in Nat

TombstoneRecord(r) ==
  /\ r.version = "deleted"
  /\ r.remainingReads = NullReads
  /\ r.expiresAt \in Nat
  /\ r.cleanupAt \in Nat

StoredRecord ==
  [version : {"none", "live", "deleted"}, remainingReads : Int,
   expiresAt : Nat, cleanupAt : Nat]

\* Every record the object writes is one of the two kinds normalizeSeed admits:
\* a count between zero and the limit, or a tombstone without a count.
TypeOK ==
  /\ now \in Nat
  /\ stored \in StoredRecord
  /\ stored = NoState \/ LiveRecord(stored) \/ TombstoneRecord(stored)
  /\ alarm \in Nat \cup {NoAlarm}
  /\ scheduling \subseteq [op : {"init", "read", "retire"}, cleanupAt : Nat]
  /\ status \in {"unpublished", "preparing", "prepared", "published", "abandoned"}
  /\ retired \in BOOLEAN
  /\ granted \in Nat
  /\ unwatched \in BOOLEAN

Open == status = "published" /\ ~retired /\ now < ExpiresAt

\* While a version is open its counter exists and holds exactly the reads that
\* are left, so no reader's seed (existing ?? seed) can ever refill it.
OpenVersionIsCounted ==
  Open => /\ stored.version = "live"
          /\ stored.remainingReads = Limit - granted

\* The tombstone of a replaced or deleted version outlives every copy of its
\* metadata: a stale reader never finds the counter empty and seeds it again.
TombstoneHolds == retired /\ now < ExpiresAt => stored.version = "deleted"

\* The counter implements the read limit: at most Limit reads, none before the
\* publication, none once the version was retired or has expired.
Allowance == INSTANCE ReadAllowance WITH
  phase <- IF status # "published" THEN "unpublished"
           ELSE IF Open THEN "open" ELSE "closed",
  granted <- granted

ImplementsAllowance == Allowance!Spec

\* What the object stores is deleted in the end: no call loses the alarm, also
\* when the version was retired after an earlier alarm had cleaned up.  Only a
\* crash between a transaction and setAlarm excuses it, until the next call
\* that is answered.
StorageIsReclaimed == stored # NoState ~> stored = NoState \/ unwatched

=============================================================================

----------------------- MODULE PasteReadCounter_proofs -----------------------
(***************************************************************************)
(* The safety properties of PasteReadCounter for every limit, every expiry *)
(* and every horizon.  They follow from one inductive invariant: whatever  *)
(* the object stores, schedules or is woken up for outlives the metadata   *)
(* of the version, so the count of an open version is never lost.          *)
(***************************************************************************)
EXTENDS PasteReadCounter, TLAPS

\* Everything the object knows how to forget is kept until the version expires.
OutlivesVersion ==
  /\ stored # NoState => stored.cleanupAt >= ExpiresAt
  /\ alarm # NoAlarm => alarm >= ExpiresAt
  /\ \A request \in scheduling : request.cleanupAt >= ExpiresAt

\* From /init on, the count of a version that is neither retired nor expired.
Counted ==
  status \in {"preparing", "prepared", "published"} /\ ~retired /\ now < ExpiresAt
    => stored.version = "live" /\ stored.remainingReads = Limit - granted

\* The life of a version: nothing is stored before /init, only a published
\* version is read or retired.
Lifecycle ==
  /\ status = "unpublished" => stored = NoState
  /\ status # "published" => ~retired /\ granted = 0

IInv ==
  /\ TypeOK
  /\ OutlivesVersion
  /\ Counted
  /\ TombstoneHolds
  /\ Lifecycle

-----------------------------------------------------------------------------
\* Later is the maximum of two instants.
LEMMA LaterIsMax ==
  ASSUME NEW a \in Nat, NEW b \in Nat
  PROVE  Later(a, b) \in Nat /\ Later(a, b) >= a /\ Later(a, b) >= b
BY DEF Later

\* A request never changes what it finds: the stored count is never above the
\* seed's, so reconciling lowers nothing, and an empty store yields the seed.
LEMMA FoundIsStoredOrSeed ==
  ASSUME TypeOK
  PROVE  Found = IF stored = NoState THEN Seed ELSE stored
<1>1. CASE stored = NoState
  <2>1. Reconcile(Seed, Seed) = Seed
    BY CounterAssumption DEF Reconcile, Seed, NullReads
  <2>2. QED
    BY <1>1, <2>1 DEF Found
<1>2. CASE stored # NoState /\ LiveRecord(stored)
  <2>1. stored.remainingReads <= Limit
    BY <1>2, CounterAssumption DEF LiveRecord
  <2>2. Seed.remainingReads >= stored.remainingReads
    BY <1>2, <2>1, CounterAssumption DEF LiveRecord, Seed
  <2>3. Reconcile(stored, Seed) = stored
    BY <2>2 DEF Reconcile
  <2>4. QED
    BY <1>2, <2>3 DEF Found
<1>3. CASE stored # NoState /\ TombstoneRecord(stored)
  <2>1. Reconcile(stored, Seed) = stored
    BY <1>3 DEF Reconcile, TombstoneRecord, Seed
  <2>2. QED
    BY <1>3, <2>1 DEF Found
<1>4. QED
  BY <1>1, <1>2, <1>3 DEF TypeOK

\* What a request finds is a record of one of the two kinds, kept long enough.
LEMMA FoundIsRecord ==
  ASSUME TypeOK, OutlivesVersion
  PROVE  /\ Found \in StoredRecord
         /\ LiveRecord(Found) \/ TombstoneRecord(Found)
         /\ Found.cleanupAt \in Nat
         /\ Found.cleanupAt >= ExpiresAt
<1>1. Found = IF stored = NoState THEN Seed ELSE stored
  BY FoundIsStoredOrSeed
<1>2. /\ Seed \in StoredRecord
      /\ LiveRecord(Seed)
      /\ Seed.cleanupAt >= ExpiresAt
  BY CounterAssumption DEF Seed, StoredRecord, LiveRecord
<1>3. CASE stored = NoState
  BY <1>1, <1>2, <1>3 DEF LiveRecord
<1>4. CASE stored # NoState
  BY <1>1, <1>4 DEF TypeOK, OutlivesVersion, LiveRecord, TombstoneRecord
<1>5. QED
  BY <1>3, <1>4

\* Initially the invariant holds.
LEMMA InitEstablishesIInv == Init => IInv
<1> SUFFICES ASSUME Init PROVE IInv
  OBVIOUS
<1>1. NoState \in StoredRecord
  BY DEF NoState, StoredRecord, NullReads
<1>2. TypeOK
  BY <1>1 DEF Init, TypeOK
<1>3. OutlivesVersion /\ Counted /\ TombstoneHolds /\ Lifecycle
  BY DEF Init, OutlivesVersion, Counted, TombstoneHolds, Lifecycle
<1>4. QED
  BY <1>2, <1>3 DEF IInv

\* The counter of a version starts with all its reads and outlives the version.
LEMMA InitCounterKeepsIInv == IInv /\ InitCounter => IInv'
<1> SUFFICES ASSUME IInv, InitCounter PROVE IInv'
  OBVIOUS
<1>1. stored = NoState /\ granted = 0 /\ ~retired
  BY DEF IInv, Lifecycle, InitCounter
<1>2. stored' = InitSeed
  BY <1>1 DEF InitCounter, MergeInit, NoState, InitSeed, Seed
<1>3. /\ InitSeed \in StoredRecord
      /\ LiveRecord(InitSeed)
      /\ InitSeed.cleanupAt \in Nat
      /\ InitSeed.cleanupAt >= ExpiresAt
      /\ InitSeed.remainingReads = Limit
  BY LaterIsMax, CounterAssumption DEF InitSeed, Seed, StoredRecord, LiveRecord
<1>4. TypeOK'
  BY <1>1, <1>2, <1>3 DEF IInv, TypeOK, InitCounter, LiveRecord, TombstoneRecord
<1>5. OutlivesVersion'
  BY <1>2, <1>3 DEF IInv, TypeOK, OutlivesVersion, InitCounter
<1>6. Counted'
  BY <1>1, <1>2, <1>3, CounterAssumption DEF Counted, InitCounter, LiveRecord
<1>7. TombstoneHolds'
  BY <1>1 DEF InitCounter, TombstoneHolds
<1>8. Lifecycle'
  BY <1>1 DEF InitCounter, Lifecycle
<1>9. QED
  BY <1>4, <1>5, <1>6, <1>7, <1>8 DEF IInv

\* A read that is allowed takes one from a count that was at least one.
LEMMA ConsumeKeepsIInv == IInv /\ Consume => IInv'
<1> SUFFICES ASSUME IInv, Consume PROVE IInv'
  OBVIOUS
<1>1. /\ Found \in StoredRecord
      /\ LiveRecord(Found) \/ TombstoneRecord(Found)
      /\ Found.cleanupAt \in Nat
      /\ Found.cleanupAt >= ExpiresAt
      /\ Found = IF stored = NoState THEN Seed ELSE stored
  BY FoundIsRecord, FoundIsStoredOrSeed DEF IInv
<1>2. OutlivesVersion'
  <2>1. \A request \in scheduling' : request.cleanupAt >= ExpiresAt
    BY <1>1 DEF Consume, IInv, OutlivesVersion
  <2>2. stored' # NoState => stored'.cleanupAt >= ExpiresAt
    BY <1>1 DEF Consume, IInv, OutlivesVersion, StoredRecord
  <2>3. QED
    BY <2>1, <2>2 DEF Consume, IInv, OutlivesVersion
<1>3. scheduling' \subseteq [op : {"init", "read", "retire"}, cleanupAt : Nat]
  BY <1>1 DEF Consume, IInv, TypeOK
<1>4. CASE UNCHANGED <<stored, granted>>
  BY <1>2, <1>3, <1>4
     DEF Consume, IInv, TypeOK, Counted, TombstoneHolds, Lifecycle, LiveRecord, TombstoneRecord
<1>5. CASE /\ ~Denied(Found) /\ Found.remainingReads > 0
           /\ stored' = [Found EXCEPT !.remainingReads = @ - 1]
           /\ granted' = granted + 1
  <2>1. Found.version = "live" /\ now < ExpiresAt
    BY <1>1, <1>5, CounterAssumption
       DEF Denied, Seed, LiveRecord, TombstoneRecord, IInv, TypeOK
  <2>2. LiveRecord(Found)
    BY <1>1, <2>1 DEF TombstoneRecord
  <2>3. LiveRecord(stored') /\ stored' \in StoredRecord
    BY <1>1, <1>5, <2>2, CounterAssumption DEF LiveRecord, StoredRecord
  <2>4. ~retired
    BY <1>1, <2>1 DEF IInv, TombstoneHolds, Seed, NoState
  <2>5. stored.version = "live" /\ stored.remainingReads = Limit - granted
    BY <2>1, <2>4 DEF IInv, Counted, Consume
  <2>6. stored' = [stored EXCEPT !.remainingReads = @ - 1]
    BY <1>1, <1>5, <2>5 DEF NoState
  <2>7. stored'.version = "live" /\ stored'.remainingReads = Limit - granted'
    BY <1>5, <2>5, <2>6, CounterAssumption DEF IInv, TypeOK, StoredRecord
  <2>8. TypeOK'
    BY <1>3, <1>5, <2>3 DEF Consume, IInv, TypeOK, LiveRecord, TombstoneRecord
  <2>9. Counted' /\ TombstoneHolds' /\ Lifecycle'
    BY <2>4, <2>7 DEF Consume, Counted, TombstoneHolds, Lifecycle
  <2>10. QED
    BY <1>2, <2>8, <2>9 DEF IInv
<1>6. QED
  BY <1>4, <1>5 DEF Consume

\* A peek stores at most what a read would have found.
LEMMA PeekKeepsIInv == IInv /\ Peek => IInv'
<1> SUFFICES ASSUME IInv, Peek PROVE IInv'
  OBVIOUS
<1>1. /\ Found \in StoredRecord
      /\ LiveRecord(Found) \/ TombstoneRecord(Found)
      /\ Found.cleanupAt \in Nat
      /\ Found.cleanupAt >= ExpiresAt
      /\ Found = IF stored = NoState THEN Seed ELSE stored
  BY FoundIsRecord, FoundIsStoredOrSeed DEF IInv
<1>2. OutlivesVersion'
  BY <1>1 DEF Peek, IInv, OutlivesVersion
<1>3. TypeOK'
  BY <1>1 DEF Peek, IInv, TypeOK, LiveRecord, TombstoneRecord
<1>4. Counted'
  <2>1. SUFFICES ASSUME ~retired, now < ExpiresAt
                 PROVE  stored'.version = "live" /\ stored'.remainingReads = Limit - granted
    BY DEF Counted, Peek
  <2>2. stored.version = "live" /\ stored.remainingReads = Limit - granted
    BY <2>1 DEF IInv, Counted, Peek
  <2>3. stored' = stored
    BY <1>1, <2>2 DEF Peek, NoState
  <2>4. QED
    BY <2>2, <2>3
<1>5. TombstoneHolds'
  <2>1. SUFFICES ASSUME retired, now < ExpiresAt PROVE stored'.version = "deleted"
    BY DEF TombstoneHolds, Peek
  <2>2. stored.version = "deleted"
    BY <2>1 DEF IInv, TombstoneHolds
  <2>3. QED
    BY <1>1, <2>2 DEF Peek, NoState
<1>6. Lifecycle'
  BY DEF Peek, IInv, Lifecycle
<1>7. QED
  BY <1>2, <1>3, <1>4, <1>5, <1>6 DEF IInv

\* The tombstone replaces the count and outlives the version.
LEMMA RetireKeepsIInv == IInv /\ Retire => IInv'
<1> SUFFICES ASSUME IInv, Retire PROVE IInv'
  OBVIOUS
<1>1. stored' = Tombstone
  BY DEF Retire, MergeInit, Tombstone
<1>2. /\ Tombstone \in StoredRecord
      /\ TombstoneRecord(Tombstone)
      /\ Tombstone.version = "deleted"
      /\ Tombstone.cleanupAt \in Nat
      /\ Tombstone.cleanupAt >= ExpiresAt
  <2>1. now \in Nat
    BY DEF IInv, TypeOK
  <2>2. Later(now, ExpiresAt) \in Nat /\ Later(now, ExpiresAt) >= ExpiresAt
    BY <2>1, LaterIsMax, CounterAssumption
  <2>3. QED
    BY <2>1, <2>2 DEF Tombstone, StoredRecord, TombstoneRecord, NullReads
<1>3. TypeOK'
  BY <1>1, <1>2 DEF Retire, IInv, TypeOK, LiveRecord, TombstoneRecord
<1>4. OutlivesVersion'
  BY <1>1, <1>2 DEF Retire, IInv, OutlivesVersion
<1>5. Counted' /\ TombstoneHolds' /\ Lifecycle'
  BY <1>1, <1>2 DEF Retire, Counted, TombstoneHolds, Lifecycle
<1>6. QED
  BY <1>3, <1>4, <1>5 DEF IInv

\* An alarm is set for the clean-up time of a record or later.
LEMMA ScheduleKeepsIInv ==
  ASSUME NEW request \in scheduling
  PROVE  IInv /\ ScheduleCleanup(request) => IInv'
<1> SUFFICES ASSUME IInv, ScheduleCleanup(request) PROVE IInv'
  OBVIOUS
<1>1. request.cleanupAt \in Nat /\ request.cleanupAt >= ExpiresAt
  BY DEF IInv, TypeOK, OutlivesVersion
<1>2. AlarmTime(request.cleanupAt) \in Nat /\ AlarmTime(request.cleanupAt) >= ExpiresAt
  <2>1. now + 1 \in Nat
    BY DEF IInv, TypeOK
  <2>2. QED
    BY <1>1, <2>1, CounterAssumption DEF AlarmTime, Later
<1>3. TypeOK'
  BY <1>2 DEF ScheduleCleanup, IInv, TypeOK, LiveRecord, TombstoneRecord
<1>4. OutlivesVersion'
  BY <1>2 DEF ScheduleCleanup, IInv, OutlivesVersion
<1>5. Counted' /\ TombstoneHolds' /\ Lifecycle'
  BY DEF ScheduleCleanup, IInv, Counted, TombstoneHolds, Lifecycle
<1>6. QED
  BY <1>3, <1>4, <1>5 DEF IInv

\* The object forgets everything only once the version has expired.
LEMMA AlarmKeepsIInv == IInv /\ Alarm => IInv'
<1> SUFFICES ASSUME IInv, Alarm PROVE IInv'
  OBVIOUS
<1>1. ~(now < ExpiresAt)
  BY CounterAssumption DEF Alarm, IInv, TypeOK, OutlivesVersion, NoAlarm
<1>2. TypeOK'
  BY DEF Alarm, IInv, TypeOK, StoredRecord, NoState, NullReads, NoAlarm
<1>3. OutlivesVersion'
  BY DEF Alarm, IInv, OutlivesVersion
<1>4. Counted' /\ TombstoneHolds' /\ Lifecycle'
  BY <1>1 DEF Alarm, IInv, Counted, TombstoneHolds, Lifecycle
<1>5. QED
  BY <1>2, <1>3, <1>4 DEF IInv

\* Time passes; a version that expires is no longer counted.
LEMMA TickKeepsIInv == IInv /\ Tick => IInv'
<1> SUFFICES ASSUME IInv, Tick PROVE IInv'
  OBVIOUS
<1>1. TypeOK'
  BY DEF Tick, IInv, TypeOK, LiveRecord, TombstoneRecord
<1>2. now' < ExpiresAt => now < ExpiresAt
  BY CounterAssumption DEF Tick, IInv, TypeOK
<1>3. OutlivesVersion'
  BY DEF Tick, IInv, OutlivesVersion
<1>4. Counted' /\ TombstoneHolds' /\ Lifecycle'
  BY <1>2 DEF Tick, IInv, Counted, TombstoneHolds, Lifecycle
<1>5. QED
  BY <1>1, <1>3, <1>4 DEF IInv

\* Publishing, giving up and crashing change neither the store nor the alarm.
LEMMA StatusKeepsIInv == IInv /\ (Publish \/ AbandonWrite \/ Crash) => IInv'
<1> SUFFICES ASSUME IInv, Publish \/ AbandonWrite \/ Crash PROVE IInv'
  OBVIOUS
<1>1. TypeOK'
  BY DEF Publish, AbandonWrite, Crash, IInv, TypeOK, LiveRecord, TombstoneRecord
<1>2. OutlivesVersion'
  BY DEF Publish, AbandonWrite, Crash, IInv, OutlivesVersion
<1>3. Counted' /\ TombstoneHolds' /\ Lifecycle'
  BY DEF Publish, AbandonWrite, Crash, IInv, Counted, TombstoneHolds, Lifecycle
<1>4. QED
  BY <1>1, <1>2, <1>3 DEF IInv

\* IInv is inductive.
LEMMA NextKeepsIInv == IInv /\ [Next]_vars => IInv'
<1> SUFFICES ASSUME IInv, [Next]_vars PROVE IInv'
  OBVIOUS
<1>1. CASE InitCounter
  BY <1>1, InitCounterKeepsIInv
<1>2. CASE Publish \/ AbandonWrite \/ Crash
  BY <1>2, StatusKeepsIInv
<1>3. CASE Consume
  BY <1>3, ConsumeKeepsIInv
<1>4. CASE Peek
  BY <1>4, PeekKeepsIInv
<1>5. CASE Retire
  BY <1>5, RetireKeepsIInv
<1>6. CASE \E request \in scheduling : ScheduleCleanup(request)
  BY <1>6, ScheduleKeepsIInv
<1>7. CASE Alarm
  BY <1>7, AlarmKeepsIInv
<1>8. CASE Tick
  BY <1>8, TickKeepsIInv
<1>9. CASE UNCHANGED vars
  BY <1>9 DEF vars, IInv, TypeOK, OutlivesVersion, Counted, TombstoneHolds, Lifecycle,
              LiveRecord, TombstoneRecord
<1>10. QED
  BY <1>1, <1>2, <1>3, <1>4, <1>5, <1>6, <1>7, <1>8, <1>9 DEF Next

\* The invariant holds in every reachable state.
THEOREM Invariance == Spec => []IInv
<1>1. Init => IInv
  BY InitEstablishesIInv
<1>2. IInv /\ [Next]_vars => IInv'
  BY NextKeepsIInv
<1>3. QED
  BY <1>1, <1>2, PTL DEF Spec

-----------------------------------------------------------------------------
\* Every record the object writes is a count between zero and the limit, or a
\* tombstone without a count.
THEOREM TypeCorrect == Spec => []TypeOK
<1>1. IInv => TypeOK
  BY DEF IInv
<1>2. QED
  BY <1>1, Invariance, PTL

\* While a version is open its counter exists and holds exactly the reads that
\* are left, whatever requests, crashes and clean-ups interleave.
THEOREM OpenVersionCounted == Spec => []OpenVersionIsCounted
<1>1. IInv => OpenVersionIsCounted
  BY DEF IInv, Counted, OpenVersionIsCounted, Open
<1>2. QED
  BY <1>1, Invariance, PTL

\* The tombstone of a replaced or deleted version outlives its metadata.
THEOREM TombstoneOutlives == Spec => []TombstoneHolds
<1>1. IInv => TombstoneHolds
  BY DEF IInv
<1>2. QED
  BY <1>1, Invariance, PTL

-----------------------------------------------------------------------------
(* The read limit.                                                         *)

\* The phase of the abstract specification, by its name in the mapping.
Phase == IF status # "published" THEN "unpublished"
         ELSE IF Open THEN "open" ELSE "closed"

\* Consume is a grant while reads are left, and changes nothing otherwise.
LEMMA ConsumeRefines ==
  IInv /\ Consume => Allowance!Grant \/ UNCHANGED <<Phase, granted>>
<1> SUFFICES ASSUME IInv, Consume PROVE Allowance!Grant \/ UNCHANGED <<Phase, granted>>
  OBVIOUS
<1>1. Phase' = Phase
  BY DEF Consume, Phase, Open
<1>2. CASE UNCHANGED granted
  BY <1>1, <1>2
<1>3. CASE ~Denied(Found) /\ Found.remainingReads > 0 /\ granted' = granted + 1
  <2>1. /\ LiveRecord(Found) \/ TombstoneRecord(Found)
        /\ Found = IF stored = NoState THEN Seed ELSE stored
    BY FoundIsRecord, FoundIsStoredOrSeed DEF IInv
  <2>2. Found.version = "live" /\ now < ExpiresAt
    BY <1>3, <2>1, CounterAssumption
       DEF Denied, Seed, LiveRecord, TombstoneRecord, IInv, TypeOK
  <2>3. ~retired
    BY <2>1, <2>2 DEF IInv, TombstoneHolds, Seed, NoState
  <2>4. stored.version = "live" /\ stored.remainingReads = Limit - granted
    BY <2>2, <2>3 DEF IInv, Counted, Consume
  <2>5. granted < Limit
    BY <1>3, <2>1, <2>4, CounterAssumption DEF NoState, IInv, TypeOK
  <2>6. Phase = "open"
    BY <2>2, <2>3 DEF Phase, Open, Consume
  <2>7. QED
    BY <1>1, <1>3, <2>5, <2>6 DEF Allowance!Grant, Phase
<1>4. QED
  BY <1>2, <1>3 DEF Consume

\* Every other step publishes, closes, or is invisible to a reader.
LEMMA OtherRefines ==
  ASSUME IInv, [Next]_vars, ~Consume
  PROVE  Allowance!Publish \/ Allowance!Close \/ UNCHANGED <<Phase, granted>>
<1>1. CASE Publish
  BY <1>1 DEF Publish, Phase, Open, Allowance!Publish, Allowance!Close
<1>2. CASE Retire
  BY <1>2 DEF Retire, Phase, Open, Allowance!Close
<1>3. CASE Tick
  <2>1. now' < ExpiresAt => now < ExpiresAt
    BY <1>3, CounterAssumption DEF Tick, IInv, TypeOK
  <2>2. QED
    BY <1>3, <2>1 DEF Tick, Phase, Open, Allowance!Close
<1>4. CASE InitCounter \/ AbandonWrite \/ Peek \/ Alarm \/ Crash
  BY <1>4 DEF InitCounter, AbandonWrite, Peek, Alarm, Crash, Phase, Open
<1>5. CASE \E request \in scheduling : ScheduleCleanup(request)
  BY <1>5 DEF ScheduleCleanup, Phase, Open
<1>6. CASE UNCHANGED vars
  BY <1>6 DEF vars, Phase, Open
<1>7. QED
  BY <1>1, <1>2, <1>3, <1>4, <1>5, <1>6 DEF Next

\* The counter implements the read limit: at most Limit reads are granted, all of
\* them between the publication and the closing of the version.
THEOREM ReadLimit == Spec => ImplementsAllowance
<1>1. Init => Allowance!Init
  BY DEF Init, Allowance!Init
<1>2. IInv /\ [Next]_vars => [Allowance!Next]_(Allowance!vars)
  <2> SUFFICES ASSUME IInv, [Next]_vars PROVE [Allowance!Next]_(Allowance!vars)
    OBVIOUS
  <2>1. CASE Consume
    BY <2>1, ConsumeRefines DEF Allowance!Next, Allowance!vars, Phase
  <2>2. CASE ~Consume
    BY <2>2, OtherRefines DEF Allowance!Next, Allowance!vars, Phase
  <2>3. QED
    BY <2>1, <2>2
<1>3. QED
  BY <1>1, <1>2, Invariance, PTL DEF Spec, ImplementsAllowance, Allowance!Spec

=============================================================================

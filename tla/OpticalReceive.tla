--------------------------- MODULE OpticalReceive ---------------------------
(***************************************************************************)
(* The page that receives a file from QR codes (frontend/optical/receive). *)
(* A camera or a shared screen, or the frames of an APNG file, are decoded *)
(* by a pool of decode workers (shared/worker-pool.ts); what they read     *)
(* goes over ports of their own to the fountain worker (fountain-worker.ts)*)
(* that collects the symbols of one stream; the page counts what was       *)
(* submitted and processed (fountain-client.ts), takes the container of a  *)
(* finished stream to the assembler (receiver-transfer.ts, PartAssembler)  *)
(* and keeps attempts apart (receiver-runtime.ts, receiver-controller.ts). *)
(*                                                                         *)
(* `phase` is the attempt and the await it is in.  What an attempt that    *)
(* was superseded does when it resumes is not kept: it is nothing, but for *)
(* a file it is given (OnAnswer), and for a rejected APNG, whose barrier   *)
(* is followed by resetReceiver() without another look at the generation   *)
(* (receiver-controller.ts:408-409); here a change of mode in between      *)
(* means that this late reset does not come.  teardownReceiver() is one    *)
(* step, but in switchReceiveMode().  Of the failures that end an attempt  *)
(* with Retry, WorkerFails and FountainFails stand for all: a pool that    *)
(* gives up (worker-pool.ts:153), an APNG frame that is not decoded        *)
(* (receiver-controller.ts:351) and a container that does not match its    *)
(* tag (fountain-worker.ts:124) have no action of their own.  The stream   *)
(* of a camera and its settings, status and progress display, the wake     *)
(* lock, compression, and frames that show nothing readable are left out.  *)
(***************************************************************************)
EXTENDS PartAssembler

CONSTANTS
  Workers,       \* the decode workers of the pool
  Symbols,       \* how many symbols of a stream its decoder needs
  EarlySwitch,   \* may the sender show another part before the receiver asks for it?
  MaxInFlight,   \* bound: frames between the camera and the page
  MaxDetours     \* bound: switches of mode, interruptions and changes of the pool

ASSUME ReceiverAssumption ==
  /\ Symbols \in Nat \ {0}
  /\ \A s \in Streams : s.id \notin {"free", "reported"}
  /\ EarlySwitch \in BOOLEAN
  /\ MaxInFlight \in Nat /\ MaxDetours \in Nat

VARIABLES
  mode,        \* "live" (camera, screen) or "apng"
  phase,       \* the attempt
  part,        \* the stream whose container the attempt is finishing
  source,      \* what is shown to the camera, or the file and its frames to be submitted
  holding,     \* receivedFile: does the page show a stored file?
  tasks,       \* what each decode worker has
  frames,      \* payloads on their way to the fountain worker, of each stream
  fountain,    \* the fountain worker
  inbox,       \* its messages on their way to the page
  lead,        \* submittedFrames - processedFrames
  expected,    \* fountainClient.expectedTransfer
  detours,     \* so far
  lost         \* history: was a payload, or the answer that counts it, lost with its worker?

pipeline == <<tasks, frames, fountain, inbox, lead>>
page == <<mode, phase, part, source, holding, expected>>
bounds == <<detours, lost>>
vars == <<assemblerVars, page, pipeline, bounds>>

Free == [id |-> "free", index |-> Standalone, name |-> "none"]
Reported == [id |-> "reported", index |-> Standalone, name |-> "none"]

NoFountain == [state |-> "none", expected |-> NoExpected, stream |-> NoStream, count |-> 0,
               done |-> FALSE, recent |-> FALSE, verdict |-> NoStream]
NoSource == [stream |-> NoStream, left |-> 0, whole |-> FALSE]
Shows(s) == [NoSource EXCEPT !.stream = s]

AllFree == [w \in Workers |-> Free]
NoFrames == [s \in Streams |-> 0]
AllIdle == tasks = AllFree

\* Is input being read?
Reading == phase \in {"capturing", "parsing", "ending", "draining"}
\* receiverSession.done
Done == phase \in {"progress", "idle", "drain", "preparing", "accepting", "result", "failed",
                   "switching", "gone"}

Init ==
  /\ InitAssembler
  /\ mode \in {"live", "apng"} /\ phase = "ready" /\ part = NoStream /\ source = NoSource
  /\ holding = FALSE
  /\ tasks = AllFree /\ frames = NoFrames
  /\ fountain = NoFountain
  /\ inbox = << >> /\ lead = 0
  /\ expected = NoExpected
  /\ detours = 0 /\ lost = FALSE

-----------------------------------------------------------------------------
(* What the handlers share.                                                *)

\* As ReleaseDecodeWorkers, but the counters go on.
CountingReleaseDecodeWorkers ==
  /\ tasks' = AllFree /\ frames' = NoFrames
  /\ fountain' = NoFountain
  /\ inbox' = << >> /\ lead' = lead

\* releaseDecodeWorkers: with the workers go their ports and their messages.
ReleaseDecodeWorkers ==
  /\ tasks' = AllFree /\ frames' = NoFrames
  /\ fountain' = NoFountain
  /\ inbox' = << >> /\ lead' = 0

\* A new generation of the session.
SupersedeAttempt ==
  /\ queue' = Superseded(queue)
  /\ work' = [work EXCEPT !.current = FALSE]

\* receivedFile.release
ReleaseFile(files) == disk' = IF holding THEN files \ {Result} ELSE files

\* As ResetReceiver, but the fountain client is not told what is missing now.
StaleResetReceiver ==
  /\ phase' = "ready" /\ part' = NoStream /\ source' = NoSource
  /\ ReleaseFile(disk) /\ holding' = FALSE
  /\ expected' = expected

\* resetReceiver, but for its new generation and the counts of the fountain client.
ResetReceiver ==
  /\ phase' = "ready" /\ part' = NoStream /\ source' = NoSource
  /\ ReleaseFile(disk) /\ holding' = FALSE
  /\ expected' = ExpectedTransfer

\* As ResetReceiver, and the counters start again; the workers stay.
Park ==
  /\ ResetReceiver
  /\ lead' = 0
  /\ UNCHANGED <<tasks, frames, fountain, inbox>>

\* resetParts: the assembler and the fountain client forget the transfer.
ResetParts == queue' = Resetting(queue) /\ attached' = FALSE /\ expected' = NoExpected

\* The transfer has failed, and the page says so.
FailTransfer ==
  /\ phase' = "failed" /\ part' = NoStream
  /\ ReleaseFile(disk) /\ holding' = FALSE
  /\ ReleaseDecodeWorkers
  /\ ResetParts

\* teardownReceiver, then offerRetry: the attempt ends, its generation does not.
Retry ==
  /\ phase' = "ready" /\ source' = NoSource
  /\ ReleaseDecodeWorkers

-----------------------------------------------------------------------------
(* The sender, and the user of the page.                                   *)

Wanted(s) == expected = NoExpected \/ (s.id = expected.id /\ s.index \in expected.missing)

\* start: the session is the attempt's until the codecs and the stream are there.
Start(s) ==
  /\ mode = "live" /\ phase = "ready"
  /\ phase' = "starting" /\ source' = Shows(s)
  /\ SupersedeAttempt
  /\ UNCHANGED <<assembly, attached, answer, disk, faults, mode, part, holding, expected,
                 pipeline, bounds>>

\* The sender shows another part, as the receiver has said that it does not want
\* this one.  With EarlySwitch its user does not wait for that.
Show(s) ==
  /\ phase = "capturing" /\ s # source.stream
  /\ EarlySwitch \/ ~Wanted(source.stream)
  /\ source' = Shows(s)
  /\ UNCHANGED <<assemblerVars, mode, phase, part, holding, expected, pipeline, bounds>>

\* startApng: of a file with all the symbols of a stream, or with too few.
StartApng(s, n) ==
  /\ mode = "apng" /\ phase = "ready"
  /\ phase' = "starting" /\ source' = [stream |-> s, left |-> n, whole |-> n >= Symbols]
  /\ SupersedeAttempt
  /\ UNCHANGED <<assembly, attached, answer, disk, faults, mode, part, holding,
                 expected, pipeline, bounds>>

\* fountainClient.ensure: a worker that is there is used again.  What it was told
\* to expect before the input was opened has reached it.
Started ==
  /\ phase = "starting"
  /\ phase' = IF mode = "live" THEN "capturing" ELSE "parsing"
  /\ fountain' = [fountain EXCEPT !.state = IF @ = "none" THEN "running" ELSE @,
                                    !.expected = expected]
  /\ UNCHANGED <<assemblerVars, mode, part, source, holding, expected, tasks, frames, inbox,
                 lead, bounds>>

Detour == detours < MaxDetours /\ detours' = detours + 1

\* The camera or the screen is refused, or gives no picture ...
StartRefused ==
  /\ mode = "live" /\ phase = "starting" /\ Detour
  /\ phase' = "ready" /\ source' = NoSource
  /\ UNCHANGED <<assemblerVars, mode, part, holding, expected, pipeline, lost>>

\* ... or is taken away.
SourceEnds ==
  /\ phase = "capturing" /\ Detour
  /\ Retry
  /\ UNCHANGED <<assemblerVars, mode, part, holding, expected, lost>>

\* switchReceiveMode, until its teardown ...
SwitchMode ==
  /\ phase \notin {"gone", "result"} /\ Detour
  /\ mode' = IF mode = "live" THEN "apng" ELSE "live"
  /\ phase' = "switching" /\ part' = NoStream /\ source' = NoSource
  /\ SupersedeAttempt
  /\ UNCHANGED <<assembly, attached, answer, disk, faults, holding, expected, pipeline, lost>>

\* ... is over.
SwitchDone ==
  /\ phase = "switching"
  /\ ReleaseDecodeWorkers
  /\ ResetReceiver
  /\ SupersedeAttempt
  /\ UNCHANGED <<assembly, attached, answer, faults, mode, bounds>>

\* reset: the user has seen the result.
Restart ==
  /\ phase \in {"result", "failed"}
  /\ Park
  /\ SupersedeAttempt
  /\ UNCHANGED <<assembly, attached, answer, faults, mode, bounds>>

\* ResetParts in an attempt that is superseded.
ForgetParts ==
  /\ queue' = Superseded(Resetting(queue))
  /\ work' = [work EXCEPT !.current = FALSE]
  /\ attached' = FALSE
  /\ expected' = NoExpected

\* resetParts, "Other": the user gives up the transfer.
Other ==
  /\ phase = "ready" /\ expected # NoExpected
  /\ ForgetParts
  /\ ReleaseDecodeWorkers
  /\ ReleaseFile(disk) /\ holding' = FALSE
  /\ UNCHANGED <<assembly, answer, faults, mode, phase, part, source, bounds>>

\* dispose, pagehide
Unmount ==
  /\ phase # "gone"
  /\ phase' = "gone" /\ part' = NoStream /\ source' = NoSource
  /\ ForgetParts
  /\ ReleaseDecodeWorkers
  /\ ReleaseFile(disk) /\ holding' = FALSE
  /\ UNCHANGED <<assembly, answer, faults, mode, bounds>>

-----------------------------------------------------------------------------
(* The pool of decode workers.                                             *)

InFlight ==
  Len(inbox) + Cardinality({w \in Workers : tasks[w] # Free})
             + Cardinality({f \in Streams \X (1 .. MaxInFlight) : f[2] <= frames[f[1]]})

Submit(w, s) ==
  /\ tasks[w] = Free /\ InFlight < MaxInFlight
  /\ tasks' = [tasks EXCEPT ![w] = s]

Capture(w) ==
  /\ phase = "capturing" /\ Submit(w, source.stream)
  /\ UNCHANGED <<assemblerVars, page, frames, fountain, inbox, lead, bounds>>

ParseFrame(w) ==
  /\ phase = "parsing" /\ source.left > 0 /\ Submit(w, source.stream)
  /\ source' = [source EXCEPT !.left = @ - 1]
  /\ UNCHANGED <<assemblerVars, mode, phase, part, holding, expected, frames, fountain,
                 inbox, lead, bounds>>

\* forwardPayloads, then the answer to the page: two channels.
Forward(w) ==
  /\ tasks[w] \in Streams
  /\ frames' = [frames EXCEPT ![tasks[w]] = @ + 1]
  /\ tasks' = [tasks EXCEPT ![w] = Reported]
  /\ UNCHANGED <<assemblerVars, page, fountain, inbox, lead, bounds>>

\* handleDecodeTaskComplete
TaskComplete(w) ==
  /\ tasks[w] = Reported
  /\ tasks' = [tasks EXCEPT ![w] = Free]
  /\ lead' = lead + 1
  /\ UNCHANGED <<assemblerVars, page, frames, fountain, inbox, bounds>>

\* The decode workers in `ws` are terminated: their tasks and answers are dropped,
\* and their ports are closed before the fountain worker has read them, or after.
StopWorkers(ws) ==
  /\ tasks' = [w \in Workers |-> IF w \in ws THEN Free ELSE tasks[w]]
  /\ frames' \in {f \in [Streams -> 0 .. MaxInFlight] : \A s \in Streams : f[s] <= frames[s]}
  /\ lost' = (lost \/ frames' # frames \/ \E w \in ws : tasks[w] = Reported)

\* The pool is emptied and filled again (another camera, another number of
\* workers).
Resize ==
  /\ phase = "capturing" /\ Detour
  /\ StopWorkers(Workers)
  /\ UNCHANGED <<assemblerVars, page, fountain, inbox, lead>>

\* A decode worker fails and is replaced: its task is dropped.  An APNG whose
\* frame is lost is given up.
WorkerFails(w) ==
  /\ faults < MaxFaults /\ faults' = faults + 1
  /\ \/ /\ phase \in {"parsing", "ending"} /\ tasks[w] # Free
        /\ Retry /\ UNCHANGED lost
     \/ /\ phase \notin {"parsing", "ending"} \/ tasks[w] = Free
        /\ StopWorkers({w})
        /\ UNCHANGED <<phase, source, fountain, inbox, lead>>
  /\ UNCHANGED <<assembly, attached, queue, work, answer, disk, mode, part, holding,
                 expected, detours>>

-----------------------------------------------------------------------------
(* The fountain worker.                                                    *)

\* The stream has not been seen for STREAM_SWITCH_IDLE_MS.
StreamIdles ==
  /\ fountain.recent
  /\ fountain' = [fountain EXCEPT !.recent = FALSE]
  /\ UNCHANGED <<assemblerVars, page, tasks, frames, inbox, lead, bounds>>

Message(type, s) == [type |-> type, stream |-> s]

\* expectedTransferVerdict
Acceptable(s) ==
  \/ fountain.expected = NoExpected
  \/ s.id = fountain.expected.id /\ s.index \in fountain.expected.missing

\* Is the frame ignored: of the stream that is complete, or of another than the
\* one that is being collected and has been seen just now?
Ignored(s) ==
  \/ fountain.done /\ fountain.stream = s
  \/ ~fountain.done /\ fountain.stream \notin {NoStream, s} /\ fountain.recent

Collected(s) ==
  LET n == 1 + IF fountain.stream = s THEN fountain.count ELSE 0
  IN  [fountain EXCEPT !.stream = s, !.count = IF n = Symbols THEN 0 ELSE n,
                       !.done = n = Symbols, !.recent = TRUE, !.verdict = NoStream]

\* decodeFrame, then the acknowledgement.  A verdict is sent when it is new.
DecodeFrame(s) ==
  /\ fountain.state = "running" /\ frames[s] > 0
  /\ frames' = [frames EXCEPT ![s] = @ - 1]
  /\ \/ /\ ~Acceptable(s)
        /\ fountain' = [fountain EXCEPT !.verdict = s]
        /\ inbox' = inbox \o (IF fountain.verdict = s THEN << >> ELSE <<Message("verdict", s)>>)
                          \o <<Message("processed", s)>>
     \/ /\ Acceptable(s) /\ Ignored(s)
        /\ fountain' = [fountain EXCEPT !.verdict = NoStream]
        /\ inbox' = Append(inbox, Message("processed", s))
     \/ /\ Acceptable(s) /\ ~Ignored(s)
        /\ fountain' = Collected(s)
        /\ inbox' = inbox \o (IF Collected(s).done THEN <<Message("complete", s)>> ELSE << >>)
                          \o <<Message("processed", s)>>
  /\ UNCHANGED <<assemblerVars, page, tasks, lead, bounds>>

\* The fountain worker stops.  Nobody is told while the session is done.
FountainFails ==
  /\ fountain.state = "running"
  /\ faults < MaxFaults /\ faults' = faults + 1
  /\ CASE Done -> /\ fountain' = [fountain EXCEPT !.state = "crashed"]
                  /\ UNCHANGED <<phase, source, tasks, frames, inbox, lead>>
       [] phase = "starting" -> ReleaseDecodeWorkers /\ UNCHANGED <<phase, source>>
       [] OTHER -> Retry
  /\ UNCHANGED <<assembly, attached, queue, work, answer, disk, mode, part, holding,
                 expected, bounds>>

\* The next message of the fountain worker.
OnProcessed ==
  /\ inbox # << >> /\ Head(inbox).type = "processed"
  /\ inbox' = Tail(inbox)
  /\ lead' = lead - 1
  /\ UNCHANGED <<assemblerVars, page, tasks, frames, fountain, bounds>>

\* handleMessage, finish: the session is done, the container is shown as complete.
\* Behind a rejection, finish() waits for what the rejection waits for, which then
\* supersedes it.
OnComplete ==
  /\ inbox # << >> /\ Head(inbox).type = "complete"
  /\ inbox' = Tail(inbox)
  /\ IF Done \/ phase \in {"rejecting", "rejectDrain"} THEN UNCHANGED <<phase, part, source>>
     ELSE phase' = "progress" /\ part' = Head(inbox).stream /\ source' = NoSource
  /\ UNCHANGED <<assemblerVars, mode, holding, expected, tasks, frames, fountain, lead, bounds>>

\* handleMessage: a part that is not wanted ends the attempt of an APNG, softly
\* if there is progress to keep.
OnVerdict ==
  /\ inbox # << >> /\ Head(inbox).type = "verdict"
  /\ IF phase \notin {"parsing", "ending", "draining"}
     THEN inbox' = Tail(inbox) /\ UNCHANGED <<phase, source, tasks, frames, fountain, lead>>
     ELSE IF Current # NoAssembly
     THEN /\ inbox' = Tail(inbox) /\ phase' = "rejecting"
          /\ UNCHANGED <<source, tasks, frames, fountain, lead>>
     ELSE Retry
  /\ UNCHANGED <<assemblerVars, mode, part, holding, expected, bounds>>

-----------------------------------------------------------------------------
(* The end of an attempt.                                                  *)

\* startApng: every frame has been submitted, decoded, and processed; the file
\* did not have enough of them.
ApngParsed ==
  /\ phase = "parsing" /\ source.left = 0
  /\ phase' = "ending"
  /\ UNCHANGED <<assemblerVars, mode, part, source, holding, expected, pipeline, bounds>>

ApngDecoded ==
  /\ phase = "ending" /\ AllIdle
  /\ phase' = "draining"
  /\ UNCHANGED <<assemblerVars, mode, part, source, holding, expected, pipeline, bounds>>

\* As ApngRefused, but the fountain worker is not waited for.
HastyApngRefused ==
  /\ phase = "draining"
  /\ Retry
  /\ UNCHANGED <<assemblerVars, mode, part, holding, expected, bounds>>

ApngRefused ==
  /\ phase = "draining" /\ lead <= 0
  /\ Retry
  /\ UNCHANGED <<assemblerVars, mode, part, holding, expected, bounds>>

\* A rejected APNG: suspendReceiver, then resetReceiver.
RejectionDecoded ==
  /\ phase = "rejecting" /\ AllIdle
  /\ phase' = "rejectDrain"
  /\ UNCHANGED <<assemblerVars, mode, part, source, holding, expected, pipeline, bounds>>

ApngRejected ==
  /\ phase = "rejectDrain" /\ lead <= 0
  /\ Park
  /\ SupersedeAttempt
  /\ UNCHANGED <<assembly, attached, answer, faults, mode, bounds>>

\* finish: the animation, then suspendReceiver.
ProgressShown ==
  /\ phase = "progress"
  /\ phase' = "idle"
  /\ UNCHANGED <<assemblerVars, mode, part, source, holding, expected, pipeline, bounds>>

\* As PoolIdle, but a decode worker may still have its task.
HastyPoolIdle ==
  /\ phase = "idle"
  /\ phase' = "drain"
  /\ UNCHANGED <<assemblerVars, mode, part, source, holding, expected, pipeline, bounds>>

PoolIdle ==
  /\ phase = "idle" /\ AllIdle
  /\ phase' = "drain"
  /\ UNCHANGED <<assemblerVars, mode, part, source, holding, expected, pipeline, bounds>>

\* The container is unpacked, and is not for the transfer in progress.
Mismatched ==
  /\ phase = "drain" /\ lead <= 0 /\ ~Compatible(part)
  /\ Park
  /\ SupersedeAttempt
  /\ UNCHANGED <<assembly, attached, answer, faults, mode, bounds>>

\* A standalone file is shown from memory.
ShowFile ==
  /\ phase = "drain" /\ lead <= 0 /\ Compatible(part) /\ part.index = Standalone
  /\ phase' = "result" /\ part' = NoStream
  /\ ReleaseDecodeWorkers
  /\ ResetParts
  /\ UNCHANGED <<assembly, work, answer, disk, faults, mode, source, holding, bounds>>

\* A part goes to the assembler when the codecs are there.
Unpacked ==
  /\ phase = "drain" /\ lead <= 0 /\ Compatible(part) /\ part.index # Standalone
  /\ phase' = "preparing"
  /\ UNCHANGED <<assemblerVars, mode, part, source, holding, expected, pipeline, bounds>>

\* The container cannot be unpacked.
UnpackFails ==
  /\ phase = "drain" /\ lead <= 0
  /\ faults < MaxFaults /\ faults' = faults + 1
  /\ phase' = "failed" /\ part' = NoStream
  /\ ReleaseDecodeWorkers
  /\ UNCHANGED <<assembly, attached, queue, work, answer, disk, mode, source, holding,
                 expected, bounds>>

\* The codecs of a part cannot be loaded: the transfer is given up.
CodecsFail ==
  /\ phase = "preparing"
  /\ faults < MaxFaults /\ faults' = faults + 1
  /\ FailTransfer
  /\ UNCHANGED <<assembly, answer, work, mode, source, bounds>>

AcceptPart ==
  /\ phase = "preparing"
  /\ phase' = "accepting"
  /\ queue' = Append(queue, Accept(part))
  /\ UNCHANGED <<assembly, attached, work, answer, disk, faults, mode, part, source, holding,
                 expected, pipeline, bounds>>

\* The caller of an accept() goes on.  One that was superseded deletes the file
\* it may have been given.
OnAnswer ==
  /\ answer # NoAnswer /\ answer' = NoAnswer
  /\ CASE ~answer.current ->
            /\ disk' = IF answer.kind = "stored" THEN disk \ {Result} ELSE disk
            /\ UNCHANGED <<queue, work, attached, page, pipeline>>
       [] answer.current /\ answer.kind \in {"more", "mismatch"} ->
            /\ Park
            /\ SupersedeAttempt
            /\ UNCHANGED <<attached, mode>>
       [] answer.current /\ answer.kind = "stored" ->
            /\ phase' = "result" /\ part' = NoStream /\ holding' = TRUE
            /\ ReleaseDecodeWorkers
            /\ ResetParts
            /\ UNCHANGED <<disk, work, mode, source>>
       [] answer.current /\ answer.kind = "failed" ->
            /\ FailTransfer
            /\ UNCHANGED <<work, mode, source>>
  /\ UNCHANGED <<assembly, faults, bounds>>

-----------------------------------------------------------------------------

Assembles == Works /\ UNCHANGED <<page, pipeline, bounds>>
AssemblerFails == DiskFails /\ UNCHANGED <<page, pipeline, bounds>>

UserNext ==
  \/ \E s \in Streams : Start(s) \/ Show(s)
  \/ \E s \in Streams, n \in 1 .. Symbols : StartApng(s, n)
  \/ StartRefused \/ SourceEnds
  \/ SwitchMode \/ Restart \/ Other \/ Unmount
  \/ Resize

FaultNext ==
  \/ \E w \in Workers : WorkerFails(w)
  \/ FountainFails \/ UnpackFails \/ CodecsFail \/ AssemblerFails

PoolNext(w) == Capture(w) \/ ParseFrame(w) \/ Forward(w) \/ TaskComplete(w)
FountainNext == StreamIdles \/ \E s \in Streams : DecodeFrame(s)
PageNext ==
  \/ Started \/ SwitchDone
  \/ OnProcessed \/ OnComplete \/ OnVerdict
  \/ ApngParsed \/ ApngDecoded \/ ApngRefused \/ RejectionDecoded \/ ApngRejected
  \/ ProgressShown \/ PoolIdle \/ Mismatched \/ ShowFile \/ Unpacked \/ AcceptPart

\* The caller of an accept() goes on before the next event of the page.
Next ==
  \/ OnAnswer
  \/ answer = NoAnswer /\ ( \/ UserNext \/ FaultNext \/ FountainNext \/ PageNext \/ Assembles
                            \/ \E w \in Workers : PoolNext(w) )

Spec == Init /\ [][Next]_vars

\* The browser runs what is due; nobody has to do anything.
Fairness ==
  /\ \A w \in Workers : WF_vars(PoolNext(w))
  /\ WF_vars(FountainNext)
  /\ WF_vars(PageNext)
  /\ WF_vars(Assembles) /\ WF_vars(OnAnswer)

FairSpec == Spec /\ Fairness

-----------------------------------------------------------------------------
(* Properties.                                                             *)

\* No temporary file is left behind: when the assembler rests, the files are
\* those of the transfer in progress and the one the page shows.  (The dispose()
\* of an assembly races accept(), reset() and the attempts that own their results.)
NothingLeaked ==
  Resting => disk = Held(Current) \cup (IF holding THEN {Result} ELSE {})

\* When the page waits for the next attempt, nothing of the last one is on its
\* way: waitForFullDrain() separates the streams that reuse the same workers, and
\* a late frame would be taken for the next stream.
QuietBetweenAttempts ==
  phase = "ready" /\ ~lost =>
    AllIdle /\ frames = NoFrames /\ inbox = << >> /\ lead = 0

\* A stream that the fountain worker has done with, and of which it ignores
\* every other frame, has been received: a part that is wanted is never ignored.
DoneIsReceived ==
  phase \in {"ready", "capturing"} /\ fountain.done /\ Wanted(fountain.stream) =>
    \/ lost \/ faults > 0
    \/ \E n \in DOMAIN inbox : inbox[n] = Message("complete", fountain.stream)

\* startApng() does not refuse a file with all the symbols of a wanted part because
\* the fountain worker is slower than the decode workers.
WholeApngIsRead ==
  [][phase = "draining" /\ phase' = "ready" /\ source.whole /\ faults' = 0
       => ~Wanted(source.stream)]_vars

\* Parts that were received are not lost, but by a failure, or by the user who has
\* seen the file, gives the transfer up or leaves.  And by one who switches the mode
\* while the last part is being added: finish() then deletes the file it is given.
Kept == IF Result \in disk THEN 0 .. Count - 1 ELSE Current.received
PartsAreKept ==
  [][~(Kept \subseteq Kept') =>
       \/ faults' > 0
       \/ holding \/ Other \/ phase' = "gone"
       \/ answer.kind = "stored" /\ ~answer.current]_vars

\* The receiver comes back from every attempt that has been decided: each of the
\* barriers of suspendReceiver() and every accept() ends, unless a worker took with
\* it what they wait for.
ReceiverReturns ==
  phase \in {"rejecting", "rejectDrain", "progress", "idle", "drain", "preparing", "accepting",
             "switching"}
    ~> \/ phase \in {"ready", "starting", "capturing", "parsing", "result", "failed", "gone"}
       \/ lost \/ fountain.state = "crashed"
=============================================================================

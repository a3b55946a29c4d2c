--------------------------- MODULE PartAssembler ----------------------------
(***************************************************************************)
(* MultipartOpticalAssembler (frontend/optical/receive/part-assembler.ts): *)
(* it puts the parts of an optical transfer together as they come, in any  *)
(* order.  The next part in order is appended to the output file; a part   *)
(* that is early is staged in a file of its own and appended when its turn *)
(* comes.  accept() and reset() are serialized by a chain of promises, and *)
(* reset() may come at any await of the accept() that runs.                *)
(*                                                                         *)
(* At any time there is at most one assembly: the one a reset has detached *)
(* is disposed of before the next accept() begins, for both are queued.    *)
(* A part is one chunk, written by one await; a file is deleted at once,   *)
(* for nothing but its owner looks at it (a deletion that fails is queued  *)
(* by utils/opfs.ts for a later visit).  Sizes and decompression are left  *)
(* out; the hash of the output is the hash of its parts in their order.    *)
(***************************************************************************)
EXTENDS Integers, Sequences, FiniteSets

CONSTANTS
  Count,       \* the number of parts of a transfer
  Streams,     \* what senders show: parts of transfers, and standalone files
  MaxFaults    \* bound: failures of the disk and of workers

Standalone == -1
NoStream == [id |-> "none", index |-> Standalone, name |-> "none"]

ASSUME AssemblerAssumption ==
  /\ Count \in Nat \ {0, 1}
  /\ \A s \in Streams : s.index \in {Standalone} \cup 0 .. Count - 1 /\ s.id # NoStream.id
  /\ MaxFaults \in Nat

VARIABLES
  assembly,    \* the assembly, which may be detached
  attached,    \* is it this.assembly?  (If not, its controller has been aborted.)
  queue,       \* calls of accept() and reset() that wait for their turn
  work,        \* the accept() that runs, and the await it is in
  answer,      \* how an accept() has ended, until its caller goes on
  disk,        \* the temporary files that exist
  faults       \* failures so far

assemblerVars == <<assembly, attached, queue, work, answer, disk, faults>>

NoAssembly == [id |-> "none", name |-> "none", received |-> {}, pending |-> {}, next |-> 0,
               out |-> FALSE, written |-> << >>]
Begun(part) == [NoAssembly EXCEPT !.id = part.id, !.name = part.name]

Idle == [pc |-> "idle", part |-> NoStream, current |-> FALSE]
NoAnswer == [kind |-> "none", current |-> FALSE]

Accept(part) == [op |-> "accept", part |-> part, live |-> TRUE, current |-> TRUE]
Dispose == [op |-> "dispose", part |-> NoStream, live |-> FALSE, current |-> FALSE]

Output == [kind |-> "output", index |-> 0]
Staged(i) == [kind |-> "part", index |-> i]
Result == [kind |-> "result", index |-> 0]

\* The files dispose() deletes.
Held(a) == (IF a.out THEN {Output} ELSE {}) \cup {Staged(i) : i \in a.pending}

InitAssembler ==
  /\ assembly = NoAssembly /\ attached = FALSE
  /\ queue = << >>
  /\ work = Idle
  /\ answer = NoAnswer
  /\ disk = {}
  /\ faults = 0

-----------------------------------------------------------------------------
(* What the callers see and do.                                            *)

Current == IF attached THEN assembly ELSE NoAssembly

\* expectedTransfer: what is missing of the transfer in progress.
NoExpected == [id |-> "none", missing |-> {}]
ExpectedOf(a) ==
  IF a = NoAssembly THEN NoExpected
  ELSE [id |-> a.id, missing |-> (0 .. Count - 1) \ a.received]
ExpectedTransfer == ExpectedOf(Current)

\* assertCompatibleTransfer
Compatible(part) == Current = NoAssembly \/ (part.index # Standalone /\ part.id = Current.id)

\* As Resetting, but an assembly is only forgotten.
ForgetfulResetting(q) == [n \in DOMAIN q |-> [q[n] EXCEPT !.live = FALSE]]

\* reset(): no waiting accept() belongs to the new generation; the disposal of
\* the assembly waits for the accept() that runs.
Resetting(q) ==
  [n \in DOMAIN q |-> [q[n] EXCEPT !.live = FALSE]] \o (IF attached THEN <<Dispose>> ELSE << >>)

\* The callers that belong to an attempt that has been superseded.
Superseded(q) == [n \in DOMAIN q |-> [q[n] EXCEPT !.current = FALSE]]

-----------------------------------------------------------------------------
(* acceptPart.  `job` is the call, `a` the assembly it works on, `files`   *)
(* the files there are after what it has just done.                        *)

Ends(job, kind) ==
  /\ answer' = [kind |-> kind, current |-> job.current]
  /\ work' = Idle

\* As Fails, but the assembly stays this.assembly when its files are gone.
UntidyFails(job, a, files) ==
  /\ assembly' = [a EXCEPT !.out = FALSE, !.pending = {}] /\ UNCHANGED attached
  /\ disk' = files \ Held(a)
  /\ Ends(job, "failed")

\* The catch of acceptPart: dispose of the assembly.  (stagePart deletes its own file.)
Fails(job, a, files) ==
  /\ assembly' = NoAssembly /\ attached' = FALSE
  /\ disk' = files \ Held(a)
  /\ Ends(job, "failed")

\* The next await.
Awaits(job, pc, a, files) ==
  /\ assembly' = a /\ attached' = TRUE
  /\ disk' = files
  /\ work' = [job EXCEPT !.pc = pc] /\ UNCHANGED answer

Complete(a) == a.next = Count /\ a.pending = {}

\* As Accepted, but the parts are complete when the last one has come.
HastyAccepted(job, a, files) ==
  LET got == [a EXCEPT !.received = @ \cup {job.part.index}]
  IN  IF job.part.index = Count - 1
      THEN Awaits(job, "finish", got, files)
      ELSE /\ assembly' = got /\ disk' = files /\ UNCHANGED attached
           /\ Ends(job, "more")

\* The part is persisted, and counts as received.  The last one completes the file.
Accepted(job, a, files) ==
  LET got == [a EXCEPT !.received = @ \cup {job.part.index}]
  IN  IF Cardinality(got.received) < Count
      THEN /\ assembly' = got /\ disk' = files /\ UNCHANGED attached
           /\ Ends(job, "more")
      ELSE IF Complete(got) THEN Awaits(job, "finish", got, files)
      ELSE Fails(job, got, files)

\* flushContiguousParts: is the part whose turn has come staged already?
Continues(job, a, files) ==
  IF a.next \in a.pending THEN Awaits(job, "flush", a, files) ELSE Accepted(job, a, files)

Appended(a) == [a EXCEPT !.written = Append(@, a.next), !.next = @ + 1]

\* The turn of the next call.  A call of an earlier generation is refused; so is
\* a part of another transfer, which leaves the assembly as it is.  A part whose
\* metadata disagrees with its transfer's ends the assembly.
StartWork ==
  /\ work = Idle /\ queue # << >>
  /\ queue' = Tail(queue)
  /\ LET job == [Idle EXCEPT !.part = Head(queue).part, !.current = Head(queue).current]
         a == IF attached THEN assembly ELSE Begun(job.part)
         i == job.part.index
     IN  \/ /\ Head(queue).op = "dispose"
            /\ assembly' = NoAssembly /\ disk' = disk \ Held(assembly)
            /\ UNCHANGED <<attached, work, answer>>
         \/ /\ Head(queue).op = "accept" /\ ~Head(queue).live
            /\ Ends(job, "failed")
            /\ UNCHANGED <<assembly, attached, disk>>
         \/ /\ Head(queue).op = "accept" /\ Head(queue).live /\ ~Compatible(job.part)
            /\ Ends(job, "mismatch")
            /\ UNCHANGED <<assembly, attached, disk>>
         \/ /\ Head(queue).op = "accept" /\ Head(queue).live /\ Compatible(job.part)
            /\ CASE job.part.name # a.name -> Fails(job, a, disk)
                 [] job.part.name = a.name /\ i \in a.received ->
                      Ends(job, "more") /\ UNCHANGED <<assembly, attached, disk>>
                 [] job.part.name = a.name /\ i \notin a.received /\ i # a.next ->
                      Awaits(job, "stage", a, disk)
                 [] OTHER -> Awaits(job, IF a.out THEN "append" ELSE "create", a, disk)
  /\ UNCHANGED faults

Working(pc) == work.pc = pc /\ UNCHANGED <<queue, faults>>

\* startOutput: a file that was created after a reset is the detached assembly's.
OutputCreated ==
  /\ Working("create")
  /\ LET a == [assembly EXCEPT !.out = TRUE]
     IN  IF attached THEN Awaits(work, "append", a, disk \cup {Output})
         ELSE Fails(work, a, disk \cup {Output})

\* append, then nextIndex++
PartAppended ==
  /\ Working("append")
  /\ IF attached THEN Continues(work, Appended(assembly), disk) ELSE Fails(work, assembly, disk)

\* One round of flushContiguousParts: the staged part is appended and its file deleted.
PartFlushed ==
  /\ Working("flush")
  /\ LET a == [Appended(assembly) EXCEPT !.pending = @ \ {assembly.next}]
     IN  IF attached THEN Continues(work, a, disk \ {Staged(assembly.next)})
         ELSE Fails(work, assembly, disk)

\* stagePart, until the file is written ...
StageCreated ==
  /\ Working("stage")
  /\ IF attached THEN Awaits(work, "close", assembly, disk \cup {Staged(work.part.index)})
     ELSE Fails(work, assembly, disk)

\* ... and closed: it is in the assembly then, also if that has been detached.
StageClosed ==
  /\ Working("close")
  /\ LET a == [assembly EXCEPT !.pending = @ \cup {work.part.index}]
     IN  IF attached THEN Accepted(work, a, disk)
         ELSE Fails(work, assembly, disk \ {Staged(work.part.index)})

\* complete(): the output is closed and its hash compared.  The result is the
\* caller's; the assembly ends.
Finished ==
  /\ Working("finish")
  /\ IF attached /\ assembly.written = [n \in 1 .. Count |-> n - 1]
     THEN /\ assembly' = NoAssembly /\ attached' = FALSE
          /\ disk' = (disk \ {Output}) \cup {Result}
          /\ work' = [work EXCEPT !.pc = "settle"] /\ UNCHANGED answer
     ELSE Fails(work, assembly, disk)

Settled ==
  /\ Working("settle")
  /\ Ends(work, "stored")
  /\ UNCHANGED <<assembly, attached, disk>>

\* The operation of the disk that the accept() waits for fails.
DiskFails ==
  /\ work.pc \in {"create", "append", "flush", "stage", "close", "finish"}
  /\ faults < MaxFaults /\ faults' = faults + 1
  /\ Fails(work, assembly,
           IF work.pc = "close" THEN disk \ {Staged(work.part.index)} ELSE disk)
  /\ UNCHANGED queue

Works ==
  \/ StartWork \/ OutputCreated \/ PartAppended \/ PartFlushed \/ StageCreated \/ StageClosed
  \/ Finished \/ Settled

-----------------------------------------------------------------------------
(* Properties.                                                             *)

Resting == work = Idle /\ queue = << >> /\ answer = NoAnswer

\* What counts as received (expectedTransfer) is on the disk, once: appended in
\* order, or staged.  An accept() that runs may have done more than is counted.
ReceivedIsPersisted ==
  work = Idle /\ attached =>
    /\ assembly.received = 0 .. assembly.next - 1 \cup assembly.pending
    /\ assembly.pending \cap 0 .. assembly.next - 1 = {}
    /\ assembly.written = [n \in 1 .. assembly.next |-> n - 1]
    /\ Held(assembly) \subseteq disk
=============================================================================

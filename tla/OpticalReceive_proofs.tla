----------------------- MODULE OpticalReceive_proofs ------------------------
(***************************************************************************)
(* Proofs about PartAssembler and OpticalReceive: what counts as received  *)
(* is on the disk and is kept, no temporary file is left behind, and       *)
(* nothing of an attempt is on its way when the next one begins, for every *)
(* number of parts, streams, workers, failures and changes of the page;    *)
(* that no part that is wanted is ignored by the fountain worker; and that *)
(* no whole file of one is refused.                                        *)
(***************************************************************************)
EXTENDS OpticalReceive, SequenceTheorems, FiniteSetTheorems, TLAPS

-----------------------------------------------------------------------------
(* The invariant, first of what is received.                               *)

\* The types of what the assembler works with.
Parts == Streams \cup {NoStream}
Assemblies == [id : {s.id : s \in Parts}, name : {s.name : s \in Parts},
               received : SUBSET Int, pending : SUBSET Int, next : Nat, out : BOOLEAN,
               written : Seq(Int)]
Calls == [op : {"accept", "dispose"}, part : Parts, live : BOOLEAN, current : BOOLEAN]
Jobs == [pc : {"idle", "create", "append", "flush", "stage", "close", "finish", "settle"},
         part : Parts, current : BOOLEAN]
Answers == [kind : {"none", "more", "mismatch", "stored", "failed"}, current : BOOLEAN]
Messages == [type : {"processed", "complete", "verdict"}, stream : Parts]

TypesOK ==
  /\ assembly \in Assemblies /\ attached \in BOOLEAN
  /\ queue \in Seq(Calls) /\ work \in Jobs /\ answer \in Answers
  /\ part \in Parts /\ inbox \in Seq(Messages) /\ holding \in BOOLEAN

\* The calls before a disposal belong to an earlier generation.
Ordered(q) ==
  \A n \in 1 .. Len(q) : q[n].op = "dispose" => \A k \in 1 .. n : ~q[k].live

NoDisposal(q) == \A n \in 1 .. Len(q) : q[n].op # "dispose"

\* What is disposed of is detached.
DisposalsFirst == Ordered(queue) /\ (attached => NoDisposal(queue))

\* The parts on the disk.
PartsOf(a) == (0 .. a.next - 1) \cup a.pending

\* The parts that are appended are those before the next one, in their order, and
\* those that are staged come later.
InOrder(a) ==
  /\ a.pending \cap (0 .. a.next - 1) = {}
  /\ a.written = [n \in 1 .. a.next |-> n - 1]

\* What the assembly has at every await of accept().
Consistent ==
  attached =>
    /\ InOrder(assembly)
    /\ Held(assembly) \subseteq disk
    /\ work.pc # "settle"
    /\ work.pc # "flush" => assembly.received = PartsOf(assembly)
    /\ work.pc \in {"create", "append"} => work.part.index = assembly.next
    /\ work.pc = "flush" =>
         /\ assembly.received \cup {work.part.index} = PartsOf(assembly)
         /\ assembly.next \in assembly.pending
    /\ work.pc \in {"create", "append", "stage", "close"} =>
         work.part.index \notin assembly.received
    /\ work.pc = "close" => Staged(work.part.index) \in disk
    /\ work.pc = "finish" => assembly.pending = {}

PersistInv == TypesOK /\ DisposalsFirst /\ Consistent

\* Every file has one owner: the assembly, the accept() that stages it, or, for the
\* result, the accept() that has finished, its answer, or the page.
Owned ==
  disk = Held(assembly)
         \cup (IF work.pc = "close" THEN {Staged(work.part.index)} ELSE {})
         \cup (IF holding \/ work.pc = "settle" \/ answer.kind = "stored" THEN {Result} ELSE {})

\* A detached assembly with files is about to be disposed of.
DetachedIsDisposed ==
  ~attached /\ work.pc \in {"idle", "settle"} => Held(assembly) = {} \/ ~NoDisposal(queue)

NoAccept(q) == \A n \in 1 .. Len(q) : q[n].op # "accept"
NoCurrent(q) == \A n \in 1 .. Len(q) : ~q[n].current

\* The call of the attempt that goes on is the last one.
CurrentLast(q) ==
  \A n \in 1 .. Len(q) : q[n].current => \A k \in n + 1 .. Len(q) : q[k].op # "accept"

\* The attempt whose accept() waits, runs or has ended is "accepting", and the page
\* shows a file when no accept() is left that could own it.
OneAttempt ==
  /\ answer # NoAnswer => work.pc = "idle"
  /\ answer.kind = "none" => ~answer.current
  /\ work.pc = "idle" => ~work.current
  /\ answer.current \/ work.current => phase = "accepting" /\ NoAccept(queue)
  /\ CurrentLast(queue)
  /\ phase # "accepting" => NoCurrent(queue)
  /\ \A n \in 1 .. Len(queue) : queue[n].current => queue[n].op = "accept"
  /\ holding => phase = "result" /\ work.pc = "idle" /\ answer = NoAnswer /\ NoAccept(queue)

LeakInv == Owned /\ DetachedIsDisposed /\ OneAttempt

Inv == PersistInv /\ LeakInv

-----------------------------------------------------------------------------
(* The files, and the calls in the queue.                                  *)

LEMMA NothingHeld == Held(NoAssembly) = {}
BY DEF Held, NoAssembly

LEMMA FilesDiffer ==
  /\ Output # Result
  /\ \A i : Staged(i) # Output /\ Staged(i) # Result
  /\ \A i, j : Staged(i) = Staged(j) => i = j
BY DEF Output, Result, Staged

LEMMA ResultIsNotHeld ==
  ASSUME NEW a
  PROVE  Result \notin Held(a)
BY FilesDiffer DEF Held

\* superseding keeps the calls and their order.
LEMMA SupersededQueue ==
  ASSUME NEW q \in Seq(Calls)
  PROVE  /\ Superseded(q) \in Seq(Calls) /\ Len(Superseded(q)) = Len(q)
         /\ \A n \in 1 .. Len(q) : /\ Superseded(q)[n].op = q[n].op
                                   /\ Superseded(q)[n].live = q[n].live
                                   /\ ~Superseded(q)[n].current
<1>1. DOMAIN q = 1 .. Len(q) /\ Len(q) \in Nat /\ \A n \in 1 .. Len(q) : q[n] \in Calls
  OBVIOUS
<1>2. \A c \in Calls : /\ [c EXCEPT !.current = FALSE] \in Calls
                       /\ [c EXCEPT !.current = FALSE].op = c.op
                       /\ [c EXCEPT !.current = FALSE].live = c.live
                       /\ ~[c EXCEPT !.current = FALSE].current
  BY DEF Calls
<1>3. Superseded(q) = [n \in 1 .. Len(q) |-> [q[n] EXCEPT !.current = FALSE]]
  BY <1>1 DEF Superseded
<1>4. \A n \in 1 .. Len(q) : Superseded(q)[n] = [q[n] EXCEPT !.current = FALSE]
  BY <1>3
<1>5. Superseded(q) \in Seq(Calls) /\ Len(Superseded(q)) = Len(q)
  BY <1>1, <1>2, <1>3
<1> QED
  BY <1>1, <1>2, <1>4, <1>5

\* resetting refuses the calls that wait, and disposes of the assembly after them.
LEMMA ResettingQueue ==
  ASSUME NEW q \in Seq(Calls), attached \in BOOLEAN
  PROVE  /\ Resetting(q) \in Seq(Calls)
         /\ Len(Resetting(q)) = IF attached THEN Len(q) + 1 ELSE Len(q)
         /\ \A n \in 1 .. Len(q) : /\ Resetting(q)[n].op = q[n].op
                                   /\ ~Resetting(q)[n].live
                                   /\ Resetting(q)[n].current = q[n].current
         /\ attached => Resetting(q)[Len(q) + 1] = Dispose
<1> DEFINE r == [n \in 1 .. Len(q) |-> [q[n] EXCEPT !.live = FALSE]]
<1>1. DOMAIN q = 1 .. Len(q) /\ Len(q) \in Nat /\ \A n \in 1 .. Len(q) : q[n] \in Calls
  OBVIOUS
<1>2. \A c \in Calls : /\ [c EXCEPT !.live = FALSE] \in Calls
                       /\ [c EXCEPT !.live = FALSE].op = c.op
                       /\ [c EXCEPT !.live = FALSE].current = c.current
                       /\ ~[c EXCEPT !.live = FALSE].live
  BY DEF Calls
<1>3. Resetting(q) = r \o (IF attached THEN <<Dispose>> ELSE << >>)
  BY <1>1 DEF Resetting
<1>4. r \in Seq(Calls) /\ Len(r) = Len(q)
  BY <1>1, <1>2
<1>5. \A n \in 1 .. Len(q) : r[n].op = q[n].op /\ ~r[n].live /\ r[n].current = q[n].current
  BY <1>1, <1>2
<1>6. Dispose \in Calls
  BY DEF Dispose, Calls, Parts
<1> HIDE DEF r
<1>7. CASE attached
  <2>1. Resetting(q) = Append(r, Dispose)
    BY <1>3, <1>4, <1>6, <1>7
  <2> QED
    BY <1>1, <1>4, <1>5, <1>6, <1>7, <2>1
<1>8. CASE ~attached
  <2>1. Resetting(q) = r
    BY <1>3, <1>4, <1>8
  <2> QED
    BY <1>4, <1>5, <1>8, <2>1
<1> QED
  BY <1>7, <1>8

LEMMA PartTypes ==
  /\ \A s \in Parts : s.index \in Int
  /\ NoStream \in Parts /\ NoStream.index \in Int
BY AssemblerAssumption DEF Parts, NoStream, Standalone

LEMMA NoAssemblyType == NoAssembly \in Assemblies
<1>1. NoStream \in Parts /\ NoStream.id = "none" /\ NoStream.name = "none"
  BY DEF Parts, NoStream
<1>2. NoAssembly.id \in {s.id : s \in Parts} /\ NoAssembly.name \in {s.name : s \in Parts}
  BY <1>1 DEF NoAssembly
<1>3. << >> \in Seq(Int)
  OBVIOUS
<1> QED
  BY <1>2, <1>3 DEF NoAssembly, Assemblies

LEMMA BegunType ==
  ASSUME NEW p \in Parts
  PROVE  /\ Begun(p) \in Assemblies /\ InOrder(Begun(p)) /\ Held(Begun(p)) = {}
         /\ Begun(p).received = PartsOf(Begun(p)) /\ Begun(p).next = 0 /\ ~Begun(p).out
<1>1. /\ Begun(p).id = p.id /\ Begun(p).name = p.name /\ Begun(p).received = {}
      /\ Begun(p).pending = {} /\ Begun(p).next = 0 /\ Begun(p).out = FALSE
      /\ Begun(p).written = << >>
  BY DEF Begun, NoAssembly
<1>2. Begun(p) \in Assemblies
  <2>1. [NoAssembly EXCEPT !.id = p.id] \in Assemblies
    BY NoAssemblyType DEF Assemblies
  <2> QED
    BY <2>1 DEF Begun, Assemblies
<1>3. << >> = [n \in 1 .. 0 |-> n - 1] /\ 0 .. -1 = {}
  OBVIOUS
<1> QED
  BY <1>1, <1>2, <1>3 DEF Held, PartsOf, InOrder

-----------------------------------------------------------------------------
(* The order of the queue.                                                 *)

LEMMA SupersededOrder ==
  ASSUME NEW q \in Seq(Calls), Ordered(q)
  PROVE  Ordered(Superseded(q)) /\ (NoDisposal(q) => NoDisposal(Superseded(q)))
<1>1. Len(q) \in Nat
  OBVIOUS
<1> QED
  BY <1>1, SupersededQueue DEF Ordered, NoDisposal

LEMMA ResettingOrder ==
  ASSUME NEW q \in Seq(Calls), attached \in BOOLEAN
  PROVE  Ordered(Resetting(q))
<1>1. Len(q) \in Nat
  OBVIOUS
<1>2. \A n \in 1 .. Len(Resetting(q)) : ~Resetting(q)[n].live
  BY <1>1, ResettingQueue DEF Dispose
<1> QED
  BY <1>2 DEF Ordered

LEMMA AppendedOrder ==
  ASSUME NEW q \in Seq(Calls), Ordered(q), NEW p \in Parts
  PROVE  /\ Append(q, Accept(p)) \in Seq(Calls) /\ Ordered(Append(q, Accept(p)))
         /\ NoDisposal(q) => NoDisposal(Append(q, Accept(p)))
<1>1. Accept(p) \in Calls /\ Accept(p).op = "accept"
  BY DEF Accept, Calls
<1>2. /\ Append(q, Accept(p)) \in Seq(Calls)
      /\ Len(q) \in Nat /\ Len(Append(q, Accept(p))) = Len(q) + 1
      /\ \A n \in 1 .. Len(q) : Append(q, Accept(p))[n] = q[n]
      /\ Append(q, Accept(p))[Len(q) + 1] = Accept(p)
  BY <1>1
<1> HIDE DEF Accept
<1> QED
  BY <1>1, <1>2 DEF Ordered, NoDisposal

LEMMA TailOrder ==
  ASSUME NEW q \in Seq(Calls), q # << >>, Ordered(q)
  PROVE  /\ Head(q) \in Calls /\ Tail(q) \in Seq(Calls) /\ Ordered(Tail(q))
         /\ NoDisposal(q) => NoDisposal(Tail(q)) /\ Head(q).op # "dispose"
         /\ Head(q).live => NoDisposal(q)
<1>1. /\ Head(q) \in Calls /\ Tail(q) \in Seq(Calls) /\ Len(q) \in Nat \ {0}
      /\ Len(Tail(q)) = Len(q) - 1
      /\ \A n \in 1 .. Len(Tail(q)) : Tail(q)[n] = q[n + 1]
  BY HeadTailProperties, EmptySeq
<1>2. Head(q) = q[1]
  OBVIOUS
<1>3. Ordered(Tail(q))
  BY <1>1 DEF Ordered
<1>4. NoDisposal(q) => NoDisposal(Tail(q)) /\ Head(q).op # "dispose"
  BY <1>1, <1>2 DEF NoDisposal
<1>5. Head(q).live => NoDisposal(q)
  BY <1>1, <1>2 DEF Ordered, NoDisposal
<1> QED
  BY <1>1, <1>3, <1>4, <1>5

-----------------------------------------------------------------------------
(* What the steps of the page and of the assembler keep.                   *)

LEMMA IdleTypes ==
  /\ Idle \in Jobs /\ Idle.pc = "idle"
  /\ NoAnswer \in Answers
  /\ \A job \in Jobs, kind \in {"more", "mismatch", "stored", "failed"} :
       [kind |-> kind, current |-> job.current] \in Answers
BY PartTypes DEF Idle, Jobs, NoAnswer, Answers

LEMMA PagePersists ==
  ASSUME PersistInv, assembly' = assembly,
         answer' \in Answers, part' \in Parts, inbox' \in Seq(Messages), holding' \in BOOLEAN,
         work' \in Jobs, work'.pc = work.pc, work'.part = work.part,
         disk \ {Result} \subseteq disk',
         queue' \in Seq(Calls), Ordered(queue'),
         attached' \in BOOLEAN, attached' => attached /\ NoDisposal(queue')
  PROVE  PersistInv'
<1>1. TypesOK'
  BY DEF PersistInv, TypesOK
<1>2. DisposalsFirst'
  BY DEF DisposalsFirst
<1>3. Consistent'
  <2>1. SUFFICES ASSUME attached'
                 PROVE  Consistent'
    BY DEF Consistent
  <2>2. Held(assembly') \subseteq disk'
    BY <2>1, ResultIsNotHeld DEF PersistInv, Consistent
  <2>3. work.pc = "close" => Staged(work.part.index) \in disk'
    BY <2>1, FilesDiffer DEF PersistInv, Consistent
  <2> QED
    BY <2>1, <2>2, <2>3 DEF PersistInv, Consistent
<1> QED
  BY <1>1, <1>2, <1>3 DEF PersistInv

LEMMA FailsPersists ==
  ASSUME TypesOK, UNCHANGED <<part, inbox, holding>>,
         queue' \in Seq(Calls), Ordered(queue'),
         NEW job \in Jobs, NEW a, NEW files, Fails(job, a, files)
  PROVE  PersistInv'
<1>1. TypesOK'
  BY IdleTypes, NoAssemblyType DEF Fails, Ends, TypesOK
<1>2. ~attached'
  BY DEF Fails
<1> QED
  BY <1>1, <1>2 DEF PersistInv, DisposalsFirst, Consistent

LEMMA AcceptedPersists ==
  ASSUME TypesOK, DisposalsFirst, attached, UNCHANGED <<queue, part, inbox, holding>>,
         NEW a \in Assemblies, NEW files, InOrder(a), Held(a) \subseteq files,
         a.received \cup {work.part.index} = PartsOf(a),
         Accepted(work, a, files)
  PROVE  PersistInv'
<1> DEFINE got == [a EXCEPT !.received = @ \cup {work.part.index}]
<1>1. work \in Jobs /\ work.part.index \in Int
  BY PartTypes DEF TypesOK, Jobs
<1>2. /\ got \in Assemblies /\ got.received = PartsOf(got) /\ InOrder(got)
      /\ Held(got) = Held(a)
  BY <1>1 DEF Assemblies, PartsOf, InOrder, Held
<1> HIDE DEF got
<1>3. \/ Fails(work, got, files)
      \/ /\ assembly' = got /\ attached' = attached /\ disk' = files
         /\ Ends(work, "more")
      \/ Awaits(work, "finish", got, files) /\ got.pending = {}
  BY DEF Accepted, Complete, got
<1>4. CASE Fails(work, got, files)
  BY <1>1, <1>4, FailsPersists DEF TypesOK, DisposalsFirst
<1>5. CASE assembly' = got /\ attached' = attached /\ disk' = files /\ Ends(work, "more")
  <2>1. TypesOK'
    BY <1>1, <1>2, <1>5, IdleTypes DEF Ends, TypesOK
  <2>2. DisposalsFirst'
    BY <1>5 DEF DisposalsFirst
  <2>3. Consistent'
    BY <1>2, <1>5, IdleTypes DEF Ends, Consistent
  <2> QED
    BY <2>1, <2>2, <2>3 DEF PersistInv
<1>6. CASE Awaits(work, "finish", got, files) /\ got.pending = {}
  <2>1. work' \in Jobs /\ work'.pc = "finish"
    BY <1>1, <1>6 DEF Awaits, Jobs
  <2>2. TypesOK'
    BY <1>2, <1>6, <2>1 DEF Awaits, TypesOK
  <2>3. DisposalsFirst'
    BY <1>6 DEF Awaits, DisposalsFirst
  <2>4. Consistent'
    BY <1>2, <1>6, <2>1 DEF Awaits, Consistent
  <2> QED
    BY <2>2, <2>3, <2>4 DEF PersistInv
<1> QED
  BY <1>3, <1>4, <1>5, <1>6

LEMMA ContinuesPersists ==
  ASSUME TypesOK, DisposalsFirst, attached, UNCHANGED <<queue, part, inbox, holding>>,
         NEW a \in Assemblies, NEW files, InOrder(a), Held(a) \subseteq files,
         a.received \cup {work.part.index} = PartsOf(a),
         Continues(work, a, files)
  PROVE  PersistInv'
<1>1. CASE a.next \in a.pending
  <2>1. Awaits(work, "flush", a, files)
    BY <1>1 DEF Continues
  <2>2. work' \in Jobs /\ work'.pc = "flush" /\ work'.part = work.part
    BY <2>1 DEF Awaits, TypesOK, Jobs
  <2>3. TypesOK' /\ DisposalsFirst'
    BY <2>1, <2>2 DEF Awaits, TypesOK, DisposalsFirst
  <2>4. Consistent'
    BY <1>1, <2>1, <2>2 DEF Awaits, Consistent
  <2> QED
    BY <2>3, <2>4 DEF PersistInv
<1>2. CASE a.next \notin a.pending
  BY <1>2, AcceptedPersists DEF Continues
<1> QED
  BY <1>1, <1>2

\* append: the parts in order are one more.
LEMMA AppendedParts ==
  ASSUME NEW a \in Assemblies, InOrder(a)
  PROVE  /\ Appended(a) \in Assemblies
         /\ Appended(a).next = a.next + 1 /\ Appended(a).pending = a.pending
         /\ Appended(a).received = a.received /\ Appended(a).out = a.out
         /\ Appended(a).written = [n \in 1 .. a.next + 1 |-> n - 1]
         /\ 0 .. Appended(a).next - 1 = (0 .. a.next - 1) \cup {a.next}
<1>1. a.next \in Nat /\ a.written \in Seq(Int) /\ Len(a.written) = a.next
  BY DEF Assemblies, InOrder
<1>2. Append(a.written, a.next) = [n \in 1 .. a.next + 1 |-> n - 1]
  <2>1. /\ Append(a.written, a.next) \in Seq(Int)
        /\ Len(Append(a.written, a.next)) = a.next + 1
        /\ \A n \in 1 .. a.next : Append(a.written, a.next)[n] = n - 1
        /\ Append(a.written, a.next)[a.next + 1] = a.next
    BY <1>1 DEF InOrder
  <2> DEFINE t == [n \in 1 .. a.next + 1 |-> n - 1]
  <2>2. t \in Seq(Int) /\ Len(t) = a.next + 1
    <3>1. a.next + 1 \in Nat /\ t \in [1 .. a.next + 1 -> Int]
      BY <1>1
    <3> HIDE DEF t
    <3> QED
      BY <3>1
  <2>3. \A n \in 1 .. a.next + 1 : Append(a.written, a.next)[n] = t[n]
    BY <1>1, <2>1
  <2> HIDE DEF t
  <2>4. Append(a.written, a.next) = t
    BY <1>1, <2>1, <2>2, <2>3, SeqEqual
  <2> QED
    BY <2>4 DEF t
<1>3. Append(a.written, a.next) \in Seq(Int)
  BY <1>1
<1>4. /\ Appended(a).next = a.next + 1 /\ Appended(a).pending = a.pending
      /\ Appended(a).received = a.received /\ Appended(a).out = a.out
      /\ Appended(a).written = Append(a.written, a.next)
  BY <1>1 DEF Appended, Assemblies
<1>5. Appended(a) \in Assemblies
  <2> DEFINE b == [a EXCEPT !.written = Append(@, a.next)]
  <2>1. b \in Assemblies
    BY <1>3 DEF Assemblies
  <2>2. Appended(a) = [b EXCEPT !.next = a.next + 1]
    BY <1>1 DEF Appended, Assemblies
  <2> HIDE DEF b
  <2>3. \A n \in Nat : [b EXCEPT !.next = n] \in Assemblies
    BY <2>1 DEF Assemblies
  <2>4. a.next + 1 \in Nat
    BY <1>1
  <2> QED
    BY <2>2, <2>3, <2>4
<1>6. 0 .. Appended(a).next - 1 = (0 .. a.next - 1) \cup {a.next}
  BY <1>1, <1>4
<1> QED
  BY <1>2, <1>4, <1>5, <1>6

LEMMA OutputCreatedPersists ==
  ASSUME PersistInv, OutputCreated, UNCHANGED <<part, inbox, holding>>
  PROVE  PersistInv'
<1> DEFINE a == [assembly EXCEPT !.out = TRUE]
<1>1. work \in Jobs /\ work.pc = "create" /\ UNCHANGED queue
  BY DEF OutputCreated, Working, PersistInv, TypesOK
<1>2. CASE attached
  <2>1. /\ a \in Assemblies /\ a.received = assembly.received /\ PartsOf(a) = PartsOf(assembly)
        /\ a.next = assembly.next
        /\ InOrder(a) /\ Held(a) \subseteq Held(assembly) \cup {Output}
    BY <1>2 DEF PersistInv, TypesOK, Assemblies, Consistent, InOrder, PartsOf, Held
  <2> HIDE DEF a
  <2>2. Awaits(work, "append", a, disk \cup {Output})
    BY <1>2 DEF OutputCreated, a
  <2>3. work' \in Jobs /\ work'.pc = "append" /\ work'.part = work.part
    BY <1>1, <2>2 DEF Awaits, Jobs
  <2>4. TypesOK' /\ DisposalsFirst'
    BY <1>1, <1>2, <2>1, <2>2, <2>3 DEF Awaits, PersistInv, TypesOK, DisposalsFirst
  <2>5. Consistent'
    BY <1>1, <1>2, <2>1, <2>2, <2>3 DEF Awaits, PersistInv, Consistent
  <2> QED
    BY <2>4, <2>5 DEF PersistInv
<1>3. CASE ~attached
  BY <1>1, <1>3, FailsPersists DEF OutputCreated, PersistInv, TypesOK, DisposalsFirst
<1> QED
  BY <1>2, <1>3

LEMMA PartAppendedPersists ==
  ASSUME PersistInv, PartAppended, UNCHANGED <<part, inbox, holding>>
  PROVE  PersistInv'
<1>1. work \in Jobs /\ work.pc = "append" /\ UNCHANGED queue
  BY DEF PartAppended, Working, PersistInv, TypesOK
<1>2. CASE attached
  <2> DEFINE a == Appended(assembly)
  <2>1. /\ assembly \in Assemblies /\ InOrder(assembly) /\ Held(assembly) \subseteq disk
        /\ assembly.received = PartsOf(assembly) /\ work.part.index = assembly.next
        /\ assembly.next \notin assembly.received
    BY <1>1, <1>2 DEF PersistInv, TypesOK, Consistent
  <2>2. a.received \cup {work.part.index} = PartsOf(a)
    BY <2>1, AppendedParts DEF PartsOf
  <2>3. a \in Assemblies /\ InOrder(a) /\ Held(a) \subseteq disk
    <3>1. assembly.next \notin assembly.pending
      BY <2>1 DEF PartsOf
    <3>2. a.pending \cap (0 .. a.next - 1) = {}
      BY <2>1, <3>1, AppendedParts DEF InOrder
    <3> QED
      BY <2>1, <3>2, AppendedParts DEF InOrder, Held
  <2> HIDE DEF a
  <2>4. Continues(work, a, disk)
    BY <1>2 DEF PartAppended, a
  <2> QED
    BY <1>1, <1>2, <2>2, <2>3, <2>4, ContinuesPersists DEF PersistInv
<1>3. CASE ~attached
  BY <1>1, <1>3, FailsPersists DEF PartAppended, PersistInv, TypesOK, DisposalsFirst
<1> QED
  BY <1>2, <1>3

LEMMA PartFlushedPersists ==
  ASSUME PersistInv, PartFlushed, UNCHANGED <<part, inbox, holding>>
  PROVE  PersistInv'
<1>1. work \in Jobs /\ work.pc = "flush" /\ UNCHANGED queue
  BY DEF PartFlushed, Working, PersistInv, TypesOK
<1>2. CASE attached
  <2> DEFINE b == Appended(assembly)
             a == [b EXCEPT !.pending = @ \ {assembly.next}]
  <2>1. /\ assembly \in Assemblies /\ InOrder(assembly) /\ Held(assembly) \subseteq disk
        /\ assembly.received \cup {work.part.index} = PartsOf(assembly)
        /\ assembly.next \in assembly.pending
    BY <1>1, <1>2 DEF PersistInv, TypesOK, Consistent
  <2>2. b \in Assemblies
    BY <2>1, AppendedParts
  <2>3. /\ a \in Assemblies /\ a.received = assembly.received /\ a.out = assembly.out
        /\ a.next = assembly.next + 1 /\ a.written = [n \in 1 .. a.next |-> n - 1]
        /\ a.pending = assembly.pending \ {assembly.next}
        /\ 0 .. a.next - 1 = (0 .. assembly.next - 1) \cup {assembly.next}
    <3>1. /\ a.next = b.next /\ a.written = b.written /\ a.received = b.received
          /\ a.out = b.out /\ a.pending = b.pending \ {assembly.next} /\ a \in Assemblies
      BY <2>2 DEF Assemblies
    <3> HIDE DEF a
    <3>2. /\ b.next = assembly.next + 1 /\ b.pending = assembly.pending
          /\ b.received = assembly.received /\ b.out = assembly.out
          /\ b.written = [n \in 1 .. assembly.next + 1 |-> n - 1]
          /\ 0 .. b.next - 1 = (0 .. assembly.next - 1) \cup {assembly.next}
      BY <2>1, AppendedParts
    <3> HIDE DEF b
    <3>3. a.next = assembly.next + 1
      BY <3>1, <3>2
    <3>4. a.written = [n \in 1 .. a.next |-> n - 1]
      BY <3>1, <3>2, <3>3
    <3>5. 0 .. a.next - 1 = (0 .. assembly.next - 1) \cup {assembly.next}
      BY <3>1, <3>2
    <3> QED
      BY <3>1, <3>2, <3>3, <3>4, <3>5
  <2>4. a.received \cup {work.part.index} = PartsOf(a)
    BY <2>1, <2>3 DEF PartsOf
  <2>5. InOrder(a)
    BY <2>1, <2>3 DEF InOrder
  <2>6. Held(a) \subseteq disk \ {Staged(assembly.next)}
    BY <2>1, <2>3, FilesDiffer DEF Held
  <2>7. Continues(work, a, disk \ {Staged(assembly.next)})
    BY <1>2 DEF PartFlushed
  <2> HIDE DEF a, b
  <2> QED
    BY <1>1, <1>2, <2>3, <2>4, <2>5, <2>6, <2>7, ContinuesPersists DEF PersistInv
<1>3. CASE ~attached
  BY <1>1, <1>3, FailsPersists DEF PartFlushed, PersistInv, TypesOK, DisposalsFirst
<1> QED
  BY <1>2, <1>3

LEMMA StageCreatedPersists ==
  ASSUME PersistInv, StageCreated, UNCHANGED <<part, inbox, holding>>
  PROVE  PersistInv'
<1>1. work \in Jobs /\ work.pc = "stage" /\ UNCHANGED queue
  BY DEF StageCreated, Working, PersistInv, TypesOK
<1>2. CASE attached
  <2>1. Awaits(work, "close", assembly, disk \cup {Staged(work.part.index)})
    BY <1>2 DEF StageCreated
  <2>2. work' \in Jobs /\ work'.pc = "close" /\ work'.part = work.part
    BY <1>1, <2>1 DEF Awaits, Jobs
  <2>3. TypesOK' /\ DisposalsFirst'
    BY <1>1, <1>2, <2>1, <2>2 DEF Awaits, PersistInv, TypesOK, DisposalsFirst
  <2>4. Consistent'
    BY <1>1, <1>2, <2>1, <2>2 DEF Awaits, PersistInv, Consistent
  <2> QED
    BY <2>3, <2>4 DEF PersistInv
<1>3. CASE ~attached
  BY <1>1, <1>3, FailsPersists DEF StageCreated, PersistInv, TypesOK, DisposalsFirst
<1> QED
  BY <1>2, <1>3

LEMMA StageClosedPersists ==
  ASSUME PersistInv, StageClosed, UNCHANGED <<part, inbox, holding>>
  PROVE  PersistInv'
<1>1. work \in Jobs /\ work.pc = "close" /\ UNCHANGED queue /\ work.part.index \in Int
  BY PartTypes DEF StageClosed, Working, PersistInv, TypesOK, Jobs
<1>2. CASE attached
  <2> DEFINE a == [assembly EXCEPT !.pending = @ \cup {work.part.index}]
  <2>1. /\ assembly \in Assemblies /\ InOrder(assembly) /\ Held(assembly) \subseteq disk
        /\ assembly.received = PartsOf(assembly)
        /\ work.part.index \notin assembly.received /\ Staged(work.part.index) \in disk
    BY <1>1, <1>2 DEF PersistInv, TypesOK, Consistent
  <2>2. /\ a \in Assemblies /\ a.received = assembly.received /\ a.out = assembly.out
        /\ a.next = assembly.next /\ a.written = assembly.written
        /\ a.pending = assembly.pending \cup {work.part.index}
    BY <1>1, <2>1 DEF Assemblies
  <2> HIDE DEF a
  <2>3. a.received \cup {work.part.index} = PartsOf(a)
    BY <2>1, <2>2 DEF PartsOf
  <2>4. InOrder(a)
    BY <2>1, <2>2 DEF PartsOf, InOrder
  <2>5. Held(a) \subseteq disk
    BY <2>1, <2>2 DEF Held
  <2>6. Accepted(work, a, disk)
    BY <1>2 DEF StageClosed, a
  <2> QED
    BY <1>1, <1>2, <2>2, <2>3, <2>4, <2>5, <2>6, AcceptedPersists DEF PersistInv
<1>3. CASE ~attached
  BY <1>1, <1>3, FailsPersists DEF StageClosed, PersistInv, TypesOK, DisposalsFirst
<1> QED
  BY <1>2, <1>3

LEMMA FinishedPersists ==
  ASSUME PersistInv, Finished \/ Settled, UNCHANGED <<part, inbox, holding>>
  PROVE  PersistInv'
<1>1. work \in Jobs /\ UNCHANGED queue /\ TypesOK /\ Ordered(queue) /\ queue \in Seq(Calls)
  BY DEF Finished, Settled, Working, PersistInv, TypesOK, DisposalsFirst
<1>2. CASE Finished /\ Fails(work, assembly, disk)
  BY <1>1, <1>2, FailsPersists
<1>3. CASE /\ assembly' = NoAssembly /\ attached' = FALSE
           /\ work' = [work EXCEPT !.pc = "settle"] /\ UNCHANGED answer
  <2>1. work' \in Jobs
    BY <1>1, <1>3 DEF Jobs
  <2> QED
    BY <1>1, <1>3, <2>1, NoAssemblyType DEF PersistInv, TypesOK, DisposalsFirst, Consistent
<1>4. CASE Settled
  <2>1. work.pc = "settle" /\ UNCHANGED <<assembly, attached, disk>> /\ ~attached
    BY <1>4 DEF Settled, Working, PersistInv, TypesOK, Consistent
  <2>2. work' \in Jobs /\ answer' \in Answers
    BY <1>1, <1>4, IdleTypes DEF Settled, Ends
  <2> QED
    BY <1>1, <2>1, <2>2 DEF PersistInv, TypesOK, DisposalsFirst, Consistent
<1> QED
  BY <1>2, <1>3, <1>4 DEF Finished

LEMMA DiskFailsPersists ==
  ASSUME PersistInv, DiskFails, UNCHANGED <<part, inbox, holding>>
  PROVE  PersistInv'
BY FailsPersists DEF DiskFails, PersistInv, TypesOK, DisposalsFirst

LEMMA StartWorkPersists ==
  ASSUME PersistInv, StartWork, UNCHANGED <<part, inbox, holding>>
  PROVE  PersistInv'
<1> DEFINE call == Head(queue)
           job == [Idle EXCEPT !.part = call.part, !.current = call.current]
           a == IF attached THEN assembly ELSE Begun(job.part)
           i == job.part.index
<1>1. /\ work = Idle /\ queue # << >> /\ queue' = Tail(queue) /\ TypesOK
      /\ queue \in Seq(Calls) /\ Ordered(queue)
  BY DEF StartWork, PersistInv, TypesOK, DisposalsFirst
<1>2. /\ call \in Calls /\ queue' \in Seq(Calls) /\ Ordered(queue')
      /\ attached => NoDisposal(queue') /\ call.op # "dispose"
      /\ call.live => NoDisposal(queue')
  BY <1>1, TailOrder DEF PersistInv, DisposalsFirst
<1>3. /\ job \in Jobs /\ job.part = call.part /\ i \in Int
      /\ \A pc : [job EXCEPT !.pc = pc].pc = pc /\ [job EXCEPT !.pc = pc].part = job.part
      /\ \A pc \in {"create", "append", "stage"} : [job EXCEPT !.pc = pc] \in Jobs
  BY <1>2, PartTypes DEF Idle, Jobs, Calls
<1>4. /\ a \in Assemblies /\ InOrder(a) /\ Held(a) \subseteq disk
      /\ a.received = PartsOf(a)
  BY <1>1, <1>3, BegunType, IdleTypes DEF PersistInv, TypesOK, Consistent, Jobs
<1>5. \/ /\ call.op = "dispose" /\ assembly' = NoAssembly
         /\ UNCHANGED <<attached, work, answer>>
      \/ /\ UNCHANGED <<assembly, attached, disk>>
         /\ \E kind \in {"failed", "mismatch", "more"} : Ends(job, kind)
      \/ Fails(job, a, disk)
      \/ call.live /\ i \notin a.received /\ i # a.next /\ Awaits(job, "stage", a, disk)
      \/ /\ call.live /\ i \notin a.received /\ i = a.next
         /\ \E pc \in {"create", "append"} : Awaits(job, pc, a, disk)
  BY DEF StartWork
<1> HIDE DEF call, job, a, i
<1>6. CASE call.op = "dispose" /\ assembly' = NoAssembly /\ UNCHANGED <<attached, work, answer>>
  BY <1>1, <1>2, <1>6, NoAssemblyType DEF PersistInv, TypesOK, DisposalsFirst, Consistent
<1>7. CASE /\ UNCHANGED <<assembly, attached, disk>>
           /\ \E kind \in {"failed", "mismatch", "more"} : Ends(job, kind)
  <2>1. work' = Idle /\ answer' \in Answers
    BY <1>3, <1>7, IdleTypes DEF Ends
  <2> QED
    BY <1>1, <1>2, <1>7, <2>1, IdleTypes DEF PersistInv, TypesOK, DisposalsFirst, Consistent
<1>8. CASE Fails(job, a, disk)
  BY <1>1, <1>2, <1>3, <1>8, FailsPersists
<1>9. ASSUME call.live, i \notin a.received, NEW pc \in {"create", "append", "stage"},
             pc # "stage" => i = a.next, Awaits(job, pc, a, disk)
      PROVE  PersistInv'
  <2>1. work' \in Jobs /\ work'.pc = pc /\ work'.part.index = i
    BY <1>3, <1>9 DEF Awaits, i
  <2>2. TypesOK' /\ DisposalsFirst'
    BY <1>1, <1>2, <1>4, <1>9, <2>1 DEF Awaits, TypesOK, DisposalsFirst
  <2>3. Consistent'
    BY <1>4, <1>9, <2>1 DEF Awaits, Consistent
  <2> QED
    BY <2>2, <2>3 DEF PersistInv
<1> QED
  BY <1>5, <1>6, <1>7, <1>8, <1>9

-----------------------------------------------------------------------------
(* What the steps of the page do.                                          *)

Frame ==
  /\ assembly' = assembly /\ answer' = NoAnswer
  /\ part' \in Parts /\ inbox' \in Seq(Messages)

\* The attempt goes on, or ends without a trace.
Keeps ==
  /\ Frame
  /\ UNCHANGED <<attached, queue, work, disk, holding>>
  /\ phase \in {"accepting", "result"} => phase' = phase

\* The attempt is superseded ...
Supersedes ==
  /\ Frame
  /\ SupersedeAttempt /\ UNCHANGED attached
  /\ ReleaseFile(disk) /\ holding' = FALSE

\* ... and the transfer is given up.
Forgets ==
  /\ Frame
  /\ ForgetParts
  /\ ReleaseFile(disk) /\ holding' = FALSE

\* The attempt has ended, and with it the transfer.
Resets ==
  /\ Frame
  /\ ResetParts /\ UNCHANGED work
  /\ NoCurrent(queue) /\ ~work.current
  /\ ReleaseFile(disk) /\ holding' = FALSE

LEMMA ReleasedFile ==
  ASSUME ReleaseFile(disk)
  PROVE  disk \ {Result} \subseteq disk' /\ disk' \subseteq disk
BY DEF ReleaseFile

\* A page that releases its file leaves every other file to its owner.
LEMMA ReleaseOwned ==
  ASSUME PersistInv, LeakInv, Frame, work'.pc = work.pc, work'.part = work.part,
         ReleaseFile(disk), holding' = FALSE, answer.kind # "stored"
  PROVE  Owned'
<1>1. Result \notin Held(assembly) /\ \A i : Result # Staged(i)
  BY ResultIsNotHeld, FilesDiffer
<1>2. answer'.kind = "none" /\ assembly' = assembly
  BY DEF Frame, NoAnswer
<1>3. CASE holding
  <2>1. work.pc = "idle"
    BY <1>3 DEF LeakInv, OneAttempt
  <2>2. disk' = Held(assembly)
    BY <1>1, <1>3, <2>1 DEF ReleaseFile, LeakInv, Owned
  <2> QED
    BY <1>2, <2>1, <2>2 DEF Owned
<1>4. CASE ~holding
  BY <1>2, <1>4 DEF ReleaseFile, LeakInv, Owned
<1> QED
  BY <1>3, <1>4

\* Nobody is left who belongs to an attempt.
LEMMA NobodyCurrent ==
  ASSUME NoCurrent(queue'), ~work'.current, answer' = NoAnswer, holding' = FALSE
  PROVE  OneAttempt'
BY DEF OneAttempt, CurrentLast, NoCurrent, NoAnswer

LEMMA SupersededWork ==
  ASSUME work \in Jobs, work' = [work EXCEPT !.current = FALSE]
  PROVE  /\ work' \in Jobs /\ work'.pc = work.pc /\ work'.part = work.part
         /\ ~work'.current
BY DEF Jobs

LEMMA KeepsInv ==
  ASSUME Inv, answer = NoAnswer, Keeps
  PROVE  Inv'
<1>1. PersistInv'
  <2>1. answer' \in Answers
    BY IdleTypes DEF Keeps, Frame
  <2> QED
    BY <2>1, PagePersists DEF Keeps, Frame, Inv, PersistInv, TypesOK, DisposalsFirst
<1>2. Owned' /\ DetachedIsDisposed'
  BY DEF Keeps, Frame, Inv, LeakInv, Owned, DetachedIsDisposed
<1>3. OneAttempt'
  BY DEF Keeps, Frame, Inv, LeakInv, OneAttempt
<1> QED
  BY <1>1, <1>2, <1>3 DEF Inv, LeakInv

LEMMA SupersedesInv ==
  ASSUME Inv, answer.kind # "stored", Supersedes
  PROVE  Inv'
<1>1. /\ queue \in Seq(Calls) /\ Ordered(queue) /\ work \in Jobs /\ attached \in BOOLEAN
      /\ attached => NoDisposal(queue)
  BY DEF Inv, PersistInv, TypesOK, DisposalsFirst
<1>2. /\ queue' = Superseded(queue) /\ work' = [work EXCEPT !.current = FALSE]
      /\ Frame /\ ReleaseFile(disk) /\ holding' = FALSE /\ UNCHANGED attached
  BY DEF Supersedes, SupersedeAttempt
<1>3. /\ work' \in Jobs /\ work'.pc = work.pc /\ work'.part = work.part
      /\ ~work'.current
  BY <1>1, <1>2, SupersededWork
<1>4. /\ queue' \in Seq(Calls) /\ Ordered(queue')
      /\ NoDisposal(queue') <=> NoDisposal(queue)
      /\ NoCurrent(queue')
  BY <1>1, <1>2, SupersededQueue, SupersededOrder DEF NoDisposal, NoCurrent
<1>5. PersistInv'
  BY <1>1, <1>2, <1>3, <1>4, PagePersists, ReleasedFile, IdleTypes DEF Frame, Inv
<1>6. Owned'
  BY <1>2, <1>3, ReleaseOwned DEF Inv
<1>7. DetachedIsDisposed'
  BY <1>2, <1>3, <1>4 DEF Frame, Inv, LeakInv, DetachedIsDisposed
<1>8. OneAttempt'
  BY <1>2, <1>3, <1>4, NobodyCurrent DEF Frame
<1> QED
  BY <1>5, <1>6, <1>7, <1>8 DEF Inv, LeakInv

\* A detached assembly is in the queue to be disposed of.
LEMMA ResettingDisposes ==
  ASSUME NEW q \in Seq(Calls), attached \in BOOLEAN
  PROVE  /\ Resetting(q) \in Seq(Calls) /\ Ordered(Resetting(q))
         /\ attached \/ ~NoDisposal(q) => ~NoDisposal(Resetting(q))
         /\ NoCurrent(q) => NoCurrent(Resetting(q))
         /\ NoAccept(q) => NoAccept(Resetting(q))
<1>1. Len(q) \in Nat
  OBVIOUS
<1>2. Dispose.op = "dispose" /\ ~Dispose.current
  BY DEF Dispose
<1>3. Resetting(q) \in Seq(Calls) /\ Ordered(Resetting(q))
  BY ResettingQueue, ResettingOrder
<1>4. attached \/ ~NoDisposal(q) => ~NoDisposal(Resetting(q))
  BY <1>1, <1>2, ResettingQueue DEF NoDisposal
<1>5. NoCurrent(q) => NoCurrent(Resetting(q))
  BY <1>1, <1>2, ResettingQueue DEF NoCurrent
<1>6. NoAccept(q) => NoAccept(Resetting(q))
  BY <1>1, <1>2, ResettingQueue DEF NoAccept
<1> QED
  BY <1>3, <1>4, <1>5, <1>6

LEMMA ForgetsInv ==
  ASSUME Inv, answer.kind # "stored", Forgets
  PROVE  Inv'
<1>1. queue \in Seq(Calls) /\ work \in Jobs /\ attached \in BOOLEAN
  BY DEF Inv, PersistInv, TypesOK
<1> DEFINE q == Resetting(queue)
<1>2. /\ queue' = Superseded(q) /\ work' = [work EXCEPT !.current = FALSE]
      /\ Frame /\ ReleaseFile(disk) /\ holding' = FALSE /\ attached' = FALSE
  BY DEF Forgets, ForgetParts
<1>3. /\ work' \in Jobs /\ work'.pc = work.pc /\ work'.part = work.part
      /\ ~work'.current
  BY <1>1, <1>2, SupersededWork
<1>4. /\ q \in Seq(Calls) /\ Ordered(q)
      /\ attached \/ ~NoDisposal(queue) => ~NoDisposal(q)
  BY <1>1, ResettingDisposes
<1> HIDE DEF q
<1>5. /\ queue' \in Seq(Calls) /\ Ordered(queue')
      /\ NoDisposal(queue') <=> NoDisposal(q)
      /\ NoCurrent(queue')
  BY <1>2, <1>4, SupersededQueue, SupersededOrder DEF NoDisposal, NoCurrent
<1>6. PersistInv'
  BY <1>2, <1>3, <1>5, PagePersists, ReleasedFile, IdleTypes DEF Frame, Inv
<1>7. Owned'
  BY <1>2, <1>3, ReleaseOwned DEF Inv
<1>8. DetachedIsDisposed'
  BY <1>1, <1>2, <1>3, <1>4, <1>5 DEF Frame, Inv, LeakInv, DetachedIsDisposed
<1>9. OneAttempt'
  BY <1>2, <1>3, <1>5, NobodyCurrent DEF Frame
<1> QED
  BY <1>6, <1>7, <1>8, <1>9 DEF Inv, LeakInv

LEMMA ResetsInv ==
  ASSUME Inv, answer.kind # "stored", Resets
  PROVE  Inv'
<1>1. queue \in Seq(Calls) /\ work \in Jobs /\ attached \in BOOLEAN
  BY DEF Inv, PersistInv, TypesOK
<1>2. /\ queue' = Resetting(queue) /\ UNCHANGED work /\ ~work.current
      /\ Frame /\ ReleaseFile(disk) /\ holding' = FALSE /\ attached' = FALSE
  BY DEF Resets, ResetParts
<1>3. /\ queue' \in Seq(Calls) /\ Ordered(queue') /\ NoCurrent(queue')
      /\ attached \/ ~NoDisposal(queue) => ~NoDisposal(queue')
  BY <1>1, <1>2, ResettingDisposes DEF Resets
<1>4. PersistInv'
  BY <1>1, <1>2, <1>3, PagePersists, ReleasedFile, IdleTypes DEF Frame, Inv
<1>5. Owned'
  BY <1>2, ReleaseOwned DEF Inv
<1>6. DetachedIsDisposed'
  BY <1>1, <1>2, <1>3 DEF Frame, Inv, LeakInv, DetachedIsDisposed
<1>7. OneAttempt'
  BY <1>2, <1>3, NobodyCurrent DEF Frame
<1> QED
  BY <1>4, <1>5, <1>6, <1>7 DEF Inv, LeakInv

LEMMA AcceptPartInv ==
  ASSUME Inv, answer = NoAnswer, AcceptPart
  PROVE  Inv'
<1>1. /\ queue \in Seq(Calls) /\ Ordered(queue) /\ part \in Parts /\ Len(queue) \in Nat
      /\ attached => NoDisposal(queue)
  BY DEF Inv, PersistInv, TypesOK, DisposalsFirst
<1>2. /\ phase = "preparing" /\ phase' = "accepting" /\ queue' = Append(queue, Accept(part))
      /\ UNCHANGED <<assembly, attached, work, answer, disk, part, holding, inbox>>
  BY DEF AcceptPart, pipeline
<1>3. /\ NoCurrent(queue) /\ ~work.current /\ ~answer.current /\ ~holding
      /\ answer # NoAnswer => work.pc = "idle"
  BY <1>2 DEF Inv, LeakInv, OneAttempt
<1>4. /\ queue' \in Seq(Calls) /\ Ordered(queue')
      /\ NoDisposal(queue) => NoDisposal(queue')
  BY <1>1, <1>2, AppendedOrder
<1>5. /\ Len(queue') = Len(queue) + 1 /\ queue'[Len(queue) + 1].op = "accept"
      /\ \A n \in 1 .. Len(queue) : queue'[n] = queue[n]
  <2>1. Accept(part) \in Calls /\ Accept(part).op = "accept"
    BY <1>1 DEF Accept, Calls
  <2> QED
    BY <1>1, <1>2, <2>1
<1>6. PersistInv'
  BY <1>1, <1>2, <1>4, PagePersists DEF Inv, PersistInv, TypesOK
<1>7. Owned'
  BY <1>2 DEF Inv, LeakInv, Owned
<1>8. DetachedIsDisposed'
  BY <1>1, <1>2, <1>5 DEF Inv, LeakInv, DetachedIsDisposed, NoDisposal
<1>9. OneAttempt'
  <2>1. \A n \in 1 .. Len(queue') : queue'[n].current => n = Len(queue) + 1
    BY <1>1, <1>3, <1>5 DEF NoCurrent
  <2>2. CurrentLast(queue')
    BY <1>1, <1>5, <2>1 DEF CurrentLast
  <2> QED
    BY <1>2, <1>3, <1>5, <2>1, <2>2 DEF OneAttempt
<1> QED
  BY <1>6, <1>7, <1>8, <1>9 DEF Inv, LeakInv

LEMMA OnAnswerInv ==
  ASSUME Inv, OnAnswer
  PROVE  Inv'
<1>1. /\ answer # NoAnswer /\ answer' = NoAnswer /\ assembly' = assembly
      /\ work.pc = "idle" /\ ~work.current /\ ~holding /\ answer \in Answers
      /\ part \in Parts /\ inbox \in Seq(Messages) /\ queue \in Seq(Calls)
      /\ work \in Jobs /\ attached \in BOOLEAN
  BY DEF OnAnswer, Inv, PersistInv, TypesOK, LeakInv, OneAttempt
<1>2. << >> \in Seq(Messages) /\ NoStream \in Parts
  BY PartTypes
<1>3. CASE ~answer.current
  <2>1. /\ disk' = IF answer.kind = "stored" THEN disk \ {Result} ELSE disk
        /\ UNCHANGED <<queue, work, attached, phase, part, holding, inbox>>
    BY <1>3 DEF OnAnswer, page, pipeline
  <2>2. PersistInv'
    BY <1>1, <2>1, PagePersists, IdleTypes DEF Inv, PersistInv, TypesOK, DisposalsFirst
  <2>3. Owned'
    <3>1. answer'.kind = "none"
      BY <1>1 DEF NoAnswer
    <3>2. disk' = Held(assembly)
      BY <1>1, <2>1, ResultIsNotHeld DEF Inv, LeakInv, Owned
    <3> QED
      BY <1>1, <2>1, <3>1, <3>2 DEF Owned
  <2>4. DetachedIsDisposed' /\ OneAttempt'
    BY <1>1, <2>1 DEF Inv, LeakInv, DetachedIsDisposed, OneAttempt, NoAnswer
  <2> QED
    BY <2>2, <2>3, <2>4 DEF Inv, LeakInv
<1>4. CASE answer.current
  <2>1. NoAccept(queue) /\ NoCurrent(queue)
    BY <1>4 DEF Inv, LeakInv, OneAttempt, NoAccept, NoCurrent
  <2>2. CASE answer.kind \in {"more", "mismatch"}
    <3>1. Park /\ SupersedeAttempt /\ UNCHANGED attached
      BY <1>4, <2>2 DEF OnAnswer
    <3>2. Supersedes
      BY <1>1, <1>2, <3>1 DEF Park, ResetReceiver, Supersedes, Frame
    <3> QED
      BY <2>2, <3>2, SupersedesInv
  <2>3. CASE answer.kind = "stored"
    <3>1. /\ phase' = "result" /\ part' = NoStream /\ holding' = TRUE
          /\ inbox' = << >> /\ queue' = Resetting(queue) /\ attached' = FALSE
          /\ UNCHANGED <<disk, work>>
      BY <1>4, <2>3 DEF OnAnswer, ReleaseDecodeWorkers, ResetParts
    <3>2. /\ queue' \in Seq(Calls) /\ Ordered(queue') /\ NoCurrent(queue')
          /\ NoAccept(queue')
          /\ attached \/ ~NoDisposal(queue) => ~NoDisposal(queue')
      BY <1>1, <2>1, <3>1, ResettingDisposes
    <3>3. PersistInv'
      BY <1>1, <1>2, <3>1, <3>2, PagePersists, IdleTypes DEF Inv
    <3>4. Owned'
      BY <1>1, <2>3, <3>1 DEF Inv, LeakInv, Owned
    <3>5. DetachedIsDisposed'
      BY <1>1, <3>1, <3>2 DEF Inv, LeakInv, DetachedIsDisposed
    <3>6. OneAttempt'
      BY <1>1, <3>1, <3>2 DEF OneAttempt, NoCurrent, CurrentLast, NoAnswer
    <3> QED
      BY <3>3, <3>4, <3>5, <3>6 DEF Inv, LeakInv
  <2>4. CASE answer.kind = "failed"
    <3>1. FailTransfer /\ UNCHANGED work
      BY <1>4, <2>4 DEF OnAnswer
    <3>2. Resets
      BY <1>1, <1>2, <2>1, <3>1
      DEF FailTransfer, ReleaseDecodeWorkers, Resets, Frame
    <3> QED
      BY <2>4, <3>2, ResetsInv
  <2>5. answer.kind # "none"
    BY <1>4 DEF Inv, LeakInv, OneAttempt
  <2> QED
    BY <1>1, <2>2, <2>3, <2>4, <2>5 DEF Answers
<1> QED
  BY <1>1, <1>3, <1>4 DEF Answers

-----------------------------------------------------------------------------
(* Which step does what.                                                   *)

\* The messages of the fountain worker.
LEMMA DecodedMessages ==
  ASSUME TypesOK, NEW s \in Streams, DecodeFrame(s)
  PROVE  inbox' \in Seq(Messages)
<1>1. s \in Parts /\ inbox \in Seq(Messages)
  BY DEF TypesOK, Parts
<1>2. \A type \in {"processed", "complete", "verdict"} : Message(type, s) \in Messages
  BY <1>1 DEF Message, Messages
<1>3. /\ <<Message("processed", s)>> \in Seq(Messages) /\ << >> \in Seq(Messages)
      /\ <<Message("complete", s)>> \in Seq(Messages)
      /\ <<Message("verdict", s)>> \in Seq(Messages)
  BY <1>2
<1>4. \A x, y, z \in Seq(Messages) : x \o y \o z \in Seq(Messages)
  OBVIOUS
<1>5. Append(inbox, Message("processed", s)) \in Seq(Messages)
  BY <1>1, <1>2
<1> HIDE DEF Message
<1>6. CASE ~Acceptable(s)
  BY <1>1, <1>3, <1>4, <1>6 DEF DecodeFrame
<1>7. CASE Acceptable(s) /\ Ignored(s)
  BY <1>5, <1>7 DEF DecodeFrame
<1>8. CASE Acceptable(s) /\ ~Ignored(s)
  BY <1>1, <1>3, <1>4, <1>8 DEF DecodeFrame
<1> QED
  BY <1>6, <1>7, <1>8

LEMMA ReadMessage ==
  ASSUME TypesOK, inbox # << >>
  PROVE  Tail(inbox) \in Seq(Messages) /\ Head(inbox).stream \in Parts
<1>1. inbox \in Seq(Messages)
  BY DEF TypesOK
<1>2. Head(inbox) \in Messages /\ Tail(inbox) \in Seq(Messages)
  BY <1>1, HeadTailProperties
<1> QED
  BY <1>2 DEF Messages

\* The steps that leave the assembler alone and do not end an attempt that has a file
\* or an accept().
KeepingStep ==
  \/ (\E s \in Streams : Show(s))
  \/ Started
  \/ StartRefused
  \/ Resize
  \/ ApngParsed
  \/ ApngDecoded
  \/ RejectionDecoded
  \/ ProgressShown
  \/ PoolIdle
  \/ Unpacked
  \/ StreamIdles
  \/ (\E w \in Workers : PoolNext(w))
  \/ SourceEnds
  \/ (\E w \in Workers : WorkerFails(w))
  \/ ApngRefused
  \/ FountainFails
  \/ UnpackFails
  \/ (\E s \in Streams : DecodeFrame(s))
  \/ OnProcessed
  \/ OnComplete
  \/ OnVerdict

LEMMA StepKeeps ==
  ASSUME Inv, answer = NoAnswer, KeepingStep
  PROVE  Keeps
<1>1. << >> \in Seq(Messages) /\ NoStream \in Parts
  BY PartTypes
<1>2. TypesOK /\ part \in Parts /\ inbox \in Seq(Messages)
  BY DEF Inv, PersistInv, TypesOK
<1>3. CASE \E s \in Streams : Show(s)
  BY <1>2, <1>3
  DEF Show, Keeps, Frame, assemblerVars, page, pipeline, bounds
<1>4. CASE Started
  BY <1>2, <1>4
  DEF Started, Keeps, Frame, assemblerVars, page, pipeline, bounds
<1>5. CASE StartRefused
  BY <1>2, <1>5
  DEF StartRefused, Keeps, Frame, assemblerVars, page, pipeline, bounds
<1>6. CASE Resize
  BY <1>2, <1>6
  DEF Resize, StopWorkers, Keeps, Frame, assemblerVars, page, pipeline, bounds
<1>7. CASE ApngParsed
  BY <1>2, <1>7
  DEF ApngParsed, Keeps, Frame, assemblerVars, page, pipeline, bounds
<1>8. CASE ApngDecoded
  BY <1>2, <1>8
  DEF ApngDecoded, Keeps, Frame, assemblerVars, page, pipeline, bounds
<1>9. CASE RejectionDecoded
  BY <1>2, <1>9
  DEF RejectionDecoded, Keeps, Frame, assemblerVars, page, pipeline, bounds
<1>10. CASE ProgressShown
  BY <1>2, <1>10
  DEF ProgressShown, Keeps, Frame, assemblerVars, page, pipeline, bounds
<1>11. CASE PoolIdle
  BY <1>2, <1>11
  DEF PoolIdle, Keeps, Frame, assemblerVars, page, pipeline, bounds
<1>12. CASE Unpacked
  BY <1>2, <1>12
  DEF Unpacked, Keeps, Frame, assemblerVars, page, pipeline, bounds
<1>13. CASE StreamIdles
  BY <1>2, <1>13
  DEF StreamIdles, Keeps, Frame, assemblerVars, page, pipeline, bounds
<1>14. CASE \E w \in Workers : PoolNext(w)
  BY <1>2, <1>14
  DEF PoolNext, Capture, ParseFrame, Forward, TaskComplete, Keeps, Frame, assemblerVars,
      page, pipeline, bounds
<1>15. CASE SourceEnds
  BY <1>1, <1>2, <1>15
  DEF SourceEnds, Retry, ReleaseDecodeWorkers, Keeps, Frame,
      assemblerVars, page, pipeline, bounds
<1>16. CASE \E w \in Workers : WorkerFails(w)
  BY <1>1, <1>2, <1>16
  DEF WorkerFails, StopWorkers, Retry, ReleaseDecodeWorkers, Keeps, Frame,
      assemblerVars, page, pipeline, bounds
<1>17. CASE ApngRefused
  BY <1>1, <1>2, <1>17
  DEF ApngRefused, Retry, ReleaseDecodeWorkers, Keeps, Frame,
      assemblerVars, page, pipeline, bounds
<1>18. CASE FountainFails
  BY <1>1, <1>2, <1>18
  DEF FountainFails, Done, Retry, ReleaseDecodeWorkers, Keeps, Frame,
      assemblerVars, page, pipeline, bounds
<1>19. CASE UnpackFails
  BY <1>1, <1>2, <1>19
  DEF UnpackFails, Retry, ReleaseDecodeWorkers, Keeps, Frame,
      assemblerVars, page, pipeline, bounds
<1>20. CASE \E s \in Streams : DecodeFrame(s)
  <2>1. inbox' \in Seq(Messages)
    BY <1>2, <1>20, DecodedMessages
  <2> QED
    BY <1>2, <1>20, <2>1 DEF DecodeFrame, Keeps, Frame, assemblerVars, page, pipeline, bounds
<1>21. CASE OnProcessed
  BY <1>2, <1>21, ReadMessage
  DEF OnProcessed, Keeps, Frame, assemblerVars, page, pipeline, bounds
<1>22. CASE OnComplete
  BY <1>2, <1>22, ReadMessage
  DEF OnComplete, Done, Keeps, Frame, assemblerVars, page, pipeline, bounds
<1>23. CASE OnVerdict
  BY <1>1, <1>2, <1>23, ReadMessage
  DEF OnVerdict, Retry, ReleaseDecodeWorkers, Keeps, Frame,
      assemblerVars, page, pipeline, bounds
<1> QED
  BY <1>3, <1>4, <1>5, <1>6, <1>7, <1>8, <1>9, <1>10, <1>11, <1>12,
     <1>13, <1>14, <1>15, <1>16, <1>17, <1>18, <1>19, <1>20, <1>21, <1>22, <1>23
  DEF KeepingStep

LEMMA StepSupersedes ==
  ASSUME Inv, answer = NoAnswer,
         \/ \E s \in Streams : Start(s) \/ \E n \in 1 .. Symbols : StartApng(s, n)
         \/ SwitchMode \/ SwitchDone \/ Restart \/ ApngRejected \/ Mismatched
  PROVE  Supersedes
<1>1. << >> \in Seq(Messages) /\ NoStream \in Parts
  BY PartTypes
<1>2. /\ part \in Parts /\ inbox \in Seq(Messages) /\ holding \in BOOLEAN
      /\ phase # "result" => ~holding
  BY DEF Inv, PersistInv, TypesOK, LeakInv, OneAttempt
<1>3. CASE \E s \in Streams : Start(s)
  BY <1>2, <1>3 DEF Start, Supersedes, Frame, ReleaseFile, pipeline
<1>4. CASE \E s \in Streams, n \in 1 .. Symbols : StartApng(s, n)
  BY <1>2, <1>4 DEF StartApng, Supersedes, Frame, ReleaseFile, pipeline
<1>5. CASE SwitchMode
  BY <1>1, <1>2, <1>5 DEF SwitchMode, Supersedes, Frame, ReleaseFile, pipeline
<1>6. CASE SwitchDone
  BY <1>1, <1>6 DEF SwitchDone, ResetReceiver, ReleaseDecodeWorkers, Supersedes, Frame
<1>7. CASE Restart
  BY <1>1, <1>2, <1>7 DEF Restart, Park, ResetReceiver, Supersedes, Frame
<1>8. CASE ApngRejected
  BY <1>1, <1>2, <1>8 DEF ApngRejected, Park, ResetReceiver, Supersedes, Frame
<1>9. CASE Mismatched
  BY <1>1, <1>2, <1>9 DEF Mismatched, Park, ResetReceiver, Supersedes, Frame
<1> QED
  BY <1>3, <1>4, <1>5, <1>6, <1>7, <1>8, <1>9

LEMMA StepForgets ==
  ASSUME Inv, answer = NoAnswer, Other \/ Unmount
  PROVE  Forgets
<1>1. << >> \in Seq(Messages) /\ NoStream \in Parts
  BY PartTypes
<1>2. part \in Parts
  BY DEF Inv, PersistInv, TypesOK
<1> QED
  BY <1>1, <1>2 DEF Other, Unmount, ReleaseDecodeWorkers, Forgets, Frame

LEMMA StepResets ==
  ASSUME Inv, answer = NoAnswer, ShowFile \/ CodecsFail
  PROVE  Resets
<1>1. << >> \in Seq(Messages) /\ NoStream \in Parts
  BY PartTypes
<1>2. phase \in {"drain", "preparing"}
  BY DEF ShowFile, CodecsFail
<1>3. NoCurrent(queue) /\ ~work.current /\ ~holding /\ holding \in BOOLEAN
  BY <1>2 DEF Inv, PersistInv, TypesOK, LeakInv, OneAttempt
<1>4. CASE ShowFile
  BY <1>1, <1>3, <1>4 DEF ShowFile, ReleaseDecodeWorkers, ReleaseFile, Resets, Frame
<1>5. CASE CodecsFail
  BY <1>1, <1>3, <1>5 DEF CodecsFail, FailTransfer, ReleaseDecodeWorkers, Resets, Frame
<1> QED
  BY <1>4, <1>5

-----------------------------------------------------------------------------
(* The files, while accept() runs.                                         *)

\* A job that goes on, or ends, belongs to the attempt it has belonged to.
LEMMA JobGoesOn ==
  ASSUME UNCHANGED <<phase, holding>>, ~holding, NEW job,
         job.current => phase = "accepting" /\ NoAccept(queue'),
         CurrentLast(queue'), phase # "accepting" => NoCurrent(queue'),
         \A n \in 1 .. Len(queue') : queue'[n].current => queue'[n].op = "accept",
         \/ \E kind \in {"more", "mismatch", "stored", "failed"} : Ends(job, kind)
         \/ /\ work'.pc # "idle" /\ work'.current = job.current
            /\ answer = NoAnswer /\ UNCHANGED answer
  PROVE  OneAttempt'
<1>1. Idle.pc = "idle" /\ ~Idle.current /\ ~NoAnswer.current
  BY DEF Idle, NoAnswer
<1>2. CASE \E kind \in {"more", "mismatch", "stored", "failed"} : Ends(job, kind)
  BY <1>1, <1>2 DEF Ends, OneAttempt
<1>3. CASE /\ work'.pc # "idle" /\ work'.current = job.current
           /\ answer = NoAnswer /\ UNCHANGED answer
  BY <1>1, <1>3 DEF OneAttempt
<1> QED
  BY <1>2, <1>3

\* When accept() fails, its files are deleted.
LEMMA FailsOwned ==
  ASSUME NEW job, NEW a, NEW files, files \subseteq Held(a), Fails(job, a, files), holding' = FALSE
  PROVE  Owned' /\ DetachedIsDisposed'
<1>1. /\ assembly' = NoAssembly /\ disk' = {} /\ work'.pc = "idle"
      /\ answer'.kind = "failed"
  BY DEF Fails, Ends, Idle
<1> QED
  BY <1>1, NothingHeld DEF Owned, DetachedIsDisposed

LEMMA AwaitsOwned ==
  ASSUME NEW job \in Jobs, NEW pc \in {"create", "append", "flush", "stage", "close", "finish"},
         NEW a, NEW files, Awaits(job, pc, a, files), holding' = FALSE, answer = NoAnswer,
         files = Held(a) \cup IF pc = "close" THEN {Staged(job.part.index)} ELSE {}
  PROVE  Owned' /\ DetachedIsDisposed' /\ work'.pc # "idle" /\ work'.current = job.current
<1>1. /\ assembly' = a /\ attached' = TRUE /\ disk' = files /\ answer'.kind = "none"
      /\ work'.pc = pc /\ work'.part = job.part /\ work'.current = job.current
  BY DEF Awaits, NoAnswer, Jobs
<1> QED
  BY <1>1 DEF Owned, DetachedIsDisposed

\* While accept() runs, the files are those of the assembly and the one it stages.
LEMMA WorkingFiles ==
  ASSUME Inv, answer = NoAnswer, work.pc \notin {"idle", "settle"}
  PROVE  /\ disk = Held(assembly)
                   \cup IF work.pc = "close" THEN {Staged(work.part.index)} ELSE {}
         /\ work \in Jobs /\ assembly \in Assemblies /\ ~holding
<1>1. ~holding /\ answer.kind # "stored"
  BY DEF Inv, LeakInv, OneAttempt, NoAnswer
<1> QED
  BY <1>1 DEF Inv, PersistInv, TypesOK, LeakInv, Owned

LEMMA WorkGoesOn ==
  ASSUME Inv, UNCHANGED <<phase, holding, queue>>, ~holding,
         \/ \E kind \in {"more", "mismatch", "stored", "failed"} : Ends(work, kind)
         \/ /\ work'.pc # "idle" /\ work'.current = work.current
            /\ answer = NoAnswer /\ UNCHANGED answer
  PROVE  OneAttempt'
<1>1. /\ work.current => phase = "accepting" /\ NoAccept(queue')
      /\ CurrentLast(queue')
      /\ phase # "accepting" => NoCurrent(queue')
      /\ \A n \in 1 .. Len(queue') : queue'[n].current => queue'[n].op = "accept"
  BY DEF Inv, LeakInv, OneAttempt
<1> QED
  BY <1>1, JobGoesOn

LEMMA FailedWork ==
  ASSUME Inv, UNCHANGED <<phase, holding, queue>>, ~holding,
         NEW a, NEW files, files \subseteq Held(a), Fails(work, a, files)
  PROVE  LeakInv'
<1>1. Ends(work, "failed")
  BY DEF Fails
<1>2. OneAttempt'
  BY <1>1, WorkGoesOn
<1>3. Owned' /\ DetachedIsDisposed'
  BY FailsOwned DEF Inv, PersistInv, TypesOK
<1> QED
  BY <1>2, <1>3 DEF LeakInv

LEMMA AwaitingWork ==
  ASSUME Inv, answer = NoAnswer, UNCHANGED <<phase, holding, queue>>, ~holding,
         NEW pc \in {"create", "append", "flush", "stage", "close", "finish"},
         NEW a, NEW files, Awaits(work, pc, a, files),
         files = Held(a) \cup IF pc = "close" THEN {Staged(work.part.index)} ELSE {}
  PROVE  LeakInv'
<1>1. work \in Jobs /\ holding' = FALSE
  BY DEF Inv, PersistInv, TypesOK
<1>2. Owned' /\ DetachedIsDisposed' /\ work'.pc # "idle" /\ work'.current = work.current
  BY <1>1, AwaitsOwned
<1>3. UNCHANGED answer
  BY DEF Awaits
<1>4. OneAttempt'
  BY <1>2, <1>3, WorkGoesOn
<1> QED
  BY <1>2, <1>4 DEF LeakInv

LEMMA AcceptedLeaks ==
  ASSUME Inv, answer = NoAnswer, UNCHANGED <<phase, holding, queue>>, ~holding, attached,
         NEW a \in Assemblies, Accepted(work, a, Held(a))
  PROVE  LeakInv'
<1> DEFINE got == [a EXCEPT !.received = @ \cup {work.part.index}]
<1>1. Held(got) = Held(a)
  BY DEF Assemblies, Held
<1> HIDE DEF got
<1>2. \/ Fails(work, got, Held(a))
      \/ /\ assembly' = got /\ disk' = Held(a) /\ attached' = attached
         /\ Ends(work, "more")
      \/ Awaits(work, "finish", got, Held(a))
  BY DEF Accepted, got
<1>3. CASE Fails(work, got, Held(a))
  BY <1>1, <1>3, FailedWork
<1>4. CASE /\ assembly' = got /\ disk' = Held(a) /\ attached' = attached
           /\ Ends(work, "more")
  <2>1. OneAttempt'
    BY <1>4, WorkGoesOn
  <2>2. work'.pc = "idle" /\ answer'.kind = "more"
    BY <1>4 DEF Ends, Idle
  <2> QED
    BY <1>1, <1>4, <2>1, <2>2 DEF LeakInv, Owned, DetachedIsDisposed
<1>5. CASE Awaits(work, "finish", got, Held(a))
  BY <1>1, <1>5, AwaitingWork
<1> QED
  BY <1>2, <1>3, <1>4, <1>5

LEMMA ContinuesLeaks ==
  ASSUME Inv, answer = NoAnswer, UNCHANGED <<phase, holding, queue>>, ~holding, attached,
         NEW a \in Assemblies, Continues(work, a, Held(a))
  PROVE  LeakInv'
<1>1. CASE Awaits(work, "flush", a, Held(a))
  BY <1>1, AwaitingWork
<1>2. CASE Accepted(work, a, Held(a))
  BY <1>2, AcceptedLeaks
<1> QED
  BY <1>1, <1>2 DEF Continues

LEMMA OutputCreatedLeaks ==
  ASSUME Inv, answer = NoAnswer, OutputCreated, UNCHANGED <<phase, holding>>
  PROVE  LeakInv'
<1> DEFINE a == [assembly EXCEPT !.out = TRUE]
<1>1. work.pc = "create" /\ UNCHANGED queue /\ ~holding /\ assembly \in Assemblies
      /\ disk = Held(assembly)
  BY WorkingFiles DEF OutputCreated, Working
<1>2. Held(a) = disk \cup {Output}
  BY <1>1 DEF Assemblies, Held
<1> HIDE DEF a
<1>3. CASE Awaits(work, "append", a, disk \cup {Output})
  BY <1>1, <1>2, <1>3, AwaitingWork
<1>4. CASE Fails(work, a, disk \cup {Output})
  BY <1>1, <1>2, <1>4, FailedWork
<1> QED
  BY <1>3, <1>4 DEF OutputCreated, a

LEMMA PartAppendedLeaks ==
  ASSUME Inv, answer = NoAnswer, PartAppended, UNCHANGED <<phase, holding>>
  PROVE  LeakInv'
<1>1. work.pc = "append" /\ UNCHANGED queue /\ ~holding /\ assembly \in Assemblies
      /\ disk = Held(assembly)
  BY WorkingFiles DEF PartAppended, Working
<1>2. CASE attached
  <2>1. InOrder(assembly)
    BY <1>2 DEF Inv, PersistInv, Consistent
  <2>2. Appended(assembly) \in Assemblies /\ Held(Appended(assembly)) = disk
    BY <1>1, <2>1, AppendedParts DEF Held
  <2> QED
    BY <1>1, <1>2, <2>2, ContinuesLeaks DEF PartAppended
<1>3. CASE ~attached
  BY <1>1, <1>3, FailedWork DEF PartAppended
<1> QED
  BY <1>2, <1>3

LEMMA PartFlushedLeaks ==
  ASSUME Inv, answer = NoAnswer, PartFlushed, UNCHANGED <<phase, holding>>
  PROVE  LeakInv'
<1>1. work.pc = "flush" /\ UNCHANGED queue /\ ~holding /\ assembly \in Assemblies
      /\ disk = Held(assembly)
  BY WorkingFiles DEF PartFlushed, Working
<1>2. CASE attached
  <2> DEFINE b == Appended(assembly)
             a == [b EXCEPT !.pending = @ \ {assembly.next}]
  <2>1. InOrder(assembly)
    BY <1>2 DEF Inv, PersistInv, Consistent
  <2>2. b \in Assemblies /\ b.pending = assembly.pending /\ b.out = assembly.out
    BY <1>1, <2>1, AppendedParts
  <2>3. Continues(work, a, disk \ {Staged(assembly.next)})
    BY <1>2 DEF PartFlushed
  <2> HIDE DEF b
  <2>4. a \in Assemblies /\ a.pending = assembly.pending \ {assembly.next} /\ a.out = assembly.out
    BY <2>2 DEF Assemblies
  <2> HIDE DEF a
  <2>5. Held(a) = disk \ {Staged(assembly.next)}
    BY <1>1, <2>4, FilesDiffer DEF Held
  <2> QED
    BY <1>1, <1>2, <2>3, <2>4, <2>5, ContinuesLeaks
<1>3. CASE ~attached
  BY <1>1, <1>3, FailedWork DEF PartFlushed
<1> QED
  BY <1>2, <1>3

LEMMA StageCreatedLeaks ==
  ASSUME Inv, answer = NoAnswer, StageCreated, UNCHANGED <<phase, holding>>
  PROVE  LeakInv'
<1>1. work.pc = "stage" /\ UNCHANGED queue /\ ~holding /\ disk = Held(assembly)
  BY WorkingFiles DEF StageCreated, Working
<1>2. CASE Awaits(work, "close", assembly, disk \cup {Staged(work.part.index)})
  BY <1>1, <1>2, AwaitingWork
<1>3. CASE Fails(work, assembly, disk)
  BY <1>1, <1>3, FailedWork
<1> QED
  BY <1>2, <1>3 DEF StageCreated

LEMMA StageClosedLeaks ==
  ASSUME Inv, answer = NoAnswer, StageClosed, UNCHANGED <<phase, holding>>
  PROVE  LeakInv'
<1> DEFINE a == [assembly EXCEPT !.pending = @ \cup {work.part.index}]
<1>1. /\ work.pc = "close" /\ UNCHANGED queue /\ ~holding /\ assembly \in Assemblies
      /\ work.part.index \in Int
      /\ disk = Held(assembly) \cup {Staged(work.part.index)}
  BY WorkingFiles, PartTypes DEF StageClosed, Working, Jobs
<1>2. CASE attached
  <2>1. a \in Assemblies /\ Held(a) = disk
    BY <1>1 DEF Assemblies, Held
  <2>2. Accepted(work, a, disk)
    BY <1>2 DEF StageClosed
  <2> HIDE DEF a
  <2> QED
    BY <1>1, <1>2, <2>1, <2>2, AcceptedLeaks
<1>3. CASE Fails(work, assembly, disk \ {Staged(work.part.index)})
  BY <1>1, <1>3, FailedWork
<1> QED
  BY <1>2, <1>3 DEF StageClosed

LEMMA FinishedLeaks ==
  ASSUME Inv, answer = NoAnswer, Finished, UNCHANGED <<phase, holding>>
  PROVE  LeakInv'
<1>1. work.pc = "finish" /\ UNCHANGED queue /\ ~holding /\ disk = Held(assembly)
      /\ work \in Jobs
  BY WorkingFiles DEF Finished, Working
<1>2. CASE /\ attached /\ assembly' = NoAssembly /\ attached' = FALSE
           /\ disk' = (disk \ {Output}) \cup {Result}
           /\ work' = [work EXCEPT !.pc = "settle"] /\ UNCHANGED answer
  <2>1. assembly.pending = {}
    BY <1>1, <1>2 DEF Inv, PersistInv, Consistent
  <2>2. disk' = {Result}
    BY <1>1, <1>2, <2>1 DEF Held
  <2>3. work'.pc = "settle" /\ work'.current = work.current
    BY <1>1, <1>2 DEF Jobs
  <2>4. OneAttempt'
    BY <1>1, <1>2, <2>3, WorkGoesOn
  <2> QED
    BY <1>1, <1>2, <2>2, <2>3, <2>4, NothingHeld DEF LeakInv, Owned, DetachedIsDisposed
<1>3. CASE Fails(work, assembly, disk)
  BY <1>1, <1>3, FailedWork
<1> QED
  BY <1>2, <1>3 DEF Finished

LEMMA SettledLeaks ==
  ASSUME Inv, answer = NoAnswer, Settled, UNCHANGED <<phase, holding>>
  PROVE  LeakInv'
<1>1. /\ work.pc = "settle" /\ UNCHANGED <<queue, assembly, attached, disk>>
      /\ Ends(work, "stored") /\ ~holding
  BY DEF Settled, Working, Inv, LeakInv, OneAttempt
<1>2. work'.pc = "idle" /\ answer'.kind = "stored"
  BY <1>1 DEF Ends, Idle
<1>3. OneAttempt'
  BY <1>1, WorkGoesOn
<1>4. Owned' /\ DetachedIsDisposed'
  BY <1>1, <1>2 DEF Inv, LeakInv, Owned, DetachedIsDisposed
<1> QED
  BY <1>3, <1>4 DEF LeakInv

LEMMA DiskFailsLeaks ==
  ASSUME Inv, answer = NoAnswer, DiskFails, UNCHANGED <<phase, holding>>
  PROVE  LeakInv'
<1>1. work.pc \notin {"idle", "settle"} /\ UNCHANGED queue
  BY DEF DiskFails
<1>2. /\ disk = Held(assembly)
                \cup IF work.pc = "close" THEN {Staged(work.part.index)} ELSE {}
      /\ ~holding
  BY <1>1, WorkingFiles
<1>3. CASE work.pc = "close"
  <2>1. Fails(work, assembly, disk \ {Staged(work.part.index)})
    BY <1>3 DEF DiskFails
  <2> QED
    BY <1>1, <1>2, <1>3, <2>1, FailedWork
<1>4. CASE work.pc # "close"
  <2>1. Fails(work, assembly, disk)
    BY <1>4 DEF DiskFails
  <2> QED
    BY <1>1, <1>2, <1>4, <2>1, FailedWork
<1> QED
  BY <1>3, <1>4

LEMMA StartWorkLeaks ==
  ASSUME Inv, answer = NoAnswer, StartWork, UNCHANGED <<phase, holding>>
  PROVE  LeakInv'
<1> DEFINE call == Head(queue)
           job == [Idle EXCEPT !.part = call.part, !.current = call.current]
           a == IF attached THEN assembly ELSE Begun(job.part)
<1>1. /\ work = Idle /\ queue # << >> /\ queue' = Tail(queue)
      /\ queue \in Seq(Calls) /\ Ordered(queue) /\ holding \in BOOLEAN
      /\ work.pc = "idle" /\ ~work.current
  BY DEF StartWork, Inv, PersistInv, TypesOK, DisposalsFirst, Idle
<1>2. /\ call \in Calls /\ queue' \in Seq(Calls) /\ Len(queue) \in Nat \ {0}
      /\ Len(queue') = Len(queue) - 1 /\ call = queue[1]
      /\ \A n \in 1 .. Len(queue') : queue'[n] = queue[n + 1]
  BY <1>1, HeadTailProperties, EmptySeq
<1>3. /\ call.live => NoDisposal(queue)
      /\ NoDisposal(queue) => call.op # "dispose"
  BY <1>1, TailOrder
<1>4. /\ job \in Jobs /\ job.part = call.part /\ job.current = call.current
  BY <1>2, PartTypes DEF Idle, Jobs, Calls
<1>5. /\ disk = Held(assembly) \cup (IF holding THEN {Result} ELSE {})
      /\ call.live /\ ~attached => Held(assembly) = {}
  <2>1. answer.kind = "none"
    BY DEF NoAnswer
  <2> QED
    BY <1>1, <1>3, <2>1 DEF Inv, LeakInv, Owned, DetachedIsDisposed
<1>6. /\ call.current => phase = "accepting" /\ NoAccept(queue')
      /\ CurrentLast(queue')
      /\ phase # "accepting" => NoCurrent(queue')
      /\ \A n \in 1 .. Len(queue') : queue'[n].current => queue'[n].op = "accept"
      /\ holding => NoAccept(queue') /\ call.op # "accept"
  <2>1. /\ call.current => phase = "accepting" /\ CurrentLast(queue)
        /\ phase # "accepting" => NoCurrent(queue)
        /\ \A n \in 1 .. Len(queue) : queue[n].current => queue[n].op = "accept"
        /\ CurrentLast(queue) /\ (holding => NoAccept(queue))
    BY <1>2 DEF Inv, LeakInv, OneAttempt, NoCurrent
  <2>2. 1 \in 1 .. Len(queue) /\ \A n \in 1 .. Len(queue') : n + 1 \in 1 .. Len(queue)
    BY <1>2
  <2> HIDE DEF call
  <2>3. call.current => NoAccept(queue')
    <3>1. \A n \in 1 .. Len(queue') : n + 1 \in 1 + 1 .. Len(queue)
      BY <1>2
    <3> QED
      BY <1>2, <2>1, <2>2, <3>1 DEF CurrentLast, NoAccept
  <2>4. CurrentLast(queue')
    <3>1. \A n \in 1 .. Len(queue') : \A k \in n + 1 .. Len(queue') :
            k + 1 \in (n + 1) + 1 .. Len(queue) /\ k \in 1 .. Len(queue')
      BY <1>2
    <3> QED
      BY <1>2, <2>1, <2>2, <3>1 DEF CurrentLast
  <2>5. /\ phase # "accepting" => NoCurrent(queue')
        /\ \A n \in 1 .. Len(queue') : queue'[n].current => queue'[n].op = "accept"
        /\ holding => NoAccept(queue') /\ call.op # "accept"
    BY <1>2, <2>1, <2>2 DEF NoCurrent, NoAccept
  <2> QED
    BY <2>1, <2>3, <2>4, <2>5
<1>7. \/ /\ call.op = "dispose" /\ assembly' = NoAssembly /\ disk' = disk \ Held(assembly)
         /\ UNCHANGED <<attached, work, answer>>
      \/ /\ call.op = "accept" /\ UNCHANGED <<assembly, attached, disk>>
         /\ \E kind \in {"failed", "mismatch", "more"} : Ends(job, kind)
      \/ call.op = "accept" /\ call.live /\ Fails(job, a, disk)
      \/ /\ call.op = "accept" /\ call.live
         /\ \E pc \in {"create", "append", "stage"} : Awaits(job, pc, a, disk)
  BY DEF StartWork
<1>8. call.op = "accept" /\ call.live => disk = Held(a)
  BY <1>4, <1>5, <1>6, BegunType DEF Jobs
<1> HIDE DEF call, job, a
<1>9. CASE /\ call.op = "dispose" /\ assembly' = NoAssembly /\ disk' = disk \ Held(assembly)
           /\ UNCHANGED <<attached, work, answer>>
  <2>1. disk' = IF holding THEN {Result} ELSE {}
    BY <1>5, <1>9, ResultIsNotHeld
  <2>2. Owned' /\ DetachedIsDisposed'
    BY <1>1, <1>9, <2>1, NothingHeld DEF Owned, DetachedIsDisposed, NoAnswer
  <2>3. OneAttempt'
    <3>1. ~NoAnswer.current
      BY DEF NoAnswer
    <3> QED
      BY <1>1, <1>6, <1>9, <3>1 DEF Inv, LeakInv, OneAttempt
  <2> QED
    BY <2>2, <2>3 DEF LeakInv
<1>10. CASE /\ call.op = "accept" /\ UNCHANGED <<assembly, attached, disk>>
            /\ \E kind \in {"failed", "mismatch", "more"} : Ends(job, kind)
  <2>1. OneAttempt'
    <3>1. ~holding /\ UNCHANGED <<phase, holding>>
      BY <1>6, <1>10
    <3>2. \E kind \in {"more", "mismatch", "stored", "failed"} : Ends(job, kind)
      BY <1>10
    <3> QED
      BY <1>4, <1>6, <3>1, <3>2, JobGoesOn
  <2>2. work'.pc = "idle" /\ answer'.kind \in {"failed", "mismatch", "more"}
    BY <1>10 DEF Ends, Idle
  <2>3. Owned'
    BY <1>5, <1>10, <2>2 DEF Owned
  <2>4. DetachedIsDisposed'
    <3>1. \A n \in 1 .. Len(queue) :
            n = 1 \/ (n - 1 \in 1 .. Len(queue') /\ queue[n] = queue'[n - 1])
      BY <1>2
    <3>2. NoDisposal(queue') => NoDisposal(queue)
      BY <1>2, <1>10, <3>1 DEF NoDisposal
    <3> QED
      BY <1>1, <1>10, <3>2 DEF Inv, LeakInv, DetachedIsDisposed
  <2> QED
    BY <2>1, <2>3, <2>4 DEF LeakInv
<1>11. CASE call.op = "accept" /\ call.live /\ Fails(job, a, disk)
  <2>1. Ends(job, "failed") /\ ~holding
    BY <1>6, <1>11 DEF Fails
  <2>2. OneAttempt'
    <3>1. \E kind \in {"more", "mismatch", "stored", "failed"} : Ends(job, kind)
      BY <2>1
    <3> QED
      BY <1>4, <1>6, <2>1, <3>1, JobGoesOn
  <2>3. Owned' /\ DetachedIsDisposed'
    BY <1>1, <1>8, <1>11, <2>1, FailsOwned
  <2> QED
    BY <2>2, <2>3 DEF LeakInv
<1>12. ASSUME call.op = "accept", call.live,
              NEW pc \in {"create", "append", "stage"}, Awaits(job, pc, a, disk)
       PROVE  LeakInv'
  <2>1. ~holding /\ holding' = FALSE /\ UNCHANGED answer
    BY <1>1, <1>6, <1>12 DEF Awaits
  <2>2. Owned' /\ DetachedIsDisposed' /\ work'.pc # "idle" /\ work'.current = job.current
    BY <1>4, <1>8, <1>12, <2>1, AwaitsOwned
  <2>3. OneAttempt'
    <3>1. UNCHANGED <<phase, holding>>
      OBVIOUS
    <3> QED
      BY <1>4, <1>6, <2>1, <2>2, <3>1, JobGoesOn
  <2> QED
    BY <2>2, <2>3 DEF LeakInv
<1> QED
  BY <1>7, <1>9, <1>10, <1>11, <1>12

LEMMA WorksInv ==
  ASSUME Inv, answer = NoAnswer, Works \/ DiskFails,
         UNCHANGED <<phase, part, inbox, holding>>
  PROVE  Inv'
<1>1. PersistInv
  BY DEF Inv
<1>2. CASE StartWork
  BY <1>1, <1>2, StartWorkPersists, StartWorkLeaks DEF Inv
<1>3. CASE OutputCreated
  BY <1>1, <1>3, OutputCreatedPersists, OutputCreatedLeaks DEF Inv
<1>4. CASE PartAppended
  BY <1>1, <1>4, PartAppendedPersists, PartAppendedLeaks DEF Inv
<1>5. CASE PartFlushed
  BY <1>1, <1>5, PartFlushedPersists, PartFlushedLeaks DEF Inv
<1>6. CASE StageCreated
  BY <1>1, <1>6, StageCreatedPersists, StageCreatedLeaks DEF Inv
<1>7. CASE StageClosed
  BY <1>1, <1>7, StageClosedPersists, StageClosedLeaks DEF Inv
<1>8. CASE Finished
  BY <1>1, <1>8, FinishedPersists, FinishedLeaks DEF Inv
<1>9. CASE Settled
  BY <1>1, <1>9, FinishedPersists, SettledLeaks DEF Inv
<1>10. CASE DiskFails
  BY <1>1, <1>10, DiskFailsPersists, DiskFailsLeaks DEF Inv
<1> QED
  BY <1>2, <1>3, <1>4, <1>5, <1>6, <1>7, <1>8, <1>9, <1>10 DEF Works

-----------------------------------------------------------------------------
(* The invariant is inductive.                                             *)

LEMMA InitInv ==
  ASSUME Init
  PROVE  Inv
<1>1. /\ assembly = NoAssembly /\ attached = FALSE /\ queue = << >> /\ work = Idle
      /\ answer = NoAnswer /\ disk = {} /\ part = NoStream /\ inbox = << >>
      /\ holding = FALSE
  BY DEF Init, InitAssembler
<1>2. << >> \in Seq(Calls) /\ << >> \in Seq(Messages) /\ Len(<< >>) = 0
  OBVIOUS
<1>3. Idle.pc = "idle" /\ ~Idle.current /\ ~NoAnswer.current /\ NoAnswer.kind = "none"
  BY DEF Idle, NoAnswer
<1>4. TypesOK
  BY <1>1, <1>2, PartTypes, NoAssemblyType, IdleTypes DEF TypesOK
<1>5. DisposalsFirst /\ Consistent
  BY <1>1, <1>2 DEF DisposalsFirst, Ordered, Consistent
<1>6. Owned /\ DetachedIsDisposed
  BY <1>1, <1>3, NothingHeld DEF Owned, DetachedIsDisposed
<1>7. OneAttempt
  BY <1>1, <1>2, <1>3 DEF OneAttempt, CurrentLast, NoCurrent
<1> QED
  BY <1>4, <1>5, <1>6, <1>7 DEF Inv, PersistInv, LeakInv

LEMMA NextInv ==
  ASSUME Inv, [Next]_vars
  PROVE  Inv'
<1>1. CASE UNCHANGED vars
  <2>1. UNCHANGED <<assembly, attached, queue, work, answer, disk, phase, part, holding, inbox>>
    BY <1>1 DEF vars, assemblerVars, page, pipeline
  <2>2. PersistInv'
    BY <2>1 DEF Inv, PersistInv, TypesOK, DisposalsFirst, Consistent
  <2>3. LeakInv'
    BY <2>1 DEF Inv, LeakInv, Owned, DetachedIsDisposed, OneAttempt
  <2> QED
    BY <2>2, <2>3 DEF Inv
<1>2. CASE OnAnswer
  BY <1>2, OnAnswerInv
<1>3. ASSUME answer = NoAnswer
      PROVE  answer.kind # "stored"
  BY <1>3 DEF NoAnswer
<1>4. CASE answer = NoAnswer /\ KeepingStep
  BY <1>4, StepKeeps, KeepsInv
<1>5. CASE answer = NoAnswer /\ \/ \E s \in Streams : \/ Start(s)
                                                      \/ \E n \in 1 .. Symbols : StartApng(s, n)
                                \/ SwitchMode \/ SwitchDone \/ Restart
                                \/ ApngRejected \/ Mismatched
  BY <1>3, <1>5, StepSupersedes, SupersedesInv
<1>6. CASE answer = NoAnswer /\ (Other \/ Unmount)
  BY <1>3, <1>6, StepForgets, ForgetsInv
<1>7. CASE answer = NoAnswer /\ (ShowFile \/ CodecsFail)
  BY <1>3, <1>7, StepResets, ResetsInv
<1>8. CASE answer = NoAnswer /\ AcceptPart
  BY <1>8, AcceptPartInv
<1>9. CASE answer = NoAnswer /\ (Assembles \/ AssemblerFails)
  BY <1>9, WorksInv DEF Assembles, AssemblerFails, page, pipeline
<1>10. CASE answer = NoAnswer /\ (UserNext \/ FaultNext)
  BY <1>4, <1>5, <1>6, <1>7, <1>9, <1>10 DEF UserNext, FaultNext, KeepingStep
<1>11. CASE answer = NoAnswer /\ (FountainNext \/ PageNext \/ \E w \in Workers : PoolNext(w))
  BY <1>4, <1>5, <1>7, <1>8, <1>11 DEF FountainNext, PageNext, KeepingStep
<1> QED
  BY <1>1, <1>2, <1>9, <1>10, <1>11 DEF Next

LEMMA Invariance == Spec => []Inv
BY InitInv, NextInv, PTL DEF Spec

-----------------------------------------------------------------------------
(* What is on its way between the camera and the page.                     *)

\* The decode workers that have forwarded a payload and not answered yet, the payloads
\* that wait for the fountain worker, and its acknowledgements that wait for the page.
Answering(t) == {w \in Workers : t[w] = Reported}
Waiting(f) == {p \in Streams \X (Nat \ {0}) : p[2] <= f[p[1]]}
Acknowledging(q) == {n \in 1 .. Len(q) : q[n].type = "processed"}

FlowTypes ==
  /\ tasks \in [Workers -> Parts \cup {Free, Reported}]
  /\ frames \in [Streams -> Nat] /\ lead \in Int
  /\ source.stream \in Parts

\* Nothing is lost, so every payload that was forwarded is counted by the page, by the
\* acknowledgement that will count it down, or by the answer that will count it up.
Balanced(t, f, q, l) ==
  /\ IsFiniteSet(Answering(t)) /\ IsFiniteSet(Waiting(f))
  /\ l + Cardinality(Answering(t)) = Cardinality(Waiting(f)) + Cardinality(Acknowledging(q))

\* The fountain worker acknowledges a payload after all it says of it.
AcknowledgedLast(q) == q # << >> => q[Len(q)].type = "processed"

Quiet == AllIdle /\ frames = NoFrames /\ inbox = << >> /\ lead = 0

IdlePhases == {"drain", "rejectDrain"}
QuietPhases == {"ready", "starting", "preparing", "accepting", "result", "failed"}

FlowInv ==
  /\ FlowTypes
  /\ AcknowledgedLast(inbox)
  /\ ~lost => Balanced(tasks, frames, inbox, lead)
  /\ phase \in IdlePhases => AllIdle
  /\ phase \in QuietPhases /\ ~lost => Quiet

LEMMA TasksDiffer ==
  /\ Free # Reported
  /\ \A s \in Parts : s # Free /\ s # Reported
<1>1. Free.id = "free" /\ Reported.id = "reported" /\ NoStream.id = "none"
  BY DEF Free, Reported, NoStream
<1> QED
  BY <1>1, ReceiverAssumption DEF Parts

LEMMA AcknowledgingIsFinite ==
  ASSUME NEW q \in Seq(Messages)
  PROVE  IsFiniteSet(Acknowledging(q)) /\ Cardinality(Acknowledging(q)) \in Nat
<1>1. Len(q) \in Nat
  OBVIOUS
<1>2. IsFiniteSet(1 .. Len(q))
  BY <1>1, FS_Interval
<1>3. Acknowledging(q) \in SUBSET (1 .. Len(q))
  BY DEF Acknowledging
<1> QED
  BY <1>2, <1>3, FS_Subset, FS_CardinalityType

\* Reading the first message counts it, if it is an acknowledgement.
LEMMA AcknowledgingTail ==
  ASSUME NEW q \in Seq(Messages), q # << >>
  PROVE  Cardinality(Acknowledging(Tail(q))) =
           Cardinality(Acknowledging(q)) - (IF Head(q).type = "processed" THEN 1 ELSE 0)
<1> DEFINE S == Acknowledging(Tail(q))
           T == Acknowledging(q) \ {1}
           f == [n \in S |-> n + 1]
<1>1. /\ Len(q) \in Nat \ {0} /\ Tail(q) \in Seq(Messages) /\ Len(Tail(q)) = Len(q) - 1
      /\ \A n \in 1 .. Len(Tail(q)) : Tail(q)[n] = q[n + 1]
  BY HeadTailProperties, EmptySeq
<1>2. Head(q) = q[1]
  OBVIOUS
<1>3. S \subseteq Nat /\ T \subseteq Nat
  BY <1>1 DEF Acknowledging
<1>4. \A n \in S : n + 1 \in T
  BY <1>1 DEF Acknowledging
<1>5. \A n \in T : n - 1 \in S
  <2> SUFFICES ASSUME NEW n \in T PROVE n - 1 \in S
    OBVIOUS
  <2>1. n \in 2 .. Len(q) /\ q[n].type = "processed"
    BY <1>1 DEF Acknowledging
  <2>2. n - 1 \in 1 .. Len(Tail(q)) /\ (n - 1) + 1 = n
    BY <1>1, <2>1
  <2>3. Tail(q)[n - 1] = q[n]
    BY <1>1, <2>2
  <2> QED
    BY <2>1, <2>2, <2>3 DEF Acknowledging
<1> HIDE DEF S, T
<1>6. f \in [S -> T]
  BY <1>4
<1>7. \A a, b \in S : f[a] = f[b] => a = b
  BY <1>3
<1>8. \A t \in T : \E a \in S : f[a] = t
  BY <1>3, <1>5
<1>9. ExistsBijection(S, T)
  BY <1>6, <1>7, <1>8 DEF ExistsBijection, Bijection, Injection, Surjection, IsInjective
<1>10. IsFiniteSet(S) /\ Cardinality(T) = Cardinality(S)
  BY <1>1, <1>9, AcknowledgingIsFinite, FS_Bijection DEF S
<1>11. Cardinality(T) =
         IF 1 \in Acknowledging(q) THEN Cardinality(Acknowledging(q)) - 1
         ELSE Cardinality(Acknowledging(q))
  BY AcknowledgingIsFinite, FS_RemoveElement DEF T
<1>12. 1 \in Acknowledging(q) <=> Head(q).type = "processed"
  BY <1>1, <1>2 DEF Acknowledging
<1>13. Cardinality(Acknowledging(q)) \in Nat
  BY AcknowledgingIsFinite
<1> QED
  BY <1>10, <1>11, <1>12, <1>13 DEF S

\* An acknowledgement more.
LEMMA AcknowledgingOneMore ==
  ASSUME NEW q \in Seq(Messages), NEW m \in Messages
  PROVE  /\ Append(q, m) \in Seq(Messages)
         /\ m.type = "processed" =>
              /\ AcknowledgedLast(Append(q, m))
              /\ Cardinality(Acknowledging(Append(q, m))) = Cardinality(Acknowledging(q)) + 1
         /\ m.type # "processed" => Acknowledging(Append(q, m)) = Acknowledging(q)
<1> DEFINE r == Append(q, m)
<1>1. /\ r \in Seq(Messages) /\ Len(q) \in Nat /\ Len(r) = Len(q) + 1
      /\ r[Len(q) + 1] = m /\ \A n \in 1 .. Len(q) : r[n] = q[n]
  OBVIOUS
<1> HIDE DEF r
<1>2. ASSUME m.type = "processed"
      PROVE  /\ AcknowledgedLast(r)
             /\ Cardinality(Acknowledging(r)) = Cardinality(Acknowledging(q)) + 1
  <2>1. Acknowledging(r) = Acknowledging(q) \cup {Len(q) + 1}
    BY <1>1, <1>2 DEF Acknowledging
  <2>2. Len(q) + 1 \notin Acknowledging(q)
    BY <1>1 DEF Acknowledging
  <2>3. Cardinality(Acknowledging(q) \cup {Len(q) + 1}) = Cardinality(Acknowledging(q)) + 1
    BY <2>2, AcknowledgingIsFinite, FS_AddElement
  <2> QED
    BY <1>1, <1>2, <2>1, <2>3 DEF AcknowledgedLast
<1>3. ASSUME m.type # "processed"
      PROVE  Acknowledging(r) = Acknowledging(q)
  BY <1>1, <1>3 DEF Acknowledging
<1> QED
  BY <1>1, <1>2, <1>3 DEF r

LEMMA AddOne ==
  ASSUME NEW S, NEW x, IsFiniteSet(S), x \notin S, NEW T, T = S \cup {x}
  PROVE  IsFiniteSet(T) /\ Cardinality(T) = Cardinality(S) + 1
BY FS_AddElement

LEMMA RemoveOne ==
  ASSUME NEW S, NEW x, IsFiniteSet(S), x \in S, NEW T, T = S \ {x}
  PROVE  IsFiniteSet(T) /\ Cardinality(T) = Cardinality(S) - 1
BY FS_RemoveElement

LEMMA WaitingOneMore ==
  ASSUME NEW f \in [Streams -> Nat], NEW s \in Streams, IsFiniteSet(Waiting(f)),
         NEW g, g = [f EXCEPT ![s] = @ + 1]
  PROVE  /\ g \in [Streams -> Nat] /\ IsFiniteSet(Waiting(g))
         /\ Cardinality(Waiting(g)) = Cardinality(Waiting(f)) + 1
<1>1. f[s] \in Nat /\ g \in [Streams -> Nat] /\ g[s] = f[s] + 1
      /\ \A r \in Streams \ {s} : g[r] = f[r]
  OBVIOUS
<1>2. Waiting(g) = Waiting(f) \cup {<<s, f[s] + 1>>} /\ <<s, f[s] + 1>> \notin Waiting(f)
  BY <1>1 DEF Waiting
<1>3. IsFiniteSet(Waiting(g)) /\ Cardinality(Waiting(g)) = Cardinality(Waiting(f)) + 1
  BY <1>2, AddOne
<1> QED
  BY <1>1, <1>3

LEMMA WaitingOneLess ==
  ASSUME NEW f \in [Streams -> Nat], NEW s \in Streams, f[s] > 0, IsFiniteSet(Waiting(f)),
         NEW g, g = [f EXCEPT ![s] = @ - 1]
  PROVE  /\ g \in [Streams -> Nat] /\ IsFiniteSet(Waiting(g))
         /\ Cardinality(Waiting(g)) = Cardinality(Waiting(f)) - 1
<1>1. f[s] \in Nat /\ f[s] - 1 \in Nat /\ g \in [Streams -> Nat] /\ g[s] = f[s] - 1
      /\ \A r \in Streams \ {s} : g[r] = f[r]
  OBVIOUS
<1>2. Waiting(g) = Waiting(f) \ {<<s, f[s]>>} /\ <<s, f[s]>> \in Waiting(f)
  BY <1>1 DEF Waiting
<1>3. IsFiniteSet(Waiting(g)) /\ Cardinality(Waiting(g)) = Cardinality(Waiting(f)) - 1
  BY <1>2, RemoveOne
<1> QED
  BY <1>1, <1>3

LEMMA NoneWaiting == NoFrames \in [Streams -> Nat] /\ Waiting(NoFrames) = {}
BY DEF Waiting, NoFrames

LEMMA AnsweringOneMore ==
  ASSUME NEW t, DOMAIN t = Workers, NEW w \in Workers, t[w] # Reported,
         IsFiniteSet(Answering(t)), NEW u, u = [t EXCEPT ![w] = Reported]
  PROVE  /\ IsFiniteSet(Answering(u))
         /\ Cardinality(Answering(u)) = Cardinality(Answering(t)) + 1
<1>1. Answering(u) = Answering(t) \cup {w} /\ w \notin Answering(t)
  BY DEF Answering
<1> QED
  BY <1>1, AddOne

LEMMA AnsweringOneLess ==
  ASSUME NEW t, DOMAIN t = Workers, NEW w \in Workers, t[w] = Reported,
         IsFiniteSet(Answering(t)), NEW u, u = [t EXCEPT ![w] = Free]
  PROVE  /\ IsFiniteSet(Answering(u))
         /\ Cardinality(Answering(u)) = Cardinality(Answering(t)) - 1
<1>1. Answering(u) = Answering(t) \ {w} /\ w \in Answering(t)
  BY TasksDiffer DEF Answering
<1> QED
  BY <1>1, RemoveOne

LEMMA NoneAnswering == AllFree \in [Workers -> {Free}] /\ Answering(AllFree) = {}
BY TasksDiffer DEF Answering, AllFree

\* waitForFullDrain(): when the decode workers are idle and nothing is left to be
\* processed, nothing is on its way.
LEMMA DrainedIsQuiet ==
  ASSUME Inv, FlowInv, ~lost, AllIdle, lead <= 0
  PROVE  Quiet
<1>1. /\ tasks = AllFree /\ frames \in [Streams -> Nat] /\ lead \in Int
      /\ inbox \in Seq(Messages) /\ AcknowledgedLast(inbox)
      /\ Balanced(tasks, frames, inbox, lead)
  BY DEF AllIdle, FlowInv, FlowTypes, Inv, PersistInv, TypesOK
<1>2. Cardinality(Answering(tasks)) = 0
  BY <1>1, NoneAnswering, FS_EmptySet
<1>3. /\ Cardinality(Waiting(frames)) \in Nat /\ IsFiniteSet(Waiting(frames))
      /\ Cardinality(Acknowledging(inbox)) \in Nat /\ IsFiniteSet(Acknowledging(inbox))
  BY <1>1, AcknowledgingIsFinite, FS_CardinalityType DEF Balanced
<1>4. lead + Cardinality(Answering(tasks))
        = Cardinality(Waiting(frames)) + Cardinality(Acknowledging(inbox))
  BY <1>1 DEF Balanced
<1>5. /\ lead = 0 /\ Cardinality(Waiting(frames)) = 0 /\ Cardinality(Acknowledging(inbox)) = 0
  BY <1>1, <1>2, <1>3, <1>4
<1>6. Waiting(frames) = {} /\ Acknowledging(inbox) = {}
  BY <1>3, <1>5, FS_EmptySet
<1>7. frames = NoFrames
  <2>1. \A s \in Streams : frames[s] = 0
    <3> SUFFICES ASSUME NEW s \in Streams, frames[s] # 0 PROVE FALSE
      OBVIOUS
    <3>1. frames[s] \in Nat /\ 1 <= frames[s]
      BY <1>1
    <3>2. <<s, 1>> \in Waiting(frames)
      BY <3>1 DEF Waiting
    <3> QED
      BY <1>6, <3>2
  <2> QED
    BY <1>1, <2>1 DEF NoFrames
<1>8. inbox = << >>
  <2> SUFFICES ASSUME inbox # << >> PROVE FALSE
    OBVIOUS
  <2>1. Len(inbox) \in 1 .. Len(inbox)
    BY <1>1, EmptySeq
  <2>2. Len(inbox) \in Acknowledging(inbox)
    BY <1>1, <2>1 DEF AcknowledgedLast, Acknowledging
  <2> QED
    BY <1>6, <2>2
<1> QED
  BY <1>5, <1>7, <1>8 DEF Quiet

-----------------------------------------------------------------------------
(* What the steps do with it.                                              *)

LEMMA QuietFlow ==
  ASSUME tasks' = AllFree, frames' = NoFrames, inbox' = << >>, lead' = 0,
         source'.stream \in Parts
  PROVE  FlowInv'
<1>1. FlowTypes'
  <2>1. tasks' \in [Workers -> Parts \cup {Free, Reported}]
    BY DEF AllFree
  <2> QED
    BY <2>1, NoneWaiting DEF FlowTypes
<1>2. AcknowledgedLast(inbox')
  BY DEF AcknowledgedLast
<1>3. Balanced(tasks', frames', inbox', lead')
  <2>1. Acknowledging(<< >>) = {}
    BY DEF Acknowledging
  <2> QED
    BY <2>1, NoneAnswering, NoneWaiting, FS_EmptySet DEF Balanced
<1>4. AllIdle' /\ Quiet'
  BY DEF AllIdle, Quiet
<1> QED
  BY <1>1, <1>2, <1>3, <1>4 DEF FlowInv

LEMMA NoSourceType == NoSource.stream \in Parts /\ \A s : Shows(s).stream = s
BY PartTypes DEF NoSource, Shows

\* The workers are released, and with them what they have.
LEMMA ReleaseFlow ==
  ASSUME ReleaseDecodeWorkers, source' \in {source, NoSource}, FlowInv
  PROVE  FlowInv'
<1>1. source'.stream \in Parts
  BY NoSourceType DEF FlowInv, FlowTypes
<1> QED
  BY <1>1, QuietFlow DEF ReleaseDecodeWorkers

\* The workers stay, when nothing is on its way.
LEMMA ParkFlow ==
  ASSUME FlowInv, Park, lost' = lost, ~lost => Quiet
  PROVE  FlowInv'
<1>1. /\ UNCHANGED <<tasks, frames, inbox>> /\ lead' = 0 /\ source' = NoSource
      /\ phase' = "ready"
  BY DEF Park, ResetReceiver
<1>2. CASE ~lost
  BY <1>1, <1>2, NoSourceType, QuietFlow DEF Quiet, AllIdle
<1>3. CASE lost
  BY <1>1, <1>3, NoSourceType DEF FlowInv, FlowTypes, IdlePhases
<1> QED
  BY <1>2, <1>3

\* An await of the attempt ends.
LEMMA SteadyFlow ==
  ASSUME FlowInv, UNCHANGED <<tasks, frames, inbox, lead, lost>>, source'.stream \in Parts,
         phase' \in IdlePhases => AllIdle,
         phase' \in QuietPhases /\ ~lost => Quiet
  PROVE  FlowInv'
BY DEF FlowInv, FlowTypes, AllIdle, Quiet

\* A payload, an answer or a message moves on.
LEMMA MovesFlow ==
  ASSUME FlowInv, FlowTypes', AcknowledgedLast(inbox'), ~lost' => ~lost,
         ~lost' => Balanced(tasks', frames', inbox', lead'),
         phase' = phase \/ phase' \notin IdlePhases \cup QuietPhases,
         phase \in IdlePhases /\ AllIdle => AllIdle',
         phase \in QuietPhases /\ ~lost /\ Quiet => Quiet'
  PROVE  FlowInv'
BY DEF FlowInv

LEMMA ReadLast ==
  ASSUME NEW q \in Seq(Messages), q # << >>, AcknowledgedLast(q)
  PROVE  Tail(q) \in Seq(Messages) /\ AcknowledgedLast(Tail(q))
<1>1. /\ Tail(q) \in Seq(Messages) /\ Len(q) \in Nat \ {0} /\ Len(Tail(q)) = Len(q) - 1
      /\ \A n \in 1 .. Len(Tail(q)) : Tail(q)[n] = q[n + 1]
  BY HeadTailProperties, EmptySeq
<1>2. ASSUME Tail(q) # << >>
      PROVE  Tail(q)[Len(Tail(q))] = q[Len(q)]
  <2>1. Len(Tail(q)) \in 1 .. Len(Tail(q))
    BY <1>1, <1>2, EmptySeq
  <2> QED
    BY <1>1, <2>1
<1> QED
  BY <1>1, <1>2 DEF AcknowledgedLast

ReleasingStep ==
  \/ SourceEnds \/ ApngRefused \/ SwitchDone \/ Other \/ Unmount
  \/ ShowFile \/ UnpackFails \/ CodecsFail

LEMMA ReleasingFlow ==
  ASSUME FlowInv, ReleasingStep
  PROVE  FlowInv'
<1>1. ReleaseDecodeWorkers /\ source' \in {source, NoSource}
  BY DEF ReleasingStep, SourceEnds, ApngRefused, SwitchDone, ResetReceiver, Other, Unmount,
         ShowFile, UnpackFails, CodecsFail, FailTransfer, Retry
<1> QED
  BY <1>1, ReleaseFlow

LEMMA ParkingFlow ==
  ASSUME Inv, FlowInv, Restart \/ ApngRejected \/ Mismatched
  PROVE  FlowInv'
<1>1. Park /\ lost' = lost
  BY DEF Restart, ApngRejected, Mismatched, bounds
<1>2. CASE Restart
  BY <1>1, <1>2, ParkFlow DEF Restart, FlowInv, QuietPhases
<1>3. CASE ApngRejected
  BY <1>1, <1>3, ParkFlow, DrainedIsQuiet DEF ApngRejected, FlowInv, IdlePhases
<1>4. CASE Mismatched
  BY <1>1, <1>4, ParkFlow, DrainedIsQuiet DEF Mismatched, FlowInv, IdlePhases
<1> QED
  BY <1>2, <1>3, <1>4

SteadyStep ==
  \/ (\E s \in Streams : Start(s) \/ Show(s))
  \/ (\E s \in Streams, n \in 1 .. Symbols : StartApng(s, n))
  \/ Started \/ StartRefused \/ SwitchMode
  \/ ApngParsed \/ ApngDecoded \/ RejectionDecoded
  \/ ProgressShown \/ PoolIdle \/ Unpacked \/ AcceptPart \/ StreamIdles
  \/ Assembles \/ AssemblerFails

LEMMA SteadyStepFlow ==
  ASSUME Inv, FlowInv, SteadyStep
  PROVE  FlowInv'
<1>1. UNCHANGED <<tasks, frames, inbox, lead, lost>>
  BY DEF SteadyStep, Start, Show, StartApng, Started, StartRefused, SwitchMode, ApngParsed,
         ApngDecoded, RejectionDecoded, ProgressShown, PoolIdle, Unpacked, AcceptPart,
         StreamIdles, Assembles, AssemblerFails, pipeline, bounds
<1>2. source.stream \in Parts /\ Streams \subseteq Parts
  BY DEF FlowInv, FlowTypes, Parts
<1>3. CASE \E s \in Streams : Start(s)
  <2>1. source'.stream \in Parts /\ phase = "ready" /\ phase' = "starting"
    BY <1>2, <1>3, NoSourceType DEF Start
  <2> QED
    BY <1>1, <2>1, SteadyFlow DEF FlowInv, QuietPhases, IdlePhases
<1>4. CASE \E s \in Streams : Show(s)
  <2>1. source'.stream \in Parts /\ phase = "capturing" /\ phase' = phase
    BY <1>2, <1>4, NoSourceType DEF Show
  <2> QED
    BY <1>1, <2>1, SteadyFlow DEF QuietPhases, IdlePhases
<1>5. CASE \E s \in Streams, n \in 1 .. Symbols : StartApng(s, n)
  <2>1. source'.stream \in Parts /\ phase = "ready" /\ phase' = "starting"
    BY <1>2, <1>5 DEF StartApng
  <2> QED
    BY <1>1, <2>1, SteadyFlow DEF FlowInv, QuietPhases, IdlePhases
<1>6. CASE Started
  BY <1>1, <1>2, <1>6, SteadyFlow DEF Started, QuietPhases, IdlePhases
<1>7. CASE StartRefused
  BY <1>1, <1>7, NoSourceType, SteadyFlow DEF StartRefused, FlowInv, QuietPhases, IdlePhases
<1>8. CASE SwitchMode
  BY <1>1, <1>8, NoSourceType, SteadyFlow DEF SwitchMode, QuietPhases, IdlePhases
<1>9. CASE ApngParsed \/ ApngDecoded \/ ProgressShown
  BY <1>1, <1>2, <1>9, SteadyFlow
  DEF ApngParsed, ApngDecoded, ProgressShown, QuietPhases, IdlePhases
<1>10. CASE RejectionDecoded \/ PoolIdle
  BY <1>1, <1>2, <1>10, SteadyFlow DEF RejectionDecoded, PoolIdle, QuietPhases, IdlePhases
<1>11. CASE Unpacked
  <2>1. phase = "drain" /\ lead <= 0 /\ phase' = "preparing" /\ source' = source
    BY <1>11 DEF Unpacked
  <2>2. ~lost => Quiet
    BY <2>1, DrainedIsQuiet DEF FlowInv, IdlePhases
  <2> QED
    BY <1>1, <1>2, <2>1, <2>2, SteadyFlow DEF IdlePhases
<1>12. CASE AcceptPart
  BY <1>1, <1>2, <1>12, SteadyFlow DEF AcceptPart, FlowInv, QuietPhases, IdlePhases
<1>13. CASE StreamIdles \/ Assembles \/ AssemblerFails
  <2>1. UNCHANGED <<phase, source>>
    BY <1>13 DEF StreamIdles, Assembles, AssemblerFails, page
  <2> QED
    BY <1>1, <1>2, <2>1, SteadyFlow DEF FlowInv
<1> QED
  BY <1>3, <1>4, <1>5, <1>6, <1>7, <1>8, <1>9, <1>10, <1>11, <1>12, <1>13 DEF SteadyStep

LEMMA SubmitFlow ==
  ASSUME FlowInv, NEW w \in Workers, Capture(w) \/ ParseFrame(w)
  PROVE  FlowInv'
<1>1. /\ tasks[w] = Free /\ tasks' = [tasks EXCEPT ![w] = source.stream]
      /\ UNCHANGED <<phase, frames, inbox, lead, lost>> /\ source'.stream = source.stream
      /\ phase \in {"capturing", "parsing"}
  <2>1. CASE Capture(w)
    BY <2>1 DEF Capture, Submit, page, bounds
  <2>2. CASE ParseFrame(w)
    <3>1. source' = [source EXCEPT !.left = @ - 1]
      BY <2>2 DEF ParseFrame
    <3>2. source'.stream = source.stream
      BY <3>1
    <3> QED
      BY <2>2, <3>2 DEF ParseFrame, Submit, bounds
  <2> QED
    BY <2>1, <2>2
<1>2. tasks \in [Workers -> Parts \cup {Free, Reported}] /\ source.stream \in Parts
  BY DEF FlowInv, FlowTypes
<1>3. tasks' \in [Workers -> Parts \cup {Free, Reported}] /\ Answering(tasks') = Answering(tasks)
  BY <1>1, <1>2, TasksDiffer DEF Answering
<1>4. FlowTypes'
  BY <1>1, <1>2, <1>3 DEF FlowInv, FlowTypes
<1>5. ~lost' => Balanced(tasks', frames', inbox', lead')
  BY <1>1, <1>3 DEF FlowInv, Balanced
<1> QED
  BY <1>1, <1>4, <1>5, MovesFlow DEF FlowInv, IdlePhases, QuietPhases

LEMMA ForwardFlow ==
  ASSUME Inv, FlowInv, NEW w \in Workers, Forward(w)
  PROVE  FlowInv'
<1>1. /\ tasks[w] \in Streams /\ frames' = [frames EXCEPT ![tasks[w]] = @ + 1]
      /\ tasks' = [tasks EXCEPT ![w] = Reported]
      /\ UNCHANGED <<phase, source, inbox, lead, lost>>
  BY DEF Forward, page, bounds
<1>2. /\ tasks \in [Workers -> Parts \cup {Free, Reported}] /\ frames \in [Streams -> Nat]
      /\ lead \in Int /\ source.stream \in Parts /\ inbox \in Seq(Messages)
  BY DEF FlowInv, FlowTypes, Inv, PersistInv, TypesOK
<1>3. tasks[w] # Reported /\ tasks[w] # Free
  BY <1>1, TasksDiffer DEF Parts
<1>4. tasks' \in [Workers -> Parts \cup {Free, Reported}] /\ frames' \in [Streams -> Nat]
  BY <1>1, <1>2
<1>5. ASSUME ~lost
      PROVE  Balanced(tasks', frames', inbox', lead')
  <2>1. Balanced(tasks, frames, inbox, lead)
    BY <1>5 DEF FlowInv
  <2>2. /\ IsFiniteSet(Waiting(frames'))
        /\ Cardinality(Waiting(frames')) = Cardinality(Waiting(frames)) + 1
    BY <1>1, <1>2, <2>1, WaitingOneMore DEF Balanced
  <2>3. /\ IsFiniteSet(Answering(tasks'))
        /\ Cardinality(Answering(tasks')) = Cardinality(Answering(tasks)) + 1
    BY <1>1, <1>2, <1>3, <2>1, AnsweringOneMore DEF Balanced
  <2>4. /\ Cardinality(Waiting(frames)) \in Nat /\ Cardinality(Answering(tasks)) \in Nat
        /\ Cardinality(Acknowledging(inbox)) \in Nat
    BY <1>2, <2>1, AcknowledgingIsFinite, FS_CardinalityType DEF Balanced
  <2>5. lead' = lead /\ inbox' = inbox /\ lead \in Int
    BY <1>1, <1>2
  <2>6. lead + Cardinality(Answering(tasks))
          = Cardinality(Waiting(frames)) + Cardinality(Acknowledging(inbox))
    BY <2>1 DEF Balanced
  <2>7. lead' + Cardinality(Answering(tasks'))
          = Cardinality(Waiting(frames')) + Cardinality(Acknowledging(inbox'))
    BY <2>2, <2>3, <2>4, <2>5, <2>6
  <2> QED
    BY <2>2, <2>3, <2>7 DEF Balanced
<1>6. ~AllIdle
  BY <1>3 DEF AllIdle, AllFree
<1>7. FlowTypes'
  BY <1>1, <1>2, <1>4 DEF FlowTypes
<1> QED
  BY <1>1, <1>5, <1>6, <1>7, MovesFlow DEF FlowInv, Quiet

LEMMA TaskCompleteFlow ==
  ASSUME Inv, FlowInv, NEW w \in Workers, TaskComplete(w)
  PROVE  FlowInv'
<1>1. /\ tasks[w] = Reported /\ tasks' = [tasks EXCEPT ![w] = Free]
      /\ lead' = lead + 1 /\ UNCHANGED <<phase, source, frames, inbox, lost>>
  BY DEF TaskComplete, page, bounds
<1>2. /\ tasks \in [Workers -> Parts \cup {Free, Reported}] /\ frames \in [Streams -> Nat]
      /\ lead \in Int /\ source.stream \in Parts /\ inbox \in Seq(Messages)
  BY DEF FlowInv, FlowTypes, Inv, PersistInv, TypesOK
<1>3. tasks' \in [Workers -> Parts \cup {Free, Reported}]
  BY <1>1, <1>2
<1>4. ASSUME ~lost
      PROVE  Balanced(tasks', frames', inbox', lead')
  <2>1. Balanced(tasks, frames, inbox, lead)
    BY <1>4 DEF FlowInv
  <2>2. /\ IsFiniteSet(Answering(tasks'))
        /\ Cardinality(Answering(tasks')) = Cardinality(Answering(tasks)) - 1
    BY <1>1, <1>2, <2>1, AnsweringOneLess DEF Balanced
  <2>3. /\ Cardinality(Waiting(frames)) \in Nat /\ Cardinality(Answering(tasks)) \in Nat
        /\ Cardinality(Acknowledging(inbox)) \in Nat
    BY <1>2, <2>1, AcknowledgingIsFinite, FS_CardinalityType DEF Balanced
  <2> QED
    BY <1>1, <1>2, <2>1, <2>2, <2>3 DEF Balanced
<1>5. ~AllIdle
  BY <1>1, TasksDiffer DEF AllIdle, AllFree
<1>6. FlowTypes'
  BY <1>1, <1>2, <1>3 DEF FlowTypes
<1> QED
  BY <1>1, <1>4, <1>5, <1>6, MovesFlow DEF FlowInv, Quiet

\* What is dropped with a worker unseen by the page is remembered in `lost`.
LEMMA StopWorkersFlow ==
  ASSUME FlowInv, NEW ws, StopWorkers(ws), UNCHANGED <<phase, source, inbox, lead>>
  PROVE  FlowInv'
<1>1. /\ tasks' = [w \in Workers |-> IF w \in ws THEN Free ELSE tasks[w]]
      /\ frames' \in {f \in [Streams -> 0 .. MaxInFlight] : \A s \in Streams : f[s] <= frames[s]}
      /\ ~lost' => ~lost /\ frames' = frames /\ \A w \in Workers \cap ws : tasks[w] # Reported
  BY DEF StopWorkers
<1>2. /\ tasks \in [Workers -> Parts \cup {Free, Reported}] /\ frames \in [Streams -> Nat]
      /\ lead \in Int /\ source.stream \in Parts /\ MaxInFlight \in Nat
  BY ReceiverAssumption DEF FlowInv, FlowTypes
<1>3. tasks' \in [Workers -> Parts \cup {Free, Reported}] /\ frames' \in [Streams -> Nat]
  BY <1>1, <1>2
<1>4. ~lost' => Answering(tasks') = Answering(tasks)
  BY <1>1, <1>2, TasksDiffer DEF Answering
<1>5. ~lost' => Balanced(tasks', frames', inbox', lead')
  BY <1>1, <1>4 DEF FlowInv, Balanced
<1>6. AllIdle => AllIdle'
  BY <1>1 DEF AllIdle, AllFree
<1>7. Quiet => Quiet'
  <2> SUFFICES ASSUME Quiet PROVE frames' = NoFrames
    BY <1>6 DEF Quiet
  <2>1. \A s \in Streams : frames'[s] \in Nat /\ frames'[s] <= 0
    BY <1>1, <1>3 DEF Quiet, NoFrames
  <2>2. \A s \in Streams : frames'[s] = 0
    BY <2>1
  <2> QED
    BY <1>3, <2>2 DEF NoFrames
<1>8. FlowTypes'
  BY <1>2, <1>3 DEF FlowTypes
<1> QED
  BY <1>1, <1>5, <1>6, <1>7, <1>8, MovesFlow DEF FlowInv

LEMMA DecodeFrameFlow ==
  ASSUME Inv, FlowInv, NEW s \in Streams, DecodeFrame(s)
  PROVE  FlowInv'
<1>1. /\ frames[s] > 0 /\ frames' = [frames EXCEPT ![s] = @ - 1]
      /\ UNCHANGED <<phase, source, tasks, lead, lost>>
  BY DEF DecodeFrame, page, bounds
<1>2. /\ tasks \in [Workers -> Parts \cup {Free, Reported}] /\ frames \in [Streams -> Nat]
      /\ lead \in Int /\ source.stream \in Parts /\ inbox \in Seq(Messages)
  BY DEF FlowInv, FlowTypes, Inv, PersistInv, TypesOK
<1>3. frames' \in [Streams -> Nat]
  BY <1>1, <1>2
<1>4. \A type \in {"processed", "complete", "verdict"} :
        Message(type, s) \in Messages /\ Message(type, s).type = type
  BY DEF Message, Messages, Parts
<1> DEFINE m == Message("processed", s)
<1>5. PICK q \in Seq(Messages) : inbox' = Append(q, m) /\ Acknowledging(q) = Acknowledging(inbox)
  <2>1. \A x, y \in Seq(Messages) : (x \o y) \o <<m>> = Append(x \o y, m)
    BY <1>4
  <2>2. inbox \o << >> = inbox /\ << >> \in Seq(Messages)
    BY <1>2
  <2>3. \A type \in {"complete", "verdict"} :
          LET q == inbox \o <<Message(type, s)>>
          IN  q \in Seq(Messages) /\ q = Append(inbox, Message(type, s))
    BY <1>2, <1>4
  <2>4. \A type \in {"complete", "verdict"} :
          Acknowledging(Append(inbox, Message(type, s))) = Acknowledging(inbox)
    BY <1>2, <1>4, AcknowledgingOneMore
  <2>5. PICK y : /\ y \in {<< >>, <<Message("complete", s)>>, <<Message("verdict", s)>>}
                 /\ \/ inbox' = Append(inbox, m) /\ y = << >>
                    \/ inbox' = inbox \o y \o <<m>>
    <3>1. CASE ~Acceptable(s)
      <4>1. inbox' = inbox \o (IF fountain.verdict = s THEN << >> ELSE <<Message("verdict", s)>>)
                           \o <<m>>
        BY <3>1 DEF DecodeFrame
      <4> QED
        BY <4>1
    <3>2. CASE Acceptable(s) /\ Ignored(s)
      BY <3>2 DEF DecodeFrame
    <3>3. CASE Acceptable(s) /\ ~Ignored(s)
      <4>1. inbox' = inbox \o (IF Collected(s).done THEN <<Message("complete", s)>> ELSE << >>)
                           \o <<m>>
        BY <3>3 DEF DecodeFrame
      <4> QED
        BY <4>1
    <3> QED
      BY <3>1, <3>2, <3>3
  <2>6. y \in Seq(Messages)
    <3>1. \A x \in Messages : <<x>> \in Seq(Messages)
      OBVIOUS
    <3>2. Message("complete", s) \in Messages /\ Message("verdict", s) \in Messages
      BY <1>4
    <3>3. << >> \in Seq(Messages)
      OBVIOUS
    <3> QED
      BY <2>5, <3>1, <3>2, <3>3
  <2> HIDE DEF m
  <2>7. inbox' = Append(inbox \o y, m)
    BY <1>2, <2>1, <2>2, <2>5, <2>6
  <2>8. inbox \o y \in Seq(Messages) /\ Acknowledging(inbox \o y) = Acknowledging(inbox)
    BY <1>2, <2>2, <2>3, <2>4, <2>5
  <2> QED
    BY <2>7, <2>8
<1>6. /\ AcknowledgedLast(inbox')
      /\ Cardinality(Acknowledging(inbox')) = Cardinality(Acknowledging(inbox)) + 1
  BY <1>4, <1>5, AcknowledgingOneMore
<1>7. ASSUME ~lost
      PROVE  Balanced(tasks', frames', inbox', lead')
  <2>1. Balanced(tasks, frames, inbox, lead)
    BY <1>7 DEF FlowInv
  <2>2. /\ IsFiniteSet(Waiting(frames'))
        /\ Cardinality(Waiting(frames')) = Cardinality(Waiting(frames)) - 1
    BY <1>1, <1>2, <2>1, WaitingOneLess DEF Balanced
  <2>3. /\ Cardinality(Waiting(frames)) \in Nat /\ Cardinality(Answering(tasks)) \in Nat
        /\ Cardinality(Acknowledging(inbox)) \in Nat
    BY <1>2, <2>1, AcknowledgingIsFinite, FS_CardinalityType DEF Balanced
  <2> QED
    BY <1>1, <1>2, <1>6, <2>1, <2>2, <2>3 DEF Balanced
<1>8. frames # NoFrames
  BY <1>1, <1>2 DEF NoFrames
<1>9. FlowTypes'
  BY <1>1, <1>2, <1>3 DEF FlowTypes
<1> QED
  BY <1>1, <1>6, <1>7, <1>8, <1>9, MovesFlow DEF FlowInv, Quiet, AllIdle

\* A message is read; the attempt may go on.
LEMMA ReadFlow ==
  ASSUME Inv, FlowInv, inbox # << >>, inbox' = Tail(inbox), source'.stream \in Parts,
         lead' = IF Head(inbox).type = "processed" THEN lead - 1 ELSE lead,
         UNCHANGED <<tasks, frames, lost>>,
         phase' = phase \/ phase' \notin IdlePhases \cup QuietPhases
  PROVE  FlowInv'
<1>1. inbox \in Seq(Messages) /\ lead \in Int
  BY DEF FlowInv, FlowTypes, Inv, PersistInv, TypesOK
<1>2. AcknowledgedLast(inbox')
  BY <1>1, ReadLast DEF FlowInv
<1>3. ASSUME ~lost
      PROVE  Balanced(tasks', frames', inbox', lead')
  <2>1. Balanced(tasks, frames, inbox, lead)
    BY <1>3 DEF FlowInv
  <2>2. /\ Cardinality(Waiting(frames)) \in Nat /\ Cardinality(Answering(tasks)) \in Nat
        /\ Cardinality(Acknowledging(inbox)) \in Nat
    BY <1>1, <2>1, AcknowledgingIsFinite, FS_CardinalityType DEF Balanced
  <2>3. Cardinality(Acknowledging(inbox')) =
          Cardinality(Acknowledging(inbox)) - (IF Head(inbox).type = "processed" THEN 1 ELSE 0)
    BY <1>1, AcknowledgingTail
  <2> QED
    BY <1>1, <2>1, <2>2, <2>3 DEF Balanced
<1>4. FlowTypes'
  BY <1>1 DEF FlowInv, FlowTypes
<1> QED
  BY <1>2, <1>3, <1>4, MovesFlow DEF Quiet, AllIdle

LEMMA MessageFlow ==
  ASSUME Inv, FlowInv, OnProcessed \/ OnComplete \/ OnVerdict
  PROVE  FlowInv'
<1>1. source.stream \in Parts /\ NoSource.stream \in Parts
  BY NoSourceType DEF FlowInv, FlowTypes
<1>2. CASE OnProcessed
  BY <1>1, <1>2, ReadFlow DEF OnProcessed, page, bounds
<1>3. CASE OnComplete
  BY <1>1, <1>3, ReadFlow DEF OnComplete, bounds, IdlePhases, QuietPhases
<1>4. CASE OnVerdict /\ ~Retry
  <2>1. UNCHANGED <<source, tasks, frames, lead, lost>>
    BY <1>4 DEF OnVerdict, bounds
  <2>2. /\ inbox # << >> /\ inbox' = Tail(inbox) /\ Head(inbox).type = "verdict"
        /\ phase' \in {phase, "rejecting"}
    BY <1>4 DEF OnVerdict
  <2> QED
    BY <1>1, <2>1, <2>2, ReadFlow DEF IdlePhases, QuietPhases
<1>5. CASE OnVerdict /\ Retry
  BY <1>5, ReleaseFlow DEF Retry
<1> QED
  BY <1>2, <1>3, <1>4, <1>5

LEMMA WorkerFailsFlow ==
  ASSUME FlowInv, NEW w \in Workers, WorkerFails(w)
  PROVE  FlowInv'
<1>1. CASE Retry
  BY <1>1, ReleaseFlow DEF Retry
<1>2. CASE StopWorkers({w}) /\ UNCHANGED <<phase, source, inbox, lead>>
  BY <1>2, StopWorkersFlow
<1> QED
  BY <1>1, <1>2 DEF WorkerFails

LEMMA FountainFailsFlow ==
  ASSUME FlowInv, FountainFails
  PROVE  FlowInv'
<1>1. CASE Retry
  BY <1>1, ReleaseFlow DEF Retry
<1>2. CASE ReleaseDecodeWorkers /\ source' = source
  BY <1>2, ReleaseFlow
<1>3. CASE UNCHANGED <<phase, source, tasks, frames, inbox, lead>>
  BY <1>3, SteadyFlow DEF FountainFails, bounds, FlowInv, FlowTypes
<1> QED
  BY <1>1, <1>2, <1>3 DEF FountainFails, Done

LEMMA OnAnswerFlow ==
  ASSUME Inv, FlowInv, OnAnswer
  PROVE  FlowInv'
<1>1. lost' = lost
  BY DEF OnAnswer, bounds
<1>2. CASE ~answer.current
  <2>1. UNCHANGED <<phase, source, tasks, frames, inbox, lead>>
    BY <1>2 DEF OnAnswer, page, pipeline
  <2> QED
    BY <1>1, <2>1, SteadyFlow DEF FlowInv, FlowTypes
<1>3. CASE answer.current /\ answer.kind \in {"more", "mismatch"}
  <2>1. Park /\ phase = "accepting"
    BY <1>3 DEF OnAnswer, Inv, LeakInv, OneAttempt
  <2> QED
    BY <1>1, <2>1, ParkFlow DEF FlowInv, QuietPhases
<1>4. CASE answer.current /\ answer.kind \in {"stored", "failed"}
  <2>1. ReleaseDecodeWorkers /\ source' = source
    BY <1>4 DEF OnAnswer, FailTransfer
  <2> QED
    BY <2>1, ReleaseFlow
<1>5. answer.kind \in {"none", "more", "mismatch", "stored", "failed"}
  BY DEF Inv, PersistInv, TypesOK, Answers
<1> QED
  BY <1>2, <1>3, <1>4, <1>5 DEF Inv, LeakInv, OneAttempt

LEMMA NextFlow ==
  ASSUME Inv, FlowInv, [Next]_vars
  PROVE  FlowInv'
<1>1. CASE UNCHANGED vars
  BY <1>1, SteadyFlow DEF vars, page, pipeline, bounds, FlowInv, FlowTypes
<1>2. CASE OnAnswer
  BY <1>2, OnAnswerFlow
<1>3. CASE UserNext
  <2>1. CASE Resize
    BY <2>1, StopWorkersFlow DEF Resize, page
  <2> QED
    BY <1>3, <2>1, SteadyStepFlow, ReleasingFlow, ParkingFlow
    DEF UserNext, SteadyStep, ReleasingStep
<1>4. CASE FaultNext
  BY <1>4, WorkerFailsFlow, FountainFailsFlow, ReleasingFlow, SteadyStepFlow
  DEF FaultNext, ReleasingStep, SteadyStep
<1>5. CASE FountainNext
  BY <1>5, DecodeFrameFlow, SteadyStepFlow DEF FountainNext, SteadyStep
<1>6. CASE PageNext
  BY <1>6, SteadyStepFlow, ReleasingFlow, ParkingFlow, MessageFlow
  DEF PageNext, SteadyStep, ReleasingStep
<1>7. CASE Assembles
  BY <1>7, SteadyStepFlow DEF SteadyStep
<1>8. CASE \E w \in Workers : PoolNext(w)
  BY <1>8, SubmitFlow, ForwardFlow, TaskCompleteFlow DEF PoolNext
<1> QED
  BY <1>1, <1>2, <1>3, <1>4, <1>5, <1>6, <1>7, <1>8 DEF Next

LEMMA InitFlow ==
  ASSUME Init
  PROVE  FlowInv
<1>1. /\ tasks = AllFree /\ frames = NoFrames /\ inbox = << >> /\ lead = 0
      /\ source.stream \in Parts
  BY NoSourceType DEF Init
<1>2. FlowTypes
  <2>1. tasks \in [Workers -> Parts \cup {Free, Reported}]
    BY <1>1 DEF AllFree
  <2> QED
    BY <1>1, <2>1, NoneWaiting DEF FlowTypes
<1>3. AcknowledgedLast(inbox)
  BY <1>1 DEF AcknowledgedLast
<1>4. Balanced(tasks, frames, inbox, lead)
  <2>1. Acknowledging(<< >>) = {}
    BY DEF Acknowledging
  <2> QED
    BY <1>1, <2>1, NoneAnswering, NoneWaiting, FS_EmptySet DEF Balanced
<1>5. AllIdle /\ Quiet
  BY <1>1 DEF AllIdle, Quiet
<1> QED
  BY <1>2, <1>3, <1>4, <1>5 DEF FlowInv

LEMMA FlowInvariance == Spec => [](Inv /\ FlowInv)
<1>1. Init => Inv /\ FlowInv
  BY InitInv, InitFlow
<1>2. Inv /\ FlowInv /\ [Next]_vars => (Inv /\ FlowInv)'
  BY NextInv, NextFlow
<1> QED
  BY <1>1, <1>2, PTL DEF Spec

-----------------------------------------------------------------------------
(* What is kept of a transfer.                                             *)

\* The parts of a transfer agree on the name of its file, as they do when one sender
\* has made them all.
OneName == \A s, t \in Streams : s.id = t.id => s.name = t.name

Finishing == {"progress", "idle", "drain", "preparing", "accepting"}

\* What is finished and accepted has been shown by a sender.
PartsShown ==
  /\ \A n \in 1 .. Len(inbox) : inbox[n].stream \in Streams
  /\ phase \in Finishing => part \in Streams
  /\ phase \in {"preparing", "accepting"} => part.index # Standalone

\* A part of a transfer, not a file of its own.
Piece(p) == p \in Streams /\ p.index \in 0 .. Count - 1

Pieces(q) == \A n \in 1 .. Len(q) : q[n].op = "accept" => Piece(q[n].part)
CurrentLive(q) == \A n \in 1 .. Len(q) : q[n].current => q[n].live

\* The attempt that goes on has neither been reset nor refused.
CallsAreLive ==
  /\ Pieces(queue) /\ CurrentLive(queue)
  /\ work.pc # "idle" => Piece(work.part)
  /\ work.current => attached \/ work.pc = "settle"
  /\ answer.current /\ answer.kind = "failed" => faults > 0

\* The assembly is that of a transfer that was shown, and its last part completes it.
Completes ==
  attached =>
    /\ assembly.received \subseteq 0 .. Count - 1
    /\ \E s \in Streams : assembly.id = s.id /\ assembly.name = s.name
    /\ work.pc # "flush" => assembly.next \notin assembly.pending
    /\ work.pc \in {"stage", "close"} => work.part.index # assembly.next
    /\ work.pc = "finish" => assembly.next = Count

KeptInv == faults \in Nat /\ PartsShown /\ CallsAreLive /\ Completes

\* The steps of the page, by what they do with what has been shown.
LEMMA ShownStays ==
  ASSUME Inv, PartsShown,
         inbox' \in {inbox, << >>} \/ (inbox # << >> /\ inbox' = Tail(inbox)),
         (phase' = phase /\ part' = part) \/ phase' \notin Finishing
  PROVE  PartsShown'
<1>1. \A n \in 1 .. Len(inbox') : inbox'[n].stream \in Streams
  <2>1. CASE inbox' \in {inbox, << >>}
    BY <2>1 DEF PartsShown
  <2>2. CASE inbox # << >> /\ inbox' = Tail(inbox)
    <3>1. /\ inbox \in Seq(Messages) /\ Len(inbox) \in Nat /\ Len(inbox') = Len(inbox) - 1
          /\ \A n \in 1 .. Len(inbox') : inbox'[n] = inbox[n + 1]
      BY <2>2, HeadTailProperties DEF Inv, PersistInv, TypesOK
    <3> QED
      BY <3>1 DEF PartsShown
  <2> QED
    BY <2>1, <2>2
<1> QED
  BY <1>1 DEF PartsShown, Finishing

LEMMA DecodedShown ==
  ASSUME Inv, PartsShown, NEW s \in Streams, DecodeFrame(s)
  PROVE  PartsShown'
<1> DEFINE T == [type : {"processed", "complete", "verdict"}, stream : Streams]
<1>1. inbox \in Seq(T)
  <2>1. inbox \in Seq(Messages)
    BY DEF Inv, PersistInv, TypesOK
  <2>2. \A m \in Messages : m.stream \in Streams => m \in T
    BY DEF Messages
  <2> HIDE DEF T
  <2>3. \A n \in 1 .. Len(inbox) : inbox[n] \in T
    BY <2>1, <2>2 DEF PartsShown
  <2>4. Len(inbox) \in Nat /\ inbox = [n \in 1 .. Len(inbox) |-> inbox[n]]
    BY <2>1
  <2>5. inbox \in [1 .. Len(inbox) -> T]
    BY <2>3, <2>4
  <2> QED
    BY <2>4, <2>5, SeqDef
<1>2. \A type \in {"processed", "complete", "verdict"} : Message(type, s) \in T
  BY DEF Message
<1>3. \A x \in T : <<x>> \in Seq(T)
  OBVIOUS
<1>4. \A x, y, z \in Seq(T) : x \o y \o z \in Seq(T)
  OBVIOUS
<1>5. /\ <<Message("processed", s)>> \in Seq(T) /\ << >> \in Seq(T)
      /\ <<Message("complete", s)>> \in Seq(T) /\ <<Message("verdict", s)>> \in Seq(T)
  BY <1>2, <1>3
<1>6. Append(inbox, Message("processed", s)) \in Seq(T)
  BY <1>1, <1>2
<1> HIDE DEF T
<1>7. inbox' \in Seq(T)
  <2>1. CASE ~Acceptable(s)
    BY <1>1, <1>4, <1>5, <2>1 DEF DecodeFrame
  <2>2. CASE Acceptable(s) /\ Ignored(s)
    BY <1>6, <2>2 DEF DecodeFrame
  <2>3. CASE Acceptable(s) /\ ~Ignored(s)
    BY <1>1, <1>4, <1>5, <2>3 DEF DecodeFrame
  <2> QED
    BY <2>1, <2>2, <2>3
<1>8. \A n \in 1 .. Len(inbox') : inbox'[n] \in T
  BY <1>7
<1>9. \A n \in 1 .. Len(inbox') : inbox'[n].stream \in Streams
  BY <1>8 DEF T
<1>10. UNCHANGED <<phase, part>>
  BY DEF DecodeFrame, page
<1> QED
  BY <1>9, <1>10 DEF PartsShown

LEMMA StepShown ==
  ASSUME Inv, PartsShown, [Next]_vars
  PROVE  PartsShown'
<1>1. CASE UNCHANGED vars
  BY <1>1, ShownStays DEF vars, page, pipeline
<1>2. CASE OnAnswer
  <2>1. \/ UNCHANGED <<phase, part, inbox>>
        \/ Park
        \/ phase' = "result" /\ ReleaseDecodeWorkers
        \/ FailTransfer
    BY <1>2 DEF OnAnswer, page, pipeline, Inv, PersistInv, TypesOK, Answers, LeakInv, OneAttempt
  <2> QED
    BY <2>1, ShownStays DEF Park, ResetReceiver, ReleaseDecodeWorkers, FailTransfer, Finishing
<1>3. CASE UserNext
  <2>1. CASE \E s \in Streams : Start(s) \/ Show(s) \/ \E n \in 1 .. Symbols : StartApng(s, n)
    BY <2>1, ShownStays DEF Start, Show, StartApng, pipeline, Finishing
  <2>2. CASE StartRefused \/ SourceEnds \/ SwitchMode
    BY <2>2, ShownStays
    DEF StartRefused, SourceEnds, SwitchMode, Retry, ReleaseDecodeWorkers, pipeline, Finishing
  <2>3. CASE Restart \/ Other \/ Unmount
    BY <2>3, ShownStays
    DEF Restart, Other, Unmount, Park, ResetReceiver, ReleaseDecodeWorkers, pipeline, Finishing
  <2>4. CASE Resize
    BY <2>4, ShownStays DEF Resize, page
  <2> QED
    BY <1>3, <2>1, <2>2, <2>3, <2>4 DEF UserNext
<1>4. CASE FaultNext
  <2>1. CASE \E w \in Workers : WorkerFails(w)
    BY <2>1, ShownStays DEF WorkerFails, Retry, ReleaseDecodeWorkers, Finishing
  <2>2. CASE FountainFails
    BY <2>2, ShownStays DEF FountainFails, Done, Retry, ReleaseDecodeWorkers, Finishing
  <2>3. CASE UnpackFails \/ CodecsFail
    BY <2>3, ShownStays
    DEF UnpackFails, CodecsFail, FailTransfer, ReleaseDecodeWorkers, Finishing
  <2>4. CASE AssemblerFails
    BY <2>4, ShownStays DEF AssemblerFails, page, pipeline
  <2> QED
    BY <1>4, <2>1, <2>2, <2>3, <2>4 DEF FaultNext
<1>5. CASE FountainNext
  <2>1. CASE StreamIdles
    BY <2>1, ShownStays DEF StreamIdles, page
  <2> QED
    BY <1>5, <2>1, DecodedShown DEF FountainNext
<1>6. CASE PageNext
  <2>1. CASE Started \/ SwitchDone
    BY <2>1, ShownStays
    DEF Started, SwitchDone, ResetReceiver, ReleaseDecodeWorkers, Finishing
  <2>2. CASE OnProcessed \/ OnVerdict
    BY <2>2, ShownStays DEF OnProcessed, OnVerdict, Retry, ReleaseDecodeWorkers, page, Finishing
  <2>3. CASE OnComplete
    <3>1. CASE UNCHANGED <<phase, part>>
      BY <2>3, <3>1, ShownStays DEF OnComplete
    <3>2. CASE phase' = "progress" /\ part' = Head(inbox).stream
      <4>1. /\ inbox \in Seq(Messages) /\ inbox # << >> /\ inbox' = Tail(inbox)
            /\ Len(inbox) \in Nat \ {0} /\ Len(inbox') = Len(inbox) - 1
            /\ \A n \in 1 .. Len(inbox') : inbox'[n] = inbox[n + 1]
        BY <2>3, HeadTailProperties, EmptySeq DEF OnComplete, Inv, PersistInv, TypesOK
      <4>2. Head(inbox) = inbox[1] /\ 1 \in 1 .. Len(inbox)
        BY <4>1
      <4> QED
        BY <3>2, <4>1, <4>2 DEF PartsShown
    <3> QED
      BY <2>3, <3>1, <3>2 DEF OnComplete
  <2>4. CASE ApngParsed \/ ApngDecoded \/ ApngRefused \/ RejectionDecoded
    BY <2>4, ShownStays
    DEF ApngParsed, ApngDecoded, ApngRefused, RejectionDecoded, Retry, ReleaseDecodeWorkers,
        pipeline, Finishing
  <2>5. CASE ApngRejected \/ Mismatched
    BY <2>5, ShownStays DEF ApngRejected, Mismatched, Park, ResetReceiver, Finishing
  <2>6. CASE ProgressShown \/ PoolIdle
    BY <2>6 DEF ProgressShown, PoolIdle, pipeline, PartsShown, Finishing
  <2>7. CASE ShowFile
    BY <2>7, ShownStays DEF ShowFile, ReleaseDecodeWorkers, Finishing
  <2>8. CASE Unpacked
    BY <2>8 DEF Unpacked, pipeline, PartsShown, Finishing
  <2>9. CASE AcceptPart
    BY <2>9 DEF AcceptPart, pipeline, PartsShown, Finishing
  <2> QED
    BY <1>6, <2>1, <2>2, <2>3, <2>4, <2>5, <2>6, <2>7, <2>8, <2>9 DEF PageNext
<1>7. CASE Assembles
  BY <1>7, ShownStays DEF Assembles, page, pipeline
<1>8. CASE \E w \in Workers : PoolNext(w)
  BY <1>8, ShownStays DEF PoolNext, Capture, ParseFrame, Forward, TaskComplete, page
<1> QED
  BY <1>1, <1>2, <1>3, <1>4, <1>5, <1>6, <1>7, <1>8 DEF Next

LEMMA SupersededPieces ==
  ASSUME NEW q \in Seq(Calls), Pieces(q)
  PROVE  Pieces(Superseded(q)) /\ CurrentLive(Superseded(q))
<1>1. \A n \in 1 .. Len(q) : Superseded(q)[n].part = q[n].part
  <2>1. DOMAIN q = 1 .. Len(q) /\ \A n \in 1 .. Len(q) : q[n] \in Calls
    OBVIOUS
  <2>2. \A c \in Calls : [c EXCEPT !.current = FALSE].part = c.part
    BY DEF Calls
  <2>3. \A n \in 1 .. Len(q) : Superseded(q)[n] = [q[n] EXCEPT !.current = FALSE]
    BY <2>1 DEF Superseded
  <2> QED
    BY <2>1, <2>2, <2>3
<1> QED
  BY <1>1, SupersededQueue DEF Pieces, CurrentLive

LEMMA ResettingPieces ==
  ASSUME NEW q \in Seq(Calls), Pieces(q), attached \in BOOLEAN
  PROVE  Pieces(Resetting(q)) /\ (NoCurrent(q) => CurrentLive(Resetting(q)))
<1> DEFINE r == [n \in 1 .. Len(q) |-> [q[n] EXCEPT !.live = FALSE]]
<1>1. DOMAIN q = 1 .. Len(q) /\ Len(q) \in Nat /\ \A n \in 1 .. Len(q) : q[n] \in Calls
  OBVIOUS
<1>2. \A c \in Calls : /\ [c EXCEPT !.live = FALSE] \in Calls
                       /\ [c EXCEPT !.live = FALSE].part = c.part
  BY DEF Calls
<1>3. Resetting(q) = r \o (IF attached THEN <<Dispose>> ELSE << >>)
  BY <1>1 DEF Resetting
<1>4. r \in Seq(Calls) /\ Len(r) = Len(q)
  BY <1>1, <1>2
<1>5. \A n \in 1 .. Len(q) : r[n].part = q[n].part
  BY <1>1, <1>2
<1>6. Dispose \in Calls /\ Dispose.op # "accept" /\ ~Dispose.current
  BY DEF Dispose, Calls, Parts
<1> HIDE DEF r
<1>7. \A n \in 1 .. Len(q) : Resetting(q)[n] = r[n]
  BY <1>1, <1>3, <1>4, <1>6
<1> QED
  BY <1>1, <1>5, <1>6, <1>7, ResettingQueue DEF Pieces, CurrentLive, NoCurrent

\* A step of the page leaves to the assembler what it has and what it has to do.
LEMMA PageKeepsCalls ==
  ASSUME CallsAreLive, Completes, assembly' = assembly, answer' = NoAnswer,
         work'.pc = work.pc, work'.part = work.part,
         Pieces(queue'), CurrentLive(queue'), attached' => attached,
         work'.current => attached' \/ work.pc = "settle"
  PROVE  CallsAreLive' /\ Completes'
BY DEF CallsAreLive, Completes, NoAnswer

LEMMA KeepsCalls ==
  ASSUME Inv, CallsAreLive, Completes, Keeps
  PROVE  CallsAreLive' /\ Completes'
<1>1. /\ assembly' = assembly /\ answer' = NoAnswer /\ UNCHANGED <<attached, queue, work>>
  BY DEF Keeps, Frame
<1> QED
  BY <1>1, PageKeepsCalls DEF CallsAreLive

LEMMA SupersedesCalls ==
  ASSUME Inv, CallsAreLive, Completes, Supersedes
  PROVE  CallsAreLive' /\ Completes'
<1>1. /\ assembly' = assembly /\ answer' = NoAnswer /\ attached' = attached
      /\ queue' = Superseded(queue) /\ work' = [work EXCEPT !.current = FALSE]
  BY DEF Supersedes, SupersedeAttempt, Frame
<1>2. work'.pc = work.pc /\ work'.part = work.part /\ ~work'.current
  BY <1>1, SupersededWork DEF Inv, PersistInv, TypesOK
<1>3. Pieces(queue') /\ CurrentLive(queue')
  BY <1>1, SupersededPieces DEF CallsAreLive, Inv, PersistInv, TypesOK
<1> QED
  BY <1>1, <1>2, <1>3, PageKeepsCalls

LEMMA ForgetsCalls ==
  ASSUME Inv, CallsAreLive, Completes, Forgets
  PROVE  CallsAreLive' /\ Completes'
<1>1. /\ assembly' = assembly /\ answer' = NoAnswer /\ attached' = FALSE
      /\ queue' = Superseded(Resetting(queue)) /\ work' = [work EXCEPT !.current = FALSE]
  BY DEF Forgets, ForgetParts, Frame
<1>2. work'.pc = work.pc /\ work'.part = work.part /\ ~work'.current
  BY <1>1, SupersededWork DEF Inv, PersistInv, TypesOK
<1>3. queue \in Seq(Calls) /\ attached \in BOOLEAN /\ Resetting(queue) \in Seq(Calls)
  BY ResettingQueue DEF Inv, PersistInv, TypesOK
<1>4. Pieces(queue') /\ CurrentLive(queue')
  BY <1>1, <1>3, SupersededPieces, ResettingPieces DEF CallsAreLive
<1> QED
  BY <1>1, <1>2, <1>4, PageKeepsCalls

LEMMA ResetsCalls ==
  ASSUME Inv, CallsAreLive, Completes, Resets
  PROVE  CallsAreLive' /\ Completes'
<1>1. /\ assembly' = assembly /\ answer' = NoAnswer /\ attached' = FALSE
      /\ queue' = Resetting(queue) /\ work' = work /\ NoCurrent(queue) /\ ~work.current
  BY DEF Resets, ResetParts, Frame
<1>2. Pieces(queue') /\ CurrentLive(queue')
  BY <1>1, ResettingPieces DEF CallsAreLive, Inv, PersistInv, TypesOK
<1> QED
  BY <1>1, <1>2, PageKeepsCalls

LEMMA AcceptPartCalls ==
  ASSUME Inv, KeptInv, AcceptPart
  PROVE  CallsAreLive' /\ Completes'
<1>1. /\ phase = "preparing" /\ queue' = Append(queue, Accept(part))
      /\ UNCHANGED <<assembly, attached, work, answer, faults>>
  BY DEF AcceptPart
<1>2. Piece(part)
  <2>1. part \in Streams /\ part.index # Standalone
    BY <1>1 DEF KeptInv, PartsShown, Finishing
  <2> QED
    BY <2>1, AssemblerAssumption DEF Piece
<1>3. Accept(part).part = part /\ Accept(part).live
  BY DEF Accept
<1>4. /\ Len(queue) \in Nat /\ Len(queue') = Len(queue) + 1
      /\ queue'[Len(queue) + 1] = Accept(part)
      /\ \A n \in 1 .. Len(queue) : queue'[n] = queue[n]
  <2>1. queue \in Seq(Calls)
    BY DEF Inv, PersistInv, TypesOK
  <2> QED
    BY <1>1, <2>1
<1> HIDE DEF Accept
<1>5. Pieces(queue') /\ CurrentLive(queue')
  BY <1>2, <1>3, <1>4 DEF KeptInv, CallsAreLive, Pieces, CurrentLive
<1> QED
  BY <1>1, <1>5 DEF KeptInv, CallsAreLive, Completes

LEMMA OnAnswerCalls ==
  ASSUME Inv, KeptInv, OnAnswer
  PROVE  CallsAreLive' /\ Completes'
<1>1. /\ answer' = NoAnswer /\ assembly' = assembly /\ work.pc = "idle" /\ ~work.current
      /\ queue \in Seq(Calls) /\ attached \in BOOLEAN /\ work \in Jobs
      /\ answer.kind \in {"none", "more", "mismatch", "stored", "failed"}
      /\ Pieces(queue) /\ CurrentLive(queue) /\ CallsAreLive /\ Completes
  BY DEF OnAnswer, Inv, PersistInv, TypesOK, LeakInv, OneAttempt, Answers, KeptInv, CallsAreLive
<1>2. CASE ~answer.current
  <2>1. UNCHANGED <<queue, work, attached>>
    BY <1>2 DEF OnAnswer
  <2> QED
    BY <1>1, <2>1, PageKeepsCalls
<1>3. CASE answer.current /\ answer.kind \in {"more", "mismatch"}
  <2>1. /\ queue' = Superseded(queue) /\ work' = [work EXCEPT !.current = FALSE]
        /\ attached' = attached
    BY <1>3 DEF OnAnswer, SupersedeAttempt
  <2>2. work'.pc = work.pc /\ work'.part = work.part /\ ~work'.current
    BY <1>1, <2>1, SupersededWork
  <2>3. Pieces(queue') /\ CurrentLive(queue')
    BY <1>1, <2>1, SupersededPieces
  <2> QED
    BY <1>1, <2>1, <2>2, <2>3, PageKeepsCalls
<1>4. CASE answer.current /\ answer.kind \in {"stored", "failed"}
  <2>1. queue' = Resetting(queue) /\ attached' = FALSE /\ work' = work
    BY <1>4 DEF OnAnswer, ResetParts, FailTransfer
  <2>2. NoCurrent(queue)
    BY <1>4 DEF Inv, LeakInv, OneAttempt, NoAccept, NoCurrent
  <2>3. Pieces(queue') /\ CurrentLive(queue')
    BY <1>1, <2>1, <2>2, ResettingPieces
  <2> QED
    BY <1>1, <2>1, <2>3, PageKeepsCalls
<1>5. answer.current => answer.kind # "none"
  BY DEF Inv, LeakInv, OneAttempt
<1> QED
  BY <1>1, <1>2, <1>3, <1>4, <1>5

\* What is kept grows, unless the result is deleted or the assembly ends.
LEMMA KeptGrows ==
  ASSUME Completes, attached \in BOOLEAN,
         Result \in disk => Result \in disk',
         \/ Result \in disk' \/ ~attached
         \/ attached' /\ assembly.received \subseteq assembly'.received
  PROVE  Kept \subseteq Kept'
<1>1. attached => assembly.received \subseteq 0 .. Count - 1
  BY DEF Completes
<1>2. ~attached => Current.received = {}
  BY DEF Current, NoAssembly
<1>3. attached => Current = assembly
  BY DEF Current
<1>4. attached' => Current' = assembly'
  BY DEF Current
<1> QED
  BY <1>1, <1>2, <1>3, <1>4 DEF Kept

LEMMA KeptStays ==
  ASSUME UNCHANGED <<attached, assembly>>, Result \in disk <=> Result \in disk'
  PROVE  Kept \subseteq Kept'
BY DEF Kept, Current

\* The accept() that runs: it goes on, ends, or fails as it has been reset.
LEMMA AwaitingKept ==
  ASSUME Inv, KeptInv, answer = NoAnswer, UNCHANGED <<queue, faults>>,
         attached, work.pc \notin {"idle", "settle"}, NEW a, NEW files,
         NEW pc \in {"append", "flush", "close", "finish"}, Awaits(work, pc, a, files),
         a.id = assembly.id, a.name = assembly.name,
         assembly.received \subseteq a.received, a.received \subseteq 0 .. Count - 1,
         pc # "flush" => a.next \notin a.pending,
         pc = "close" => work.part.index # a.next,
         pc = "finish" => a.next = Count
  PROVE  CallsAreLive' /\ Completes' /\ Kept \subseteq Kept'
<1>1. work \in Jobs /\ attached \in BOOLEAN
  BY DEF Inv, PersistInv, TypesOK
<1>2. /\ assembly' = a /\ attached' = TRUE /\ UNCHANGED answer
      /\ work'.pc = pc /\ work'.part = work.part
  BY <1>1 DEF Awaits, Jobs
<1>3. Result \notin disk
  BY WorkingFiles, ResultIsNotHeld, FilesDiffer
<1>4. CallsAreLive'
  BY <1>2 DEF KeptInv, CallsAreLive, NoAnswer
<1>5. Completes'
  BY <1>2 DEF KeptInv, Completes
<1> QED
  BY <1>1, <1>2, <1>3, <1>4, <1>5, KeptGrows DEF KeptInv

LEMMA DetachedKept ==
  ASSUME Inv, KeptInv, answer = NoAnswer, UNCHANGED <<queue, faults>>,
         ~attached, work.pc \notin {"idle", "settle"}, NEW a, NEW files, Fails(work, a, files)
  PROVE  CallsAreLive' /\ Completes' /\ Kept \subseteq Kept'
<1>1. ~work.current
  BY DEF KeptInv, CallsAreLive
<1>2. /\ attached' = FALSE /\ work' = Idle
      /\ answer' = [kind |-> "failed", current |-> work.current]
  BY DEF Fails, Ends
<1>3. Result \notin disk
  BY WorkingFiles, ResultIsNotHeld, FilesDiffer
<1>4. CallsAreLive' /\ Completes'
  BY <1>1, <1>2 DEF KeptInv, CallsAreLive, Completes, Idle
<1> QED
  BY <1>3, <1>4, KeptGrows DEF KeptInv, Inv, PersistInv, TypesOK

LEMMA AcceptedKept ==
  ASSUME Inv, KeptInv, answer = NoAnswer, UNCHANGED <<queue, faults>>,
         attached, work.pc \notin {"idle", "settle"}, NEW a \in Assemblies, NEW files,
         Accepted(work, a, files), a.id = assembly.id, a.name = assembly.name,
         a.received = assembly.received, InOrder(a),
         a.received \cup {work.part.index} = PartsOf(a), a.next \notin a.pending
  PROVE  CallsAreLive' /\ Completes' /\ Kept \subseteq Kept'
<1> DEFINE got == [a EXCEPT !.received = @ \cup {work.part.index}]
<1>1. /\ got.id = a.id /\ got.name = a.name /\ got.next = a.next /\ got.pending = a.pending
      /\ got.received = a.received \cup {work.part.index}
      /\ a.next \in Nat /\ a.pending \subseteq Int
  BY DEF Assemblies
<1> HIDE DEF got
<1>2. Count \in Nat \ {0} /\ attached \in BOOLEAN
  BY AssemblerAssumption DEF Inv, PersistInv, TypesOK
<1>3. got.received \subseteq 0 .. Count - 1 /\ got.received = PartsOf(a)
  BY <1>1 DEF KeptInv, CallsAreLive, Completes, Piece
<1>4. Result \notin disk
  BY WorkingFiles, ResultIsNotHeld, FilesDiffer
<1>5. \/ /\ Cardinality(got.received) < Count
         /\ assembly' = got /\ UNCHANGED attached /\ Ends(work, "more")
      \/ ~(Cardinality(got.received) < Count) /\ Complete(got) /\ Awaits(work, "finish", got, files)
      \/ ~(Cardinality(got.received) < Count) /\ ~Complete(got)
  BY DEF Accepted, got
<1>6. CASE assembly' = got /\ UNCHANGED attached /\ Ends(work, "more")
  <2>1. work' = Idle /\ Idle.pc = "idle" /\ ~Idle.current /\ answer'.kind = "more"
    BY <1>6 DEF Ends, Idle
  <2>2. CallsAreLive'
    BY <2>1 DEF KeptInv, CallsAreLive
  <2>3. Completes'
    BY <1>1, <1>3, <1>6, <2>1 DEF KeptInv, Completes
  <2> QED
    BY <1>1, <1>2, <1>4, <1>6, <2>2, <2>3, KeptGrows DEF KeptInv
<1>7. CASE Complete(got) /\ Awaits(work, "finish", got, files)
  BY <1>1, <1>3, <1>7, AwaitingKept DEF Complete
<1>8. ASSUME ~(Cardinality(got.received) < Count)
      PROVE  Complete(got)
  <2>1. IsFiniteSet(0 .. Count - 1) /\ Cardinality(0 .. Count - 1) = Count
    BY <1>2, FS_Interval
  <2>2. /\ got.received \in SUBSET (0 .. Count - 1) /\ IsFiniteSet(got.received)
        /\ Cardinality(got.received) \in Nat /\ Cardinality(got.received) <= Count
    BY <1>3, <2>1, FS_Subset, FS_CardinalityType
  <2>3. Cardinality(got.received) = Cardinality(0 .. Count - 1)
    BY <1>2, <1>8, <2>1, <2>2
  <2>4. PartsOf(a) = 0 .. Count - 1
    BY <1>3, <2>1, <2>2, <2>3, FS_Subset
  <2>5. a.next \notin PartsOf(a)
    BY <1>1 DEF PartsOf
  <2>6. a.next >= Count
    BY <1>1, <1>2, <2>4, <2>5
  <2>7. a.next <= Count
    <3>1. a.next > Count => Count \in 0 .. a.next - 1
      BY <1>1, <1>2
    <3>2. 0 .. a.next - 1 \subseteq PartsOf(a)
      BY DEF PartsOf
    <3>3. Count \notin 0 .. Count - 1
      BY <1>2
    <3> QED
      BY <1>1, <1>2, <2>4, <3>1, <3>2, <3>3
  <2>8. a.next = Count
    BY <1>1, <1>2, <2>6, <2>7
  <2>9. a.pending \subseteq 0 .. a.next - 1
    BY <2>4, <2>8 DEF PartsOf
  <2> QED
    BY <1>1, <2>8, <2>9 DEF InOrder, Complete
<1> QED
  BY <1>5, <1>6, <1>7, <1>8

LEMMA ContinuesKept ==
  ASSUME Inv, KeptInv, answer = NoAnswer, UNCHANGED <<queue, faults>>,
         attached, work.pc \notin {"idle", "settle"}, NEW a \in Assemblies, NEW files,
         Continues(work, a, files), a.id = assembly.id, a.name = assembly.name,
         a.received = assembly.received, InOrder(a),
         a.received \cup {work.part.index} = PartsOf(a)
  PROVE  CallsAreLive' /\ Completes' /\ Kept \subseteq Kept'
<1>1. CASE a.next \in a.pending
  <2>1. Awaits(work, "flush", a, files)
    BY <1>1 DEF Continues
  <2>2. a.received \subseteq 0 .. Count - 1
    BY DEF KeptInv, Completes
  <2> QED
    BY <2>1, <2>2, AwaitingKept
<1>2. CASE a.next \notin a.pending
  BY <1>2, AcceptedKept DEF Continues
<1> QED
  BY <1>1, <1>2

LEMMA AppendedName ==
  ASSUME NEW a \in Assemblies
  PROVE  Appended(a).id = a.id /\ Appended(a).name = a.name
BY DEF Appended, Assemblies

LEMMA OutputCreatedKept ==
  ASSUME Inv, KeptInv, answer = NoAnswer, OutputCreated
  PROVE  CallsAreLive' /\ Completes' /\ Kept \subseteq Kept'
<1>1. /\ work.pc = "create" /\ UNCHANGED <<queue, faults>> /\ assembly \in Assemblies
      /\ attached \in BOOLEAN
  BY DEF OutputCreated, Working, Inv, PersistInv, TypesOK
<1>2. CASE attached
  <2> DEFINE a == [assembly EXCEPT !.out = TRUE]
  <2>1. /\ a.id = assembly.id /\ a.name = assembly.name /\ a.received = assembly.received
        /\ a.next = assembly.next /\ a.pending = assembly.pending
    BY <1>1 DEF Assemblies
  <2> HIDE DEF a
  <2>2. Awaits(work, "append", a, disk \cup {Output})
    BY <1>2 DEF OutputCreated, a
  <2>3. assembly.received \subseteq 0 .. Count - 1 /\ assembly.next \notin assembly.pending
    BY <1>1, <1>2 DEF KeptInv, Completes
  <2> QED
    BY <1>1, <1>2, <2>1, <2>2, <2>3, AwaitingKept
<1>3. CASE ~attached
  BY <1>1, <1>3, DetachedKept DEF OutputCreated
<1> QED
  BY <1>1, <1>2, <1>3

LEMMA PartAppendedKept ==
  ASSUME Inv, KeptInv, answer = NoAnswer, PartAppended
  PROVE  CallsAreLive' /\ Completes' /\ Kept \subseteq Kept'
<1>1. work.pc = "append" /\ UNCHANGED <<queue, faults>> /\ attached \in BOOLEAN
  BY DEF PartAppended, Working, Inv, PersistInv, TypesOK
<1>2. CASE attached
  <2> DEFINE a == Appended(assembly)
  <2>1. /\ assembly \in Assemblies /\ InOrder(assembly)
        /\ assembly.received = PartsOf(assembly) /\ work.part.index = assembly.next
        /\ assembly.next \notin assembly.received
    BY <1>1, <1>2 DEF Inv, PersistInv, TypesOK, Consistent
  <2>2. a.received \cup {work.part.index} = PartsOf(a)
    BY <2>1, AppendedParts DEF PartsOf
  <2>3. a \in Assemblies /\ a.received = assembly.received
    BY <2>1, AppendedParts
  <2>4. InOrder(a)
    <3>1. assembly.next \notin assembly.pending
      BY <2>1 DEF PartsOf
    <3> QED
      BY <2>1, <3>1, AppendedParts DEF InOrder
  <2>5. a.id = assembly.id /\ a.name = assembly.name
    BY <2>1, AppendedName
  <2> HIDE DEF a
  <2>6. Continues(work, a, disk)
    BY <1>2 DEF PartAppended, a
  <2> QED
    BY <1>1, <1>2, <2>2, <2>3, <2>4, <2>5, <2>6, ContinuesKept
<1>3. CASE ~attached
  BY <1>1, <1>3, DetachedKept DEF PartAppended
<1> QED
  BY <1>1, <1>2, <1>3

LEMMA PartFlushedKept ==
  ASSUME Inv, KeptInv, answer = NoAnswer, PartFlushed
  PROVE  CallsAreLive' /\ Completes' /\ Kept \subseteq Kept'
<1>1. work.pc = "flush" /\ UNCHANGED <<queue, faults>> /\ attached \in BOOLEAN
  BY DEF PartFlushed, Working, Inv, PersistInv, TypesOK
<1>2. CASE attached
  <2> DEFINE b == Appended(assembly)
             a == [b EXCEPT !.pending = @ \ {assembly.next}]
  <2>1. /\ assembly \in Assemblies /\ InOrder(assembly)
        /\ assembly.received \cup {work.part.index} = PartsOf(assembly)
        /\ assembly.next \in assembly.pending
    BY <1>1, <1>2 DEF Inv, PersistInv, TypesOK, Consistent
  <2>2. b \in Assemblies /\ b.id = assembly.id /\ b.name = assembly.name
    BY <2>1, AppendedParts, AppendedName
  <2>3. /\ b.next = assembly.next + 1 /\ b.pending = assembly.pending
        /\ b.received = assembly.received
        /\ b.written = [n \in 1 .. assembly.next + 1 |-> n - 1]
        /\ 0 .. b.next - 1 = (0 .. assembly.next - 1) \cup {assembly.next}
    BY <2>1, AppendedParts
  <2> HIDE DEF b
  <2>4. /\ a \in Assemblies /\ a.id = b.id /\ a.name = b.name /\ a.received = b.received
        /\ a.next = b.next /\ a.written = b.written
        /\ a.pending = assembly.pending \ {assembly.next}
    BY <2>2, <2>3 DEF Assemblies
  <2> HIDE DEF a
  <2>5. a.received \cup {work.part.index} = PartsOf(a)
    BY <2>1, <2>3, <2>4 DEF PartsOf
  <2>6. InOrder(a)
    BY <2>1, <2>3, <2>4 DEF InOrder
  <2>7. Continues(work, a, disk \ {Staged(assembly.next)})
    BY <1>2 DEF PartFlushed, a, b
  <2> QED
    BY <1>1, <1>2, <2>2, <2>3, <2>4, <2>5, <2>6, <2>7, ContinuesKept
<1>3. CASE ~attached
  BY <1>1, <1>3, DetachedKept DEF PartFlushed
<1> QED
  BY <1>1, <1>2, <1>3

LEMMA StageCreatedKept ==
  ASSUME Inv, KeptInv, answer = NoAnswer, StageCreated
  PROVE  CallsAreLive' /\ Completes' /\ Kept \subseteq Kept'
<1>1. work.pc = "stage" /\ UNCHANGED <<queue, faults>> /\ attached \in BOOLEAN
  BY DEF StageCreated, Working, Inv, PersistInv, TypesOK
<1>2. CASE attached
  <2>1. Awaits(work, "close", assembly, disk \cup {Staged(work.part.index)})
    BY <1>2 DEF StageCreated
  <2>2. /\ assembly.received \subseteq 0 .. Count - 1 /\ assembly.next \notin assembly.pending
        /\ work.part.index # assembly.next
    BY <1>1, <1>2 DEF KeptInv, Completes
  <2> QED
    BY <1>1, <1>2, <2>1, <2>2, AwaitingKept
<1>3. CASE ~attached
  BY <1>1, <1>3, DetachedKept DEF StageCreated
<1> QED
  BY <1>1, <1>2, <1>3

LEMMA StageClosedKept ==
  ASSUME Inv, KeptInv, answer = NoAnswer, StageClosed
  PROVE  CallsAreLive' /\ Completes' /\ Kept \subseteq Kept'
<1>1. /\ work.pc = "close" /\ UNCHANGED <<queue, faults>> /\ attached \in BOOLEAN
      /\ work.part.index \in Int
  BY PartTypes DEF StageClosed, Working, Inv, PersistInv, TypesOK, Jobs
<1>2. CASE attached
  <2> DEFINE a == [assembly EXCEPT !.pending = @ \cup {work.part.index}]
  <2>1. /\ assembly \in Assemblies /\ InOrder(assembly)
        /\ assembly.received = PartsOf(assembly) /\ work.part.index \notin assembly.received
    BY <1>1, <1>2 DEF Inv, PersistInv, TypesOK, Consistent
  <2>2. /\ a \in Assemblies /\ a.id = assembly.id /\ a.name = assembly.name
        /\ a.received = assembly.received /\ a.next = assembly.next
        /\ a.written = assembly.written
        /\ a.pending = assembly.pending \cup {work.part.index}
    BY <1>1, <2>1 DEF Assemblies
  <2> HIDE DEF a
  <2>3. a.received \cup {work.part.index} = PartsOf(a) /\ InOrder(a)
    BY <2>1, <2>2 DEF PartsOf, InOrder
  <2>4. a.next \notin a.pending
    BY <1>1, <1>2, <2>2 DEF KeptInv, Completes
  <2>5. Accepted(work, a, disk)
    BY <1>2 DEF StageClosed, a
  <2> QED
    BY <1>1, <1>2, <2>2, <2>3, <2>4, <2>5, AcceptedKept
<1>3. CASE ~attached
  BY <1>1, <1>3, DetachedKept DEF StageClosed
<1> QED
  BY <1>1, <1>2, <1>3

LEMMA FinishedKept ==
  ASSUME Inv, KeptInv, answer = NoAnswer, Finished
  PROVE  CallsAreLive' /\ Completes' /\ Kept \subseteq Kept'
<1>1. /\ work.pc = "finish" /\ UNCHANGED <<queue, faults>> /\ attached \in BOOLEAN
      /\ work \in Jobs
  BY DEF Finished, Working, Inv, PersistInv, TypesOK
<1>2. CASE attached
  <2>1. assembly.written = [n \in 1 .. Count |-> n - 1]
    BY <1>1, <1>2 DEF Inv, PersistInv, Consistent, InOrder, KeptInv, Completes
  <2>2. /\ attached' = FALSE /\ disk' = (disk \ {Output}) \cup {Result}
        /\ work' = [work EXCEPT !.pc = "settle"] /\ UNCHANGED answer
    BY <1>2, <2>1 DEF Finished
  <2>3. work'.pc = "settle" /\ work'.part = work.part
    BY <1>1, <2>2 DEF Jobs
  <2>4. CallsAreLive' /\ Completes'
    BY <1>1, <2>2, <2>3 DEF KeptInv, CallsAreLive, Completes
  <2> QED
    BY <1>1, <2>2, <2>4, KeptGrows DEF KeptInv
<1>3. CASE ~attached
  BY <1>1, <1>3, DetachedKept DEF Finished
<1> QED
  BY <1>1, <1>2, <1>3

LEMMA SettledKept ==
  ASSUME Inv, KeptInv, answer = NoAnswer, Settled
  PROVE  CallsAreLive' /\ Completes' /\ Kept \subseteq Kept'
<1>1. /\ UNCHANGED <<queue, faults, assembly, attached, disk>>
      /\ work' = Idle /\ answer'.kind = "stored"
  BY DEF Settled, Working, Ends
<1>2. CallsAreLive'
  BY <1>1 DEF KeptInv, CallsAreLive, Idle
<1>3. Completes'
  BY <1>1 DEF KeptInv, Completes, Idle, Settled, Working
<1> QED
  BY <1>1, <1>2, <1>3, KeptStays

LEMMA DiskFailsKept ==
  ASSUME Inv, KeptInv, answer = NoAnswer, DiskFails
  PROVE  CallsAreLive' /\ Completes' /\ faults' > 0
<1>1. /\ faults \in Nat /\ faults' = faults + 1 /\ UNCHANGED queue
      /\ attached' = FALSE /\ work' = Idle
  BY DEF DiskFails, Fails, Ends, KeptInv
<1> QED
  BY <1>1 DEF KeptInv, CallsAreLive, Completes, Idle

\* The next call: an accept() that is refused has been reset, and a part of a transfer
\* has the name of the others.
LEMMA StartWorkKept ==
  ASSUME Inv, KeptInv, OneName, answer = NoAnswer, StartWork
  PROVE  CallsAreLive' /\ Completes' /\ Kept \subseteq Kept'
<1> DEFINE call == Head(queue)
           job == [Idle EXCEPT !.part = call.part, !.current = call.current]
           a == IF attached THEN assembly ELSE Begun(job.part)
           i == job.part.index
<1>1. /\ work = Idle /\ queue # << >> /\ queue' = Tail(queue) /\ UNCHANGED faults
      /\ queue \in Seq(Calls) /\ attached \in BOOLEAN /\ work.pc = "idle"
  BY DEF StartWork, Inv, PersistInv, TypesOK, Idle
<1>2. /\ call \in Calls /\ Len(queue) \in Nat \ {0}
      /\ Len(queue') = Len(queue) - 1 /\ call = queue[1]
      /\ \A n \in 1 .. Len(queue') : queue'[n] = queue[n + 1]
  BY <1>1, HeadTailProperties, EmptySeq
<1>3. Pieces(queue) /\ CurrentLive(queue) /\ Completes
  BY DEF KeptInv, CallsAreLive
<1>4. 1 \in 1 .. Len(queue) /\ \A n \in 1 .. Len(queue') : n + 1 \in 1 .. Len(queue)
  BY <1>2
<1>5. /\ Pieces(queue') /\ CurrentLive(queue')
      /\ call.op = "accept" => Piece(call.part)
      /\ call.current => call.live
  BY <1>2, <1>3, <1>4 DEF Pieces, CurrentLive
<1>6. /\ job.part = call.part /\ job.current = call.current
      /\ \A pc : /\ [job EXCEPT !.pc = pc].pc = pc /\ [job EXCEPT !.pc = pc].part = job.part
  BY DEF Idle
<1>7. attached => call.op # "dispose"
  BY <1>2, <1>4 DEF Inv, PersistInv, DisposalsFirst, NoDisposal
<1>8. /\ call.op = "accept" => a.received \subseteq 0 .. Count - 1 /\ a.next \notin a.pending
      /\ call.op = "accept" => \E s \in Streams : a.id = s.id /\ a.name = s.name
      /\ attached => a = assembly
  <2>1. ~attached => /\ a.id = call.part.id /\ a.name = call.part.name
                     /\ a.received = {} /\ a.pending = {}
    BY <1>6 DEF Begun, NoAssembly
  <2>2. attached => a = assembly
    OBVIOUS
  <2> HIDE DEF a
  <2>3. call.op = "accept" => call.part \in Streams
    BY <1>5 DEF Piece
  <2>4. attached => /\ assembly.received \subseteq 0 .. Count - 1
                    /\ assembly.next \notin assembly.pending
                    /\ \E s \in Streams : assembly.id = s.id /\ assembly.name = s.name
    BY <1>1, <1>3 DEF Completes
  <2> QED
    BY <1>1, <2>1, <2>2, <2>3, <2>4
<1>9. call.op = "accept" /\ Compatible(job.part) => job.part.name = a.name
  <2>1. SUFFICES ASSUME call.op = "accept", Compatible(job.part)
                 PROVE  job.part.name = a.name
    OBVIOUS
  <2>2. job.part \in Streams
    BY <1>5, <1>6, <2>1 DEF Piece
  <2>3. CASE attached
    <3>1. PICK s \in Streams : assembly.id = s.id /\ assembly.name = s.name
      BY <1>3, <2>3 DEF Completes
    <3>2. assembly # NoAssembly
      BY <3>1, AssemblerAssumption DEF NoAssembly, NoStream
    <3>3. job.part.id = assembly.id
      BY <2>1, <2>3, <3>2 DEF Compatible, Current
    <3> QED
      BY <2>2, <2>3, <3>1, <3>3 DEF OneName
  <2>4. CASE ~attached
    BY <2>4 DEF Begun, NoAssembly
  <2> QED
    BY <2>3, <2>4
<1>10. \/ /\ call.op = "dispose" /\ disk' = disk \ Held(assembly)
          /\ UNCHANGED <<attached, work, answer>>
       \/ /\ UNCHANGED <<assembly, attached, disk>>
          /\ \/ ~call.live /\ Ends(job, "failed")
             \/ Ends(job, "mismatch") \/ Ends(job, "more")
       \/ /\ call.op = "accept" /\ Compatible(job.part) /\ job.part.name # a.name
       \/ call.op = "accept" /\ i # a.next /\ Awaits(job, "stage", a, disk)
       \/ call.op = "accept" /\ \E pc \in {"create", "append"} : Awaits(job, pc, a, disk)
  BY DEF StartWork
<1> HIDE DEF call, job, a
<1>11. CASE /\ call.op = "dispose" /\ disk' = disk \ Held(assembly)
            /\ UNCHANGED <<attached, work, answer>>
  <2>1. ~attached
    BY <1>7, <1>11
  <2>2. CallsAreLive' /\ Completes'
    BY <1>1, <1>5, <1>11, <2>1 DEF KeptInv, CallsAreLive, Completes
  <2>3. Result \in disk => Result \in disk'
    BY <1>11, ResultIsNotHeld
  <2> QED
    BY <1>1, <1>3, <2>1, <2>2, <2>3, KeptGrows
<1>12. CASE /\ UNCHANGED <<assembly, attached, disk>>
            /\ \/ ~call.live /\ Ends(job, "failed")
               \/ Ends(job, "mismatch") \/ Ends(job, "more")
  <2>1. work' = Idle /\ work' = work /\ (answer'.current /\ answer'.kind = "failed" => FALSE)
    BY <1>1, <1>5, <1>6, <1>12 DEF Ends
  <2>2. CallsAreLive'
    BY <1>1, <1>5, <1>12, <2>1 DEF KeptInv, CallsAreLive
  <2>3. Completes'
    BY <1>12, <2>1 DEF KeptInv, Completes
  <2> QED
    BY <1>12, <2>2, <2>3, KeptStays
<1>13. ASSUME call.op = "accept",
              NEW pc \in {"stage", "create", "append"}, Awaits(job, pc, a, disk),
              pc = "stage" => i # a.next
       PROVE  CallsAreLive' /\ Completes' /\ Kept \subseteq Kept'
  <2>1. /\ assembly' = a /\ attached' = TRUE /\ disk' = disk /\ UNCHANGED answer
        /\ work'.pc = pc /\ work'.part = job.part
    BY <1>6, <1>13 DEF Awaits
  <2>2. CallsAreLive'
    BY <1>5, <1>6, <1>13, <2>1 DEF KeptInv, CallsAreLive, NoAnswer
  <2>3. Completes'
    BY <1>8, <1>13, <2>1 DEF Completes, i
  <2> QED
    BY <1>1, <1>3, <1>8, <2>1, <2>2, <2>3, KeptGrows
<1> QED
  BY <1>9, <1>10, <1>11, <1>12, <1>13

LEMMA WorksKept ==
  ASSUME Inv, KeptInv, OneName, answer = NoAnswer, Works
  PROVE  CallsAreLive' /\ Completes' /\ Kept \subseteq Kept'
BY StartWorkKept, OutputCreatedKept, PartAppendedKept, PartFlushedKept, StageCreatedKept,
   StageClosedKept, FinishedKept, SettledKept
DEF Works

\* The caller of accept(): only the one that was superseded, and a failure, lose a part.
LEMMA OnAnswerKept ==
  ASSUME Inv, KeptInv, OnAnswer, ~holding,
         ~(answer.kind = "stored" /\ ~answer.current)
  PROVE  Kept \subseteq Kept' \/ faults' > 0
<1>1. /\ assembly' = assembly /\ UNCHANGED faults
      /\ answer.kind \in {"none", "more", "mismatch", "stored", "failed"}
      /\ answer.current => answer.kind # "none"
      /\ answer.current /\ answer.kind = "failed" => faults > 0
  BY DEF OnAnswer, Inv, PersistInv, TypesOK, Answers, LeakInv, OneAttempt, KeptInv, CallsAreLive
<1>2. CASE ~answer.current
  <2>1. UNCHANGED <<attached, disk>>
    BY <1>2 DEF OnAnswer
  <2> QED
    BY <1>1, <2>1, KeptStays
<1>3. CASE answer.current /\ answer.kind \in {"more", "mismatch"}
  <2>1. UNCHANGED <<attached, disk>>
    BY <1>3 DEF OnAnswer, Park, ResetReceiver, ReleaseFile
  <2> QED
    BY <1>1, <2>1, KeptStays
<1>4. CASE answer.current /\ answer.kind = "stored"
  <2>1. disk' = disk
    BY <1>4 DEF OnAnswer
  <2>2. Result \in disk
    BY <1>4 DEF Inv, LeakInv, Owned
  <2> QED
    BY <1>1, <2>1, <2>2, KeptGrows DEF KeptInv, Inv, PersistInv, TypesOK
<1>5. CASE answer.current /\ answer.kind = "failed"
  <2>1. faults > 0 /\ faults' = faults
    BY <1>1, <1>5
  <2> QED
    BY <2>1
<1> QED
  BY <1>1, <1>2, <1>3, <1>4, <1>5

\* What the property allows to be lost.
MayLose ==
  \/ faults' > 0
  \/ holding \/ Other \/ phase' = "gone"
  \/ answer.kind = "stored" /\ ~answer.current

LEMMA FaultsGrow ==
  ASSUME faults \in Nat, [Next]_vars
  PROVE  faults' \in Nat /\ faults' >= faults /\ (FaultNext => faults' > 0)
<1>1. FaultNext => faults' = faults + 1
  <2>1. (\E w \in Workers : WorkerFails(w)) => faults' = faults + 1
    BY Zenon DEF WorkerFails
  <2>2. FountainFails \/ UnpackFails \/ CodecsFail \/ AssemblerFails => faults' = faults + 1
    BY Zenon DEF FountainFails, UnpackFails, CodecsFail, AssemblerFails, DiskFails
  <2> QED
    BY <2>1, <2>2 DEF FaultNext
<1>2. ASSUME ~FaultNext
      PROVE  faults' = faults
  <2>1. CASE UNCHANGED vars
    BY <2>1 DEF vars, assemblerVars
  <2>2. CASE OnAnswer \/ Assembles
    BY <2>2 DEF OnAnswer, Assembles, Works, StartWork, OutputCreated, PartAppended, PartFlushed,
                StageCreated, StageClosed, Finished, Settled, Working
  <2>3. CASE UserNext
    BY <2>3 DEF UserNext, Start, Show, StartApng, StartRefused, SourceEnds, SwitchMode, Restart,
                Other, Unmount, Resize, assemblerVars
  <2>4. CASE FountainNext \/ \E w \in Workers : PoolNext(w)
    BY <2>4 DEF FountainNext, StreamIdles, DecodeFrame, PoolNext, Capture, ParseFrame, Forward,
                TaskComplete, assemblerVars
  <2>5. CASE PageNext
    BY <2>5 DEF PageNext, Started, SwitchDone, OnProcessed, OnComplete, OnVerdict, ApngParsed,
                ApngDecoded, ApngRefused, RejectionDecoded, ApngRejected, ProgressShown, PoolIdle,
                Mismatched, ShowFile, Unpacked, AcceptPart, assemblerVars
  <2> QED
    BY <1>2, <2>1, <2>2, <2>3, <2>4, <2>5 DEF Next
<1> QED
  BY <1>1, <1>2

LEMMA KeptInit ==
  ASSUME Init
  PROVE  KeptInv
<1>1. /\ attached = FALSE /\ queue = << >> /\ work = Idle /\ answer = NoAnswer
      /\ inbox = << >> /\ phase = "ready" /\ faults = 0
  BY DEF Init, InitAssembler
<1>2. Len(<< >>) = 0 /\ \A n \in 1 .. 0 : FALSE
  OBVIOUS
<1>3. PartsShown
  BY <1>1, <1>2 DEF PartsShown, Finishing
<1>4. CallsAreLive /\ Completes
  BY <1>1, <1>2 DEF CallsAreLive, Completes, Pieces, CurrentLive, Idle, NoAnswer
<1> QED
  BY <1>1, <1>3, <1>4 DEF KeptInv

\* Every step keeps the invariant, and what is received but for what may be lost.
LEMMA KeptNext ==
  ASSUME Inv, KeptInv, OneName, [Next]_vars
  PROVE  KeptInv' /\ (Kept \subseteq Kept' \/ MayLose)
<1> SUFFICES CallsAreLive' /\ Completes' /\ (Kept \subseteq Kept' \/ MayLose)
  BY FaultsGrow, StepShown DEF KeptInv
<1>1. faults \in Nat /\ CallsAreLive /\ Completes
  BY DEF KeptInv
<1>2. CASE UNCHANGED vars
  <2>1. UNCHANGED <<assembly, attached, queue, work, answer, disk, faults>>
    BY <1>2 DEF vars, assemblerVars
  <2>2. CallsAreLive' /\ Completes'
    BY <1>1, <2>1 DEF CallsAreLive, Completes
  <2> QED
    BY <2>1, <2>2, KeptStays
<1>3. CASE OnAnswer
  BY <1>3, OnAnswerCalls, OnAnswerKept DEF MayLose
<1>4. CASE answer = NoAnswer /\ KeepingStep
  <2>1. Keeps
    BY <1>4, StepKeeps
  <2>2. UNCHANGED <<attached, assembly, disk>>
    BY <2>1 DEF Keeps, Frame
  <2> QED
    BY <1>1, <2>1, <2>2, KeepsCalls, KeptStays
<1>5. CASE answer = NoAnswer /\ \/ \E s \in Streams : \/ Start(s)
                                                      \/ \E n \in 1 .. Symbols : StartApng(s, n)
                                \/ SwitchMode \/ SwitchDone \/ Restart
                                \/ ApngRejected \/ Mismatched
  <2>1. Supersedes
    BY <1>5, StepSupersedes
  <2>2. UNCHANGED <<attached, assembly>> /\ (disk' = disk \/ holding)
    BY <2>1 DEF Supersedes, Frame, ReleaseFile
  <2> QED
    BY <1>1, <2>1, <2>2, SupersedesCalls, KeptStays DEF MayLose
<1>6. CASE answer = NoAnswer /\ (Other \/ Unmount)
  <2>1. Other \/ phase' = "gone"
    BY <1>6 DEF Unmount
  <2> QED
    BY <1>1, <1>6, <2>1, StepForgets, ForgetsCalls DEF MayLose
<1>7. CASE answer = NoAnswer /\ ShowFile
  <2>1. Current = NoAssembly /\ disk' = disk /\ assembly' = assembly /\ attached' = FALSE
    BY <1>7 DEF ShowFile, Compatible, ResetParts
  <2>2. Kept \subseteq Kept'
    BY <2>1 DEF Kept, Current, NoAssembly
  <2> QED
    BY <1>1, <1>7, <2>2, StepResets, ResetsCalls
<1>8. CASE answer = NoAnswer /\ CodecsFail
  <2>1. faults' = faults + 1 /\ faults' > 0
    BY <1>1, <1>8 DEF CodecsFail
  <2> QED
    BY <1>1, <1>8, <2>1, StepResets, ResetsCalls DEF MayLose
<1>9. CASE answer = NoAnswer /\ AcceptPart
  <2>1. UNCHANGED <<attached, assembly, disk>>
    BY <1>9 DEF AcceptPart
  <2> QED
    BY <1>9, <2>1, AcceptPartCalls, KeptStays
<1>10. CASE answer = NoAnswer /\ Assembles
  BY <1>10, WorksKept DEF Assembles
<1>11. CASE answer = NoAnswer /\ AssemblerFails
  BY <1>11, DiskFailsKept DEF AssemblerFails, MayLose
<1>12. CASE answer = NoAnswer /\ (UserNext \/ FaultNext)
  BY <1>4, <1>5, <1>6, <1>8, <1>11, <1>12 DEF UserNext, FaultNext, KeepingStep
<1>13. CASE answer = NoAnswer /\ (FountainNext \/ PageNext \/ \E w \in Workers : PoolNext(w))
  BY <1>4, <1>5, <1>7, <1>9, <1>13 DEF FountainNext, PageNext, KeepingStep
<1> QED
  BY <1>2, <1>3, <1>10, <1>12, <1>13 DEF Next

-----------------------------------------------------------------------------
(* What the fountain worker has done with, while the page waits for a part. *)

\* The sender shows another part when the receiver asks for it, and the user changes the
\* mode, the source or the pool once.
Patient == ~EarlySwitch /\ MaxDetours \in {0, 1}

\* The accept() of an attempt that was superseded, but not reset, waits or runs.
StrayCall(n) == queue[n].op = "accept" /\ queue[n].live /\ ~queue[n].current
NoStrayCall == \A n \in 1 .. Len(queue) : ~StrayCall(n)
StrayWork == work.pc # "idle" /\ ~work.current /\ attached

NotMissing(s) == s.id = assembly.id => s.index \notin (0 .. Count - 1) \ assembly.received

\* A change of the mode leaves at most one such call, and the call of the attempt that
\* goes on is for its part.
OneStray ==
  /\ detours \in Nat
  /\ detours = 0 => NoStrayCall /\ ~StrayWork
  /\ StrayWork => NoStrayCall
  /\ \A m, n \in 1 .. Len(queue) : StrayCall(m) /\ StrayCall(n) => m = n

OwnPart ==
  /\ \A n \in 1 .. Len(queue) : queue[n].op = "accept" => queue[n].part \in Streams
  /\ \A n \in 1 .. Len(queue) : queue[n].current => queue[n].part = part
  /\ work.current => work.part = part
  /\ attached => assembly.id # NoStream.id
  /\ answer.current /\ answer.kind \in {"more", "mismatch"} => attached /\ NotMissing(part)

\* The stray call has begun the assembly, and does not end it.
Begins == assembly.received = {} /\ work.pc \notin {"flush", "finish"}

\* What the page expects is of the transfer that the stray call works on, or of none when
\* the call has only begun one.
StrayExpected ==
  phase # "switching" =>
    /\ \A n \in 1 .. Len(queue) : StrayCall(n) => expected = ExpectedTransfer
    /\ StrayWork => IF expected = NoExpected THEN Begins ELSE assembly.id = expected.id

StrayInv == OneStray /\ OwnPart /\ StrayExpected

\* The types of what the page and the fountain worker know.
Expectations == [id : {s.id : s \in Parts}, missing : SUBSET (0 .. Count - 1)]
Fountains == [state : {"none", "running", "crashed"}, expected : Expectations, stream : Parts,
              count : 0 .. Symbols - 1, done : BOOLEAN, recent : BOOLEAN, verdict : Parts]
Sources == [stream : Parts, left : Nat, whole : BOOLEAN]

Phases == {"ready", "starting", "capturing", "parsing", "ending", "draining", "rejecting",
           "rejectDrain", "progress", "idle", "drain", "preparing", "accepting", "result",
           "failed", "switching", "gone"}

PageTypes ==
  /\ expected \in Expectations /\ fountain \in Fountains /\ source \in Sources
  /\ phase \in Phases

UnderWay(s) == frames[s] > 0 \/ \E w \in Workers : tasks[w] = s
Coming(s) == \E n \in 1 .. Len(inbox) : inbox[n].type = "complete" /\ inbox[n].stream = s

Rejecting == {"rejecting", "rejectDrain"}
FilePhases == {"parsing", "ending", "draining"}
ReadPhases == {"capturing", "parsing", "ending", "draining"}
DrainPhases == {"progress", "idle", "drain"}

\* The fountain worker knows what the page expects.
Told == phase \in ReadPhases \cup Rejecting \cup DrainPhases => fountain.expected = expected

\* Of what is under way, only what the sender shows is wanted, or the part that the
\* page finishes.
OneWanted ==
  /\ phase \in ReadPhases =>
       \A s \in Streams : UnderWay(s) /\ Wanted(s) => s = source.stream
  /\ phase \in DrainPhases =>
       Wanted(part) /\ \A s \in Streams : UnderWay(s) /\ Wanted(s) => s = part

\* A file has the frames of one stream.
OneFile ==
  phase \in FilePhases \cup Rejecting =>
    /\ \A s \in Streams : UnderWay(s) => s = source.stream
    /\ \A n \in 1 .. Len(inbox) : inbox[n].stream = source.stream

RefusedIsUnwanted ==
  /\ phase \in ReadPhases =>
       \A n \in 1 .. Len(inbox) : inbox[n].type = "verdict" => ~Wanted(inbox[n].stream)
  /\ phase \in Rejecting =>
       ~Wanted(source.stream) /\ \A n \in 1 .. Len(inbox) : inbox[n].type # "complete"

\* A stream that is reported complete is the one that is shown, and the fountain worker
\* has not turned to another since.
ReportedIsDone ==
  /\ phase \in ReadPhases =>
       \A n \in 1 .. Len(inbox) : inbox[n].type = "complete" =>
         /\ inbox[n].stream = source.stream /\ Wanted(source.stream)
         /\ fountain.done /\ fountain.stream = source.stream
  /\ phase \in Finishing => fountain.done /\ fountain.stream = part
  /\ phase \in {"result", "failed"} => ~fountain.done

\* No part of the transfer in progress is asked for that the fountain worker ignores,
\* and the stray call does not end that transfer.
DoneWith ==
  /\ ~Wanted(fountain.stream)
  /\ attached /\ NotMissing(fountain.stream)
  /\ NoStrayCall /\ (StrayWork => Begins)

IgnoredIsUnwanted ==
  phase \in {"ready", "starting"} \cup ReadPhases \cup Rejecting /\ fountain.done =>
    Coming(fountain.stream) \/ DoneWith

StreamInv ==
  Told /\ OneWanted /\ OneFile /\ RefusedIsUnwanted /\ ReportedIsDone /\ IgnoredIsUnwanted

Smooth == ~lost /\ faults = 0
DoneInv == StrayInv /\ PageTypes /\ (Smooth => StreamInv)

-----------------------------------------------------------------------------
(* What is left of a file.                                                 *)

\* No stream has been begun and not finished.
NotCollecting == fountain.stream = NoStream \/ fountain.done

Submitted == {w \in Workers : tasks[w] = source.stream}
Collecting == IF fountain.stream = source.stream THEN fountain.count ELSE 0

\* The camera belongs to one mode and the files to the other.
ModeOfPhase ==
  /\ mode \in {"live", "apng"}
  /\ phase \in FilePhases \cup Rejecting => mode = "apng"
  /\ phase = "capturing" => mode = "live"
  /\ faults = 0 /\ lost => mode = "live" /\ detours > 0

\* Between files no stream is begun, and within one only its own.
OneCollected ==
  /\ phase \in {"ready", "starting"} /\ mode = "apng" => NotCollecting
  /\ phase \in FilePhases \cup Rejecting =>
       NotCollecting \/ (fountain.stream = source.stream /\ Wanted(source.stream))
  /\ phase \in {"result", "failed"} => fountain.stream = NoStream

\* A whole file has as many frames as its stream needs: those to be submitted, those that
\* are decoded, those on their way and those that are collected.
FileCounted ==
  /\ phase \in {"starting"} \cup FilePhases /\ mode = "apng" => source.stream \in Streams
  /\ phase = "starting" /\ mode = "apng" /\ source.whole => source.left = Symbols
  /\ phase \in {"ending", "draining"} => source.left = 0
  /\ phase = "draining" => AllIdle
  /\ phase \in FilePhases /\ source.whole /\ Wanted(source.stream) /\ ~Coming(source.stream) =>
       /\ IsFiniteSet(Submitted)
       /\ source.left + Cardinality(Submitted) + frames[source.stream] + Collecting = Symbols

FileInv ==
  /\ ModeOfPhase
  /\ Smooth => OneCollected /\ FileCounted

-----------------------------------------------------------------------------
(* The calls that an attempt has left.                                     *)

LEMMA SupersededParts ==
  ASSUME NEW q \in Seq(Calls)
  PROVE  \A n \in 1 .. Len(q) : Superseded(q)[n].part = q[n].part
<1>1. DOMAIN q = 1 .. Len(q) /\ \A n \in 1 .. Len(q) : q[n] \in Calls
  OBVIOUS
<1>2. \A c \in Calls : [c EXCEPT !.current = FALSE].part = c.part
  BY DEF Calls
<1>3. \A n \in 1 .. Len(q) : Superseded(q)[n] = [q[n] EXCEPT !.current = FALSE]
  BY <1>1 DEF Superseded
<1> QED
  BY <1>1, <1>2, <1>3

LEMMA ResettingParts ==
  ASSUME NEW q \in Seq(Calls), attached \in BOOLEAN
  PROVE  \A n \in 1 .. Len(q) : Resetting(q)[n].part = q[n].part
<1> DEFINE r == [n \in 1 .. Len(q) |-> [q[n] EXCEPT !.live = FALSE]]
<1>1. DOMAIN q = 1 .. Len(q) /\ Len(q) \in Nat /\ \A n \in 1 .. Len(q) : q[n] \in Calls
  OBVIOUS
<1>2. \A c \in Calls : /\ [c EXCEPT !.live = FALSE] \in Calls
                       /\ [c EXCEPT !.live = FALSE].part = c.part
  BY DEF Calls
<1>3. Resetting(q) = r \o (IF attached THEN <<Dispose>> ELSE << >>)
  BY <1>1 DEF Resetting
<1>4. r \in Seq(Calls) /\ Len(r) = Len(q)
  BY <1>1, <1>2
<1>5. \A n \in 1 .. Len(q) : r[n].part = q[n].part
  BY <1>1, <1>2
<1>6. Dispose \in Calls
  BY DEF Dispose, Calls, Parts
<1> HIDE DEF r
<1>7. \A n \in 1 .. Len(q) : Resetting(q)[n] = r[n]
  BY <1>1, <1>3, <1>4, <1>6
<1> QED
  BY <1>5, <1>7

\* An assembly that is attached has the name of a transfer, so that what is expected of
\* it is not nothing.
LEMMA ExpectedOfAttached ==
  ASSUME OwnPart, attached
  PROVE  /\ Current = assembly /\ assembly # NoAssembly
         /\ ExpectedTransfer # NoExpected /\ ExpectedTransfer.id = assembly.id
         /\ ExpectedTransfer.missing = (0 .. Count - 1) \ assembly.received
<1>1. assembly.id # "none"
  BY DEF OwnPart, NoStream
<1>2. Current = assembly /\ assembly # NoAssembly
  BY <1>1 DEF Current, NoAssembly
<1>3. ExpectedTransfer = [id |-> assembly.id, missing |-> (0 .. Count - 1) \ assembly.received]
  BY <1>2 DEF ExpectedTransfer, ExpectedOf
<1> QED
  BY <1>1, <1>2, <1>3 DEF NoExpected

LEMMA KeepsStray ==
  ASSUME Inv, StrayInv, Keeps, expected' = expected, detours' \in {detours, detours + 1},
         phase = "accepting" => part' = part, phase = "switching" => phase' = "switching"
  PROVE  StrayInv'
<1>1. /\ UNCHANGED <<assembly, attached, queue, work, expected>> /\ answer' = NoAnswer
      /\ ~answer'.current
  BY DEF Keeps, Frame, NoAnswer
<1>2. phase # "accepting" => NoCurrent(queue) /\ ~work.current
  BY DEF Inv, LeakInv, OneAttempt
<1>3. OneStray'
  BY <1>1 DEF StrayInv, OneStray, NoStrayCall, StrayCall, StrayWork
<1>4. OwnPart'
  BY <1>1, <1>2 DEF StrayInv, OwnPart, NoCurrent
<1>5. StrayExpected'
  <2>1. ExpectedTransfer' = ExpectedTransfer
    BY <1>1 DEF ExpectedTransfer, Current
  <2> QED
    BY <1>1, <2>1 DEF StrayInv, StrayExpected, StrayCall, StrayWork, Begins
<1> QED
  BY <1>3, <1>4, <1>5 DEF StrayInv

\* The calls are the same when none of them belongs to the attempt that is superseded.
LEMMA SupersedesCallsOnly ==
  ASSUME Inv, Supersedes, NoCurrent(queue), ~work.current
  PROVE  /\ UNCHANGED <<assembly, attached>> /\ answer' = NoAnswer /\ Len(queue') = Len(queue)
         /\ work'.pc = work.pc /\ work'.part = work.part /\ ~work'.current
         /\ \A n \in 1 .. Len(queue) : /\ StrayCall(n)' <=> StrayCall(n)
                                       /\ queue'[n].op = queue[n].op
                                       /\ queue'[n].part = queue[n].part
                                       /\ ~queue'[n].current
         /\ NoStrayCall' <=> NoStrayCall
         /\ StrayWork' <=> StrayWork
<1>1. queue \in Seq(Calls) /\ work \in Jobs /\ queue' = Superseded(queue)
  BY DEF Supersedes, SupersedeAttempt, Inv, PersistInv, TypesOK
<1>2. /\ UNCHANGED <<assembly, attached>> /\ answer' = NoAnswer
      /\ work' = [work EXCEPT !.current = FALSE]
  BY DEF Supersedes, SupersedeAttempt, Frame
<1>3. work'.pc = work.pc /\ work'.part = work.part /\ ~work'.current
  BY <1>1, <1>2, SupersededWork
<1>4. /\ Len(queue') = Len(queue)
      /\ \A n \in 1 .. Len(queue) : /\ queue'[n].op = queue[n].op
                                    /\ queue'[n].live = queue[n].live
                                    /\ queue'[n].part = queue[n].part
                                    /\ ~queue'[n].current
  BY <1>1, SupersededQueue, SupersededParts
<1>5. \A n \in 1 .. Len(queue) : StrayCall(n)' <=> StrayCall(n)
  BY <1>4 DEF StrayCall, NoCurrent
<1>6. NoStrayCall' <=> NoStrayCall
  BY <1>4, <1>5 DEF NoStrayCall
<1>7. StrayWork' <=> StrayWork
  BY <1>2, <1>3 DEF StrayWork
<1> QED
  BY <1>2, <1>3, <1>4, <1>5, <1>6, <1>7

LEMMA SupersedesStray ==
  ASSUME Inv, StrayInv, Supersedes, phase # "accepting", detours' = detours,
         (expected' = expected /\ phase # "switching") \/ expected' = ExpectedTransfer
  PROVE  StrayInv'
<1>1. NoCurrent(queue) /\ ~work.current
  BY DEF Inv, LeakInv, OneAttempt
<1>2. /\ UNCHANGED <<assembly, attached>> /\ answer' = NoAnswer /\ Len(queue') = Len(queue)
      /\ work'.pc = work.pc /\ work'.part = work.part /\ ~work'.current
      /\ \A n \in 1 .. Len(queue) : /\ StrayCall(n)' <=> StrayCall(n)
                                    /\ queue'[n].op = queue[n].op
                                    /\ queue'[n].part = queue[n].part
                                    /\ ~queue'[n].current
      /\ NoStrayCall' <=> NoStrayCall
      /\ StrayWork' <=> StrayWork
  BY <1>1, SupersedesCallsOnly
<1>3. OneStray'
  BY <1>2 DEF StrayInv, OneStray
<1>4. OwnPart'
  BY <1>2 DEF StrayInv, OwnPart, NoAnswer
<1>5. StrayExpected'
  <2>1. ExpectedTransfer' = ExpectedTransfer
    BY <1>2 DEF ExpectedTransfer, Current
  <2>2. CASE expected' = expected /\ phase # "switching"
    BY <1>2, <2>1, <2>2 DEF StrayInv, StrayExpected, Begins
  <2>3. CASE expected' = ExpectedTransfer
    <3>2. ASSUME StrayWork'
          PROVE  IF expected' = NoExpected THEN Begins' ELSE assembly'.id = expected'.id
      BY <1>2, <2>3, <3>2, ExpectedOfAttached DEF StrayInv, StrayWork
    <3> QED
      BY <2>1, <2>3, <3>2 DEF StrayExpected
  <2> QED
    BY <2>2, <2>3
<1> QED
  BY <1>3, <1>4, <1>5 DEF StrayInv

\* A change of the mode leaves a call behind, but only one change is made.
LEMMA SwitchModeStray ==
  ASSUME Inv, StrayInv, Supersedes, SwitchMode, MaxDetours \in {0, 1}
  PROVE  StrayInv'
<1>1. detours = 0 /\ detours' = 1 /\ phase' = "switching" /\ expected' = expected
  BY DEF SwitchMode, Detour, StrayInv, OneStray
<1>2. /\ queue \in Seq(Calls) /\ work \in Jobs /\ queue' = Superseded(queue)
      /\ UNCHANGED <<assembly, attached>> /\ answer' = NoAnswer
      /\ work' = [work EXCEPT !.current = FALSE]
  BY DEF Supersedes, SupersedeAttempt, Frame, Inv, PersistInv, TypesOK
<1>3. work'.pc = work.pc /\ ~work'.current
  BY <1>2, SupersededWork
<1>4. /\ Len(queue) \in Nat /\ Len(queue') = Len(queue)
      /\ \A n \in 1 .. Len(queue) : /\ queue'[n].op = queue[n].op
                                    /\ queue'[n].live = queue[n].live
                                    /\ queue'[n].part = queue[n].part
                                    /\ ~queue'[n].current
  BY <1>2, SupersededQueue, SupersededParts
<1>5. \A n \in 1 .. Len(queue) : StrayCall(n)' => queue[n].current /\ queue[n].op = "accept"
  BY <1>1, <1>4 DEF StrayCall, StrayInv, OneStray, NoStrayCall
<1>6. StrayWork' => work.current
  BY <1>1, <1>2, <1>3 DEF StrayWork, StrayInv, OneStray
<1>7. OneStray'
  <2>1. StrayWork' => NoStrayCall'
    BY <1>4, <1>5, <1>6 DEF NoStrayCall, Inv, LeakInv, OneAttempt, NoAccept
  <2>2. ASSUME NEW m \in 1 .. Len(queue'), NEW n \in 1 .. Len(queue'),
               StrayCall(m)', StrayCall(n)'
        PROVE  m = n
    <3>1. CurrentLast(queue)
      BY DEF Inv, LeakInv, OneAttempt
    <3> QED
      BY <1>4, <1>5, <2>2, <3>1 DEF CurrentLast
  <2> QED
    BY <1>1, <2>1, <2>2 DEF OneStray
<1>8. OwnPart'
  BY <1>2, <1>3, <1>4 DEF StrayInv, OwnPart, NoAnswer
<1>9. StrayExpected'
  BY <1>1 DEF StrayInv, StrayExpected
<1> QED
  BY <1>7, <1>8, <1>9 DEF StrayInv

\* What is reset is no call of the transfer in progress.
LEMMA ResetStray ==
  ASSUME Inv, StrayInv, detours' = detours, attached' = FALSE, NoCurrent(queue'), ~work'.current,
         queue' \in {Resetting(queue), Superseded(Resetting(queue))},
         answer' = NoAnswer, expected' = NoExpected
  PROVE  StrayInv'
<1>1. queue \in Seq(Calls) /\ attached \in BOOLEAN /\ Resetting(queue) \in Seq(Calls)
  BY ResettingQueue DEF Inv, PersistInv, TypesOK
<1>2. Dispose.op # "accept"
  BY DEF Dispose
<1>3. \A n \in 1 .. Len(queue') :
        queue'[n].op = "accept" =>
          ~queue'[n].live /\ \E k \in 1 .. Len(queue) : queue[k].op = "accept"
                                                      /\ queue'[n].part = queue[k].part
  <2> DEFINE r == Resetting(queue)
  <2>1. \A n \in 1 .. Len(r) :
          r[n].op = "accept" =>
            ~r[n].live /\ \E k \in 1 .. Len(queue) : queue[k].op = "accept"
                                                   /\ r[n].part = queue[k].part
    <3>1. Len(queue) \in Nat
      BY <1>1
    <3>2. \A n \in 1 .. Len(r) : n \in 1 .. Len(queue) \/ (attached /\ n = Len(queue) + 1)
      BY <1>1, <3>1, ResettingQueue
    <3> QED
      BY <1>1, <1>2, <3>2, ResettingQueue, ResettingParts
  <2> HIDE DEF r
  <2>2. r \in Seq(Calls) /\ queue' \in {r, Superseded(r)}
    BY <1>1 DEF r
  <2>3. /\ Len(Superseded(r)) = Len(r)
        /\ \A n \in 1 .. Len(r) : /\ Superseded(r)[n].op = r[n].op
                                  /\ Superseded(r)[n].live = r[n].live
                                  /\ Superseded(r)[n].part = r[n].part
    BY <2>2, SupersededQueue, SupersededParts
  <2> QED
    BY <2>1, <2>2, <2>3
<1>4. NoStrayCall' /\ ~StrayWork'
  BY <1>3 DEF NoStrayCall, StrayCall, StrayWork
<1>5. OneStray'
  BY <1>4 DEF StrayInv, OneStray, NoStrayCall
<1>6. OwnPart'
  BY <1>3 DEF StrayInv, OwnPart, NoAnswer, NoCurrent
<1>7. StrayExpected'
  BY <1>4 DEF StrayExpected, NoStrayCall
<1> QED
  BY <1>5, <1>6, <1>7 DEF StrayInv

LEMMA NobodyIsLeft ==
  ASSUME Inv
  PROVE  /\ NoCurrent(Superseded(Resetting(queue)))
         /\ NoCurrent(queue) => NoCurrent(Resetting(queue))
<1>1. queue \in Seq(Calls) /\ attached \in BOOLEAN /\ Resetting(queue) \in Seq(Calls)
  BY ResettingQueue DEF Inv, PersistInv, TypesOK
<1>2. NoCurrent(Superseded(Resetting(queue)))
  BY <1>1, SupersededQueue DEF NoCurrent
<1>3. NoCurrent(queue) => NoCurrent(Resetting(queue))
  <2>1. Len(queue) \in Nat /\ ~Dispose.current
    BY <1>1 DEF Dispose
  <2>2. \A n \in 1 .. Len(Resetting(queue)) :
          n \in 1 .. Len(queue) \/ (attached /\ n = Len(queue) + 1)
    BY <1>1, <2>1, ResettingQueue
  <2> QED
    BY <1>1, <2>1, <2>2, ResettingQueue DEF NoCurrent
<1> QED
  BY <1>2, <1>3

LEMMA ForgetsStray ==
  ASSUME Inv, StrayInv, Forgets, detours' = detours
  PROVE  StrayInv'
<1>1. /\ queue' = Superseded(Resetting(queue)) /\ attached' = FALSE /\ expected' = NoExpected
      /\ answer' = NoAnswer /\ work' = [work EXCEPT !.current = FALSE] /\ work \in Jobs
  BY DEF Forgets, ForgetParts, Frame, Inv, PersistInv, TypesOK
<1>2. NoCurrent(queue') /\ ~work'.current
  BY <1>1, NobodyIsLeft, SupersededWork
<1> QED
  BY <1>1, <1>2, ResetStray

LEMMA ResetsStray ==
  ASSUME Inv, StrayInv, Resets, detours' = detours
  PROVE  StrayInv'
<1>1. /\ queue' = Resetting(queue) /\ attached' = FALSE /\ expected' = NoExpected
      /\ answer' = NoAnswer /\ work' = work /\ NoCurrent(queue) /\ ~work.current
  BY DEF Resets, ResetParts, Frame
<1>2. NoCurrent(queue')
  BY <1>1, NobodyIsLeft
<1> QED
  BY <1>1, <1>2, ResetStray

LEMMA AcceptPartStray ==
  ASSUME Inv, StrayInv, PartsShown, AcceptPart
  PROVE  StrayInv'
<1>1. /\ phase = "preparing" /\ phase' = "accepting" /\ queue' = Append(queue, Accept(part))
      /\ UNCHANGED <<assembly, attached, work, answer, part, expected, detours>>
  BY DEF AcceptPart, bounds
<1>2. NoCurrent(queue) /\ ~work.current /\ ~answer.current /\ part \in Streams
  BY <1>1 DEF Inv, LeakInv, OneAttempt, PartsShown, Finishing
<1>3. Accept(part).part = part /\ Accept(part).current /\ Accept(part).op = "accept"
  BY DEF Accept
<1>4. /\ Len(queue) \in Nat /\ Len(queue') = Len(queue) + 1
      /\ queue'[Len(queue) + 1] = Accept(part)
      /\ \A n \in 1 .. Len(queue) : queue'[n] = queue[n]
  <2>1. queue \in Seq(Calls)
    BY DEF Inv, PersistInv, TypesOK
  <2> QED
    BY <1>1, <2>1
<1> HIDE DEF Accept
<1>5. \A n \in 1 .. Len(queue') : StrayCall(n)' => n \in 1 .. Len(queue) /\ StrayCall(n)
  BY <1>3, <1>4 DEF StrayCall
<1>6. StrayWork' <=> StrayWork
  BY <1>1 DEF StrayWork
<1>7. OneStray'
  BY <1>1, <1>5, <1>6 DEF StrayInv, OneStray, NoStrayCall
<1>8. OwnPart'
  BY <1>1, <1>2, <1>3, <1>4 DEF StrayInv, OwnPart, NoCurrent
<1>9. StrayExpected'
  <2>1. ExpectedTransfer' = ExpectedTransfer
    BY <1>1 DEF ExpectedTransfer, Current
  <2> QED
    BY <1>1, <1>5, <1>6, <2>1 DEF StrayInv, StrayExpected, Begins
<1> QED
  BY <1>7, <1>8, <1>9 DEF StrayInv

LEMMA OnAnswerStray ==
  ASSUME Inv, StrayInv, OnAnswer
  PROVE  StrayInv'
<1>1. /\ answer' = NoAnswer /\ assembly' = assembly /\ detours' = detours /\ ~NoAnswer.current
      /\ work.pc = "idle" /\ ~work.current /\ work \in Jobs /\ queue \in Seq(Calls)
      /\ answer.kind \in {"none", "more", "mismatch", "stored", "failed"}
      /\ answer.current => answer.kind # "none" /\ NoAccept(queue)
      /\ \A n \in 1 .. Len(queue) : queue[n].current => queue[n].op = "accept"
  BY DEF OnAnswer, bounds, Inv, PersistInv, TypesOK, LeakInv, OneAttempt, Answers, NoAnswer
<1>2. CASE ~answer.current
  <2>1. UNCHANGED <<queue, work, attached, phase, part, expected>>
    BY <1>2 DEF OnAnswer, page
  <2>2. ExpectedTransfer' = ExpectedTransfer
    BY <1>1, <2>1 DEF ExpectedTransfer, Current
  <2>3. OneStray'
    BY <1>1, <2>1 DEF StrayInv, OneStray, NoStrayCall, StrayCall, StrayWork
  <2>4. OwnPart'
    BY <1>1, <2>1 DEF StrayInv, OwnPart
  <2>5. StrayExpected'
    BY <1>1, <2>1, <2>2 DEF StrayInv, StrayExpected, StrayCall, StrayWork, Begins
  <2> QED
    BY <2>3, <2>4, <2>5 DEF StrayInv
<1>3. CASE answer.current /\ answer.kind \in {"more", "mismatch"}
  <2>1. /\ queue' = Superseded(queue) /\ work' = [work EXCEPT !.current = FALSE]
        /\ attached' = attached /\ expected' = ExpectedTransfer
    BY <1>3 DEF OnAnswer, SupersedeAttempt, Park, ResetReceiver
  <2>2. /\ Len(queue') = Len(queue) /\ work'.pc = "idle" /\ ~work'.current
        /\ \A n \in 1 .. Len(queue) : queue'[n].op = queue[n].op /\ ~queue'[n].current
    BY <1>1, <2>1, SupersededQueue, SupersededWork
  <2>3. NoStrayCall' /\ ~StrayWork' /\ NoAccept(queue')
    BY <1>1, <1>3, <2>2 DEF NoStrayCall, StrayCall, StrayWork, NoAccept
  <2>4. OneStray'
    BY <1>1, <2>3 DEF StrayInv, OneStray, NoStrayCall
  <2>5. OwnPart'
    BY <1>1, <2>1, <2>2, <2>3 DEF StrayInv, OwnPart, NoAccept
  <2>6. StrayExpected'
    BY <2>1, <2>3 DEF StrayExpected, NoStrayCall
  <2> QED
    BY <2>4, <2>5, <2>6 DEF StrayInv
<1>4. CASE answer.current /\ answer.kind \in {"stored", "failed"}
  <2>1. queue' = Resetting(queue) /\ attached' = FALSE /\ work' = work /\ expected' = NoExpected
    BY <1>4 DEF OnAnswer, ResetParts, FailTransfer
  <2>2. NoCurrent(queue)
    BY <1>1, <1>4 DEF NoAccept, NoCurrent
  <2> QED
    BY <1>1, <2>1, <2>2, NobodyIsLeft, ResetStray
<1> QED
  BY <1>1, <1>2, <1>3, <1>4

\* The ends of an await of accept(): the call goes on with the same assembly, its part
\* has been received, or there is no assembly any more.
GoesOn ==
  /\ attached /\ attached' /\ assembly'.id = assembly.id /\ UNCHANGED answer
  /\ work'.part = work.part /\ work'.current = work.current /\ work'.pc # "idle"
Receives ==
  /\ attached /\ attached' /\ assembly'.id = assembly.id
  /\ assembly'.received = assembly.received \cup {work.part.index}
  /\ work' = Idle /\ answer' = [kind |-> "more", current |-> work.current]
Detaches ==
  /\ attached' = FALSE /\ answer'.kind \notin {"more", "mismatch"}
  /\ work' = Idle \/ (work'.pc # "idle" /\ work'.part = work.part /\ work'.current = work.current)

LEMMA FailsDetaches ==
  ASSUME NEW a, NEW files, Fails(work, a, files)
  PROVE  Detaches
BY DEF Fails, Ends, Detaches

LEMMA AcceptedReceives ==
  ASSUME NEW a, NEW files, Accepted(work, a, files), attached, a \in Assemblies, work \in Jobs,
         a.id = assembly.id, a.received = assembly.received
  PROVE  GoesOn \/ Receives \/ Detaches
<1> DEFINE got == [a EXCEPT !.received = @ \cup {work.part.index}]
<1>1. got.id = a.id /\ got.received = a.received \cup {work.part.index}
  BY DEF Assemblies
<1> HIDE DEF got
<1>2. CASE assembly' = got /\ UNCHANGED attached /\ Ends(work, "more")
  BY <1>1, <1>2 DEF Ends, Receives
<1>3. CASE Awaits(work, "finish", got, files)
  BY <1>1, <1>3 DEF Awaits, Jobs, GoesOn
<1>4. CASE Fails(work, got, files)
  BY <1>4, FailsDetaches
<1> QED
  BY <1>2, <1>3, <1>4 DEF Accepted, got

LEMMA AwaitsGoesOn ==
  ASSUME NEW a, NEW files, NEW pc \in {"append", "flush", "close"}, Awaits(work, pc, a, files),
         attached, work \in Jobs, a.id = assembly.id
  PROVE  GoesOn
BY DEF Awaits, Jobs, GoesOn

LEMMA ContinuesReceives ==
  ASSUME NEW a, NEW files, Continues(work, a, files), attached, a \in Assemblies, work \in Jobs,
         a.id = assembly.id, a.received = assembly.received
  PROVE  GoesOn \/ Receives \/ Detaches
BY AwaitsGoesOn, AcceptedReceives DEF Continues

JobStep ==
  \/ OutputCreated \/ PartAppended \/ PartFlushed \/ StageCreated \/ StageClosed
  \/ Finished \/ Settled \/ DiskFails

\* The assembly with what an await has added is one.
LEMMA GrownAssembly ==
  ASSUME assembly \in Assemblies, work \in Jobs
  PROVE  /\ [assembly EXCEPT !.out = TRUE].id = assembly.id
         /\ Appended(assembly) \in Assemblies
         /\ Appended(assembly).id = assembly.id
         /\ Appended(assembly).received = assembly.received
         /\ Appended(assembly).pending = assembly.pending
         /\ \A s : [Appended(assembly) EXCEPT !.pending = @ \ s] \in Assemblies
         /\ \A s : [Appended(assembly) EXCEPT !.pending = @ \ s].id = assembly.id
         /\ \A s : [Appended(assembly) EXCEPT !.pending = @ \ s].received = assembly.received
         /\ [assembly EXCEPT !.pending = @ \cup {work.part.index}] \in Assemblies
         /\ [assembly EXCEPT !.pending = @ \cup {work.part.index}].id = assembly.id
         /\ [assembly EXCEPT !.pending = @ \cup {work.part.index}].received = assembly.received
<1>1. work.part.index \in Int
  BY PartTypes DEF Jobs
<1>2. [assembly EXCEPT !.out = TRUE].id = assembly.id
  BY DEF Assemblies
<1>3. /\ Appended(assembly) \in Assemblies
      /\ Appended(assembly).id = assembly.id
      /\ Appended(assembly).received = assembly.received
      /\ Appended(assembly).pending = assembly.pending
  <2>1. assembly.next \in Nat /\ assembly.written \in Seq(Int)
    BY DEF Assemblies
  <2>2. Append(assembly.written, assembly.next) \in Seq(Int) /\ assembly.next + 1 \in Nat
    BY <2>1
  <2> QED
    BY <2>2 DEF Appended, Assemblies
<1>4. \A x \in Assemblies : \A s : /\ [x EXCEPT !.pending = @ \ s] \in Assemblies
                                   /\ [x EXCEPT !.pending = @ \ s].id = x.id
                                   /\ [x EXCEPT !.pending = @ \ s].received = x.received
  BY DEF Assemblies
<1>5. \A x \in Assemblies, i \in Int :
        /\ [x EXCEPT !.pending = @ \cup {i}] \in Assemblies
        /\ [x EXCEPT !.pending = @ \cup {i}].id = x.id
        /\ [x EXCEPT !.pending = @ \cup {i}].received = x.received
  BY DEF Assemblies
<1> QED
  BY <1>1, <1>2, <1>3, <1>4, <1>5

LEMMA JobEnds ==
  ASSUME Inv, answer = NoAnswer, JobStep
  PROVE  GoesOn \/ Receives \/ Detaches
<1>1. assembly \in Assemblies /\ work \in Jobs /\ attached \in BOOLEAN
  BY DEF Inv, PersistInv, TypesOK
<1>2. CASE OutputCreated
  BY <1>1, <1>2, AwaitsGoesOn, FailsDetaches, GrownAssembly DEF OutputCreated
<1>3. CASE PartAppended
  BY <1>1, <1>3, ContinuesReceives, FailsDetaches, GrownAssembly DEF PartAppended
<1>4. CASE PartFlushed
  BY <1>1, <1>4, ContinuesReceives, FailsDetaches, GrownAssembly DEF PartFlushed
<1>5. CASE StageCreated
  BY <1>1, <1>5, AwaitsGoesOn, FailsDetaches DEF StageCreated
<1>6. CASE StageClosed
  BY <1>1, <1>6, AcceptedReceives, FailsDetaches, GrownAssembly DEF StageClosed
<1>7. CASE Finished
  <2>1. [work EXCEPT !.pc = "settle"].pc = "settle"
        /\ [work EXCEPT !.pc = "settle"].part = work.part
        /\ [work EXCEPT !.pc = "settle"].current = work.current
    BY <1>1 DEF Jobs
  <2>2. answer.kind = "none"
    BY DEF NoAnswer
  <2>3. CASE Fails(work, assembly, disk)
    BY <2>3, FailsDetaches
  <2>4. CASE attached' = FALSE /\ work' = [work EXCEPT !.pc = "settle"] /\ UNCHANGED answer
    BY <2>1, <2>2, <2>4 DEF Detaches
  <2> QED
    BY <1>7, <2>3, <2>4 DEF Finished
<1>8. CASE Settled
  <2>1. ~attached
    BY <1>8 DEF Settled, Working, Inv, PersistInv, Consistent
  <2> QED
    BY <1>1, <1>8, <2>1 DEF Settled, Ends, Detaches
<1>9. CASE DiskFails
  BY <1>9, FailsDetaches DEF DiskFails
<1> QED
  BY <1>2, <1>3, <1>4, <1>5, <1>6, <1>7, <1>8, <1>9 DEF JobStep

\* A stray call that has begun its assembly gives it one part, of two at least.
LEMMA OneOfMany ==
  ASSUME NEW i
  PROVE  Cardinality({} \cup {i}) < Count
<1>1. {} \cup {i} = {i} /\ Cardinality({i}) = 1
  BY FS_Singleton
<1> QED
  BY <1>1, AssemblerAssumption

LEMMA BegunReceives ==
  ASSUME NEW a, NEW files, Accepted(work, a, files), attached, a \in Assemblies,
         a.id = assembly.id, a.received = {}, assembly.received = {}
  PROVE  Receives
<1> DEFINE got == [a EXCEPT !.received = @ \cup {work.part.index}]
<1>1. got.id = a.id /\ got.received = {} \cup {work.part.index}
  BY DEF Assemblies
<1> HIDE DEF got
<1>2. Cardinality(got.received) < Count
  BY <1>1, OneOfMany
<1>3. assembly' = got /\ UNCHANGED attached /\ Ends(work, "more")
  BY <1>2 DEF Accepted, got
<1> QED
  BY <1>1, <1>3 DEF Ends, Receives

LEMMA BeginsStays ==
  ASSUME Inv, answer = NoAnswer, JobStep, attached, Begins, ~DiskFails
  PROVE  (GoesOn /\ Begins') \/ Receives
<1>1. /\ assembly \in Assemblies /\ work \in Jobs /\ Consistent
      /\ work.pc \notin {"flush", "finish", "settle"} /\ assembly.received = {}
  BY DEF Inv, PersistInv, TypesOK, Consistent, Begins
<1>2. assembly.pending = {}
  BY <1>1 DEF Consistent, PartsOf
<1>3. CASE OutputCreated
  <2> DEFINE a == [assembly EXCEPT !.out = TRUE]
  <2>1. Awaits(work, "append", a, disk \cup {Output}) /\ a.received = {} /\ a.id = assembly.id
    BY <1>1, <1>3, GrownAssembly DEF OutputCreated, Assemblies
  <2> HIDE DEF a
  <2>2. work'.pc = "append" /\ assembly' = a
    BY <1>1, <2>1 DEF Awaits, Jobs
  <2> QED
    BY <1>1, <2>1, <2>2, AwaitsGoesOn DEF Begins
<1>4. CASE PartAppended
  <2>1. Continues(work, Appended(assembly), disk)
    BY <1>4 DEF PartAppended
  <2>2. Appended(assembly).pending = {} /\ Appended(assembly).received = {}
    BY <1>1, <1>2, GrownAssembly
  <2>3. Accepted(work, Appended(assembly), disk)
    BY <2>1, <2>2 DEF Continues
  <2> QED
    BY <1>1, <2>2, <2>3, BegunReceives, GrownAssembly
<1>5. CASE StageCreated
  <2>1. Awaits(work, "close", assembly, disk \cup {Staged(work.part.index)})
    BY <1>5 DEF StageCreated
  <2>2. work'.pc = "close" /\ assembly' = assembly
    BY <1>1, <2>1 DEF Awaits, Jobs
  <2> QED
    BY <1>1, <2>1, <2>2, AwaitsGoesOn DEF Begins
<1>6. CASE StageClosed
  <2> DEFINE a == [assembly EXCEPT !.pending = @ \cup {work.part.index}]
  <2>1. Accepted(work, a, disk)
    BY <1>6 DEF StageClosed
  <2>2. a \in Assemblies /\ a.id = assembly.id /\ a.received = {}
    BY <1>1, GrownAssembly
  <2> HIDE DEF a
  <2> QED
    BY <1>1, <2>1, <2>2, BegunReceives
<1>7. ~PartFlushed /\ ~Finished /\ ~Settled
  BY <1>1 DEF PartFlushed, Finished, Settled, Working
<1> QED
  BY <1>3, <1>4, <1>5, <1>6, <1>7 DEF JobStep

\* The next call ends at once, or works on the assembly, which it may have to begin.
CallEnds ==
  /\ UNCHANGED attached /\ (attached => assembly' = assembly) /\ work' = Idle
  /\ answer'.kind \in {"more", "mismatch"} => attached /\ NotMissing(Head(queue).part)
  /\ answer'.current => Head(queue).current
CallConflicts ==
  /\ Head(queue).op = "accept" /\ Head(queue).live
  /\ attached' = FALSE /\ work' = Idle /\ answer'.kind = "failed"
CallWorks ==
  /\ Head(queue).op = "accept" /\ Head(queue).live
  /\ attached' /\ assembly' = IF attached THEN assembly ELSE Begun(Head(queue).part)
  /\ work'.part = Head(queue).part /\ work'.current = Head(queue).current
  /\ work'.pc \in {"create", "append", "stage"} /\ UNCHANGED answer

LEMMA BegunPart ==
  ASSUME NEW p
  PROVE  Begun(p).id = p.id /\ Begun(p).name = p.name /\ Begun(p).received = {}
BY DEF Begun, NoAssembly

LEMMA CallStarts ==
  ASSUME Inv, OwnPart, answer = NoAnswer, StartWork
  PROVE  CallEnds \/ CallConflicts \/ CallWorks
<1> DEFINE call == Head(queue)
           job == [Idle EXCEPT !.part = call.part, !.current = call.current]
           a == IF attached THEN assembly ELSE Begun(call.part)
           i == call.part.index
<1>1. job.part = call.part /\ job.current = call.current /\ job.pc = "idle"
  BY DEF Idle
<1>2. NoAnswer.kind = "none" /\ ~NoAnswer.current
  BY DEF NoAnswer
<1>3. attached \in BOOLEAN /\ queue \in Seq(Calls) /\ queue # << >> /\ DisposalsFirst
  BY DEF StartWork, Inv, PersistInv, TypesOK
<1>4. attached => call.op # "dispose"
  BY <1>3, TailOrder DEF DisposalsFirst
<1>5. CASE /\ call.op = "dispose" /\ assembly' = NoAssembly
           /\ UNCHANGED <<attached, work, answer>>
  BY <1>2, <1>4, <1>5 DEF CallEnds, StartWork
<1>6. CASE /\ call.op = "accept" /\ ~call.live /\ Ends(job, "failed")
           /\ UNCHANGED <<assembly, attached>>
  BY <1>1, <1>6 DEF CallEnds, Ends
<1>7. CASE /\ call.op = "accept" /\ call.live /\ ~Compatible(job.part) /\ Ends(job, "mismatch")
           /\ UNCHANGED <<assembly, attached>>
  <2>1. attached /\ (call.part.index = Standalone \/ call.part.id # assembly.id)
    BY <1>1, <1>7 DEF Compatible, Current
  <2>2. NotMissing(call.part)
    BY <2>1 DEF NotMissing, Standalone
  <2> QED
    BY <1>1, <1>7, <2>1, <2>2 DEF CallEnds, Ends
<1>8. CASE /\ call.op = "accept" /\ call.live /\ Compatible(job.part)
           /\ CASE job.part.name # a.name -> Fails(job, a, disk)
                [] job.part.name = a.name /\ i \in a.received ->
                     Ends(job, "more") /\ UNCHANGED <<assembly, attached, disk>>
                [] job.part.name = a.name /\ i \notin a.received /\ i # a.next ->
                     Awaits(job, "stage", a, disk)
                [] OTHER -> Awaits(job, IF a.out THEN "append" ELSE "create", a, disk)
  <2>1. CASE Fails(job, a, disk)
    BY <1>8, <2>1 DEF Fails, Ends, CallConflicts
  <2>2. CASE i \in a.received /\ Ends(job, "more") /\ UNCHANGED <<assembly, attached>>
    <3>1. attached
      BY <1>3, <2>2, BegunPart
    <3>2. NotMissing(call.part)
      BY <2>2, <3>1 DEF NotMissing
    <3> QED
      BY <1>1, <2>2, <3>1, <3>2 DEF CallEnds, Ends
  <2>3. ASSUME NEW pc \in {"create", "append", "stage"}, Awaits(job, pc, a, disk)
        PROVE  CallWorks
    <3>1. work'.pc = pc /\ work'.part = job.part /\ work'.current = job.current
      BY <2>3 DEF Awaits, Idle
    <3> QED
      BY <1>1, <1>8, <2>3, <3>1 DEF Awaits, CallWorks
  <2> QED
    BY <1>1, <1>8, <2>1, <2>2, <2>3
<1> QED
  BY <1>1, <1>5, <1>6, <1>7, <1>8 DEF StartWork

LEMMA ShorterQueue ==
  ASSUME Inv, queue # << >>, queue' = Tail(queue)
  PROVE  /\ Len(queue) \in Nat \ {0} /\ Len(queue') = Len(queue) - 1 /\ Head(queue) = queue[1]
         /\ \A n \in 1 .. Len(queue') : n + 1 \in 1 .. Len(queue) /\ queue'[n] = queue[n + 1]
         /\ \A n \in 1 .. Len(queue') : StrayCall(n)' <=> StrayCall(n + 1)
         /\ NoStrayCall => NoStrayCall'
<1>1. queue \in Seq(Calls)
  BY DEF Inv, PersistInv, TypesOK
<1>2. /\ Len(queue) \in Nat \ {0} /\ Len(queue') = Len(queue) - 1 /\ Head(queue) = queue[1]
      /\ \A n \in 1 .. Len(queue') : n + 1 \in 1 .. Len(queue) /\ queue'[n] = queue[n + 1]
  BY <1>1, HeadTailProperties, EmptySeq
<1>3. \A n \in 1 .. Len(queue') : StrayCall(n)' <=> StrayCall(n + 1)
  BY <1>2 DEF StrayCall
<1> QED
  BY <1>2, <1>3 DEF NoStrayCall

LEMMA StartWorkStray ==
  ASSUME Inv, StrayInv, answer = NoAnswer, StartWork, UNCHANGED <<page, detours>>
  PROVE  StrayInv'
<1>1. /\ queue # << >> /\ queue' = Tail(queue) /\ work = Idle
      /\ UNCHANGED <<phase, part, expected, detours>>
  BY DEF StartWork, page
<1>2. /\ Len(queue) \in Nat \ {0} /\ Len(queue') = Len(queue) - 1 /\ Head(queue) = queue[1]
      /\ \A n \in 1 .. Len(queue') : n + 1 \in 1 .. Len(queue) /\ queue'[n] = queue[n + 1]
      /\ \A n \in 1 .. Len(queue') : StrayCall(n)' <=> StrayCall(n + 1)
      /\ NoStrayCall => NoStrayCall'
  BY <1>1, ShorterQueue
<1>3. CallEnds \/ CallConflicts \/ CallWorks
  BY CallStarts DEF StrayInv
<1>4. Idle.pc = "idle" /\ ~Idle.current /\ ~NoAnswer.current
  BY DEF Idle, NoAnswer
<1>5. 1 \in 1 .. Len(queue) /\ CurrentLast(queue)
      /\ \A n \in 1 .. Len(queue) : queue[n].current => queue[n].op = "accept"
  BY <1>2 DEF Inv, LeakInv, OneAttempt
<1>6. StrayWork' => StrayCall(1) /\ CallWorks
  BY <1>2, <1>3, <1>4 DEF StrayWork, StrayCall, CallEnds, CallConflicts, CallWorks
<1>7. OneStray'
  <2>1. detours' = 0 => NoStrayCall' /\ ~StrayWork'
    BY <1>1, <1>2, <1>5, <1>6 DEF StrayInv, OneStray, NoStrayCall
  <2>2. StrayWork' => NoStrayCall'
    <3> SUFFICES ASSUME StrayWork', NEW n \in 1 .. Len(queue'), StrayCall(n)'
                 PROVE  FALSE
      BY DEF NoStrayCall
    <3>1. StrayCall(1) /\ StrayCall(n + 1) /\ n + 1 \in 1 .. Len(queue) /\ n + 1 # 1
      BY <1>2, <1>6
    <3> QED
      BY <1>5, <3>1 DEF StrayInv, OneStray
  <2>3. ASSUME NEW m \in 1 .. Len(queue'), NEW n \in 1 .. Len(queue'),
               StrayCall(m)', StrayCall(n)'
        PROVE  m = n
    <3>1. /\ StrayCall(m + 1) /\ StrayCall(n + 1)
          /\ m + 1 \in 1 .. Len(queue) /\ n + 1 \in 1 .. Len(queue)
      BY <1>2, <2>3
    <3>2. m + 1 = n + 1
      BY <3>1 DEF StrayInv, OneStray
    <3> QED
      BY <3>2
  <2> QED
    BY <1>1, <2>1, <2>2, <2>3 DEF StrayInv, OneStray
<1>8. OwnPart'
  <2>1. \A n \in 1 .. Len(queue') :
          /\ queue'[n].op = "accept" => queue'[n].part \in Streams
          /\ queue'[n].current => queue'[n].part = part'
    BY <1>1, <1>2 DEF StrayInv, OwnPart
  <2>2. /\ queue[1].current => queue[1].part = part
        /\ queue[1].op = "accept" => queue[1].part \in Streams
        /\ attached => assembly.id # NoStream.id
    BY <1>5 DEF StrayInv, OwnPart
  <2>3. CASE CallEnds
    <3>3. /\ work'.current = FALSE /\ (attached' => attached /\ assembly' = assembly)
          /\ attached' = attached
      BY <1>4, <2>3 DEF CallEnds
    <3>4. ASSUME answer'.current, answer'.kind \in {"more", "mismatch"}
          PROVE  /\ attached'
                 /\ part'.id = assembly'.id =>
                      part'.index \notin (0 .. Count - 1) \ assembly'.received
      <4>1. attached /\ NotMissing(queue[1].part) /\ queue[1].part = part
        BY <1>2, <2>2, <2>3, <3>4 DEF CallEnds
      <4>2. assembly' = assembly /\ attached'
        BY <2>3, <4>1 DEF CallEnds
      <4> QED
        BY <1>1, <4>1, <4>2 DEF NotMissing
    <3> QED
      BY <2>1, <2>2, <3>3, <3>4 DEF OwnPart, NotMissing
  <2>4. CASE CallConflicts
    BY <1>4, <2>1, <2>4 DEF CallConflicts, OwnPart
  <2>5. CASE CallWorks
    <3>1. assembly'.id # NoStream.id
      BY <1>2, <2>2, <2>5, BegunPart, AssemblerAssumption DEF CallWorks
    <3> QED
      BY <1>1, <1>2, <1>4, <2>1, <2>2, <2>5, <3>1 DEF CallWorks, OwnPart
  <2> QED
    BY <1>3, <2>3, <2>4, <2>5
<1>9. StrayExpected'
  <2>2. ASSUME phase # "switching", NEW n \in 1 .. Len(queue'), StrayCall(n)'
        PROVE  expected' = ExpectedTransfer'
    <3>1. StrayCall(n + 1) /\ n + 1 \in 1 .. Len(queue) /\ n + 1 # 1
      BY <1>2, <2>2
    <3>2. ~(queue[1].op = "accept" /\ queue[1].live)
      <4>1. ~queue[1].current
        BY <1>2, <1>5, <3>1 DEF CurrentLast, StrayCall
      <4>2. ~StrayCall(1)
        BY <1>5, <3>1 DEF StrayInv, OneStray
      <4> QED
        BY <4>1, <4>2 DEF StrayCall
    <3>3. CallEnds
      BY <1>2, <1>3, <3>2 DEF CallConflicts, CallWorks
    <3>4. ExpectedTransfer' = ExpectedTransfer
      BY <3>3 DEF CallEnds, ExpectedTransfer, Current
    <3> QED
      BY <1>1, <2>2, <3>1, <3>4 DEF StrayInv, StrayExpected
  <2>3. ASSUME phase # "switching", StrayWork'
        PROVE  IF expected' = NoExpected THEN Begins' ELSE assembly'.id = expected'.id
    <3>1. StrayCall(1) /\ CallWorks
      BY <1>6, <2>3
    <3>2. expected = ExpectedTransfer
      BY <1>5, <2>3, <3>1 DEF StrayInv, StrayExpected
    <3>3. CASE attached
      <4>1. expected # NoExpected /\ expected.id = assembly.id
        BY <3>2, <3>3, ExpectedOfAttached DEF StrayInv
      <4> QED
        BY <1>1, <3>1, <3>3, <4>1 DEF CallWorks
    <3>4. CASE ~attached
      <4>1. expected = NoExpected
        BY <3>2, <3>4 DEF ExpectedTransfer, Current, ExpectedOf
      <4>2. Begins'
        BY <3>1, <3>4, BegunPart DEF CallWorks, Begins
      <4> QED
        BY <1>1, <4>1, <4>2
    <3> QED
      BY <3>3, <3>4
  <2> QED
    BY <1>1, <2>2, <2>3 DEF StrayExpected
<1> QED
  BY <1>7, <1>8, <1>9 DEF StrayInv

LEMMA JobStray ==
  ASSUME Inv, StrayInv, answer = NoAnswer, JobStep, UNCHANGED <<page, detours>>
  PROVE  StrayInv'
<1>1. UNCHANGED <<queue, phase, part, expected, detours>> /\ work.pc # "idle"
  BY DEF JobStep, page, OutputCreated, PartAppended, PartFlushed, StageCreated, StageClosed,
         Finished, Settled, DiskFails, Working
<1>2. GoesOn \/ Receives \/ Detaches
  BY JobEnds
<1>3. Idle.pc = "idle" /\ ~Idle.current /\ ~answer.current /\ answer.kind = "none"
  BY DEF Idle, NoAnswer
<1>4. StrayWork' => StrayWork /\ GoesOn
  BY <1>1, <1>2, <1>3 DEF StrayWork, GoesOn, Receives, Detaches
<1>5. \A n \in 1 .. Len(queue) : StrayCall(n)' <=> StrayCall(n)
  BY <1>1 DEF StrayCall
<1>6. NoStrayCall' <=> NoStrayCall
  BY <1>1, <1>5 DEF NoStrayCall
<1>7. OneStray'
  BY <1>1, <1>4, <1>5, <1>6 DEF StrayInv, OneStray
<1>8. OwnPart'
  <2>1. CASE GoesOn
    BY <1>1, <1>3, <2>1 DEF StrayInv, OwnPart, GoesOn
  <2>2. CASE Receives
    <3>2. answer'.current => work.current
      BY <2>2 DEF Receives
    <3>3. work.current => work.part = part
      BY DEF StrayInv, OwnPart
    <3>4. ASSUME answer'.current
          PROVE  part'.id = assembly'.id =>
                   part'.index \notin (0 .. Count - 1) \ assembly'.received
      BY <1>1, <2>2, <3>2, <3>3, <3>4 DEF Receives
    <3> QED
      BY <1>1, <1>3, <2>2, <3>4 DEF StrayInv, OwnPart, Receives, NotMissing
  <2>3. CASE Detaches
    BY <1>1, <1>3, <2>3 DEF StrayInv, OwnPart, Detaches
  <2> QED
    BY <1>2, <2>1, <2>2, <2>3
<1>9. StrayExpected'
  <2>1. ASSUME phase # "switching", NEW n \in 1 .. Len(queue), StrayCall(n)
        PROVE  expected = ExpectedTransfer'
    <3>1. ~attached
      <4>1. ~StrayWork
        BY <2>1 DEF StrayInv, OneStray, NoStrayCall
      <4>2. ~work.current
        BY <2>1 DEF StrayCall, Inv, LeakInv, OneAttempt, NoAccept
      <4> QED
        BY <1>1, <4>1, <4>2 DEF StrayWork
    <3>2. Detaches
      BY <1>2, <3>1 DEF GoesOn, Receives
    <3>3. Current = NoAssembly /\ Current' = NoAssembly
      BY <3>1, <3>2 DEF Current, Detaches
    <3> QED
      BY <2>1, <3>3 DEF StrayInv, StrayExpected, ExpectedTransfer
  <2>2. ASSUME phase # "switching", StrayWork'
        PROVE  IF expected = NoExpected THEN Begins' ELSE assembly'.id = expected.id
    <3>1. StrayWork /\ GoesOn /\ attached
      BY <1>4, <2>2 DEF StrayWork
    <3>2. CASE expected = NoExpected
      <4>1. Begins
        BY <2>2, <3>1, <3>2 DEF StrayInv, StrayExpected
      <4>2. ~DiskFails
        <5>1. DiskFails => attached' = FALSE
          BY DEF DiskFails, Fails
        <5> QED
          BY <3>1, <5>1 DEF GoesOn
      <4>3. ~Receives
        BY <1>3, <3>1 DEF GoesOn, Receives
      <4> QED
        BY <3>1, <3>2, <4>1, <4>2, <4>3, BeginsStays
    <3>3. CASE expected # NoExpected
      BY <2>2, <3>1, <3>3 DEF StrayInv, StrayExpected, GoesOn
    <3> QED
      BY <3>2, <3>3
  <2> QED
    BY <1>1, <1>5, <2>1, <2>2 DEF StrayInv, StrayExpected
<1> QED
  BY <1>7, <1>8, <1>9 DEF StrayInv

LEMMA KeepingStray ==
  ASSUME Inv, StrayInv, answer = NoAnswer, KeepingStep
  PROVE  StrayInv'
<1>1. Keeps
  BY StepKeeps
<1>2. /\ expected' = expected /\ detours' \in {detours, detours + 1}
      /\ phase = "accepting" => part' = part
      /\ phase = "switching" => phase' = "switching"
  <2>1. CASE (\E s \in Streams : Show(s)) \/ Started \/ StartRefused \/ Resize
    BY <2>1 DEF Show, Started, StartRefused, Resize, Detour, page, bounds
  <2>2. CASE ApngParsed \/ ApngDecoded \/ RejectionDecoded \/ ProgressShown \/ PoolIdle \/ Unpacked
    BY <2>2 DEF ApngParsed, ApngDecoded, RejectionDecoded, ProgressShown, PoolIdle, Unpacked, bounds
  <2>3. CASE StreamIdles \/ \E w \in Workers : PoolNext(w)
    BY <2>3 DEF StreamIdles, PoolNext, Capture, ParseFrame, Forward, TaskComplete, page, bounds
  <2>4. CASE SourceEnds \/ ApngRefused \/ UnpackFails \/ \E w \in Workers : WorkerFails(w)
    BY <2>4 DEF SourceEnds, ApngRefused, UnpackFails, WorkerFails, Detour, Retry, bounds
  <2>5. CASE FountainFails
    BY <2>5 DEF FountainFails, Done, Retry, bounds
  <2>6. CASE (\E s \in Streams : DecodeFrame(s)) \/ OnProcessed
    BY <2>6 DEF DecodeFrame, OnProcessed, page, bounds
  <2>7. CASE OnComplete
    BY <2>7 DEF OnComplete, Done, bounds
  <2>8. CASE OnVerdict
    BY <2>8 DEF OnVerdict, Retry, bounds
  <2> QED
    BY <2>1, <2>2, <2>3, <2>4, <2>5, <2>6, <2>7, <2>8 DEF KeepingStep
<1> QED
  BY <1>1, <1>2, KeepsStray

LEMMA SupersedingStray ==
  ASSUME Inv, StrayInv, answer = NoAnswer, MaxDetours \in {0, 1},
         \/ \E s \in Streams : Start(s) \/ \E n \in 1 .. Symbols : StartApng(s, n)
         \/ SwitchMode \/ SwitchDone \/ Restart \/ ApngRejected \/ Mismatched
  PROVE  StrayInv'
<1>1. Supersedes
  BY StepSupersedes
<1>2. CASE SwitchMode
  BY <1>1, <1>2, SwitchModeStray
<1>3. CASE \E s \in Streams : Start(s) \/ \E n \in 1 .. Symbols : StartApng(s, n)
  BY <1>1, <1>3, SupersedesStray DEF Start, StartApng, bounds
<1>4. CASE SwitchDone \/ Restart \/ ApngRejected \/ Mismatched
  BY <1>1, <1>4, SupersedesStray
  DEF SwitchDone, Restart, ApngRejected, Mismatched, Park, ResetReceiver, bounds
<1> QED
  BY <1>2, <1>3, <1>4

LEMMA StrayNext ==
  ASSUME Inv, PartsShown, StrayInv, MaxDetours \in {0, 1}, [Next]_vars
  PROVE  StrayInv'
<1>1. CASE UNCHANGED vars
  <2>1. UNCHANGED <<assembly, attached, queue, work, answer, phase, part, expected, detours>>
    BY <1>1 DEF vars, assemblerVars, page, bounds
  <2>2. ExpectedTransfer' = ExpectedTransfer
    BY <2>1 DEF ExpectedTransfer, Current
  <2>3. OneStray'
    BY <2>1 DEF StrayInv, OneStray, NoStrayCall, StrayCall, StrayWork
  <2>4. OwnPart'
    BY <2>1 DEF StrayInv, OwnPart, NotMissing
  <2>5. StrayExpected'
    BY <2>1, <2>2 DEF StrayInv, StrayExpected, StrayCall, StrayWork, Begins
  <2> QED
    BY <2>3, <2>4, <2>5 DEF StrayInv
<1>2. CASE OnAnswer
  BY <1>2, OnAnswerStray
<1>3. CASE answer = NoAnswer /\ KeepingStep
  BY <1>3, KeepingStray
<1>4. CASE answer = NoAnswer /\ \/ \E s \in Streams : \/ Start(s)
                                                      \/ \E n \in 1 .. Symbols : StartApng(s, n)
                                \/ SwitchMode \/ SwitchDone \/ Restart
                                \/ ApngRejected \/ Mismatched
  BY <1>4, SupersedingStray
<1>5. CASE answer = NoAnswer /\ (Other \/ Unmount)
  BY <1>5, StepForgets, ForgetsStray DEF Other, Unmount, bounds
<1>6. CASE answer = NoAnswer /\ (ShowFile \/ CodecsFail)
  BY <1>6, StepResets, ResetsStray DEF ShowFile, CodecsFail, bounds
<1>7. CASE answer = NoAnswer /\ AcceptPart
  BY <1>7, AcceptPartStray
<1>8. CASE answer = NoAnswer /\ (Assembles \/ AssemblerFails)
  <2>1. UNCHANGED <<page, detours>> /\ (StartWork \/ JobStep)
    BY <1>8 DEF Assembles, AssemblerFails, Works, JobStep, bounds
  <2> QED
    BY <1>8, <2>1, StartWorkStray, JobStray
<1>9. CASE answer = NoAnswer /\ (UserNext \/ FaultNext)
  BY <1>3, <1>4, <1>5, <1>6, <1>8, <1>9 DEF UserNext, FaultNext, KeepingStep
<1>10. CASE answer = NoAnswer /\ (FountainNext \/ PageNext \/ \E w \in Workers : PoolNext(w))
  BY <1>3, <1>4, <1>6, <1>7, <1>10 DEF FountainNext, PageNext, KeepingStep
<1> QED
  BY <1>1, <1>2, <1>8, <1>9, <1>10 DEF Next

LEMMA StrayInit ==
  ASSUME Init
  PROVE  StrayInv
<1>1. queue = << >> /\ work = Idle /\ answer = NoAnswer /\ ~attached /\ detours = 0
  BY DEF Init, InitAssembler
<1>2. expected = NoExpected /\ Len(queue) = 0
  BY <1>1 DEF Init
<1>3. OneStray
  BY <1>1, <1>2 DEF OneStray, NoStrayCall, StrayWork
<1>4. OwnPart
  BY <1>1, <1>2 DEF OwnPart, Idle, NoAnswer
<1>5. StrayExpected
  BY <1>1, <1>2 DEF StrayExpected, StrayWork
<1> QED
  BY <1>3, <1>4, <1>5 DEF StrayInv

-----------------------------------------------------------------------------
(* What the page and the fountain worker know, and how it is typed.        *)

LEMMA ExpectationTypes ==
  ASSUME Inv
  PROVE  ExpectedTransfer \in Expectations /\ NoExpected \in Expectations
<1>1. NoExpected \in Expectations
  <2>1. NoStream \in Parts /\ NoStream.id = "none"
    BY PartTypes DEF NoStream
  <2> QED
    BY <2>1 DEF NoExpected, Expectations
<1>2. Current.id \in {s.id : s \in Parts}
  BY NoAssemblyType DEF Current, Inv, PersistInv, TypesOK, Assemblies
<1>3. [id |-> Current.id, missing |-> (0 .. Count - 1) \ Current.received] \in Expectations
  BY <1>2 DEF Expectations
<1> QED
  BY <1>1, <1>3 DEF ExpectedTransfer, ExpectedOf

LEMMA NoFountainType ==
  ASSUME Inv
  PROVE  NoFountain \in Fountains /\ NoSource \in Sources /\ ~NoFountain.done
         /\ NoFountain.stream = NoStream
         /\ \A s \in Parts : Shows(s) \in Sources /\ Shows(s).stream = s
<1>1. NoStream \in Parts /\ NoExpected \in Expectations
  BY ExpectationTypes, PartTypes
<1>2. 0 \in 0 .. Symbols - 1
  BY ReceiverAssumption
<1>3. NoSource \in Sources
  BY <1>1 DEF NoSource, Sources
<1>4. \A s \in Parts : Shows(s) \in Sources /\ Shows(s).stream = s
  BY <1>3 DEF Shows, Sources
<1>5. NoFountain \in Fountains /\ ~NoFountain.done /\ NoFountain.stream = NoStream
  BY <1>1, <1>2 DEF NoFountain, Fountains
<1> QED
  BY <1>3, <1>4, <1>5

\* What the fountain worker has when it has collected one more symbol.
LEMMA CollectedFields ==
  ASSUME PageTypes, NEW s \in Streams
  PROVE  /\ Collected(s) \in Fountains /\ Collected(s).stream = s
         /\ Collected(s).expected = fountain.expected
         /\ LET n == 1 + IF fountain.stream = s THEN fountain.count ELSE 0
            IN  /\ Collected(s).done <=> n = Symbols
                /\ ~Collected(s).done => Collected(s).count = n
<1> DEFINE n == 1 + IF fountain.stream = s THEN fountain.count ELSE 0
           k == IF n = Symbols THEN 0 ELSE n
           d == n = Symbols
           g == [fountain EXCEPT !.stream = s, !.count = k, !.done = d, !.recent = TRUE,
                                 !.verdict = NoStream]
<1>1. fountain \in Fountains /\ s \in Parts /\ NoStream \in Parts
  BY PartTypes DEF PageTypes, Parts
<1>2. n \in 1 .. Symbols
  BY <1>1, ReceiverAssumption DEF Fountains
<1>3. k \in 0 .. Symbols - 1 /\ d \in BOOLEAN
  BY <1>2, ReceiverAssumption
<1>4. Collected(s) = g
  BY DEF Collected
<1>5. /\ d <=> n = Symbols
      /\ ~d => k = n
  OBVIOUS
<1> HIDE DEF n, k, d
<1>6. g \in Fountains /\ g.stream = s /\ g.expected = fountain.expected
      /\ g.done = d /\ g.count = k
  BY <1>1, <1>3 DEF Fountains
<1> HIDE DEF g
<1> QED
  BY <1>4, <1>5, <1>6 DEF n

LEMMA TypesNext ==
  ASSUME Inv, PageTypes, [Next]_vars
  PROVE  PageTypes'
<1>1. /\ expected \in Expectations /\ ExpectedTransfer \in Expectations
      /\ NoExpected \in Expectations
  BY ExpectationTypes DEF PageTypes
<1>2. /\ fountain \in Fountains /\ NoFountain \in Fountains
      /\ source \in Sources /\ NoSource \in Sources
      /\ NoStream \in Parts /\ \A s \in Streams : s \in Parts /\ Shows(s) \in Sources
  BY NoFountainType, PartTypes DEF PageTypes, Parts
<1>3. /\ [fountain EXCEPT !.recent = FALSE] \in Fountains
      /\ [fountain EXCEPT !.state = "crashed"] \in Fountains
      /\ \A s \in Parts : [fountain EXCEPT !.verdict = s] \in Fountains
      /\ [fountain EXCEPT !.state = IF @ = "none" THEN "running" ELSE @, !.expected = expected]
           \in Fountains
  BY <1>1, <1>2 DEF Fountains
<1>4. expected' \in Expectations
  <2>1. expected' \in {expected, ExpectedTransfer, NoExpected}
    <3>1. CASE UNCHANGED vars
      BY <3>1 DEF vars, page
    <3>2. CASE OnAnswer
      <4>1. answer.current => answer.kind \in {"more", "mismatch", "stored", "failed"}
        BY DEF Inv, PersistInv, TypesOK, LeakInv, OneAttempt, Answers
      <4>2. answer.current \in BOOLEAN
        BY DEF Inv, PersistInv, TypesOK, Answers
      <4> QED
        BY <3>2, <4>1, <4>2 DEF OnAnswer, page, Park, ResetReceiver, ResetParts, FailTransfer
    <3>3. CASE UserNext
      BY <3>3 DEF UserNext, Start, Show, StartApng, StartRefused, SourceEnds, SwitchMode, Restart,
                  Other, Unmount, Resize, Park, ResetReceiver, ForgetParts, page
    <3>4. CASE FaultNext
      BY <3>4 DEF FaultNext, WorkerFails, FountainFails, UnpackFails, CodecsFail, AssemblerFails,
                  FailTransfer, ResetParts, page
    <3>5. CASE FountainNext \/ Assembles \/ \E w \in Workers : PoolNext(w)
      BY <3>5 DEF FountainNext, StreamIdles, DecodeFrame, Assembles, PoolNext, Capture, ParseFrame,
                  Forward, TaskComplete, page
    <3>6. CASE PageNext
      BY <3>6 DEF PageNext, Started, SwitchDone, OnProcessed, OnComplete, OnVerdict, ApngParsed,
                  ApngDecoded, ApngRefused, RejectionDecoded, ApngRejected, ProgressShown, PoolIdle,
                  Mismatched, ShowFile, Unpacked, AcceptPart, Park, ResetReceiver, ResetParts, page
    <3> QED
      BY <3>1, <3>2, <3>3, <3>4, <3>5, <3>6 DEF Next
  <2> QED
    BY <1>1, <2>1
<1>5. fountain' \in Fountains
  <2>1. CASE UNCHANGED vars
    BY <1>2, <2>1 DEF vars, pipeline
  <2>2. CASE OnAnswer
    BY <1>2, <2>2 DEF OnAnswer, pipeline, Park, ReleaseDecodeWorkers, FailTransfer,
                      Inv, PersistInv, TypesOK, LeakInv, OneAttempt, Answers
  <2>3. CASE UserNext
    BY <1>2, <2>3 DEF UserNext, Start, Show, StartApng, StartRefused, SourceEnds, SwitchMode,
                      Restart, Other, Unmount, Resize, Park, Retry, ReleaseDecodeWorkers, pipeline
  <2>4. CASE FaultNext
    <3>1. CASE FountainFails
      BY <1>2, <1>3, <3>1 DEF FountainFails, Retry, ReleaseDecodeWorkers
    <3> QED
      BY <1>2, <2>4, <3>1 DEF FaultNext, WorkerFails, UnpackFails, CodecsFail, AssemblerFails,
                  FailTransfer, Retry, ReleaseDecodeWorkers, pipeline
  <2>5. CASE FountainNext
    <3>1. CASE StreamIdles
      BY <1>3, <3>1 DEF StreamIdles
    <3>2. ASSUME NEW s \in Streams, DecodeFrame(s)
          PROVE  fountain' \in Fountains
      <4>1. Collected(s) \in Fountains
        BY CollectedFields
      <4>2. fountain' \in {[fountain EXCEPT !.verdict = s], [fountain EXCEPT !.verdict = NoStream],
                           Collected(s)}
        BY <3>2 DEF DecodeFrame
      <4> QED
        BY <1>2, <1>3, <4>1, <4>2
    <3> QED
      BY <2>5, <3>1, <3>2 DEF FountainNext
  <2>6. CASE PageNext
    <3>1. CASE Started
      BY <1>3, <3>1 DEF Started
    <3> QED
      BY <1>2, <2>6, <3>1 DEF PageNext, SwitchDone, OnProcessed, OnComplete, OnVerdict, ApngParsed,
                  ApngDecoded, ApngRefused, RejectionDecoded, ApngRejected, ProgressShown, PoolIdle,
                  Mismatched, ShowFile, Unpacked, AcceptPart, Park, Retry, ReleaseDecodeWorkers,
                  pipeline
  <2>7. CASE Assembles \/ \E w \in Workers : PoolNext(w)
    BY <1>2, <2>7 DEF Assembles, PoolNext, Capture, ParseFrame, Forward, TaskComplete, pipeline
  <2> QED
    BY <2>1, <2>2, <2>3, <2>4, <2>5, <2>6, <2>7 DEF Next
<1>6. source' \in Sources
  <2>1. CASE UNCHANGED vars
    BY <1>2, <2>1 DEF vars, page
  <2>2. CASE OnAnswer
    BY <1>2, <2>2 DEF OnAnswer, page, Park, ResetReceiver,
                      Inv, PersistInv, TypesOK, LeakInv, OneAttempt, Answers
  <2>3. CASE UserNext
    <3>1. ASSUME NEW s \in Streams, NEW n \in 1 .. Symbols, StartApng(s, n)
          PROVE  source' \in Sources
      BY <1>2, <3>1, ReceiverAssumption DEF StartApng, Sources
    <3> QED
      BY <1>2, <2>3, <3>1 DEF UserNext, Start, Show, StartRefused, SourceEnds, SwitchMode,
                        Restart, Other, Unmount, Resize, Park, ResetReceiver, Retry, page
  <2>4. CASE FaultNext
    BY <1>2, <2>4 DEF FaultNext, WorkerFails, FountainFails, UnpackFails, CodecsFail,
                AssemblerFails, Retry, page
  <2>5. CASE FountainNext \/ Assembles
    BY <1>2, <2>5 DEF FountainNext, StreamIdles, DecodeFrame, Assembles, page
  <2>6. CASE PageNext
    BY <1>2, <2>6 DEF PageNext, Started, SwitchDone, OnProcessed, OnComplete, OnVerdict, ApngParsed,
                ApngDecoded, ApngRefused, RejectionDecoded, ApngRejected, ProgressShown, PoolIdle,
                Mismatched, ShowFile, Unpacked, AcceptPart, Park, ResetReceiver, Retry, page
  <2>7. CASE \E w \in Workers : PoolNext(w)
    <3>1. ASSUME NEW w \in Workers, ParseFrame(w)
          PROVE  source' \in Sources
      <4>1. [source EXCEPT !.left = @ - 1] \in Sources
        BY <1>2, <3>1 DEF ParseFrame, Sources
      <4> QED
        BY <3>1, <4>1 DEF ParseFrame
    <3> QED
      BY <1>2, <2>7, <3>1 DEF PoolNext, Capture, Forward, TaskComplete, page
  <2> QED
    BY <2>1, <2>2, <2>3, <2>4, <2>5, <2>6, <2>7 DEF Next
<1>7. phase' \in Phases
  <2>1. phase \in Phases
    BY DEF PageTypes
  <2>2. CASE UNCHANGED vars \/ OnAnswer
    BY <2>1, <2>2 DEF vars, page, OnAnswer, Park, ResetReceiver, FailTransfer, Phases,
                      Inv, PersistInv, TypesOK, LeakInv, OneAttempt, Answers
  <2>3. CASE UserNext \/ FaultNext
    BY <2>1, <2>3 DEF UserNext, Start, Show, StartApng, StartRefused, SourceEnds, SwitchMode,
                      Restart, Other, Unmount, Resize, Park, ResetReceiver, Retry, FaultNext,
                      WorkerFails, FountainFails, UnpackFails, CodecsFail, AssemblerFails,
                      FailTransfer, page, Phases
  <2>4. CASE FountainNext \/ Assembles \/ \E w \in Workers : PoolNext(w)
    BY <2>1, <2>4 DEF FountainNext, StreamIdles, DecodeFrame, Assembles, PoolNext, Capture,
                      ParseFrame, Forward, TaskComplete, page
  <2>5. CASE PageNext
    BY <2>1, <2>5 DEF PageNext, Started, SwitchDone, OnProcessed, OnComplete, OnVerdict, ApngParsed,
                ApngDecoded, ApngRefused, RejectionDecoded, ApngRejected, ProgressShown, PoolIdle,
                Mismatched, ShowFile, Unpacked, AcceptPart, Park, ResetReceiver, Retry, page, Phases
  <2> QED
    BY <2>2, <2>3, <2>4, <2>5 DEF Next
<1> QED
  BY <1>4, <1>5, <1>6, <1>7 DEF PageTypes

LEMMA TypesInit ==
  ASSUME Init, Inv
  PROVE  PageTypes
BY NoFountainType, ExpectationTypes DEF Init, PageTypes, Phases

-----------------------------------------------------------------------------
(* What is not asked for stays so.                                         *)

WaitingPhases == {"ready", "starting"} \cup ReadPhases \cup Rejecting

\* What is received is not asked for.
LEMMA NotMissingIsUnwanted ==
  ASSUME OwnPart, attached, NEW s, NotMissing(s)
  PROVE  /\ ExpectedTransfer # NoExpected
         /\ ~(s.id = ExpectedTransfer.id /\ s.index \in ExpectedTransfer.missing)
BY ExpectedOfAttached DEF NotMissing

LEMMA DoneWithKeeps ==
  ASSUME DoneWith, UNCHANGED <<assembly, attached, queue, work, expected>>,
         fountain'.stream = fountain.stream
  PROVE  DoneWith'
BY DEF DoneWith, Wanted, NotMissing, NoStrayCall, StrayCall, StrayWork, Begins

LEMMA DoneWithSupersedes ==
  ASSUME Inv, OwnPart, Supersedes, phase # "accepting", fountain' = fountain,
         expected' = ExpectedTransfer \/ (~Wanted(fountain.stream) /\ expected' = expected),
         attached, NotMissing(fountain.stream), NoStrayCall, StrayWork => Begins
  PROVE  DoneWith'
<1>1. NoCurrent(queue) /\ ~work.current
  BY DEF Inv, LeakInv, OneAttempt
<1>2. /\ UNCHANGED <<assembly, attached>> /\ work'.pc = work.pc
      /\ NoStrayCall' <=> NoStrayCall
      /\ StrayWork' <=> StrayWork
  BY <1>1, SupersedesCallsOnly
<1>3. ~(expected' = NoExpected \/ (fountain.stream.id = expected'.id
                                   /\ fountain.stream.index \in expected'.missing))
  BY NotMissingIsUnwanted DEF Wanted
<1> QED
  BY <1>2, <1>3 DEF DoneWith, Wanted, NotMissing, Begins

LEMMA DoneWithStarts ==
  ASSUME Inv, OwnPart, answer = NoAnswer, StartWork, phase # "accepting", DoneWith,
         UNCHANGED <<expected, fountain>>
  PROVE  DoneWith'
<1>1. queue # << >> /\ queue' = Tail(queue)
  BY DEF StartWork
<1>2. /\ 1 \in 1 .. Len(queue) /\ Head(queue) = queue[1]
      /\ NoStrayCall => NoStrayCall'
  BY <1>1, ShorterQueue
<1>3. ~(Head(queue).op = "accept" /\ Head(queue).live)
  BY <1>2 DEF DoneWith, NoStrayCall, StrayCall, Inv, LeakInv, OneAttempt, NoCurrent
<1>4. CallEnds
  BY <1>3, CallStarts DEF CallConflicts, CallWorks
<1>5. UNCHANGED <<attached, assembly>> /\ work'.pc = "idle"
  BY <1>4 DEF CallEnds, DoneWith, Idle
<1> QED
  BY <1>2, <1>5 DEF DoneWith, Wanted, NotMissing, StrayWork

LEMMA DoneWithGoesOn ==
  ASSUME Inv, answer = NoAnswer, JobStep, ~DiskFails, phase # "accepting", DoneWith,
         UNCHANGED <<expected, fountain>>
  PROVE  DoneWith'
<1>1. UNCHANGED queue /\ work.pc # "idle" /\ ~work.current
  BY DEF JobStep, OutputCreated, PartAppended, PartFlushed, StageCreated, StageClosed,
         Finished, Settled, DiskFails, Working, Inv, LeakInv, OneAttempt
<1>2. attached /\ Begins
  BY <1>1 DEF DoneWith, StrayWork
<1>3. (GoesOn /\ Begins') \/ Receives
  BY <1>2, BeginsStays
<1>4. NoStrayCall'
  BY <1>1 DEF DoneWith, NoStrayCall, StrayCall
<1>5. attached' /\ assembly'.id = assembly.id /\ assembly.received \subseteq assembly'.received
  BY <1>2, <1>3 DEF GoesOn, Receives, Begins
<1>6. StrayWork' => Begins'
  BY <1>3 DEF Receives, StrayWork, Idle
<1> QED
  BY <1>4, <1>5, <1>6 DEF DoneWith, Wanted, NotMissing

-----------------------------------------------------------------------------
(* The steps that end an attempt, and those that say nothing of a stream.  *)

LEMMA ReleasedStream ==
  ASSUME Inv, ReleaseDecodeWorkers, phase' \in {"ready", "result", "failed", "gone"}
  PROVE  StreamInv'
<1>1. ~fountain'.done
  BY NoFountainType DEF ReleaseDecodeWorkers
<1> QED
  BY <1>1 DEF StreamInv, Told, OneWanted, OneFile, RefusedIsUnwanted, ReportedIsDone,
              IgnoredIsUnwanted, ReadPhases, Rejecting, DrainPhases, FilePhases, Finishing

LEMMA ParkedStream ==
  ASSUME phase' = "ready", fountain'.done => DoneWith'
  PROVE  StreamInv'
BY DEF StreamInv, Told, OneWanted, OneFile, RefusedIsUnwanted, ReportedIsDone,
       IgnoredIsUnwanted, ReadPhases, Rejecting, DrainPhases, FilePhases, Finishing

\* Phases follow one another, and what is under way is of the stream that is shown.
LEMMA CalmStream ==
  ASSUME StreamInv, UNCHANGED <<inbox, expected>>,
         fountain'.expected = fountain.expected, fountain'.done = fountain.done,
         fountain'.stream = fountain.stream,
         phase' \in ReadPhases => phase \in ReadPhases,
         phase' \in Rejecting => phase \in Rejecting,
         phase' \in DrainPhases => phase \in DrainPhases,
         phase' \in FilePhases => phase \in FilePhases,
         phase' \in Finishing => phase \in Finishing,
         phase' \in {"result", "failed"} => phase \in {"result", "failed"},
         phase' \in WaitingPhases => phase \in WaitingPhases,
         phase' \in ReadPhases \cup Rejecting => source'.stream = source.stream,
         phase' \in DrainPhases \cup Finishing => part' = part,
         \A s \in Streams :
           UnderWay(s)' => UnderWay(s) \/ (phase \in ReadPhases /\ s = source.stream),
         phase' \in WaitingPhases /\ DoneWith => DoneWith'
  PROVE  StreamInv'
<1>1. Told'
  BY DEF StreamInv, Told
<1>2. \A s : Wanted(s)' <=> Wanted(s)
  BY DEF Wanted
<1>3. OneWanted'
  <2>1. ASSUME phase' \in ReadPhases, NEW s \in Streams, UnderWay(s)', Wanted(s)
        PROVE  s = source'.stream
    BY <2>1 DEF StreamInv, OneWanted
  <2>2. ASSUME phase' \in DrainPhases
        PROVE  Wanted(part') /\ \A s \in Streams : UnderWay(s)' /\ Wanted(s) => s = part'
    BY <2>2 DEF StreamInv, OneWanted, DrainPhases, ReadPhases
  <2> QED
    BY <2>1, <2>2 DEF OneWanted, Wanted
<1>4. OneFile'
  BY DEF StreamInv, OneFile, FilePhases, ReadPhases, Rejecting
<1>5. RefusedIsUnwanted'
  BY DEF StreamInv, RefusedIsUnwanted, Wanted
<1>6. ReportedIsDone'
  BY DEF StreamInv, ReportedIsDone, Wanted
<1>7. IgnoredIsUnwanted'
  BY DEF StreamInv, IgnoredIsUnwanted, WaitingPhases, Coming
<1> QED
  BY <1>1, <1>3, <1>4, <1>5, <1>6, <1>7 DEF StreamInv

-----------------------------------------------------------------------------
(* The messages of the fountain worker.                                    *)

\* Every message but the first stays.
LEMMA ReadTail ==
  ASSUME Inv, inbox # << >>, inbox' = Tail(inbox)
  PROVE  /\ Len(inbox) \in Nat \ {0} /\ Len(inbox') = Len(inbox) - 1 /\ Head(inbox) = inbox[1]
         /\ \A n \in 1 .. Len(inbox') : n + 1 \in 1 .. Len(inbox) /\ inbox'[n] = inbox[n + 1]
         /\ \A n \in 1 .. Len(inbox) : n = 1 \/ \E k \in 1 .. Len(inbox') : inbox'[k] = inbox[n]
         /\ \A s : Coming(s) => Coming(s)' \/ Head(inbox).type = "complete"
<1>1. inbox \in Seq(Messages)
  BY DEF Inv, PersistInv, TypesOK
<1>2. /\ Len(inbox) \in Nat \ {0} /\ Len(inbox') = Len(inbox) - 1 /\ Head(inbox) = inbox[1]
      /\ \A n \in 1 .. Len(inbox') : n + 1 \in 1 .. Len(inbox) /\ inbox'[n] = inbox[n + 1]
  BY <1>1, HeadTailProperties, EmptySeq
<1>3. ASSUME NEW n \in 1 .. Len(inbox), n # 1
      PROVE  \E k \in 1 .. Len(inbox') : inbox'[k] = inbox[n]
  <2>1. n - 1 \in 1 .. Len(inbox') /\ (n - 1) + 1 = n
    BY <1>2, <1>3
  <2>2. inbox'[n - 1] = inbox[n]
    BY <1>2, <2>1
  <2> QED
    BY <2>1, <2>2
<1>4. ASSUME NEW s, Coming(s), Head(inbox).type # "complete"
      PROVE  Coming(s)'
  <2>1. PICK n \in 1 .. Len(inbox) : inbox[n].type = "complete" /\ inbox[n].stream = s
    BY <1>4 DEF Coming
  <2>2. PICK k \in 1 .. Len(inbox') : inbox'[k] = inbox[n]
    BY <1>2, <1>3, <1>4, <2>1
  <2> QED
    BY <2>1, <2>2 DEF Coming
<1> QED
  BY <1>2, <1>3, <1>4

\* A message is read that changes nothing.
LEMMA ReadStream ==
  ASSUME Inv, StreamInv, Keeps, inbox # << >>, inbox' = Tail(inbox),
         UNCHANGED <<phase, part, source, expected, tasks, frames, fountain>>,
         Head(inbox).type = "complete" => phase \notin WaitingPhases
  PROVE  StreamInv'
<1>1. \A n \in 1 .. Len(inbox') : n + 1 \in 1 .. Len(inbox) /\ inbox'[n] = inbox[n + 1]
  BY ReadTail
<1>2. Told' /\ OneWanted'
  BY DEF StreamInv, Told, OneWanted, Wanted, UnderWay
<1>3. OneFile'
  BY <1>1 DEF StreamInv, OneFile, UnderWay
<1>4. RefusedIsUnwanted' /\ ReportedIsDone'
  BY <1>1 DEF StreamInv, RefusedIsUnwanted, ReportedIsDone, Wanted
<1>5. IgnoredIsUnwanted'
  <2> SUFFICES ASSUME phase \in WaitingPhases, fountain.done
               PROVE  Coming(fountain.stream)' \/ DoneWith'
    BY DEF IgnoredIsUnwanted, WaitingPhases, Coming
  <2>1. Coming(fountain.stream) \/ DoneWith
    BY DEF StreamInv, IgnoredIsUnwanted, WaitingPhases
  <2>2. CASE Coming(fountain.stream)
    BY <2>2, ReadTail DEF Coming
  <2>3. CASE DoneWith
    BY <2>3, DoneWithKeeps DEF Keeps, Frame
  <2> QED
    BY <2>1, <2>2, <2>3
<1> QED
  BY <1>2, <1>3, <1>4, <1>5 DEF StreamInv

LEMMA OnCompleteStream ==
  ASSUME Inv, PageTypes, StreamInv, FlowInv, ~lost, Keeps, OnComplete
  PROVE  StreamInv'
<1>1. /\ inbox # << >> /\ inbox' = Tail(inbox) /\ Head(inbox).type = "complete"
      /\ UNCHANGED <<expected, tasks, frames, fountain>>
  BY DEF OnComplete
<1>2. phase \notin {"ready", "starting"}
  BY <1>1 DEF FlowInv, QuietPhases, Quiet
<1>3. 1 \in 1 .. Len(inbox) /\ Head(inbox) = inbox[1]
  BY <1>1, ReadTail
<1>4. phase \notin Rejecting
  BY <1>1, <1>3 DEF StreamInv, RefusedIsUnwanted
<1>5. CASE Done
  <2>1. UNCHANGED <<phase, part, source>> /\ phase \notin WaitingPhases
    BY <1>5 DEF OnComplete, Done, WaitingPhases, ReadPhases, Rejecting
  <2> QED
    BY <1>1, <2>1, ReadStream
<1>6. CASE ~Done
  <2>1. phase' = "progress" /\ part' = Head(inbox).stream /\ phase \in ReadPhases
    BY <1>2, <1>4, <1>6 DEF OnComplete, Done, Rejecting, ReadPhases, PageTypes, Phases
  <2>2. /\ part' = source.stream /\ Wanted(source.stream)
        /\ fountain.done /\ fountain.stream = source.stream
    BY <1>1, <1>3, <2>1 DEF StreamInv, ReportedIsDone
  <2>3. Told'
    BY <1>1, <2>1 DEF StreamInv, Told
  <2>4. OneWanted'
    <3>1. \A s \in Streams : UnderWay(s)' /\ Wanted(s)' => s = part'
      BY <1>1, <2>1, <2>2 DEF StreamInv, OneWanted, UnderWay, Wanted
    <3> QED
      BY <1>1, <2>1, <2>2, <3>1 DEF OneWanted, Wanted, ReadPhases
  <2>5. ReportedIsDone'
    BY <1>1, <2>1, <2>2 DEF ReportedIsDone, ReadPhases
  <2>6. OneFile' /\ RefusedIsUnwanted' /\ IgnoredIsUnwanted'
    BY <2>1 DEF OneFile, RefusedIsUnwanted, IgnoredIsUnwanted, ReadPhases, FilePhases, Rejecting
  <2> QED
    BY <2>3, <2>4, <2>5, <2>6 DEF StreamInv
<1> QED
  BY <1>5, <1>6

LEMMA OnVerdictStream ==
  ASSUME Inv, StreamInv, Keeps, OnVerdict
  PROVE  StreamInv'
<1>1. /\ inbox # << >> /\ Head(inbox).type = "verdict"
      /\ UNCHANGED <<part, expected>>
  BY DEF OnVerdict
<1>2. CASE phase \notin FilePhases
  <2>1. inbox' = Tail(inbox) /\ UNCHANGED <<phase, source, tasks, frames, fountain>>
    BY <1>2 DEF OnVerdict, FilePhases
  <2> QED
    BY <1>1, <2>1, ReadStream
<1>3. CASE phase \in FilePhases /\ Current = NoAssembly
  BY <1>3, ReleasedStream DEF OnVerdict, Retry, FilePhases
<1>4. CASE phase \in FilePhases /\ Current # NoAssembly
  <2>1. /\ inbox' = Tail(inbox) /\ phase' = "rejecting"
        /\ UNCHANGED <<source, tasks, frames, fountain>>
    BY <1>4 DEF OnVerdict, FilePhases
  <2>2. /\ 1 \in 1 .. Len(inbox) /\ Head(inbox) = inbox[1]
        /\ \A n \in 1 .. Len(inbox') : n + 1 \in 1 .. Len(inbox) /\ inbox'[n] = inbox[n + 1]
    BY <1>1, <2>1, ReadTail
  <2>3. phase \in ReadPhases
    BY <1>4 DEF FilePhases, ReadPhases
  <2>4. ~Wanted(source.stream)
    BY <1>1, <1>4, <2>2, <2>3 DEF StreamInv, OneFile, RefusedIsUnwanted
  <2>5. \A n \in 1 .. Len(inbox) : inbox[n].type # "complete"
    BY <2>3, <2>4 DEF StreamInv, ReportedIsDone
  <2>6. Told'
    BY <1>1, <2>1, <2>3 DEF StreamInv, Told
  <2>7. OneFile'
    BY <1>4, <2>1, <2>2 DEF StreamInv, OneFile, UnderWay
  <2>8. RefusedIsUnwanted'
    BY <1>1, <2>1, <2>2, <2>4, <2>5 DEF RefusedIsUnwanted, Wanted, ReadPhases
  <2>9. IgnoredIsUnwanted'
    <3> SUFFICES ASSUME fountain.done PROVE DoneWith'
      BY <2>1 DEF IgnoredIsUnwanted
    <3>1. DoneWith
      BY <2>3, <2>5 DEF StreamInv, IgnoredIsUnwanted, Coming
    <3> QED
      BY <2>1, <3>1, DoneWithKeeps, <1>1 DEF Keeps, Frame
  <2>10. OneWanted' /\ ReportedIsDone'
    BY <2>1 DEF OneWanted, ReportedIsDone, ReadPhases, DrainPhases, Finishing
  <2> QED
    BY <2>6, <2>7, <2>8, <2>9, <2>10 DEF StreamInv
<1> QED
  BY <1>2, <1>3, <1>4

\* What the fountain worker says of a payload comes after all it has said before.
LEMMA SaidLast ==
  ASSUME NEW q \in Seq(Messages), NEW r \in Seq(Messages), NEW more \in Seq(Messages),
         r = q \o more
  PROVE  /\ \A n \in 1 .. Len(r) : \/ n \in 1 .. Len(q) /\ r[n] = q[n]
                                   \/ \E k \in 1 .. Len(more) : r[n] = more[k]
         /\ \A n \in 1 .. Len(q) : n \in 1 .. Len(r) /\ r[n] = q[n]
         /\ \A k \in 1 .. Len(more) : \E n \in 1 .. Len(r) : r[n] = more[k]
<1>1. /\ Len(q) \in Nat /\ Len(more) \in Nat /\ Len(r) = Len(q) + Len(more)
      /\ \A n \in 1 .. Len(r) : r[n] = IF n <= Len(q) THEN q[n] ELSE more[n - Len(q)]
  OBVIOUS
<1>2. ASSUME NEW n \in 1 .. Len(r), n > Len(q)
      PROVE  \E k \in 1 .. Len(more) : r[n] = more[k]
  <2>1. n - Len(q) \in 1 .. Len(more)
    BY <1>1, <1>2
  <2>2. r[n] = more[n - Len(q)]
    BY <1>1, <1>2
  <2> QED
    BY <2>1, <2>2
<1>3. ASSUME NEW k \in 1 .. Len(more)
      PROVE  \E n \in 1 .. Len(r) : r[n] = more[k]
  <2>1. Len(q) + k \in 1 .. Len(r) /\ ~(Len(q) + k <= Len(q)) /\ (Len(q) + k) - Len(q) = k
    BY <1>1
  <2>2. r[Len(q) + k] = more[k]
    BY <1>1, <2>1
  <2> QED
    BY <2>1, <2>2
<1> QED
  BY <1>1, <1>2, <1>3

\* What is said of one payload.
Sayings == SUBSET {"complete", "verdict"}
AtMostOne(x, S, s) == x = << >> \/ \E type \in S : x = <<Message(type, s)>>
Acknowledged(x, s) == x \o <<Message("processed", s)>>

LEMMA Said ==
  ASSUME NEW s \in Parts, NEW S \in Sayings, NEW x, AtMostOne(x, S, s),
         NEW more, more = Acknowledged(x, s)
  PROVE  /\ more \in Seq(Messages)
         /\ \A k \in 1 .. Len(more) : more[k].stream = s /\ more[k].type \in S \cup {"processed"}
         /\ x # << >> =>
              \E type \in S : \E k \in 1 .. Len(more) : more[k].stream = s /\ more[k].type = type
<1> DEFINE T == {m \in Messages : m.stream = s /\ m.type \in S \cup {"processed"}}
<1>1. \A type \in S \cup {"processed"} :
        /\ Message(type, s) \in Messages /\ Message(type, s) \in T
        /\ Message(type, s).stream = s /\ Message(type, s).type = type
  BY DEF Message, Messages, Sayings
<1> HIDE DEF T
<1>2. \A m \in T : <<m>> \in Seq(T)
  OBVIOUS
<1>3. \A m \in Messages : <<m>> \in Seq(Messages)
  OBVIOUS
<1>4. /\ x \in Seq(T) /\ <<Message("processed", s)>> \in Seq(T)
      /\ x \in Seq(Messages) /\ <<Message("processed", s)>> \in Seq(Messages)
  <2>1. << >> \in Seq(T) /\ << >> \in Seq(Messages)
    OBVIOUS
  <2>2. \A type \in S \cup {"processed"} : /\ <<Message(type, s)>> \in Seq(T)
                                           /\ <<Message(type, s)>> \in Seq(Messages)
    BY <1>1, <1>2, <1>3
  <2> QED
    BY <2>1, <2>2 DEF AtMostOne
<1>5. \A U : \A y, z \in Seq(U) : y \o z \in Seq(U)
  OBVIOUS
<1>6. more \in Seq(T) /\ more \in Seq(Messages)
  BY <1>4, <1>5 DEF Acknowledged
<1>7. \A k \in 1 .. Len(more) : more[k] \in T
  BY <1>6
<1>8. ASSUME NEW type \in S, x = <<Message(type, s)>>
      PROVE  \E k \in 1 .. Len(more) : more[k].stream = s /\ more[k].type = type
  <2>1. 1 \in 1 .. Len(x) /\ x[1] = Message(type, s)
    BY <1>8
  <2>2. 1 \in 1 .. Len(more) /\ more[1] = x[1]
    BY <1>4, <1>6, <2>1, SaidLast DEF Acknowledged
  <2> QED
    BY <1>1, <2>1, <2>2
<1> QED
  BY <1>6, <1>7, <1>8 DEF T, AtMostOne

\* How a payload is decoded.
LEMMA DecodedStream ==
  ASSUME Inv, PageTypes, FlowInv, NEW s \in Streams, DecodeFrame(s)
  PROVE  /\ fountain'.expected = fountain.expected
         /\ \A n \in 1 .. Len(inbox) : n \in 1 .. Len(inbox') /\ inbox'[n] = inbox[n]
         /\ \A n \in 1 .. Len(inbox') :
              \/ n \in 1 .. Len(inbox) /\ inbox'[n] = inbox[n]
              \/ /\ inbox'[n].stream = s
                 /\ inbox'[n].type = "verdict" => ~Acceptable(s)
                 /\ inbox'[n].type = "complete" =>
                      Acceptable(s) /\ ~Ignored(s) /\ fountain'.done /\ fountain'.stream = s
         /\ \/ fountain'.stream = fountain.stream /\ fountain'.done = fountain.done
            \/ /\ Acceptable(s) /\ ~Ignored(s) /\ fountain'.stream = s
               /\ fountain'.done => Coming(s)'
<1>1. /\ s \in Parts /\ NoStream \in Parts /\ fountain \in Fountains /\ inbox \in Seq(Messages)
  BY PartTypes DEF Parts, PageTypes, Inv, PersistInv, TypesOK
<1>2. \A v \in Parts : /\ [fountain EXCEPT !.verdict = v].expected = fountain.expected
                       /\ [fountain EXCEPT !.verdict = v].stream = fountain.stream
                       /\ [fountain EXCEPT !.verdict = v].done = fountain.done
  BY <1>1 DEF Fountains
<1>7. \A type \in {"processed", "complete", "verdict"} : <<Message(type, s)>> \in Seq(Messages)
  <2>1. \A type \in {"processed", "complete", "verdict"} : Message(type, s) \in Messages
    BY <1>1 DEF Message, Messages
  <2> QED
    BY <2>1
<1>8. << >> \in Seq(Messages)
  OBVIOUS
<1>9. \A y, z \in Seq(Messages) : inbox \o y \o z = inbox \o (y \o z)
  BY <1>1
<1>3. ASSUME NEW S \in Sayings,
             NEW x, AtMostOne(x, S, s),
             inbox' = inbox \o Acknowledged(x, s)
      PROVE  /\ \A n \in 1 .. Len(inbox) : n \in 1 .. Len(inbox') /\ inbox'[n] = inbox[n]
             /\ \A n \in 1 .. Len(inbox') :
                  \/ n \in 1 .. Len(inbox) /\ inbox'[n] = inbox[n]
                  \/ inbox'[n].stream = s /\ inbox'[n].type \in S \cup {"processed"}
             /\ x # << >> => \E type \in S : \E n \in 1 .. Len(inbox') :
                                inbox'[n].stream = s /\ inbox'[n].type = type
  <2> DEFINE more == Acknowledged(x, s)
  <2>1. inbox' = inbox \o more
    BY <1>3
  <2>2. /\ more \in Seq(Messages)
        /\ \A k \in 1 .. Len(more) : more[k].stream = s /\ more[k].type \in S \cup {"processed"}
        /\ x # << >> =>
             \E type \in S : \E k \in 1 .. Len(more) : more[k].stream = s /\ more[k].type = type
    BY <1>1, <1>3, Said
  <2> HIDE DEF more
  <2>6. inbox' \in Seq(Messages)
    BY <1>1, <2>1, <2>2
  <2>3. /\ \A n \in 1 .. Len(inbox') : \/ n \in 1 .. Len(inbox) /\ inbox'[n] = inbox[n]
                                       \/ \E k \in 1 .. Len(more) : inbox'[n] = more[k]
        /\ \A n \in 1 .. Len(inbox) : n \in 1 .. Len(inbox') /\ inbox'[n] = inbox[n]
        /\ \A k \in 1 .. Len(more) : \E n \in 1 .. Len(inbox') : inbox'[n] = more[k]
    BY <1>1, <2>1, <2>2, <2>6, SaidLast
  <2>4. ASSUME x # << >>
        PROVE  \E type \in S : \E n \in 1 .. Len(inbox') :
                 inbox'[n].stream = s /\ inbox'[n].type = type
    <3>1. PICK type \in S, k \in 1 .. Len(more) : more[k].stream = s /\ more[k].type = type
      BY <2>2, <2>4
    <3>2. PICK n \in 1 .. Len(inbox') : inbox'[n] = more[k]
      BY <2>3
    <3> QED
      BY <3>1, <3>2
  <2>5. \A n \in 1 .. Len(inbox') :
          \/ n \in 1 .. Len(inbox) /\ inbox'[n] = inbox[n]
          \/ inbox'[n].stream = s /\ inbox'[n].type \in S \cup {"processed"}
    BY <2>2, <2>3
  <2> QED
    BY <2>3, <2>4, <2>5
<1>4. CASE ~Acceptable(s)
  <2> DEFINE x == IF fountain.verdict = s THEN << >> ELSE <<Message("verdict", s)>>
  <2>1. fountain' = [fountain EXCEPT !.verdict = s]
        /\ inbox' = inbox \o x \o <<Message("processed", s)>>
    BY <1>4 DEF DecodeFrame
  <2>2. x \in Seq(Messages) /\ <<Message("processed", s)>> \in Seq(Messages)
    BY <1>7, <1>8
  <2>3. AtMostOne(x, {"verdict"}, s) /\ {"verdict"} \in Sayings
    BY DEF AtMostOne, Sayings
  <2> HIDE DEF x
  <2>4. inbox' = inbox \o Acknowledged(x, s)
    BY <1>9, <2>1, <2>2 DEF Acknowledged
  <2>5. /\ \A n \in 1 .. Len(inbox) : n \in 1 .. Len(inbox') /\ inbox'[n] = inbox[n]
        /\ \A n \in 1 .. Len(inbox') :
             \/ n \in 1 .. Len(inbox) /\ inbox'[n] = inbox[n]
             \/ inbox'[n].stream = s /\ inbox'[n].type \in {"verdict"} \cup {"processed"}
    BY <1>3, <2>3, <2>4
  <2> QED
    BY <1>1, <1>2, <1>4, <2>1, <2>5
<1>5. CASE Acceptable(s) /\ Ignored(s)
  <2>1. fountain' = [fountain EXCEPT !.verdict = NoStream]
        /\ inbox' = Append(inbox, Message("processed", s))
    BY <1>5 DEF DecodeFrame
  <2>2. Message("processed", s) \in Messages
    BY <1>1 DEF Message, Messages
  <2>3. inbox' = inbox \o Acknowledged(<< >>, s)
    BY <1>1, <2>1, <2>2 DEF Acknowledged
  <2>4. AtMostOne(<< >>, {}, s) /\ {} \in Sayings
    BY DEF AtMostOne, Sayings
  <2>5. /\ \A n \in 1 .. Len(inbox) : n \in 1 .. Len(inbox') /\ inbox'[n] = inbox[n]
        /\ \A n \in 1 .. Len(inbox') :
             \/ n \in 1 .. Len(inbox) /\ inbox'[n] = inbox[n]
             \/ inbox'[n].stream = s /\ inbox'[n].type \in {} \cup {"processed"}
    BY <1>3, <2>3, <2>4
  <2> QED
    BY <1>1, <1>2, <1>5, <2>1, <2>5
<1>6. CASE Acceptable(s) /\ ~Ignored(s)
  <2> DEFINE x == IF Collected(s).done THEN <<Message("complete", s)>> ELSE << >>
             S == IF Collected(s).done THEN {"complete"} ELSE {}
  <2>1. fountain' = Collected(s) /\ inbox' = inbox \o x \o <<Message("processed", s)>>
    BY <1>6 DEF DecodeFrame
  <2>2. x \in Seq(Messages) /\ <<Message("processed", s)>> \in Seq(Messages)
    BY <1>7, <1>8
  <2>3. AtMostOne(x, S, s)
    BY DEF AtMostOne
  <2>4. S \in Sayings /\ (Collected(s).done => x # << >>)
    BY DEF Sayings
  <2>5. (S = {"complete"} /\ Collected(s).done) \/ S = {}
    OBVIOUS
  <2> HIDE DEF x, S
  <2>6. inbox' = inbox \o Acknowledged(x, s)
    BY <1>9, <2>1, <2>2 DEF Acknowledged
  <2>8. /\ \A n \in 1 .. Len(inbox) : n \in 1 .. Len(inbox') /\ inbox'[n] = inbox[n]
        /\ \A n \in 1 .. Len(inbox') :
             \/ n \in 1 .. Len(inbox) /\ inbox'[n] = inbox[n]
             \/ inbox'[n].stream = s /\ inbox'[n].type \in S \cup {"processed"}
        /\ x # << >> => \E type \in S : \E n \in 1 .. Len(inbox') :
                           inbox'[n].stream = s /\ inbox'[n].type = type
    BY <1>3, <2>3, <2>4, <2>6
  <2>9. Collected(s).stream = s /\ Collected(s).expected = fountain.expected
    BY CollectedFields
  <2>10. Collected(s).done => Coming(s)'
    BY <2>4, <2>5, <2>8 DEF Coming
  <2> QED
    BY <1>6, <2>1, <2>5, <2>8, <2>9, <2>10
<1> QED
  BY <1>4, <1>5, <1>6

LEMMA DecodeFrameStream ==
  ASSUME Inv, PageTypes, FlowInv, ~lost, StreamInv, Keeps, NEW s \in Streams, DecodeFrame(s)
  PROVE  StreamInv'
<1>1. /\ frames[s] > 0 /\ UnderWay(s) /\ frames' = [frames EXCEPT ![s] = @ - 1]
      /\ UNCHANGED <<phase, part, source, expected, tasks>>
  BY DEF DecodeFrame, page, UnderWay
<1>2. phase \notin QuietPhases
  BY <1>1 DEF FlowInv, Quiet, NoFrames
<1>3. /\ fountain'.expected = fountain.expected
      /\ \A n \in 1 .. Len(inbox) : n \in 1 .. Len(inbox') /\ inbox'[n] = inbox[n]
      /\ \A n \in 1 .. Len(inbox') :
           \/ n \in 1 .. Len(inbox) /\ inbox'[n] = inbox[n]
           \/ /\ inbox'[n].stream = s
              /\ inbox'[n].type = "verdict" => ~Acceptable(s)
              /\ inbox'[n].type = "complete" =>
                   Acceptable(s) /\ ~Ignored(s) /\ fountain'.done /\ fountain'.stream = s
      /\ \/ fountain'.stream = fountain.stream /\ fountain'.done = fountain.done
         \/ /\ Acceptable(s) /\ ~Ignored(s) /\ fountain'.stream = s
            /\ fountain'.done => Coming(s)'
  BY DecodedStream
<1>4. \A r \in Streams : UnderWay(r)' => UnderWay(r)
  BY <1>1 DEF UnderWay, FlowInv, FlowTypes
<1>5. \A r : Wanted(r)' <=> Wanted(r)
  BY <1>1 DEF Wanted
<1>6. CASE phase \notin ReadPhases \cup Rejecting \cup DrainPhases
  <2>1. phase \in {"switching", "gone"}
    BY <1>2, <1>6 DEF QuietPhases, ReadPhases, Rejecting, DrainPhases, PageTypes, Phases
  <2> QED
    BY <1>1, <2>1 DEF StreamInv, Told, OneWanted, OneFile, RefusedIsUnwanted, ReportedIsDone,
              IgnoredIsUnwanted, ReadPhases, Rejecting, DrainPhases, FilePhases, Finishing
<1>7. CASE phase \in ReadPhases \cup Rejecting \cup DrainPhases
  <2>1. Acceptable(s) <=> Wanted(s)
    BY <1>7 DEF StreamInv, Told, Acceptable, Wanted
  <2>2. Told' /\ OneWanted'
    BY <1>1, <1>3, <1>4, <1>5 DEF StreamInv, Told, OneWanted
  <2>3. OneFile'
    BY <1>1, <1>3, <1>4 DEF StreamInv, OneFile
  <2>4. phase \in ReadPhases /\ Wanted(s) => s = source.stream
    BY <1>1 DEF StreamInv, OneWanted
  <2>5. phase \in Rejecting => ~Acceptable(s)
    BY <1>1, <2>1 DEF StreamInv, OneFile, RefusedIsUnwanted
  <2>6. RefusedIsUnwanted'
    BY <1>1, <1>3, <1>5, <2>1, <2>5 DEF StreamInv, RefusedIsUnwanted
  <2>7. phase \in DrainPhases => ~(Acceptable(s) /\ ~Ignored(s))
    BY <1>1, <2>1 DEF StreamInv, OneWanted, ReportedIsDone, Ignored, DrainPhases, Finishing
  <2>8. ReportedIsDone'
    <3>1. ASSUME phase \in ReadPhases, NEW n \in 1 .. Len(inbox'), inbox'[n].type = "complete"
          PROVE  /\ inbox'[n].stream = source.stream /\ Wanted(source.stream)
                 /\ fountain'.done /\ fountain'.stream = source.stream
      <4>1. CASE n \in 1 .. Len(inbox) /\ inbox'[n] = inbox[n]
        <5>1. /\ inbox[n].stream = source.stream /\ Wanted(source.stream)
              /\ fountain.done /\ fountain.stream = source.stream
          BY <3>1, <4>1 DEF StreamInv, ReportedIsDone
        <5>2. ~(Acceptable(s) /\ ~Ignored(s))
          BY <2>1, <2>4, <3>1, <5>1 DEF Ignored
        <5> QED
          BY <1>3, <4>1, <5>1, <5>2
      <4>2. CASE ~(n \in 1 .. Len(inbox) /\ inbox'[n] = inbox[n])
        <5>1. inbox'[n].stream = s /\ Acceptable(s) /\ fountain'.done /\ fountain'.stream = s
          BY <1>3, <3>1, <4>2
        <5>2. s = source.stream /\ Wanted(s)
          BY <2>1, <2>4, <3>1, <5>1
        <5> QED
          BY <5>1, <5>2
      <4> QED
        BY <4>1, <4>2
    <3>2. phase \in Finishing => fountain'.done /\ fountain'.stream = part
      BY <1>2, <1>3, <2>7 DEF StreamInv, ReportedIsDone, Finishing, DrainPhases, QuietPhases
    <3> QED
      BY <1>1, <1>2, <1>5, <3>1, <3>2 DEF ReportedIsDone, QuietPhases
  <2>9. IgnoredIsUnwanted'
    <3> SUFFICES ASSUME phase \in WaitingPhases, fountain'.done
                 PROVE  Coming(fountain.stream)' \/ DoneWith'
      BY <1>1 DEF IgnoredIsUnwanted, WaitingPhases, Coming
    <3>1. CASE fountain'.stream = fountain.stream /\ fountain'.done = fountain.done
      <4>1. Coming(fountain.stream) => Coming(fountain.stream)'
        BY <1>3 DEF Coming
      <4>2. DoneWith => DoneWith'
        BY <1>1, <3>1, DoneWithKeeps DEF Keeps, Frame
      <4> QED
        BY <3>1, <4>1, <4>2 DEF StreamInv, IgnoredIsUnwanted, WaitingPhases, Coming
    <3>2. CASE fountain'.stream = s /\ Coming(s)'
      BY <3>2 DEF Coming
    <3> QED
      BY <1>3, <3>1, <3>2
  <2> QED
    BY <2>2, <2>3, <2>6, <2>8, <2>9 DEF StreamInv
<1> QED
  BY <1>6, <1>7

-----------------------------------------------------------------------------
(* The steps of the page, and of what it has started.                      *)

LEMMA NothingUnderWay ==
  ASSUME Quiet, NEW s \in Streams
  PROVE  ~UnderWay(s)
<1>1. s \in Parts
  BY DEF Parts
<1> QED
  BY <1>1, TasksDiffer DEF Quiet, AllIdle, AllFree, NoFrames, UnderWay

LEMMA StartedStream ==
  ASSUME Inv, PageTypes, FlowInv, ~lost, StreamInv, Keeps, Started
  PROVE  StreamInv'
<1>1. /\ phase = "starting" /\ phase' \in {"capturing", "parsing"}
      /\ UNCHANGED <<source, expected, tasks, frames, inbox>>
      /\ fountain' = [fountain EXCEPT !.state = IF @ = "none" THEN "running" ELSE @,
                                      !.expected = expected]
  BY DEF Started
<1>2. Quiet
  BY <1>1 DEF FlowInv, QuietPhases
<1>3. fountain'.expected = expected /\ fountain'.done = fountain.done
      /\ fountain'.stream = fountain.stream
  BY <1>1 DEF PageTypes, Fountains
<1>4. \A s \in Streams : ~UnderWay(s)'
  BY <1>1, <1>2, NothingUnderWay DEF UnderWay
<1>5. inbox' = << >> /\ Len(inbox') = 0
  BY <1>1, <1>2 DEF Quiet
<1>6. Told'
  BY <1>1, <1>3 DEF Told
<1>7. OneWanted' /\ OneFile'
  BY <1>1, <1>4, <1>5 DEF OneWanted, OneFile, DrainPhases
<1>8. RefusedIsUnwanted' /\ ReportedIsDone'
  BY <1>1, <1>5 DEF RefusedIsUnwanted, ReportedIsDone, Rejecting, Finishing
<1>9. IgnoredIsUnwanted'
  <2> SUFFICES ASSUME fountain.done PROVE DoneWith'
    BY <1>3 DEF IgnoredIsUnwanted
  <2>1. ~Coming(fountain.stream)
    BY <1>1, <1>5 DEF Coming
  <2>2. DoneWith
    BY <1>1, <2>1 DEF StreamInv, IgnoredIsUnwanted
  <2> QED
    BY <1>1, <1>3, <2>2, DoneWithKeeps DEF Keeps, Frame
<1> QED
  BY <1>6, <1>7, <1>8, <1>9 DEF StreamInv

\* The sender turns to another part when the one it shows is not wanted.
LEMMA ShowStream ==
  ASSUME StreamInv, Keeps, ~EarlySwitch, NEW s \in Streams, Show(s)
  PROVE  StreamInv'
<1>1. /\ phase = "capturing" /\ ~Wanted(source.stream)
      /\ UNCHANGED <<phase, part, expected, tasks, frames, fountain, inbox>>
  BY DEF Show, pipeline
<1>2. \A r \in Streams : UnderWay(r)' <=> UnderWay(r)
  BY <1>1 DEF UnderWay
<1>3. \A r : Wanted(r)' <=> Wanted(r)
  BY <1>1 DEF Wanted
<1>4. \A r \in Streams : ~(UnderWay(r) /\ Wanted(r))
  BY <1>1 DEF StreamInv, OneWanted, ReadPhases
<1>5. \A n \in 1 .. Len(inbox) : inbox[n].type # "complete"
  BY <1>1 DEF StreamInv, ReportedIsDone, ReadPhases
<1>6. Told'
  BY <1>1 DEF StreamInv, Told
<1>7. OneWanted' /\ OneFile'
  BY <1>1, <1>2, <1>3, <1>4 DEF OneWanted, OneFile, DrainPhases, FilePhases, Rejecting
<1>8. RefusedIsUnwanted' /\ ReportedIsDone'
  BY <1>1, <1>3, <1>5 DEF StreamInv, RefusedIsUnwanted, ReportedIsDone, Rejecting, Finishing
<1>9. IgnoredIsUnwanted'
  BY <1>1, DoneWithKeeps DEF StreamInv, IgnoredIsUnwanted, Coming, Keeps, Frame
<1> QED
  BY <1>6, <1>7, <1>8, <1>9 DEF StreamInv

\* The attempt moves on.
LEMMA PhaseStream ==
  ASSUME StreamInv, Keeps,
         ApngParsed \/ ApngDecoded \/ RejectionDecoded \/ ProgressShown \/ PoolIdle \/ Unpacked
  PROVE  StreamInv'
<1>1. UNCHANGED <<assembly, attached, queue, work, part, source, expected, pipeline>>
  BY DEF ApngParsed, ApngDecoded, RejectionDecoded, ProgressShown, PoolIdle, Unpacked, assemblerVars
<1>2. UNCHANGED <<tasks, frames, fountain, inbox>>
  BY <1>1 DEF pipeline
<1>3. \A s \in Streams : UnderWay(s)' => UnderWay(s)
  BY <1>2 DEF UnderWay
<1>4. DoneWith => DoneWith'
  BY <1>1, <1>2, DoneWithKeeps
<1>5. <<phase, phase'>> \in {<<"parsing", "ending">>, <<"ending", "draining">>,
                             <<"rejecting", "rejectDrain">>, <<"progress", "idle">>,
                             <<"idle", "drain">>, <<"drain", "preparing">>}
  BY DEF ApngParsed, ApngDecoded, RejectionDecoded, ProgressShown, PoolIdle, Unpacked
<1> QED
  BY <1>1, <1>2, <1>3, <1>4, <1>5, CalmStream
  DEF ReadPhases, Rejecting, DrainPhases, FilePhases, Finishing, WaitingPhases

LEMMA AcceptPartStream ==
  ASSUME StreamInv, AcceptPart
  PROVE  StreamInv'
<1>1. /\ phase = "preparing" /\ phase' = "accepting"
      /\ UNCHANGED <<part, source, expected, tasks, frames, fountain, inbox>>
  BY DEF AcceptPart, pipeline
<1>2. \A s \in Streams : UnderWay(s)' => UnderWay(s)
  BY <1>1 DEF UnderWay
<1> QED
  BY <1>1, <1>2, CalmStream
  DEF ReadPhases, Rejecting, DrainPhases, FilePhases, Finishing, WaitingPhases

\* The phase stays.
LEMMA SamePhaseStream ==
  ASSUME StreamInv, UNCHANGED <<phase, part, inbox, expected>>, source'.stream = source.stream,
         fountain'.expected = fountain.expected, fountain'.done = fountain.done,
         fountain'.stream = fountain.stream,
         \A s \in Streams :
           UnderWay(s)' => UnderWay(s) \/ (phase \in ReadPhases /\ s = source.stream),
         phase \in WaitingPhases /\ DoneWith => DoneWith'
  PROVE  StreamInv'
BY CalmStream

LEMMA PoolStream ==
  ASSUME Inv, PageTypes, FlowInv, StreamInv, Keeps, ~lost', Resize \/ \E w \in Workers : PoolNext(w)
  PROVE  StreamInv'
<1>1. UNCHANGED <<phase, part, inbox, expected, fountain>>
  BY DEF Resize, PoolNext, Capture, ParseFrame, Forward, TaskComplete, page
<1>2. DoneWith => DoneWith'
  BY <1>1, DoneWithKeeps DEF Keeps, Frame
<1>3. /\ tasks \in [Workers -> Parts \cup {Free, Reported}] /\ frames \in [Streams -> Nat]
      /\ source \in Sources /\ Free # Reported /\ \A s \in Streams : s # Free /\ s # Reported
  BY TasksDiffer DEF FlowInv, FlowTypes, PageTypes, Parts
<1>4. /\ source'.stream = source.stream
      /\ \A s \in Streams :
           UnderWay(s)' => UnderWay(s) \/ (phase \in ReadPhases /\ s = source.stream)
  <2>1. CASE Resize
    <3>1. source' = source /\ frames' = frames /\ tasks' = [w \in Workers |-> Free]
      BY <2>1 DEF Resize, StopWorkers, page
    <3> QED
      BY <1>3, <3>1 DEF UnderWay
  <2>2. ASSUME NEW w \in Workers, Capture(w) \/ ParseFrame(w)
        PROVE  /\ source'.stream = source.stream
               /\ \A s \in Streams :
                    UnderWay(s)' => UnderWay(s) \/ (phase \in ReadPhases /\ s = source.stream)
    <3>1. phase \in ReadPhases /\ frames' = frames /\ tasks' = [tasks EXCEPT ![w] = source.stream]
      BY <2>2 DEF Capture, ParseFrame, Submit, ReadPhases
    <3>2. source'.stream = source.stream
      BY <1>3, <2>2 DEF Capture, ParseFrame, page, Sources
    <3> QED
      BY <1>3, <3>1, <3>2 DEF UnderWay
  <2>3. ASSUME NEW w \in Workers, Forward(w)
        PROVE  source' = source /\ \A s \in Streams : UnderWay(s)' => UnderWay(s)
    <3>1. /\ source' = source /\ tasks[w] \in Streams
          /\ frames' = [frames EXCEPT ![tasks[w]] = @ + 1]
          /\ tasks' = [tasks EXCEPT ![w] = Reported]
      BY <2>3 DEF Forward, page
    <3>2. ASSUME NEW s \in Streams, UnderWay(s)'
          PROVE  UnderWay(s)
      <4>1. CASE s = tasks[w]
        BY <4>1 DEF UnderWay
      <4>2. CASE s # tasks[w]
        <5>1. frames'[s] = frames[s] /\ \A v \in Workers : tasks'[v] = s => tasks[v] = s
          BY <1>3, <3>1, <4>2
        <5> QED
          BY <3>2, <5>1 DEF UnderWay
      <4> QED
        BY <4>1, <4>2
    <3> QED
      BY <3>1, <3>2
  <2>4. ASSUME NEW w \in Workers, TaskComplete(w)
        PROVE  source' = source /\ \A s \in Streams : UnderWay(s)' => UnderWay(s)
    <3>1. source' = source /\ frames' = frames /\ tasks' = [tasks EXCEPT ![w] = Free]
      BY <2>4 DEF TaskComplete, page
    <3> QED
      BY <1>3, <3>1 DEF UnderWay
  <2> QED
    BY <2>1, <2>2, <2>3, <2>4 DEF PoolNext
<1> QED
  BY <1>1, <1>2, <1>4, SamePhaseStream

LEMMA StreamIdlesStream ==
  ASSUME PageTypes, StreamInv, Keeps, StreamIdles
  PROVE  StreamInv'
<1>1. UNCHANGED <<phase, part, source, inbox, expected, tasks, frames>>
  BY DEF StreamIdles, page
<1>2. /\ fountain'.expected = fountain.expected /\ fountain'.done = fountain.done
      /\ fountain'.stream = fountain.stream
  BY DEF StreamIdles, PageTypes, Fountains
<1>3. DoneWith => DoneWith'
  BY <1>1, <1>2, DoneWithKeeps DEF Keeps, Frame
<1>4. \A s \in Streams : UnderWay(s)' => UnderWay(s)
  BY <1>1 DEF UnderWay
<1> QED
  BY <1>1, <1>2, <1>3, <1>4, SamePhaseStream

LEMMA AssemblesStream ==
  ASSUME Inv, OwnPart, StreamInv, answer = NoAnswer, Assembles, faults' = 0, faults \in Nat
  PROVE  StreamInv'
<1>1. UNCHANGED <<phase, part, source, inbox, expected, tasks, frames, fountain>>
  BY DEF Assembles, page, pipeline
<1>2. ~DiskFails
  BY DEF DiskFails
<1>3. StartWork \/ JobStep
  BY DEF Assembles, Works, JobStep
<1>4. phase \in WaitingPhases => phase # "accepting"
  BY DEF WaitingPhases, ReadPhases, Rejecting
<1>5. phase \in WaitingPhases /\ DoneWith => DoneWith'
  BY <1>1, <1>2, <1>3, <1>4, DoneWithStarts, DoneWithGoesOn
<1>6. \A s \in Streams : UnderWay(s)' => UnderWay(s)
  BY <1>1 DEF UnderWay
<1> QED
  BY <1>1, <1>5, <1>6, SamePhaseStream

-----------------------------------------------------------------------------
(* The attempts that are superseded.                                       *)

\* An attempt begins, does not begin, or its mode is changed.
LEMMA BeginsStream ==
  ASSUME Inv, OwnPart, StreamInv, Supersedes,
         SwitchMode \/ \E s \in Streams : Start(s) \/ \E n \in 1 .. Symbols : StartApng(s, n)
  PROVE  StreamInv'
<1>1. UNCHANGED <<expected, tasks, frames, fountain, inbox>>
  BY DEF SwitchMode, Start, StartApng, pipeline
<1>2. \A s \in Streams : UnderWay(s)' => UnderWay(s)
  BY <1>1 DEF UnderWay
<1>3. CASE SwitchMode
  <2>1. phase' = "switching"
    BY <1>3 DEF SwitchMode
  <2> QED
    BY <1>1, <1>2, <2>1, CalmStream
    DEF ReadPhases, Rejecting, DrainPhases, FilePhases, Finishing, WaitingPhases
<1>4. CASE \E s \in Streams : Start(s) \/ \E n \in 1 .. Symbols : StartApng(s, n)
  <2>1. phase = "ready" /\ phase' = "starting"
    BY <1>4 DEF Start, StartApng
  <2>2. DoneWith => DoneWith'
    BY <1>1, <2>1, DoneWithSupersedes DEF DoneWith
  <2> QED
    BY <1>1, <1>2, <2>1, <2>2, CalmStream
    DEF ReadPhases, Rejecting, DrainPhases, FilePhases, Finishing, WaitingPhases
<1> QED
  BY <1>3, <1>4

LEMMA StartRefusedStream ==
  ASSUME StreamInv, Keeps, StartRefused
  PROVE  StreamInv'
<1>1. /\ phase = "starting" /\ phase' = "ready"
      /\ UNCHANGED <<expected, tasks, frames, fountain, inbox>>
  BY DEF StartRefused, pipeline
<1>2. \A s \in Streams : UnderWay(s)' => UnderWay(s)
  BY <1>1 DEF UnderWay
<1>3. DoneWith => DoneWith'
  BY <1>1, DoneWithKeeps DEF Keeps, Frame
<1> QED
  BY <1>1, <1>2, <1>3, CalmStream
  DEF ReadPhases, Rejecting, DrainPhases, FilePhases, Finishing, WaitingPhases

\* The page waits for the next attempt, and the fountain worker stays.
LEMMA ParksStream ==
  ASSUME Inv, FlowInv, ~lost, PageTypes, StrayInv, StreamInv, Supersedes,
         Restart \/ ApngRejected \/ Mismatched
  PROVE  StreamInv'
<1>1. phase' = "ready" /\ fountain' = fountain /\ expected' = ExpectedTransfer
  BY DEF Restart, ApngRejected, Mismatched, Park, ResetReceiver
<1>2. OwnPart
  BY DEF StrayInv
<1>3. CASE Restart
  <2>1. ~fountain'.done
    BY <1>1, <1>3 DEF Restart, StreamInv, ReportedIsDone
  <2> QED
    BY <1>1, <2>1, ParkedStream
<1>4. CASE ApngRejected
  <2>1. phase = "rejectDrain" /\ Quiet
    BY <1>4, DrainedIsQuiet DEF ApngRejected, FlowInv, IdlePhases
  <2>2. ~Coming(fountain.stream)
    BY <2>1 DEF Quiet, Coming
  <2>3. fountain.done => DoneWith
    BY <2>1, <2>2 DEF StreamInv, IgnoredIsUnwanted, Rejecting
  <2>4. DoneWith => DoneWith'
    BY <1>1, <1>2, <2>1, DoneWithSupersedes DEF DoneWith
  <2> QED
    BY <1>1, <2>3, <2>4, ParkedStream
<1>5. CASE Mismatched
  <2>1. /\ phase = "drain" /\ fountain.stream = part /\ Wanted(part) /\ ~Compatible(part)
    BY <1>5 DEF Mismatched, StreamInv, ReportedIsDone, OneWanted, Finishing, DrainPhases
  <2>2. attached /\ Current = assembly
    BY <2>1 DEF Compatible, Current
  <2>3. expected # NoExpected => part.id = expected.id /\ part.index # Standalone
    BY <2>1 DEF Wanted, PageTypes, Expectations, Standalone
  <2>4. NotMissing(part)
    BY <2>1, <2>2 DEF Compatible, NotMissing, Standalone
  <2>5. NoStrayCall
    <3> SUFFICES ASSUME NEW n \in 1 .. Len(queue), StrayCall(n) PROVE FALSE
      BY DEF NoStrayCall
    <3>1. expected = ExpectedTransfer
      BY <2>1 DEF StrayInv, StrayExpected
    <3>2. expected # NoExpected /\ expected.id = assembly.id
      BY <1>2, <2>2, <3>1, ExpectedOfAttached
    <3> QED
      BY <2>1, <2>2, <2>3, <3>2 DEF Compatible
  <2>6. StrayWork => Begins
    BY <2>1, <2>2, <2>3 DEF StrayInv, StrayExpected, Compatible
  <2>7. DoneWith'
    BY <1>1, <1>2, <2>1, <2>2, <2>4, <2>5, <2>6, DoneWithSupersedes
  <2> QED
    BY <1>1, <2>7, ParkedStream
<1> QED
  BY <1>3, <1>4, <1>5

LEMMA OnAnswerStream ==
  ASSUME Inv, StrayInv, StreamInv, OnAnswer
  PROVE  StreamInv'
<1>1. /\ assembly' = assembly /\ work.pc = "idle" /\ work \in Jobs /\ queue \in Seq(Calls)
      /\ answer.kind \in {"none", "more", "mismatch", "stored", "failed"}
      /\ answer.current \in BOOLEAN
      /\ answer.current => answer.kind # "none" /\ NoAccept(queue) /\ phase = "accepting"
  BY DEF OnAnswer, Inv, PersistInv, TypesOK, LeakInv, OneAttempt, Answers
<1>2. CASE ~answer.current
  <2>1. UNCHANGED <<queue, work, attached, phase, part, source, inbox, expected, tasks, frames,
                    fountain>>
    BY <1>2 DEF OnAnswer, page, pipeline
  <2>2. \A s \in Streams : UnderWay(s)' => UnderWay(s)
    BY <2>1 DEF UnderWay
  <2>3. DoneWith => DoneWith'
    BY <1>1, <2>1, DoneWithKeeps
  <2> QED
    BY <2>1, <2>2, <2>3, SamePhaseStream
<1>3. CASE answer.current /\ answer.kind \in {"more", "mismatch"}
  <2>1. /\ phase' = "ready" /\ fountain' = fountain /\ expected' = ExpectedTransfer
        /\ attached' = attached /\ queue' = Superseded(queue)
        /\ work' = [work EXCEPT !.current = FALSE]
    BY <1>3 DEF OnAnswer, Park, ResetReceiver, SupersedeAttempt
  <2>2. fountain.stream = part /\ attached /\ NotMissing(part) /\ OwnPart
    BY <1>1, <1>3 DEF StreamInv, ReportedIsDone, Finishing, StrayInv, OwnPart
  <2>3. NoStrayCall' /\ ~StrayWork'
    BY <1>1, <1>3, <2>1, SupersededQueue, SupersededWork
    DEF NoAccept, NoStrayCall, StrayCall, StrayWork
  <2>4. ~(expected' = NoExpected
          \/ (part.id = expected'.id /\ part.index \in expected'.missing))
    BY <2>1, <2>2, NotMissingIsUnwanted
  <2>5. DoneWith'
    BY <1>1, <2>1, <2>2, <2>3, <2>4 DEF DoneWith, Wanted, NotMissing
  <2> QED
    BY <2>1, <2>5, ParkedStream
<1>4. CASE answer.current /\ answer.kind \in {"stored", "failed"}
  <2>1. ReleaseDecodeWorkers /\ phase' \in {"result", "failed"}
    BY <1>4 DEF OnAnswer, FailTransfer
  <2> QED
    BY <2>1, ReleasedStream
<1> QED
  BY <1>1, <1>2, <1>3, <1>4

-----------------------------------------------------------------------------
(* Every step.                                                             *)

LEMMA LostStays ==
  ASSUME [Next]_vars, ~lost', ~FaultNext
  PROVE  ~lost
<1>1. CASE UNCHANGED vars \/ OnAnswer
  BY <1>1 DEF vars, bounds, OnAnswer
<1>2. CASE UserNext
  BY <1>2 DEF UserNext, Start, Show, StartApng, StartRefused, SourceEnds, SwitchMode, Restart,
              Other, Unmount, Resize, StopWorkers, bounds
<1>3. CASE FountainNext \/ Assembles \/ \E w \in Workers : PoolNext(w)
  BY <1>3 DEF FountainNext, StreamIdles, DecodeFrame, Assembles, PoolNext, Capture, ParseFrame,
              Forward, TaskComplete, bounds
<1>4. CASE PageNext
  BY <1>4 DEF PageNext, Started, SwitchDone, OnProcessed, OnComplete, OnVerdict, ApngParsed,
              ApngDecoded, ApngRefused, RejectionDecoded, ApngRejected, ProgressShown, PoolIdle,
              Mismatched, ShowFile, Unpacked, AcceptPart, bounds
<1> QED
  BY <1>1, <1>2, <1>3, <1>4 DEF Next

LEMMA SmoothStays ==
  ASSUME faults \in Nat, [Next]_vars, Smooth'
  PROVE  Smooth /\ ~FaultNext
<1>1. ~FaultNext /\ faults = 0
  BY FaultsGrow DEF Smooth
<1>2. ~lost
  BY <1>1, LostStays DEF Smooth
<1> QED
  BY <1>1, <1>2 DEF Smooth

LEMMA StreamNext ==
  ASSUME Inv, FlowInv, PageTypes, StrayInv, StreamInv, Patient, [Next]_vars, Smooth',
         faults \in Nat
  PROVE  StreamInv'
<1>1. ~FaultNext /\ ~lost /\ ~lost' /\ faults' = 0
  BY SmoothStays DEF Smooth
<1>3. OwnPart /\ ~EarlySwitch
  BY DEF StrayInv, Patient
<1>4. CASE UNCHANGED vars
  <2>1. UNCHANGED <<assembly, attached, queue, work, phase, part, source, inbox, expected, tasks,
                    frames, fountain>>
    BY <1>4 DEF vars, assemblerVars, page, pipeline
  <2>2. \A s \in Streams : UnderWay(s)' => UnderWay(s)
    BY <2>1 DEF UnderWay
  <2>3. DoneWith => DoneWith'
    BY <2>1, DoneWithKeeps
  <2> QED
    BY <2>1, <2>2, <2>3, SamePhaseStream
<1>5. CASE OnAnswer
  BY <1>5, OnAnswerStream
<1>6. CASE answer = NoAnswer /\ UserNext
  <2>1. CASE SwitchMode \/ \E s \in Streams : Start(s) \/ \E n \in 1 .. Symbols : StartApng(s, n)
    BY <1>3, <1>6, <2>1, StepSupersedes, BeginsStream
  <2>2. CASE \E s \in Streams : Show(s)
    BY <1>3, <1>6, <2>2, StepKeeps, ShowStream DEF KeepingStep
  <2>3. CASE StartRefused
    BY <1>6, <2>3, StepKeeps, StartRefusedStream DEF KeepingStep
  <2>4. CASE SourceEnds \/ Unmount
    BY <2>4, ReleasedStream DEF SourceEnds, Retry, Unmount
  <2>5. CASE Other
    BY <2>5, ReleasedStream DEF Other
  <2>6. CASE Restart
    BY <1>1, <1>6, <2>6, StepSupersedes, ParksStream
  <2>7. CASE Resize
    BY <1>1, <1>6, <2>7, StepKeeps, PoolStream DEF KeepingStep
  <2> QED
    BY <1>6, <2>1, <2>2, <2>3, <2>4, <2>5, <2>6, <2>7 DEF UserNext
<1>7. CASE answer = NoAnswer /\ FountainNext
  <2>1. CASE StreamIdles
    BY <1>7, <2>1, StepKeeps, StreamIdlesStream DEF KeepingStep
  <2>2. CASE \E s \in Streams : DecodeFrame(s)
    BY <1>1, <1>7, <2>2, StepKeeps, DecodeFrameStream DEF KeepingStep
  <2> QED
    BY <1>7, <2>1, <2>2 DEF FountainNext
<1>8. CASE answer = NoAnswer /\ PageNext
  <2>1. CASE Started
    BY <1>1, <1>8, <2>1, StepKeeps, StartedStream DEF KeepingStep
  <2>2. CASE SwitchDone \/ ApngRefused
    BY <2>2, ReleasedStream DEF SwitchDone, ResetReceiver, ApngRefused, Retry
  <2>3. CASE ShowFile
    BY <2>3, ReleasedStream DEF ShowFile
  <2>4. CASE OnProcessed
    <3>1. Keeps
      BY <1>8, <2>4, StepKeeps DEF KeepingStep
    <3> QED
      BY <2>4, <3>1, ReadStream DEF OnProcessed, page
  <2>5. CASE OnComplete
    BY <1>1, <1>8, <2>5, StepKeeps, OnCompleteStream DEF KeepingStep
  <2>6. CASE OnVerdict
    BY <1>8, <2>6, StepKeeps, OnVerdictStream DEF KeepingStep
  <2>7. CASE ApngParsed \/ ApngDecoded \/ RejectionDecoded \/ ProgressShown \/ PoolIdle \/ Unpacked
    <3>1. Keeps
      BY <1>8, <2>7, StepKeeps DEF KeepingStep
    <3> QED
      BY <2>7, <3>1, PhaseStream
  <2>8. CASE ApngRejected \/ Mismatched
    BY <1>1, <1>8, <2>8, StepSupersedes, ParksStream
  <2>9. CASE AcceptPart
    BY <2>9, AcceptPartStream
  <2> QED
    BY <1>8, <2>1, <2>2, <2>3, <2>4, <2>5, <2>6, <2>7, <2>8, <2>9 DEF PageNext
<1>9. CASE answer = NoAnswer /\ Assembles
  BY <1>1, <1>3, <1>9, AssemblesStream
<1>10. CASE answer = NoAnswer /\ \E w \in Workers : PoolNext(w)
  BY <1>1, <1>10, StepKeeps, PoolStream DEF KeepingStep
<1> QED
  BY <1>1, <1>4, <1>5, <1>6, <1>7, <1>8, <1>9, <1>10 DEF Next

LEMMA StreamInit ==
  ASSUME Init, Inv
  PROVE  StreamInv
<1>1. phase = "ready" /\ fountain = NoFountain /\ ~fountain.done
  BY NoFountainType DEF Init
<1> QED
  BY <1>1 DEF StreamInv, Told, OneWanted, OneFile, RefusedIsUnwanted, ReportedIsDone,
              IgnoredIsUnwanted, ReadPhases, Rejecting, DrainPhases, FilePhases, Finishing

LEMMA DoneInvariance ==
  ASSUME Patient
  PROVE  Spec => [](Inv /\ FlowInv /\ PartsShown /\ faults \in Nat /\ DoneInv)
<1>1. ASSUME Init
      PROVE  Inv /\ FlowInv /\ PartsShown /\ faults \in Nat /\ DoneInv
  <2>1. Inv /\ FlowInv /\ PartsShown /\ faults \in Nat
    BY <1>1, InitInv, InitFlow, KeptInit DEF KeptInv
  <2> QED
    BY <1>1, <2>1, StrayInit, TypesInit, StreamInit DEF DoneInv
<1>2. ASSUME Inv, FlowInv, PartsShown, faults \in Nat, DoneInv, [Next]_vars
      PROVE  (Inv /\ FlowInv /\ PartsShown /\ faults \in Nat /\ DoneInv)'
  <2>1. StrayInv' /\ PageTypes'
    BY <1>2, StrayNext, TypesNext DEF DoneInv, Patient
  <2>2. Smooth' => StreamInv'
    BY <1>2, SmoothStays, StreamNext DEF DoneInv
  <2>3. Inv' /\ FlowInv' /\ PartsShown' /\ faults' \in Nat
    BY <1>2, NextInv, NextFlow, StepShown, FaultsGrow
  <2> QED
    BY <2>1, <2>2, <2>3 DEF DoneInv
<1> QED
  BY <1>1, <1>2, PTL DEF Spec

-----------------------------------------------------------------------------
(* What is left of a file: the steps.                                      *)

\* Only what begins with the input enters the phases that read it, and only a change of
\* the mode or of the pool goes on otherwise.
LEMMA ModeStays ==
  ASSUME Inv, [Next]_vars, ~FaultNext, ~Started, ~SwitchMode, ~Resize
  PROVE  /\ UNCHANGED <<mode, lost>>
         /\ detours' = detours \/ detours' = detours + 1
         /\ phase' \in FilePhases \cup Rejecting => phase \in FilePhases \cup Rejecting
         /\ phase' = "capturing" => phase = "capturing"
<1>1. CASE UNCHANGED vars
  BY <1>1 DEF vars, page, bounds
<1>2. CASE OnAnswer
  <2>1. /\ answer.kind \in {"none", "more", "mismatch", "stored", "failed"}
        /\ answer.current \in BOOLEAN /\ (answer.current => answer.kind # "none")
    BY DEF Inv, PersistInv, TypesOK, LeakInv, OneAttempt, Answers
  <2>2. CASE ~answer.current
    BY <1>2, <2>2 DEF OnAnswer, bounds, page
  <2>3. CASE answer.current
    BY <1>2, <2>1, <2>3 DEF OnAnswer, bounds, Park, ResetReceiver, FailTransfer, FilePhases,
                            Rejecting
  <2> QED
    BY <2>1, <2>2, <2>3
<1>3. CASE UserNext
  <2>1. CASE \E s \in Streams : Start(s) \/ Show(s)
    BY <2>1 DEF Start, Show, bounds, FilePhases, Rejecting
  <2>2. CASE \E s \in Streams, n \in 1 .. Symbols : StartApng(s, n)
    BY <2>2 DEF StartApng, bounds, FilePhases, Rejecting
  <2>3. CASE StartRefused \/ SourceEnds
    BY <2>3 DEF StartRefused, SourceEnds, Retry, Detour, bounds, FilePhases, Rejecting
  <2>4. CASE Restart \/ Other \/ Unmount
    BY <2>4 DEF Restart, Other, Unmount, Park, ResetReceiver, bounds, FilePhases, Rejecting
  <2> QED
    BY <1>3, <2>1, <2>2, <2>3, <2>4 DEF UserNext
<1>4. CASE FountainNext \/ Assembles \/ \E w \in Workers : PoolNext(w)
  BY <1>4 DEF FountainNext, StreamIdles, DecodeFrame, Assembles, PoolNext, Capture, ParseFrame,
              Forward, TaskComplete, bounds, page
<1>5. CASE PageNext
  <2>1. CASE SwitchDone \/ ApngRejected \/ Mismatched \/ ApngRefused \/ ShowFile
    BY <2>1 DEF SwitchDone, ApngRejected, Mismatched, ApngRefused, ShowFile, Park, Retry,
                ResetReceiver, bounds, FilePhases, Rejecting
  <2>2. CASE OnProcessed \/ OnComplete \/ OnVerdict
    BY <2>2 DEF OnProcessed, OnComplete, OnVerdict, Retry, bounds, page, FilePhases, Rejecting
  <2>3. CASE \/ ApngParsed \/ ApngDecoded \/ RejectionDecoded \/ ProgressShown \/ PoolIdle
             \/ Unpacked \/ AcceptPart
    BY <2>3 DEF ApngParsed, ApngDecoded, RejectionDecoded, ProgressShown, PoolIdle, Unpacked,
                AcceptPart, bounds, FilePhases, Rejecting
  <2> QED
    BY <1>5, <2>1, <2>2, <2>3 DEF PageNext
<1> QED
  BY <1>1, <1>2, <1>3, <1>4, <1>5 DEF Next

\* A payload is lost with a worker only while the camera is on, and the one change of the
\* user is made then.
LEMMA ModeNext ==
  ASSUME Inv, OneStray, ModeOfPhase, MaxDetours \in {0, 1},
         faults \in Nat, [Next]_vars, ~FaultNext
  PROVE  ModeOfPhase'
<1>1. faults' >= faults /\ faults' \in Nat
  BY FaultsGrow
<1>2. detours \in Nat
  BY DEF OneStray
<1>3. CASE ~Started /\ ~SwitchMode /\ ~Resize
  BY <1>1, <1>2, <1>3, ModeStays DEF ModeOfPhase
<1>4. CASE Started
  <2>1. /\ UNCHANGED <<mode, detours, lost>>
        /\ phase' = IF mode = "live" THEN "capturing" ELSE "parsing"
    BY <1>4 DEF Started, bounds
  <2> QED
    BY <1>1, <2>1 DEF ModeOfPhase, FilePhases, Rejecting
<1>5. CASE SwitchMode
  <2>1. detours = 0 /\ lost' = lost /\ mode' \in {"live", "apng"} /\ phase' = "switching"
    BY <1>2, <1>5 DEF SwitchMode, Detour, ModeOfPhase
  <2> QED
    BY <1>1, <2>1 DEF ModeOfPhase, FilePhases, Rejecting
<1>6. CASE Resize
  <2>1. detours' > 0 /\ phase = "capturing" /\ UNCHANGED <<phase, mode>>
    BY <1>2, <1>6 DEF Resize, Detour, page
  <2> QED
    BY <2>1 DEF ModeOfPhase, FilePhases, Rejecting
<1> QED
  BY <1>3, <1>4, <1>5, <1>6

\* No stream is one that is none.
LEMMA StreamsAreSome ==
  /\ NoStream \notin Streams
  /\ \A s \in Streams : s \in Parts /\ s # Free /\ s # Reported
<1>1. \A s \in Streams : s \in Parts /\ s.id # NoStream.id
  BY AssemblerAssumption DEF Parts
<1> QED
  BY <1>1, TasksDiffer

\* The step leads out of the file, or is none of one.
LEMMA NotFile ==
  ASSUME phase' \notin {"starting"} \cup FilePhases \cup Rejecting,
         phase' = "ready" /\ mode' = "apng" => NotCollecting',
         phase' \in {"result", "failed"} => fountain'.stream = NoStream
  PROVE  OneCollected' /\ FileCounted'
BY DEF OneCollected, FileCounted, FilePhases, Rejecting

LEMMA ReleasedFileSteps ==
  ASSUME Inv, ReleaseDecodeWorkers, phase' \in {"ready", "result", "failed", "gone"}
  PROVE  OneCollected' /\ FileCounted'
<1>1. fountain'.stream = NoStream
  BY NoFountainType DEF ReleaseDecodeWorkers
<1> QED
  BY <1>1, NotFile DEF NotCollecting, FilePhases, Rejecting

\* The stream that is collected is the same.
LEMMA SameCollected ==
  ASSUME OneCollected, UNCHANGED <<mode, expected>>, source'.stream = source.stream,
         fountain'.stream = fountain.stream, fountain'.done = fountain.done,
         \/ phase' = phase
         \/ phase \in FilePhases \cup Rejecting /\ phase' \in FilePhases \cup Rejecting
  PROVE  OneCollected'
<1>1. NotCollecting' <=> NotCollecting
  BY DEF NotCollecting
<1>2. \A s : Wanted(s)' <=> Wanted(s)
  BY DEF Wanted
<1>3. phase' \in FilePhases \cup Rejecting =>
        phase' \notin {"ready", "starting", "result", "failed"}
  BY DEF FilePhases, Rejecting
<1> QED
  BY <1>1, <1>2, <1>3 DEF OneCollected

\* The attempt goes on, and nothing of the file moves.
LEMMA SameFile ==
  ASSUME OneCollected, FileCounted, UNCHANGED <<mode, source, expected, tasks, frames>>,
         fountain'.stream = fountain.stream, fountain'.done = fountain.done,
         fountain'.count = fountain.count,
         \/ phase' = phase
         \/ phase \in FilePhases \cup Rejecting /\ phase' \in Rejecting
         \/ /\ phase \in FilePhases /\ phase' \in FilePhases
            /\ phase' \in {"ending", "draining"} => source.left = 0
            /\ phase' = "draining" => AllIdle,
         phase \in FilePhases /\ Coming(source.stream) => Coming(source.stream)'
  PROVE  OneCollected' /\ FileCounted'
<1>1. OneCollected'
  BY SameCollected
<1>2. Submitted' = Submitted /\ Collecting' = Collecting
  BY DEF Submitted, Collecting
<1>3. Wanted(source.stream)' <=> Wanted(source.stream)
  BY DEF Wanted
<1>4. AllIdle' <=> AllIdle
  BY DEF AllIdle
<1>5. phase' \in Rejecting => phase' \notin {"starting"} \cup FilePhases
  BY DEF FilePhases, Rejecting
<1>6. CASE phase' \in Rejecting
  BY <1>1, <1>5, <1>6 DEF FileCounted, FilePhases
<1>7. CASE phase' = phase
  BY <1>1, <1>2, <1>3, <1>4, <1>7 DEF FileCounted
<1>8. CASE /\ phase \in FilePhases /\ phase' \in FilePhases
           /\ phase' \in {"ending", "draining"} => source.left = 0
           /\ phase' = "draining" => AllIdle
  <2>1. phase' # "starting"
    BY <1>8 DEF FilePhases
  <2> QED
    BY <1>1, <1>2, <1>3, <1>4, <1>8, <2>1 DEF FileCounted
<1> QED
  BY <1>6, <1>7, <1>8

\* A file is opened, with as many frames as it needs if it is whole.
LEMMA StartsFile ==
  ASSUME OneCollected, (\E s \in Streams : Start(s) \/ \E n \in 1 .. Symbols : StartApng(s, n))
  PROVE  OneCollected' /\ FileCounted'
<1>1. phase = "ready" /\ phase' = "starting" /\ mode' = mode /\ fountain' = fountain
  BY DEF Start, StartApng, pipeline
<1>2. OneCollected'
  BY <1>1 DEF OneCollected, NotCollecting, FilePhases, Rejecting
<1>3. CASE mode = "live"
  BY <1>1, <1>2, <1>3 DEF FileCounted, FilePhases
<1>4. ASSUME NEW s \in Streams, NEW n \in 1 .. Symbols, StartApng(s, n)
      PROVE  FileCounted'
  <2>1. source' = [stream |-> s, left |-> n, whole |-> n >= Symbols]
    BY <1>4 DEF StartApng
  <2>2. Symbols \in Nat
    BY ReceiverAssumption
  <2>3. source'.stream = s /\ source'.left = n /\ (source'.whole => n >= Symbols)
    BY <2>1, Zenon
  <2>4. source'.stream \in Streams /\ (source'.whole => source'.left = Symbols)
    BY <2>2, <2>3
  <2> QED
    BY <1>1, <2>4 DEF FileCounted, FilePhases
<1>5. mode = "live" \/ \E s \in Streams : \E n \in 1 .. Symbols : StartApng(s, n)
  BY DEF Start
<1> QED
  BY <1>2, <1>3, <1>4, <1>5

\* Nothing of the stream is collected when its first frame is submitted: the fountain
\* worker has none, or one that it has done with and that is not wanted.
LEMMA StartedFile ==
  ASSUME Inv, PageTypes, FlowInv, ~lost, StreamInv, ModeOfPhase, OneCollected, FileCounted, Started
  PROVE  OneCollected' /\ FileCounted'
<1>1. /\ phase = "starting" /\ phase' = IF mode = "live" THEN "capturing" ELSE "parsing"
      /\ UNCHANGED <<mode, source, expected, tasks, frames, inbox>>
      /\ fountain' = [fountain EXCEPT !.state = IF @ = "none" THEN "running" ELSE @,
                                      !.expected = expected]
  BY DEF Started
<1>2. Quiet
  BY <1>1 DEF FlowInv, QuietPhases
<1>3. /\ fountain'.done = fountain.done /\ fountain'.stream = fountain.stream
      /\ fountain'.count = fountain.count
  BY <1>1 DEF PageTypes, Fountains
<1>4. CASE mode = "live"
  BY <1>1, <1>4, NotFile DEF FilePhases, Rejecting
<1>5. CASE mode = "apng"
  <2>1. phase' = "parsing" /\ NotCollecting /\ source.stream \in Streams
    BY <1>1, <1>5 DEF OneCollected, FileCounted
  <2>2. NotCollecting'
    BY <1>3, <2>1 DEF NotCollecting
  <2>3. OneCollected'
    BY <2>1, <2>2 DEF OneCollected
  <2>4. ASSUME source.whole, Wanted(source.stream)
        PROVE  /\ IsFiniteSet(Submitted')
               /\ source.left + Cardinality(Submitted') + frames[source.stream] + Collecting'
                    = Symbols
    <3>1. source.left = Symbols /\ Symbols \in Nat
      BY <1>1, <1>5, <2>4, ReceiverAssumption DEF FileCounted
    <3>2. Submitted' = {}
      BY <1>1, <1>2, <2>1, StreamsAreSome DEF Submitted, Quiet, AllIdle, AllFree
    <3>3. IsFiniteSet(Submitted') /\ Cardinality(Submitted') = 0
      BY <3>2, FS_EmptySet
    <3>4. frames[source.stream] = 0
      BY <1>2, <2>1 DEF Quiet, NoFrames
    <3>5. fountain.stream # source.stream
      <4> SUFFICES ASSUME fountain.stream = source.stream PROVE FALSE
        OBVIOUS
      <4>1. fountain.done
        BY <2>1, StreamsAreSome DEF NotCollecting
      <4>2. ~Coming(fountain.stream)
        BY <1>2 DEF Quiet, Coming
      <4>3. DoneWith
        BY <1>1, <4>1, <4>2 DEF StreamInv, IgnoredIsUnwanted
      <4> QED
        BY <2>4, <4>3 DEF DoneWith
    <3>6. Collecting' = 0
      BY <1>1, <1>3, <3>5 DEF Collecting
    <3> QED
      BY <3>1, <3>3, <3>4, <3>6
  <2>5. Wanted(source.stream)' <=> Wanted(source.stream)
    BY <1>1 DEF Wanted
  <2> QED
    BY <1>1, <2>1, <2>3, <2>4, <2>5 DEF FileCounted
<1> QED
  BY <1>4, <1>5 DEF ModeOfPhase

\* A frame is submitted, decoded, and its answer read.
LEMMA PoolFile ==
  ASSUME Inv, PageTypes, FlowInv, ~lost, StreamInv, ModeOfPhase, OneCollected, FileCounted,
         NEW w \in Workers, PoolNext(w)
  PROVE  OneCollected' /\ FileCounted'
<1>1. UNCHANGED <<mode, phase, expected, fountain, inbox>>
  BY DEF PoolNext, Capture, ParseFrame, Forward, TaskComplete, page
<1>2. /\ tasks \in [Workers -> Parts \cup {Free, Reported}] /\ frames \in [Streams -> Nat]
      /\ source \in Sources
  BY DEF FlowInv, FlowTypes, PageTypes
<1>3. \A s : (Wanted(s)' <=> Wanted(s)) /\ (Coming(s)' <=> Coming(s))
  BY <1>1 DEF Wanted, Coming
<1>4. tasks[w] # Free => ~AllIdle
  BY DEF AllIdle, AllFree
<1>5. \A s \in Streams : s \in Parts /\ s # Free /\ s # Reported
  BY StreamsAreSome
<1>6. CASE Capture(w)
  <2>1. phase' = "capturing"
    BY <1>1, <1>6 DEF Capture
  <2> QED
    BY <2>1, NotFile DEF FilePhases, Rejecting
<1>7. CASE ParseFrame(w)
  <2>1. /\ phase = "parsing" /\ source.left > 0 /\ tasks[w] = Free /\ frames' = frames
        /\ tasks' = [tasks EXCEPT ![w] = source.stream]
        /\ source' = [source EXCEPT !.left = @ - 1]
    BY <1>7 DEF ParseFrame, Submit
  <2>2. /\ source'.stream = source.stream /\ source'.left = source.left - 1
        /\ source'.whole = source.whole /\ source.left \in Nat
    BY <1>2, <2>1 DEF Sources
  <2>3. OneCollected'
    BY <1>1, <2>2, SameCollected
  <2>4. ASSUME IsFiniteSet(Submitted)
        PROVE  IsFiniteSet(Submitted') /\ Cardinality(Submitted') = Cardinality(Submitted) + 1
    <3>1. source.stream \in Streams /\ source.stream # Free
      BY <1>5, <2>1 DEF ModeOfPhase, FileCounted, FilePhases
    <3>2. Submitted' = Submitted \cup {w} /\ w \notin Submitted
      BY <1>2, <2>1, <2>2, <3>1 DEF Submitted
    <3> QED
      BY <2>4, <3>2, AddOne
  <2>5. Collecting' = Collecting
    BY <1>1, <2>2 DEF Collecting
  <2>6. ASSUME source.whole, Wanted(source.stream), ~Coming(source.stream)
        PROVE  /\ IsFiniteSet(Submitted')
               /\ source'.left + Cardinality(Submitted') + frames[source.stream] + Collecting'
                    = Symbols
    <3>1. /\ IsFiniteSet(Submitted)
          /\ source.left + Cardinality(Submitted) + frames[source.stream] + Collecting = Symbols
      BY <2>1, <2>6 DEF FileCounted, FilePhases
    <3>2. Cardinality(Submitted) \in Nat /\ frames[source.stream] \in Nat /\ Collecting \in Nat
      BY <1>2, <2>1, <3>1, FS_CardinalityType, ReceiverAssumption
      DEF ModeOfPhase, FileCounted, FilePhases, PageTypes, Fountains, Collecting
    <3> QED
      BY <2>2, <2>4, <2>5, <3>1, <3>2
  <2>7. source.stream \in Streams
    BY <2>1 DEF ModeOfPhase, FileCounted, FilePhases
  <2> QED
    BY <1>1, <1>3, <2>1, <2>2, <2>3, <2>6, <2>7 DEF FileCounted
<1>8. CASE Forward(w)
  <2>1. /\ tasks[w] \in Streams /\ source' = source
        /\ frames' = [frames EXCEPT ![tasks[w]] = @ + 1]
        /\ tasks' = [tasks EXCEPT ![w] = Reported]
    BY <1>8 DEF Forward, page
  <2>2. ~AllIdle /\ UnderWay(tasks[w])
    BY <1>4, <1>5, <2>1 DEF UnderWay
  <2>3. phase # "starting" /\ phase # "draining"
    BY <2>2 DEF FlowInv, QuietPhases, Quiet, FileCounted
  <2>4. phase \in FilePhases => tasks[w] = source.stream
    BY <2>1, <2>2 DEF StreamInv, OneFile
  <2>5. OneCollected'
    BY <1>1, <2>1, SameCollected
  <2>6. ASSUME phase \in FilePhases, IsFiniteSet(Submitted)
        PROVE  /\ IsFiniteSet(Submitted') /\ Cardinality(Submitted') = Cardinality(Submitted) - 1
               /\ frames'[source.stream] = frames[source.stream] + 1
    <3>1. w \in Submitted /\ Submitted' = Submitted \ {w}
      BY <1>2, <1>5, <2>1, <2>4, <2>6 DEF Submitted
    <3>2. frames'[source.stream] = frames[source.stream] + 1
      BY <1>2, <2>1, <2>4, <2>6
    <3> QED
      BY <2>6, <3>1, <3>2, RemoveOne
  <2>7. Collecting' = Collecting
    BY <1>1, <2>1 DEF Collecting
  <2>8. source.stream \in Streams => frames[source.stream] \in Nat
    BY <1>2
  <2>9. IsFiniteSet(Submitted) => Cardinality(Submitted) \in Nat
    BY FS_CardinalityType
  <2>10. ASSUME phase \in FilePhases, source.whole, Wanted(source.stream), ~Coming(source.stream)
         PROVE  /\ IsFiniteSet(Submitted')
                /\ source.left + Cardinality(Submitted') + frames'[source.stream] + Collecting'
                     = Symbols
    <3>1. /\ IsFiniteSet(Submitted)
          /\ source.left + Cardinality(Submitted) + frames[source.stream] + Collecting = Symbols
      BY <2>10 DEF FileCounted
    <3>2. source.stream \in Streams /\ source.left \in Nat /\ Collecting \in Nat
      BY <1>2, <2>1, <2>4, <2>10, ReceiverAssumption DEF Sources, PageTypes, Fountains, Collecting
    <3> QED
      BY <2>6, <2>7, <2>8, <2>9, <2>10, <3>1, <3>2
  <2>11. phase \in {"starting"} \cup FilePhases /\ mode = "apng" => source.stream \in Streams
    BY DEF FileCounted
  <2>12. phase \in {"ending", "draining"} => source.left = 0
    BY DEF FileCounted
  <2> QED
    BY <1>1, <1>3, <2>1, <2>3, <2>5, <2>10, <2>11, <2>12 DEF FileCounted
<1>9. CASE TaskComplete(w)
  <2>1. /\ tasks[w] = Reported /\ source' = source /\ frames' = frames
        /\ tasks' = [tasks EXCEPT ![w] = Free]
    BY <1>9 DEF TaskComplete, page
  <2>2. phase # "draining" /\ phase # "starting"
    BY <1>4, <2>1, TasksDiffer DEF FlowInv, QuietPhases, Quiet, FileCounted
  <2>3. OneCollected'
    BY <1>1, <2>1, SameCollected
  <2>4. phase \in FilePhases => Submitted' = Submitted
    <3>1. phase \in FilePhases => source.stream \in Streams
      BY DEF ModeOfPhase, FileCounted
    <3> QED
      BY <1>2, <1>5, <2>1, <3>1 DEF Submitted
  <2>5. Collecting' = Collecting
    BY <1>1, <2>1 DEF Collecting
  <2>6. phase \in FilePhases /\ source.whole /\ Wanted(source.stream) /\ ~Coming(source.stream) =>
          /\ IsFiniteSet(Submitted')
          /\ source.left + Cardinality(Submitted') + frames[source.stream] + Collecting' = Symbols
    BY <2>4, <2>5 DEF FileCounted
  <2> QED
    BY <1>1, <1>3, <2>1, <2>2, <2>3, <2>6 DEF FileCounted
<1> QED
  BY <1>6, <1>7, <1>8, <1>9 DEF PoolNext

\* The fountain worker collects every payload of a part that is wanted, but for one that
\* it has done with.
LEMMA DecodeFrameFile ==
  ASSUME Inv, PageTypes, FlowInv, ~lost, StreamInv, ModeOfPhase, OneCollected, FileCounted,
         NEW s \in Streams, DecodeFrame(s)
  PROVE  OneCollected' /\ FileCounted'
<1>1. /\ frames[s] > 0 /\ UnderWay(s) /\ frames' = [frames EXCEPT ![s] = @ - 1]
      /\ UNCHANGED <<mode, phase, source, expected, tasks>>
  BY DEF DecodeFrame, page, UnderWay
<1>2. phase \notin QuietPhases
  BY <1>1 DEF FlowInv, Quiet, NoFrames
<1>3. /\ \A n \in 1 .. Len(inbox) : n \in 1 .. Len(inbox') /\ inbox'[n] = inbox[n]
      /\ \/ fountain'.stream = fountain.stream /\ fountain'.done = fountain.done
         \/ /\ Acceptable(s) /\ ~Ignored(s) /\ fountain'.stream = s
            /\ fountain'.done => Coming(s)'
  BY DecodedStream
<1>4. \A r : Wanted(r)' <=> Wanted(r)
  BY <1>1 DEF Wanted
<1>5. CASE phase \notin FilePhases \cup Rejecting
  BY <1>1, <1>2, <1>5, NotFile DEF QuietPhases
<1>6. CASE phase \in FilePhases \cup Rejecting
  <2>1. s = source.stream
    BY <1>1, <1>6 DEF StreamInv, OneFile
  <2>2. Acceptable(s) <=> Wanted(s)
    BY <1>6 DEF StreamInv, Told, Acceptable, Wanted, FilePhases, ReadPhases
  <2>3. OneCollected'
    <3>1. NotCollecting' \/ (fountain'.stream = source.stream /\ Wanted(source.stream))
      BY <1>3, <1>6, <2>1, <2>2 DEF OneCollected, NotCollecting
    <3> QED
      BY <1>1, <1>2, <1>4, <1>6, <3>1 DEF OneCollected, QuietPhases
  <2>4. ASSUME phase \in FilePhases, source.whole, Wanted(source.stream), ~Coming(source.stream)'
        PROVE  /\ IsFiniteSet(Submitted')
               /\ source.left + Cardinality(Submitted') + frames'[source.stream] + Collecting'
                    = Symbols
    <3>1. ~Coming(source.stream)
      BY <1>1, <1>3, <2>4 DEF Coming
    <3>2. /\ IsFiniteSet(Submitted)
          /\ source.left + Cardinality(Submitted) + frames[source.stream] + Collecting = Symbols
      BY <2>4, <3>1 DEF FileCounted
    <3>3. ~Ignored(s)
      <4>1. ~(fountain.done /\ fountain.stream = s)
        BY <2>1, <2>4, <3>1
        DEF StreamInv, IgnoredIsUnwanted, DoneWith, FilePhases, ReadPhases
      <4>2. fountain.done \/ fountain.stream \in {NoStream, s}
        BY <1>6, <2>1 DEF OneCollected, NotCollecting
      <4> QED
        BY <4>1, <4>2 DEF Ignored
    <3>4. fountain' = Collected(s)
      BY <2>1, <2>2, <2>4, <3>3 DEF DecodeFrame
    <3>5. fountain'.stream = s /\ ~fountain'.done
      <4>1. fountain'.stream = s
        BY <3>4, CollectedFields
      <4>2. ~Coming(s)'
        BY <1>1, <2>1, <2>4 DEF Coming
      <4>3. ~(fountain.done /\ fountain.stream = s)
        BY <3>3 DEF Ignored
      <4> QED
        BY <1>3, <4>1, <4>2, <4>3
    <3>6. fountain'.count = 1 + Collecting
      BY <2>1, <3>4, <3>5, CollectedFields DEF Collecting
    <3>7. Collecting' = 1 + Collecting
      BY <1>1, <2>1, <3>5, <3>6 DEF Collecting
    <3>8. frames'[source.stream] = frames[source.stream] - 1 /\ frames[source.stream] \in Nat
      BY <1>1, <2>1 DEF FlowInv, FlowTypes
    <3>9. /\ source.left \in Nat /\ Collecting \in Nat /\ Symbols \in Nat
          /\ Submitted' = Submitted /\ Cardinality(Submitted) \in Nat
      BY <1>1, <3>2, FS_CardinalityType, ReceiverAssumption
      DEF PageTypes, Sources, Fountains, Collecting, Submitted
    <3> QED
      BY <3>2, <3>7, <3>8, <3>9
  <2>5. AllIdle' <=> AllIdle
    BY <1>1 DEF AllIdle
  <2> QED
    BY <1>1, <1>2, <1>4, <2>3, <2>4, <2>5 DEF FileCounted, QuietPhases
<1> QED
  BY <1>5, <1>6

LEMMA MessageFile ==
  ASSUME Inv, OneCollected, FileCounted, OnProcessed \/ OnComplete \/ OnVerdict
  PROVE  OneCollected' /\ FileCounted'
<1>1. UNCHANGED <<mode, expected>> /\ inbox # << >>
  BY DEF OnProcessed, OnComplete, OnVerdict, page
<1>2. CASE OnProcessed
  <2>1. UNCHANGED <<phase, source, tasks, frames, fountain>> /\ inbox' = Tail(inbox)
        /\ Head(inbox).type = "processed"
    BY <1>2 DEF OnProcessed, page
  <2>2. Coming(source.stream) => Coming(source.stream)'
    BY <1>1, <2>1, ReadTail DEF Coming
  <2> QED
    BY <1>1, <2>1, <2>2, SameFile
<1>3. CASE OnComplete
  <2>1. UNCHANGED <<tasks, frames, fountain>>
    BY <1>3 DEF OnComplete
  <2>2. CASE Done \/ phase \in {"rejecting", "rejectDrain"}
    <3>1. UNCHANGED <<phase, source>> /\ phase \notin FilePhases
      BY <1>3, <2>2 DEF OnComplete, Done, FilePhases
    <3> QED
      BY <1>1, <2>1, <3>1, SameFile
  <2>3. CASE ~(Done \/ phase \in {"rejecting", "rejectDrain"})
    <3>1. phase' = "progress"
      BY <1>3, <2>3 DEF OnComplete
    <3> QED
      BY <3>1, NotFile DEF FilePhases, Rejecting
  <2> QED
    BY <2>2, <2>3
<1>4. CASE OnVerdict
  <2>1. CASE phase \notin FilePhases
    <3>1. UNCHANGED <<phase, source, tasks, frames, fountain>>
      BY <1>4, <2>1 DEF OnVerdict, FilePhases
    <3> QED
      BY <1>1, <2>1, <3>1, SameFile
  <2>2. CASE phase \in FilePhases /\ Current = NoAssembly
    BY <1>4, <2>2, ReleasedFileSteps DEF OnVerdict, FilePhases, Retry
  <2>3. CASE phase \in FilePhases /\ Current # NoAssembly
    <3>1. phase' = "rejecting" /\ UNCHANGED <<source, tasks, frames, fountain>>
      BY <1>4, <2>3 DEF OnVerdict, FilePhases
    <3>2. OneCollected'
      BY <1>1, <2>3, <3>1, SameCollected DEF Rejecting
    <3> QED
      BY <3>1, <3>2 DEF FileCounted, FilePhases
  <2> QED
    BY <2>1, <2>2, <2>3
<1> QED
  BY <1>2, <1>3, <1>4

\* The attempt moves on.
LEMMA PhaseFile ==
  ASSUME OneCollected, FileCounted,
         ApngParsed \/ ApngDecoded \/ RejectionDecoded \/ ProgressShown \/ PoolIdle \/ Unpacked
  PROVE  OneCollected' /\ FileCounted'
<1>1. UNCHANGED <<mode, source, expected, tasks, frames, fountain, inbox>>
  BY DEF ApngParsed, ApngDecoded, RejectionDecoded, ProgressShown, PoolIdle, Unpacked, pipeline
<1>2. Coming(source.stream) => Coming(source.stream)'
  BY <1>1 DEF Coming
<1>3. CASE ProgressShown \/ PoolIdle \/ Unpacked
  <2>1. phase' \in {"idle", "drain", "preparing"}
    BY <1>3 DEF ProgressShown, PoolIdle, Unpacked
  <2> QED
    BY <2>1, NotFile DEF FilePhases, Rejecting
<1>4. CASE ApngParsed
  <2>1. phase = "parsing" /\ phase' = "ending" /\ source.left = 0
    BY <1>4 DEF ApngParsed
  <2> QED
    BY <1>1, <1>2, <2>1, SameFile DEF FilePhases
<1>5. CASE ApngDecoded
  <2>1. phase = "ending" /\ phase' = "draining" /\ AllIdle /\ source.left = 0
    BY <1>5 DEF ApngDecoded, FileCounted
  <2> QED
    BY <1>1, <1>2, <2>1, SameFile DEF FilePhases
<1>6. CASE RejectionDecoded
  <2>1. phase = "rejecting" /\ phase' = "rejectDrain"
    BY <1>6 DEF RejectionDecoded
  <2> QED
    BY <1>1, <1>2, <2>1, SameFile DEF FilePhases, Rejecting
<1> QED
  BY <1>3, <1>4, <1>5, <1>6

\* The page waits for the next file, and the fountain worker has begun none.
LEMMA ParksFile ==
  ASSUME StreamInv, OneCollected, Restart \/ ApngRejected \/ Mismatched
  PROVE  OneCollected' /\ FileCounted'
<1>1. phase' = "ready" /\ fountain' = fountain
  BY DEF Restart, ApngRejected, Mismatched, Park, ResetReceiver
<1>2. NotCollecting
  <2>1. CASE Restart
    BY <2>1 DEF Restart, OneCollected, NotCollecting
  <2>2. CASE ApngRejected
    BY <2>2 DEF ApngRejected, OneCollected, StreamInv, RefusedIsUnwanted, Rejecting
  <2>3. CASE Mismatched
    BY <2>3 DEF Mismatched, StreamInv, ReportedIsDone, Finishing, NotCollecting
  <2> QED
    BY <2>1, <2>2, <2>3
<1>3. NotCollecting'
  BY <1>1, <1>2 DEF NotCollecting
<1> QED
  BY <1>1, <1>3, NotFile DEF FilePhases, Rejecting

LEMMA OnAnswerFile ==
  ASSUME Inv, StreamInv, OneCollected, FileCounted, OnAnswer
  PROVE  OneCollected' /\ FileCounted'
<1>1. /\ answer.kind \in {"none", "more", "mismatch", "stored", "failed"}
      /\ answer.current \in BOOLEAN
      /\ answer.current => answer.kind # "none" /\ phase = "accepting"
  BY DEF Inv, PersistInv, TypesOK, LeakInv, OneAttempt, Answers
<1>2. CASE ~answer.current
  <2>1. UNCHANGED <<mode, phase, source, inbox, expected, tasks, frames, fountain>>
    BY <1>2 DEF OnAnswer, page, pipeline
  <2> QED
    BY <2>1, SameFile DEF Coming
<1>3. CASE answer.current /\ answer.kind \in {"more", "mismatch"}
  <2>1. phase' = "ready" /\ fountain' = fountain
    BY <1>3 DEF OnAnswer, Park, ResetReceiver
  <2>2. fountain.done
    BY <1>1, <1>3 DEF StreamInv, ReportedIsDone, Finishing
  <2>3. NotCollecting'
    BY <2>1, <2>2 DEF NotCollecting
  <2> QED
    BY <2>1, <2>3, NotFile DEF FilePhases, Rejecting
<1>4. CASE answer.current /\ answer.kind \in {"stored", "failed"}
  <2>1. ReleaseDecodeWorkers /\ phase' \in {"result", "failed"}
    BY <1>4 DEF OnAnswer, FailTransfer
  <2> QED
    BY <2>1, ReleasedFileSteps
<1> QED
  BY <1>1, <1>2, <1>3, <1>4

LEMMA FaultsKeepMode ==
  ASSUME ModeOfPhase, FaultNext, faults' > 0
  PROVE  ModeOfPhase'
<1>1. mode' = mode /\ phase' \in {phase, "ready", "failed"}
  <2>1. CASE \E w \in Workers : WorkerFails(w)
    BY <2>1 DEF WorkerFails, Retry
  <2>2. CASE FountainFails
    BY <2>2 DEF FountainFails, Retry
  <2>3. CASE UnpackFails \/ CodecsFail
    BY <2>3 DEF UnpackFails, CodecsFail, FailTransfer
  <2>4. CASE AssemblerFails
    BY <2>4 DEF AssemblerFails, page
  <2> QED
    BY <2>1, <2>2, <2>3, <2>4 DEF FaultNext
<1> QED
  BY <1>1 DEF ModeOfPhase, FilePhases, Rejecting

-----------------------------------------------------------------------------
(* The theorems.                                                           *)

\* What the receiver counts as received is on the disk, appended in order or staged,
\* whichever way the parts come, attempts are superseded and operations fail.
THEOREM Persisted == Spec => []ReceivedIsPersisted
<1>1. ASSUME Inv
      PROVE  ReceivedIsPersisted
  BY <1>1 DEF Inv, PersistInv, Consistent, InOrder, PartsOf, ReceivedIsPersisted, Idle
<1> QED
  BY <1>1, Invariance, PTL

\* When the assembler rests there is no file but those of the transfer in progress
\* and the one that is shown: no reset, failure or late answer leaves one behind.
THEOREM NoLeak == Spec => []NothingLeaked
<1>1. ASSUME Inv, Resting
      PROVE  disk = Held(Current) \cup (IF holding THEN {Result} ELSE {})
  <2>1. /\ work.pc = "idle" /\ queue = << >> /\ answer.kind = "none"
        /\ attached \in BOOLEAN
    BY <1>1 DEF Resting, Idle, NoAnswer, Inv, PersistInv, TypesOK
  <2>2. disk = Held(assembly) \cup (IF holding THEN {Result} ELSE {})
    BY <1>1, <2>1 DEF Inv, LeakInv, Owned
  <2>3. NoDisposal(queue)
    BY <2>1 DEF NoDisposal
  <2>4. ~attached => Held(assembly) = {}
    BY <1>1, <2>1, <2>3 DEF Inv, LeakInv, DetachedIsDisposed
  <2> QED
    BY <2>1, <2>2, <2>4, NothingHeld DEF Current
<1>2. ASSUME Inv
      PROVE  NothingLeaked
  BY <1>1, <1>2 DEF NothingLeaked
<1> QED
  BY <1>2, Invariance, PTL

\* The workers are used again only when nothing of the last stream is on its way,
\* unless one of them was lost: what was submitted and not processed, which the page
\* counts, is what waitForFullDrain() has to wait for.
THEOREM QuietBetween == Spec => []QuietBetweenAttempts
<1>1. ASSUME FlowInv
      PROVE  QuietBetweenAttempts
  BY <1>1 DEF FlowInv, QuietPhases, Quiet, QuietBetweenAttempts
<1> QED
  BY <1>1, FlowInvariance, PTL

\* No part that was received is lost but by a failure, by the user who has seen the
\* file, gives the transfer up or leaves, or who switches the mode while the last part
\* is added: neither by the steps of accept() and reset(), in any order, nor by the
\* attempts that end around them.  One sender names the parts of a transfer alike.
THEOREM PartsKept ==
  ASSUME OneName
  PROVE  Spec => PartsAreKept
<1>1. ASSUME Inv, KeptInv, [Next]_vars
      PROVE  KeptInv' /\ [~(Kept \subseteq Kept') =>
                            \/ faults' > 0
                            \/ holding \/ Other \/ phase' = "gone"
                            \/ answer.kind = "stored" /\ ~answer.current]_vars
  BY <1>1, KeptNext DEF MayLose
<1>2. Spec => [](Inv /\ KeptInv)
  BY <1>1, KeptInit, InitInv, NextInv, PTL DEF Spec
<1> QED
  BY <1>1, <1>2, PTL DEF Spec, PartsAreKept

\* When the sender shows another part only when the receiver asks for it, and the user
\* changes the mode, the source or the pool at most once, no part that is wanted is one
\* that the fountain worker ignores: the fountain worker has done with a stream only when
\* its container is on its way to the page, or the part has been received.
THEOREM DoneReceived ==
  ASSUME Patient
  PROVE  Spec => []DoneIsReceived
<1>1. ASSUME Inv, faults \in Nat, DoneInv
      PROVE  DoneIsReceived
  <2> SUFFICES ASSUME phase \in {"ready", "capturing"}, fountain.done, Wanted(fountain.stream),
                      ~lost, ~(faults > 0)
               PROVE  \E n \in DOMAIN inbox : inbox[n] = Message("complete", fountain.stream)
    BY DEF DoneIsReceived
  <2>1. Coming(fountain.stream)
    BY <1>1 DEF DoneInv, Smooth, StreamInv, IgnoredIsUnwanted, ReadPhases, DoneWith
  <2>2. PICK n \in 1 .. Len(inbox) :
               inbox[n].type = "complete" /\ inbox[n].stream = fountain.stream
    BY <2>1 DEF Coming
  <2>3. inbox \in Seq(Messages)
    BY <1>1 DEF Inv, PersistInv, TypesOK
  <2>4. n \in DOMAIN inbox /\ inbox[n] \in Messages
    BY <2>3
  <2>5. inbox[n] = Message("complete", fountain.stream)
    BY <2>2, <2>4 DEF Messages, Message
  <2> QED
    BY <2>4, <2>5
<1> QED
  BY <1>1, DoneInvariance, PTL

\* What ends an attempt that has read its file, but for a failure.
LEMMA RefusesFile ==
  ASSUME Inv, [Next]_vars, ~FaultNext, phase = "draining", phase' = "ready"
  PROVE  ApngRefused \/ OnVerdict
<1>1. CASE UNCHANGED vars
  BY <1>1 DEF vars, page
<1>2. CASE OnAnswer
  <2>1. ~answer.current
    BY DEF Inv, LeakInv, OneAttempt
  <2> QED
    BY <1>2, <2>1 DEF OnAnswer, page
<1>3. CASE UserNext
  BY <1>3 DEF UserNext, Start, Show, StartApng, StartRefused, SourceEnds, SwitchMode, Restart,
              Other, Unmount, Resize, page
<1>4. CASE FountainNext \/ Assembles \/ \E w \in Workers : PoolNext(w)
  BY <1>4 DEF FountainNext, StreamIdles, DecodeFrame, Assembles, PoolNext, Capture, ParseFrame,
              Forward, TaskComplete, page
<1>5. CASE PageNext
  BY <1>5 DEF PageNext, Started, SwitchDone, OnProcessed, OnComplete, ApngParsed, ApngDecoded,
              RejectionDecoded, ApngRejected, ProgressShown, PoolIdle, Mismatched, ShowFile,
              Unpacked, AcceptPart, page
<1> QED
  BY <1>1, <1>2, <1>3, <1>4, <1>5 DEF Next

LEMMA FileNext ==
  ASSUME Inv, FlowInv, PageTypes, StreamInv, ModeOfPhase, OneCollected, FileCounted,
         [Next]_vars, Smooth', faults \in Nat
  PROVE  OneCollected' /\ FileCounted'
<1>1. ~FaultNext /\ ~lost
  BY SmoothStays DEF Smooth
<1>2. CASE UNCHANGED vars
  BY <1>2, SameFile DEF vars, page, pipeline, Coming
<1>3. CASE OnAnswer
  BY <1>3, OnAnswerFile
<1>4. CASE answer = NoAnswer /\ UserNext
  <2>1. CASE \E s \in Streams : Start(s) \/ \E n \in 1 .. Symbols : StartApng(s, n)
    BY <2>1, StartsFile
  <2>2. CASE (\E s \in Streams : Show(s)) \/ SwitchMode \/ Resize
    <3>1. phase' \in {"capturing", "switching"}
      BY <2>2 DEF Show, SwitchMode, Resize, page
    <3> QED
      BY <3>1, NotFile DEF FilePhases, Rejecting
  <2>3. CASE StartRefused
    <3>1. phase' = "ready" /\ mode' = "live"
      BY <2>3 DEF StartRefused
    <3> QED
      BY <3>1, NotFile DEF FilePhases, Rejecting
  <2>4. CASE SourceEnds \/ Other \/ Unmount
    BY <2>4, ReleasedFileSteps DEF SourceEnds, Retry, Other, Unmount
  <2>5. CASE Restart
    BY <2>5, ParksFile
  <2> QED
    BY <1>4, <2>1, <2>2, <2>3, <2>4, <2>5 DEF UserNext
<1>5. CASE answer = NoAnswer /\ FountainNext
  <2>1. CASE StreamIdles
    <3>1. /\ UNCHANGED <<mode, phase, source, expected, tasks, frames, inbox>>
          /\ fountain' = [fountain EXCEPT !.recent = FALSE]
      BY <2>1 DEF StreamIdles, page
    <3>2. /\ fountain'.stream = fountain.stream /\ fountain'.done = fountain.done
          /\ fountain'.count = fountain.count
      BY <3>1 DEF PageTypes, Fountains
    <3> QED
      BY <3>1, <3>2, SameFile DEF Coming
  <2>2. CASE \E s \in Streams : DecodeFrame(s)
    BY <1>1, <2>2, DecodeFrameFile
  <2> QED
    BY <1>5, <2>1, <2>2 DEF FountainNext
<1>6. CASE answer = NoAnswer /\ PageNext
  <2>1. CASE Started
    BY <1>1, <2>1, StartedFile
  <2>2. CASE SwitchDone \/ ApngRefused \/ ShowFile
    BY <2>2, ReleasedFileSteps DEF SwitchDone, ResetReceiver, ApngRefused, Retry, ShowFile
  <2>3. CASE OnProcessed \/ OnComplete \/ OnVerdict
    BY <2>3, MessageFile
  <2>4. CASE ApngParsed \/ ApngDecoded \/ RejectionDecoded \/ ProgressShown \/ PoolIdle \/ Unpacked
    BY <2>4, PhaseFile
  <2>5. CASE ApngRejected \/ Mismatched
    BY <2>5, ParksFile
  <2>6. CASE AcceptPart
    <3>1. phase' = "accepting"
      BY <2>6 DEF AcceptPart
    <3> QED
      BY <3>1, NotFile DEF FilePhases, Rejecting
  <2> QED
    BY <1>6, <2>1, <2>2, <2>3, <2>4, <2>5, <2>6 DEF PageNext
<1>7. CASE answer = NoAnswer /\ Assembles
  BY <1>7, SameFile DEF Assembles, page, pipeline, Coming
<1>8. CASE answer = NoAnswer /\ \E w \in Workers : PoolNext(w)
  BY <1>1, <1>8, PoolFile
<1> QED
  BY <1>1, <1>2, <1>3, <1>4, <1>5, <1>6, <1>7, <1>8 DEF Next

LEMMA FileInvariance ==
  ASSUME Patient
  PROVE  Spec => []FileInv
<1>1. ASSUME Init
      PROVE  FileInv
  <2>1. /\ phase = "ready" /\ mode \in {"live", "apng"} /\ ~lost /\ fountain = NoFountain
        /\ fountain.stream = NoStream
    BY <1>1, InitInv, NoFountainType DEF Init
  <2> QED
    BY <2>1 DEF FileInv, ModeOfPhase, OneCollected, NotCollecting, FileCounted, FilePhases,
                Rejecting
<1>2. ASSUME Inv, FlowInv, faults \in Nat, DoneInv, FileInv, [Next]_vars
      PROVE  FileInv'
  <2>1. PageTypes /\ OneStray /\ ModeOfPhase /\ MaxDetours \in {0, 1}
    BY <1>2 DEF DoneInv, StrayInv, FileInv, Patient
  <2>2. CASE FaultNext
    <3>1. faults' > 0 /\ ~Smooth'
      BY <1>2, <2>2, FaultsGrow DEF Smooth
    <3>2. ModeOfPhase'
      BY <1>2, <2>1, <2>2, <3>1, FaultsKeepMode
    <3> QED
      BY <3>1, <3>2 DEF FileInv
  <2>3. CASE ~FaultNext
    <3>1. ModeOfPhase'
      BY <1>2, <2>1, <2>3, ModeNext
    <3>2. Smooth' => OneCollected' /\ FileCounted'
      BY <1>2, <2>1, SmoothStays, FileNext DEF DoneInv, FileInv
    <3> QED
      BY <3>1, <3>2 DEF FileInv
  <2> QED
    BY <2>2, <2>3
<1> QED
  BY <1>1, <1>2, DoneInvariance, PTL DEF Spec

\* With the same sender and user as above, startApng() refuses no file that has all the
\* symbols of a part that is wanted: until its container is on its way to the page, every
\* frame of the file is to be submitted, at a decode worker, on its way to the fountain
\* worker, or collected, so that none is left out when all of them are processed.
THEOREM WholeApngRead ==
  ASSUME Patient
  PROVE  Spec => WholeApngIsRead
<1>1. ASSUME Inv, FlowInv, PartsShown, faults \in Nat, DoneInv, FileInv, [Next]_vars
      PROVE  [phase = "draining" /\ phase' = "ready" /\ source.whole /\ faults' = 0
                => ~Wanted(source.stream)]_vars
  <2> SUFFICES ASSUME phase = "draining", phase' = "ready", source.whole, faults' = 0,
                      Wanted(source.stream)
               PROVE  FALSE
    OBVIOUS
  <2>1. ~FaultNext /\ faults = 0
    BY <1>1, FaultsGrow
  <2>2. Smooth
    BY <1>1, <2>1 DEF FileInv, ModeOfPhase, FilePhases, Smooth
  <2>3. StreamInv /\ FileCounted /\ PageTypes
    BY <1>1, <2>2 DEF DoneInv, FileInv
  <2>4. ApngRefused \/ OnVerdict
    BY <1>1, <2>1, RefusesFile
  <2>5. CASE ApngRefused
    <3>1. Quiet
      BY <1>1, <2>2, <2>3, <2>5, DrainedIsQuiet DEF FileCounted, ApngRefused, Smooth
    <3>2. source.stream \in Streams
      BY <1>1, <2>3 DEF FileInv, ModeOfPhase, FileCounted, FilePhases
    <3>3. Submitted = {}
      BY <3>1, <3>2, StreamsAreSome DEF Submitted, Quiet, AllIdle, AllFree
    <3>4. Cardinality(Submitted) = 0 /\ frames[source.stream] = 0 /\ ~Coming(source.stream)
      BY <3>1, <3>2, <3>3, FS_EmptySet DEF Quiet, NoFrames, Coming
    <3>5. source.left = 0 /\ Collecting = Symbols
      <4>1. source.left = 0
        BY <2>3 DEF FileCounted
      <4>2. source.left + Cardinality(Submitted) + frames[source.stream] + Collecting = Symbols
        BY <2>3, <3>4 DEF FileCounted, FilePhases
      <4>3. Collecting \in Nat
        BY <2>3, ReceiverAssumption DEF PageTypes, Fountains, Collecting
      <4> QED
        BY <3>4, <4>1, <4>2, <4>3
    <3> QED
      BY <2>3, <3>5, ReceiverAssumption DEF PageTypes, Fountains, Collecting
  <2>6. CASE OnVerdict
    <3>1. inbox # << >> /\ Head(inbox).type = "verdict"
      BY <2>6 DEF OnVerdict
    <3>2. inbox \in Seq(Messages)
      BY <1>1 DEF Inv, PersistInv, TypesOK
    <3>3. 1 \in 1 .. Len(inbox) /\ Head(inbox) = inbox[1]
      BY <3>1, <3>2, EmptySeq
    <3> QED
      BY <2>3, <3>1, <3>3 DEF StreamInv, OneFile, RefusedIsUnwanted, FilePhases, ReadPhases
  <2> QED
    BY <2>4, <2>5, <2>6
<1>2. Spec => [][phase = "draining" /\ phase' = "ready" /\ source.whole /\ faults' = 0
                   => ~Wanted(source.stream)]_vars
  BY <1>1, DoneInvariance, FileInvariance, PTL DEF Spec
<1> QED
  BY <1>2 DEF WholeApngIsRead
=============================================================================

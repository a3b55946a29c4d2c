------------------------ MODULE P2PTransfer_proofs ------------------------
(***************************************************************************)
(* What TLAPS proves about a transfer between two browsers, for every      *)
(* number and size of versions, every window and interval and every bound: *)
(* its variables have their types, through every pause, stop, repair,      *)
(* update, reconnection and reload, and a checkpoint never counts bytes    *)
(* that a reload might not find.  And, where the sender keeps one version, *)
(* a file that the receiver verified is the sender's file.                 *)
(*                                                                         *)
(* Types do not follow from types alone.  A chunk has a version because a  *)
(* sender at work has one (Working), which it took from a download, which  *)
(* the receiver sends only when it knows what it asks for: what depends on *)
(* the file's details waits for nothing while there are none (Ready, and   *)
(* the entries of the storage queue).                                      *)
(*                                                                         *)
(* A verification compares the file on the disk with a manifest, and what  *)
(* it finds must still be true when the file is called complete.  So one   *)
(* handler waits for the disk at a time, what a broken channel has left in *)
(* the queue is at its front, and a transfer goes on only behind it        *)
(* (SessionInv); and a manifest, a repair and the end of a file are of the *)
(* file's own version (VerifiedInv).  A block that has been repaired is    *)
(* stored where it belongs, since nothing of another place comes between   *)
(* its start and its end on any channel (PlaceInv).                        *)
(***************************************************************************)
EXTENDS P2PTransfer, SequenceTheorems, TLAPS

-----------------------------------------------------------------------------
(* The types.                                                              *)

Position == Nat \ {0}
Chunk == Versions \X Position
MaybeVersion == Versions \cup {None}

XferState == {"idle", "uploading", "paused", "verifying", "repairing", "complete"}
RecvState == {"idle", "downloading", "pausing", "paused", "stopping",
              "verifying", "repairing", "complete"}

PeerType == [xfer : XferState, active : MaybeVersion,
             op : [kind : {"none", "send", "repair"}, at : Nat, todo : SUBSET Position],
             sent : Nat, acked : Nat, open : BOOLEAN, authorized : BOOLEAN,
             metaSent : BOOLEAN, repairs : Nat]

\* What the sender says, and what the receiver says.
ToReceiver ==
  [type : {"meta", "file-update", "done"}, version : Versions, at : {0}]
    \cup [type : {"chunk", "repair-start", "repair-end"}, version : Versions, at : Position]
    \cup [type : {"error", "paused", "stopped"}, version : MaybeVersion, at : {0}]
ToSender ==
  [type : {"download"}, version : Versions, at : Nat]
    \cup [type : {"progress"}, version : Versions, at : Nat \cup {NoCredit}]
    \cup [type : {"repair-request"}, version : {None}, at : SUBSET Position]
    \cup [type : {"verified", "received", "pause", "stop"}, version : MaybeVersion, at : {0}]

RecvType == [state : RecvState, restart : BOOLEAN, link : {"closed", "new", "open"},
             requested : BOOLEAN, meta : MaybeVersion, pending : MaybeVersion,
             cleanup : {"none", "pending", "done"},
             finish : {"none", "stop", "restart", "gone", "adopt", "abandon"},
             verify : [of : MaybeVersion, blocks : SUBSET Position],
             shown : BOOLEAN, accepting : BOOLEAN, memory : BOOLEAN, flow : Nat, acked : Nat,
             failed : BOOLEAN]
CheckType == [manifest : MaybeVersion, retries : Nat, repairs : Nat, block : Nat,
              parts : Seq(Chunk), missing : SUBSET Position, repaired : SUBSET Position]

\* What may wait for the storage while the receiver has the details of this version.
Waiter == {"channel", "nobody", "gone"}
EntriesWithout ==
  [kind : {"append"}, chunk : Chunk, by : Waiter]
    \cup [kind : {"adopt"}, chunk : Versions \X {0}, by : Waiter]
    \cup [kind : {"prepare", "request", "cleanup", "checkpoint", "fail"}, chunk : {NoChunk}, by : Waiter]
Entries(meta) ==
  IF meta = None THEN EntriesWithout
  ELSE EntriesWithout \cup [kind : {"replace"}, chunk : Chunk \X Position, by : Waiter]
         \cup [kind : {"file"}, chunk : {NoChunk}, by : Waiter]

-----------------------------------------------------------------------------
(* The invariant.                                                          *)

\* Who sends knows what it sends.
Working(p) == p \in PeerType /\ (p.op.kind # "none" => p.active \in Versions)

\* Without the details of a file nothing is asked for and nothing is verified.
Ready(r) == r \in RecvType /\ (r.meta = None => ~r.requested /\ r.verify = NoVerification)
Checked(c, meta) == c \in CheckType /\ (meta = None => c.manifest = None /\ c.block = 0)

SenderInv ==
  /\ current \in Versions /\ released \subseteq Versions
  /\ refs \in [current : MaybeVersion, offered : MaybeVersion]
  /\ Working(peer)
ChannelInv == toReceiver \in Seq(ToReceiver) /\ toSender \in Seq(ToSender)
ReceiverInv == Ready(recv) /\ Checked(check, recv.meta) /\ disk \in Seq(Entries(recv.meta))
StoreInv ==
  /\ stored \in Seq(Chunk) /\ durable \in Nat
  /\ saved \in [version : MaybeVersion, bytes : Nat]
  /\ saved.bytes <= durable /\ durable <= Len(stored)

TransferInv == SenderInv /\ ChannelInv /\ ReceiverInv /\ StoreInv

-----------------------------------------------------------------------------
(* The building blocks keep their types.                                   *)

\* Versions are numbers, and none of them is None.
LEMMA VersionsAreKnown ==
  /\ None \notin Versions /\ Versions \subseteq Nat
  /\ \A v \in Versions : Sizes[v] \in Position
<1>1. Len(Sizes) \in Nat /\ \A v \in 1..Len(Sizes) : Sizes[v] \in Nat \ {0}
  BY TransferAssumption
<1>2. QED
  BY <1>1 DEF Versions, None, Position

\* What is told arrives in the channel or nowhere.
LEMMA TellType ==
  ASSUME toSender \in Seq(ToSender), NEW ms \in Seq(ToSender), Tell(ms)
  PROVE  toSender' \in Seq(ToSender)
BY DEF Tell

LEMMA ReadyKept ==
  ASSUME NEW r, Ready(r)
  PROVE  /\ Ready(Requesting(r)) /\ Requesting(r).meta = r.meta
         /\ Ready(Unpaused(r)) /\ Unpaused(r).meta = r.meta
         /\ Ready(Confirmed(r)) /\ Confirmed(r).meta = r.meta
         /\ Ready(Cleaning(r)) /\ Cleaning(r).meta = r.meta
         /\ Ready(Detached(r)) /\ Detached(r).meta = r.meta
         /\ Ready(Downloading(r)) /\ Downloading(r).meta = r.meta
<1>1. Ready(Requesting(r)) /\ Requesting(r).meta = r.meta
  BY DEF Ready, Requesting, CanRequest, RecvType
<1>2. Ready(Unpaused(r)) /\ Unpaused(r).meta = r.meta
  BY DEF Ready, Unpaused, RecvType, RecvState
<1>3. Ready(Confirmed(r)) /\ Confirmed(r).meta = r.meta
  <2>1. \A shown \in BOOLEAN : LET paused == [r EXCEPT !.state = "paused", !.shown = shown]
                              IN Ready(paused) /\ paused.meta = r.meta
    BY DEF Ready, RecvType, RecvState
  <2>2. (r.shown \/ r.meta # None) \in BOOLEAN
    OBVIOUS
  <2>3. CASE r.state = "pausing"
    <3>1. Confirmed(r) = [r EXCEPT !.state = "paused", !.shown = r.shown \/ r.meta # None]
      BY <2>3 DEF Confirmed
    <3>2. QED
      BY <2>1, <2>2, <3>1, Zenon
  <2>4. CASE r.state # "pausing"
    BY <2>4 DEF Confirmed
  <2>5. QED
    BY <2>3, <2>4
<1>4. Ready(Cleaning(r)) /\ Cleaning(r).meta = r.meta
  BY DEF Ready, Cleaning, RecvType
<1>5. Ready(Detached(r)) /\ Detached(r).meta = r.meta
  BY DEF Ready, Detached, RecvType, NoVerification, MaybeVersion
<1>6. Ready(Downloading(r)) /\ Downloading(r).meta = r.meta
  BY DEF Ready, Downloading, RecvType, RecvState
<1>7. QED
  BY <1>1, <1>2, <1>3, <1>4, <1>5, <1>6

LEMMA AdoptedType ==
  ASSUME NEW r, Ready(r), NEW v \in Versions
  PROVE  Ready(Adopted(r, v)) /\ Adopted(r, v).meta = v
BY VersionsAreKnown DEF Ready, Adopted, RecvType, RecvState, MaybeVersion

\* What adopts has something to adopt.
LEMMA AfterStopType ==
  ASSUME NEW r, Ready(r)
  PROVE  Ready(AfterStop(r)) /\ (AfterStop(r).meta = r.meta \/ AfterStop(r).meta \in Versions)
<1> DEFINE ended == [Unpaused(r) EXCEPT !.cleanup = "none", !.finish = "none", !.shown = FALSE,
                                        !.flow = 0, !.acked = 0]
<1>1. Ready(ended) /\ ended.meta = r.meta /\ ended.pending = r.pending
  <2>1. \A u \in RecvType : LET e == [u EXCEPT !.cleanup = "none", !.finish = "none",
                                               !.shown = FALSE, !.flow = 0, !.acked = 0]
                           IN /\ e \in RecvType /\ e.meta = u.meta /\ e.pending = u.pending
                              /\ e.requested = u.requested /\ e.verify = u.verify
    BY DEF RecvType
  <2>2. Ready(Unpaused(r)) /\ Unpaused(r).meta = r.meta /\ Unpaused(r).pending = r.pending
    BY ReadyKept DEF Ready, Unpaused, RecvType
  <2>3. QED
    BY <2>1, <2>2 DEF Ready
<1>2. Ready([r EXCEPT !.cleanup = "none", !.finish = "none"])
      /\ [r EXCEPT !.cleanup = "none", !.finish = "none"].meta = r.meta
  BY DEF Ready, RecvType
<1>3. r.pending # None => r.pending \in Versions
  BY DEF Ready, RecvType, MaybeVersion
<1>4. r.pending # None => /\ Ready(Adopted(ended, r.pending))
                          /\ Adopted(ended, r.pending).meta \in Versions
  BY <1>1, <1>3, AdoptedType
<1>5. r.pending # None => /\ Ready(Downloading(Adopted(ended, r.pending)))
                          /\ Downloading(Adopted(ended, r.pending)).meta \in Versions
  BY <1>4, ReadyKept
<1> HIDE DEF ended
<1>6. AfterStop(r) = IF r.finish = "gone" THEN [r EXCEPT !.cleanup = "none", !.finish = "none"]
                     ELSE IF r.finish \notin {"restart", "adopt"} \/ r.pending = None THEN ended
                     ELSE IF r.finish = "adopt" THEN Adopted(ended, r.pending)
                     ELSE Downloading(Adopted(ended, r.pending))
  BY DEF AfterStop, ended
<1>7. CASE r.finish = "gone"
  BY <1>2, <1>6, <1>7
<1>8. CASE r.finish # "gone" /\ (r.finish \notin {"restart", "adopt"} \/ r.pending = None)
  BY <1>1, <1>6, <1>8
<1>9. CASE r.finish = "adopt" /\ r.pending # None
  BY <1>4, <1>6, <1>9
<1>10. CASE r.finish = "restart" /\ r.pending # None
  BY <1>5, <1>6, <1>10
<1>11. QED
  BY <1>7, <1>8, <1>9, <1>10

-----------------------------------------------------------------------------
(* The storage queue and the store.                                        *)

\* More may wait for the storage when the details are known.
LEMMA EntriesGrow ==
  ASSUME NEW a, NEW b, a = b \/ b \in Versions, NEW d \in Seq(Entries(a))
  PROVE  d \in Seq(Entries(b))
<1>1. Entries(a) \subseteq Entries(b)
  BY VersionsAreKnown DEF Entries
<1>2. QED
  BY <1>1, SeqDef

\* The entries that the receiver makes.
LEMMA EntryTypes ==
  ASSUME NEW by \in Waiter, NEW meta
  PROVE  /\ \A kind \in {"prepare", "request", "cleanup", "checkpoint", "fail"} :
              Entry(kind, NoChunk, by) \in Entries(meta)
         /\ \A chunk \in Chunk : Entry("append", chunk, by) \in Entries(meta)
         /\ \A v \in Versions : Entry("adopt", <<v, 0>>, by) \in Entries(meta)
         /\ meta # None => \A chunk \in Chunk \X Position : Entry("replace", chunk, by) \in Entries(meta)
         /\ meta # None => Entry("file", NoChunk, by) \in Entries(meta)
BY DEF Entry, Entries, EntriesWithout

LEMMA MadeEntries ==
  ASSUME NEW r, NEW by \in Waiter, NEW meta
  PROVE  /\ Preparing(r, by) \in Seq(Entries(meta))
         /\ Asking(r) \in Seq(Entries(meta))
         /\ Checkpointing(r) \in Seq(Entries(meta))
         /\ CleanupEntry(r) \in Seq(Entries(meta))
BY EntryTypes DEF Preparing, Asking, Checkpointing, CleanupEntry, Waiter

LEMMA GoneType ==
  ASSUME NEW meta, disk \in Seq(Entries(meta))
  PROVE  Gone \in Seq(Entries(meta))
<1>1. \A e \in Entries(meta) : [e EXCEPT !.by = "gone"] \in Entries(meta)
  BY DEF Entries, EntriesWithout, Waiter
<1>2. \A i \in 1..Len(disk) : disk[i] \in Entries(meta)
  BY ElementOfSeq
<1>3. DOMAIN disk = 1..Len(disk) /\ Len(disk) \in Nat
  OBVIOUS
<1>4. Gone = [i \in 1..Len(disk) |-> [disk[i] EXCEPT !.by = "gone"]]
  BY <1>3 DEF Gone
<1>5. \A i \in 1..Len(disk) : [disk[i] EXCEPT !.by = "gone"] \in Entries(meta)
  BY <1>1, <1>2
<1>6. QED
  BY <1>3, <1>4, <1>5, IsASeq

\* The entry at the head of the queue leaves a queue of entries behind.
LEMMA HeadType ==
  ASSUME NEW meta, disk \in Seq(Entries(meta)), disk # << >>
  PROVE  Head(disk) \in Entries(meta) /\ Tail(disk) \in Seq(Entries(meta))
OBVIOUS

LEMMA HeadChunk ==
  ASSUME NEW meta, disk \in Seq(Entries(meta)), NEW kind, Starts(kind)
  PROVE  /\ kind = "append" => Head(disk).chunk \in Chunk
         /\ kind = "replace" => Head(disk).chunk[1] \in Chunk
         /\ kind = "adopt" => Head(disk).chunk[1] \in Versions
         /\ kind \in {"replace", "file"} => meta # None
<1>1. Head(disk) \in Entries(meta) /\ Head(disk).kind = kind
  BY HeadType DEF Starts
<1>2. QED
  BY <1>1 DEF Entries, EntriesWithout

\* A checkpoint counts what has been flushed.
LEMMA CheckpointDataKeeps ==
  ASSUME StoreInv, recv.meta \in MaybeVersion, NEW forced, CheckpointData(forced),
         stored' \in Seq(Chunk), Len(stored') >= Len(stored)
  PROVE  StoreInv'
<1>1. Len(stored) \in Nat /\ Len(stored') \in Nat
  BY DEF StoreInv
<1>2. CASE Due(forced)
  BY <1>1, <1>2 DEF CheckpointData, StoreInv
<1>3. CASE ~Due(forced)
  BY <1>1, <1>3 DEF CheckpointData, StoreInv
<1>4. QED
  BY <1>2, <1>3

LEMMA EmptiedKeeps ==
  ASSUME Emptied
  PROVE  StoreInv'
BY DEF Emptied, StoreInv, NoCheckpoint, MaybeVersion, None

LEMMA NoCheckType ==
  ASSUME NEW meta
  PROVE  Checked(NoCheck, meta)
BY DEF Checked, NoCheck, CheckType, MaybeVersion, None

-----------------------------------------------------------------------------
(* The messages.                                                           *)

LEMMA SenderWords ==
  /\ \A type \in {"meta", "file-update", "done"}, v \in Versions : Msg(type, v, 0) \in ToReceiver
  /\ \A type \in {"chunk", "repair-start", "repair-end"}, v \in Versions, i \in Position :
       Msg(type, v, i) \in ToReceiver
  /\ \A type \in {"error", "paused", "stopped"}, v \in MaybeVersion : Msg(type, v, 0) \in ToReceiver
<1>1. \A type \in {"meta", "file-update", "done"}, v \in Versions : Msg(type, v, 0) \in ToReceiver
  BY DEF Msg, ToReceiver
<1>2. \A type \in {"chunk", "repair-start", "repair-end"}, v \in Versions, i \in Position :
        Msg(type, v, i) \in ToReceiver
  BY DEF Msg, ToReceiver
<1>3. \A type \in {"error", "paused", "stopped"}, v \in MaybeVersion : Msg(type, v, 0) \in ToReceiver
  BY DEF Msg, ToReceiver
<1>4. QED
  BY <1>1, <1>2, <1>3

LEMMA ReceiverWords ==
  /\ \A v \in Versions, n \in Nat : Msg("download", v, n) \in ToSender
  /\ \A v \in Versions, n \in Nat \cup {NoCredit} : Msg("progress", v, n) \in ToSender
  /\ \A blocks \in SUBSET Position : Msg("repair-request", None, blocks) \in ToSender
  /\ \A type \in {"verified", "received", "pause", "stop"}, v \in MaybeVersion :
       Msg(type, v, 0) \in ToSender
<1>1. \A v \in Versions, n \in Nat : Msg("download", v, n) \in ToSender
  BY DEF Msg, ToSender
<1>2. \A v \in Versions, n \in Nat \cup {NoCredit} : Msg("progress", v, n) \in ToSender
  BY DEF Msg, ToSender
<1>3. \A blocks \in SUBSET Position : Msg("repair-request", None, blocks) \in ToSender
  BY DEF Msg, ToSender
<1>4. \A type \in {"verified", "received", "pause", "stop"}, v \in MaybeVersion :
        Msg(type, v, 0) \in ToSender
  BY DEF Msg, ToSender
<1>5. QED
  BY <1>1, <1>2, <1>3, <1>4

\* What the sender hears, and what is left of the channel.
LEMMA HeardType ==
  ASSUME toSender \in Seq(ToSender), NEW type, SenderGets(type)
  PROVE  /\ Tail(toSender) \in Seq(ToSender)
         /\ type = "download" => Received.version \in Versions /\ Received.at \in Nat
         /\ type = "progress" => Received.version \in Versions /\ Received.at \in Nat \cup {NoCredit}
         /\ type = "repair-request" => Received.at \in SUBSET Position
<1>1. Received \in ToSender /\ Received.type = type /\ Tail(toSender) \in Seq(ToSender)
  BY DEF SenderGets, Received
<1>2. QED
  BY <1>1 DEF ToSender

LEMMA HeardFromSender ==
  ASSUME toReceiver \in Seq(ToReceiver), NEW type, Gets(type)
  PROVE  /\ Tail(toReceiver) \in Seq(ToReceiver)
         /\ type \in {"meta", "file-update", "done"} => Message.version \in Versions
         /\ type \in {"chunk", "repair-start", "repair-end"} =>
              Message.version \in Versions /\ Message.at \in Position
<1>1. Message \in ToReceiver /\ Message.type = type /\ Tail(toReceiver) \in Seq(ToReceiver)
  BY DEF Gets, Message
<1>2. QED
  BY <1>1 DEF ToReceiver

-----------------------------------------------------------------------------
(* The sender's bookkeeping.                                               *)

LEMMA InvalidatedType ==
  ASSUME NEW p, Working(p)
  PROVE  Working(Invalidated(p))
BY DEF Working, PeerType, Invalidated, NoOp

LEMMA SwitchedType ==
  ASSUME NEW p, Working(p), NEW v \in Versions
  PROVE  Working(Switched(p, v)) /\ Switched(p, v).active = v
BY DEF Working, PeerType, Switched, XferState, MaybeVersion

LEMMA SendMetaKeeps ==
  ASSUME SenderInv, toReceiver \in Seq(ToReceiver), NEW p, Working(p), SendMeta(p)
  PROVE  /\ Working(peer') /\ toReceiver' \in Seq(ToReceiver)
         /\ refs' \in [current : MaybeVersion, offered : MaybeVersion]
<1>1. current \in Versions /\ current \in MaybeVersion
      /\ refs \in [current : MaybeVersion, offered : MaybeVersion]
  BY DEF SenderInv, MaybeVersion
<1>2. Working(peer')
  <2>1. \A sent \in BOOLEAN : Working([p EXCEPT !.metaSent = sent])
    BY DEF Working, PeerType
  <2>2. (p.metaSent \/ MetaDue(p)) \in BOOLEAN
    OBVIOUS
  <2>3. peer' = [p EXCEPT !.metaSent = p.metaSent \/ MetaDue(p)]
    BY DEF SendMeta
  <2>4. QED
    BY <2>1, <2>2, <2>3, Zenon
<1>3. toReceiver' \in Seq(ToReceiver)
  <2>1. Msg("meta", current, 0) \in ToReceiver
    BY <1>1, SenderWords
  <2>2. QED
    BY <2>1 DEF SendMeta
<1>4. refs' \in [current : MaybeVersion, offered : MaybeVersion]
  BY <1>1 DEF SendMeta
<1>5. QED
  BY <1>2, <1>3, <1>4

-----------------------------------------------------------------------------
(* The sender.                                                             *)

\* A repair sends the blocks it was asked for, in the sender's own version.
LEMMA RepairBlockKeeps ==
  ASSUME SenderInv, ChannelInv, NEW i, RepairBlock(i)
  PROVE  SenderInv' /\ ChannelInv'
<1>1. peer.active \in Versions /\ i \in Position
  BY DEF SenderInv, Working, PeerType, RepairBlock
<1>2. toReceiver' \in Seq(ToReceiver)
  <2>1. \A type \in {"chunk", "repair-start", "repair-end"} :
          Append(toReceiver, Msg(type, peer.active, i)) \in Seq(ToReceiver)
    BY <1>1, SenderWords DEF ChannelInv
  <2>2. QED
    BY <2>1 DEF RepairBlock
<1>3. Working(peer')
  <2>1. Working([peer EXCEPT !.op.at = 1])
    BY DEF SenderInv, Working, PeerType
  <2>2. \A n \in Nat : Working([peer EXCEPT !.op.at = 2, !.sent = n])
    BY DEF SenderInv, Working, PeerType
  <2>3. Working([peer EXCEPT !.op = NoOp, !.xfer = "verifying"])
    BY DEF SenderInv, Working, PeerType, NoOp, XferState
  <2>4. Working([peer EXCEPT !.op.at = 0, !.op.todo = @ \ {i}])
    BY DEF SenderInv, Working, PeerType
  <2>5. peer.sent + 1 \in Nat
    BY DEF SenderInv, Working, PeerType
  <2>6. QED
    BY <2>1, <2>2, <2>3, <2>4, <2>5 DEF RepairBlock
<1>4. UNCHANGED <<current, released, refs, toSender>>
  BY DEF RepairBlock
<1>5. QED
  BY <1>2, <1>3, <1>4 DEF SenderInv, ChannelInv

LEMMA OnDownloadKeeps ==
  ASSUME SenderInv, ChannelInv, OnDownload
  PROVE  SenderInv' /\ ChannelInv'
<1>1. /\ SenderGets("download")
      /\ UNCHANGED <<current, released>> /\ toSender' = Tail(toSender)
  BY DEF OnDownload, SenderDone
<1>2. Received.version \in Versions /\ Received.at \in Nat /\ toSender' \in Seq(ToSender)
  BY <1>1, HeardType DEF ChannelInv
<1>3. CASE Reply(Msg("error", Received.version, 0)) /\ UNCHANGED <<refs, peer>>
  <2>1. Msg("error", Received.version, 0) \in ToReceiver
    BY <1>2, SenderWords DEF MaybeVersion
  <2>2. QED
    BY <1>1, <1>2, <1>3, <2>1 DEF Reply, SenderInv, ChannelInv
<1>4. CASE UNCHANGED <<refs, peer, toReceiver>>
  BY <1>1, <1>2, <1>4 DEF SenderInv, ChannelInv
<1>5. CASE /\ SwitchRefs(Received.version)
           /\ peer' = [Switched(peer, Received.version) EXCEPT
                         !.xfer = "uploading", !.sent = 0, !.acked = 0,
                         !.op = [NoOp EXCEPT !.kind = "send", !.at = Received.at]]
           /\ UNCHANGED toReceiver
  <2> DEFINE p == Switched(peer, Received.version)
  <2>1. p \in PeerType /\ p.active \in Versions
    BY <1>2, SwitchedType DEF SenderInv, Working
  <2>2. [NoOp EXCEPT !.kind = "send", !.at = Received.at]
          \in [kind : {"none", "send", "repair"}, at : Nat, todo : SUBSET Position]
    BY <1>2 DEF NoOp
  <2> HIDE DEF p
  <2>3. \A op \in [kind : {"none", "send", "repair"}, at : Nat, todo : SUBSET Position] :
          Working([p EXCEPT !.xfer = "uploading", !.sent = 0, !.acked = 0, !.op = op])
    BY <2>1 DEF Working, PeerType, XferState
  <2>4. Working(peer')
    BY <1>5, <2>2, <2>3 DEF p
  <2>5. refs' \in [current : MaybeVersion, offered : MaybeVersion]
    BY <1>2, <1>5 DEF SwitchRefs, SenderInv, MaybeVersion
  <2>6. QED
    BY <1>1, <1>2, <1>5, <2>4, <2>5 DEF SenderInv, ChannelInv
<1>6. QED
  BY <1>3, <1>4, <1>5 DEF OnDownload

LEMMA OnProgressKeeps ==
  ASSUME SenderInv, ChannelInv, OnProgress
  PROVE  SenderInv' /\ ChannelInv'
<1> DEFINE v == Received.version
           credits == v = peer.active /\ Received.at # NoCredit
           valid == credits /\ Received.at >= peer.acked /\ Received.at <= peer.sent
           p == IF valid THEN [peer EXCEPT !.acked = Received.at] ELSE peer
<1>1. /\ SenderGets("progress")
      /\ UNCHANGED <<current, released, toReceiver>> /\ toSender' = Tail(toSender)
  BY DEF OnProgress, SenderDone
<1>2. v \in Versions /\ Received.at \in Nat \cup {NoCredit} /\ toSender' \in Seq(ToSender)
  BY <1>1, HeardType DEF ChannelInv
<1>3. valid => Received.at \in Nat
  BY <1>2
<1>4. Working(p)
  BY <1>3 DEF SenderInv, Working, PeerType
<1>5. \/ peer' = peer /\ UNCHANGED refs
      \/ peer' = p /\ UNCHANGED refs
      \/ peer' = Switched(p, v) /\ SwitchRefs(v)
  BY DEF OnProgress
<1> HIDE DEF p
<1>6. Working(Switched(p, v))
  BY <1>2, <1>4, SwitchedType
<1>7. Working(peer')
  BY <1>4, <1>5, <1>6 DEF SenderInv
<1>8. refs' \in [current : MaybeVersion, offered : MaybeVersion]
  BY <1>2, <1>5 DEF SwitchRefs, SenderInv, MaybeVersion
<1>9. QED
  BY <1>1, <1>2, <1>7, <1>8 DEF SenderInv, ChannelInv

\* The other answers of the receiver.
LEMMA OnRepairRequestKeeps ==
  ASSUME SenderInv, ChannelInv, OnRepairRequest
  PROVE  SenderInv' /\ ChannelInv'
<1>1. /\ SenderGets("repair-request")
      /\ UNCHANGED <<current, released, refs>> /\ toSender' = Tail(toSender)
  BY DEF OnRepairRequest, SenderDone
<1>2. Received.at \in SUBSET Position /\ toSender' \in Seq(ToSender)
  BY <1>1, HeardType DEF ChannelInv
<1>3. CASE UNCHANGED <<peer, toReceiver>>
  BY <1>1, <1>2, <1>3 DEF SenderInv, ChannelInv
<1>4. CASE Reply(Msg("error", peer.active, 0)) /\ UNCHANGED peer
  <2>1. Msg("error", peer.active, 0) \in ToReceiver
    BY SenderWords DEF SenderInv, Working, PeerType
  <2>2. QED
    BY <1>1, <1>2, <1>4, <2>1 DEF Reply, SenderInv, ChannelInv
<1>5. CASE /\ peer.active # None
           /\ peer' = [peer EXCEPT !.xfer = "repairing", !.repairs = @ + 1,
                                   !.op = [kind |-> "repair", at |-> 0, todo |-> Received.at]]
           /\ UNCHANGED toReceiver
  <2>1. peer.active \in Versions
    BY <1>5 DEF SenderInv, Working, PeerType, MaybeVersion
  <2>2. \A n \in Nat : Working([peer EXCEPT !.xfer = "repairing", !.repairs = n,
                         !.op = [kind |-> "repair", at |-> 0, todo |-> Received.at]])
    BY <1>2, <2>1 DEF SenderInv, Working, PeerType, XferState
  <2>3. peer.repairs + 1 \in Nat
    BY DEF SenderInv, Working, PeerType
  <2>4. QED
    BY <1>1, <1>2, <1>5, <2>2, <2>3 DEF SenderInv, ChannelInv
<1>6. QED
  BY <1>3, <1>4, <1>5 DEF OnRepairRequest

LEMMA OnWordKeeps ==
  ASSUME SenderInv, ChannelInv, OnVerified \/ OnReceived \/ OnPause \/ OnStop
  PROVE  SenderInv' /\ ChannelInv'
<1>1. \A type \in {"paused", "stopped"} : Append(toReceiver, Msg(type, None, 0)) \in Seq(ToReceiver)
  BY SenderWords DEF MaybeVersion, ChannelInv
<1>2. toSender' \in Seq(ToSender)
  BY HeardType DEF OnVerified, OnReceived, OnPause, OnStop, SenderDone, ChannelInv
<1>3. toReceiver' \in Seq(ToReceiver)
  BY <1>1 DEF OnVerified, OnReceived, OnPause, OnStop, Reply, ChannelInv
<1>4. Working(peer')
  <2>1. \A xfer \in XferState : Working([Invalidated(peer) EXCEPT !.xfer = xfer])
    <3>1. Working(Invalidated(peer))
      BY InvalidatedType DEF SenderInv
    <3>2. QED
      BY <3>1 DEF Working, PeerType
  <2>2. Working([Invalidated(peer) EXCEPT !.xfer = "idle", !.active = None])
    BY DEF SenderInv, Working, PeerType, Invalidated, NoOp, XferState, MaybeVersion
  <2>3. QED
    BY <2>1, <2>2 DEF OnVerified, OnReceived, OnPause, OnStop, SenderInv, XferState
<1>5. UNCHANGED <<current, released, refs>>
  BY DEF OnVerified, OnReceived, OnPause, OnStop, SenderDone
<1>6. QED
  BY <1>2, <1>3, <1>4, <1>5 DEF SenderInv, ChannelInv

LEMMA SenderKeeps ==
  ASSUME SenderInv, ChannelInv, SenderSteps
  PROVE  SenderInv' /\ ChannelInv'
<1>1. CASE Authorize
  <2>1. Working([peer EXCEPT !.authorized = TRUE])
    BY DEF SenderInv, Working, PeerType
  <2>2. QED
    BY <1>1, <2>1, SendMetaKeeps DEF Authorize, SenderInv, ChannelInv
<1>2. CASE SenderOpen
  <2>1. Working([peer EXCEPT !.open = TRUE])
    BY DEF SenderInv, Working, PeerType
  <2>2. QED
    BY <1>2, <2>1, SendMetaKeeps DEF SenderOpen, SenderInv, ChannelInv
<1>3. CASE SendChunk
  <2>1. peer.active \in Versions /\ peer.op.at + 1 \in Position
    BY <1>3 DEF SendChunk, SenderInv, Working, PeerType, Position
  <2>2. Msg("chunk", peer.active, peer.op.at + 1) \in ToReceiver
    BY <2>1, SenderWords
  <2>3. Working([peer EXCEPT !.op.at = @ + 1, !.sent = @ + 1])
    <3>1. \A m, n \in Nat : Working([peer EXCEPT !.op.at = m, !.sent = n])
      BY DEF SenderInv, Working, PeerType
    <3>2. peer.op.at + 1 \in Nat /\ peer.sent + 1 \in Nat
      BY DEF SenderInv, Working, PeerType
    <3>3. QED
      BY <3>1, <3>2
  <2>4. QED
    BY <1>3, <2>2, <2>3 DEF SendChunk, SenderInv, ChannelInv
<1>4. CASE FinishSend
  <2>1. peer.active \in Versions
    BY <1>4 DEF FinishSend, SenderInv, Working, PeerType
  <2>2. Msg("done", peer.active, 0) \in ToReceiver
    BY <2>1, SenderWords
  <2>3. Working(peer')
    <3>1. \A xfer \in XferState : Working([peer EXCEPT !.op = NoOp, !.xfer = xfer])
      BY DEF SenderInv, Working, PeerType, NoOp
    <3>2. (IF peer.active \in Verified THEN "verifying" ELSE "idle") \in XferState
      BY DEF XferState
    <3>3. QED
      BY <1>4, <3>1, <3>2 DEF FinishSend
  <2>4. QED
    BY <1>4, <2>2, <2>3 DEF FinishSend, SenderInv, ChannelInv
<1>5. CASE SenderReceives
  BY <1>5, OnDownloadKeeps, OnProgressKeeps, OnRepairRequestKeeps, OnWordKeeps DEF SenderReceives
<1>6. CASE \E i \in peer.op.todo : RepairBlock(i)
  BY <1>6, RepairBlockKeeps
<1>7. QED
  BY <1>1, <1>2, <1>3, <1>4, <1>5, <1>6 DEF SenderSteps

\* The sender cannot read its file.
LEMMA ReadFailsKeeps ==
  ASSUME SenderInv, ChannelInv, ReadFails
  PROVE  SenderInv' /\ ChannelInv'
<1>1. Msg("error", peer.active, 0) \in ToReceiver
  BY SenderWords DEF SenderInv, Working, PeerType
<1>2. Working(peer')
  <2>1. \A xfer \in XferState : Working([Invalidated(peer) EXCEPT !.xfer = xfer])
    BY InvalidatedType DEF SenderInv, Working, PeerType
  <2>2. (IF peer.op.kind = "repair" \/ Invalidated(peer).xfer = "uploading"
         THEN "idle" ELSE Invalidated(peer).xfer) \in XferState
    BY InvalidatedType DEF SenderInv, Working, PeerType, XferState
  <2>3. QED
    BY <2>1, <2>2 DEF ReadFails
<1>3. QED
  BY <1>1, <1>2 DEF ReadFails, SenderInv, ChannelInv

\* The file is replaced, and an old version forgotten.
LEMMA SharingKeeps ==
  ASSUME SenderInv, ChannelInv, UpdateFile \/ \E v \in Versions : Release(v)
  PROVE  SenderInv' /\ ChannelInv'
<1>1. CASE UpdateFile
  <2>1. current + 1 \in Versions /\ Msg("file-update", current + 1, 0) \in ToReceiver
    <3>1. current + 1 \in Versions
      BY <1>1, TransferAssumption DEF UpdateFile, SenderInv, Versions
    <3>2. QED
      BY <3>1, SenderWords
  <2>2. refs' \in [current : MaybeVersion, offered : MaybeVersion]
    BY <1>1, <2>1 DEF UpdateFile, SenderInv, Working, PeerType, MaybeVersion
  <2>3. toReceiver' \in Seq(ToReceiver)
    BY <1>1, <2>1 DEF UpdateFile, ChannelInv
  <2>4. QED
    BY <1>1, <2>1, <2>2, <2>3 DEF UpdateFile, SenderInv, ChannelInv
<1>2. CASE \E v \in Versions : Release(v)
  BY <1>2 DEF Release, SenderInv, ChannelInv, channel
<1>3. QED
  BY <1>1, <1>2

-----------------------------------------------------------------------------
(* The storage.                                                            *)

\* What the receiver knows is not less after a step that keeps or learns its details.
LEMMA ReceiverInvKept ==
  ASSUME Ready(recv'), recv'.meta = recv.meta \/ recv'.meta \in Versions,
         Checked(check', recv.meta), disk' \in Seq(Entries(recv.meta))
  PROVE  ReceiverInv'
<1>1. disk' \in Seq(Entries(recv'.meta))
  BY EntriesGrow
<1>2. Checked(check', recv'.meta)
  BY VersionsAreKnown DEF Checked
<1>3. QED
  BY <1>1, <1>2 DEF ReceiverInv

LEMMA ReceiverTypes ==
  ASSUME ReceiverInv
  PROVE  /\ recv \in RecvType /\ recv.meta \in MaybeVersion
         /\ recv.meta # None => recv.meta \in Versions /\ Sizes[recv.meta] \in Position
         /\ recv.pending # None => recv.pending \in Versions
         /\ recv.flow \in Nat /\ recv.acked \in Nat
         /\ check \in CheckType
BY VersionsAreKnown DEF ReceiverInv, Ready, Checked, RecvType, MaybeVersion

\* A progress message names a file.
LEMMA ProgressType ==
  ASSUME NEW r, r.meta \in Versions
  PROVE  Progress(r) \in ToSender
BY ReceiverWords DEF Progress, NoCredit

LEMMA AppendChunkKeeps ==
  ASSUME ChannelInv, ReceiverInv, StoreInv, AppendChunk
  PROVE  ChannelInv' /\ ReceiverInv' /\ StoreInv'
<1>1. recv.meta \in Versions /\ Starts("append") /\ disk \in Seq(Entries(recv.meta)) /\ disk # << >>
  BY ReceiverTypes DEF AppendChunk, Starts, ReceiverInv
<1>2. Head(disk).chunk \in Chunk /\ Tail(disk) \in Seq(Entries(recv.meta))
  BY <1>1, HeadChunk, HeadType
<1>3. stored \in Seq(Chunk) /\ stored' = Append(stored, Head(disk).chunk) /\ CheckpointData(FALSE)
  BY DEF AppendChunk, StoreInv
<1>4. stored' \in Seq(Chunk) /\ Len(stored') >= Len(stored)
  BY <1>2, <1>3
<1>5. StoreInv'
  BY <1>1, <1>3, <1>4, CheckpointDataKeeps DEF MaybeVersion
<1>6. recv.flow + 1 \in Nat
  BY ReceiverTypes
<1>7. Ready(recv') /\ recv'.meta = recv.meta
  <2>1. PICK flow \in Nat : flow = recv.flow + 1
    BY <1>6
  <2>2. LET r == [recv EXCEPT !.flow = flow, !.acked = flow] IN Ready(r) /\ r.meta = recv.meta
    BY DEF ReceiverInv, Ready, RecvType
  <2>3. LET r == [recv EXCEPT !.flow = flow] IN Ready(r) /\ r.meta = recv.meta
    BY DEF ReceiverInv, Ready, RecvType
  <2>4. \/ recv' = recv
        \/ recv' = [recv EXCEPT !.flow = flow, !.acked = flow]
        \/ recv' = [recv EXCEPT !.flow = flow]
    BY <2>1 DEF AppendChunk
  <2>5. QED
    BY <2>2, <2>3, <2>4 DEF ReceiverInv
<1>8. toSender' \in Seq(ToSender)
  <2>1. <<Msg("progress", recv.meta, recv.flow + 1)>> \in Seq(ToSender)
    BY <1>1, <1>6, ReceiverWords
  <2>2. toSender' = toSender \/ Tell(<<Msg("progress", recv.meta, recv.flow + 1)>>)
    BY DEF AppendChunk, Silent
  <2>3. QED
    BY <2>1, <2>2, TellType DEF ChannelInv
<1>9. toReceiver' = toReceiver /\ check' = check /\ disk' = Tail(disk)
  BY DEF AppendChunk, Rest, StorageOnly
<1>10. QED
  BY <1>2, <1>5, <1>7, <1>8, <1>9, ReceiverInvKept DEF ChannelInv, ReceiverInv

LEMMA StorageFailsKeeps ==
  ASSUME ChannelInv, ReceiverInv, StoreInv, StorageFails
  PROVE  ChannelInv' /\ ReceiverInv' /\ StoreInv'
<1>1. disk \in Seq(Entries(recv.meta)) /\ disk # << >>
  BY DEF StorageFails, Starts, ReceiverInv
<1>2. Tail(disk) \in Seq(Entries(recv.meta)) /\ CleanupEntry(recv) \in Seq(Entries(recv.meta))
  BY <1>1, HeadType, MadeEntries DEF Waiter
<1>3. Ready(recv') /\ recv'.meta = recv.meta
  <2>1. Ready(Cleaning(recv)) /\ Cleaning(recv).meta = recv.meta
    BY ReadyKept DEF ReceiverInv
  <2>2. LET r == [Cleaning(recv) EXCEPT !.state = "stopping", !.restart = FALSE, !.memory = TRUE,
                                        !.requested = FALSE, !.shown = FALSE]
        IN Ready(r) /\ r.meta = recv.meta
    BY <2>1 DEF Ready, RecvType, RecvState
  <2>3. QED
    BY <2>2 DEF StorageFails, ReceiverInv
<1>4. toSender' \in Seq(ToSender)
  <2>1. <<Msg("stop", None, 0)>> \in Seq(ToSender)
    BY ReceiverWords DEF MaybeVersion
  <2>2. toSender' = toSender \/ Tell(<<Msg("stop", None, 0)>>)
    BY DEF StorageFails, Silent
  <2>3. QED
    BY <2>1, <2>2, TellType DEF ChannelInv
<1>5. disk' \in Seq(Entries(recv.meta))
  <2>1. disk' = Tail(disk) \o CleanupEntry(recv) \/ disk' = Tail(disk)
    BY DEF StorageFails, Rest
  <2>2. QED
    BY <1>2, <2>1, ConcatProperties
<1>6. UNCHANGED <<toReceiver, check, stored, durable, saved>>
  BY DEF StorageFails, StorageOnly, store
<1>7. QED
  BY <1>3, <1>4, <1>5, <1>6, ReceiverInvKept DEF ChannelInv, ReceiverInv, StoreInv

LEMMA PrepareKeeps ==
  ASSUME ChannelInv, ReceiverInv, StoreInv, Prepare
  PROVE  ChannelInv' /\ ReceiverInv' /\ StoreInv'
<1>1. disk \in Seq(Entries(recv.meta)) /\ disk # << >>
  BY DEF Prepare, Starts, ReceiverInv
<1>2. disk' \in Seq(Entries(recv.meta))
  BY <1>1, HeadType DEF Prepare, Rest
<1>3. Checked(check', recv.meta)
  BY NoCheckType DEF Prepare, ReceiverInv
<1>4. Ready(recv') /\ recv'.meta = recv.meta
  <2>1. Ready(Unpaused(recv)) /\ Unpaused(recv).meta = recv.meta
    BY ReadyKept DEF ReceiverInv
  <2>2. LET r == [Unpaused(recv) EXCEPT !.shown = TRUE, !.flow = 0, !.acked = 0,
                                    !.failed = FALSE]
        IN Ready(r) /\ r.meta = recv.meta
    BY <2>1 DEF Ready, RecvType
  <2>3. QED
    BY <2>2 DEF Prepare, ReceiverInv
<1>5. toSender' \in Seq(ToSender)
  <2>1. recv.requested => recv.meta \in Versions
    BY ReceiverTypes DEF ReceiverInv, Ready
  <2>2. Len(stored) \in Nat
    BY DEF StoreInv
  <2>3. recv.requested => <<Progress(recv), Msg("download", recv.meta, Len(stored))>> \in Seq(ToSender)
    BY <2>1, <2>2, ProgressType, ReceiverWords
  <2>4. \/ toSender' = toSender
        \/ recv.requested /\ Tell(<<Progress(recv), Msg("download", recv.meta, Len(stored))>>)
    BY DEF Prepare, Silent
  <2>5. QED
    BY <2>3, <2>4, TellType DEF ChannelInv
<1>6. UNCHANGED <<toReceiver, stored, durable, saved>>
  BY DEF Prepare, StorageOnly, store
<1>7. QED
  BY <1>2, <1>3, <1>4, <1>5, <1>6, ReceiverInvKept DEF ChannelInv, StoreInv

LEMMA PrepareFailsKeeps ==
  ASSUME ChannelInv, ReceiverInv, StoreInv, PrepareFails
  PROVE  ChannelInv' /\ ReceiverInv' /\ StoreInv'
<1> DEFINE r == [recv EXCEPT !.flow = 0, !.acked = 0]
<1>1. disk \in Seq(Entries(recv.meta)) /\ disk # << >>
  BY DEF PrepareFails, Starts, ReceiverInv
<1>2. disk' \in Seq(Entries(recv.meta)) /\ Checked(check', recv.meta)
  BY <1>1, HeadType, NoCheckType DEF PrepareFails, Rest
<1>3. Ready(r) /\ r.meta = recv.meta
  BY DEF ReceiverInv, Ready, RecvType
<1>4. \/ recv' = [r EXCEPT !.state = "idle", !.requested = FALSE]
      \/ \E failed \in BOOLEAN : recv' = [r EXCEPT !.failed = failed]
  <2>1. (r.failed \/ Current) \in BOOLEAN
    BY <1>3 DEF Ready, RecvType, Current
  <2>2. QED
    BY <2>1 DEF PrepareFails
<1> HIDE DEF r
<1>5. Ready(recv') /\ recv'.meta = recv.meta
  BY <1>3, <1>4 DEF Ready, RecvType, RecvState
<1>6. UNCHANGED <<toReceiver, toSender, stored, durable, saved>>
  BY DEF PrepareFails, StorageOnly, Silent, store
<1>7. QED
  BY <1>2, <1>5, <1>6, ReceiverInvKept DEF ChannelInv, StoreInv

LEMMA CleanupKeeps ==
  ASSUME ChannelInv, ReceiverInv, StoreInv, Cleanup
  PROVE  ChannelInv' /\ ReceiverInv' /\ StoreInv'
<1> DEFINE r == AfterStop(recv)
<1>1. disk \in Seq(Entries(recv.meta)) /\ disk # << >>
  BY DEF Cleanup, Starts, ReceiverInv
<1>2. Tail(disk) \in Seq(Entries(recv.meta)) /\ Asking(r) \in Seq(Entries(recv.meta))
  BY <1>1, HeadType, MadeEntries DEF Waiter
<1>3. Ready(r) /\ (r.meta = recv.meta \/ r.meta \in Versions)
  BY AfterStopType DEF ReceiverInv
<1>4. Ready(Requesting(r)) /\ Requesting(r).meta = r.meta
  BY <1>3, ReadyKept
<1>5. Ready([recv EXCEPT !.cleanup = "done"]) /\ [recv EXCEPT !.cleanup = "done"].meta = recv.meta
  BY DEF ReceiverInv, Ready, RecvType
<1>6. /\ recv' \in {[recv EXCEPT !.cleanup = "done"], Requesting(r), r}
      /\ disk' = Tail(disk) \/ disk' = Tail(disk) \o Asking(r)
  <2>1. disk' = Tail(disk) \/ disk' = Tail(disk) \o Asking(r)
    BY <1>2 DEF Cleanup, CleanupDone
  <2>2. QED
    BY <2>1 DEF Cleanup, CleanupDone
<1> HIDE DEF r
<1>7. Ready(recv') /\ (recv'.meta = recv.meta \/ recv'.meta \in Versions)
  BY <1>3, <1>4, <1>5, <1>6
<1>8. disk' \in Seq(Entries(recv.meta))
  BY <1>2, <1>6, ConcatProperties
<1>9. check' = NoCheck /\ UNCHANGED <<toReceiver, toSender>> /\ StoreInv'
  BY EmptiedKeeps DEF Cleanup, StorageOnly, Silent
<1>10. QED
  BY <1>7, <1>8, <1>9, ReceiverInvKept, NoCheckType DEF ChannelInv

LEMMA AdoptKeeps ==
  ASSUME ChannelInv, ReceiverInv, StoreInv, Adopt
  PROVE  ChannelInv' /\ ReceiverInv' /\ StoreInv'
<1> DEFINE r == Downloading(Adopted(recv, Head(disk).chunk[1]))
<1>1. disk \in Seq(Entries(recv.meta)) /\ disk # << >> /\ Starts("adopt")
  BY DEF Adopt, Starts, ReceiverInv
<1>2. Tail(disk) \in Seq(Entries(recv.meta)) /\ Asking(r) \in Seq(Entries(recv.meta))
  BY <1>1, HeadType, MadeEntries DEF Waiter
<1>3. Head(disk).chunk[1] \in Versions
  BY <1>1, HeadChunk
<1>4. Ready(Adopted(recv, Head(disk).chunk[1])) /\ Adopted(recv, Head(disk).chunk[1]).meta \in Versions
  BY <1>3, AdoptedType DEF ReceiverInv
<1>5. Ready(r) /\ r.meta \in Versions
  BY <1>4, ReadyKept
<1>6. recv' = Requesting(r) /\ disk' = Tail(disk) \o Asking(r)
  BY DEF Adopt
<1> HIDE DEF r
<1>7. Ready(recv') /\ recv'.meta \in Versions
  BY <1>5, <1>6, ReadyKept
<1>8. disk' \in Seq(Entries(recv.meta))
  BY <1>2, <1>6
<1>9. check' = NoCheck /\ UNCHANGED <<toReceiver, toSender>> /\ StoreInv'
  BY EmptiedKeeps DEF Adopt, StorageOnly, Silent
<1>10. QED
  BY <1>7, <1>8, <1>9, ReceiverInvKept, NoCheckType DEF ChannelInv

LEMMA ForcedCheckpointKeeps ==
  ASSUME ChannelInv, ReceiverInv, StoreInv, ForcedCheckpoint
  PROVE  ChannelInv' /\ ReceiverInv' /\ StoreInv'
<1>1. disk \in Seq(Entries(recv.meta)) /\ disk # << >>
  BY DEF ForcedCheckpoint, Starts, ReceiverInv
<1>2. disk' \in Seq(Entries(recv.meta))
  BY <1>1, HeadType DEF ForcedCheckpoint, Rest
<1>3. CheckpointData(TRUE) /\ stored' = stored
  BY DEF ForcedCheckpoint
<1>4. StoreInv'
  <2>1. stored' \in Seq(Chunk) /\ Len(stored') >= Len(stored)
    BY <1>3 DEF StoreInv
  <2>2. recv.meta \in MaybeVersion
    BY ReceiverTypes
  <2>3. QED
    BY <1>3, <2>1, <2>2, CheckpointDataKeeps
<1>5. UNCHANGED <<recv, check, toReceiver, toSender>>
  BY DEF ForcedCheckpoint, StorageOnly, Silent
<1>6. QED
  BY <1>2, <1>4, <1>5, ReceiverInvKept DEF ChannelInv, ReceiverInv

LEMMA DiscardKeeps ==
  ASSUME ChannelInv, ReceiverInv, StoreInv, Discard
  PROVE  ChannelInv' /\ ReceiverInv' /\ StoreInv'
<1>1. disk \in Seq(Entries(recv.meta)) /\ disk # << >>
  BY DEF Discard, Starts, ReceiverInv
<1>2. disk' \in Seq(Entries(recv.meta))
  BY <1>1, HeadType DEF Discard, Rest
<1>3. Ready(recv') /\ recv'.meta = recv.meta
  <2>1. Ready(Unpaused(recv)) /\ Unpaused(recv).meta = recv.meta
    BY ReadyKept DEF ReceiverInv
  <2>2. LET r == [Unpaused(recv) EXCEPT !.shown = FALSE] IN Ready(r) /\ r.meta = recv.meta
    BY <2>1 DEF Ready, RecvType
  <2>3. QED
    BY <2>2 DEF Discard, ReceiverInv
<1>4. check' = NoCheck /\ UNCHANGED <<toReceiver, toSender>> /\ StoreInv'
  BY EmptiedKeeps DEF Discard, StorageOnly, Silent
<1>5. QED
  BY <1>2, <1>3, <1>4, ReceiverInvKept, NoCheckType DEF ChannelInv

\* A failure waits for the storage.
LEMMA FailQueued ==
  ASSUME NEW meta, NEW d \in Seq(Entries(meta))
  PROVE  d \o <<Entry("fail", NoChunk, "channel")>> \in Seq(Entries(meta))
<1>1. Entry("fail", NoChunk, "channel") \in Entries(meta)
  BY EntryTypes DEF Waiter
<1>2. <<Entry("fail", NoChunk, "channel")>> \in Seq(Entries(meta))
  BY <1>1
<1>3. QED
  BY <1>2, ConcatProperties

LEMMA CompleteKeeps ==
  ASSUME ChannelInv, ReceiverInv, StoreInv, Complete
  PROVE  ChannelInv' /\ ReceiverInv' /\ StoreInv'
<1>1. disk \in Seq(Entries(recv.meta)) /\ disk # << >>
  BY DEF Complete, Starts, ReceiverInv
<1>2. Tail(disk) \in Seq(Entries(recv.meta))
  BY <1>1, HeadType
<1>3. disk' \in Seq(Entries(recv.meta))
  BY <1>2, FailQueued DEF Complete, Rest
<1>4. Ready(recv') /\ recv'.meta = recv.meta
  <2>1. LET r == [recv EXCEPT !.state = "idle", !.requested = FALSE] IN Ready(r) /\ r.meta = recv.meta
    BY DEF ReceiverInv, Ready, RecvType, RecvState
  <2>2. LET r == [recv EXCEPT !.state = "complete", !.requested = FALSE, !.shown = FALSE]
        IN Ready(r) /\ r.meta = recv.meta
    BY DEF ReceiverInv, Ready, RecvType, RecvState
  <2>3. QED
    BY <2>1, <2>2 DEF Complete, ReceiverInv
<1>5. Checked(check', recv.meta)
  <2>1. Checked([check EXCEPT !.retries = 0], recv.meta)
    BY DEF ReceiverInv, Checked, CheckType
  <2>2. check' = check \/ check' = [check EXCEPT !.retries = 0]
    BY DEF Complete
  <2>3. QED
    BY <2>1, <2>2 DEF ReceiverInv
<1>6. toSender' \in Seq(ToSender)
  <2>1. <<Msg("received", recv.meta, 0)>> \in Seq(ToSender)
    BY ReceiverTypes, ReceiverWords
  <2>2. toSender' = toSender \/ Tell(<<Msg("received", recv.meta, 0)>>)
    BY DEF Complete, Silent
  <2>3. QED
    BY <2>1, <2>2, TellType DEF ChannelInv
<1>7. StoreInv'
  <2>1. UNCHANGED <<stored, durable>> /\ saved' \in {saved, NoCheckpoint}
    BY DEF Complete
  <2>2. QED
    BY <2>1 DEF StoreInv, NoCheckpoint, MaybeVersion, None
<1>8. toReceiver' = toReceiver
  BY DEF Complete, StorageOnly
<1>9. QED
  BY <1>3, <1>4, <1>5, <1>6, <1>7, <1>8, ReceiverInvKept DEF ChannelInv

\* A repaired block takes the place of the old one: the store is not longer for it.
LEMMA ReplaceKeeps ==
  ASSUME ChannelInv, ReceiverInv, StoreInv, Replace
  PROVE  ChannelInv' /\ ReceiverInv' /\ StoreInv'
<1> DEFINE i == Head(disk).chunk[2]
           left == check.missing \ {i}
<1>1. disk \in Seq(Entries(recv.meta)) /\ disk # << >> /\ Starts("replace")
  BY DEF Replace, Starts, ReceiverInv
<1>2. Head(disk).chunk[1] \in Chunk /\ recv.meta \in Versions
  BY <1>1, HeadChunk, ReceiverTypes
<1>3. disk' \in Seq(Entries(recv.meta))
  BY <1>1, HeadType DEF Replace, Rest
<1>4. StoreInv'
  <2>1. stored' = stored \/ stored' = [stored EXCEPT ![i] = Head(disk).chunk[1]]
    BY DEF Replace
  <2>2. stored' \in Seq(Chunk) /\ Len(stored') = Len(stored)
    <3>1. stored \in Seq(Chunk)
      BY DEF StoreInv
    <3>2. CASE i \in 1..Len(stored)
      BY <1>2, <2>1, <3>1, <3>2, ExceptSeq
    <3>3. CASE i \notin 1..Len(stored)
      <4>1. [stored EXCEPT ![i] = Head(disk).chunk[1]] = stored
        BY <3>1, <3>3
      <4>2. QED
        BY <2>1, <3>1, <4>1
    <3>4. QED
      BY <3>2, <3>3
  <2>3. UNCHANGED <<durable, saved>>
    BY DEF Replace
  <2>4. QED
    BY <2>2, <2>3 DEF StoreInv
<1>5. Checked(check', recv.meta)
  <2>1. \A repaired \in SUBSET Position :
          Checked([check EXCEPT !.missing = left, !.repaired = repaired], recv.meta)
    BY DEF ReceiverInv, Checked, CheckType
  <2>2. (IF left = {} THEN {} ELSE check.repaired) \in SUBSET Position
    BY DEF ReceiverInv, Checked, CheckType
  <2>3. check' = check
        \/ check' = [check EXCEPT !.missing = left,
                                  !.repaired = IF left = {} THEN {} ELSE check.repaired]
    BY DEF Replace
  <2>4. QED
    BY <2>1, <2>2, <2>3 DEF ReceiverInv
<1>6. Ready(recv') /\ recv'.meta = recv.meta
  <2>1. LET r == [recv EXCEPT !.shown = TRUE] IN Ready(r) /\ r.meta = recv.meta
    BY DEF ReceiverInv, Ready, RecvType
  <2>2. LET r == [recv EXCEPT !.shown = TRUE, !.state = "verifying",
                              !.verify = [of |-> check.manifest, blocks |-> check.repaired]]
        IN Ready(r) /\ r.meta = recv.meta
    <3>1. [of |-> check.manifest, blocks |-> check.repaired]
            \in [of : MaybeVersion, blocks : SUBSET Position]
      BY DEF ReceiverInv, Checked, CheckType
    <3>2. recv.meta # None
      BY <1>2, VersionsAreKnown
    <3>3. QED
      BY <3>1, <3>2 DEF ReceiverInv, Ready, RecvType, RecvState
  <2>3. QED
    BY <2>1, <2>2 DEF Replace, ReceiverInv
<1>7. toSender' \in Seq(ToSender)
  <2>1. <<Progress(recv)>> \in Seq(ToSender)
    BY <1>2, ProgressType
  <2>2. toSender' = toSender \/ Tell(<<Progress(recv)>>)
    BY DEF Replace, Silent
  <2>3. QED
    BY <2>1, <2>2, TellType DEF ChannelInv
<1>8. toReceiver' = toReceiver
  BY DEF Replace, StorageOnly
<1>9. QED
  BY <1>3, <1>4, <1>5, <1>6, <1>7, <1>8, ReceiverInvKept DEF ChannelInv

LEMMA StorageKeeps ==
  ASSUME ChannelInv, ReceiverInv, StoreInv, Storage \/ StorageFails \/ PrepareFails
  PROVE  ChannelInv' /\ ReceiverInv' /\ StoreInv'
BY AppendChunkKeeps, StorageFailsKeeps, PrepareKeeps, PrepareFailsKeeps, CleanupKeeps, AdoptKeeps,
   ForcedCheckpointKeeps, DiscardKeeps, CompleteKeeps, ReplaceKeeps DEF Storage

-----------------------------------------------------------------------------
(* The receiver's message handler.                                         *)

\* What an action that tells nothing, or only known words, does to the channel.
LEMMA HandledKeeps ==
  ASSUME ChannelInv, StoreInv, NEW type, Gets(type), Handled, toSender' \in Seq(ToSender)
  PROVE  ChannelInv' /\ StoreInv'
<1>1. toReceiver' = Tail(toReceiver) /\ UNCHANGED <<stored, durable, saved>>
  BY DEF Handled, store
<1>2. Tail(toReceiver) \in Seq(ToReceiver)
  BY HeardFromSender DEF ChannelInv
<1>3. QED
  BY <1>1, <1>2 DEF ChannelInv, StoreInv

\* What asks for the rest of the file, now that its storage is prepared.
LEMMA RequestKeeps ==
  ASSUME ReceiverInv, NEW r, Ready(r), r.meta = recv.meta \/ r.meta \in Versions,
         NEW by \in Waiter, recv' = Requesting(r),
         disk' = disk \o Preparing(r, by) \/ disk' = disk \o Asking(r)
  PROVE  /\ Ready(recv') /\ (recv'.meta = recv.meta \/ recv'.meta \in Versions)
         /\ disk' \in Seq(Entries(recv.meta))
<1>1. Ready(recv') /\ recv'.meta = r.meta
  BY ReadyKept
<1>2. /\ Preparing(r, by) \in Seq(Entries(recv.meta)) /\ Asking(r) \in Seq(Entries(recv.meta))
      /\ disk \in Seq(Entries(recv.meta))
  BY MadeEntries DEF ReceiverInv
<1>3. /\ disk \o Preparing(r, by) \in Seq(Entries(recv.meta))
      /\ disk \o Asking(r) \in Seq(Entries(recv.meta))
  BY <1>2, ConcatProperties
<1>4. QED
  BY <1>1, <1>3

LEMMA OnMetaKeeps ==
  ASSUME ChannelInv, ReceiverInv, StoreInv, OnMeta
  PROVE  ChannelInv' /\ ReceiverInv' /\ StoreInv'
<1> DEFINE v == Message.version
           shown == [recv EXCEPT !.meta = v, !.accepting = FALSE]
           stopping == [recv EXCEPT !.pending =
                          IF recv.restart /\ recv.pending # None THEN v ELSE recv.pending]
           offered == [recv EXCEPT !.pending = v, !.requested = FALSE]
           paused == [shown EXCEPT !.shown = TRUE]
<1>1. Gets("meta") /\ Handled /\ check' = check
  BY DEF OnMeta
<1>2. v \in Versions /\ v \in MaybeVersion /\ v # None
  BY <1>1, HeardFromSender, VersionsAreKnown DEF ChannelInv, MaybeVersion
<1>3. Ready(shown) /\ shown.meta \in Versions /\ shown.meta = v
  BY <1>2 DEF ReceiverInv, Ready, RecvType
<1>4. Ready(offered) /\ offered.meta = recv.meta
  BY <1>2 DEF ReceiverInv, Ready, RecvType
<1>5. Ready(stopping) /\ stopping.meta = recv.meta
  <2>1. \A pending \in MaybeVersion : LET r == [recv EXCEPT !.pending = pending]
                                      IN Ready(r) /\ r.meta = recv.meta
    BY DEF ReceiverInv, Ready, RecvType
  <2>2. (IF recv.restart /\ recv.pending # None THEN v ELSE recv.pending) \in MaybeVersion
    BY <1>2 DEF ReceiverInv, Ready, RecvType
  <2>3. QED
    BY <2>1, <2>2
<1>6. Ready(paused) /\ paused.meta \in Versions
  BY <1>3 DEF Ready, RecvType
<1>7. toSender' \in Seq(ToSender)
  <2>1. <<Progress(shown), Msg("pause", None, 0)>> \in Seq(ToSender)
    <3>1. Progress(shown) \in ToSender
      BY <1>3, ProgressType
    <3>2. Msg("pause", None, 0) \in ToSender
      BY ReceiverWords DEF MaybeVersion
    <3>3. QED
      BY <3>1, <3>2
  <2>2. toSender' = toSender \/ Tell(<<Progress(shown), Msg("pause", None, 0)>>)
    BY DEF OnMeta, Silent
  <2>3. QED
    BY <2>1, <2>2, TellType DEF ChannelInv
<1>8. \/ recv' = stopping /\ disk' = disk
      \/ recv' = offered /\ disk' = disk
      \/ recv' = paused /\ disk' = disk
      \/ recv' = shown /\ disk' = disk
      \/ ThenRequest(offered)
      \/ ThenRequest(shown)
  BY DEF OnMeta
<1> HIDE DEF stopping, offered, paused, shown
<1>9. /\ Ready(recv') /\ (recv'.meta = recv.meta \/ recv'.meta \in Versions)
      /\ disk' \in Seq(Entries(recv.meta))
  <2>1. CASE ThenRequest(offered)
    BY <1>4, <2>1, RequestKeeps DEF ThenRequest, Waiter
  <2>2. CASE ThenRequest(shown)
    BY <1>3, <2>2, RequestKeeps DEF ThenRequest, Waiter
  <2>3. CASE recv' \in {stopping, offered, paused, shown} /\ disk' = disk
    BY <1>3, <1>4, <1>5, <1>6, <2>3 DEF ReceiverInv
  <2>4. QED
    BY <1>8, <2>1, <2>2, <2>3
<1>10. QED
  BY <1>1, <1>7, <1>9, HandledKeeps, ReceiverInvKept DEF ReceiverInv

LEMMA OnUpdateKeeps ==
  ASSUME ChannelInv, ReceiverInv, StoreInv, OnUpdate
  PROVE  ChannelInv' /\ ReceiverInv' /\ StoreInv'
<1> DEFINE v == Message.version
<1>1. Gets("file-update") /\ Handled /\ check' = check /\ disk' = disk /\ toSender' = toSender
  BY DEF OnUpdate, Silent
<1>2. v \in Versions /\ v # None
  BY <1>1, HeardFromSender, VersionsAreKnown DEF ChannelInv
<1>3. LET r == [recv EXCEPT !.meta = v, !.accepting = FALSE, !.shown = FALSE]
      IN Ready(r) /\ r.meta \in Versions
  BY <1>2 DEF ReceiverInv, Ready, RecvType, MaybeVersion
<1>4. LET r == [recv EXCEPT !.pending = v] IN Ready(r) /\ r.meta = recv.meta
  BY <1>2 DEF ReceiverInv, Ready, RecvType, MaybeVersion
<1>5. Ready(recv') /\ (recv'.meta = recv.meta \/ recv'.meta \in Versions)
  BY <1>3, <1>4 DEF OnUpdate, ReceiverInv
<1>6. QED
  BY <1>1, <1>5, HandledKeeps, ReceiverInvKept DEF ReceiverInv, ChannelInv

LEMMA FailsKeeps ==
  ASSUME ReceiverInv, NEW r, Ready(r), r.meta = recv.meta, Fails(r)
  PROVE  Ready(recv') /\ recv'.meta = recv.meta /\ disk' \in Seq(Entries(recv.meta))
<1>1. Ready(recv') /\ recv'.meta = recv.meta
  BY DEF Fails, Ready, RecvType, RecvState
<1>2. QED
  BY <1>1, FailQueued DEF Fails, ReceiverInv

LEMMA OnDoneKeeps ==
  ASSUME ChannelInv, ReceiverInv, StoreInv, OnDone
  PROVE  ChannelInv' /\ ReceiverInv' /\ StoreInv'
<1> DEFINE v == Message.version
           again == [recv EXCEPT !.requested = FALSE]
           verifying == [recv EXCEPT !.state = "verifying",
                                     !.verify = [of |-> v, blocks |-> 1..Sizes[v]]]
<1>1. Gets("done") /\ Handled /\ toSender' = toSender
  BY DEF OnDone, Silent, Ignored
<1>2. v \in Versions
  BY <1>1, HeardFromSender DEF ChannelInv
<1>3. Ready(again) /\ again.meta = recv.meta
  BY DEF ReceiverInv, Ready, RecvType
<1>4. recv.meta # None => Ready(verifying) /\ verifying.meta = recv.meta
  <2>1. [of |-> v, blocks |-> 1..Sizes[v]] \in [of : MaybeVersion, blocks : SUBSET Position]
    BY <1>2, VersionsAreKnown DEF MaybeVersion, Position
  <2>2. QED
    BY <2>1 DEF ReceiverInv, Ready, RecvType, RecvState
<1>5. Checked([check EXCEPT !.retries = @ + 1], recv.meta)
  <2>1. \A n \in Nat : Checked([check EXCEPT !.retries = n], recv.meta)
    BY DEF ReceiverInv, Checked, CheckType
  <2>2. check.retries + 1 \in Nat
    BY DEF ReceiverInv, Checked, CheckType
  <2>3. QED
    BY <2>1, <2>2
<1>6. recv.meta # None => Checked([check EXCEPT !.manifest = v], recv.meta)
  BY <1>2 DEF ReceiverInv, Checked, CheckType, MaybeVersion
<1>7. \/ UNCHANGED <<recv, check, disk>>
      \/ Fails(recv) /\ check' = check
      \/ ThenRequest(again) /\ check' = [check EXCEPT !.retries = @ + 1]
      \/ /\ recv.meta # None /\ UNCHANGED <<recv, check>>
         /\ disk' = disk \o <<Entry("file", NoChunk, "channel")>>
      \/ /\ recv.meta # None /\ recv' = verifying /\ disk' = disk
         /\ check' = [check EXCEPT !.manifest = v]
  BY DEF OnDone, Ignored
<1> HIDE DEF again, verifying
<1>8. recv.meta # None => disk \o <<Entry("file", NoChunk, "channel")>> \in Seq(Entries(recv.meta))
  <2>1. recv.meta # None => <<Entry("file", NoChunk, "channel")>> \in Seq(Entries(recv.meta))
    BY EntryTypes DEF Waiter
  <2>2. QED
    BY <2>1, ConcatProperties DEF ReceiverInv
<1>9. /\ Ready(recv') /\ (recv'.meta = recv.meta \/ recv'.meta \in Versions)
      /\ disk' \in Seq(Entries(recv.meta)) /\ Checked(check', recv.meta)
  <2>1. CASE UNCHANGED <<recv, check, disk>>
    BY <2>1 DEF ReceiverInv
  <2>2. CASE Fails(recv) /\ check' = check
    BY <2>2, FailsKeeps DEF ReceiverInv
  <2>3. CASE ThenRequest(again) /\ check' = [check EXCEPT !.retries = @ + 1]
    BY <1>3, <1>5, <2>3, RequestKeeps DEF ThenRequest, Waiter
  <2>4. CASE /\ recv.meta # None /\ UNCHANGED <<recv, check>>
             /\ disk' = disk \o <<Entry("file", NoChunk, "channel")>>
    BY <1>8, <2>4 DEF ReceiverInv
  <2>5. CASE /\ recv.meta # None /\ recv' = verifying /\ disk' = disk
             /\ check' = [check EXCEPT !.manifest = v]
    BY <1>4, <1>6, <2>5 DEF ReceiverInv
  <2>6. QED
    BY <1>7, <2>1, <2>2, <2>3, <2>4, <2>5
<1>10. QED
  BY <1>1, <1>9, HandledKeeps, ReceiverInvKept DEF ChannelInv

LEMMA VerifyKeeps ==
  ASSUME ChannelInv, ReceiverInv, StoreInv, Verify
  PROVE  ChannelInv' /\ ReceiverInv' /\ StoreInv'
<1> DEFINE r == [recv EXCEPT !.verify = NoVerification]
           repairing == [r EXCEPT !.state = "repairing", !.shown = TRUE]
<1>1. recv.meta \in Versions
  BY ReceiverTypes DEF Verify, ReceiverInv, Ready
<1>2. Mismatches \in SUBSET Position
  BY ReceiverTypes DEF Mismatches, RecvType
<1>3. Ready(r) /\ r.meta = recv.meta
  BY DEF ReceiverInv, Ready, RecvType, NoVerification, MaybeVersion
<1>4. Ready(repairing) /\ repairing.meta = recv.meta
  BY <1>3 DEF Ready, RecvType, RecvState
<1>5. Checked([check EXCEPT !.repairs = @ + 1, !.missing = Mismatches, !.repaired = Mismatches],
              recv.meta)
  <2>1. \A n \in Nat : Checked([check EXCEPT !.repairs = n, !.missing = Mismatches,
                                             !.repaired = Mismatches], recv.meta)
    BY <1>2 DEF ReceiverInv, Checked, CheckType
  <2>2. check.repairs + 1 \in Nat
    BY DEF ReceiverInv, Checked, CheckType
  <2>3. QED
    BY <2>1, <2>2
<1>6. \/ recv' = r /\ check' = check /\ disk' = disk \o <<Entry("file", NoChunk, "channel")>>
      \/ Fails(r) /\ check' = check
      \/ /\ recv' = repairing /\ disk' = disk
         /\ check' = [check EXCEPT !.repairs = @ + 1,
                                   !.missing = Mismatches, !.repaired = Mismatches]
  BY DEF Verify
<1>7. toSender' \in Seq(ToSender)
  <2>1. <<Msg("verified", None, 0)>> \in Seq(ToSender)
    BY ReceiverWords DEF MaybeVersion
  <2>2. <<Progress(recv), Msg("repair-request", None, Mismatches)>> \in Seq(ToSender)
    BY <1>1, <1>2, ProgressType, ReceiverWords
  <2>3. \/ toSender' = toSender
        \/ Tell(<<Msg("verified", None, 0)>>)
        \/ Tell(<<Progress(recv), Msg("repair-request", None, Mismatches)>>)
    BY DEF Verify, Silent
  <2>4. QED
    BY <2>1, <2>2, <2>3, TellType DEF ChannelInv
<1>8. UNCHANGED <<toReceiver, stored, durable, saved>>
  BY DEF Verify, store
<1> HIDE DEF r, repairing
<1>9. Ready(recv') /\ recv'.meta = recv.meta /\ disk' \in Seq(Entries(recv.meta))
  <2>1. disk \o <<Entry("file", NoChunk, "channel")>> \in Seq(Entries(recv.meta))
    <3>1. <<Entry("file", NoChunk, "channel")>> \in Seq(Entries(recv.meta))
      BY <1>1, EntryTypes, VersionsAreKnown DEF Waiter
    <3>2. QED
      BY <3>1, ConcatProperties DEF ReceiverInv
  <2>2. CASE Fails(r)
    BY <1>3, <2>2, FailsKeeps
  <2>3. CASE recv' \in {r, repairing}
             /\ disk' \in {disk, disk \o <<Entry("file", NoChunk, "channel")>>}
    BY <1>3, <1>4, <2>1, <2>3 DEF ReceiverInv
  <2>4. QED
    BY <1>6, <2>2, <2>3
<1>10. Checked(check', recv.meta)
  BY <1>5, <1>6 DEF ReceiverInv
<1>11. QED
  BY <1>7, <1>8, <1>9, <1>10, ReceiverInvKept DEF ChannelInv, StoreInv

LEMMA OnPausedKeeps ==
  ASSUME ChannelInv, ReceiverInv, StoreInv, OnPaused
  PROVE  ChannelInv' /\ ReceiverInv' /\ StoreInv'
<1>1. Gets("paused") /\ Handled /\ check' = check /\ recv' = Confirmed(recv)
      /\ disk' = disk \o Checkpointing(recv)
  BY DEF OnPaused
<1>2. Ready(recv') /\ recv'.meta = recv.meta
  BY <1>1, ReadyKept DEF ReceiverInv
<1>3. disk' \in Seq(Entries(recv.meta))
  <2>1. Checkpointing(recv) \in Seq(Entries(recv.meta))
    BY MadeEntries DEF Waiter
  <2>2. QED
    BY <1>1, <2>1, ConcatProperties DEF ReceiverInv
<1>4. toSender' \in Seq(ToSender)
  <2>1. recv.meta # None => <<Progress(recv)>> \in Seq(ToSender)
    BY ReceiverTypes, ProgressType
  <2>2. toSender' = toSender \/ (recv.meta # None /\ Tell(<<Progress(recv)>>))
    BY DEF OnPaused, Silent
  <2>3. QED
    BY <2>1, <2>2, TellType DEF ChannelInv
<1>5. QED
  BY <1>1, <1>2, <1>3, <1>4, HandledKeeps, ReceiverInvKept DEF ReceiverInv

LEMMA OnStoppedKeeps ==
  ASSUME ChannelInv, ReceiverInv, StoreInv, OnStopped
  PROVE  ChannelInv' /\ ReceiverInv' /\ StoreInv'
<1> DEFINE r == [Cleaning(recv) EXCEPT
                   !.state = "idle", !.requested = FALSE,
                   !.finish = IF recv.state = "stopping" /\ recv.restart THEN "restart" ELSE "stop"]
           after == AfterStop(r)
<1>1. Gets("stopped") /\ Handled /\ check' = check /\ toSender' = toSender
  BY DEF OnStopped, Silent
<1>2. Ready(r) /\ r.meta = recv.meta
  <2>1. Ready(Cleaning(recv)) /\ Cleaning(recv).meta = recv.meta
    BY ReadyKept DEF ReceiverInv
  <2>2. \A finish \in {"restart", "stop"} :
          LET s == [Cleaning(recv) EXCEPT !.state = "idle", !.requested = FALSE, !.finish = finish]
          IN Ready(s) /\ s.meta = recv.meta
    BY <2>1 DEF Ready, RecvType, RecvState
  <2>3. (IF recv.state = "stopping" /\ recv.restart THEN "restart" ELSE "stop")
          \in {"restart", "stop"}
    OBVIOUS
  <2>4. QED
    BY <2>2, <2>3
<1>3. Ready(after) /\ (after.meta = recv.meta \/ after.meta \in Versions)
  BY <1>2, AfterStopType
<1>4. \/ recv' = r /\ disk' = disk \o CleanupEntry(recv)
      \/ recv' = Requesting(after) /\ disk' = disk \o Asking(after)
      \/ recv' = after /\ disk' = disk \o << >>
  BY DEF OnStopped
<1> HIDE DEF r, after
<1>5. /\ CleanupEntry(recv) \in Seq(Entries(recv.meta))
      /\ Asking(after) \in Seq(Entries(recv.meta))
      /\ << >> \in Seq(Entries(recv.meta)) /\ disk \in Seq(Entries(recv.meta))
  BY MadeEntries DEF Waiter, ReceiverInv
<1>6. disk' \in Seq(Entries(recv.meta))
  BY <1>4, <1>5, ConcatProperties
<1>7. Ready(recv') /\ (recv'.meta = recv.meta \/ recv'.meta \in Versions)
  BY <1>2, <1>3, <1>4, ReadyKept
<1>8. QED
  BY <1>1, <1>6, <1>7, HandledKeeps, ReceiverInvKept DEF ReceiverInv, ChannelInv

LEMMA OnRepairKeeps ==
  ASSUME ChannelInv, ReceiverInv, StoreInv, OnRepairStart \/ OnRepairEnd
  PROVE  ChannelInv' /\ ReceiverInv' /\ StoreInv'
<1>1. CASE OnRepairStart
  <2>1. Gets("repair-start") /\ Handled /\ UNCHANGED <<recv, disk, toSender>>
    BY <1>1 DEF OnRepairStart, Silent
  <2>2. Message.at \in Nat
    BY <2>1, HeardFromSender DEF ChannelInv, Position
  <2>3. check.manifest # None => Checked([check EXCEPT !.block = Message.at, !.parts = << >>], recv.meta)
    <3>1. \A parts \in Seq(Chunk) : check.manifest # None =>
            Checked([check EXCEPT !.block = Message.at, !.parts = parts], recv.meta)
      BY <2>2 DEF ReceiverInv, Checked, CheckType
    <3>2. << >> \in Seq(Chunk)
      OBVIOUS
    <3>3. QED
      BY <3>1, <3>2
  <2>4. Checked(check', recv.meta)
    BY <1>1, <2>3 DEF OnRepairStart, ReceiverInv
  <2>5. QED
    BY <2>1, <2>4, HandledKeeps, ReceiverInvKept DEF ReceiverInv, ChannelInv
<1>2. CASE OnRepairEnd
  <2>1. Gets("repair-end") /\ Handled /\ recv' = recv /\ toSender' = toSender
    BY <1>2 DEF OnRepairEnd, Ignored, Silent
  <2>2. Message.at \in Position
    BY <2>1, HeardFromSender DEF ChannelInv
  <2>3. Checked([check EXCEPT !.block = 0, !.parts = << >>], recv.meta)
    <3>1. \A parts \in Seq(Chunk) : Checked([check EXCEPT !.block = 0, !.parts = parts], recv.meta)
      BY DEF ReceiverInv, Checked, CheckType
    <3>2. << >> \in Seq(Chunk)
      OBVIOUS
    <3>3. QED
      BY <3>1, <3>2
  <2>4. Checked(check', recv.meta)
    BY <1>2, <2>3 DEF OnRepairEnd, Ignored, ReceiverInv
  <2>5. check.block = Message.at /\ check.parts # << >> =>
          Entry("replace", <<check.parts[1], check.block>>, "channel") \in Entries(recv.meta)
    <3> SUFFICES ASSUME check.block = Message.at, check.parts # << >>
                 PROVE  Entry("replace", <<check.parts[1], check.block>>, "channel")
                          \in Entries(recv.meta)
      OBVIOUS
    <3>1. check.parts \in Seq(Chunk) /\ recv.meta # None
      BY <2>2 DEF ReceiverInv, Checked, CheckType, Position
    <3>2. check.parts[1] \in Chunk
      BY <3>1
    <3>3. <<check.parts[1], check.block>> \in Chunk \X Position
      BY <2>2, <3>2
    <3>4. QED
      BY <3>1, <3>3, EntryTypes DEF Waiter
  <2>6. disk' \in Seq(Entries(recv.meta))
    <3> DEFINE e == Entry("replace", <<check.parts[1], check.block>>, "channel")
    <3>1. \/ disk' = disk
          \/ /\ check.block = Message.at /\ check.parts # << >>
             /\ disk' = disk \o <<e>>
      BY <1>2 DEF OnRepairEnd, Ignored
    <3> HIDE DEF e
    <3>2. e \in Entries(recv.meta) => <<e>> \in Seq(Entries(recv.meta))
      OBVIOUS
    <3>3. QED
      BY <2>5, <3>1, <3>2, ConcatProperties DEF ReceiverInv, e
  <2>7. QED
    BY <2>1, <2>4, <2>6, HandledKeeps, ReceiverInvKept DEF ReceiverInv, ChannelInv
<1>3. QED
  BY <1>1, <1>2

LEMMA OnChunkKeeps ==
  ASSUME ChannelInv, ReceiverInv, StoreInv, OnChunk
  PROVE  ChannelInv' /\ ReceiverInv' /\ StoreInv'
<1> DEFINE chunk == <<Message.version, Message.at>>
<1>1. Gets("chunk") /\ Handled
  BY DEF OnChunk
<1>2. chunk \in Chunk
  BY <1>1, HeardFromSender DEF ChannelInv, Chunk
<1>3. PICK flow \in Nat : flow = recv.flow + 1
  BY ReceiverTypes
<1>4. LET r == [recv EXCEPT !.flow = flow, !.acked = flow] IN Ready(r) /\ r.meta = recv.meta
  BY DEF ReceiverInv, Ready, RecvType
<1>5. LET r == [recv EXCEPT !.flow = flow] IN Ready(r) /\ r.meta = recv.meta
  BY DEF ReceiverInv, Ready, RecvType
<1> HIDE DEF chunk
<1>6. Checked([check EXCEPT !.parts = <<chunk>>], recv.meta)
  <2>1. \A parts \in Seq(Chunk) : Checked([check EXCEPT !.parts = parts], recv.meta)
    BY DEF ReceiverInv, Checked, CheckType
  <2>2. <<chunk>> \in Seq(Chunk)
    BY <1>2
  <2>3. QED
    BY <2>1, <2>2
<1>7. \/ recv' = recv
      \/ recv' = [recv EXCEPT !.flow = flow, !.acked = flow]
      \/ recv' = [recv EXCEPT !.flow = flow]
  BY <1>3 DEF OnChunk, Ignored
<1>8. check' = check \/ check' = [check EXCEPT !.parts = <<chunk>>]
  BY DEF OnChunk, Ignored, chunk
<1>9. disk' = disk \/ disk' = disk \o <<Entry("append", chunk, "channel")>>
  BY DEF OnChunk, Ignored, chunk
<1>10. toSender' = toSender
       \/ (recv.meta # None /\ Tell(<<Msg("progress", recv.meta, flow)>>))
  BY <1>3 DEF OnChunk, Ignored, Silent
<1>11. <<Entry("append", chunk, "channel")>> \in Seq(Entries(recv.meta))
  BY <1>2, EntryTypes DEF Waiter
<1>12. disk' \in Seq(Entries(recv.meta))
  BY <1>9, <1>11, ConcatProperties DEF ReceiverInv
<1>13. recv.meta # None => <<Msg("progress", recv.meta, flow)>> \in Seq(ToSender)
  BY ReceiverTypes, ReceiverWords
<1>14. toSender' \in Seq(ToSender)
  BY <1>10, <1>13, TellType DEF ChannelInv
<1>15. Ready(recv') /\ recv'.meta = recv.meta
  BY <1>4, <1>5, <1>7 DEF ReceiverInv
<1>16. Checked(check', recv.meta)
  BY <1>6, <1>8 DEF ReceiverInv
<1>17. QED
  BY <1>1, <1>12, <1>14, <1>15, <1>16, HandledKeeps, ReceiverInvKept

LEMMA HandlerKeeps ==
  ASSUME ChannelInv, ReceiverInv, StoreInv, ReceiverReceives
  PROVE  ChannelInv' /\ ReceiverInv' /\ StoreInv'
<1>1. CASE OnError
  <2>1. Gets("error") /\ Handled /\ UNCHANGED <<check, disk, toSender>>
        /\ recv' = [recv EXCEPT !.failed = TRUE]
    BY <1>1 DEF OnError, Silent
  <2>2. Ready(recv') /\ recv'.meta = recv.meta
    BY <2>1 DEF ReceiverInv, Ready, RecvType
  <2>3. QED
    BY <2>1, <2>2, HandledKeeps, ReceiverInvKept DEF ReceiverInv, ChannelInv
<1>2. QED
  BY <1>1, OnMetaKeeps, OnUpdateKeeps, OnDoneKeeps, OnPausedKeeps, OnStoppedKeeps,
     OnRepairKeeps, OnChunkKeeps DEF ReceiverReceives

-----------------------------------------------------------------------------
(* The user.                                                               *)

\* The words of the user.
LEMMA UserWords ==
  ASSUME toSender \in Seq(ToSender), NEW type \in {"pause", "stop"},
         Silent \/ Tell(<<Msg(type, None, 0)>>)
  PROVE  toSender' \in Seq(ToSender)
<1>1. <<Msg(type, None, 0)>> \in Seq(ToSender)
  BY ReceiverWords DEF MaybeVersion
<1>2. QED
  BY <1>1, TellType DEF Silent

LEMMA UserKeeps ==
  ASSUME ChannelInv, ReceiverInv, StoreInv, User
  PROVE  ChannelInv' /\ ReceiverInv' /\ StoreInv'
<1>1. UserOnly /\ UNCHANGED <<toReceiver, check, stored, durable, saved>>
  BY DEF User, Receive, Pause, Resume, Terminate, AcceptUpdate, UserOnly, store
<1>2. /\ Ready(recv) /\ disk \in Seq(Entries(recv.meta))
      /\ toSender \in Seq(ToSender) /\ toReceiver \in Seq(ToReceiver)
  BY DEF ReceiverInv, ChannelInv
<1>3. CleanupEntry(recv) \in Seq(Entries(recv.meta)) /\ Checkpointing(recv) \in Seq(Entries(recv.meta))
      /\ CleanupEntry(recv) \in Seq(Entries(recv.meta))
  BY MadeEntries DEF Waiter
<1>4. /\ disk \o CleanupEntry(recv) \in Seq(Entries(recv.meta))
      /\ disk \o Checkpointing(recv) \in Seq(Entries(recv.meta))
  BY <1>2, <1>3, ConcatProperties
<1>5. CASE Receive \/ Resume
  <2>1. /\ recv' = Requesting(Downloading(recv)) /\ toSender' = toSender
        /\ disk' = disk \o Asking(Downloading(recv))
    BY <1>5 DEF Receive, Resume, Silent
  <2>2. Ready(Downloading(recv)) /\ Downloading(recv).meta = recv.meta
    BY <1>2, ReadyKept
  <2>3. /\ Ready(recv') /\ (recv'.meta = recv.meta \/ recv'.meta \in Versions)
        /\ disk' \in Seq(Entries(recv.meta))
    BY <2>1, <2>2, RequestKeeps DEF Waiter
  <2>4. QED
    BY <1>1, <1>2, <2>1, <2>3, ReceiverInvKept DEF ReceiverInv, ChannelInv, StoreInv
<1>6. CASE Pause
  <2> DEFINE r == [recv EXCEPT !.state = "pausing", !.requested = FALSE]
  <2>1. Ready(r) /\ r.meta = recv.meta
    BY <1>2 DEF Ready, RecvType, RecvState
  <2>2. \/ recv' = r /\ disk' = disk
        \/ recv' = Confirmed(r) /\ disk' = disk \o Checkpointing(r)
    BY <1>6 DEF Pause
  <2>3. toSender' \in Seq(ToSender)
    BY <1>2, <1>6, UserWords DEF Pause
  <2> HIDE DEF r
  <2>4. Ready(recv') /\ recv'.meta = recv.meta
    BY <2>1, <2>2, ReadyKept
  <2>5. Checkpointing(r) \in Seq(Entries(recv.meta))
    BY MadeEntries DEF Waiter
  <2>6. disk' \in Seq(Entries(recv.meta))
    BY <1>2, <2>2, <2>5, ConcatProperties
  <2>7. QED
    BY <1>1, <2>3, <2>4, <2>6, ReceiverInvKept DEF ReceiverInv, ChannelInv, StoreInv
<1>7. CASE Terminate
  <2>1. Ready(Cleaning(recv)) /\ Cleaning(recv).meta = recv.meta
    BY <1>2, ReadyKept
  <2>2. LET r == [Cleaning(recv) EXCEPT !.state = "stopping", !.restart = FALSE, !.requested = FALSE]
        IN Ready(r) /\ r.meta = recv.meta
    BY <2>1 DEF Ready, RecvType, RecvState
  <2>3. Ready(recv') /\ recv'.meta = recv.meta
    BY <1>7, <2>2 DEF Terminate
  <2>4. disk' \in Seq(Entries(recv.meta))
    BY <1>4, <1>7 DEF Terminate
  <2>5. toSender' \in Seq(ToSender)
    BY <1>2, <1>7, UserWords DEF Terminate
  <2>6. QED
    BY <1>1, <2>3, <2>4, <2>5, ReceiverInvKept DEF ReceiverInv, ChannelInv, StoreInv
<1>8. CASE AcceptUpdate
  <2> DEFINE r == [recv EXCEPT !.accepting = TRUE, !.shown = FALSE]
             stopping == [Cleaning(r) EXCEPT !.state = "stopping", !.restart = TRUE,
                                             !.requested = FALSE]
  <2>1. Ready(r) /\ r.meta = recv.meta
    BY <1>2 DEF Ready, RecvType
  <2>2. Ready(Cleaning(r)) /\ Cleaning(r).meta = recv.meta
    BY <2>1, ReadyKept
  <2>3. Ready(stopping) /\ stopping.meta = recv.meta
    BY <2>2 DEF Ready, RecvType, RecvState
  <2>4. \/ recv' = stopping /\ disk' = disk \o CleanupEntry(recv)
        \/ recv' = r /\ disk' = disk \o <<Entry("adopt", <<recv.pending, 0>>, "nobody")>>
    BY <1>8 DEF AcceptUpdate
  <2> HIDE DEF r, stopping
  <2>5. Ready(recv') /\ recv'.meta = recv.meta
    BY <2>1, <2>3, <2>4
  <2>6. <<Entry("adopt", <<recv.pending, 0>>, "nobody")>> \in Seq(Entries(recv.meta))
    <3>1. recv.pending \in Versions
      BY <1>8, ReceiverTypes DEF AcceptUpdate
    <3>2. QED
      BY <3>1, EntryTypes DEF Waiter
  <2>7. disk' \in Seq(Entries(recv.meta))
    BY <1>2, <1>4, <2>4, <2>6, ConcatProperties
  <2>8. toSender' \in Seq(ToSender)
    BY <1>2, <1>8, UserWords DEF AcceptUpdate
  <2>9. QED
    BY <1>1, <2>5, <2>7, <2>8, ReceiverInvKept DEF ReceiverInv, ChannelInv, StoreInv
<1>9. QED
  BY <1>5, <1>6, <1>7, <1>8 DEF User

-----------------------------------------------------------------------------
(* The connection, and the page.                                           *)

LEMMA PeerLostType ==
  ASSUME SenderInv
  PROVE  Working(PeerLost)
<1>1. Working(Invalidated(peer))
  BY InvalidatedType DEF SenderInv
<1>2. \A xfer \in XferState : Working([Invalidated(peer) EXCEPT !.open = FALSE, !.xfer = xfer])
  BY <1>1 DEF Working, PeerType
<1>3. (IF Invalidated(peer).xfer \in {"paused", "complete"} THEN Invalidated(peer).xfer ELSE "idle")
        \in XferState
  BY <1>1 DEF Working, PeerType, XferState
<1>4. QED
  BY <1>2, <1>3 DEF PeerLost

LEMMA ConnectKeeps ==
  ASSUME TransferInv, Connect
  PROVE  TransferInv'
<1>1. Working(peer')
  <2>1. /\ peer.active \in MaybeVersion /\ peer.repairs \in Nat
    BY DEF TransferInv, SenderInv, Working, PeerType
  <2>2. \A xfer \in {"paused", "idle"} :
          Working([NewPeer EXCEPT !.xfer = xfer, !.active = peer.active, !.repairs = peer.repairs])
    BY <2>1 DEF Working, PeerType, NewPeer, NoOp, XferState
  <2>3. (IF peer.xfer = "paused" THEN "paused" ELSE "idle") \in {"paused", "idle"}
    OBVIOUS
  <2>4. QED
    BY <2>2, <2>3 DEF Connect
<1>2. SenderInv'
  BY <1>1 DEF Connect, TransferInv, SenderInv
<1>3. ChannelInv'
  BY DEF Connect, Lost, ChannelInv
<1>4. Ready(recv') /\ recv'.meta = recv.meta
  <2>1. Ready(Confirmed(recv)) /\ Confirmed(recv).meta = recv.meta
    BY ReadyKept DEF TransferInv, ReceiverInv
  <2>2. Ready(Detached(Confirmed(recv))) /\ Detached(Confirmed(recv)).meta = recv.meta
    BY <2>1, ReadyKept
  <2>3. QED
    BY <2>2 DEF Connect, Ready, RecvType
<1>5. disk' \in Seq(Entries(recv.meta))
  <2>1. Gone \in Seq(Entries(recv.meta)) /\ Checkpointing(recv) \in Seq(Entries(recv.meta))
    BY GoneType, MadeEntries DEF TransferInv, ReceiverInv, Waiter
  <2>2. QED
    BY <2>1, ConcatProperties DEF Connect
<1>6. UNCHANGED <<check, stored, durable, saved>>
  BY DEF Connect, store
<1>7. ReceiverInv' /\ StoreInv'
  BY <1>4, <1>5, <1>6, ReceiverInvKept DEF TransferInv, ReceiverInv, StoreInv
<1>8. QED
  BY <1>2, <1>3, <1>7 DEF TransferInv

LEMMA ReceiverOpenKeeps ==
  ASSUME TransferInv, ReceiverOpen
  PROVE  TransferInv'
<1> DEFINE r == [recv EXCEPT !.link = "open"]
<1>1. Ready(r) /\ r.meta = recv.meta
  BY DEF TransferInv, ReceiverInv, Ready, RecvType
<1>2. \/ recv' = Requesting(r) /\ disk' = disk \o Preparing(r, "nobody")
      \/ recv' = r /\ disk' = disk
  BY DEF ReceiverOpen
<1> HIDE DEF r
<1>3. /\ Ready(recv') /\ (recv'.meta = recv.meta \/ recv'.meta \in Versions)
      /\ disk' \in Seq(Entries(recv.meta))
  BY <1>1, <1>2, RequestKeeps DEF TransferInv, ReceiverInv, Waiter
<1>4. toSender' \in Seq(ToSender)
  <2>1. Append(toSender, Msg("stop", None, 0)) \in Seq(ToSender)
    BY ReceiverWords DEF TransferInv, ChannelInv, MaybeVersion
  <2>2. QED
    BY <2>1 DEF ReceiverOpen, Silent, TransferInv, ChannelInv
<1>5. UNCHANGED <<senderVars, toReceiver, check, stored, durable, saved>>
  BY DEF ReceiverOpen, store
<1>6. QED
  BY <1>3, <1>4, <1>5, ReceiverInvKept
  DEF TransferInv, SenderInv, ChannelInv, ReceiverInv, StoreInv, senderVars

LEMMA BreakKeeps ==
  ASSUME TransferInv, Break
  PROVE  TransferInv'
<1>1. Working(peer')
  BY PeerLostType DEF Break, TransferInv
<1>2. SenderInv'
  BY <1>1 DEF Break, TransferInv, SenderInv
<1>3. ChannelInv'
  <2>1. toReceiver \in Seq(ToReceiver)
    BY DEF TransferInv, ChannelInv
  <2>2. \A n \in 0..Len(toReceiver) : SubSeq(toReceiver, 1, n) \in Seq(ToReceiver)
    BY <2>1
  <2>3. QED
    BY <2>2 DEF Break, ChannelInv
<1>4. Ready(recv') /\ recv'.meta = recv.meta
  BY DEF Break, TransferInv, ReceiverInv, Ready, RecvType
<1>5. UNCHANGED <<check, disk, stored, durable, saved>>
  BY DEF Break, store
<1>6. QED
  BY <1>2, <1>3, <1>4, <1>5 DEF TransferInv, ReceiverInv, StoreInv

LEMMA RecoveryFailsKeeps ==
  ASSUME TransferInv, RecoveryFails
  PROVE  TransferInv'
<1>1. Working(peer')
  <2>1. Working(Invalidated(peer))
    BY InvalidatedType DEF TransferInv, SenderInv
  <2>2. Working([Invalidated(peer) EXCEPT !.xfer = "idle"])
    BY <2>1 DEF Working, PeerType, XferState
  <2>3. QED
    BY <2>2 DEF RecoveryFails, TransferInv, SenderInv
<1>2. SenderInv'
  BY <1>1 DEF RecoveryFails, TransferInv, SenderInv
<1>3. ChannelInv'
  BY DEF RecoveryFails, Silent, TransferInv, ChannelInv
<1>4. UNCHANGED <<check, stored, durable, saved>>
  BY DEF RecoveryFails, store
<1>5. Ready(Detached(recv)) /\ Detached(recv).meta = recv.meta
  BY ReadyKept DEF TransferInv, ReceiverInv
<1>6. Gone \in Seq(Entries(recv.meta))
  BY GoneType DEF TransferInv, ReceiverInv
<1>7. CASE recv.state = "stopping"
  <2> DEFINE r == [Cleaning(Detached(recv)) EXCEPT
                     !.state = "idle", !.finish = IF recv.restart THEN "adopt" ELSE "abandon"]
  <2>1. Ready(Cleaning(Detached(recv))) /\ Cleaning(Detached(recv)).meta = recv.meta
    BY <1>5, ReadyKept
  <2>2. Ready(r) /\ r.meta = recv.meta
    <3>1. \A finish \in {"adopt", "abandon"} :
            LET s == [Cleaning(Detached(recv)) EXCEPT !.state = "idle", !.finish = finish]
            IN Ready(s) /\ s.meta = recv.meta
      BY <2>1 DEF Ready, RecvType, RecvState
    <3>2. (IF recv.restart THEN "adopt" ELSE "abandon") \in {"adopt", "abandon"}
      OBVIOUS
    <3>3. QED
      BY <3>1, <3>2
  <2>3. recv' \in {r, AfterStop(r)} /\ disk' = Gone \o CleanupEntry(recv)
    BY <1>7 DEF RecoveryFails
  <2> HIDE DEF r
  <2>4. Ready(recv') /\ (recv'.meta = recv.meta \/ recv'.meta \in Versions)
    BY <2>2, <2>3, AfterStopType
  <2>5. CleanupEntry(recv) \in Seq(Entries(recv.meta))
    BY MadeEntries DEF Waiter
  <2>6. disk' \in Seq(Entries(recv.meta))
    BY <1>6, <2>3, <2>5, ConcatProperties
  <2>7. QED
    BY <1>2, <1>3, <1>4, <2>4, <2>6, ReceiverInvKept DEF TransferInv, ReceiverInv, StoreInv
<1>8. CASE recv.state # "stopping"
  <2>1. \A shown \in BOOLEAN :
          LET s == [Detached(recv) EXCEPT !.state = "paused", !.shown = shown]
          IN Ready(s) /\ s.meta = recv.meta
    BY <1>5 DEF Ready, RecvType, RecvState
  <2>2. (Detached(recv).shown \/ recv.meta # None) \in BOOLEAN
    OBVIOUS
  <2>3. recv' = [Detached(recv) EXCEPT !.state = "paused",
                                       !.shown = Detached(recv).shown \/ recv.meta # None]
    BY <1>8 DEF RecoveryFails
  <2>4. Ready(recv') /\ recv'.meta = recv.meta
    BY <2>1, <2>2, <2>3, Zenon
  <2>5. <<Entry("checkpoint", NoChunk, "nobody")>> \in Seq(Entries(recv.meta))
    BY EntryTypes DEF Waiter
  <2>6. disk' \in Seq(Entries(recv.meta))
    BY <1>6, <1>8, <2>5, ConcatProperties DEF RecoveryFails
  <2>7. QED
    BY <1>2, <1>3, <1>4, <2>4, <2>6, ReceiverInvKept DEF TransferInv, ReceiverInv, StoreInv
<1>9. QED
  BY <1>7, <1>8

\* A page that is loaded anew has what its checkpoint counts, as that was flushed.
LEMMA ReloadKeeps ==
  ASSUME TransferInv, Reload
  PROVE  TransferInv'
<1>1. ChannelInv' /\ check' = NoCheck /\ disk' = << >> /\ UNCHANGED <<current, released>>
  BY DEF Reload, Lost, ChannelInv
<1>2. refs' \in [current : MaybeVersion, offered : MaybeVersion] /\ Working(peer')
  <2>1. Working(NewPeer) /\ NoRefs \in [current : MaybeVersion, offered : MaybeVersion]
    BY DEF Working, PeerType, NewPeer, NoOp, XferState, NoRefs, MaybeVersion
  <2>2. refs' \in {refs, NoRefs} /\ peer' \in {PeerLost, NewPeer}
    BY DEF Reload
  <2>3. QED
    BY <2>1, <2>2, PeerLostType DEF TransferInv, SenderInv
<1>3. SenderInv'
  BY <1>1, <1>2 DEF TransferInv, SenderInv
<1>4. PICK n \in durable..Len(stored) :
        IF Restorable(n)
        THEN /\ recv' = [NewReceiver EXCEPT !.state = "paused", !.meta = saved.version, !.shown = TRUE]
             /\ stored' = SubSeq(stored, 1, saved.bytes) /\ durable' = saved.bytes
             /\ UNCHANGED saved
        ELSE recv' = NewReceiver /\ Emptied
  BY DEF Reload
<1>5. Ready(recv')
  <2>1. Ready(NewReceiver)
    BY DEF Ready, RecvType, RecvState, NewReceiver, NoVerification, MaybeVersion
  <2>2. \A v \in Versions :
          Ready([NewReceiver EXCEPT !.state = "paused", !.meta = v, !.shown = TRUE])
    BY <2>1, VersionsAreKnown DEF Ready, RecvType, RecvState, MaybeVersion
  <2>3. Restorable(n) => saved.version \in Versions
    BY DEF Restorable, TransferInv, StoreInv, MaybeVersion
  <2>4. QED
    BY <1>4, <2>1, <2>2, <2>3
<1>6. ReceiverInv'
  BY <1>1, <1>5, NoCheckType DEF ReceiverInv
<1>7. StoreInv'
  <2>1. CASE Restorable(n)
    <3>1. /\ stored \in Seq(Chunk) /\ saved.bytes \in Nat /\ saved.bytes <= Len(stored)
      BY DEF TransferInv, StoreInv
    <3>2. stored' \in Seq(Chunk) /\ Len(stored') = saved.bytes
      <4>1. stored' = SubSeq(stored, 1, saved.bytes)
        BY <1>4, <2>1
      <4>2. \A s \in Seq(Chunk) : \A k \in 0..Len(s) :
              SubSeq(s, 1, k) \in Seq(Chunk) /\ Len(SubSeq(s, 1, k)) = k
        BY SubSeqProperties
      <4>3. Len(stored) \in Nat /\ saved.bytes \in 0..Len(stored)
        BY <3>1
      <4>4. QED
        BY <4>1, <4>2, <4>3, <3>1
    <3>3. QED
      BY <1>4, <2>1, <3>1, <3>2 DEF TransferInv, StoreInv
  <2>2. CASE ~Restorable(n)
    BY <1>4, <2>2, EmptiedKeeps
  <2>3. QED
    BY <2>1, <2>2
<1>8. QED
  BY <1>1, <1>3, <1>6, <1>7 DEF TransferInv

-----------------------------------------------------------------------------
(* The queue of the storage, and what waits for it.                        *)

\* One handler at a time: it waits for its entry, for a verification or for a stop.
Handling(r) == r.verify # NoVerification \/ r.finish \in {"stop", "restart"}

\* What nobody waits for is what the user and the connection asked for.
Background == {"prepare", "request", "cleanup", "adopt", "checkpoint"}

QueueInv ==
  /\ \A i, j \in DOMAIN disk : i < j /\ disk[j].by = "gone" => disk[i].by = "gone"
  /\ \A i, j \in DOMAIN disk : disk[i].by = "channel" /\ disk[j].by = "channel" => i = j
  /\ \A i \in DOMAIN disk : disk[i].by = "channel" => ~Handling(recv)
  /\ \A i \in DOMAIN disk : disk[i].by = "nobody" => disk[i].kind \in Background
  /\ recv.verify # NoVerification => recv.finish \notin {"stop", "restart"}

\* Without a channel nothing is on its way to the sender, and it does nothing.
QuietWhenClosed ==
  recv.link = "closed" => ~peer.open /\ peer.op.kind = "none" /\ toSender = << >>

\* What is on its way, and the entries that somebody waits for.
Types(s) == {s[i].type : i \in DOMAIN s}
Kinds(d, by) == {d[i].kind : i \in {j \in DOMAIN d : d[j].by = by}}

\* A transfer on this channel: asked for, going on, on its way, checked or being stored.
Content == {"chunk", "done", "repair-start", "repair-end"}
Transferring ==
  \/ Types(toSender) \cap {"download", "repair-request"} # {}
  \/ peer.op.kind # "none"
  \/ Types(toReceiver) \cap Content # {}
  \/ recv.verify # NoVerification
  \/ Kinds(disk, "channel") \cap {"append", "file", "fail", "replace"} # {}

\* What comes through a channel is stored after all that came through earlier ones.
FreshInv == Transferring => Kinds(disk, "gone") = {}

SessionInv == QueueInv /\ QuietWhenClosed /\ FreshInv

-----------------------------------------------------------------------------
(* The store under a verification, when the sender shares one version.     *)

OneVersion == Len(Sizes) = 1

Good(i) == i \in DOMAIN stored /\ stored[i] = <<1, i>>
\* All of the file is as it was sent, but for these blocks at most.
SoundBut(blocks) == \A i \in 1..Sizes[1] : i \in blocks \/ Good(i)

\* A repair has been asked for, is being sent or is being stored.
RepairUnderWay ==
  \/ "repair-request" \in Types(toSender)
  \/ peer.op.kind = "repair"
  \/ "repair-end" \in Types(toReceiver)
  \/ "replace" \in Kinds(disk, "channel")

ManifestHasData == check.manifest # None => stored # << >>
VerifySound == recv.verify # NoVerification => stored = << >> \/ SoundBut(recv.verify.blocks)
RepairSound ==
  /\ RepairUnderWay /\ check.manifest # None
  /\ recv.verify = NoVerification /\ "fail" \notin Kinds(disk, "channel")
  => SoundBut(check.repaired)
FileSound == "file" \in Kinds(disk, "channel") /\ 1 \in Verified => stored = << >> \/ SoundBut({})
FilesSound ==
  \A f \in files :
    /\ f.version \in Versions
    /\ f.version \in Verified =>
         Len(f.chunks) = Sizes[1] /\ \A i \in DOMAIN f.chunks : f.chunks[i] = <<1, i>>

VerifiedInv == ManifestHasData /\ VerifySound /\ RepairSound /\ FileSound /\ FilesSound

-----------------------------------------------------------------------------
(* A block in its place: what a repair-end ends is what its start began.   *)

\* Block i is begun within a stretch of the channel.
Begun(q, i, from, to) == \E j \in from..to : q[j].type = "repair-start" /\ q[j].at = i
\* With all before k received, what has come since the last begin of block i is of that block.
Clean(q, c, i, k) ==
  /\ \A l \in 1..(k - 1) : q[l].type = "chunk" /\ q[l].at # i => Begun(q, i, l + 1, k - 1)
  /\ c.parts # << >> /\ c.block = i /\ c.parts[1][2] # i => Begun(q, i, 1, k - 1)
\* The block that the sender has begun and not ended.
Sending(p, i) ==
  /\ p.op.kind = "repair" /\ p.op.at # 0
  /\ i \in p.op.todo /\ \A j \in p.op.todo : i <= j
BlocksInOrder(q, c, p) ==
  /\ \A k \in 1..Len(q) : q[k].type = "repair-end" => Clean(q, c, q[k].at, k)
  /\ \A i : Sending(p, i) => Clean(q, c, i, Len(q) + 1)

\* A block is received only where the manifest has it.
BlockKnown(c) ==
  c.block # 0 \/ c.parts # << >> => c.manifest # None /\ c.block <= Sizes[c.manifest]

InPlace(d) == \A i \in DOMAIN d : d[i].kind = "replace" => d[i].chunk[1][2] = d[i].chunk[2]

PlaceInv == BlocksInOrder(toReceiver, check, peer) /\ BlockKnown(check) /\ InPlace(disk)

\* What is added to the queue although nobody waits for it.
OneInBackground(es) ==
  es = << >> \/ \E e : es = <<e>> /\ e.by = "nobody" /\ e.kind \in Background

\* Who waits for an entry, and for what kind of entry.
LEMMA EntryFields ==
  ASSUME NEW meta, NEW d \in Seq(Entries(meta)), NEW i \in DOMAIN d
  PROVE  /\ d[i].by \in Waiter
         /\ [d[i] EXCEPT !.by = "gone"].by = "gone"
         /\ [d[i] EXCEPT !.by = "gone"].kind = d[i].kind
<1>1. d[i] \in Entries(meta)
  BY ElementOfSeq
<1>2. QED
  BY <1>1 DEF Entries, EntriesWithout, Waiter

\* What is in a queue that has grown by at most one entry.
LEMMA Grown ==
  ASSUME NEW S, NEW s \in Seq(S), NEW es, es = << >> \/ \E e : es = <<e>>
  PROVE  /\ DOMAIN s = 1..Len(s) /\ Len(s) \in Nat
         /\ \A i \in DOMAIN (s \o es) :
              /\ i \in Nat
              /\ \/ i \in DOMAIN s /\ (s \o es)[i] = s[i]
                 \/ i = Len(s) + 1 /\ es # << >> /\ (s \o es)[i] = es[1]
         /\ \A i \in DOMAIN s : i \in DOMAIN (s \o es) /\ (s \o es)[i] = s[i]
<1>1. DOMAIN s = 1..Len(s) /\ Len(s) \in Nat
  OBVIOUS
<1>2. CASE es = << >>
  <2>1. s \o es = s
    BY <1>2, ConcatEmptySeq
  <2>2. QED
    BY <1>1, <2>1
<1>3. ASSUME NEW e, es = <<e>>
      PROVE  /\ \A i \in DOMAIN (s \o es) :
                  /\ i \in Nat
                  /\ \/ i \in DOMAIN s /\ (s \o es)[i] = s[i]
                     \/ i = Len(s) + 1 /\ es # << >> /\ (s \o es)[i] = es[1]
             /\ \A i \in DOMAIN s : i \in DOMAIN (s \o es) /\ (s \o es)[i] = s[i]
  <2>1. \A i \in DOMAIN (s \o <<e>>) :
          /\ i \in Nat
          /\ \/ i \in DOMAIN s /\ (s \o <<e>>)[i] = s[i]
             \/ i = Len(s) + 1 /\ (s \o <<e>>)[i] = e
    OBVIOUS
  <2>2. \A i \in DOMAIN s : i \in DOMAIN (s \o <<e>>) /\ (s \o <<e>>)[i] = s[i]
    OBVIOUS
  <2>3. es # << >> /\ es[1] = e
    BY <1>3
  <2>4. QED
    BY <1>3, <2>1, <2>2, <2>3
<1>4. QED
  BY <1>1, <1>2, <1>3

\* The handler takes up at most one entry, and leaves at most one.
LEMMA QueueGrows ==
  ASSUME QueueInv, disk \in Seq(Entries(recv.meta)),
         NEW es, disk' = disk \o es, OneInBackground(es),
         Handling(recv') => Handling(recv) \/ ~Busy,
         recv'.verify # NoVerification => recv'.finish \notin {"stop", "restart"}
  PROVE  QueueInv'
<1>1. \A i \in DOMAIN disk' : \/ i \in DOMAIN disk /\ disk'[i] = disk[i]
                              \/ i = Len(disk) + 1 /\ es # << >> /\ disk'[i] = es[1]
  BY Grown DEF OneInBackground
<1>2. DOMAIN disk = 1..Len(disk) /\ Len(disk) \in Nat
  OBVIOUS
<1>0. es # << >> => es[1].by = "nobody" /\ es[1].kind \in Background
  BY DEF OneInBackground
<1>3. \A i \in DOMAIN disk' : disk'[i].by = "channel" => i \in DOMAIN disk /\ disk'[i] = disk[i]
  BY <1>0, <1>1
<1>4. \A i \in DOMAIN disk' : disk'[i].by = "gone" => i \in DOMAIN disk /\ disk'[i] = disk[i]
  BY <1>0, <1>1
<1>5. \A i, j \in DOMAIN disk' : i < j /\ disk'[j].by = "gone" => disk'[i].by = "gone"
  BY <1>1, <1>2, <1>4 DEF QueueInv
<1>6. \A i, j \in DOMAIN disk' : disk'[i].by = "channel" /\ disk'[j].by = "channel" => i = j
  BY <1>3 DEF QueueInv
<1>7. \A i \in DOMAIN disk' : disk'[i].by = "channel" => ~Handling(recv')
  BY <1>3 DEF QueueInv, Busy
<1>8. \A i \in DOMAIN disk' : disk'[i].by = "nobody" => disk'[i].kind \in Background
  BY <1>0, <1>1 DEF QueueInv
<1>9. QED
  BY <1>5, <1>6, <1>7, <1>8 DEF QueueInv

\* The handler waits for an entry of its own when nothing else is handled.
LEMMA QueueTakes ==
  ASSUME QueueInv, disk \in Seq(Entries(recv.meta)), \A i \in DOMAIN disk : disk[i].by # "channel",
         NEW e, disk' = disk \o <<e>>, e.by = "channel", ~Handling(recv')
  PROVE  QueueInv'
<1>1. \A i \in DOMAIN disk' : \/ i \in DOMAIN disk /\ disk'[i] = disk[i]
                              \/ i = Len(disk) + 1 /\ disk'[i] = e
  OBVIOUS
<1>2. DOMAIN disk = 1..Len(disk) /\ Len(disk) \in Nat
  OBVIOUS
<1>3. \A i \in DOMAIN disk' : disk'[i].by = "channel" => i = Len(disk) + 1
  BY <1>1
<1>4. \A i \in DOMAIN disk' : disk'[i].by = "gone" => i \in DOMAIN disk /\ disk'[i] = disk[i]
  BY <1>1
<1>5. \A i, j \in DOMAIN disk' : i < j /\ disk'[j].by = "gone" => disk'[i].by = "gone"
  BY <1>1, <1>2, <1>4 DEF QueueInv
<1>6. \A i \in DOMAIN disk' : disk'[i].by = "nobody" => disk'[i].kind \in Background
  BY <1>1 DEF QueueInv
<1>7. QED
  BY <1>3, <1>5, <1>6 DEF QueueInv, Handling

\* What is left of the queue when its head has been carried out.
LEMMA TailElements ==
  ASSUME NEW s, NEW S, s \in Seq(S), s # << >>
  PROVE  /\ DOMAIN Tail(s) = 1..(Len(s) - 1) /\ Len(s) \in Nat \ {0}
         /\ \A i \in DOMAIN Tail(s) : i + 1 \in DOMAIN s /\ i + 1 # 1 /\ Tail(s)[i] = s[i + 1]
         /\ 1 \in DOMAIN s /\ Head(s) = s[1]
OBVIOUS

LEMMA QueueMoves ==
  ASSUME QueueInv, disk \in Seq(Entries(recv.meta)), disk # << >>,
         NEW es, disk' = Tail(disk) \o es,
         \/ OneInBackground(es)
         \/ \E e : es = <<e>> /\ e.by = "channel" /\ Head(disk).by = "channel" /\ ~Handling(recv'),
         Handling(recv') => Handling(recv) \/ Head(disk).by = "channel",
         recv'.verify # NoVerification => recv'.finish \notin {"stop", "restart"}
  PROVE  QueueInv'
<1> DEFINE t == Tail(disk)
<1>1. /\ t \in Seq(Entries(recv.meta)) /\ DOMAIN t = 1..Len(t) /\ Len(t) \in Nat
      /\ \A i \in DOMAIN t : i + 1 \in DOMAIN disk /\ i + 1 # 1 /\ t[i] = disk[i + 1]
      /\ 1 \in DOMAIN disk /\ Head(disk) = disk[1]
  BY TailElements
<1>2. /\ \A i, j \in DOMAIN t : i < j /\ t[j].by = "gone" => t[i].by = "gone"
      /\ \A i, j \in DOMAIN t : t[i].by = "channel" /\ t[j].by = "channel" => i = j
      /\ \A i \in DOMAIN t : t[i].by = "nobody" => t[i].kind \in Background
  <2>1. \A i, j \in DOMAIN t : i < j /\ t[j].by = "gone" => t[i].by = "gone"
    <3> SUFFICES ASSUME NEW i \in DOMAIN t, NEW j \in DOMAIN t, i < j, t[j].by = "gone"
                 PROVE  t[i].by = "gone"
      OBVIOUS
    <3>1. i + 1 < j + 1 /\ i + 1 \in DOMAIN disk /\ j + 1 \in DOMAIN disk
      BY <1>1
    <3>2. QED
      BY <1>1, <3>1 DEF QueueInv
  <2>2. \A i, j \in DOMAIN t : t[i].by = "channel" /\ t[j].by = "channel" => i = j
    <3> SUFFICES ASSUME NEW i \in DOMAIN t, NEW j \in DOMAIN t, t[i].by = "channel", t[j].by = "channel"
                 PROVE  i = j
      OBVIOUS
    <3>1. i + 1 = j + 1
      BY <1>1 DEF QueueInv
    <3>2. QED
      BY <1>1, <3>1
  <2>3. \A i \in DOMAIN t : t[i].by = "nobody" => t[i].kind \in Background
    BY <1>1 DEF QueueInv
  <2>4. QED
    BY <2>1, <2>2, <2>3
<1>3. Head(disk).by = "channel" => \A i \in DOMAIN t : t[i].by # "channel"
  BY <1>1 DEF QueueInv
<1>4. \A i \in DOMAIN t : t[i].by = "channel" => ~Handling(recv')
  BY <1>1, <1>3 DEF QueueInv
<1>5. disk' = t \o es
  OBVIOUS
<1> HIDE DEF t
<1>6. \A i \in DOMAIN disk' :
        /\ i \in Nat
        /\ \/ i \in DOMAIN t /\ disk'[i] = t[i]
           \/ i = Len(t) + 1 /\ es # << >> /\ disk'[i] = es[1]
  <2>1. es = << >> \/ \E e : es = <<e>>
    BY DEF OneInBackground
  <2>2. QED
    BY <1>1, <1>5, <2>1, Grown
<1>7. \A i, j \in DOMAIN disk' : i < j /\ disk'[j].by = "gone" => disk'[i].by = "gone"
  <2>1. es # << >> => es[1].by # "gone"
    BY DEF OneInBackground
  <2>2. \A j \in DOMAIN disk' : disk'[j].by = "gone" => j \in DOMAIN t /\ disk'[j] = t[j]
    BY <1>6, <2>1
  <2>3. \A i, j \in DOMAIN disk' : i < j /\ j \in DOMAIN t => i \in DOMAIN t /\ disk'[i] = t[i]
    BY <1>1, <1>6
  <2>4. QED
    BY <1>2, <2>2, <2>3
<1>8. \A i, j \in DOMAIN disk' : disk'[i].by = "channel" /\ disk'[j].by = "channel" => i = j
  <2>1. CASE Head(disk).by = "channel"
    <3>1. \A i \in DOMAIN disk' : disk'[i].by = "channel" => i = Len(t) + 1
      BY <1>3, <1>6, <2>1
    <3>2. QED
      BY <3>1
  <2>2. CASE Head(disk).by # "channel"
    <3>1. es # << >> => es[1].by = "nobody"
      BY <2>2 DEF OneInBackground
    <3>2. \A i \in DOMAIN disk' : disk'[i].by = "channel" => i \in DOMAIN t /\ disk'[i] = t[i]
      BY <1>6, <3>1
    <3>3. QED
      BY <1>2, <3>2
  <2>3. QED
    BY <2>1, <2>2
<1>9. \A i \in DOMAIN disk' : disk'[i].by = "channel" => ~Handling(recv')
  BY <1>4, <1>6 DEF OneInBackground
<1>10. \A i \in DOMAIN disk' : disk'[i].by = "nobody" => disk'[i].kind \in Background
  BY <1>2, <1>6 DEF OneInBackground
<1>11. QED
  BY <1>7, <1>8, <1>9, <1>10 DEF QueueInv

\* A new channel: nobody of the old one waits any more.
LEMMA QueueOfNewChannel ==
  ASSUME disk \in Seq(Entries(recv.meta)),
         NEW es, disk' = Gone \o es, OneInBackground(es),
         recv'.verify # NoVerification => recv'.finish \notin {"stop", "restart"}
  PROVE  QueueInv'
<1>1. /\ Gone \in Seq(Entries(recv.meta)) /\ DOMAIN Gone = 1..Len(Gone) /\ Len(Gone) \in Nat
      /\ \A i \in DOMAIN Gone : Gone[i].by = "gone"
  <2>1. \A i \in DOMAIN Gone : i \in DOMAIN disk /\ Gone[i] = [disk[i] EXCEPT !.by = "gone"]
    BY DEF Gone
  <2>2. \A i \in DOMAIN disk : [disk[i] EXCEPT !.by = "gone"].by = "gone"
    BY EntryFields
  <2>4. \A i \in DOMAIN Gone : Gone[i].by = "gone"
    BY <2>1, <2>2
  <2>3. QED
    BY <2>4, GoneType
<1>2. \A i \in DOMAIN disk' : \/ i \in DOMAIN Gone /\ disk'[i].by = "gone"
                              \/ i = Len(Gone) + 1 /\ es # << >> /\ disk'[i] = es[1]
  BY <1>1, Grown DEF OneInBackground
<1>3. es # << >> => es[1].by = "nobody" /\ es[1].kind \in Background
  BY DEF OneInBackground
<1>4. QED
  BY <1>1, <1>2, <1>3 DEF QueueInv

\* The kinds of messages in a channel, when some are added, taken or lost.
LEMMA TypesOf ==
  ASSUME NEW S, NEW s \in Seq(S)
  PROVE  /\ \A m : Types(Append(s, m)) = Types(s) \cup {m.type}
         /\ \A m : Types(s \o <<m>>) = Types(s) \cup {m.type}
         /\ \A l, m : Types(s \o <<l, m>>) = Types(s) \cup {l.type, m.type}
         /\ s # << >> => Types(Tail(s)) \subseteq Types(s) /\ Head(s).type \in Types(s)
         /\ \A n \in 0..Len(s) : Types(SubSeq(s, 1, n)) \subseteq Types(s)
<1>1. ASSUME NEW m
      PROVE  Types(s \o <<m>>) = Types(s) \cup {m.type}
  <2>1. /\ \A i \in DOMAIN (s \o <<m>>) : \/ i \in DOMAIN s /\ (s \o <<m>>)[i] = s[i]
                                          \/ (s \o <<m>>)[i] = m
        /\ \A i \in DOMAIN s : i \in DOMAIN (s \o <<m>>) /\ (s \o <<m>>)[i] = s[i]
        /\ Len(s) + 1 \in DOMAIN (s \o <<m>>) /\ (s \o <<m>>)[Len(s) + 1] = m
    OBVIOUS
  <2>2. QED
    BY <2>1, Zenon DEF Types
<1>2. ASSUME NEW m
      PROVE  Types(Append(s, m)) = Types(s) \cup {m.type}
  <2>1. Append(s, m) = s \o <<m>>
    OBVIOUS
  <2>2. QED
    BY <1>1, <2>1
<1>3. ASSUME NEW l, NEW m
      PROVE  Types(s \o <<l, m>>) = Types(s) \cup {l.type, m.type}
  <2>1. /\ \A i \in DOMAIN (s \o <<l, m>>) : \/ i \in DOMAIN s /\ (s \o <<l, m>>)[i] = s[i]
                                             \/ (s \o <<l, m>>)[i] = l
                                             \/ (s \o <<l, m>>)[i] = m
        /\ \A i \in DOMAIN s : i \in DOMAIN (s \o <<l, m>>) /\ (s \o <<l, m>>)[i] = s[i]
        /\ Len(s) + 1 \in DOMAIN (s \o <<l, m>>) /\ (s \o <<l, m>>)[Len(s) + 1] = l
        /\ Len(s) + 2 \in DOMAIN (s \o <<l, m>>) /\ (s \o <<l, m>>)[Len(s) + 2] = m
    OBVIOUS
  <2>2. QED
    BY <2>1, Zenon DEF Types
<1>4. ASSUME s # << >>
      PROVE  Types(Tail(s)) \subseteq Types(s) /\ Head(s).type \in Types(s)
  <2>1. /\ \A i \in DOMAIN Tail(s) : i + 1 \in DOMAIN s /\ Tail(s)[i] = s[i + 1]
        /\ 1 \in DOMAIN s /\ Head(s) = s[1]
    BY <1>4
  <2>2. QED
    BY <2>1, Zenon DEF Types
<1>5. ASSUME NEW n \in 0..Len(s)
      PROVE  Types(SubSeq(s, 1, n)) \subseteq Types(s)
  <2>1. \A i \in DOMAIN SubSeq(s, 1, n) : i \in DOMAIN s /\ SubSeq(s, 1, n)[i] = s[i]
    OBVIOUS
  <2>2. QED
    BY <2>1, Zenon DEF Types
<1>6. QED
  BY <1>1, <1>2, <1>3, <1>4, <1>5

LEMMA NoTypes == Types(<< >>) = {} /\ \A by : Kinds(<< >>, by) = {}
BY DEF Types, Kinds

\* What somebody waits for, when the queue grows, moves on or loses its channel.
LEMMA KindsGrow ==
  ASSUME NEW S, NEW d \in Seq(S), NEW by
  PROVE  /\ \A e : e.by = by => Kinds(d \o <<e>>, by) = Kinds(d, by) \cup {e.kind}
         /\ \A e : e.by # by => Kinds(d \o <<e>>, by) = Kinds(d, by)
         /\ Kinds(d \o << >>, by) = Kinds(d, by)
<1>1. ASSUME NEW e
      PROVE  /\ e.by = by => Kinds(d \o <<e>>, by) = Kinds(d, by) \cup {e.kind}
             /\ e.by # by => Kinds(d \o <<e>>, by) = Kinds(d, by)
  <2>1. /\ \A i \in DOMAIN (d \o <<e>>) : \/ i \in DOMAIN d /\ (d \o <<e>>)[i] = d[i]
                                          \/ (d \o <<e>>)[i] = e
        /\ \A i \in DOMAIN d : i \in DOMAIN (d \o <<e>>) /\ (d \o <<e>>)[i] = d[i]
        /\ Len(d) + 1 \in DOMAIN (d \o <<e>>) /\ (d \o <<e>>)[Len(d) + 1] = e
    OBVIOUS
  <2>2. CASE e.by = by
    BY <2>1, <2>2, Zenon DEF Kinds
  <2>3. CASE e.by # by
    BY <2>1, <2>3, Zenon DEF Kinds
  <2>4. QED
    BY <2>2, <2>3
<1>2. d \o << >> = d
  BY ConcatEmptySeq
<1>3. QED
  BY <1>1, <1>2

LEMMA KindsLeft ==
  ASSUME NEW S, NEW d \in Seq(S), d # << >>, NEW by
  PROVE  /\ Kinds(Tail(d), by) \subseteq Kinds(d, by)
         /\ Head(d).by = by => Head(d).kind \in Kinds(d, by)
<1>1. /\ \A i \in DOMAIN Tail(d) : i + 1 \in DOMAIN d /\ Tail(d)[i] = d[i + 1]
      /\ 1 \in DOMAIN d /\ Head(d) = d[1]
  BY TailElements
<1>2. Kinds(Tail(d), by) \subseteq Kinds(d, by)
  BY <1>1, Zenon DEF Kinds
<1>3. Head(d).by = by => Head(d).kind \in Kinds(d, by)
  BY <1>1, Zenon DEF Kinds
<1>4. QED
  BY <1>2, <1>3

\* Who waits, when the head of the queue is done.
LEMMA QueueHead ==
  ASSUME QueueInv, disk \in Seq(Entries(recv.meta)), disk # << >>
  PROVE  /\ Head(disk).by = "channel" => Kinds(Tail(disk), "channel") = {}
         /\ Head(disk).by # "gone" => Kinds(disk, "gone") = {}
         /\ Head(disk).by = "nobody" => Head(disk).kind \in Background
         /\ Head(disk).by \in Waiter
<1>1. /\ \A i \in DOMAIN Tail(disk) : i + 1 \in DOMAIN disk /\ i + 1 # 1 /\ Tail(disk)[i] = disk[i + 1]
      /\ 1 \in DOMAIN disk /\ Head(disk) = disk[1]
  BY TailElements
<1>2. Head(disk).by = "channel" => Kinds(Tail(disk), "channel") = {}
  <2>1. Head(disk).by = "channel" => \A i \in DOMAIN Tail(disk) : Tail(disk)[i].by # "channel"
    BY <1>1 DEF QueueInv
  <2>2. QED
    BY <2>1, Zenon DEF Kinds
<1>3. Head(disk).by # "gone" => Kinds(disk, "gone") = {}
  <2>1. Head(disk).by # "gone" => \A i \in DOMAIN disk : disk[i].by # "gone"
    <3>1. \A i \in DOMAIN disk : i = 1 \/ 1 < i
      OBVIOUS
    <3>2. QED
      BY <1>1, <3>1 DEF QueueInv
  <2>2. QED
    BY <2>1, Zenon DEF Kinds
<1>4. Head(disk).by = "nobody" => Head(disk).kind \in Background
  BY <1>1 DEF QueueInv
<1>5. Head(disk).by \in Waiter
  BY <1>1, EntryFields
<1>6. QED
  BY <1>2, <1>3, <1>4, <1>5

LEMMA QueueWaits ==
  ASSUME disk \in Seq(Entries(recv.meta))
  PROVE  /\ ~Busy => Kinds(disk, "channel") = {}
         /\ QueueInv /\ Kinds(disk, "channel") # {} => ~Handling(recv)
         /\ Kinds(Gone, "channel") = {}
<1>1. ~Busy => Kinds(disk, "channel") = {}
  BY Zenon DEF Busy, Kinds
<1>2. QueueInv /\ Kinds(disk, "channel") # {} => ~Handling(recv)
  BY Zenon DEF QueueInv, Kinds
<1>3. \A i \in DOMAIN Gone : Gone[i].by = "gone"
  <2>1. \A i \in DOMAIN Gone : i \in DOMAIN disk /\ Gone[i] = [disk[i] EXCEPT !.by = "gone"]
    BY DEF Gone
  <2>2. \A i \in DOMAIN disk : [disk[i] EXCEPT !.by = "gone"].by = "gone"
    BY EntryFields
  <2>3. QED
    BY <2>1, <2>2
<1>4. Kinds(Gone, "channel") = {}
  BY <1>3, Zenon DEF Kinds
<1>5. QED
  BY <1>1, <1>2, <1>4

LEMMA KindsInBackground ==
  ASSUME NEW S, NEW d \in Seq(S), NEW es, OneInBackground(es)
  PROVE  /\ Kinds(d \o es, "channel") = Kinds(d, "channel")
         /\ Kinds(d \o es, "gone") = Kinds(d, "gone")
<1>1. CASE es = << >>
  BY <1>1, KindsGrow
<1>2. ASSUME NEW e, es = <<e>>, e.by = "nobody"
      PROVE  /\ Kinds(d \o es, "channel") = Kinds(d, "channel")
             /\ Kinds(d \o es, "gone") = Kinds(d, "gone")
  <2>1. Kinds(d \o <<e>>, "channel") = Kinds(d, "channel")
    BY <1>2, KindsGrow
  <2>2. Kinds(d \o <<e>>, "gone") = Kinds(d, "gone")
    BY <1>2, KindsGrow
  <2>3. QED
    BY <1>2, <2>1, <2>2
<1>3. QED
  BY <1>1, <1>2 DEF OneInBackground

-----------------------------------------------------------------------------
(* Who waits is not changed by what only changes the rest of the receiver. *)

SameWaits(r, s) == s.verify = r.verify /\ s.finish = r.finish /\ s.link = r.link

LEMMA WaitsKept ==
  ASSUME NEW r, Ready(r)
  PROVE  /\ SameWaits(r, Requesting(r)) /\ SameWaits(r, Unpaused(r))
         /\ SameWaits(r, Confirmed(r)) /\ SameWaits(r, Cleaning(r))
         /\ SameWaits(r, Downloading(r))
         /\ \A v : SameWaits(r, Adopted(r, v))
<1>1. SameWaits(r, Requesting(r)) /\ SameWaits(r, Unpaused(r)) /\ SameWaits(r, Downloading(r))
  BY DEF Ready, RecvType, SameWaits, Requesting, Unpaused, Downloading
<1>2. SameWaits(r, Confirmed(r)) /\ SameWaits(r, Cleaning(r))
  BY DEF Ready, RecvType, SameWaits, Confirmed, Cleaning
<1>3. \A v : SameWaits(r, Adopted(r, v))
  BY DEF Ready, RecvType, SameWaits, Adopted
<1>4. QED
  BY <1>1, <1>2, <1>3

\* A stop that has been dealt with waits no more, and a new channel waits for nothing.
LEMMA AfterStopWaits ==
  ASSUME NEW r, Ready(r)
  PROVE  /\ AfterStop(r).verify = r.verify /\ AfterStop(r).link = r.link
         /\ AfterStop(r).finish = "none"
<1> DEFINE u == Unpaused(r)
           ended == [u EXCEPT !.cleanup = "none", !.finish = "none", !.shown = FALSE,
                              !.flow = 0, !.acked = 0]
<1>1. u \in RecvType /\ u.verify = r.verify /\ u.link = r.link
  BY ReadyKept, WaitsKept DEF Ready, SameWaits
<1>2. r \in RecvType
  BY DEF Ready
<1>3. /\ [r EXCEPT !.cleanup = "none", !.finish = "none"].verify = r.verify
      /\ [r EXCEPT !.cleanup = "none", !.finish = "none"].link = r.link
      /\ [r EXCEPT !.cleanup = "none", !.finish = "none"].finish = "none"
  BY <1>2 DEF RecvType
<1> HIDE DEF u
<1>4. ended \in RecvType /\ ended.verify = r.verify /\ ended.link = r.link /\ ended.finish = "none"
  BY <1>1 DEF RecvType
<1>5. AfterStop(r) = IF r.finish = "gone" THEN [r EXCEPT !.cleanup = "none", !.finish = "none"]
                     ELSE IF r.finish \notin {"restart", "adopt"} \/ r.pending = None THEN ended
                     ELSE IF r.finish = "adopt" THEN Adopted(ended, r.pending)
                     ELSE Downloading(Adopted(ended, r.pending))
  BY DEF AfterStop, u
<1> HIDE DEF ended
<1>6. \A v : LET a == Adopted(ended, v)
             IN /\ a.verify = r.verify /\ a.link = r.link /\ a.finish = "none"
                /\ Downloading(a).verify = r.verify /\ Downloading(a).link = r.link
                /\ Downloading(a).finish = "none"
  BY <1>4 DEF RecvType, Adopted, Downloading
<1>7. QED
  BY <1>3, <1>4, <1>5, <1>6

LEMMA DetachedWaits ==
  ASSUME NEW r, Ready(r)
  PROVE  /\ Detached(r).verify = NoVerification /\ Detached(r).link = r.link
         /\ Detached(r).finish \notin {"stop", "restart"}
BY DEF Ready, RecvType, Detached

\* The entries that a user or a connection leaves behind.
LEMMA InBackground ==
  ASSUME NEW r
  PROVE  /\ OneInBackground(Preparing(r, "nobody")) /\ OneInBackground(Asking(r))
         /\ OneInBackground(CleanupEntry(r))
         /\ OneInBackground(Checkpointing(r)) /\ OneInBackground(<< >>)
         /\ \A chunk : OneInBackground(<<Entry("adopt", chunk, "nobody")>>)
         /\ OneInBackground(<<Entry("checkpoint", NoChunk, "nobody")>>)
<1>1. ASSUME NEW kind \in Background, NEW chunk
      PROVE  OneInBackground(<<Entry(kind, chunk, "nobody")>>)
  <2>1. Entry(kind, chunk, "nobody").by = "nobody" /\ Entry(kind, chunk, "nobody").kind = kind
    BY DEF Entry
  <2>2. QED
    BY <2>1, Zenon DEF OneInBackground
<1>2. OneInBackground(<< >>)
  BY DEF OneInBackground
<1>3. QED
  BY <1>1, <1>2 DEF Preparing, Asking, CleanupEntry, Checkpointing, Background

-----------------------------------------------------------------------------
(* What a step may do to the session, whoever takes it.                    *)

\* Of what the receiver says, this starts nothing.
Words == {"progress", "verified", "received", "pause", "stop"}
ToldWords ==
  /\ Types(toSender') \subseteq Types(toSender) \cup Words
  /\ recv.link = "closed" => toSender' = toSender

NothingNew ==
  /\ Transferring' => Transferring
  /\ RepairUnderWay' => RepairUnderWay

LEMMA Telling ==
  ASSUME toSender \in Seq(ToSender)
  PROVE  /\ Silent => ToldWords
         /\ \A m : m.type \in Words /\ Tell(<<m>>) => ToldWords
         /\ \A l, m : l.type \in Words /\ m.type \in Words /\ Tell(<<l, m>>) => ToldWords
<1>1. Silent => ToldWords
  BY DEF Silent, ToldWords
<1>2. ASSUME NEW m, m.type \in Words, Tell(<<m>>)
      PROVE  ToldWords
  <2>1. Types(toSender \o <<m>>) = Types(toSender) \cup {m.type}
    BY TypesOf
  <2>2. QED
    BY <1>2, <2>1 DEF Tell, ToldWords
<1>3. ASSUME NEW l, NEW m, l.type \in Words, m.type \in Words, Tell(<<l, m>>)
      PROVE  ToldWords
  <2>1. Types(toSender \o <<l, m>>) = Types(toSender) \cup {l.type, m.type}
    BY TypesOf
  <2>2. QED
    BY <1>3, <2>1 DEF Tell, ToldWords
<1>4. QED
  BY <1>1, <1>2, <1>3

\* A step that asks the storage for nothing that anybody waits for.
LEMMA SessionGrows ==
  ASSUME SessionInv, disk \in Seq(Entries(recv.meta)), peer' = peer, ToldWords,
         Types(toReceiver') \subseteq Types(toReceiver),
         NEW es, OneInBackground(es), disk' = disk \o es,
         recv'.verify = recv.verify, recv'.link = "closed" => recv.link = "closed",
         Handling(recv') => Handling(recv) \/ ~Busy,
         recv'.verify # NoVerification => recv'.finish \notin {"stop", "restart"}
  PROVE  SessionInv' /\ NothingNew /\ Kinds(disk', "channel") = Kinds(disk, "channel")
<1>1. QueueInv'
  BY QueueGrows DEF SessionInv
<1>2. Kinds(disk', "channel") = Kinds(disk, "channel") /\ Kinds(disk', "gone") = Kinds(disk, "gone")
  BY KindsInBackground
<1>3. NothingNew
  BY <1>2 DEF NothingNew, Transferring, RepairUnderWay, ToldWords, Words
<1>4. QuietWhenClosed'
  BY DEF SessionInv, QuietWhenClosed, ToldWords
<1>5. FreshInv'
  BY <1>2, <1>3 DEF NothingNew, FreshInv, SessionInv
<1>6. QED
  BY <1>1, <1>2, <1>3, <1>4, <1>5 DEF SessionInv

\* A step of the handler that then waits for the storage.
LEMMA SessionTakes ==
  ASSUME SessionInv, disk \in Seq(Entries(recv.meta)), peer' = peer, ToldWords,
         Types(toReceiver') \subseteq Types(toReceiver),
         Kinds(disk, "channel") = {}, NEW e, e.by = "channel", disk' = disk \o <<e>>,
         e.kind \in {"append", "file", "fail", "replace"} => Transferring,
         e.kind = "replace" => RepairUnderWay,
         recv'.link = recv.link, ~Handling(recv')
  PROVE  SessionInv' /\ NothingNew /\ Kinds(disk', "channel") = {e.kind}
<1>1. QueueInv'
  <2>1. \A i \in DOMAIN disk : disk[i].by # "channel"
    BY Zenon DEF Kinds
  <2>2. QED
    BY <2>1, QueueTakes DEF SessionInv
<1>2. Kinds(disk', "channel") = {e.kind}
  BY KindsGrow
<1>3. Kinds(disk', "gone") = Kinds(disk, "gone")
  BY KindsGrow
<1>4. recv'.verify = NoVerification
  BY DEF Handling
<1>5. NothingNew
  BY <1>2, <1>4 DEF NothingNew, Transferring, RepairUnderWay, ToldWords, Words
<1>6. QuietWhenClosed'
  BY DEF SessionInv, QuietWhenClosed, ToldWords
<1>7. FreshInv'
  BY <1>3, <1>5 DEF NothingNew, FreshInv, SessionInv
<1>8. QED
  BY <1>1, <1>2, <1>5, <1>6, <1>7 DEF SessionInv

\* A step of the storage: what a broken channel left behind starts no transfer.
LEMMA SessionMoves ==
  ASSUME SessionInv, disk \in Seq(Entries(recv.meta)), disk # << >>,
         peer' = peer, toReceiver' = toReceiver,
         Types(toSender') \subseteq Types(toSender) \cup Words \cup {"download"},
         "download" \in Types(toSender') => "download" \in Types(toSender) \/ Head(disk).by # "gone",
         recv.link = "closed" => toSender' = toSender,
         NEW es, disk' = Tail(disk) \o es,
         \/ OneInBackground(es)
         \/ /\ es = <<Entry("fail", NoChunk, "channel")>> /\ ~Handling(recv')
            /\ Head(disk).by = "channel" /\ Head(disk).kind = "file",
         \/ recv'.verify = recv.verify
         \/ Head(disk).by = "channel" /\ Head(disk).kind = "replace",
         Handling(recv') => Handling(recv) \/ Head(disk).by = "channel",
         recv'.link = recv.link,
         recv'.verify # NoVerification => recv'.finish \notin {"stop", "restart"}
  PROVE  /\ SessionInv' /\ (RepairUnderWay' => RepairUnderWay)
         /\ OneInBackground(es) => Kinds(disk', "channel") = Kinds(Tail(disk), "channel")
         /\ ~OneInBackground(es) => Kinds(disk', "channel") = {"fail"}
<1> DEFINE t == Tail(disk)
<1>1. t \in Seq(Entries(recv.meta)) /\ disk' = t \o es
  BY HeadType
<1>2. /\ Kinds(t, "channel") \subseteq Kinds(disk, "channel")
      /\ Kinds(t, "gone") \subseteq Kinds(disk, "gone")
      /\ Head(disk).by = "channel" => Head(disk).kind \in Kinds(disk, "channel")
  BY KindsLeft
<1>3. /\ Head(disk).by = "channel" => Kinds(t, "channel") = {}
      /\ Head(disk).by # "gone" => Kinds(disk, "gone") = {}
  BY QueueHead DEF SessionInv
<1>4. QueueInv'
  <2>1. Entry("fail", NoChunk, "channel").by = "channel"
    BY DEF Entry
  <2>2. \/ OneInBackground(es)
        \/ \E e : es = <<e>> /\ e.by = "channel" /\ Head(disk).by = "channel" /\ ~Handling(recv')
    BY <2>1
  <2>3. QED
    BY <2>2, QueueMoves DEF SessionInv
<1> HIDE DEF t
<1>5. CASE OneInBackground(es)
  <2>1. Kinds(disk', "channel") = Kinds(t, "channel") /\ Kinds(disk', "gone") = Kinds(t, "gone")
    BY <1>1, <1>5, KindsInBackground
  <2>2. RepairUnderWay' => RepairUnderWay
    BY <1>2, <2>1 DEF RepairUnderWay, Words
  <2>3. Transferring' => Transferring \/ Kinds(disk, "gone") = {}
    BY <1>2, <1>3, <2>1 DEF Transferring, Words
  <2>4. FreshInv'
    BY <1>2, <2>1, <2>3 DEF FreshInv, SessionInv
  <2>5. QuietWhenClosed'
    BY DEF SessionInv, QuietWhenClosed
  <2>6. QED
    BY <1>4, <1>5, <2>1, <2>2, <2>4, <2>5 DEF SessionInv, t
<1>6. CASE /\ ~OneInBackground(es) /\ es = <<Entry("fail", NoChunk, "channel")>> /\ ~Handling(recv')
           /\ Head(disk).by = "channel" /\ Head(disk).kind = "file"
  <2> DEFINE e == Entry("fail", NoChunk, "channel")
  <2>1. e.by = "channel" /\ e.kind = "fail" /\ disk' = t \o <<e>>
    BY <1>1, <1>6 DEF Entry
  <2> HIDE DEF e
  <2>8. t \in Seq(Entries(recv.meta))
    BY <1>1
  <2>9. Kinds(t \o <<e>>, "channel") = Kinds(t, "channel") \cup {e.kind}
        /\ Kinds(t \o <<e>>, "gone") = Kinds(t, "gone")
    <3>1. e.by = "channel" /\ e.by # "gone"
      BY <2>1
    <3>2. QED
      BY ONLY <2>8, <3>1, KindsGrow
  <2>2. Kinds(disk', "channel") = {"fail"}
    BY <1>3, <1>6, <2>1, <2>9
  <2>3. Kinds(disk', "gone") = Kinds(t, "gone")
    BY <2>1, <2>9
  <2>4. RepairUnderWay' => RepairUnderWay
    BY <2>2 DEF RepairUnderWay, Words
  <2>5. FreshInv'
    BY <1>2, <1>3, <1>6, <2>3 DEF FreshInv
  <2>6. QuietWhenClosed'
    BY DEF SessionInv, QuietWhenClosed
  <2>7. QED
    BY <1>4, <1>6, <2>2, <2>4, <2>5, <2>6 DEF SessionInv
<1>7. QED
  BY <1>5, <1>6

\* A step of the sender, which goes on with what it was asked for.
LEMMA SessionSent ==
  ASSUME SessionInv, recv' = recv, disk' = disk,
         recv.link # "closed" \/ (peer' = peer /\ toSender' = toSender),
         Types(toSender') \subseteq Types(toSender),
         peer'.op.kind # "none" => Transferring,
         peer'.op.kind = "repair" => RepairUnderWay,
         Types(toReceiver') \cap Content # {} => Transferring,
         "repair-end" \in Types(toReceiver') => RepairUnderWay
  PROVE  SessionInv' /\ NothingNew
<1>1. QueueInv'
  BY DEF SessionInv, QueueInv
<1>2. NothingNew
  BY DEF NothingNew, Transferring, RepairUnderWay
<1>3. QuietWhenClosed'
  BY DEF SessionInv, QuietWhenClosed
<1>4. FreshInv'
  BY <1>2 DEF NothingNew, FreshInv, SessionInv
<1>5. QED
  BY <1>1, <1>2, <1>3, <1>4 DEF SessionInv

\* What neither stores, verifies nor repairs leaves the verification as it was.
LEMMA VerifiedKept ==
  ASSUME VerifiedInv, UNCHANGED <<stored, files>>,
         check'.manifest = check.manifest, check'.repaired = check.repaired,
         recv'.verify = recv.verify, RepairUnderWay' => RepairUnderWay,
         "fail" \in Kinds(disk, "channel") => "fail" \in Kinds(disk', "channel"),
         "file" \in Kinds(disk', "channel") /\ 1 \in Verified => "file" \in Kinds(disk, "channel")
  PROVE  VerifiedInv'
<1>2. ManifestHasData' /\ VerifySound'
  BY DEF ManifestHasData, VerifySound, SoundBut, Good, VerifiedInv
<1>3. RepairSound' /\ FileSound'
  BY DEF RepairSound, FileSound, SoundBut, Good, VerifiedInv
<1>4. FilesSound'
  BY DEF FilesSound, VerifiedInv
<1>5. QED
  BY <1>2, <1>3, <1>4 DEF VerifiedInv

-----------------------------------------------------------------------------
(* The session through the sender's steps.                                 *)

\* A message that is added to the channel or not.
LEMMA Answered ==
  ASSUME toReceiver \in Seq(ToReceiver), NEW type,
         \/ toReceiver' = toReceiver
         \/ \E v, at : toReceiver' = Append(toReceiver, Msg(type, v, at))
  PROVE  Types(toReceiver') \subseteq Types(toReceiver) \cup {type}
<1>1. \A v, at : Types(Append(toReceiver, Msg(type, v, at))) = Types(toReceiver) \cup {type}
  <2>1. \A v, at : Msg(type, v, at).type = type
    BY DEF Msg
  <2>2. QED
    BY <2>1, TypesOf
<1>2. QED
  BY <1>1

\* The metadata and the offers of an update belong to no transfer.
LEMMA MetaSession ==
  ASSUME TransferInv, SessionInv, NEW p, p \in PeerType, p.op = peer.op,
         SendMeta(p) /\ recv.link # "closed" /\ toSender' = toSender /\ ReceiverUnchanged
  PROVE  SessionInv' /\ NothingNew
<1>1. peer'.op = peer.op
  BY DEF SendMeta, PeerType
<1>2. Types(toReceiver') \subseteq Types(toReceiver) \cup {"meta"}
  BY Answered DEF SendMeta, TransferInv, ChannelInv
<1>3. recv' = recv /\ disk' = disk
  BY DEF ReceiverUnchanged
<1>4. QED
  BY <1>1, <1>2, <1>3, SessionSent DEF Content, Transferring, RepairUnderWay

LEMMA SharingSession ==
  ASSUME TransferInv, SessionInv, UpdateFile \/ \E v \in Versions : Release(v)
  PROVE  SessionInv' /\ NothingNew
<1>1. recv' = recv /\ disk' = disk /\ peer' = peer /\ toSender' = toSender
  BY DEF UpdateFile, Release, ReceiverUnchanged, channel
<1>2. Types(toReceiver') \subseteq Types(toReceiver) \cup {"file-update"}
  BY Answered DEF UpdateFile, Release, channel, TransferInv, ChannelInv
<1>3. QED
  BY <1>1, <1>2, SessionSent DEF Content, Transferring, RepairUnderWay

\* Chunks and blocks are sent by a transfer that is under way.
LEMMA SendingSession ==
  ASSUME TransferInv, SessionInv, SendChunk \/ FinishSend \/ \E i \in peer.op.todo : RepairBlock(i)
  PROVE  SessionInv' /\ NothingNew
<1>1. recv' = recv /\ disk' = disk /\ toSender' = toSender
  BY DEF SendChunk, FinishSend, RepairBlock, ReceiverUnchanged
<1>2. peer.op.kind # "none" /\ recv.link # "closed"
  BY DEF SendChunk, FinishSend, RepairBlock, SessionInv, QuietWhenClosed
<1>3. peer'.op.kind \in {"none", peer.op.kind}
  <2>1. peer \in PeerType
    BY DEF TransferInv, SenderInv, Working
  <2>2. \A m, n \in Nat : /\ [peer EXCEPT !.op.at = m, !.sent = n].op.kind = peer.op.kind
                          /\ [peer EXCEPT !.op.at = m].op.kind = peer.op.kind
    BY <2>1 DEF PeerType
  <2>3. \A todo : [peer EXCEPT !.op.at = 0, !.op.todo = todo].op.kind = peer.op.kind
    BY <2>1 DEF PeerType
  <2>4. \A xfer : [peer EXCEPT !.op = NoOp, !.xfer = xfer].op.kind = "none"
    BY <2>1 DEF PeerType, NoOp
  <2>5. peer.op.at + 1 \in Nat /\ peer.sent + 1 \in Nat
    BY <2>1 DEF PeerType
  <2>6. CASE SendChunk
    BY <2>2, <2>5, <2>6 DEF SendChunk
  <2>7. CASE FinishSend
    BY <2>4, <2>7 DEF FinishSend
  <2>8. CASE \E i \in peer.op.todo : RepairBlock(i)
    <3>1. PICK i \in peer.op.todo : RepairBlock(i)
      BY <2>8
    <3>2. \/ peer' = [peer EXCEPT !.op.at = 1]
          \/ peer' = [peer EXCEPT !.op.at = 2, !.sent = peer.sent + 1]
          \/ peer' = [peer EXCEPT !.op = NoOp, !.xfer = "verifying"]
          \/ peer' = [peer EXCEPT !.op.at = 0, !.op.todo = peer.op.todo \ {i}]
      BY <3>1 DEF RepairBlock
    <3> DEFINE q == [peer EXCEPT !.op.at = 1]
               r == [peer EXCEPT !.op.at = 2, !.sent = peer.sent + 1]
               s == [peer EXCEPT !.op = NoOp, !.xfer = "verifying"]
               u == [peer EXCEPT !.op.at = 0, !.op.todo = peer.op.todo \ {i}]
    <3>3. q.op.kind = peer.op.kind
      BY <2>2
    <3>4. r.op.kind = peer.op.kind
      BY <2>2, <2>5
    <3>5. s.op.kind = "none"
      BY <2>4
    <3>6. u.op.kind = peer.op.kind
      BY <2>3
    <3>7. peer' \in {q, r, s, u}
      BY <3>2
    <3> HIDE DEF q, r, s, u
    <3>8. QED
      BY <3>3, <3>4, <3>5, <3>6, <3>7
  <2>9. QED
    BY <2>6, <2>7, <2>8
<1>4. toReceiver \in Seq(ToReceiver)
  BY DEF TransferInv, ChannelInv
<1>5. CASE SendChunk \/ FinishSend
  <2>1. Types(toReceiver') \subseteq Types(toReceiver) \cup {"chunk", "done"}
    BY <1>4, <1>5, Answered DEF SendChunk, FinishSend
  <2>2. QED
    BY <1>1, <1>2, <1>3, <2>1, SessionSent DEF Content, Transferring, RepairUnderWay
<1>6. CASE \E i \in peer.op.todo : RepairBlock(i)
  <2>1. Types(toReceiver') \subseteq Types(toReceiver) \cup {"chunk", "repair-start", "repair-end"}
    BY <1>4, <1>6, Answered DEF RepairBlock
  <2>2. peer.op.kind = "repair"
    BY <1>6 DEF RepairBlock
  <2>3. QED
    BY <1>1, <1>2, <1>3, <2>1, <2>2, SessionSent DEF Content, Transferring, RepairUnderWay
<1>7. QED
  BY <1>5, <1>6

\* What the sender was sending ends with an error.
LEMMA ReadFailsSession ==
  ASSUME TransferInv, SessionInv, ReadFails
  PROVE  SessionInv' /\ NothingNew
<1>1. recv' = recv /\ disk' = disk /\ toSender' = toSender
  BY DEF ReadFails, ReceiverUnchanged
<1>2. recv.link # "closed"
  BY DEF ReadFails, SessionInv, QuietWhenClosed
<1>3. peer'.op.kind = "none"
  <2>1. \A xfer : [Invalidated(peer) EXCEPT !.xfer = xfer].op.kind = "none"
    BY DEF TransferInv, SenderInv, Working, PeerType, Invalidated, NoOp
  <2>2. QED
    BY <2>1 DEF ReadFails
<1>4. Types(toReceiver') \subseteq Types(toReceiver) \cup {"error"}
  BY Answered DEF ReadFails, TransferInv, ChannelInv
<1>5. QED
  BY <1>1, <1>2, <1>3, <1>4, SessionSent DEF Content, Transferring, RepairUnderWay

\* What the sender does next, by what it is told.
LEMMA HearingOp ==
  ASSUME TransferInv, SenderReceives
  PROVE  \/ peer'.op = peer.op \/ peer'.op.kind = "none"
         \/ Head(toSender).type = "download" /\ peer'.op.kind = "send"
         \/ /\ Head(toSender).type = "repair-request"
            /\ peer'.op.kind = "repair" /\ peer'.op.at = 0
<1>1. toSender \in Seq(ToSender) /\ peer \in PeerType
  BY DEF TransferInv, ChannelInv, SenderInv, Working
<1>2. CASE OnDownload
  <2>1. \/ peer' = peer
        \/ peer' = [Switched(peer, Received.version) EXCEPT
                      !.xfer = "uploading", !.sent = 0, !.acked = 0,
                      !.op = [NoOp EXCEPT !.kind = "send", !.at = Received.at]]
    BY <1>2 DEF OnDownload
  <2>2. Switched(peer, Received.version) \in PeerType
    <3>1. Received.version \in Versions
      BY <1>1, <1>2, HeardType DEF OnDownload
    <3>2. QED
      BY <3>1, SwitchedType DEF TransferInv, SenderInv, Working
  <2>3. \A p \in PeerType : \A at :
          [p EXCEPT !.xfer = "uploading", !.sent = 0, !.acked = 0,
                    !.op = [NoOp EXCEPT !.kind = "send", !.at = at]].op.kind = "send"
    BY DEF PeerType, NoOp
  <2>4. Head(toSender).type = "download"
    BY <1>2 DEF OnDownload, SenderGets
  <2> DEFINE q == [Switched(peer, Received.version) EXCEPT
                     !.xfer = "uploading", !.sent = 0, !.acked = 0,
                     !.op = [NoOp EXCEPT !.kind = "send", !.at = Received.at]]
  <2>5. q.op.kind = "send"
    BY <2>2, <2>3
  <2>6. peer' = peer \/ peer' = q
    BY <2>1
  <2> HIDE DEF q
  <2>7. QED
    BY <2>4, <2>5, <2>6
<1>3. CASE OnProgress
  <2>1. \A p \in PeerType : \A v : Switched(p, v).op = p.op
    BY DEF Switched, PeerType
  <2>2. Received.at \in Nat \cup {NoCredit}
    BY <1>1, <1>3, HeardType DEF OnProgress
  <2>3. Received.at \in Nat => [peer EXCEPT !.acked = Received.at] \in PeerType
                              /\ [peer EXCEPT !.acked = Received.at].op = peer.op
    BY <1>1 DEF PeerType
  <2>4. \/ peer' = peer
        \/ Received.at \in Nat /\ peer' = [peer EXCEPT !.acked = Received.at]
        \/ peer' = Switched(peer, Received.version)
        \/ Received.at \in Nat /\ peer' = Switched([peer EXCEPT !.acked = Received.at], Received.version)
    BY <1>3, <2>2 DEF OnProgress
  <2>5. QED
    BY <1>1, <2>1, <2>3, <2>4
<1>4. CASE OnRepairRequest
  <2>1. \A n, op : [peer EXCEPT !.xfer = "repairing", !.repairs = n, !.op = op].op = op
    BY <1>1 DEF PeerType
  <2>2. Head(toSender).type = "repair-request"
    BY <1>4 DEF OnRepairRequest, SenderGets
  <2>3. \/ peer' = peer
        \/ peer' = [peer EXCEPT !.xfer = "repairing", !.repairs = peer.repairs + 1,
                       !.op = [kind |-> "repair", at |-> 0, todo |-> Received.at]]
    BY <1>4 DEF OnRepairRequest
  <2>4. peer' = peer \/ (peer'.op.kind = "repair" /\ peer'.op.at = 0)
    <3> DEFINE q == [peer EXCEPT !.xfer = "repairing", !.repairs = peer.repairs + 1,
                       !.op = [kind |-> "repair", at |-> 0, todo |-> Received.at]]
    <3>1. q.op.kind = "repair" /\ q.op.at = 0
      BY <2>1
    <3>2. peer' = peer \/ peer' = q
      BY <2>3
    <3> HIDE DEF q
    <3>3. QED
      BY <3>1, <3>2
  <2>5. QED
    BY <2>2, <2>4
<1>5. CASE OnVerified \/ OnReceived \/ OnPause \/ OnStop
  <2>1. /\ \A xfer : [Invalidated(peer) EXCEPT !.xfer = xfer].op.kind = "none"
        /\ [Invalidated(peer) EXCEPT !.xfer = "idle", !.active = None].op.kind = "none"
    BY <1>1 DEF Invalidated, NoOp, PeerType
  <2>2. \/ peer' = peer
        \/ \E xfer : peer' = [Invalidated(peer) EXCEPT !.xfer = xfer]
        \/ peer' = [Invalidated(peer) EXCEPT !.xfer = "idle", !.active = None]
    BY <1>5, Zenon DEF OnVerified, OnReceived, OnPause, OnStop
  <2>3. QED
    BY <2>1, <2>2
<1>6. QED
  BY <1>2, <1>3, <1>4, <1>5 DEF SenderReceives

\* The sender goes on with what it did, or with what it is asked for.
LEMMA HearingSession ==
  ASSUME TransferInv, SessionInv, SenderReceives
  PROVE  SessionInv' /\ NothingNew
<1>1. recv' = recv /\ disk' = disk /\ toSender' = Tail(toSender)
  BY DEF SenderReceives, OnDownload, OnProgress, OnRepairRequest, OnVerified, OnReceived, OnPause,
         OnStop, SenderDone, ReceiverUnchanged
<1>2. recv.link # "closed" /\ toSender # << >>
  BY DEF SenderReceives, OnDownload, OnProgress, OnRepairRequest, OnVerified, OnReceived, OnPause,
         OnStop, SenderGets, SessionInv, QuietWhenClosed
<1>3. toReceiver \in Seq(ToReceiver) /\ toSender \in Seq(ToSender) /\ peer \in PeerType
  BY DEF TransferInv, ChannelInv, SenderInv, Working
<1>4. Types(toSender') \subseteq Types(toSender) /\ Head(toSender).type \in Types(toSender)
  BY <1>1, <1>2, <1>3, TypesOf
<1>5. Types(toReceiver') \subseteq Types(toReceiver) \cup {"error", "paused", "stopped"}
  <2>1. CASE OnDownload
    BY <1>3, <2>1, Answered DEF OnDownload, Reply
  <2>2. CASE OnProgress \/ OnVerified \/ OnReceived
    BY <2>2 DEF OnProgress, OnVerified, OnReceived
  <2>3. CASE OnRepairRequest
    BY <1>3, <2>3, Answered DEF OnRepairRequest, Reply
  <2>4. CASE OnPause \/ OnStop
    BY <1>3, <2>4, Answered DEF OnPause, OnStop, Reply
  <2>5. QED
    BY <2>1, <2>2, <2>3, <2>4 DEF SenderReceives
<1>6. \/ peer'.op.kind \in {"none", peer.op.kind}
      \/ Head(toSender).type = "download" /\ peer'.op.kind = "send"
      \/ Head(toSender).type = "repair-request" /\ peer'.op.kind = "repair"
  BY HearingOp
<1>7. peer'.op.kind # "none" => Transferring
  BY <1>4, <1>6 DEF Transferring
<1>8. peer'.op.kind = "repair" => RepairUnderWay
  BY <1>4, <1>6 DEF RepairUnderWay
<1>9. QED
  BY <1>1, <1>2, <1>4, <1>5, <1>7, <1>8, SessionSent DEF Content, Transferring, RepairUnderWay

LEMMA SenderSession ==
  ASSUME TransferInv, SessionInv,
         SenderSteps \/ ReadFails \/ UpdateFile \/ \E v \in Versions : Release(v)
  PROVE  SessionInv' /\ NothingNew /\ (VerifiedInv => VerifiedInv')
<1>1. SessionInv' /\ NothingNew
  <2>1. CASE Authorize
    <3>1. [peer EXCEPT !.authorized = TRUE] \in PeerType
          /\ [peer EXCEPT !.authorized = TRUE].op = peer.op
      BY DEF TransferInv, SenderInv, Working, PeerType
    <3>2. QED
      BY <2>1, <3>1, MetaSession DEF Authorize
  <2>2. CASE SenderOpen
    <3>1. [peer EXCEPT !.open = TRUE] \in PeerType /\ [peer EXCEPT !.open = TRUE].op = peer.op
      BY DEF TransferInv, SenderInv, Working, PeerType
    <3>2. QED
      BY <2>2, <3>1, MetaSession DEF SenderOpen
  <2>3. QED
    BY <2>1, <2>2, SharingSession, SendingSession, ReadFailsSession, HearingSession DEF SenderSteps
<1>2. UNCHANGED <<recv, check, disk, stored, files>>
  BY DEF SenderSteps, SenderReceives, Authorize, SenderOpen, SendChunk, FinishSend, OnDownload,
         OnProgress, OnRepairRequest, OnVerified, OnReceived, OnPause, OnStop, SenderDone,
         RepairBlock, ReadFails, UpdateFile, Release, ReceiverUnchanged, store
<1>3. QED
  BY <1>1, <1>2, VerifiedKept DEF NothingNew

-----------------------------------------------------------------------------
(* The session through the connection and the page.                        *)

\* Where a channel ends, nothing of it is under way any more.
LEMMA SessionCut ==
  ASSUME QueueInv', recv'.verify = NoVerification, Kinds(disk', "channel") = {},
         toReceiver' = << >>, toSender' = << >>, ~peer'.open, peer'.op.kind = "none", files' = files,
         check' = NoCheck \/ (check' = check /\ stored' = stored)
  PROVE  SessionInv' /\ (VerifiedInv => VerifiedInv')
<1>1. Types(toReceiver') = {} /\ Types(toSender') = {}
  BY NoTypes
<1>2. ~Transferring' /\ ~RepairUnderWay'
  BY <1>1 DEF Transferring, RepairUnderWay
<1>3. SessionInv'
  BY <1>2 DEF SessionInv, QuietWhenClosed, FreshInv
<1>4. VerifiedInv => VerifiedInv'
  BY <1>2 DEF VerifiedInv, ManifestHasData, VerifySound, RepairSound, FileSound, FilesSound, NoCheck
<1>5. QED
  BY <1>3, <1>4

\* A new channel, or none: what is left in the queue has nobody that waits.
LEMMA QueueCut ==
  ASSUME disk \in Seq(Entries(recv.meta)), NEW es, OneInBackground(es), disk' = Gone \o es,
         recv'.verify = NoVerification
  PROVE  QueueInv' /\ Kinds(disk', "channel") = {}
<1>1. QueueInv'
  BY QueueOfNewChannel
<1>2. Gone \in Seq(Entries(recv.meta)) /\ Kinds(Gone, "channel") = {}
  BY GoneType, QueueWaits
<1>3. QED
  BY <1>1, <1>2, KindsInBackground

LEMMA ConnectSession ==
  ASSUME TransferInv, SessionInv, Connect
  PROVE  SessionInv' /\ (VerifiedInv => VerifiedInv')
<1>1. Ready(Confirmed(recv))
  BY ReadyKept DEF TransferInv, ReceiverInv
<1>2. Ready(Detached(Confirmed(recv))) /\ Detached(Confirmed(recv)).verify = NoVerification
  BY <1>1, ReadyKept, DetachedWaits
<1>3. recv'.verify = NoVerification
  BY <1>2 DEF Connect, Ready, RecvType
<1>4. ~peer'.open /\ peer'.op.kind = "none"
  <2>1. \A xfer, active, repairs :
          LET p == [NewPeer EXCEPT !.xfer = xfer, !.active = active, !.repairs = repairs]
          IN ~p.open /\ p.op.kind = "none"
    BY DEF NewPeer, NoOp
  <2> DEFINE q == [NewPeer EXCEPT !.xfer = IF peer.xfer = "paused" THEN "paused" ELSE "idle",
                                  !.active = peer.active, !.repairs = peer.repairs]
  <2>2. ~q.open /\ q.op.kind = "none"
    BY <2>1
  <2>3. peer' = q
    BY DEF Connect
  <2> HIDE DEF q
  <2>4. QED
    BY <2>2, <2>3
<1>5. QueueInv' /\ Kinds(disk', "channel") = {}
  <2>1. disk' = Gone \o Checkpointing(recv) /\ OneInBackground(Checkpointing(recv))
    BY InBackground DEF Connect
  <2>2. QED
    BY <1>3, <2>1, QueueCut DEF TransferInv, ReceiverInv
<1>6. toReceiver' = << >> /\ toSender' = << >> /\ UNCHANGED <<check, stored, files>>
  BY DEF Connect, Lost, store
<1>7. QED
  BY <1>3, <1>4, <1>5, <1>6, SessionCut

LEMMA RecoverySession ==
  ASSUME TransferInv, SessionInv, RecoveryFails
  PROVE  SessionInv' /\ (VerifiedInv => VerifiedInv')
<1> DEFINE d == Detached(recv)
<1>1. Ready(d) /\ d.verify = NoVerification
  BY ReadyKept, DetachedWaits DEF TransferInv, ReceiverInv
<1>2. recv.link = "closed" /\ toReceiver' = << >> /\ toSender' = toSender
      /\ UNCHANGED <<check, stored, files>>
  BY DEF RecoveryFails, Silent, store
<1>3. ~peer.open /\ peer.op.kind = "none" /\ toSender = << >>
  BY <1>2 DEF SessionInv, QuietWhenClosed
<1>4. ~peer'.open /\ peer'.op.kind = "none"
  <2>1. peer \in PeerType
    BY DEF TransferInv, SenderInv, Working
  <2> DEFINE q == [Invalidated(peer) EXCEPT !.xfer = "idle"]
  <2>2. q.open = peer.open /\ q.op.kind = "none"
    BY <2>1 DEF Invalidated, NoOp, PeerType
  <2>3. peer' = peer \/ peer' = q
    BY DEF RecoveryFails
  <2> HIDE DEF q
  <2>4. QED
    BY <1>3, <2>2, <2>3
<1>5. /\ recv'.verify = NoVerification
      /\ \E es : OneInBackground(es) /\ disk' = Gone \o es
  <2>1. CASE recv.state = "stopping"
    <3>1. Ready(Cleaning(d)) /\ Cleaning(d).verify = NoVerification
      BY <1>1, ReadyKept, WaitsKept DEF SameWaits
    <3> HIDE DEF d
    <3> DEFINE r == [Cleaning(d) EXCEPT !.state = "idle",
                                        !.finish = IF recv.restart THEN "adopt" ELSE "abandon"]
    <3>2. Ready(r) /\ r.verify = NoVerification
      <4>1. \A finish \in {"adopt", "abandon"} :
              LET s == [Cleaning(d) EXCEPT !.state = "idle", !.finish = finish]
              IN Ready(s) /\ s.verify = NoVerification
        BY <3>1 DEF Ready, RecvType, RecvState
      <4>2. (IF recv.restart THEN "adopt" ELSE "abandon") \in {"adopt", "abandon"}
        OBVIOUS
      <4>3. QED
        BY <4>1, <4>2
    <3>3. recv' \in {r, AfterStop(r)} /\ disk' = Gone \o CleanupEntry(recv)
      BY <2>1 DEF RecoveryFails, d
    <3> HIDE DEF r
    <3>4. AfterStop(r).verify = NoVerification
      BY <3>2, AfterStopWaits
    <3>5. QED
      BY <3>2, <3>3, <3>4, InBackground
  <2>2. CASE recv.state # "stopping"
    <3>1. \A shown : [d EXCEPT !.state = "paused", !.shown = shown].verify = NoVerification
      BY <1>1 DEF Ready, RecvType
    <3>2. \E shown : recv' = [d EXCEPT !.state = "paused", !.shown = shown]
      BY <2>2, Zenon DEF RecoveryFails
    <3>3. recv'.verify = NoVerification
      BY <3>1, <3>2, Zenon
    <3>4. disk' = Gone \o <<Entry("checkpoint", NoChunk, "nobody")>>
      BY <2>2 DEF RecoveryFails
    <3>5. QED
      BY <3>3, <3>4, InBackground
  <2>3. QED
    BY <2>1, <2>2
<1>6. QueueInv' /\ Kinds(disk', "channel") = {}
  BY <1>5, QueueCut DEF TransferInv, ReceiverInv
<1>7. QED
  BY <1>2, <1>3, <1>4, <1>5, <1>6, SessionCut

LEMMA ReloadSession ==
  ASSUME TransferInv, SessionInv, Reload
  PROVE  SessionInv' /\ (VerifiedInv => VerifiedInv')
<1>1. /\ disk' = << >> /\ toReceiver' = << >> /\ toSender' = << >> /\ check' = NoCheck
      /\ files' = files
  BY DEF Reload, Lost
<1>2. ~peer'.open /\ peer'.op.kind = "none"
  <2>1. ~NewPeer.open /\ NewPeer.op.kind = "none"
    BY DEF NewPeer, NoOp
  <2>2. ~PeerLost.open /\ PeerLost.op.kind = "none"
    <3>1. \A p \in PeerType : \A xfer :
            LET q == [Invalidated(p) EXCEPT !.open = FALSE, !.xfer = xfer]
            IN ~q.open /\ q.op.kind = "none"
      BY DEF Invalidated, NoOp, PeerType
    <3>2. QED
      BY <3>1 DEF PeerLost, TransferInv, SenderInv, Working
  <2>3. peer' \in {NewPeer, PeerLost}
    BY DEF Reload
  <2>4. QED
    BY <2>1, <2>2, <2>3
<1>3. recv'.verify = NoVerification
  <2>1. NewReceiver.verify = NoVerification
    BY DEF NewReceiver
  <2>2. \A v : [NewReceiver EXCEPT !.state = "paused", !.meta = v, !.shown = TRUE].verify
                 = NoVerification
    BY DEF NewReceiver
  <2>3. recv' = NewReceiver
        \/ recv' = [NewReceiver EXCEPT !.state = "paused", !.meta = saved.version, !.shown = TRUE]
    BY DEF Reload
  <2>4. QED
    BY <2>1, <2>2, <2>3
<1>4. QueueInv' /\ Kinds(disk', "channel") = {}
  <2>1. DOMAIN disk' = {}
    BY <1>1
  <2>2. QueueInv'
    BY <1>3, <2>1 DEF QueueInv
  <2>3. QED
    BY <1>1, <2>2, NoTypes
<1>5. QED
  BY <1>1, <1>2, <1>3, <1>4, SessionCut

\* What was in flight may still arrive at the receiver, not at the sender.
LEMMA BreakSession ==
  ASSUME TransferInv, SessionInv, Break
  PROVE  SessionInv' /\ (VerifiedInv => VerifiedInv')
<1>1. UNCHANGED <<check, disk, stored, files>> /\ toSender' = << >>
  BY DEF Break, store
<1>2. recv'.verify = recv.verify
      /\ recv'.finish = recv.finish
  BY DEF Break, TransferInv, ReceiverInv, Ready, RecvType
<1>3. ~peer'.open /\ peer'.op.kind = "none"
  <2>1. \A p \in PeerType : \A xfer :
          LET q == [Invalidated(p) EXCEPT !.open = FALSE, !.xfer = xfer]
          IN ~q.open /\ q.op.kind = "none"
    BY DEF Invalidated, NoOp, PeerType
  <2>2. QED
    BY <2>1 DEF Break, PeerLost, TransferInv, SenderInv, Working
<1>4. Types(toReceiver') \subseteq Types(toReceiver)
  BY TypesOf, NoTypes DEF Break, TransferInv, ChannelInv
<1>5. Types(toSender') = {}
  BY <1>1, NoTypes
<1>6. QueueInv'
  BY <1>1, <1>2 DEF QueueInv, SessionInv, Handling
<1>7. NothingNew
  BY <1>1, <1>2, <1>3, <1>4, <1>5 DEF NothingNew, Transferring, RepairUnderWay
<1>8. SessionInv'
  BY <1>1, <1>3, <1>6, <1>7 DEF SessionInv, QuietWhenClosed, FreshInv, NothingNew
<1>9. QED
  BY <1>1, <1>2, <1>7, <1>8, VerifiedKept DEF NothingNew

\* A receiver whose channel opens asks for nothing but what it was told to receive.
LEMMA OpenSession ==
  ASSUME TransferInv, SessionInv, ReceiverOpen
  PROVE  SessionInv' /\ (VerifiedInv => VerifiedInv')
<1> DEFINE r == [recv EXCEPT !.link = "open"]
<1>1. Ready(r) /\ r.verify = recv.verify /\ r.finish = recv.finish /\ r.link = "open"
  BY DEF TransferInv, ReceiverInv, Ready, RecvType
<1>2. recv'.verify = recv.verify /\ recv'.finish = recv.finish /\ recv'.link = "open"
  <2>1. recv' = r \/ recv' = Requesting(r)
    BY DEF ReceiverOpen
  <2> HIDE DEF r
  <2>2. SameWaits(r, Requesting(r))
    BY <1>1, WaitsKept
  <2>3. QED
    BY <1>1, <2>1, <2>2 DEF SameWaits
<1>3. \E es : OneInBackground(es) /\ disk' = disk \o es
  <2>1. disk \o << >> = disk
    BY ConcatEmptySeq DEF TransferInv, ReceiverInv
  <2>2. disk' = disk \/ disk' = disk \o Preparing(r, "nobody")
    BY DEF ReceiverOpen
  <2> HIDE DEF r
  <2>3. QED
    BY <2>1, <2>2, InBackground
<1>4. ToldWords
  <2>1. Types(Append(toSender, Msg("stop", None, 0))) = Types(toSender) \cup {"stop"}
    BY TypesOf DEF TransferInv, ChannelInv, Msg
  <2>2. QED
    BY <2>1 DEF ReceiverOpen, Silent, ToldWords, Words
<1>5. UNCHANGED <<peer, toReceiver, check, stored, files>>
  BY DEF ReceiverOpen, senderVars, store
<1>6. SessionInv' /\ NothingNew /\ Kinds(disk', "channel") = Kinds(disk, "channel")
  <2>1. recv.verify # NoVerification => recv.finish \notin {"stop", "restart"}
    BY DEF SessionInv, QueueInv
  <2>2. QED
    BY <1>2, <1>3, <1>4, <1>5, <2>1, SessionGrows DEF TransferInv, ReceiverInv, Handling
<1>7. QED
  BY <1>2, <1>5, <1>6, VerifiedKept DEF NothingNew

-----------------------------------------------------------------------------
(* The session through what the user does.                                 *)

LEMMA UserSession ==
  ASSUME TransferInv, SessionInv, User
  PROVE  SessionInv' /\ (VerifiedInv => VerifiedInv')
<1>1. Ready(recv) /\ recv \in RecvType /\ disk \in Seq(Entries(recv.meta)) /\ toSender \in Seq(ToSender)
  BY DEF TransferInv, ReceiverInv, Ready, ChannelInv
<1>2. UNCHANGED <<peer, toReceiver, check, stored, files>>
  BY DEF User, Receive, Pause, Resume, Terminate, AcceptUpdate, UserOnly, senderVars, store
<1>3. ToldWords
  <2>1. \A type \in {"pause", "stop"} : Msg(type, None, 0).type = type /\ type \in Words
    BY DEF Msg, Words
  <2>2. Silent \/ \E type \in {"pause", "stop"} : Tell(<<Msg(type, None, 0)>>)
    BY DEF User, Receive, Pause, Resume, Terminate, AcceptUpdate
  <2>3. QED
    BY <1>1, <2>1, <2>2, Telling
<1>4. /\ SameWaits(recv, recv')
      /\ \E es : OneInBackground(es) /\ disk' = disk \o es
  <2>1. disk \o << >> = disk
    BY <1>1, ConcatEmptySeq
  <2>2. CASE Receive \/ Resume
    <3> DEFINE r == Downloading(recv)
    <3>1. Ready(r) /\ SameWaits(recv, r) /\ SameWaits(r, Requesting(r))
      BY <1>1, ReadyKept, WaitsKept
    <3>2. recv' = Requesting(r) /\ disk' = disk \o Asking(r)
      BY <2>2 DEF Receive, Resume
    <3> HIDE DEF r
    <3>3. QED
      BY <3>1, <3>2, InBackground DEF SameWaits
  <2>3. CASE Pause
    <3> DEFINE r == [recv EXCEPT !.state = "pausing", !.requested = FALSE]
    <3>1. Ready(r) /\ SameWaits(recv, r)
      BY <1>1 DEF Ready, RecvType, RecvState, SameWaits
    <3>2. \/ recv' = r /\ disk' = disk
          \/ recv' = Confirmed(r) /\ disk' = disk \o Checkpointing(r)
      BY <2>3 DEF Pause
    <3> HIDE DEF r
    <3>3. SameWaits(r, Confirmed(r))
      BY <3>1, WaitsKept
    <3>4. QED
      BY <2>1, <3>1, <3>2, <3>3, InBackground DEF SameWaits
  <2>4. CASE Terminate
    <3> DEFINE c == Cleaning(recv)
    <3>1. c \in RecvType /\ SameWaits(recv, c)
      BY <1>1, ReadyKept, WaitsKept DEF Ready
    <3> HIDE DEF c
    <3>2. SameWaits(c, [c EXCEPT !.state = "stopping", !.restart = FALSE, !.requested = FALSE])
      BY <3>1 DEF RecvType, SameWaits
    <3>3. /\ recv' = [c EXCEPT !.state = "stopping", !.restart = FALSE, !.requested = FALSE]
          /\ disk' = disk \o CleanupEntry(recv)
      BY <2>4 DEF Terminate, c
    <3>4. QED
      BY <3>1, <3>2, <3>3, InBackground DEF SameWaits
  <2>5. CASE AcceptUpdate
    <3> DEFINE r == [recv EXCEPT !.accepting = TRUE, !.shown = FALSE]
               c == Cleaning(r)
               s == [c EXCEPT !.state = "stopping", !.restart = TRUE, !.requested = FALSE]
    <3>1. Ready(r) /\ SameWaits(recv, r)
      BY <1>1 DEF Ready, RecvType, SameWaits
    <3>2. \/ recv' = s /\ disk' = disk \o CleanupEntry(recv)
          \/ recv' = r /\ disk' = disk \o <<Entry("adopt", <<recv.pending, 0>>, "nobody")>>
      BY <2>5 DEF AcceptUpdate
    <3>3. c \in RecvType /\ SameWaits(r, c)
      BY <3>1, ReadyKept, WaitsKept DEF Ready
    <3> HIDE DEF c
    <3>4. SameWaits(c, s)
      BY <3>3 DEF RecvType, SameWaits
    <3> HIDE DEF r, s
    <3>5. QED
      BY <3>1, <3>2, <3>3, <3>4, InBackground DEF SameWaits
  <2>6. QED
    BY <2>2, <2>3, <2>4, <2>5 DEF User
<1>5. recv'.verify = recv.verify /\ recv'.finish = recv.finish /\ recv'.link = recv.link
  BY <1>4 DEF SameWaits
<1>6. SessionInv' /\ NothingNew /\ Kinds(disk', "channel") = Kinds(disk, "channel")
  <2>1. recv.verify # NoVerification => recv.finish \notin {"stop", "restart"}
    BY DEF SessionInv, QueueInv
  <2>2. QED
    BY <1>1, <1>2, <1>3, <1>4, <1>5, <2>1, SessionGrows DEF Handling
<1>7. QED
  BY <1>2, <1>5, <1>6, VerifiedKept DEF NothingNew

-----------------------------------------------------------------------------
(* The session through the receiver's message handler.                     *)

LEMMA OnlyVersion ==
  ASSUME OneVersion
  PROVE  Versions = {1} /\ Sizes[1] \in Position /\ \A c \in Chunk : c = <<1, c[2]>>
<1>1. Versions = {1}
  BY DEF OneVersion, Versions
<1>2. QED
  BY <1>1, VersionsAreKnown DEF Chunk

\* A handler starts when nothing else is handled, with the message that it takes.
LEMMA Handles ==
  ASSUME TransferInv, NEW type, Gets(type), Handled
  PROVE  /\ Types(toReceiver') \subseteq Types(toReceiver) /\ type \in Types(toReceiver)
         /\ Kinds(disk, "channel") = {} /\ ~Busy /\ ~Handling(recv)
         /\ Ready(recv) /\ recv \in RecvType
         /\ disk \in Seq(Entries(recv.meta)) /\ toSender \in Seq(ToSender)
         /\ UNCHANGED <<peer, stored, files>>
<1>1. Ready(recv) /\ recv \in RecvType /\ disk \in Seq(Entries(recv.meta)) /\ toSender \in Seq(ToSender)
  BY DEF TransferInv, ReceiverInv, Ready, ChannelInv
<1>2. UNCHANGED <<peer, stored, files>> /\ toReceiver' = Tail(toReceiver)
  BY DEF Handled, senderVars, store
<1>3. ~Busy /\ toReceiver # << >> /\ Head(toReceiver).type = type
  BY DEF Gets
<1>4. Types(toReceiver') \subseteq Types(toReceiver) /\ type \in Types(toReceiver)
  BY <1>2, <1>3, TypesOf DEF TransferInv, ChannelInv
<1>5. Kinds(disk, "channel") = {}
  BY <1>1, <1>3, QueueWaits
<1>6. ~Handling(recv)
  BY <1>3 DEF Busy, Handling
<1>7. QED
  BY <1>1, <1>2, <1>3, <1>4, <1>5, <1>6

\* A handler that is done at once, but for what nobody waits for.
LEMMA HandlerEnds ==
  ASSUME TransferInv, SessionInv, NEW type, Gets(type), Handled, ToldWords,
         recv'.verify = recv.verify, recv'.link = recv.link,
         check'.manifest = check.manifest, check'.repaired = check.repaired,
         NEW es, OneInBackground(es), disk' = disk \o es
  PROVE  SessionInv' /\ (VerifiedInv => VerifiedInv')
<1>1. /\ Types(toReceiver') \subseteq Types(toReceiver) /\ ~Busy /\ ~Handling(recv)
      /\ disk \in Seq(Entries(recv.meta)) /\ UNCHANGED <<peer, stored, files>>
  BY Handles
<1>2. SessionInv' /\ NothingNew /\ Kinds(disk', "channel") = Kinds(disk, "channel")
  <2>1. recv'.verify = NoVerification
    BY <1>1 DEF Handling
  <2>2. QED
    BY <1>1, <2>1, SessionGrows
<1>3. QED
  BY <1>1, <1>2, VerifiedKept DEF NothingNew

\* A handler that waits for the storage.
LEMMA HandlerWaits ==
  ASSUME TransferInv, SessionInv, NEW type, Gets(type), Handled, ToldWords, SameWaits(recv, recv'),
         check'.manifest = check.manifest, check'.repaired = check.repaired,
         NEW e, e.by = "channel", disk' = disk \o <<e>>,
         e.kind \in {"append", "file", "fail", "replace"} => type \in Content,
         e.kind = "replace" => type = "repair-end",
         e.kind = "file" => 1 \notin Verified
  PROVE  SessionInv' /\ (VerifiedInv => VerifiedInv')
<1>1. /\ Types(toReceiver') \subseteq Types(toReceiver) /\ type \in Types(toReceiver)
      /\ Kinds(disk, "channel") = {} /\ ~Handling(recv)
      /\ disk \in Seq(Entries(recv.meta)) /\ UNCHANGED <<peer, stored, files>>
  BY Handles
<1>2. SessionInv' /\ NothingNew /\ Kinds(disk', "channel") = {e.kind}
  <2>1. ~Handling(recv') /\ recv'.link = recv.link
    BY <1>1 DEF SameWaits, Handling
  <2>2. type \in Content => Transferring
    BY <1>1 DEF Transferring
  <2>3. type = "repair-end" => RepairUnderWay
    BY <1>1 DEF RepairUnderWay
  <2>4. QED
    BY <1>1, <2>1, <2>2, <2>3, SessionTakes
<1>3. recv'.verify = recv.verify
  BY DEF SameWaits
<1>4. "fail" \notin Kinds(disk, "channel")
  BY <1>1
<1>5. "file" \in Kinds(disk', "channel") /\ 1 \in Verified => "file" \in Kinds(disk, "channel")
  BY <1>2
<1>6. QED
  BY <1>1, <1>2, <1>3, <1>4, <1>5, VerifiedKept DEF NothingNew

\* A handler that asks for the rest of the file.
LEMMA HandlerRequests ==
  ASSUME TransferInv, SessionInv, NEW type, Gets(type), Handled, ToldWords,
         NEW r, Ready(r), SameWaits(recv, r), ThenRequest(r),
         check'.manifest = check.manifest, check'.repaired = check.repaired
  PROVE  SessionInv' /\ (VerifiedInv => VerifiedInv')
<1>1. SameWaits(recv, recv')
  BY WaitsKept DEF ThenRequest, SameWaits
<1>2. CASE CanRequest(r)
  <2> DEFINE e == Entry("prepare", NoChunk, "channel")
  <2>1. disk' = disk \o <<e>> /\ e.by = "channel" /\ e.kind = "prepare"
    BY <1>2 DEF ThenRequest, Preparing, Entry
  <2> HIDE DEF e
  <2>2. QED
    BY <1>1, <2>1, HandlerWaits
<1>3. CASE ~CanRequest(r)
  <2>1. disk' = disk \o << >>
    BY <1>3 DEF ThenRequest, Preparing
  <2>2. QED
    BY <1>1, <2>1, HandlerEnds, InBackground DEF SameWaits
<1>4. QED
  BY <1>2, <1>3

LEMMA Waitless ==
  ASSUME TransferInv, disk' = disk
  PROVE  disk' = disk \o << >> /\ OneInBackground(<< >>)
BY ConcatEmptySeq, InBackground DEF TransferInv, ReceiverInv

LEMMA OnMetaSession ==
  ASSUME TransferInv, SessionInv, OnMeta
  PROVE  SessionInv' /\ (VerifiedInv => VerifiedInv')
<1> DEFINE v == Message.version
           shown == [recv EXCEPT !.meta = v, !.accepting = FALSE]
           stopping == [recv EXCEPT !.pending =
                          IF recv.restart /\ recv.pending # None THEN v ELSE recv.pending]
           offered == [recv EXCEPT !.pending = v, !.requested = FALSE]
           paused == [shown EXCEPT !.shown = TRUE]
<1>1. Gets("meta") /\ Handled /\ check' = check
  BY DEF OnMeta
<1>2. v \in Versions /\ Ready(recv) /\ recv \in RecvType /\ toSender \in Seq(ToSender)
  BY <1>1, HeardFromSender, Handles DEF TransferInv, ChannelInv
<1>3. Ready(shown) /\ SameWaits(recv, shown)
  BY <1>2, VersionsAreKnown DEF Ready, RecvType, MaybeVersion, SameWaits
<1>4. Ready(offered) /\ SameWaits(recv, offered)
  BY <1>2 DEF Ready, RecvType, MaybeVersion, SameWaits
<1>5. SameWaits(recv, stopping)
  <2>1. \A pending : SameWaits(recv, [recv EXCEPT !.pending = pending])
    BY <1>2 DEF RecvType, SameWaits
  <2>2. QED
    BY <2>1
<1>6. SameWaits(recv, paused)
  <2>1. SameWaits(shown, paused)
    BY <1>3 DEF Ready, RecvType, SameWaits
  <2>2. QED
    BY <1>3, <2>1 DEF SameWaits
<1>7. ToldWords
  <2>1. Progress(shown).type = "progress" /\ Msg("pause", None, 0).type = "pause"
    BY DEF Progress, Msg
  <2>2. Silent \/ Tell(<<Progress(shown), Msg("pause", None, 0)>>)
    BY DEF OnMeta
  <2>3. QED
    BY <1>2, <2>1, <2>2, Telling DEF Words
<1>8. \/ recv' = stopping /\ disk' = disk
      \/ recv' = offered /\ disk' = disk
      \/ recv' = paused /\ disk' = disk
      \/ recv' = shown /\ disk' = disk
      \/ ThenRequest(offered)
      \/ ThenRequest(shown)
  BY DEF OnMeta
<1> HIDE DEF stopping, offered, paused, shown
<1>9. CASE ThenRequest(offered)
  BY <1>1, <1>4, <1>7, <1>9, HandlerRequests
<1>10. CASE ThenRequest(shown)
  BY <1>1, <1>3, <1>7, <1>10, HandlerRequests
<1>11. CASE recv' \in {stopping, offered, paused, shown} /\ disk' = disk
  <2>1. recv'.verify = recv.verify /\ recv'.link = recv.link
    BY <1>3, <1>4, <1>5, <1>6, <1>11 DEF SameWaits
  <2>2. QED
    BY <1>1, <1>7, <1>11, <2>1, HandlerEnds, Waitless
<1>12. QED
  BY <1>8, <1>9, <1>10, <1>11

LEMMA OnWordSession ==
  ASSUME TransferInv, SessionInv, OnUpdate \/ OnError \/ OnPaused \/ OnRepairStart
  PROVE  SessionInv' /\ (VerifiedInv => VerifiedInv')
<1>1. PICK type : Gets(type) /\ Handled
  BY DEF OnUpdate, OnError, OnPaused, OnRepairStart
<1>2. Ready(recv) /\ recv \in RecvType /\ toSender \in Seq(ToSender)
  BY <1>1, Handles
<1>3. recv'.verify = recv.verify /\ recv'.link = recv.link
  <2>1. CASE OnUpdate
    <3>1. \A v : /\ SameWaits(recv, [recv EXCEPT !.meta = v, !.accepting = FALSE, !.shown = FALSE])
                 /\ SameWaits(recv, [recv EXCEPT !.pending = v])
      BY <1>2 DEF RecvType, SameWaits
    <3>2. \/ recv' = recv
          \/ \E v : \/ recv' = [recv EXCEPT !.meta = v, !.accepting = FALSE, !.shown = FALSE]
                    \/ recv' = [recv EXCEPT !.pending = v]
      BY <2>1, Zenon DEF OnUpdate
    <3>3. recv' = recv \/ SameWaits(recv, recv')
      BY <3>1, <3>2, Zenon
    <3>4. QED
      BY <3>3 DEF SameWaits
  <2>2. CASE OnPaused
    BY <1>2, <2>2, WaitsKept DEF OnPaused, SameWaits
  <2>3. CASE OnError \/ OnRepairStart
    BY <1>2, <2>3 DEF OnError, OnRepairStart, RecvType
  <2>4. QED
    BY <2>1, <2>2, <2>3
<1>4. check'.manifest = check.manifest /\ check'.repaired = check.repaired
  <2>1. \A at : LET c == [check EXCEPT !.block = at, !.parts = << >>]
                IN c.manifest = check.manifest /\ c.repaired = check.repaired
    BY DEF TransferInv, ReceiverInv, Checked, CheckType
  <2>2. check' = check \/ check' = [check EXCEPT !.block = Message.at, !.parts = << >>]
    BY DEF OnUpdate, OnError, OnPaused, OnRepairStart
  <2>3. QED
    BY <2>1, <2>2
<1>5. ToldWords
  <2>1. Progress(recv).type = "progress"
    BY DEF Progress, Msg
  <2>2. Silent \/ Tell(<<Progress(recv)>>)
    BY DEF OnUpdate, OnError, OnPaused, OnRepairStart
  <2>3. QED
    BY <1>2, <2>1, <2>2, Telling DEF Words
<1>6. disk' = disk \/ disk' = disk \o Checkpointing(recv)
  BY DEF OnUpdate, OnError, OnPaused, OnRepairStart
<1>7. CASE disk' = disk
  BY <1>1, <1>3, <1>4, <1>5, <1>7, HandlerEnds, Waitless
<1>8. CASE disk' = disk \o Checkpointing(recv)
  BY <1>1, <1>3, <1>4, <1>5, <1>8, HandlerEnds, InBackground
<1>9. QED
  BY <1>6, <1>7, <1>8

LEMMA OnStoppedSession ==
  ASSUME TransferInv, SessionInv, OnStopped
  PROVE  SessionInv' /\ (VerifiedInv => VerifiedInv')
<1> DEFINE c == Cleaning(recv)
           r == [c EXCEPT
                   !.state = "idle", !.requested = FALSE,
                   !.finish = IF recv.state = "stopping" /\ recv.restart THEN "restart" ELSE "stop"]
           after == AfterStop(r)
<1>1. Gets("stopped") /\ Handled /\ check' = check /\ Silent
  BY DEF OnStopped
<1>2. Ready(recv) /\ toSender \in Seq(ToSender)
  BY <1>1, Handles
<1>3. Ready(c) /\ c.verify = recv.verify /\ c.link = recv.link
  BY <1>2, ReadyKept, WaitsKept DEF SameWaits
<1>4. \/ recv' = r /\ disk' = disk \o CleanupEntry(recv)
      \/ recv' = Requesting(after) /\ disk' = disk \o Asking(after)
      \/ recv' = after /\ disk' = disk \o << >>
  BY DEF OnStopped
<1> HIDE DEF c
<1>5. Ready(r) /\ r.verify = recv.verify /\ r.link = recv.link
  <2>1. \A finish \in {"restart", "stop"} :
          LET s == [c EXCEPT !.state = "idle", !.requested = FALSE, !.finish = finish]
          IN Ready(s) /\ s.verify = recv.verify /\ s.link = recv.link
    BY <1>3 DEF Ready, RecvType, RecvState
  <2>2. (IF recv.state = "stopping" /\ recv.restart THEN "restart" ELSE "stop")
          \in {"restart", "stop"}
    OBVIOUS
  <2>3. QED
    BY <2>1, <2>2
<1> HIDE DEF r
<1>6. Ready(after) /\ after.verify = recv.verify /\ after.link = recv.link
  BY <1>5, AfterStopType, AfterStopWaits
<1> HIDE DEF after
<1>7. SameWaits(after, Requesting(after))
  BY <1>6, WaitsKept
<1>8. recv'.verify = recv.verify /\ recv'.link = recv.link
  BY <1>4, <1>5, <1>6, <1>7 DEF SameWaits
<1>9. \E es : OneInBackground(es) /\ disk' = disk \o es
  BY <1>4, InBackground
<1>10. ToldWords
  BY <1>1, <1>2, Telling
<1>11. QED
  BY <1>1, <1>8, <1>9, <1>10, HandlerEnds

LEMMA OnRepairEndSession ==
  ASSUME TransferInv, SessionInv, OnRepairEnd
  PROVE  SessionInv' /\ (VerifiedInv => VerifiedInv')
<1> DEFINE e == Entry("replace", <<check.parts[1], check.block>>, "channel")
<1>1. Gets("repair-end") /\ Handled /\ recv' = recv /\ Silent
  BY DEF OnRepairEnd, Ignored
<1>2. ToldWords
  BY <1>1, Handles, Telling
<1>3. check'.manifest = check.manifest /\ check'.repaired = check.repaired
  BY DEF OnRepairEnd, Ignored, TransferInv, ReceiverInv, Checked, CheckType
<1>4. e.by = "channel" /\ e.kind = "replace"
  BY DEF Entry
<1>5. disk' = disk \/ disk' = disk \o <<e>>
  BY DEF OnRepairEnd, Ignored
<1> HIDE DEF e
<1>6. CASE disk' = disk
  BY <1>1, <1>2, <1>3, <1>6, HandlerEnds, Waitless
<1>7. CASE disk' = disk \o <<e>>
  <2>1. SameWaits(recv, recv')
    BY <1>1 DEF SameWaits
  <2>2. "repair-end" \in Content
    BY DEF Content
  <2>3. QED
    BY <1>1, <1>2, <1>3, <1>4, <1>7, <2>1, <2>2, HandlerWaits
<1>8. QED
  BY <1>5, <1>6, <1>7

LEMMA OnChunkSession ==
  ASSUME TransferInv, SessionInv, OnChunk
  PROVE  SessionInv' /\ (VerifiedInv => VerifiedInv')
<1> DEFINE chunk == <<Message.version, Message.at>>
           e == Entry("append", chunk, "channel")
           flow == recv.flow + 1
<1>1. Gets("chunk") /\ Handled
  BY DEF OnChunk
<1>2. recv \in RecvType /\ toSender \in Seq(ToSender)
  BY <1>1, Handles
<1>3. SameWaits(recv, recv')
  <2>1. \A n : /\ SameWaits(recv, [recv EXCEPT !.flow = n, !.acked = n])
               /\ SameWaits(recv, [recv EXCEPT !.flow = n])
    BY <1>2 DEF RecvType, SameWaits
  <2>2. \/ recv' = recv
        \/ recv' = [recv EXCEPT !.flow = flow, !.acked = flow]
        \/ recv' = [recv EXCEPT !.flow = flow]
    BY DEF OnChunk, Ignored
  <2> HIDE DEF flow
  <2>3. recv' = recv \/ SameWaits(recv, recv')
    BY <2>1, <2>2
  <2>4. QED
    BY <2>3 DEF SameWaits
<1>4. ToldWords
  <2>1. Msg("progress", recv.meta, flow).type = "progress"
    BY DEF Msg
  <2>2. Silent \/ Tell(<<Msg("progress", recv.meta, flow)>>)
    BY DEF OnChunk, Ignored
  <2>3. QED
    BY <1>2, <2>1, <2>2, Telling DEF Words
<1>5. check'.manifest = check.manifest /\ check'.repaired = check.repaired
  <2>1. \A parts : LET c == [check EXCEPT !.parts = parts]
                   IN c.manifest = check.manifest /\ c.repaired = check.repaired
    BY DEF TransferInv, ReceiverInv, Checked, CheckType
  <2>2. check' = check \/ check' = [check EXCEPT !.parts = <<chunk>>]
    BY DEF OnChunk, Ignored
  <2>3. QED
    BY <2>1, <2>2
<1>6. e.by = "channel" /\ e.kind = "append"
  BY DEF Entry
<1>7. disk' = disk \/ disk' = disk \o <<e>>
  BY DEF OnChunk, Ignored
<1> HIDE DEF e
<1>8. CASE disk' = disk
  BY <1>1, <1>3, <1>4, <1>5, <1>8, HandlerEnds, Waitless DEF SameWaits
<1>9. CASE disk' = disk \o <<e>>
  <2>1. "chunk" \in Content
    BY DEF Content
  <2>2. QED
    BY <1>1, <1>3, <1>4, <1>5, <1>6, <1>9, <2>1, HandlerWaits
<1>10. QED
  BY <1>7, <1>8, <1>9

\* A failure that is reported by the handler.
LEMMA FailSession ==
  ASSUME NEW r, Ready(r), Fails(r)
  PROVE  /\ SameWaits(r, recv')
         /\ \E e : e.by = "channel" /\ e.kind = "fail" /\ disk' = disk \o <<e>>
<1>1. SameWaits(r, recv')
  BY DEF Ready, RecvType, SameWaits, Fails
<1>2. Entry("fail", NoChunk, "channel").by = "channel" /\ Entry("fail", NoChunk, "channel").kind = "fail"
  BY DEF Entry
<1>3. QED
  BY <1>1, <1>2 DEF Fails

\* Of one version the manifest is that of the file; where all blocks are still to be
\* verified, there is nothing to be said of the store.
LEMMA ManifestSession ==
  ASSUME TransferInv, SessionInv, Gets("done"), Handled, Silent, disk' = disk,
         recv.meta # None, ~(Len(stored) < Sizes[recv.meta]),
         check' = [check EXCEPT !.manifest = Message.version],
         recv' = [recv EXCEPT !.state = "verifying",
                    !.verify = [of |-> Message.version, blocks |-> 1..Sizes[Message.version]]]
  PROVE  SessionInv' /\ (OneVersion /\ VerifiedInv => VerifiedInv')
<1>1. /\ Types(toReceiver') \subseteq Types(toReceiver) /\ "done" \in Types(toReceiver)
      /\ Kinds(disk, "channel") = {} /\ ~Handling(recv) /\ recv \in RecvType
      /\ disk \in Seq(Entries(recv.meta)) /\ UNCHANGED <<peer, stored, files>>
  BY Handles
<1>2. Message.version \in Versions
  BY HeardFromSender DEF TransferInv, ChannelInv
<1>3. /\ recv'.verify = [of |-> Message.version, blocks |-> 1..Sizes[Message.version]]
      /\ recv'.finish = recv.finish /\ recv'.link = recv.link
  BY <1>1 DEF RecvType
<1>4. recv'.verify # NoVerification /\ recv'.verify.blocks = 1..Sizes[Message.version]
  BY <1>2, <1>3, VersionsAreKnown DEF NoVerification
<1>5. QueueInv'
  <2>1. \A i \in DOMAIN disk : disk[i].by # "channel"
    BY <1>1, Zenon DEF Kinds
  <2>2. QED
    BY <1>1, <1>3, <2>1 DEF QueueInv, SessionInv, Handling
<1>6. QuietWhenClosed'
  BY <1>1, <1>3 DEF QuietWhenClosed, SessionInv, Silent
<1>7. FreshInv'
  BY <1>1 DEF FreshInv, SessionInv, Transferring, Content
<1>8. ASSUME OneVersion, VerifiedInv
      PROVE  VerifiedInv'
  <2>1. stored # << >>
    <3>1. Sizes[recv.meta] \in Position
      BY ReceiverTypes DEF TransferInv
    <3>2. QED
      BY <3>1 DEF Position
  <2>2. \A i \in 1..Sizes[1] : i \in recv'.verify.blocks
    BY <1>2, <1>4, <1>8, OnlyVersion
  <2>3. ManifestHasData' /\ VerifySound'
    BY <1>1, <2>1, <2>2 DEF ManifestHasData, VerifySound, SoundBut
  <2>4. RepairSound' /\ FileSound'
    BY <1>1, <1>4 DEF RepairSound, FileSound
  <2>5. FilesSound'
    BY <1>1, <1>8 DEF FilesSound, VerifiedInv
  <2>6. QED
    BY <2>3, <2>4, <2>5 DEF VerifiedInv
<1>9. QED
  BY <1>5, <1>6, <1>7, <1>8 DEF SessionInv

LEMMA OnDoneSession ==
  ASSUME TransferInv, SessionInv, OnDone
  PROVE  SessionInv' /\ (OneVersion /\ VerifiedInv => VerifiedInv')
<1> DEFINE again == [recv EXCEPT !.requested = FALSE]
           e == Entry("file", NoChunk, "channel")
<1>1. Gets("done") /\ Handled /\ Silent
  BY DEF OnDone, Ignored
<1>2. Ready(recv) /\ ToldWords
  BY <1>1, Handles, Telling
<1>3. Ready(again) /\ SameWaits(recv, again)
  BY <1>2 DEF Ready, RecvType, SameWaits
<1>4. \/ UNCHANGED <<recv, check, disk>>
      \/ Fails(recv) /\ check' = check
      \/ ThenRequest(again) /\ check' = [check EXCEPT !.retries = @ + 1]
      \/ /\ recv.meta # None /\ recv.meta \notin Verified
         /\ UNCHANGED <<recv, check>> /\ disk' = disk \o <<e>>
      \/ /\ recv.meta # None /\ ~(Len(stored) < Sizes[recv.meta]) /\ disk' = disk
         /\ recv' = [recv EXCEPT !.state = "verifying",
                      !.verify = [of |-> Message.version, blocks |-> 1..Sizes[Message.version]]]
         /\ check' = [check EXCEPT !.manifest = Message.version]
  BY DEF OnDone, Ignored
<1>5. CASE UNCHANGED <<recv, check, disk>>
  BY <1>1, <1>2, <1>5, HandlerEnds, Waitless
<1>6. CASE Fails(recv) /\ check' = check
  <2>1. PICK f : f.by = "channel" /\ f.kind = "fail" /\ disk' = disk \o <<f>>
    BY <1>2, <1>6, FailSession
  <2>2. SameWaits(recv, recv') /\ "done" \in Content
    BY <1>2, <1>6, FailSession DEF Content
  <2>3. QED
    BY <1>1, <1>2, <1>6, <2>1, <2>2, HandlerWaits
<1>7. CASE ThenRequest(again) /\ check' = [check EXCEPT !.retries = @ + 1]
  <2>1. check'.manifest = check.manifest /\ check'.repaired = check.repaired
    BY <1>7 DEF TransferInv, ReceiverInv, Checked, CheckType
  <2> HIDE DEF again
  <2>2. QED
    BY <1>1, <1>2, <1>3, <1>7, <2>1, HandlerRequests
<1>8. CASE /\ recv.meta # None /\ recv.meta \notin Verified
           /\ UNCHANGED <<recv, check>> /\ disk' = disk \o <<e>>
  <2>1. e.by = "channel" /\ e.kind = "file"
    BY DEF Entry
  <2>2. /\ Types(toReceiver') \subseteq Types(toReceiver) /\ "done" \in Types(toReceiver)
        /\ Kinds(disk, "channel") = {} /\ ~Handling(recv)
        /\ disk \in Seq(Entries(recv.meta)) /\ UNCHANGED <<peer, stored, files>>
    BY <1>1, Handles
  <2> HIDE DEF e
  <2>3. Transferring
    BY <2>2 DEF Transferring, Content
  <2>4. SessionInv' /\ NothingNew /\ Kinds(disk', "channel") = {"file"}
    BY <1>2, <1>8, <2>1, <2>2, <2>3, SessionTakes
  <2>5. ASSUME OneVersion, VerifiedInv
        PROVE  VerifiedInv'
    <3>1. 1 \notin Verified
      BY <1>8, <2>5, OnlyVersion, ReceiverTypes DEF TransferInv
    <3>2. QED
      BY <1>8, <2>2, <2>4, <2>5, <3>1, VerifiedKept DEF NothingNew
  <2>6. QED
    BY <2>4, <2>5
<1>9. CASE /\ recv.meta # None /\ ~(Len(stored) < Sizes[recv.meta]) /\ disk' = disk
           /\ recv' = [recv EXCEPT !.state = "verifying",
                        !.verify = [of |-> Message.version, blocks |-> 1..Sizes[Message.version]]]
           /\ check' = [check EXCEPT !.manifest = Message.version]
  BY <1>1, <1>9, ManifestSession
<1> HIDE DEF again, e
<1>10. QED
  BY <1>4, <1>5, <1>6, <1>7, <1>8, <1>9

\* What is verified of one version: where it finds no mismatch the file is whole, and
\* where it finds some, all but these blocks is.
LEMMA VerifiedBlocks ==
  ASSUME TransferInv, OneVersion, VerifiedInv, recv.verify # NoVerification
  PROVE  stored = << >> \/ SoundBut(Mismatches)
<1> SUFFICES ASSUME stored # << >>, NEW i \in 1..Sizes[1], i \notin Mismatches
             PROVE  Good(i)
  BY DEF SoundBut
<1>1. stored \in Seq(Chunk) /\ Sizes[1] \in Nat
  BY OnlyVersion DEF TransferInv, StoreInv, Position
<1>2. CASE i \in recv.verify.blocks
  <2>1. ~(i > Len(stored)) /\ stored[i] = <<recv.verify.of, i>>
    BY <1>2 DEF Mismatches
  <2>2. i \in DOMAIN stored
    BY <1>1, <2>1
  <2>3. stored[i] \in Chunk
    BY <1>1, <2>2, ElementOfSeq
  <2>4. stored[i] = <<1, stored[i][2]>>
    BY <2>3, OnlyVersion
  <2>5. QED
    BY <2>1, <2>2, <2>4 DEF Good
<1>3. CASE i \notin recv.verify.blocks
  BY <1>3 DEF VerifiedInv, VerifySound, SoundBut
<1>4. QED
  BY <1>2, <1>3

LEMMA VerifySession ==
  ASSUME TransferInv, SessionInv, Verify
  PROVE  SessionInv' /\ (OneVersion /\ VerifiedInv => VerifiedInv')
<1> DEFINE r == [recv EXCEPT !.verify = NoVerification]
           repairing == [r EXCEPT !.state = "repairing", !.shown = TRUE]
           e == Entry("file", NoChunk, "channel")
<1>1. /\ Ready(recv) /\ recv \in RecvType /\ disk \in Seq(Entries(recv.meta))
      /\ toSender \in Seq(ToSender) /\ recv.verify # NoVerification
  BY DEF TransferInv, ReceiverInv, Ready, ChannelInv, Verify
<1>2. UNCHANGED <<peer, toReceiver, stored, files>>
  BY DEF Verify, senderVars, store
<1>3. Transferring /\ Kinds(disk, "gone") = {} /\ recv.finish \notin {"stop", "restart"}
  BY <1>1 DEF Transferring, SessionInv, FreshInv, QueueInv
<1>4. Kinds(disk, "channel") = {}
  BY <1>1, QueueWaits DEF SessionInv, Handling
<1>5. Ready(r) /\ r.verify = NoVerification /\ r.finish = recv.finish /\ r.link = recv.link
  BY <1>1 DEF Ready, RecvType, NoVerification, MaybeVersion
<1>6. /\ repairing.verify = NoVerification /\ repairing.finish = recv.finish
      /\ repairing.link = recv.link
  BY <1>5 DEF Ready, RecvType
<1>7. e.by = "channel" /\ e.kind = "file"
  BY DEF Entry
<1>8. \/ /\ Mismatches = {} /\ recv' = r /\ check' = check /\ disk' = disk \o <<e>>
         /\ Tell(<<Msg("verified", None, 0)>>)
      \/ Fails(r) /\ check' = check /\ Silent
      \/ /\ recv' = repairing /\ disk' = disk
         /\ check' = [check EXCEPT !.repairs = @ + 1,
                                   !.missing = Mismatches, !.repaired = Mismatches]
         /\ Tell(<<Progress(recv), Msg("repair-request", None, Mismatches)>>)
  BY DEF Verify
<1> HIDE DEF r, repairing, e
<1>9. CASE /\ Mismatches = {} /\ recv' = r /\ check' = check /\ disk' = disk \o <<e>>
           /\ Tell(<<Msg("verified", None, 0)>>)
  <2>1. ToldWords
    <3>1. Msg("verified", None, 0).type = "verified"
      BY DEF Msg
    <3>2. QED
      BY <1>1, <1>9, <3>1, Telling DEF Words
  <2>2. SessionInv' /\ NothingNew /\ Kinds(disk', "channel") = {"file"}
    <3>1. ~Handling(recv')
      BY <1>3, <1>5, <1>9 DEF Handling
    <3>2. QED
      BY <1>1, <1>2, <1>3, <1>4, <1>5, <1>7, <1>9, <2>1, <3>1, SessionTakes
  <2>3. ASSUME OneVersion, VerifiedInv
        PROVE  VerifiedInv'
    <3>1. stored' = << >> \/ SoundBut({})'
      BY <1>1, <1>2, <1>9, <2>3, VerifiedBlocks DEF SoundBut, Good
    <3>2. ManifestHasData' /\ VerifySound' /\ FileSound' /\ FilesSound'
      BY <1>2, <1>5, <1>9, <2>3, <3>1
      DEF VerifiedInv, ManifestHasData, VerifySound, FileSound, FilesSound
    <3>3. RepairSound'
      BY <3>1, <3>2 DEF RepairSound, ManifestHasData, SoundBut
    <3>4. QED
      BY <3>2, <3>3 DEF VerifiedInv
  <2>4. QED
    BY <2>2, <2>3
<1>10. CASE Fails(r) /\ check' = check /\ Silent
  <2>1. PICK f : f.by = "channel" /\ f.kind = "fail" /\ disk' = disk \o <<f>>
    BY <1>5, <1>10, FailSession
  <2>2. recv'.verify = NoVerification /\ recv'.finish = recv.finish /\ recv'.link = recv.link
    BY <1>5, <1>10, FailSession DEF SameWaits
  <2>3. SessionInv' /\ NothingNew /\ Kinds(disk', "channel") = {"fail"}
    <3>1. ToldWords
      BY <1>1, <1>10, Telling
    <3>2. ~Handling(recv')
      BY <1>3, <2>2 DEF Handling
    <3>3. QED
      BY <1>1, <1>2, <1>3, <1>4, <2>1, <2>2, <3>1, <3>2, SessionTakes
  <2>4. VerifiedInv => VerifiedInv'
    BY <1>2, <1>10, <2>2, <2>3
    DEF VerifiedInv, ManifestHasData, VerifySound, RepairSound, FileSound, FilesSound
  <2>5. QED
    BY <2>3, <2>4
<1>11. CASE /\ recv' = repairing /\ disk' = disk
            /\ check' = [check EXCEPT !.repairs = @ + 1,
                                      !.missing = Mismatches, !.repaired = Mismatches]
            /\ Tell(<<Progress(recv), Msg("repair-request", None, Mismatches)>>)
  <2>1. recv.link = "closed" => toSender' = toSender
    BY <1>11 DEF Tell
  <2>2. QueueInv'
    <3>1. \A i \in DOMAIN disk : disk[i].by # "channel"
      BY <1>4, Zenon DEF Kinds
    <3>2. QED
      BY <1>6, <1>11, <3>1 DEF QueueInv, SessionInv
  <2>3. QuietWhenClosed'
    BY <1>2, <1>6, <1>11, <2>1 DEF QuietWhenClosed, SessionInv
  <2>4. FreshInv'
    BY <1>3, <1>11 DEF FreshInv
  <2>5. ASSUME OneVersion, VerifiedInv
        PROVE  VerifiedInv'
    <3>1. check'.manifest = check.manifest /\ check'.repaired = Mismatches
      BY <1>11 DEF TransferInv, ReceiverInv, Checked, CheckType
    <3>2. stored = << >> \/ SoundBut(Mismatches)
      BY <1>1, <2>5, VerifiedBlocks
    <3>3. ManifestHasData' /\ VerifySound' /\ FileSound' /\ FilesSound'
      BY <1>2, <1>4, <1>6, <1>11, <2>5, <3>1
      DEF VerifiedInv, ManifestHasData, VerifySound, FileSound, FilesSound
    <3>4. RepairSound'
      BY <1>2, <3>1, <3>2, <3>3 DEF RepairSound, ManifestHasData, SoundBut, Good
    <3>5. QED
      BY <3>3, <3>4 DEF VerifiedInv
  <2>6. QED
    BY <2>2, <2>3, <2>4, <2>5 DEF SessionInv
<1>12. QED
  BY <1>8, <1>9, <1>10, <1>11

-----------------------------------------------------------------------------
(* The session through the storage.                                        *)

LEMMA StorageTypes ==
  ASSUME TransferInv
  PROVE  /\ Ready(recv) /\ recv \in RecvType /\ disk \in Seq(Entries(recv.meta))
         /\ toSender \in Seq(ToSender) /\ stored \in Seq(Chunk) /\ check \in CheckType
BY DEF TransferInv, ReceiverInv, ChannelInv, StoreInv, Ready, Checked

\* Who waited still waits, but for whom the head of the queue has been carried out.
LEMMA KindsKept ==
  ASSUME NEW S, NEW d \in Seq(S), d # << >>, NEW by
  PROVE  \A k \in Kinds(d, by) : k \in Kinds(Tail(d), by) \/ (k = Head(d).kind /\ Head(d).by = by)
<1>1. \A i \in DOMAIN d : i = 1 \/ (i - 1 \in DOMAIN Tail(d) /\ Tail(d)[i - 1] = d[i])
  OBVIOUS
<1>2. Head(d) = d[1]
  OBVIOUS
<1> SUFFICES ASSUME NEW k, k \in Kinds(d, by)
             PROVE  k \in Kinds(Tail(d), by) \/ (k = Head(d).kind /\ Head(d).by = by)
  OBVIOUS
<1>3. PICK i \in DOMAIN d : d[i].by = by /\ k = d[i].kind
  BY Zenon DEF Kinds
<1>4. CASE i = 1
  BY <1>2, <1>3, <1>4
<1>5. ASSUME NEW j, j \in DOMAIN Tail(d), Tail(d)[j] = d[i]
      PROVE  k \in Kinds(Tail(d), by)
  BY <1>3, <1>5, Zenon DEF Kinds
<1>6. QED
  BY <1>1, <1>4, <1>5

\* A step of the storage after which nobody waits for anything new.
LEMMA StorageMoves ==
  ASSUME TransferInv, SessionInv, disk # << >>, peer' = peer, toReceiver' = toReceiver, ToldWords,
         NEW es, OneInBackground(es), disk' = Tail(disk) \o es,
         recv'.verify = recv.verify, recv'.link = recv.link, recv'.finish \in {recv.finish, "none"}
  PROVE  /\ SessionInv' /\ (RepairUnderWay' => RepairUnderWay)
         /\ Kinds(disk', "channel") \subseteq Kinds(disk, "channel")
         /\ Head(disk).by = "channel" => Kinds(disk', "channel") = {}
         /\ \A k \in Kinds(disk, "channel") : k = Head(disk).kind \/ k \in Kinds(disk', "channel")
<1>1. disk \in Seq(Entries(recv.meta))
  BY StorageTypes
<1>2. /\ Types(toSender') \subseteq Types(toSender) \cup Words \cup {"download"}
      /\ "download" \in Types(toSender') => "download" \in Types(toSender)
      /\ recv.link = "closed" => toSender' = toSender
  BY DEF ToldWords, Words
<1>3. /\ Handling(recv') => Handling(recv)
      /\ recv'.verify # NoVerification => recv'.finish \notin {"stop", "restart"}
  BY DEF Handling, SessionInv, QueueInv
<1>4. /\ SessionInv' /\ (RepairUnderWay' => RepairUnderWay)
      /\ Kinds(disk', "channel") = Kinds(Tail(disk), "channel")
  BY <1>1, <1>2, <1>3, SessionMoves
<1>5. /\ Kinds(Tail(disk), "channel") \subseteq Kinds(disk, "channel")
      /\ Head(disk).by = "channel" => Kinds(Tail(disk), "channel") = {}
  BY <1>1, KindsLeft, QueueHead DEF SessionInv
<1>6. \A k \in Kinds(disk, "channel") : k = Head(disk).kind \/ k \in Kinds(Tail(disk), "channel")
  BY <1>1, KindsKept
<1>7. QED
  BY <1>4, <1>5, <1>6

\* Where the store is as it was, so is the verification.
LEMMA StoreUntouched ==
  ASSUME TransferInv, SessionInv, disk # << >>, peer' = peer, toReceiver' = toReceiver, ToldWords,
         NEW es, OneInBackground(es), disk' = Tail(disk) \o es,
         recv'.verify = recv.verify, recv'.link = recv.link, recv'.finish \in {recv.finish, "none"},
         UNCHANGED <<stored, check, files>>, Head(disk).kind # "fail"
  PROVE  SessionInv' /\ (VerifiedInv => VerifiedInv')
<1>1. /\ SessionInv' /\ (RepairUnderWay' => RepairUnderWay)
      /\ Kinds(disk', "channel") \subseteq Kinds(disk, "channel")
      /\ \A k \in Kinds(disk, "channel") : k = Head(disk).kind \/ k \in Kinds(disk', "channel")
  BY StorageMoves
<1>2. QED
  BY <1>1, VerifiedKept

\* An empty store has nothing to be verified, and nothing to be repaired.
LEMMA StoreCleared ==
  ASSUME TransferInv, SessionInv, disk # << >>, peer' = peer, toReceiver' = toReceiver, ToldWords,
         NEW es, OneInBackground(es), disk' = Tail(disk) \o es,
         recv'.verify = recv.verify, recv'.link = recv.link, recv'.finish \in {recv.finish, "none"},
         stored' = << >>, check' = NoCheck, files' = files
  PROVE  SessionInv' /\ (VerifiedInv => VerifiedInv')
<1>1. SessionInv'
  BY StorageMoves
<1>2. check'.manifest = None
  BY DEF NoCheck
<1>3. VerifiedInv => VerifiedInv'
  BY <1>2 DEF VerifiedInv, ManifestHasData, VerifySound, RepairSound, FileSound, FilesSound
<1>4. QED
  BY <1>1, <1>3

\* The rest of the queue is all that is left of it.
LEMMA RestOf ==
  ASSUME TransferInv, disk # << >>, Rest
  PROVE  disk' = Tail(disk) \o << >> /\ OneInBackground(<< >>)
<1>1. Tail(disk) \in Seq(Entries(recv.meta))
  BY StorageTypes, HeadType
<1>2. QED
  BY <1>1, ConcatEmptySeq, InBackground DEF Rest

\* A chunk that is stored leaves those before it in place; while a file is verified or
\* handed over there is none that waits.
LEMMA AppendSession ==
  ASSUME TransferInv, SessionInv, AppendChunk
  PROVE  SessionInv' /\ (VerifiedInv => VerifiedInv')
<1> DEFINE flow == recv.flow + 1
<1>1. /\ disk # << >> /\ Head(disk).kind = "append" /\ recv.meta # None /\ Rest
      /\ stored' = Append(stored, Head(disk).chunk)
      /\ UNCHANGED <<peer, toReceiver, check, files>>
  BY DEF AppendChunk, Starts, StorageOnly, senderVars
<1>2. /\ recv \in RecvType /\ disk \in Seq(Entries(recv.meta)) /\ toSender \in Seq(ToSender)
      /\ stored \in Seq(Chunk) /\ Head(disk).chunk \in Chunk
  BY StorageTypes, HeadChunk DEF AppendChunk
<1>3. SameWaits(recv, recv')
  <2>1. \A n : /\ SameWaits(recv, [recv EXCEPT !.flow = n, !.acked = n])
               /\ SameWaits(recv, [recv EXCEPT !.flow = n])
    BY <1>2 DEF RecvType, SameWaits
  <2>2. \/ recv' = recv
        \/ recv' = [recv EXCEPT !.flow = flow, !.acked = flow]
        \/ recv' = [recv EXCEPT !.flow = flow]
    BY DEF AppendChunk
  <2> HIDE DEF flow
  <2>3. recv' = recv \/ SameWaits(recv, recv')
    BY <2>1, <2>2
  <2>4. QED
    BY <2>3 DEF SameWaits
<1>4. ToldWords
  <2>1. Msg("progress", recv.meta, flow).type = "progress"
    BY DEF Msg
  <2>2. Silent \/ Tell(<<Msg("progress", recv.meta, flow)>>)
    BY DEF AppendChunk
  <2>3. QED
    BY <1>2, <2>1, <2>2, Telling DEF Words
<1>5. /\ SessionInv' /\ (RepairUnderWay' => RepairUnderWay)
      /\ Kinds(disk', "channel") \subseteq Kinds(disk, "channel")
      /\ Head(disk).by = "channel" => Kinds(disk', "channel") = {}
      /\ \A k \in Kinds(disk, "channel") : k = Head(disk).kind \/ k \in Kinds(disk', "channel")
  <2>1. disk' = Tail(disk) \o << >> /\ OneInBackground(<< >>)
    BY <1>1, RestOf
  <2>2. QED
    BY <1>1, <1>3, <1>4, <2>1, StorageMoves DEF SameWaits
<1>6. Head(disk).by = "channel" \/ ~Transferring
  <2>1. /\ Head(disk).by = "nobody" => Head(disk).kind \in Background
        /\ Head(disk).by \in Waiter
    BY <1>1, <1>2, QueueHead DEF SessionInv
  <2>2. Head(disk).by = "gone" => Kinds(disk, "gone") # {}
    BY <1>1, <1>2, KindsLeft
  <2>3. QED
    BY <1>1, <2>1, <2>2 DEF Background, Waiter, SessionInv, FreshInv
<1>7. recv.verify = NoVerification
  <2>1. Head(disk).by = "channel" => recv.verify = NoVerification
    <3>1. Head(disk).by = "channel" => Kinds(disk, "channel") # {}
      BY <1>1, <1>2, KindsLeft
    <3>2. QED
      BY <1>2, <3>1, QueueWaits DEF SessionInv, Handling
  <2>2. QED
    BY <1>6, <2>1 DEF Transferring
<1>8. "file" \notin Kinds(disk', "channel")
  BY <1>5, <1>6 DEF Transferring
<1>9. stored' # << >> /\ \A i : Good(i) => Good(i)'
  <2>1. /\ stored' # << >>
        /\ \A i \in DOMAIN stored : i \in DOMAIN stored' /\ stored'[i] = stored[i]
    BY <1>1, <1>2
  <2>2. QED
    BY <2>1 DEF Good
<1>10. ASSUME VerifiedInv PROVE VerifiedInv'
  <2>1. ManifestHasData' /\ VerifySound' /\ FileSound' /\ FilesSound'
    BY <1>1, <1>3, <1>7, <1>8, <1>9, <1>10
    DEF VerifiedInv, ManifestHasData, VerifySound, FileSound, FilesSound, SameWaits
  <2>2. RepairSound'
    <3>1. "fail" \in Kinds(disk, "channel") => "fail" \in Kinds(disk', "channel")
      BY <1>1, <1>5
    <3>2. QED
      BY <1>1, <1>5, <1>7, <1>9, <1>10, <3>1 DEF VerifiedInv, RepairSound, SoundBut
  <2>3. QED
    BY <2>1, <2>2 DEF VerifiedInv
<1>11. QED
  BY <1>5, <1>10

\* A store that fails stops the transfer.
LEMMA StorageFailsSession ==
  ASSUME TransferInv, SessionInv, StorageFails
  PROVE  SessionInv' /\ (VerifiedInv => VerifiedInv')
<1> DEFINE c == Cleaning(recv)
<1>1. /\ disk # << >> /\ Head(disk).kind # "fail"
      /\ UNCHANGED <<peer, toReceiver, stored, check, files>>
  BY DEF StorageFails, Starts, StorageOnly, senderVars, store
<1>2. Ready(recv) /\ toSender \in Seq(ToSender)
  BY StorageTypes
<1>3. c \in RecvType /\ SameWaits(recv, c)
  BY <1>2, ReadyKept, WaitsKept DEF Ready
<1>4. ToldWords
  <2>1. Msg("stop", None, 0).type = "stop"
    BY DEF Msg
  <2>2. Silent \/ Tell(<<Msg("stop", None, 0)>>)
    BY DEF StorageFails
  <2>3. QED
    BY <1>2, <2>1, <2>2, Telling DEF Words
<1>5. \/ /\ recv' = [c EXCEPT !.state = "stopping", !.restart = FALSE,
                       !.memory = TRUE, !.requested = FALSE, !.shown = FALSE]
         /\ disk' = Tail(disk) \o CleanupEntry(recv)
      \/ recv' = recv /\ Rest
  BY DEF StorageFails
<1> HIDE DEF c
<1>6. SameWaits(recv, recv')
  <2>1. SameWaits(c, [c EXCEPT !.state = "stopping", !.restart = FALSE,
                        !.memory = TRUE, !.requested = FALSE, !.shown = FALSE])
    BY <1>3 DEF RecvType, SameWaits
  <2>2. QED
    BY <1>3, <1>5, <2>1 DEF SameWaits
<1>7. PICK es : OneInBackground(es) /\ disk' = Tail(disk) \o es
  BY <1>1, <1>5, InBackground, RestOf
<1>8. QED
  BY <1>1, <1>4, <1>6, <1>7, StoreUntouched DEF SameWaits

LEMMA PrepareSession ==
  ASSUME TransferInv, SessionInv, Prepare
  PROVE  SessionInv' /\ (VerifiedInv => VerifiedInv')
<1> DEFINE u == Unpaused(recv)
           r == [u EXCEPT !.shown = TRUE, !.flow = 0, !.acked = 0, !.failed = FALSE]
           m == Msg("download", recv.meta, Len(stored))
<1>1. /\ disk # << >> /\ Head(disk).kind \in {"prepare", "request"} /\ Rest
      /\ UNCHANGED <<peer, toReceiver, stored, files>>
  BY DEF Prepare, Preparation, Starts, StorageOnly, senderVars, store
<1>2. Ready(recv) /\ disk \in Seq(Entries(recv.meta)) /\ toSender \in Seq(ToSender)
  BY StorageTypes
<1>3. disk' = Tail(disk) \o << >> /\ OneInBackground(<< >>)
  BY <1>1, RestOf
<1>4. u \in RecvType /\ SameWaits(recv, u)
  BY <1>2, ReadyKept, WaitsKept DEF Ready
<1>5. \/ recv' = r /\ Head(disk).by # "gone" /\ Tell(<<Progress(recv), m>>)
      \/ recv' = recv /\ Silent
  BY DEF Prepare, Current
<1> HIDE DEF u
<1>6. SameWaits(u, r)
  BY <1>4 DEF RecvType, SameWaits
<1> HIDE DEF r
<1>7. SameWaits(recv, recv')
  BY <1>4, <1>5, <1>6 DEF SameWaits
<1>8. m.type = "download" /\ Progress(recv).type = "progress"
  BY DEF Msg, Progress
<1> HIDE DEF m
<1>9. /\ Types(toSender') \subseteq Types(toSender) \cup Words \cup {"download"}
      /\ "download" \in Types(toSender') => "download" \in Types(toSender) \/ Head(disk).by # "gone"
      /\ recv.link = "closed" => toSender' = toSender
  <2>1. Types(toSender \o <<Progress(recv), m>>) = Types(toSender) \cup {"progress", "download"}
    BY <1>2, <1>8, TypesOf
  <2>2. \/ toSender' = toSender
        \/ /\ toSender' = toSender \o <<Progress(recv), m>>
           /\ Head(disk).by # "gone" /\ recv.link # "closed"
    BY <1>5 DEF Tell, Silent
  <2>3. QED
    BY <2>1, <2>2 DEF Words
<1>10. /\ SessionInv' /\ (RepairUnderWay' => RepairUnderWay)
       /\ Kinds(disk', "channel") = Kinds(Tail(disk), "channel")
  <2>1. /\ Handling(recv') => Handling(recv)
        /\ recv'.verify # NoVerification => recv'.finish \notin {"stop", "restart"}
    BY <1>7 DEF Handling, SameWaits, SessionInv, QueueInv
  <2>2. recv'.verify = recv.verify /\ recv'.link = recv.link
    BY <1>7 DEF SameWaits
  <2>3. QED
    BY <1>1, <1>2, <1>3, <1>9, <2>1, <2>2, SessionMoves
<1>11. CASE stored = << >>
  <2>1. check' = NoCheck /\ check'.manifest = None
    BY <1>11 DEF Prepare, NoCheck
  <2>2. QED
    BY <1>1, <1>10, <1>11, <2>1
    DEF VerifiedInv, ManifestHasData, VerifySound, RepairSound, FileSound, FilesSound
<1>12. CASE stored # << >>
  <2>1. check' = check
    BY <1>12 DEF Prepare
  <2>2. Kinds(Tail(disk), "channel") \subseteq Kinds(disk, "channel")
    BY <1>1, <1>2, KindsLeft
  <2>3. "fail" \in Kinds(disk, "channel") => "fail" \in Kinds(Tail(disk), "channel")
    BY <1>1, <1>2, KindsKept
  <2>4. recv'.verify = recv.verify
    BY <1>7 DEF SameWaits
  <2>5. QED
    BY <1>1, <1>10, <2>1, <2>2, <2>3, <2>4, VerifiedKept
<1>13. QED
  BY <1>11, <1>12

\* A store that cannot be made has nothing to be verified.
LEMMA PrepareFailsSession ==
  ASSUME TransferInv, SessionInv, PrepareFails
  PROVE  SessionInv' /\ (VerifiedInv => VerifiedInv')
<1>1. /\ disk # << >> /\ Rest /\ Silent /\ stored' = << >> /\ check' = NoCheck
      /\ UNCHANGED <<peer, toReceiver, files>>
  BY DEF PrepareFails, Starts, StorageOnly, senderVars, store
<1>2. SameWaits(recv, recv')
  BY StorageTypes DEF PrepareFails, RecvType, SameWaits
<1>3. disk' = Tail(disk) \o << >> /\ OneInBackground(<< >>)
  BY <1>1, RestOf
<1>4. ToldWords
  BY <1>1, StorageTypes, Telling
<1>5. QED
  BY <1>1, <1>2, <1>3, <1>4, StoreCleared DEF SameWaits

LEMMA CleanupSession ==
  ASSUME TransferInv, SessionInv, Cleanup
  PROVE  SessionInv' /\ (VerifiedInv => VerifiedInv')
<1> DEFINE r == AfterStop(recv)
           d == [recv EXCEPT !.cleanup = "done"]
<1>1. /\ disk # << >> /\ UNCHANGED <<peer, toReceiver, files>>
      /\ stored' = << >> /\ check' = NoCheck /\ Silent
  BY DEF Cleanup, Starts, StorageOnly, senderVars, Emptied
<1>2. Ready(recv) /\ toSender \in Seq(ToSender)
  BY StorageTypes
<1>3. Ready(r) /\ r.verify = recv.verify /\ r.link = recv.link /\ r.finish = "none"
  BY <1>2, AfterStopType, AfterStopWaits
<1>4. SameWaits(recv, d)
  BY <1>2 DEF Ready, RecvType, SameWaits
<1>5. /\ recv' = d \/ recv' = Requesting(r) \/ recv' = r
      /\ disk' = Tail(disk) \o Asking(r) \/ disk' = Tail(disk) \o << >>
  BY DEF Cleanup, CleanupDone
<1> HIDE DEF r, d
<1>6. SameWaits(r, Requesting(r))
  BY <1>3, WaitsKept
<1>7. recv'.verify = recv.verify /\ recv'.link = recv.link /\ recv'.finish \in {recv.finish, "none"}
  BY <1>3, <1>4, <1>5, <1>6 DEF SameWaits
<1>8. \E es : OneInBackground(es) /\ disk' = Tail(disk) \o es
  BY <1>5, InBackground
<1>9. ToldWords
  BY <1>1, <1>2, Telling
<1>10. QED
  BY <1>1, <1>7, <1>8, <1>9, StoreCleared

LEMMA AdoptSession ==
  ASSUME TransferInv, SessionInv, Adopt
  PROVE  SessionInv' /\ (VerifiedInv => VerifiedInv')
<1> DEFINE a == Adopted(recv, Head(disk).chunk[1])
           r == Downloading(a)
<1>1. /\ disk # << >> /\ Starts("adopt") /\ UNCHANGED <<peer, toReceiver, files>>
      /\ stored' = << >> /\ check' = NoCheck /\ Silent
  BY DEF Adopt, Starts, StorageOnly, senderVars, Emptied
<1>2. Ready(recv) /\ toSender \in Seq(ToSender) /\ Head(disk).chunk[1] \in Versions
  BY <1>1, StorageTypes, HeadChunk
<1>3. recv' = Requesting(r) /\ disk' = Tail(disk) \o Asking(r)
  BY DEF Adopt
<1>4. Ready(a) /\ SameWaits(recv, a)
  BY <1>2, AdoptedType, WaitsKept
<1> HIDE DEF a
<1>5. Ready(r) /\ SameWaits(a, r)
  BY <1>4, ReadyKept, WaitsKept
<1> HIDE DEF r
<1>6. SameWaits(r, Requesting(r))
  BY <1>5, WaitsKept
<1>7. recv'.verify = recv.verify /\ recv'.link = recv.link /\ recv'.finish = recv.finish
  BY <1>3, <1>4, <1>5, <1>6 DEF SameWaits
<1>8. ToldWords
  BY <1>1, <1>2, Telling
<1>9. QED
  BY <1>1, <1>3, <1>7, <1>8, InBackground, StoreCleared

LEMMA CheckpointSession ==
  ASSUME TransferInv, SessionInv, ForcedCheckpoint
  PROVE  SessionInv' /\ (VerifiedInv => VerifiedInv')
<1>1. /\ disk # << >> /\ Head(disk).kind = "checkpoint" /\ Rest /\ Silent
      /\ UNCHANGED <<peer, toReceiver, stored, recv, check, files>>
  BY DEF ForcedCheckpoint, Starts, StorageOnly, senderVars
<1>2. disk' = Tail(disk) \o << >> /\ OneInBackground(<< >>)
  BY <1>1, RestOf
<1>3. ToldWords
  BY <1>1, StorageTypes, Telling
<1>4. QED
  BY <1>1, <1>2, <1>3, StoreUntouched

LEMMA DiscardSession ==
  ASSUME TransferInv, SessionInv, Discard
  PROVE  SessionInv' /\ (VerifiedInv => VerifiedInv')
<1> DEFINE u == Unpaused(recv)
<1>1. /\ disk # << >> /\ UNCHANGED <<peer, toReceiver, files>> /\ Rest
      /\ stored' = << >> /\ check' = NoCheck /\ Silent
  BY DEF Discard, Starts, StorageOnly, senderVars, Emptied
<1>2. Ready(recv) /\ toSender \in Seq(ToSender)
  BY StorageTypes
<1>3. u \in RecvType /\ SameWaits(recv, u)
  BY <1>2, ReadyKept, WaitsKept DEF Ready
<1>4. recv' = recv \/ recv' = [u EXCEPT !.shown = FALSE]
  BY DEF Discard
<1> HIDE DEF u
<1>5. SameWaits(u, [u EXCEPT !.shown = FALSE])
  BY <1>3 DEF RecvType, SameWaits
<1>6. recv'.verify = recv.verify /\ recv'.link = recv.link /\ recv'.finish = recv.finish
  BY <1>3, <1>4, <1>5 DEF SameWaits
<1>7. disk' = Tail(disk) \o << >> /\ OneInBackground(<< >>)
  BY <1>1, RestOf
<1>8. ToldWords
  BY <1>1, <1>2, Telling
<1>9. QED
  BY <1>1, <1>6, <1>7, <1>8, StoreCleared

\* A file is handed over as it is stored.
LEMMA CompleteSession ==
  ASSUME TransferInv, SessionInv, Complete
  PROVE  SessionInv' /\ (OneVersion /\ VerifiedInv => VerifiedInv')
<1> DEFINE idle == [recv EXCEPT !.state = "idle", !.requested = FALSE]
           done == [recv EXCEPT !.state = "complete", !.requested = FALSE, !.shown = FALSE]
           e == Entry("fail", NoChunk, "channel")
<1>1. /\ disk # << >> /\ Head(disk).kind = "file"
      /\ UNCHANGED <<peer, toReceiver, stored>>
  BY DEF Complete, Starts, StorageOnly, senderVars
<1>2. /\ recv \in RecvType /\ disk \in Seq(Entries(recv.meta)) /\ toSender \in Seq(ToSender)
      /\ stored \in Seq(Chunk) /\ check \in CheckType
  BY StorageTypes
<1>3. SameWaits(recv, idle) /\ SameWaits(recv, done)
  BY <1>2 DEF RecvType, SameWaits
<1>4. /\ Head(disk).by = "channel" => Kinds(Tail(disk), "channel") = {}
      /\ Head(disk).by # "gone" => Head(disk).by = "channel"
      /\ Head(disk).by = "channel" => "file" \in Kinds(disk, "channel") /\ ~Handling(recv)
  <2>1. /\ Head(disk).by = "channel" => Kinds(Tail(disk), "channel") = {}
        /\ Head(disk).by # "gone" => Head(disk).by = "channel"
    BY <1>1, <1>2, QueueHead DEF SessionInv, Background, Waiter
  <2>2. Head(disk).by = "channel" => "file" \in Kinds(disk, "channel")
    BY <1>1, <1>2, KindsLeft
  <2>3. Head(disk).by = "channel" => ~Handling(recv)
    BY <1>2, <2>2, QueueWaits DEF SessionInv
  <2>4. QED
    BY <2>1, <2>2, <2>3
<1>5. \/ Rest /\ Silent /\ UNCHANGED <<recv, check, files>>
      \/ /\ Head(disk).by # "gone" /\ recv' = idle /\ disk' = Tail(disk) \o <<e>>
         /\ Silent /\ UNCHANGED <<check, files>>
      \/ /\ Head(disk).by # "gone" /\ stored # << >> /\ Len(stored) = Sizes[recv.meta]
         /\ recv' = done /\ check' = [check EXCEPT !.retries = 0]
         /\ files' = files \cup {[version |-> recv.meta, chunks |-> stored]}
         /\ Tell(<<Msg("received", recv.meta, 0)>>) /\ Rest
  BY DEF Complete, Current
<1>6. Starts("file")
  BY DEF Complete
<1> HIDE DEF idle, done
<1>7. CASE Rest /\ Silent /\ UNCHANGED <<recv, check, files>>
  <2>1. disk' = Tail(disk) \o << >> /\ OneInBackground(<< >>)
    BY <1>1, <1>7, RestOf
  <2>2. ToldWords
    BY <1>2, <1>7, Telling
  <2>3. QED
    BY <1>1, <1>7, <2>1, <2>2, StoreUntouched
<1>8. CASE /\ Head(disk).by # "gone" /\ recv' = idle /\ disk' = Tail(disk) \o <<e>>
           /\ Silent /\ UNCHANGED <<check, files>>
  <2>1. e.by = "channel" /\ e.kind = "fail"
    BY DEF Entry
  <2>2. ~OneInBackground(<<e>>)
    <3>1. <<e>> # << >> /\ \A f : <<e>> = <<f>> => f = e
      OBVIOUS
    <3>2. QED
      BY <2>1, <3>1 DEF OneInBackground
  <2>3. recv'.verify = recv.verify /\ recv'.link = recv.link /\ ~Handling(recv')
    BY <1>3, <1>4, <1>8 DEF SameWaits, Handling
  <2>4. /\ Types(toSender') = Types(toSender) /\ toSender' = toSender
    BY <1>8 DEF Silent
  <2>5. SessionInv' /\ (RepairUnderWay' => RepairUnderWay) /\ Kinds(disk', "channel") = {"fail"}
    <3>1. recv'.verify = NoVerification
      BY <2>3 DEF Handling
    <3>2. QED
      BY <1>1, <1>2, <1>4, <1>8, <2>2, <2>3, <2>4, <3>1, SessionMoves
  <2>6. QED
    BY <1>1, <1>8, <2>3, <2>5, VerifiedKept
<1>9. CASE /\ Head(disk).by # "gone" /\ stored # << >> /\ Len(stored) = Sizes[recv.meta]
           /\ recv' = done /\ check' = [check EXCEPT !.retries = 0]
           /\ files' = files \cup {[version |-> recv.meta, chunks |-> stored]}
           /\ Tell(<<Msg("received", recv.meta, 0)>>) /\ Rest
  <2>1. ToldWords
    <3>1. Msg("received", recv.meta, 0).type = "received"
      BY DEF Msg
    <3>2. QED
      BY <1>2, <1>9, <3>1, Telling DEF Words
  <2>2. recv'.verify = NoVerification /\ recv'.verify = recv.verify
        /\ recv'.link = recv.link /\ recv'.finish = recv.finish
    BY <1>3, <1>4, <1>9 DEF SameWaits, Handling
  <2>3. SessionInv' /\ (RepairUnderWay' => RepairUnderWay) /\ Kinds(disk', "channel") = {}
    <3>1. disk' = Tail(disk) \o << >> /\ OneInBackground(<< >>)
      BY <1>1, <1>9, RestOf
    <3>2. QED
      BY <1>1, <1>4, <1>9, <2>1, <2>2, <3>1, StorageMoves
  <2>4. ASSUME OneVersion, VerifiedInv
        PROVE  VerifiedInv'
    <3>1. check'.manifest = check.manifest /\ check'.repaired = check.repaired
      BY <1>2, <1>9 DEF CheckType
    <3>2. ManifestHasData' /\ VerifySound' /\ FileSound'
      BY <1>1, <1>9, <2>2, <2>3, <2>4, <3>1
      DEF VerifiedInv, ManifestHasData, VerifySound, FileSound
    <3>3. RepairSound'
      <4>1. "fail" \notin Kinds(disk, "channel")
        BY <1>1, <1>2, <1>4, <1>9, KindsKept
      <4>2. QED
        BY <1>1, <2>2, <2>3, <2>4, <3>1, <4>1 DEF VerifiedInv, RepairSound, SoundBut, Good
    <3>4. FilesSound'
      <4>1. ASSUME recv.meta \in Verified
            PROVE  Len(stored) = Sizes[1] /\ \A i \in DOMAIN stored : stored[i] = <<1, i>>
        <5>1. recv.meta = 1
          BY <2>4, <4>1, OnlyVersion, TransferAssumption
        <5>2. DOMAIN stored = 1..Len(stored) /\ Len(stored) = Sizes[1]
          BY <1>2, <1>9, <5>1
        <5>3. \A i \in 1..Sizes[1] : Good(i)
          BY <1>4, <1>9, <2>4, <4>1, <5>1 DEF VerifiedInv, FileSound, SoundBut
        <5>4. QED
          BY <5>2, <5>3 DEF Good
      <4>2. recv.meta \in Versions
        BY <1>2, <1>6, HeadChunk, ReceiverTypes DEF TransferInv
      <4>3. QED
        BY <1>9, <2>4, <4>1, <4>2 DEF VerifiedInv, FilesSound
    <3>5. QED
      BY <3>2, <3>3, <3>4 DEF VerifiedInv
  <2>5. QED
    BY <2>3, <2>4
<1>10. QED
  BY <1>5, <1>7, <1>8, <1>9

\* A repaired block is one of the file, and what has been repaired is verified again.
LEMMA ReplaceSession ==
  ASSUME TransferInv, SessionInv, Replace
  PROVE  SessionInv' /\ (OneVersion /\ InPlace(disk) /\ VerifiedInv => VerifiedInv')
<1> DEFINE i == Head(disk).chunk[2]
           left == check.missing \ {i}
           shown == [recv EXCEPT !.shown = TRUE]
           again == [recv EXCEPT !.shown = TRUE, !.state = "verifying",
                       !.verify = [of |-> check.manifest, blocks |-> check.repaired]]
<1>1. /\ disk # << >> /\ Head(disk).kind = "replace" /\ Starts("replace") /\ Rest
      /\ UNCHANGED <<peer, toReceiver, files>>
  BY DEF Replace, Starts, StorageOnly, senderVars
<1>2. /\ recv \in RecvType /\ disk \in Seq(Entries(recv.meta)) /\ toSender \in Seq(ToSender)
      /\ stored \in Seq(Chunk) /\ check \in CheckType
      /\ Head(disk).chunk[1] \in Chunk
  BY <1>1, StorageTypes, HeadChunk
<1>3. disk' = Tail(disk) \o << >> /\ OneInBackground(<< >>)
  BY <1>1, RestOf
<1>4. ToldWords
  <2>1. Progress(recv).type = "progress"
    BY DEF Progress, Msg
  <2>2. Silent \/ Tell(<<Progress(recv)>>)
    BY DEF Replace
  <2>3. QED
    BY <1>2, <2>1, <2>2, Telling DEF Words
<1>5. SameWaits(recv, shown)
  BY <1>2 DEF RecvType, SameWaits
<1>6. /\ again.verify = [of |-> check.manifest, blocks |-> check.repaired]
      /\ again.finish = recv.finish /\ again.link = recv.link
  BY <1>2 DEF RecvType
<1>7. \/ stored = << >> /\ UNCHANGED <<stored, check, recv>>
      \/ /\ stored' = [stored EXCEPT ![i] = Head(disk).chunk[1]]
         /\ \/ UNCHANGED <<check, recv>>
            \/ /\ Head(disk).by # "gone"
               /\ check' = [check EXCEPT !.missing = left,
                                         !.repaired = IF left = {} THEN {} ELSE @]
               /\ \/ (left # {} \/ check.manifest = None) /\ recv' = shown
                  \/ left = {} /\ check.manifest # None /\ recv' = again
         /\ stored # << >>
  BY DEF Replace, Current
<1>8. Head(disk).by # "gone" => /\ Head(disk).by = "channel" /\ ~Handling(recv)
                                /\ Kinds(disk, "channel") = {"replace"}
  <2>1. /\ Head(disk).by # "gone" => Head(disk).by = "channel"
        /\ Head(disk).by = "channel" => Kinds(Tail(disk), "channel") = {}
    BY <1>1, <1>2, QueueHead DEF SessionInv, Background, Waiter
  <2>2. Head(disk).by = "channel" => Kinds(disk, "channel") = {"replace"}
    <3>1. /\ Head(disk).by = "channel" => "replace" \in Kinds(disk, "channel")
          /\ \A k \in Kinds(disk, "channel") : k \in Kinds(Tail(disk), "channel") \/ k = "replace"
      BY <1>1, <1>2, KindsLeft, KindsKept
    <3>2. QED
      BY <2>1, <3>1
  <2>3. Head(disk).by = "channel" => ~Handling(recv)
    BY <1>2, <2>2, QueueWaits DEF SessionInv
  <2>4. QED
    BY <2>1, <2>2, <2>3
<1> HIDE DEF shown, again
<1>9. ASSUME OneVersion, InPlace(disk), stored # << >>, stored' = [stored EXCEPT ![i] = Head(disk).chunk[1]]
      PROVE  stored' # << >> /\ \A k : Good(k) => Good(k)'
  <2>1. Head(disk).chunk[1] = <<1, i>>
    <3>1. Head(disk).chunk[1][2] = i
      BY <1>1, <1>2, <1>9, TailElements DEF InPlace
    <3>2. QED
      BY <1>2, <1>9, <3>1, OnlyVersion
  <2>2. DOMAIN stored' = DOMAIN stored /\ stored' # << >>
    BY <1>2, <1>9
  <2>3. \A k \in DOMAIN stored : stored'[k] = IF k = i THEN <<1, i>> ELSE stored[k]
    BY <1>9, <2>1
  <2>4. QED
    BY <2>2, <2>3 DEF Good
<1>10. CASE UNCHANGED <<check, recv>>
  <2>1. /\ SessionInv' /\ (RepairUnderWay' => RepairUnderWay)
        /\ Kinds(disk', "channel") \subseteq Kinds(disk, "channel")
        /\ \A k \in Kinds(disk, "channel") : k = Head(disk).kind \/ k \in Kinds(disk', "channel")
    BY <1>1, <1>3, <1>4, <1>10, StorageMoves
  <2>2. ASSUME OneVersion, InPlace(disk), VerifiedInv
        PROVE  VerifiedInv'
    <3>1. CASE stored' = stored
      BY <1>1, <1>10, <2>1, <2>2, <3>1, VerifiedKept
    <3>2. CASE stored # << >> /\ stored' = [stored EXCEPT ![i] = Head(disk).chunk[1]]
      <4>1. stored' # << >> /\ \A k : Good(k) => Good(k)'
        BY <1>9, <2>2, <3>2
      <4>2. ManifestHasData' /\ VerifySound'
        BY <1>10, <2>2, <3>2, <4>1 DEF VerifiedInv, ManifestHasData, VerifySound, SoundBut
      <4>3. RepairSound'
        <5>1. "fail" \in Kinds(disk, "channel") => "fail" \in Kinds(disk', "channel")
          BY <1>1, <2>1
        <5>2. QED
          BY <1>10, <2>1, <2>2, <4>1, <5>1 DEF VerifiedInv, RepairSound, SoundBut
      <4>4. FileSound'
        BY <2>1, <2>2, <3>2, <4>1 DEF VerifiedInv, FileSound, SoundBut
      <4>5. FilesSound'
        BY <1>1, <2>2 DEF VerifiedInv, FilesSound
      <4>6. QED
        BY <4>2, <4>3, <4>4, <4>5 DEF VerifiedInv
    <3>3. QED
      BY <1>7, <1>10, <3>1, <3>2
  <2>3. QED
    BY <2>1, <2>2
<1>11. CASE /\ stored # << >> /\ stored' = [stored EXCEPT ![i] = Head(disk).chunk[1]]
            /\ Head(disk).by # "gone"
            /\ check' = [check EXCEPT !.missing = left,
                                      !.repaired = IF left = {} THEN {} ELSE @]
            /\ \/ (left # {} \/ check.manifest = None) /\ recv' = shown
               \/ left = {} /\ check.manifest # None /\ recv' = again
  <2>1. recv.verify = NoVerification /\ recv.finish \notin {"stop", "restart"}
        /\ Head(disk).by = "channel"
    BY <1>8, <1>11 DEF Handling
  <2>2. recv'.finish = recv.finish /\ recv'.link = recv.link
    BY <1>5, <1>6, <1>11 DEF SameWaits
  <2>3. /\ Types(toSender') \subseteq Types(toSender) \cup Words \cup {"download"}
        /\ "download" \in Types(toSender') => "download" \in Types(toSender)
        /\ recv.link = "closed" => toSender' = toSender
    BY <1>4 DEF ToldWords, Words
  <2>4. /\ SessionInv' /\ (RepairUnderWay' => RepairUnderWay)
        /\ Kinds(disk', "channel") = {}
    <3>1. /\ SessionInv' /\ (RepairUnderWay' => RepairUnderWay)
          /\ Kinds(disk', "channel") = Kinds(Tail(disk), "channel")
      BY <1>1, <1>2, <1>3, <2>1, <2>2, <2>3, SessionMoves
    <3>2. QED
      BY <1>1, <1>2, <2>1, <3>1, QueueHead DEF SessionInv
  <2>5. /\ check'.manifest = check.manifest
        /\ left # {} => check'.repaired = check.repaired
    <3>1. \A m, n : LET c == [check EXCEPT !.missing = m, !.repaired = n]
                    IN c.manifest = check.manifest /\ c.repaired = n
      BY <1>2 DEF CheckType
    <3>2. QED
      BY <1>11, <3>1
  <2>6. ASSUME OneVersion, InPlace(disk), VerifiedInv
        PROVE  VerifiedInv'
    <3>1. stored' # << >> /\ \A k : Good(k) => Good(k)'
      BY <1>9, <1>11, <2>6
    <3>2. check.manifest # None => SoundBut(check.repaired)
      <4>1. RepairUnderWay /\ "fail" \notin Kinds(disk, "channel")
        BY <1>8, <1>11 DEF RepairUnderWay
      <4>2. QED
        BY <2>1, <2>6, <4>1 DEF VerifiedInv, RepairSound
    <3>3. ManifestHasData' /\ FileSound'
      BY <2>4, <3>1 DEF ManifestHasData, FileSound
    <3>4. FilesSound'
      BY <1>1, <2>6 DEF VerifiedInv, FilesSound
    <3>5. CASE (left # {} \/ check.manifest = None) /\ recv' = shown
      <4>1. recv'.verify = NoVerification
        BY <1>5, <2>1, <3>5 DEF SameWaits
      <4>2. VerifySound'
        BY <4>1 DEF VerifySound
      <4>3. RepairSound'
        BY <2>5, <3>1, <3>2, <3>5 DEF RepairSound, SoundBut
      <4>4. QED
        BY <3>3, <3>4, <4>2, <4>3 DEF VerifiedInv
    <3>6. CASE left = {} /\ check.manifest # None /\ recv' = again
      <4>1. recv'.verify # NoVerification /\ recv'.verify.blocks = check.repaired
        BY <1>6, <3>6 DEF NoVerification
      <4>2. VerifySound'
        BY <3>1, <3>2, <3>6, <4>1 DEF VerifySound, SoundBut
      <4>3. RepairSound'
        BY <4>1 DEF RepairSound
      <4>4. QED
        BY <3>3, <3>4, <4>2, <4>3 DEF VerifiedInv
    <3>7. QED
      BY <1>11, <3>5, <3>6
  <2>7. QED
    BY <2>4, <2>6
<1>12. QED
  BY <1>7, <1>10, <1>11

LEMMA StorageSession ==
  ASSUME TransferInv, SessionInv, Storage \/ StorageFails \/ PrepareFails
  PROVE  SessionInv' /\ (OneVersion /\ InPlace(disk) /\ VerifiedInv => VerifiedInv')
BY AppendSession, StorageFailsSession, PrepareSession, PrepareFailsSession, CleanupSession, AdoptSession,
   CheckpointSession, DiscardSession, CompleteSession, ReplaceSession DEF Storage

-----------------------------------------------------------------------------
(* A block is put where it belongs: how PlaceInv is kept.                  *)

\* What has come of a block does not change with what comes after it.
LEMMA CleanPrefix ==
  ASSUME NEW q, NEW s, NEW c, NEW i, NEW k \in Nat, \A j \in 1..(k - 1) : s[j] = q[j], Clean(q, c, i, k)
  PROVE  Clean(s, c, i, k)
<1>1. \A l \in 0..k : Begun(q, i, l + 1, k - 1) => Begun(s, i, l + 1, k - 1)
  BY DEF Begun
<1>2. Begun(q, i, 1, k - 1) => Begun(s, i, 1, k - 1)
  BY DEF Begun
<1>3. ASSUME NEW l \in 1..(k - 1), s[l].type = "chunk" /\ s[l].at # i
      PROVE  Begun(s, i, l + 1, k - 1)
  <2>1. s[l] = q[l] /\ l \in 0..k
    OBVIOUS
  <2>2. Begun(q, i, l + 1, k - 1)
    BY <1>3, <2>1 DEF Clean
  <2>3. QED
    BY <1>1, <2>1, <2>2
<1>4. c.parts # << >> /\ c.block = i /\ c.parts[1][2] # i => Begun(s, i, 1, k - 1)
  BY <1>2 DEF Clean
<1>5. QED
  BY <1>3, <1>4 DEF Clean

\* The receiver forgets the block that it was receiving, or goes on with it.
SameBlock(c, d) == d.parts = << >> \/ (d.parts = c.parts /\ d.block = c.block)

LEMMA OrderKept ==
  ASSUME NEW q \in Seq(ToReceiver), NEW c, NEW d, NEW p, NEW o, BlocksInOrder(q, c, p),
         SameBlock(c, d), \A i : Sending(o, i) => Sending(p, i)
  PROVE  BlocksInOrder(q, d, o)
<1>1. \A i, k : Clean(q, c, i, k) => Clean(q, d, i, k)
  BY DEF Clean, SameBlock
<1>2. QED
  BY <1>1 DEF BlocksInOrder

\* What the sender says, but for the block that it ends, which it has been sending.
LEMMA OrderGrows ==
  ASSUME NEW q \in Seq(ToReceiver), NEW c, NEW p, NEW o, BlocksInOrder(q, c, p),
         NEW m, m.type = "repair-end" => Sending(p, m.at),
         \A i : Sending(o, i) => \/ Sending(p, i) /\ (m.type = "chunk" => m.at = i)
                                 \/ m.type = "repair-start" /\ m.at = i
  PROVE  BlocksInOrder(Append(q, m), c, o)
<1> DEFINE s == Append(q, m)  n == Len(q) + 1
<1>1. /\ Len(q) \in Nat /\ Len(s) = n /\ s[n] = m
      /\ \A j \in 1..Len(q) : s[j] = q[j]
  OBVIOUS
<1> HIDE DEF s
<1>2. \A i : \A k \in Nat : k <= n /\ Clean(q, c, i, k) => Clean(s, c, i, k)
  <2> SUFFICES ASSUME NEW i, NEW k \in Nat, k <= n, Clean(q, c, i, k) PROVE Clean(s, c, i, k)
    OBVIOUS
  <2>1. \A j \in 1..(k - 1) : s[j] = q[j]
    BY <1>1
  <2>2. QED
    BY <2>1, CleanPrefix
<1>3. ASSUME NEW k \in 1..Len(s), s[k].type = "repair-end"
      PROVE  Clean(s, c, s[k].at, k)
  <2>1. CASE k = n
    BY <1>1, <1>2, <1>3, <2>1 DEF BlocksInOrder
  <2>2. CASE k # n
    BY <1>1, <1>2, <1>3, <2>2 DEF BlocksInOrder
  <2>3. QED
    BY <2>1, <2>2
<1>4. ASSUME NEW i, Sending(o, i)
      PROVE  Clean(s, c, i, n + 1)
  <2>1. CASE m.type = "repair-start" /\ m.at = i
    <3>1. \A l \in 0..Len(q) : Begun(s, i, l + 1, n)
      BY <1>1, <2>1 DEF Begun
    <3>2. s[n].type # "chunk" /\ n \in Nat
      BY <1>1, <2>1
    <3>3. QED
      BY <1>1, <3>1, <3>2 DEF Clean
  <2>2. CASE Sending(p, i) /\ (m.type = "chunk" => m.at = i)
    <3>1. Clean(s, c, i, n)
      BY <1>1, <1>2, <2>2 DEF BlocksInOrder
    <3>2. \A l \in Nat : Begun(s, i, l, n - 1) => Begun(s, i, l, n)
      BY <1>1 DEF Begun
    <3>3. s[n].type = "chunk" => s[n].at = i
      BY <1>1, <2>2
    <3>4. QED
      BY <1>1, <3>1, <3>2, <3>3 DEF Clean
  <2>3. QED
    BY <1>4, <2>1, <2>2
<1>5. QED
  BY <1>1, <1>3, <1>4 DEF BlocksInOrder, s

\* What the receiver takes from the channel, and makes of it.
Taken(q, c, d) ==
  \/ d.parts = << >>
  \/ /\ d.parts = c.parts /\ d.block = c.block
     /\ Head(q).type = "repair-start" => c.parts = << >> \/ Head(q).at # c.block
  \/ Head(q).type = "chunk" /\ d.parts[1][2] = Head(q).at

LEMMA OrderTaken ==
  ASSUME NEW q \in Seq(ToReceiver), q # << >>, NEW c, NEW d, NEW p, BlocksInOrder(q, c, p),
         Taken(q, c, d)
  PROVE  BlocksInOrder(Tail(q), d, p)
<1> DEFINE s == Tail(q)
<1>1. /\ Len(q) \in Nat \ {0} /\ Len(s) = Len(q) - 1 /\ Head(q) = q[1]
      /\ \A j \in 1..Len(s) : s[j] = q[j + 1]
  OBVIOUS
<1> HIDE DEF s
<1>2. ASSUME NEW i, NEW k \in 1..(Len(s) + 1), Clean(q, c, i, k + 1)
      PROVE  Clean(s, d, i, k)
  <2>1. \A l \in 1..k : Begun(q, i, l + 1, k) => Begun(s, i, l, k - 1)
    <3> SUFFICES ASSUME NEW l \in 1..k, Begun(q, i, l + 1, k) PROVE Begun(s, i, l, k - 1)
      OBVIOUS
    <3>1. PICK j \in (l + 1)..k : q[j].type = "repair-start" /\ q[j].at = i
      BY DEF Begun
    <3>2. j - 1 \in l..(k - 1) /\ s[j - 1] = q[j]
      BY <1>1, <3>1
    <3>3. QED
      BY <3>1, <3>2 DEF Begun
  <2>2. \A l \in 1..(k - 1) : s[l].type = "chunk" /\ s[l].at # i => Begun(s, i, l + 1, k - 1)
    <3> SUFFICES ASSUME NEW l \in 1..(k - 1), s[l].type = "chunk", s[l].at # i
                 PROVE  Begun(s, i, l + 1, k - 1)
      OBVIOUS
    <3>1. s[l] = q[l + 1] /\ l + 1 \in 1..k
      BY <1>1
    <3>2. Begun(q, i, (l + 1) + 1, k)
      BY <1>2, <3>1 DEF Clean
    <3>3. QED
      BY <2>1, <3>1, <3>2
  <2>3. ASSUME d.parts # << >>, d.block = i, d.parts[1][2] # i
        PROVE  Begun(s, i, 1, k - 1)
    <3>1. CASE Head(q).type = "chunk" /\ d.parts[1][2] = Head(q).at
      <4>1. Begun(q, i, 1 + 1, k)
        BY <1>1, <1>2, <2>3, <3>1 DEF Clean
      <4>2. QED
        BY <2>1, <4>1
    <3>2. CASE /\ d.parts = c.parts /\ d.block = c.block
               /\ Head(q).type = "repair-start" => c.parts = << >> \/ Head(q).at # c.block
      <4>1. Begun(q, i, 1, k)
        BY <1>2, <2>3, <3>2 DEF Clean
      <4>2. ~(q[1].type = "repair-start" /\ q[1].at = i)
        BY <1>1, <2>3, <3>2
      <4>3. Begun(q, i, 1 + 1, k)
        BY <4>1, <4>2 DEF Begun
      <4>4. QED
        BY <2>1, <4>3
    <3>3. QED
      BY <2>3, <3>1, <3>2 DEF Taken
  <2>4. QED
    BY <2>2, <2>3 DEF Clean
<1>3. ASSUME NEW k \in 1..Len(s), s[k].type = "repair-end"
      PROVE  Clean(s, d, s[k].at, k)
  <2>1. s[k] = q[k + 1] /\ k + 1 \in 1..Len(q)
    BY <1>1
  <2>2. QED
    BY <1>1, <1>2, <1>3, <2>1 DEF BlocksInOrder
<1>4. ASSUME NEW i, Sending(p, i)
      PROVE  Clean(s, d, i, Len(s) + 1)
  BY <1>1, <1>2, <1>4 DEF BlocksInOrder
<1>5. QED
  BY <1>3, <1>4 DEF BlocksInOrder, s

\* A channel that has been cut or has lost all.
LEMMA OrderCut ==
  ASSUME NEW q \in Seq(ToReceiver), NEW c, NEW d, NEW p, NEW o, BlocksInOrder(q, c, p),
         NEW n \in 0..Len(q), SameBlock(c, d), \A i : ~Sending(o, i)
  PROVE  BlocksInOrder(SubSeq(q, 1, n), d, o)
<1> DEFINE s == SubSeq(q, 1, n)
<1>1. Len(s) = n /\ \A j \in 1..n : s[j] = q[j]
  OBVIOUS
<1> HIDE DEF s
<1>2. ASSUME NEW k \in 1..n, s[k].type = "repair-end"
      PROVE  Clean(s, d, s[k].at, k)
  <2>1. Clean(q, c, s[k].at, k)
    BY <1>1, <1>2 DEF BlocksInOrder
  <2>2. Clean(s, c, s[k].at, k)
    BY <1>1, <2>1, CleanPrefix
  <2>3. QED
    BY <2>2 DEF Clean, SameBlock
<1>3. QED
  BY <1>1, <1>2 DEF BlocksInOrder, s

LEMMA OrderLost == \A c, o : (\A i : ~Sending(o, i)) => BlocksInOrder(<< >>, c, o)
BY DEF BlocksInOrder

\* What waits for the storage, when nothing or one entry that replaces no block is added.
Adds(es) == es = << >> \/ \E e : es = <<e>> /\ e.kind # "replace"
DiskMoves ==
  \/ disk' \in {disk, << >>}
  \/ disk # << >> /\ disk' = Tail(disk)
  \/ \E es : /\ Adds(es)
             /\ \/ disk' = disk \o es
                \/ disk' = Gone \o es
                \/ disk # << >> /\ disk' = Tail(disk) \o es

LEMMA AddsOne ==
  /\ \A r, by : Adds(Preparing(r, by)) /\ Adds(Asking(r)) /\ Adds(CleanupEntry(r)) /\ Adds(Checkpointing(r))
  /\ \A kind, chunk, by : kind # "replace" => Adds(<<Entry(kind, chunk, by)>>)
  /\ Adds(<< >>)
<1>1. \A kind, chunk, by : kind # "replace" => Adds(<<Entry(kind, chunk, by)>>)
  <2>1. \A kind, chunk, by : Entry(kind, chunk, by).kind = kind
    BY DEF Entry
  <2>2. QED
    BY <2>1, Zenon DEF Adds
<1>2. Adds(<< >>)
  BY DEF Adds
<1>3. QED
  BY <1>1, <1>2 DEF Preparing, Asking, CleanupEntry, Checkpointing

LEMMA InPlaceGrown ==
  ASSUME NEW meta, NEW d \in Seq(Entries(meta)), InPlace(d), NEW es,
         es = << >> \/ \E e : es = <<e>> /\ (e.kind = "replace" => e.chunk[1][2] = e.chunk[2])
  PROVE  InPlace(d \o es)
<1>1. CASE es = << >>
  <2>1. d \o es = d
    BY <1>1, ConcatEmptySeq
  <2>2. QED
    BY <2>1
<1>2. ASSUME NEW e, es = <<e>>, e.kind = "replace" => e.chunk[1][2] = e.chunk[2]
      PROVE  InPlace(d \o es)
  <2>1. \A i \in DOMAIN (d \o <<e>>) : \/ i \in DOMAIN d /\ (d \o <<e>>)[i] = d[i]
                                       \/ (d \o <<e>>)[i] = e
    OBVIOUS
  <2>2. QED
    BY <1>2, <2>1 DEF InPlace
<1>3. QED
  BY <1>1, <1>2

LEMMA InPlaceMoves ==
  ASSUME TransferInv, InPlace(disk), DiskMoves
  PROVE  InPlace(disk')
<1>1. disk \in Seq(Entries(recv.meta))
  BY StorageTypes
<1>2. disk # << >> => Tail(disk) \in Seq(Entries(recv.meta)) /\ InPlace(Tail(disk))
  BY <1>1, TailElements DEF InPlace
<1>3. Gone \in Seq(Entries(recv.meta)) /\ InPlace(Gone)
  <2>1. \A i \in DOMAIN disk : /\ [disk[i] EXCEPT !.by = "gone"].kind = disk[i].kind
                               /\ [disk[i] EXCEPT !.by = "gone"].chunk = disk[i].chunk
    <3>1. \A i \in DOMAIN disk : disk[i] \in Entries(recv.meta)
      BY <1>1, ElementOfSeq
    <3>2. QED
      BY <3>1 DEF Entries, EntriesWithout
  <2>2. QED
    BY <1>1, <2>1, GoneType DEF InPlace, Gone
<1>4. ASSUME NEW es, Adds(es)
      PROVE  /\ InPlace(disk \o es) /\ InPlace(Gone \o es)
             /\ disk # << >> => InPlace(Tail(disk) \o es)
  <2>1. es = << >> \/ \E e : es = <<e>> /\ (e.kind = "replace" => e.chunk[1][2] = e.chunk[2])
    BY <1>4, Zenon DEF Adds
  <2>2. QED
    BY <1>1, <1>2, <1>3, <2>1, InPlaceGrown DEF PlaceInv
<1>5. InPlace(<< >>)
  BY DEF InPlace
<1>6. QED
  BY <1>2, <1>4, <1>5, Zenon DEF DiskMoves

\* The steps that leave the channel and the sender alone.
LEMMA StillPlace ==
  ASSUME TransferInv, PlaceInv, peer' = peer, toReceiver' = toReceiver, DiskMoves,
         \/ check' = NoCheck
         \/ check'.parts = check.parts /\ check'.block = check.block /\ check'.manifest = check.manifest
  PROVE  PlaceInv'
<1>1. BlocksInOrder(toReceiver, check', peer)
  BY OrderKept DEF PlaceInv, TransferInv, ChannelInv, SameBlock, NoCheck
<1>2. BlockKnown(check')
  BY DEF PlaceInv, BlockKnown, NoCheck
<1>3. InPlace(disk')
  BY InPlaceMoves DEF PlaceInv
<1>4. QED
  BY <1>1, <1>2, <1>3 DEF PlaceInv

LEMMA StoragePlace ==
  ASSUME TransferInv, PlaceInv, Storage \/ StorageFails \/ PrepareFails
  PROVE  PlaceInv'
<1>1. /\ peer' = peer /\ toReceiver' = toReceiver /\ disk # << >>
  BY DEF Storage, StorageFails, PrepareFails, AppendChunk, Prepare, Cleanup, Adopt, ForcedCheckpoint,
         Discard, Complete, Replace, StorageOnly, senderVars, Starts
<1>2. DiskMoves
  <2>1. CASE disk' = Tail(disk)
    BY <1>1, <2>1 DEF DiskMoves
  <2>2. CASE \E es : Adds(es) /\ disk' = Tail(disk) \o es
    BY <1>1, <2>2, Zenon DEF DiskMoves
  <2>3. CASE StorageFails
    <3>1. disk' = Tail(disk) \/ disk' = Tail(disk) \o CleanupEntry(recv)
      BY <2>3 DEF StorageFails, Rest
    <3>2. QED
      BY <2>1, <2>2, <3>1, AddsOne
  <2>4. CASE Cleanup
    <3>1. disk' = Tail(disk) \o << >> \/ disk' = Tail(disk) \o Asking(AfterStop(recv))
      BY <2>4 DEF Cleanup, CleanupDone
    <3>2. QED
      BY <2>2, <3>1, AddsOne
  <2>5. CASE Adopt
    <3>1. \E r : disk' = Tail(disk) \o Asking(r)
      BY <2>5, Zenon DEF Adopt
    <3>2. QED
      BY <2>2, <3>1, AddsOne
  <2>6. CASE Complete
    <3>1. disk' = Tail(disk) \/ disk' = Tail(disk) \o <<Entry("fail", NoChunk, "channel")>>
      BY <2>6 DEF Complete, Rest
    <3>2. QED
      BY <2>1, <2>2, <3>1, AddsOne
  <2>7. CASE AppendChunk \/ Prepare \/ PrepareFails \/ ForcedCheckpoint \/ Discard \/ Replace
    BY <2>1, <2>7 DEF AppendChunk, Prepare, PrepareFails, ForcedCheckpoint, Discard, Replace, Rest
  <2>8. QED
    BY <2>3, <2>4, <2>5, <2>6, <2>7 DEF Storage
<1>3. \/ check' = NoCheck
      \/ check'.parts = check.parts /\ check'.block = check.block /\ check'.manifest = check.manifest
  <2>1. check \in CheckType
    BY StorageTypes
  <2>2. /\ \A n : LET c == [check EXCEPT !.retries = n]
                  IN c.parts = check.parts /\ c.block = check.block /\ c.manifest = check.manifest
        /\ \A m, n : LET c == [check EXCEPT !.missing = m, !.repaired = n]
                     IN c.parts = check.parts /\ c.block = check.block /\ c.manifest = check.manifest
    BY <2>1 DEF CheckType
  <2>3. CASE Complete
    BY <2>2, <2>3 DEF Complete
  <2>4. CASE Replace
    <3>1. CASE check' = check
      BY <3>1
    <3>2. ASSUME NEW m, NEW n, check' = [check EXCEPT !.missing = m, !.repaired = n]
          PROVE  check'.parts = check.parts /\ check'.block = check.block
                 /\ check'.manifest = check.manifest
      BY <2>2, <3>2
    <3>3. \/ check' = check
          \/ \E m, n : check' = [check EXCEPT !.missing = m, !.repaired = n]
      BY <2>4, Zenon DEF Replace
    <3>4. QED
      BY <3>1, <3>2, <3>3
  <2>5. CASE AppendChunk \/ Prepare \/ PrepareFails \/ StorageFails \/ Cleanup \/ Adopt
             \/ ForcedCheckpoint \/ Discard
    BY <2>5 DEF AppendChunk, Prepare, PrepareFails, StorageFails, Cleanup, Adopt, ForcedCheckpoint, Discard
  <2>6. QED
    BY <2>3, <2>4, <2>5 DEF Storage
<1>4. QED
  BY <1>1, <1>2, <1>3, StillPlace

\* A message that is handled: what it makes of the block, and what it leaves to the storage.
LEMMA HandledPlace ==
  ASSUME TransferInv, PlaceInv, NEW type, Gets(type), Handled,
         Taken(toReceiver, check, check'), BlockKnown(check'), InPlace(disk')
  PROVE  PlaceInv'
<1>1. toReceiver \in Seq(ToReceiver) /\ toReceiver # << >>
  BY DEF Gets, TransferInv, ChannelInv
<1>2. peer' = peer /\ toReceiver' = Tail(toReceiver)
  BY DEF Handled, senderVars
<1>3. BlocksInOrder(Tail(toReceiver), check', peer)
  BY <1>1, OrderTaken DEF PlaceInv
<1>4. QED
  BY <1>2, <1>3 DEF PlaceInv

\* Messages that are no part of a repair.
LEMMA OnWordPlace ==
  ASSUME TransferInv, PlaceInv,
         OnMeta \/ OnUpdate \/ OnError \/ OnPaused \/ OnStopped
  PROVE  PlaceInv'
<1>1. PICK type \in {"meta", "file-update", "error", "paused", "stopped"} : Gets(type)
  BY DEF OnMeta, OnUpdate, OnError, OnPaused, OnStopped
<1>2. Handled /\ check' = check
  BY DEF OnMeta, OnUpdate, OnError, OnPaused, OnStopped
<1>3. Taken(toReceiver, check, check')
  BY <1>1, <1>2 DEF Taken, Gets
<1>4. disk' = disk \/ \E es : Adds(es) /\ disk' = disk \o es
  <2>1. CASE OnMeta
    <3>1. disk' = disk \/ \E r : disk' = disk \o Preparing(r, "channel")
      BY <2>1, Zenon DEF OnMeta, ThenRequest
    <3>2. QED
      BY <3>1, AddsOne
  <2>2. CASE OnPaused
    BY <2>2, AddsOne DEF OnPaused
  <2>3. CASE OnStopped
    <3>1. \/ disk' = disk \o CleanupEntry(recv)
          \/ \E r : disk' = disk \o Asking(r)
          \/ disk' = disk \o << >>
      BY <2>3, Zenon DEF OnStopped
    <3>2. QED
      BY <3>1, AddsOne
  <2>4. CASE OnUpdate \/ OnError
    BY <2>4 DEF OnUpdate, OnError
  <2>5. QED
    BY <2>1, <2>2, <2>3, <2>4
<1>5. InPlace(disk')
  BY <1>4, InPlaceMoves, Zenon DEF PlaceInv, DiskMoves
<1>6. QED
  BY <1>1, <1>2, <1>3, <1>5, HandledPlace DEF PlaceInv

LEMMA OnDonePlace ==
  ASSUME TransferInv, PlaceInv, OneVersion, OnDone
  PROVE  PlaceInv'
<1>1. Gets("done") /\ Handled /\ check \in CheckType
  BY StorageTypes DEF OnDone
<1>2. \/ check' = check
      \/ check' = [check EXCEPT !.retries = check.retries + 1]
      \/ Message.version \in Verified /\ check' = [check EXCEPT !.manifest = Message.version]
  BY DEF OnDone, Ignored
<1>3. check'.parts = check.parts /\ check'.block = check.block
  BY <1>1, <1>2 DEF CheckType
<1>4. check'.manifest \in {check.manifest, 1}
  BY <1>1, <1>2, OnlyVersion, TransferAssumption DEF CheckType
<1>5. BlockKnown(check')
  <2>1. check.manifest \in {None, 1} /\ None # 1
    BY <1>1, OnlyVersion DEF CheckType, MaybeVersion, None
  <2>2. QED
    BY <1>3, <1>4, <2>1 DEF PlaceInv, BlockKnown
<1>6. Taken(toReceiver, check, check')
  BY <1>1, <1>3 DEF Taken, Gets
<1>7. disk' = disk \/ \E es : Adds(es) /\ disk' = disk \o es
  <2>1. \/ disk' = disk
        \/ disk' = disk \o <<Entry("fail", NoChunk, "channel")>>
        \/ disk' = disk \o <<Entry("file", NoChunk, "channel")>>
        \/ \E r : disk' = disk \o Preparing(r, "channel")
    BY Zenon DEF OnDone, Ignored, Fails, ThenRequest
  <2>2. QED
    BY <2>1, AddsOne
<1>8. InPlace(disk')
  BY <1>7, InPlaceMoves, Zenon DEF PlaceInv, DiskMoves
<1>9. QED
  BY <1>1, <1>5, <1>6, <1>8, HandledPlace

\* The receiver begins a block that its manifest has; another one was not begun before.
LEMMA OnRepairStartPlace ==
  ASSUME TransferInv, PlaceInv, OnRepairStart
  PROVE  PlaceInv'
<1>1. Gets("repair-start") /\ Handled /\ disk' = disk /\ check \in CheckType
  BY StorageTypes DEF OnRepairStart
<1>2. CASE check.manifest = None \/ Message.at > Sizes[check.manifest]
  <2>1. check' = check
    BY <1>2 DEF OnRepairStart
  <2>2. check.parts = << >> \/ Message.at # check.block
    <3>1. check.manifest # None => Sizes[check.manifest] \in Nat
      BY <1>1, VersionsAreKnown DEF CheckType, MaybeVersion, Position
    <3>2. check.block \in Nat
      BY <1>1 DEF CheckType
    <3>3. QED
      BY <1>2, <3>1, <3>2 DEF PlaceInv, BlockKnown
  <2>3. Taken(toReceiver, check, check')
    BY <2>1, <2>2 DEF Taken, Message
  <2>4. QED
    BY <1>1, <2>1, <2>3, HandledPlace DEF PlaceInv
<1>3. CASE check.manifest # None /\ ~(Message.at > Sizes[check.manifest])
  <2>1. check' = [check EXCEPT !.block = Message.at, !.parts = << >>]
    BY <1>3 DEF OnRepairStart
  <2>2. check'.block = Message.at /\ check'.parts = << >> /\ check'.manifest = check.manifest
    BY <1>1, <2>1 DEF CheckType
  <2>3. Message.at \in Nat /\ Sizes[check.manifest] \in Nat
    <3>1. Message \in ToReceiver
      BY <1>1 DEF Gets, Message, TransferInv, ChannelInv
    <3>2. Message.at \in Nat
      BY <3>1 DEF ToReceiver, Position
    <3>3. Sizes[check.manifest] \in Nat
      BY <1>1, <1>3, VersionsAreKnown DEF CheckType, MaybeVersion, Position
    <3>4. QED
      BY <3>2, <3>3
  <2>4. BlockKnown(check') /\ Taken(toReceiver, check, check')
    BY <1>3, <2>2, <2>3 DEF BlockKnown, Taken
  <2>5. QED
    BY <1>1, <2>4, HandledPlace DEF PlaceInv
<1>4. QED
  BY <1>2, <1>3

\* What has come of the block that ends is of that block: it takes its place.
LEMMA OnRepairEndPlace ==
  ASSUME TransferInv, PlaceInv, OnRepairEnd
  PROVE  PlaceInv'
<1>1. Gets("repair-end") /\ Handled /\ check \in CheckType
  BY StorageTypes DEF OnRepairEnd
<1>2. CASE check.block # Message.at
  <2>1. check' = check /\ disk' = disk
    BY <1>2 DEF OnRepairEnd, Ignored
  <2>2. Taken(toReceiver, check, check')
    BY <1>1, <2>1 DEF Taken, Gets
  <2>3. QED
    BY <1>1, <2>1, <2>2, HandledPlace DEF PlaceInv
<1>3. CASE check.block = Message.at
  <2> DEFINE e == Entry("replace", <<check.parts[1], check.block>>, "channel")
  <2>1. check' = [check EXCEPT !.block = 0, !.parts = << >>]
    BY <1>3 DEF OnRepairEnd
  <2>2. check'.block = 0 /\ check'.parts = << >>
    BY <1>1, <2>1 DEF CheckType
  <2>3. check.parts # << >> => check.parts[1][2] = check.block
    <3>1. /\ toReceiver[1].type = "repair-end" /\ toReceiver[1].at = check.block
          /\ 1 \in 1..Len(toReceiver)
      BY <1>1, <1>3 DEF Gets, Message, TransferInv, ChannelInv
    <3>2. Clean(toReceiver, check, check.block, 1)
      BY <3>1 DEF PlaceInv, BlocksInOrder
    <3>3. ~Begun(toReceiver, check.block, 1, 1 - 1)
      BY DEF Begun
    <3>4. QED
      BY <3>2, <3>3 DEF Clean
  <2>4. /\ disk' = disk \/ (check.parts # << >> /\ disk' = disk \o <<e>>)
        /\ e.chunk = <<check.parts[1], check.block>>
    BY <1>3 DEF OnRepairEnd, Entry
  <2> HIDE DEF e
  <2>5. InPlace(disk')
    <3>1. check.parts # << >> => e.chunk[1][2] = e.chunk[2]
      BY <2>3, <2>4
    <3>2. check.parts # << >> => InPlace(disk \o <<e>>)
      <4>1. disk \in Seq(Entries(recv.meta)) /\ InPlace(disk)
        BY StorageTypes DEF PlaceInv
      <4>2. QED
        BY <3>1, <4>1, InPlaceGrown
    <3>3. QED
      BY <2>4, <3>2 DEF PlaceInv
  <2>6. QED
    BY <1>1, <2>2, <2>5, HandledPlace DEF BlockKnown, Taken
<1>4. QED
  BY <1>2, <1>3

LEMMA OnChunkPlace ==
  ASSUME TransferInv, PlaceInv, OnChunk
  PROVE  PlaceInv'
<1> DEFINE chunk == <<Message.version, Message.at>>
<1>1. Gets("chunk") /\ Handled /\ check \in CheckType
  BY StorageTypes DEF OnChunk
<1>2. \/ check' = check /\ (disk' = disk \/ disk' = disk \o <<Entry("append", chunk, "channel")>>)
      \/ check.block # 0 /\ check' = [check EXCEPT !.parts = <<chunk>>] /\ disk' = disk
  BY DEF OnChunk, Ignored
<1>3. disk' = disk \/ \E es : Adds(es) /\ disk' = disk \o es
  BY <1>2, AddsOne
<1>4. InPlace(disk')
  BY <1>3, InPlaceMoves, Zenon DEF PlaceInv, DiskMoves
<1>5. CASE check' = check
  BY <1>1, <1>4, <1>5, HandledPlace DEF PlaceInv, Taken, Gets
<1>6. CASE check.block # 0 /\ check' = [check EXCEPT !.parts = <<chunk>>]
  <2>1. check'.parts = <<chunk>> /\ check'.block = check.block /\ check'.manifest = check.manifest
    BY <1>1, <1>6 DEF CheckType
  <2>2. BlockKnown(check') /\ Taken(toReceiver, check, check')
    BY <1>1, <1>6, <2>1 DEF PlaceInv, BlockKnown, Taken, Gets, Message
  <2>3. QED
    BY <1>1, <1>4, <2>2, HandledPlace
<1>7. QED
  BY <1>2, <1>5, <1>6

\* The receiver's own steps.
LEMMA ReceiverPlace ==
  ASSUME TransferInv, PlaceInv, Verify \/ User \/ ReceiverOpen
  PROVE  PlaceInv'
<1>1. peer' = peer /\ toReceiver' = toReceiver
  BY DEF Verify, User, Receive, Pause, Resume, Terminate, AcceptUpdate, UserOnly, ReceiverOpen, senderVars
<1>2. disk' = disk \/ \E es : Adds(es) /\ disk' = disk \o es
  <2>1. CASE Verify
    <3>1. \/ disk' = disk
          \/ disk' = disk \o <<Entry("fail", NoChunk, "channel")>>
          \/ disk' = disk \o <<Entry("file", NoChunk, "channel")>>
      BY <2>1 DEF Verify, Fails
    <3>2. QED
      BY <3>1, AddsOne
  <2>2. CASE User
    <3>1. \/ disk' = disk
          \/ \E r : disk' = disk \o Asking(r) \/ disk' = disk \o Checkpointing(r)
                     \/ disk' = disk \o CleanupEntry(r)
          \/ disk' = disk \o <<Entry("adopt", <<recv.pending, 0>>, "nobody")>>
      BY <2>2, Zenon DEF User, Receive, Pause, Resume, Terminate, AcceptUpdate
    <3>2. QED
      BY <3>1, AddsOne
  <2>3. CASE ReceiverOpen
    <3>1. disk' = disk \/ \E r : disk' = disk \o Preparing(r, "nobody")
      BY <2>3, Zenon DEF ReceiverOpen
    <3>2. QED
      BY <3>1, AddsOne
  <2>4. QED
    BY <2>1, <2>2, <2>3
<1>3. check'.parts = check.parts /\ check'.block = check.block /\ check'.manifest = check.manifest
  <2>1. check \in CheckType
    BY StorageTypes
  <2>2. \/ check' = check
        \/ check' = [check EXCEPT !.repairs = check.repairs + 1,
                                  !.missing = Mismatches, !.repaired = Mismatches]
    BY DEF Verify, User, Receive, Pause, Resume, Terminate, AcceptUpdate, UserOnly, ReceiverOpen
  <2>3. QED
    BY <2>1, <2>2 DEF CheckType
<1>4. DiskMoves
  BY <1>2, Zenon DEF DiskMoves
<1>5. QED
  BY <1>1, <1>3, <1>4, StillPlace

\* The steps of the sender leave the receiver's part as it is.
LEMMA SaidPlace ==
  ASSUME TransferInv, PlaceInv, ReceiverUnchanged,
         NEW m, toReceiver' = Append(toReceiver, m), m.type = "repair-end" => Sending(peer, m.at),
         \A i : Sending(peer', i) => \/ Sending(peer, i) /\ (m.type = "chunk" => m.at = i)
                                     \/ m.type = "repair-start" /\ m.at = i
  PROVE  PlaceInv'
<1>1. toReceiver \in Seq(ToReceiver) /\ BlocksInOrder(toReceiver, check, peer)
  BY DEF TransferInv, ChannelInv, PlaceInv
<1>2. BlocksInOrder(toReceiver', check, peer')
  BY <1>1, OrderGrows
<1>3. QED
  BY <1>2 DEF PlaceInv, ReceiverUnchanged

LEMMA SilentPlace ==
  ASSUME TransferInv, PlaceInv, ReceiverUnchanged, toReceiver' = toReceiver,
         \A i : Sending(peer', i) => Sending(peer, i)
  PROVE  PlaceInv'
<1>1. toReceiver \in Seq(ToReceiver) /\ BlocksInOrder(toReceiver, check, peer)
  BY DEF TransferInv, ChannelInv, PlaceInv
<1>2. BlocksInOrder(toReceiver, check, peer')
  BY <1>1, OrderKept DEF SameBlock
<1>3. QED
  BY <1>2 DEF PlaceInv, ReceiverUnchanged

\* What is said of anything but a block, by a sender that sends none or goes on with one.
LEMMA WordPlace ==
  ASSUME TransferInv, PlaceInv, ReceiverUnchanged,
         peer'.op = peer.op \/ peer'.op.kind # "repair" \/ peer'.op.at = 0,
         \/ toReceiver' = toReceiver
         \/ \E m : toReceiver' = Append(toReceiver, m)
                   /\ \/ m.type = "chunk" /\ peer'.op.kind # "repair"
                      \/ m.type \in {"meta", "file-update", "done", "error", "paused", "stopped"}
  PROVE  PlaceInv'
<1>1. \A i : Sending(peer', i) => Sending(peer, i) /\ peer'.op.kind = "repair"
  BY DEF Sending
<1>2. ASSUME NEW m, toReceiver' = Append(toReceiver, m),
             \/ m.type = "chunk" /\ peer'.op.kind # "repair"
             \/ m.type \in {"meta", "file-update", "done", "error", "paused", "stopped"}
      PROVE  PlaceInv'
  <2>1. m.type # "repair-end" /\ (m.type = "chunk" => peer'.op.kind # "repair")
    BY <1>2
  <2>2. m.type = "repair-end" => Sending(peer, m.at)
    BY <2>1
  <2>3. \A i : Sending(peer', i) => \/ Sending(peer, i) /\ (m.type = "chunk" => m.at = i)
                                    \/ m.type = "repair-start" /\ m.at = i
    BY <1>1, <2>1
  <2>4. QED
    BY <1>2, <2>2, <2>3, SaidPlace, Zenon
<1>3. CASE toReceiver' = toReceiver
  BY <1>1, <1>3, SilentPlace
<1>4. QED
  BY <1>2, <1>3

LEMMA SendingPlace ==
  ASSUME TransferInv, PlaceInv, SendChunk \/ FinishSend \/ ReadFails
  PROVE  PlaceInv'
<1>1. peer \in PeerType /\ ReceiverUnchanged
  BY DEF TransferInv, SenderInv, Working, SendChunk, FinishSend, ReadFails
<1>2. CASE SendChunk
  <2>1. toReceiver' = Append(toReceiver, Msg("chunk", peer.active, peer.op.at + 1))
    BY <1>2 DEF SendChunk
  <2>2. peer'.op.kind # "repair"
    <3>1. \A m, n : [peer EXCEPT !.op.at = m, !.sent = n].op.kind = peer.op.kind
      BY <1>1 DEF PeerType
    <3>2. QED
      BY <1>2, <3>1 DEF SendChunk
  <2>3. Msg("chunk", peer.active, peer.op.at + 1).type = "chunk"
    BY DEF Msg
  <2>4. QED
    BY <1>1, <2>1, <2>2, <2>3, WordPlace
<1>3. CASE FinishSend
  <2>1. toReceiver' = Append(toReceiver, Msg("done", peer.active, 0))
    BY <1>3 DEF FinishSend
  <2>2. peer'.op.kind # "repair"
    <3>1. \A xfer : [peer EXCEPT !.op = NoOp, !.xfer = xfer].op.kind = "none"
      BY <1>1 DEF PeerType, NoOp
    <3>2. QED
      BY <1>3, <3>1 DEF FinishSend
  <2>3. Msg("done", peer.active, 0).type = "done"
    BY DEF Msg
  <2>4. QED
    BY <1>1, <2>1, <2>2, <2>3, WordPlace
<1>4. CASE ReadFails
  <2>1. toReceiver' = Append(toReceiver, Msg("error", peer.active, 0))
    BY <1>4 DEF ReadFails
  <2>2. peer'.op.kind # "repair"
    <3>1. \A xfer : [Invalidated(peer) EXCEPT !.xfer = xfer].op.kind = "none"
      BY <1>1 DEF PeerType, Invalidated, NoOp
    <3>2. QED
      BY <1>4, <3>1 DEF ReadFails
  <2>3. Msg("error", peer.active, 0).type = "error"
    BY DEF Msg
  <2>4. QED
    BY <1>1, <2>1, <2>2, <2>3, WordPlace
<1>5. QED
  BY <1>2, <1>3, <1>4

\* A block is begun, sent and ended, and nothing else is sent of a file meanwhile.
LEMMA RepairBlockPlace ==
  ASSUME TransferInv, PlaceInv, NEW b \in peer.op.todo, RepairBlock(b)
  PROVE  PlaceInv'
<1>1. /\ peer \in PeerType /\ ReceiverUnchanged /\ peer.op.kind = "repair"
      /\ \A j \in peer.op.todo : b <= j
      /\ \A j \in peer.op.todo : j \in Nat
  BY DEF TransferInv, SenderInv, Working, PeerType, Position, RepairBlock
<1>2. \A i : Sending(peer, i) => i = b
  BY <1>1 DEF Sending
<1>3. peer.op.at # 0 => Sending(peer, b)
  BY <1>1 DEF Sending
<1>4. CASE /\ toReceiver' = Append(toReceiver, Msg("repair-start", peer.active, b))
           /\ peer' = [peer EXCEPT !.op.at = 1]
  <2>1. peer'.op.todo = peer.op.todo
    BY <1>1, <1>4 DEF PeerType
  <2>2. \A i : Sending(peer', i) => i = b
    BY <1>1, <2>1 DEF Sending
  <2>3. Msg("repair-start", peer.active, b).type = "repair-start" /\ Msg("repair-start", peer.active, b).at = b
    BY DEF Msg
  <2>4. QED
    BY <1>1, <1>4, <2>2, <2>3, SaidPlace
<1>5. CASE /\ peer.op.at = 1 /\ toReceiver' = Append(toReceiver, Msg("chunk", peer.active, b))
           /\ peer' = [peer EXCEPT !.op.at = 2, !.sent = peer.sent + 1]
  <2>1. peer'.op.todo = peer.op.todo
    BY <1>1, <1>5 DEF PeerType
  <2>2. \A i : Sending(peer', i) => i = b
    BY <1>1, <2>1 DEF Sending
  <2>3. Msg("chunk", peer.active, b).type = "chunk" /\ Msg("chunk", peer.active, b).at = b
    BY DEF Msg
  <2>4. QED
    BY <1>1, <1>3, <1>5, <2>2, <2>3, SaidPlace
<1>6. CASE /\ peer.op.at = 2 /\ toReceiver' = Append(toReceiver, Msg("repair-end", peer.active, b))
           /\ \/ peer' = [peer EXCEPT !.op = NoOp, !.xfer = "verifying"]
              \/ peer' = [peer EXCEPT !.op.at = 0, !.op.todo = peer.op.todo \ {b}]
  <2>1. peer'.op.kind = "none" \/ peer'.op.at = 0
    <3>1. /\ [peer EXCEPT !.op = NoOp, !.xfer = "verifying"].op.kind = "none"
          /\ \A todo : [peer EXCEPT !.op.at = 0, !.op.todo = todo].op.at = 0
      BY <1>1 DEF PeerType, NoOp
    <3>2. QED
      BY <1>6, <3>1
  <2>2. \A i : ~Sending(peer', i)
    BY <2>1 DEF Sending
  <2>3. Msg("repair-end", peer.active, b).type = "repair-end" /\ Msg("repair-end", peer.active, b).at = b
    BY DEF Msg
  <2>4. QED
    BY <1>1, <1>3, <1>6, <2>2, <2>3, SaidPlace
<1>7. QED
  BY <1>4, <1>5, <1>6 DEF RepairBlock

LEMMA SenderPlace ==
  ASSUME TransferInv, PlaceInv,
         SenderSteps \/ ReadFails \/ UpdateFile \/ \E v \in Versions : Release(v)
  PROVE  PlaceInv'
<1>1. peer \in PeerType
  BY DEF TransferInv, SenderInv, Working
<1>2. CASE Authorize \/ SenderOpen
  <2>1. PICK p : SendMeta(p) /\ p \in PeerType /\ p.op = peer.op
    <3>1. /\ [peer EXCEPT !.authorized = TRUE] \in PeerType /\ [peer EXCEPT !.open = TRUE] \in PeerType
          /\ [peer EXCEPT !.authorized = TRUE].op = peer.op /\ [peer EXCEPT !.open = TRUE].op = peer.op
      BY <1>1 DEF PeerType
    <3>2. QED
      BY <1>2, <3>1, Zenon DEF Authorize, SenderOpen
  <2>2. peer'.op = peer.op
    BY <2>1 DEF SendMeta, PeerType
  <2>3. \/ toReceiver' = toReceiver
        \/ toReceiver' = Append(toReceiver, Msg("meta", current, 0))
    BY <2>1 DEF SendMeta
  <2>4. ReceiverUnchanged /\ Msg("meta", current, 0).type = "meta"
    BY <1>2 DEF Authorize, SenderOpen, Msg
  <2>5. QED
    BY <2>2, <2>3, <2>4, WordPlace
<1>3. CASE UpdateFile \/ \E v \in Versions : Release(v)
  <2>1. /\ ReceiverUnchanged /\ peer' = peer
        /\ \/ toReceiver' = toReceiver
           \/ toReceiver' = Append(toReceiver, Msg("file-update", current + 1, 0))
    BY <1>3 DEF UpdateFile, Release, channel
  <2>2. Msg("file-update", current + 1, 0).type = "file-update"
    BY DEF Msg
  <2>3. QED
    BY <2>1, <2>2, WordPlace
<1>4. CASE SenderReceives
  <2>1. ReceiverUnchanged
    BY <1>4 DEF SenderReceives, OnDownload, OnProgress, OnRepairRequest, OnVerified, OnReceived, OnPause,
                OnStop, SenderDone
  <2>2. peer'.op = peer.op \/ peer'.op.kind # "repair" \/ peer'.op.at = 0
    BY <1>4, HearingOp
  <2>3. \/ toReceiver' = toReceiver
        \/ \E type \in {"error", "paused", "stopped"} : \E v :
             toReceiver' = Append(toReceiver, Msg(type, v, 0))
    BY <1>4, Zenon DEF SenderReceives, OnDownload, OnProgress, OnRepairRequest, OnVerified, OnReceived,
                OnPause, OnStop, Reply
  <2>4. \A type, v : Msg(type, v, 0).type = type
    BY DEF Msg
  <2>5. QED
    BY <2>1, <2>2, <2>3, <2>4, WordPlace
<1>5. QED
  BY <1>2, <1>3, <1>4, SendingPlace, RepairBlockPlace DEF SenderSteps

\* A channel that breaks or is replaced takes what the sender was sending with it.
LEMMA LinkPlace ==
  ASSUME TransferInv, SessionInv, PlaceInv, Connect \/ Break \/ RecoveryFails \/ Reload
  PROVE  PlaceInv'
<1>1. peer \in PeerType /\ toReceiver \in Seq(ToReceiver)
  BY DEF TransferInv, SenderInv, Working, ChannelInv
<1>2. peer'.op.kind = "none"
  <2>1. /\ \A xfer, active, n : [NewPeer EXCEPT !.xfer = xfer, !.active = active, !.repairs = n].op.kind = "none"
        /\ \A xfer : [Invalidated(peer) EXCEPT !.xfer = xfer].op.kind = "none"
        /\ PeerLost.op.kind = "none" /\ NewPeer.op.kind = "none"
    BY <1>1 DEF PeerType, NewPeer, NoOp, Invalidated, PeerLost
  <2>2. CASE RecoveryFails
    <3>1. peer.op.kind = "none"
      BY <2>2 DEF RecoveryFails, SessionInv, QuietWhenClosed
    <3>2. peer' = peer \/ peer' = [Invalidated(peer) EXCEPT !.xfer = "idle"]
      BY <2>2 DEF RecoveryFails
    <3>3. QED
      BY <2>1, <3>1, <3>2
  <2>3. CASE Connect
    BY <2>1, <2>3 DEF Connect
  <2>4. CASE Break \/ Reload
    <3>1. peer' \in {PeerLost, NewPeer}
      BY <2>4 DEF Break, Reload
    <3>2. QED
      BY <2>1, <3>1
  <2>5. QED
    BY <2>2, <2>3, <2>4
<1>3. \A i : ~Sending(peer', i)
  BY <1>2 DEF Sending
<1>4. check' = check \/ check' = NoCheck
  BY DEF Connect, Break, RecoveryFails, Reload
<1>5. BlocksInOrder(toReceiver', check', peer')
  <2>1. toReceiver' = << >> \/ \E n \in 0..Len(toReceiver) : toReceiver' = SubSeq(toReceiver, 1, n)
    BY DEF Connect, Break, RecoveryFails, Reload, Lost
  <2>2. SameBlock(check, check')
    BY <1>4 DEF SameBlock, NoCheck
  <2>3. QED
    BY <1>1, <1>3, <2>1, <2>2, OrderCut, OrderLost DEF PlaceInv
<1>6. BlockKnown(check')
  BY <1>4 DEF PlaceInv, BlockKnown, NoCheck
<1>7. InPlace(disk')
  <2>1. \/ disk' \in {disk, << >>}
        \/ disk' = Gone \o Checkpointing(recv) \/ disk' = Gone \o CleanupEntry(recv)
        \/ disk' = Gone \o <<Entry("checkpoint", NoChunk, "nobody")>>
    BY DEF Connect, Break, RecoveryFails, Reload
  <2>2. DiskMoves
    <3>1. \/ disk' \in {disk, << >>}
          \/ \E es : Adds(es) /\ disk' = Gone \o es
      BY <2>1, AddsOne
    <3>2. QED
      BY <3>1, Zenon DEF DiskMoves
  <2>3. QED
    BY <2>2, InPlaceMoves DEF PlaceInv
<1>8. QED
  BY <1>5, <1>6, <1>7 DEF PlaceInv

LEMMA InitPlace == Init => PlaceInv
<1>1. Init => \A i : ~Sending(peer, i)
  BY DEF Init, NewPeer, NoOp, Sending
<1>2. QED
  BY <1>1, OrderLost DEF Init, PlaceInv, BlockKnown, InPlace, NoCheck

LEMMA StepPlace ==
  ASSUME OneVersion, TransferInv, SessionInv, PlaceInv, [Next]_vars
  PROVE  PlaceInv'
<1>1. CASE UNCHANGED vars
  BY <1>1 DEF vars, senderVars, channel, PlaceInv
<1>2. CASE SenderSteps \/ ReadFails \/ UpdateFile \/ \E v \in Versions : Release(v)
  BY <1>2, SenderPlace
<1>3. CASE Storage \/ StorageFails \/ PrepareFails
  BY <1>3, StoragePlace
<1>4. CASE ReceiverReceives
  BY <1>4, OnWordPlace, OnDonePlace, OnRepairStartPlace, OnRepairEndPlace, OnChunkPlace DEF ReceiverReceives
<1>5. CASE Verify \/ User \/ ReceiverOpen
  BY <1>5, ReceiverPlace
<1>6. CASE Connect \/ Break \/ RecoveryFails \/ Reload
  BY <1>6, LinkPlace
<1>7. QED
  BY <1>1, <1>2, <1>3, <1>4, <1>5, <1>6 DEF Next, ReceiverSteps, Faults

-----------------------------------------------------------------------------
(* Every step.                                                             *)

LEMMA InitSession == Init => SessionInv /\ VerifiedInv
<1> SUFFICES ASSUME Init PROVE SessionInv /\ VerifiedInv
  OBVIOUS
<1>1. /\ disk = << >> /\ toSender = << >> /\ toReceiver = << >> /\ files = {} /\ check = NoCheck
      /\ recv.verify = NoVerification /\ ~peer.open /\ peer.op.kind = "none"
  BY DEF Init, NewReceiver, NewPeer, NoOp
<1>2. /\ Types(toSender) = {} /\ Types(toReceiver) = {}
      /\ Kinds(disk, "channel") = {} /\ Kinds(disk, "gone") = {}
  BY <1>1, NoTypes
<1>3. DOMAIN disk = {}
  BY <1>1
<1>4. SessionInv
  BY <1>1, <1>2, <1>3 DEF SessionInv, QueueInv, QuietWhenClosed, FreshInv
<1>5. VerifiedInv
  BY <1>1, <1>2
  DEF VerifiedInv, ManifestHasData, VerifySound, RepairSound, FileSound, FilesSound, NoCheck
<1>6. QED
  BY <1>4, <1>5

LEMMA StepSession ==
  ASSUME TransferInv, SessionInv, [Next]_vars
  PROVE  SessionInv' /\ (OneVersion /\ InPlace(disk) /\ VerifiedInv => VerifiedInv')
<1>1. CASE UNCHANGED vars
  <2>1. UNCHANGED <<peer, toReceiver, toSender, recv, check, disk, stored, files>>
    BY <1>1 DEF vars, senderVars, channel, store
  <2>2. SessionInv'
    BY <2>1 DEF SessionInv, QueueInv, QuietWhenClosed, FreshInv, Transferring, Handling
  <2>3. VerifiedInv => VerifiedInv'
    BY <2>1 DEF VerifiedInv, ManifestHasData, VerifySound, RepairSound, FileSound, FilesSound,
                RepairUnderWay, SoundBut, Good
  <2>4. QED
    BY <2>2, <2>3
<1>2. CASE SenderSteps \/ ReadFails \/ UpdateFile \/ \E v \in Versions : Release(v)
  BY <1>2, SenderSession
<1>3. CASE Storage \/ StorageFails \/ PrepareFails
  BY <1>3, StorageSession
<1>4. CASE ReceiverReceives
  BY <1>4, OnMetaSession, OnWordSession, OnDoneSession, OnStoppedSession, OnRepairEndSession,
     OnChunkSession DEF ReceiverReceives
<1>5. CASE Verify \/ User
  BY <1>5, VerifySession, UserSession
<1>6. CASE Connect \/ ReceiverOpen \/ Break \/ RecoveryFails \/ Reload
  BY <1>6, ConnectSession, OpenSession, BreakSession, RecoverySession, ReloadSession
<1>7. QED
  BY <1>1, <1>2, <1>3, <1>4, <1>5, <1>6 DEF Next, ReceiverSteps, Faults

\* What is handed over of one version is that file.
LEMMA SoundFiles ==
  ASSUME OneVersion, FilesSound
  PROVE  VerifiedFileIsWhole /\ (Verified = Versions => CompletedFileIsExact)
<1>1. VerifiedFileIsWhole
  BY OnlyVersion DEF FilesSound, VerifiedFileIsWhole
<1>2. ASSUME Verified = Versions
      PROVE  CompletedFileIsExact
  <2>1. \A f \in files : f.version = 1
    BY OnlyVersion DEF FilesSound
  <2>2. QED
    BY <1>2, <2>1 DEF FilesSound, CompletedFileIsExact
<1>3. QED
  BY <1>1, <1>2

-----------------------------------------------------------------------------
(* The theorems.                                                           *)

LEMMA InitInv == Init => TransferInv
<1> SUFFICES ASSUME Init PROVE TransferInv
  OBVIOUS
<1>1. SenderInv
  <2>1. current \in Versions
    BY TransferAssumption DEF Init, Versions
  <2>2. Working(NewPeer) /\ NoRefs \in [current : MaybeVersion, offered : MaybeVersion]
    BY DEF Working, PeerType, NewPeer, NoOp, XferState, NoRefs, MaybeVersion
  <2>3. QED
    BY <2>1, <2>2 DEF Init, SenderInv
<1>2. ChannelInv
  BY DEF Init, ChannelInv
<1>3. ReceiverInv
  <2>1. Ready(NewReceiver)
    BY DEF Ready, RecvType, RecvState, NewReceiver, NoVerification, MaybeVersion
  <2>2. QED
    BY <2>1, NoCheckType DEF Init, ReceiverInv
<1>4. StoreInv
  BY DEF Init, StoreInv, NoCheckpoint, MaybeVersion, None
<1>5. QED
  BY <1>1, <1>2, <1>3, <1>4 DEF TransferInv

\* A step of the sender leaves the receiver alone, and the other way round.
LEMMA StepInv ==
  ASSUME TransferInv, [Next]_vars
  PROVE  TransferInv'
<1>1. CASE UNCHANGED vars
  BY <1>1 DEF vars, senderVars, channel, store, bounds, TransferInv, SenderInv, ChannelInv,
              ReceiverInv, StoreInv
<1>2. CASE SenderSteps \/ ReadFails \/ UpdateFile \/ \E v \in Versions : Release(v)
  <2>1. ReceiverUnchanged
    BY <1>2 DEF SenderSteps, SenderReceives, Authorize, SenderOpen, SendChunk, FinishSend,
                OnDownload, OnProgress, OnRepairRequest, OnVerified, OnReceived, OnPause, OnStop,
                SenderDone, RepairBlock, ReadFails, UpdateFile, Release
  <2>2. SenderInv' /\ ChannelInv'
    BY <1>2, SenderKeeps, ReadFailsKeeps, SharingKeeps DEF TransferInv
  <2>3. QED
    BY <2>1, <2>2 DEF ReceiverUnchanged, store, TransferInv, ReceiverInv, StoreInv
<1>3. CASE Storage \/ StorageFails \/ PrepareFails \/ ReceiverReceives \/ Verify \/ User
  <2>1. UNCHANGED senderVars
    BY <1>3 DEF Storage, StorageFails, PrepareFails, AppendChunk, Prepare, Cleanup, Adopt, ForcedCheckpoint,
                Discard, Complete, Replace, StorageOnly, ReceiverReceives, OnMeta, OnUpdate, OnDone,
                OnError, OnPaused, OnStopped, OnRepairStart, OnRepairEnd, OnChunk, Handled, Verify,
                User, Receive, Pause, Resume, Terminate, AcceptUpdate, UserOnly
  <2>2. ChannelInv' /\ ReceiverInv' /\ StoreInv'
    BY <1>3, StorageKeeps, HandlerKeeps, VerifyKeeps, UserKeeps DEF TransferInv
  <2>3. QED
    BY <2>1, <2>2 DEF senderVars, TransferInv, SenderInv
<1>4. CASE Connect \/ ReceiverOpen \/ Break \/ RecoveryFails \/ Reload
  BY <1>4, ConnectKeeps, ReceiverOpenKeeps, BreakKeeps, RecoveryFailsKeeps, ReloadKeeps
<1>5. QED
  BY <1>1, <1>2, <1>3, <1>4 DEF Next, ReceiverSteps, Faults

\* The invariant that the theorems below rest on, through every step of both browsers,
\* of the channel and of the user.
THEOREM TransferInvariance == Spec => []TransferInv
<1>1. Init => TransferInv
  BY InitInv
<1>2. TransferInv /\ [Next]_vars => TransferInv'
  BY StepInv
<1>3. QED
  BY <1>1, <1>2, PTL DEF Spec

\* Whatever the two browsers do, what they keep and exchange has its type: a chunk has a
\* version and a place, and nothing is asked for that has no details.
THEOREM TransferIsTyped == Spec => []TypeOK
<1>1. TransferInv => TypeOK
  <2> SUFFICES ASSUME TransferInv PROVE TypeOK
    OBVIOUS
  <2>1. current \in Versions /\ released \subseteq Versions /\ peer.xfer \in XferState
    BY DEF TransferInv, SenderInv, Working, PeerType
  <2>2. recv.state \in RecvState /\ recv.meta \in MaybeVersion /\ recv.pending \in MaybeVersion
    BY DEF TransferInv, ReceiverInv, Ready, RecvType
  <2>3. stored \in Seq(Chunk) /\ saved.version \in MaybeVersion /\ durable \in 0..Len(stored)
    BY DEF TransferInv, StoreInv
  <2>4. QED
    BY <2>1, <2>2, <2>3 DEF TypeOK, XferState, RecvState, MaybeVersion, Chunk, Position
<1>2. QED
  BY <1>1, TransferInvariance, PTL

\* A checkpoint counts only bytes that have been flushed (checkpointData), also when the
\* store is emptied, a block is replaced, or the page is loaded anew in between.
THEOREM CheckpointsAreDurable == Spec => []CheckpointIsDurable
<1>1. TransferInv => CheckpointIsDurable
  BY DEF TransferInv, StoreInv, CheckpointIsDurable
<1>2. QED
  BY <1>1, TransferInvariance, PTL

\* The storage queue keeps the sessions of a receiver apart (isCurrent() and the handler
\* that waits in p2pReceiver.ts): one handler waits at a time, what a broken channel left
\* is at the front, and a download, a verification or a repair goes on only behind it.
THEOREM SessionInvariance == Spec => []SessionInv
<1>1. Init => SessionInv
  BY InitSession
<1>2. TransferInv /\ SessionInv /\ [Next]_vars => SessionInv'
  BY StepSession
<1>3. QED
  BY <1>1, <1>2, TransferInvariance, PTL DEF Spec

\* A repaired block takes the place it belongs to (startRepair, finishRepair and replaceBlock),
\* if the sender shares one version, though a repair may end between any two messages and
\* chunks of another transfer may follow the start of a block.
THEOREM BlocksInPlace ==
  ASSUME OneVersion
  PROVE  Spec => []PlaceInv
<1>1. Init => PlaceInv
  BY InitPlace
<1>2. TransferInv /\ SessionInv /\ PlaceInv /\ [Next]_vars => PlaceInv'
  BY OneVersion, StepPlace
<1>3. QED
  BY <1>1, <1>2, TransferInvariance, SessionInvariance, PTL DEF Spec

\* A file that has been verified block by block is whole (verifyOrRequestRepair, finishRepair
\* and complete), if the sender shares one version, through every pause, stop, failed write,
\* repair, reconnection and reload, and whatever else waits for the storage.
THEOREM VerifiedFilesAreWhole ==
  ASSUME OneVersion
  PROVE  Spec => []VerifiedFileIsWhole
<1>1. Init => SessionInv /\ VerifiedInv
  BY InitSession
<1>2. TransferInv /\ SessionInv /\ PlaceInv /\ VerifiedInv /\ [Next]_vars => VerifiedInv'
  BY OneVersion, StepSession DEF PlaceInv
<1>3. VerifiedInv => VerifiedFileIsWhole
  BY OneVersion, SoundFiles DEF VerifiedInv
<1>4. QED
  BY <1>1, <1>2, <1>3, TransferInvariance, SessionInvariance, BlocksInPlace, PTL DEF Spec

\* Where every transfer is verified, that file is the one it is named after: what is handed
\* to the user (complete()) is exactly what the sender has.
THEOREM VerifiedFilesAreExact ==
  ASSUME OneVersion, Verified = Versions
  PROVE  Spec => []CompletedFileIsExact
<1>1. Init => SessionInv /\ VerifiedInv
  BY InitSession
<1>2. TransferInv /\ SessionInv /\ PlaceInv /\ VerifiedInv /\ [Next]_vars => VerifiedInv'
  BY OneVersion, StepSession DEF PlaceInv
<1>3. VerifiedInv => CompletedFileIsExact
  BY OneVersion, Verified = Versions, SoundFiles DEF VerifiedInv
<1>4. QED
  BY <1>1, <1>2, <1>3, TransferInvariance, SessionInvariance, BlocksInPlace, PTL DEF Spec

=============================================================================

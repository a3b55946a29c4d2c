---------------------------- MODULE P2PTransfer ----------------------------
(***************************************************************************)
(* One sender and one receiver of a P2P room copy a file over a WebRTC     *)
(* data channel (frontend/utils/p2pSender.ts and p2pReceiver.ts with       *)
(* p2p/senderTransfer, senderState, transfer, receiverDataSession,         *)
(* receiverDataChannel, receiverStorageCoordinator, receiverVerification). *)
(*                                                                         *)
(* The channel is ordered and reliable until it breaks; what is in flight  *)
(* is then lost, and a new channel is negotiated.  A handler of the        *)
(* receiver that waits for its storage blocks the messages behind it, not  *)
(* the user: `disk` is the queue of ReceiverStorageCoordinator, and what a *)
(* handler does after its await happens when its entry leaves the queue.   *)
(*                                                                         *)
(* Bytes are counted in chunks, a chunk is a verification block, and a     *)
(* stored chunk carries its version and its place.  Left out: progress and *)
(* speed display, signaling and the recovery timers (Connect stands for a  *)
(* recovery that succeeds), the manifest's own messages (Done carries it), *)
(* and a transport that is unusable although its channel is open.          *)
(*                                                                         *)
(* `failed` says that an error has been shown which left the transfer as   *)
(* it was, since it was last asked for: the sender could not read its file *)
(* or the receiver could not make a store (which an empty one is not told  *)
(* from).  The hash module is taken to load, and hashing not to fail.      *)
(***************************************************************************)
EXTENDS Integers, Sequences

CONSTANTS
  Sizes,            \* the number of chunks of each version of the shared file
  Verified,         \* the versions whose transfer is verified
  Window,           \* receiveWindowBytes
  AckInterval,      \* receiveAckIntervalBytes
  CheckpointInterval, \* p2pCheckpointIntervalBytes
  MaxRetries,       \* maxIncompleteTransferRetries
  MaxRepairs,       \* maxVerificationRepairAttempts
  LateAnswers,      \* may the room's pair result come after the channel has opened?
  Overlaps,         \* may a click or a failure come before the last stop or pause is done?
  MaxLinks,         \* bound: data channels
  MaxClicks,        \* bound: what the user does beyond starting to receive
  MaxFaults         \* bound: failures of a file or of the storage, and reloads

None == 0
Versions == 1..Len(Sizes)

ASSUME TransferAssumption ==
  /\ Sizes \in Seq(Nat \ {0}) /\ Sizes # << >>
  /\ Verified \subseteq Versions
  /\ AckInterval \in Nat \ {0} /\ Window \in Nat /\ AckInterval <= Window
  /\ CheckpointInterval \in Nat \ {0}
  /\ MaxRetries \in Nat /\ MaxRepairs \in Nat
  /\ LateAnswers \in BOOLEAN /\ Overlaps \in BOOLEAN
  /\ MaxLinks \in Nat /\ MaxClicks \in Nat /\ MaxFaults \in Nat

VARIABLES
  current,     \* sender: the version it shares now
  released,    \* sender: the versions it has forgotten
  refs,        \* sender: the versions kept for this receiver
  peer,        \* sender: the state of this receiver's connection
  toReceiver,  \* the channel
  toSender,
  recv,        \* receiver: the transfer state machine and its channel
  check,       \* receiver: manifest, retries and repairs
  disk,        \* receiver: the queue of storage operations
  stored,      \* receiver: the chunks of the current store
  durable,     \* receiver: how many of them have been flushed
  saved,       \* receiver: the checkpoint in localStorage
  files,       \* receiver: the files handed to the user
  links, clicks, faults

senderVars == <<current, released, refs, peer>>
channel == <<toReceiver, toSender>>
store == <<stored, durable, saved>>
bounds == <<links, clicks, faults>>
vars == <<senderVars, channel, recv, check, disk, store, files, bounds>>

Msg(type, v, i) == [type |-> type, version |-> v, at |-> i]
NoCredit == -1

NoOp == [kind |-> "none", at |-> 0, todo |-> {}]
NewPeer == [xfer |-> "idle", active |-> None, op |-> NoOp, sent |-> 0, acked |-> 0,
            open |-> FALSE, authorized |-> FALSE, metaSent |-> FALSE, repairs |-> 0]
NoRefs == [current |-> None, offered |-> None]

NoVerification == [of |-> None, blocks |-> {}]
NewReceiver == [state |-> "idle", restart |-> FALSE, link |-> "closed", requested |-> FALSE,
                meta |-> None, pending |-> None, cleanup |-> "none", finish |-> "none",
                verify |-> NoVerification, shown |-> FALSE, accepting |-> FALSE,
                memory |-> FALSE, flow |-> 0, acked |-> 0, failed |-> FALSE]
NoCheck == [manifest |-> None, retries |-> 0, repairs |-> 0, block |-> 0, parts |-> << >>,
            missing |-> {}, repaired |-> {}]
NoCheckpoint == [version |-> None, bytes |-> 0]

Init ==
  /\ current = 1
  /\ released = {}
  /\ refs = NoRefs
  /\ peer = NewPeer
  /\ toReceiver = << >> /\ toSender = << >>
  /\ recv = NewReceiver
  /\ check = NoCheck
  /\ disk = << >>
  /\ stored = << >> /\ durable = 0
  /\ saved = NoCheckpoint
  /\ files = {}
  /\ links = 0 /\ clicks = 0 /\ faults = 0

-----------------------------------------------------------------------------
(* The sender's bookkeeping.                                               *)

\* invalidateSenderPeerOperation: what awaits for the old generation does no more.
Invalidated(p) == [p EXCEPT !.op = NoOp]

\* switchPeerVersion
Switched(p, v) ==
  IF p.active = v THEN p ELSE [p EXCEPT !.active = v, !.xfer = "idle", !.repairs = 0]
SwitchRefs(v) ==
  refs' = [current |-> v, offered |-> IF refs.offered = v THEN None ELSE refs.offered]

\* sendPeerMeta: once on each channel.
MetaDue(p) == p.open /\ p.authorized /\ ~p.metaSent /\ p.xfer # "complete"
SendMeta(p) ==
  /\ peer' = [p EXCEPT !.metaSent = @ \/ MetaDue(p)]
  /\ toReceiver' = IF MetaDue(p) THEN Append(toReceiver, Msg("meta", current, 0)) ELSE toReceiver
  /\ refs' = IF ~MetaDue(p) \/ refs.current = current THEN refs
             ELSE IF refs.current = None THEN [refs EXCEPT !.current = current]
             ELSE [refs EXCEPT !.offered = current]

\* P2PSendWindow.reserve
HasCredit == peer.sent + 1 - peer.acked <= Window

\* As Retained, but the version that is being sent is not counted.
ForgetfulRetained == {current, refs.offered}

Retained == {current, refs.current, refs.offered}

ReceiverUnchanged == UNCHANGED <<recv, check, disk, store, files>>
SenderUnchanged == UNCHANGED senderVars

-----------------------------------------------------------------------------
(* The sender.                                                             *)

\* receiver-pair-result: the room accepted the pair that the sender reported.
Authorize ==
  /\ recv.link # "closed" /\ ~peer.authorized
  /\ SendMeta([peer EXCEPT !.authorized = TRUE])
  /\ UNCHANGED <<current, released, toSender, bounds>> /\ ReceiverUnchanged

\* dc.onopen
SenderOpen ==
  /\ recv.link # "closed" /\ ~peer.open
  /\ peer.authorized \/ LateAnswers
  /\ SendMeta([peer EXCEPT !.open = TRUE])
  /\ UNCHANGED <<current, released, toSender, bounds>> /\ ReceiverUnchanged

\* updateFile
UpdateFile ==
  /\ current < Len(Sizes)
  /\ current' = current + 1
  /\ IF peer.open /\ peer.authorized
     THEN /\ toReceiver' = Append(toReceiver, Msg("file-update", current + 1, 0))
          /\ refs' = [current |-> IF refs.current = None THEN peer.active ELSE refs.current,
                      offered |-> current + 1]
     ELSE UNCHANGED <<toReceiver, refs>>
  /\ UNCHANGED <<released, peer, toSender, bounds>> /\ ReceiverUnchanged

\* SenderFileVersionRegistry.prune: the delay of the timer outlasts what is in flight.
Release(v) ==
  /\ v < current /\ v \notin Retained \cup released
  /\ \A i \in DOMAIN toReceiver : toReceiver[i].version # v
  /\ \A i \in DOMAIN toSender : toSender[i].version # v
  /\ released' = released \cup {v}
  /\ UNCHANGED <<current, refs, peer, channel, bounds>> /\ ReceiverUnchanged

\* streamBlobToDataChannel: a chunk when the window has room for it.
SendChunk ==
  /\ peer.open /\ peer.op.kind = "send" /\ peer.xfer = "uploading"
  /\ peer.op.at < Sizes[peer.active] /\ HasCredit
  /\ toReceiver' = Append(toReceiver, Msg("chunk", peer.active, peer.op.at + 1))
  /\ peer' = [peer EXCEPT !.op.at = @ + 1, !.sent = @ + 1]
  /\ UNCHANGED <<current, released, refs, toSender, bounds>> /\ ReceiverUnchanged

\* The end of send(): the manifest of a verified version goes with "done".
FinishSend ==
  /\ peer.open /\ peer.op.kind = "send" /\ peer.xfer = "uploading"
  /\ peer.op.at >= Sizes[peer.active]
  /\ toReceiver' = Append(toReceiver, Msg("done", peer.active, 0))
  /\ peer' = [peer EXCEPT !.op = NoOp,
                          !.xfer = IF peer.active \in Verified THEN "verifying" ELSE "idle"]
  /\ UNCHANGED <<current, released, refs, toSender, bounds>> /\ ReceiverUnchanged

\* resendBlocks: for each block its start, its bytes in the same window, its end.
RepairBlock(i) ==
  /\ peer.open /\ peer.op.kind = "repair" /\ i \in peer.op.todo
  /\ \A j \in peer.op.todo : i <= j
  /\ \/ /\ peer.op.at = 0
        /\ toReceiver' = Append(toReceiver, Msg("repair-start", peer.active, i))
        /\ peer' = [peer EXCEPT !.op.at = 1]
     \/ /\ peer.op.at = 1 /\ HasCredit
        /\ toReceiver' = Append(toReceiver, Msg("chunk", peer.active, i))
        /\ peer' = [peer EXCEPT !.op.at = 2, !.sent = @ + 1]
     \/ /\ peer.op.at = 2
        /\ toReceiver' = Append(toReceiver, Msg("repair-end", peer.active, i))
        /\ peer' = IF peer.op.todo = {i}
                   THEN [peer EXCEPT !.op = NoOp, !.xfer = "verifying"]
                   ELSE [peer EXCEPT !.op.at = 0, !.op.todo = @ \ {i}]
  /\ UNCHANGED <<current, released, refs, toSender, bounds>> /\ ReceiverUnchanged

\* The file cannot be read: the error is sent, and what was being sent ends.
ReadFails ==
  /\ faults < MaxFaults /\ faults' = faults + 1
  /\ peer.open
  /\ \/ peer.op.kind = "send"
     \/ peer.op.kind = "repair" /\ peer.op.at # 0
  /\ toReceiver' = Append(toReceiver, Msg("error", peer.active, 0))
  /\ peer' = [Invalidated(peer) EXCEPT
                !.xfer = IF peer.op.kind = "repair" \/ @ = "uploading" THEN "idle" ELSE @]
  /\ UNCHANGED <<current, released, refs, toSender, links, clicks>> /\ ReceiverUnchanged

SenderGets(type) == peer.open /\ toSender # << >> /\ Head(toSender).type = type
Received == Head(toSender)
SenderDone == toSender' = Tail(toSender) /\ UNCHANGED <<current, released, bounds>> /\ ReceiverUnchanged
Reply(m) == toReceiver' = Append(toReceiver, m)

\* As OnDownload, but an older send() goes on where the receiver did not ask it to.
StaleOffsetOnDownload ==
  /\ SenderGets("download")
  /\ SwitchRefs(Received.version)
  /\ peer' = [Switched(peer, Received.version) EXCEPT
                !.xfer = "uploading", !.sent = 0, !.acked = 0,
                !.op = [NoOp EXCEPT !.kind = "send", !.at = peer.op.at]]
  /\ UNCHANGED toReceiver /\ SenderDone

\* A download request that the room has not yet authorized is dropped.
OnDownload ==
  /\ SenderGets("download")
  /\ LET v == Received.version IN
     \/ /\ v \in released
        /\ Reply(Msg("error", v, 0)) /\ UNCHANGED <<refs, peer>>
     \/ /\ v \notin released /\ ~peer.authorized
        /\ UNCHANGED <<refs, peer, toReceiver>>
     \/ /\ v \notin released /\ peer.authorized
        /\ SwitchRefs(v)
        /\ peer' = [Switched(peer, v) EXCEPT
                      !.xfer = "uploading", !.sent = 0, !.acked = 0,
                      !.op = [NoOp EXCEPT !.kind = "send", !.at = Received.at]]
        /\ UNCHANGED toReceiver
  /\ SenderDone

\* As OnProgress, but credit is never taken.
DeafOnProgress ==
  /\ SenderGets("progress")
  /\ peer' = Switched(peer, Received.version)
  /\ SwitchRefs(Received.version)
  /\ UNCHANGED toReceiver /\ SenderDone

\* P2PSendWindow.acknowledge takes no stale and no future credit.
OnProgress ==
  /\ SenderGets("progress")
  /\ LET v == Received.version
         credits == v = peer.active /\ Received.at # NoCredit
         valid == credits /\ Received.at >= peer.acked /\ Received.at <= peer.sent
         p == IF valid THEN [peer EXCEPT !.acked = Received.at] ELSE peer
     IN IF v \in released \/ (credits /\ peer.xfer = "repairing")
        THEN peer' = (IF v \in released THEN peer ELSE p) /\ UNCHANGED refs
        ELSE peer' = Switched(p, v) /\ SwitchRefs(v)
  /\ UNCHANGED toReceiver /\ SenderDone

OnRepairRequest ==
  /\ SenderGets("repair-request")
  /\ LET asked == Received.at IN
     IF ~peer.authorized \/ peer.xfer # "verifying" \/ peer.active = None \/ asked = {}
     THEN UNCHANGED <<peer, toReceiver>>
     ELSE IF peer.repairs >= MaxRepairs
     THEN Reply(Msg("error", peer.active, 0)) /\ UNCHANGED peer
     ELSE /\ peer' = [peer EXCEPT !.xfer = "repairing", !.repairs = @ + 1,
                                  !.op = [kind |-> "repair", at |-> 0, todo |-> asked]]
          /\ UNCHANGED toReceiver
  /\ UNCHANGED refs /\ SenderDone

OnVerified ==
  /\ SenderGets("verified")
  /\ peer' = [Invalidated(peer) EXCEPT !.xfer = "verifying"]
  /\ UNCHANGED <<refs, toReceiver>> /\ SenderDone

\* transfer-complete is reported to the room for the version that is being sent.
OnReceived ==
  /\ SenderGets("received")
  /\ peer' = IF Received.version \in released \/ Received.version # peer.active THEN peer
             ELSE [Invalidated(peer) EXCEPT !.xfer = "complete"]
  /\ UNCHANGED <<refs, toReceiver>> /\ SenderDone

\* As OnPause, but the running send() is not invalidated.
LeakyOnPause ==
  /\ SenderGets("pause")
  /\ Reply(Msg("paused", None, 0)) /\ UNCHANGED <<refs, peer>> /\ SenderDone

OnPause ==
  /\ SenderGets("pause")
  /\ IF peer.xfer = "complete" THEN UNCHANGED <<peer, toReceiver>>
     ELSE /\ peer' = [Invalidated(peer) EXCEPT !.xfer = "paused"]
          /\ Reply(Msg("paused", None, 0))
  /\ UNCHANGED refs /\ SenderDone

OnStop ==
  /\ SenderGets("stop")
  /\ peer' = [Invalidated(peer) EXCEPT !.xfer = "idle", !.active = None]
  /\ Reply(Msg("stopped", None, 0))
  /\ UNCHANGED refs /\ SenderDone

SenderReceives ==
  OnDownload \/ OnProgress \/ OnRepairRequest \/ OnVerified \/ OnReceived \/ OnPause \/ OnStop

-----------------------------------------------------------------------------
(* The receiver's building blocks.  An entry of `disk` waits for the       *)
(* storage; `by` says who waits for it: the message handler of the channel *)
(* (the next messages wait too), nobody, or a channel that is "gone", so   *)
(* that isCurrent() will be false when the entry is done.                  *)

Entry(kind, chunk, by) == [kind |-> kind, chunk |-> chunk, by |-> by]
NoChunk == <<None, 0>>

Tell(messages) == toSender' = IF recv.link = "open" THEN toSender \o messages ELSE toSender
Silent == toSender' = toSender

Progress(r) == Msg("progress", r.meta, NoCredit)
\* What prepares the store; requestDownload gives up if it fails, the others do not.
Preparation == {"prepare", "request"}

\* Between a pause and a resume, what was in hand has been dealt with.
Settled == (\A i \in DOMAIN disk : disk[i].kind \notin Preparation)
           /\ (recv.link = "closed" => toReceiver = << >>)

\* requestDownloadFromCurrentOffset up to its first await; r is the receiver so far.
CanRequest(r) ==
  r.link = "open" /\ r.state \notin {"complete", "stopping"} /\ r.meta # None /\ ~r.requested
Requesting(r) == [r EXCEPT !.requested = @ \/ CanRequest(r)]
Preparing(r, by) == IF CanRequest(r) THEN <<Entry("prepare", NoChunk, by)>> ELSE << >>
Asking(r) == IF CanRequest(r) THEN <<Entry("request", NoChunk, "nobody")>> ELSE << >>

\* clearPauseState and confirmPause
Unpaused(r) == IF r.state \in {"paused", "pausing"} THEN [r EXCEPT !.state = "idle"] ELSE r
Confirmed(r) ==
  IF r.state # "pausing" THEN r
  ELSE [r EXCEPT !.state = "paused", !.shown = @ \/ r.meta # None]
Checkpointing(r) ==
  IF r.state # "pausing" \/ r.meta = None THEN << >> ELSE <<Entry("checkpoint", NoChunk, "nobody")>>

\* beginStoppedTransferCleanup: an earlier cleanup, even one that is done, is not repeated.
Cleaning(r) == IF r.cleanup = "none" THEN [r EXCEPT !.cleanup = "pending"] ELSE r
CleanupEntry(r) == IF r.cleanup = "none" THEN <<Entry("cleanup", NoChunk, "nobody")>> ELSE << >>

\* What waits for a channel that has been replaced: see isCurrent().
Gone == [i \in DOMAIN disk |-> [disk[i] EXCEPT !.by = "gone"]]
Detached(r) == [r EXCEPT !.requested = FALSE, !.verify = NoVerification, !.failed = FALSE,
                         !.finish = IF @ \in {"stop", "restart"} THEN "gone" ELSE @]

\* meta := v, with the callback that shows it.
Adopted(r, v) ==
  [r EXCEPT !.meta = v, !.pending = None, !.state = "idle", !.requested = FALSE,
            !.accepting = FALSE, !.shown = FALSE, !.flow = 0, !.acked = 0]
Downloading(r) == [r EXCEPT !.state = "downloading"]

\* finishStoppedTransfer after its await: "restart" also downloads what it adopts.
Restarts(r) == r.finish = "restart" /\ r.pending # None
AfterStop(r) ==
  LET ended == [Unpaused(r) EXCEPT !.cleanup = "none", !.finish = "none", !.shown = FALSE,
                                   !.flow = 0, !.acked = 0]
  IN IF r.finish = "gone" THEN [r EXCEPT !.cleanup = "none", !.finish = "none"]
     ELSE IF r.finish \notin {"restart", "adopt"} \/ r.pending = None THEN ended
     ELSE IF r.finish = "adopt" THEN Adopted(ended, r.pending)
     ELSE Downloading(Adopted(ended, r.pending))

-----------------------------------------------------------------------------
(* The connection.                                                         *)

\* The room's messages are handled one after the other.
Signaled == recv.finish \notin {"adopt", "abandon"}
Lost == toReceiver' = << >> /\ toSender' = << >>

\* ensurePeer with preserveProgress, and the receiver's resetPeerConnection at its offer.
Connect ==
  /\ recv.link = "closed" /\ links < MaxLinks /\ Signaled
  /\ peer.xfer = "complete" => peer.active # current
  /\ links' = links + 1
  /\ peer' = [NewPeer EXCEPT !.xfer = IF peer.xfer = "paused" THEN "paused" ELSE "idle",
                             !.active = peer.active, !.repairs = peer.repairs]
  /\ recv' = [Detached(Confirmed(recv)) EXCEPT !.link = "new"]
  /\ disk' = Gone \o Checkpointing(recv)
  /\ Lost
  /\ UNCHANGED <<current, released, refs, check, store, files, clicks, faults>>

\* onOpen
ReceiverOpen ==
  /\ recv.link = "new"
  /\ LET r == [recv EXCEPT !.link = "open"] IN
     IF r.state = "downloading"
     THEN recv' = Requesting(r) /\ disk' = disk \o Preparing(r, "nobody") /\ Silent
     ELSE /\ recv' = r /\ UNCHANGED disk
          /\ toSender' = IF r.state = "stopping"
                         THEN Append(toSender, Msg("stop", None, 0)) ELSE toSender
  /\ UNCHANGED <<senderVars, toReceiver, check, store, files, bounds>>

PeerLost == [Invalidated(peer) EXCEPT !.open = FALSE,
               !.xfer = IF @ \in {"paused", "complete"} THEN @ ELSE "idle"]

\* Both ends lose the channel; the receiver may have been given a part of what was in flight.
Break ==
  /\ recv.link \in {"new", "open"}
  /\ recv' = [recv EXCEPT !.link = "closed"]
  /\ peer' = PeerLost
  /\ \E n \in 0..Len(toReceiver) :
       toReceiver' = IF recv.link = "open" THEN SubSeq(toReceiver, 1, n) ELSE << >>
  /\ toSender' = << >>
  /\ UNCHANGED <<current, released, refs, check, disk, store, files, bounds>>

\* peer-reconnect-failed: a stop is finished without its answer, all else is paused.
\* The sender waits, blocked, for a retry, which begins with an idle peer.
RecoveryFails ==
  /\ recv.link = "closed" /\ links > 0
  /\ recv.state \notin {"paused", "complete"} /\ Signaled
  /\ toReceiver' = << >> /\ Silent
  /\ peer' = IF peer.xfer = "complete" THEN peer ELSE [Invalidated(peer) EXCEPT !.xfer = "idle"]
  /\ IF recv.state = "stopping"
     THEN LET r == [Cleaning(Detached(recv)) EXCEPT
                      !.state = "idle", !.finish = IF recv.restart THEN "adopt" ELSE "abandon"]
          IN /\ recv' = IF r.cleanup = "done" THEN AfterStop(r) ELSE r
             /\ disk' = Gone \o CleanupEntry(recv)
     ELSE /\ recv' = [Detached(recv) EXCEPT !.state = "paused", !.shown = @ \/ recv.meta # None]
          /\ disk' = Gone \o <<Entry("checkpoint", NoChunk, "nobody")>>
  /\ UNCHANGED <<current, released, refs, check, store, files, bounds>>

-----------------------------------------------------------------------------
(* The storage: the entry at the head of the queue is carried out.         *)

Starts(kind) == disk # << >> /\ Head(disk).kind = kind
Current == Head(disk).by # "gone"
Rest == disk' = Tail(disk)
StorageOnly == UNCHANGED <<senderVars, toReceiver, links, clicks>>
\* As Emptied, but what was flushed is still counted.
HalfEmptied == stored' = << >> /\ saved' = NoCheckpoint /\ UNCHANGED durable

Emptied == stored' = << >> /\ durable' = 0 /\ saved' = NoCheckpoint

\* checkpointData: the data is flushed before the record that counts on it is written.
Due(forced) ==
  /\ ~recv.memory /\ recv.meta # None
  /\ Len(stored') > 0 /\ Len(stored') < Sizes[recv.meta]
  /\ forced \/ Len(stored') - saved.bytes >= CheckpointInterval
CheckpointData(forced) ==
  IF Due(forced)
  THEN durable' = Len(stored') /\ saved' = [version |-> recv.meta, bytes |-> Len(stored')]
  ELSE UNCHANGED <<durable, saved>>

\* As Append, but the record is written before the data is flushed.
HastyAppend ==
  /\ Starts("append") /\ recv.meta # None
  /\ stored' = Append(stored, Head(disk).chunk)
  /\ saved' = IF Due(FALSE) THEN [version |-> recv.meta, bytes |-> Len(stored')] ELSE saved
  /\ UNCHANGED <<durable, recv, toSender, check, files, faults>> /\ Rest /\ StorageOnly

\* acknowledge(): credit when enough has been taken or at the end (a timer's is left out).
AppendChunk ==
  /\ Starts("append") /\ recv.meta # None
  /\ stored' = Append(stored, Head(disk).chunk)
  /\ CheckpointData(FALSE)
  /\ IF ~Current THEN UNCHANGED recv /\ Silent
     ELSE LET flow == recv.flow + 1
              mayAck == flow - recv.acked >= AckInterval \/ Len(stored') >= Sizes[recv.meta]
          IN IF mayAck
             THEN /\ recv' = [recv EXCEPT !.flow = flow, !.acked = flow]
                  /\ Tell(<<Msg("progress", recv.meta, flow)>>)
             ELSE recv' = [recv EXCEPT !.flow = flow] /\ Silent
  /\ Rest /\ UNCHANGED <<check, files, faults>> /\ StorageOnly

\* A write, a flush or the reading of the whole file fails: onMessageError stops the
\* transfer, to be received again in memory; a pause's checkpoint only shows the error.
StorageFails ==
  /\ disk # << >> /\ Head(disk).kind \in {"append", "replace", "file", "checkpoint"}
  /\ stored # << >> \/ Head(disk).kind = "append"
  /\ recv.meta # None /\ ~recv.memory /\ faults < MaxFaults
  /\ Overlaps \/ recv.state # "stopping"
  /\ faults' = faults + 1
  /\ IF Current /\ Head(disk).kind # "checkpoint"
     THEN /\ recv' = [Cleaning(recv) EXCEPT !.state = "stopping", !.restart = FALSE,
                        !.memory = TRUE, !.requested = FALSE, !.shown = FALSE]
          /\ Tell(<<Msg("stop", None, 0)>>)
          /\ disk' = Tail(disk) \o CleanupEntry(recv)
     ELSE UNCHANGED recv /\ Silent /\ Rest
  /\ UNCHANGED <<check, store, files>> /\ StorageOnly

\* prepare(), and the end of requestDownloadFromCurrentOffset.
Prepare ==
  /\ \E kind \in Preparation : Starts(kind)
  /\ check' = IF stored = << >> THEN NoCheck ELSE check
  /\ IF Current /\ recv.link = "open" /\ recv.requested
     THEN /\ recv' = [Unpaused(recv) EXCEPT !.shown = TRUE, !.flow = 0, !.acked = 0,
                                                 !.failed = FALSE]
          /\ Tell(<<Progress(recv), Msg("download", recv.meta, Len(stored))>>)
     ELSE UNCHANGED recv /\ Silent
  /\ Rest /\ UNCHANGED <<store, files, faults>> /\ StorageOnly

\* No store can be made.  Where no requestDownload waits, the transfer stays as it is,
\* and the channel counts as asked.
PrepareFails ==
  /\ \E kind \in Preparation : Starts(kind)
  /\ stored = << >> /\ faults < MaxFaults
  /\ Overlaps \/ recv.state \notin {"pausing", "stopping"}
  /\ faults' = faults + 1
  /\ check' = NoCheck
  /\ LET r == [recv EXCEPT !.flow = 0, !.acked = 0] IN
     recv' = IF Head(disk).kind = "request" THEN [r EXCEPT !.state = "idle", !.requested = FALSE]
             ELSE [r EXCEPT !.failed = @ \/ Current]
  /\ Rest /\ Silent /\ UNCHANGED <<store, files>> /\ StorageOnly

CleanupDone ==
  LET r == AfterStop(recv) IN
  /\ recv' = IF recv.finish = "none" THEN [recv EXCEPT !.cleanup = "done"]
             ELSE IF Restarts(recv) THEN Requesting(r) ELSE r
  /\ disk' = Tail(disk) \o (IF Restarts(recv) THEN Asking(r) ELSE << >>)

\* resetReceivedData, and finishStoppedTransfer if that waits for it.
Cleanup ==
  /\ Starts("cleanup")
  /\ Emptied /\ check' = NoCheck
  /\ CleanupDone
  /\ Silent /\ UNCHANGED <<files, faults>> /\ StorageOnly

\* adoptPendingUpdate from acceptUpdate, which does not ask whether it is still current.
Adopt ==
  /\ Starts("adopt")
  /\ Emptied /\ check' = NoCheck
  /\ LET r == Downloading(Adopted(recv, Head(disk).chunk[1])) IN
     recv' = Requesting(r) /\ disk' = Tail(disk) \o Asking(r)
  /\ Silent /\ UNCHANGED <<files, faults>> /\ StorageOnly

ForcedCheckpoint ==
  /\ Starts("checkpoint")
  /\ UNCHANGED stored /\ CheckpointData(TRUE)
  /\ Rest /\ Silent /\ UNCHANGED <<recv, check, files, faults>> /\ StorageOnly

\* handleTransferFailure
Discard ==
  /\ Starts("fail")
  /\ Emptied /\ check' = NoCheck
  /\ recv' = IF Current THEN [Unpaused(recv) EXCEPT !.shown = FALSE] ELSE recv
  /\ Rest /\ Silent /\ UNCHANGED <<files, faults>> /\ StorageOnly

\* complete() and notifyTransferComplete; without a store it is an error that is only shown.
Complete ==
  /\ Starts("file")
  /\ IF ~Current \/ stored = << >>
     THEN Rest /\ Silent /\ UNCHANGED <<recv, check, saved, files>>
     ELSE IF Len(stored) # Sizes[recv.meta]
     THEN /\ recv' = [recv EXCEPT !.state = "idle", !.requested = FALSE]
          /\ disk' = Tail(disk) \o <<Entry("fail", NoChunk, "channel")>>
          /\ Silent /\ UNCHANGED <<check, saved, files>>
     ELSE /\ recv' = [recv EXCEPT !.state = "complete", !.requested = FALSE, !.shown = FALSE]
          /\ check' = [check EXCEPT !.retries = 0]
          /\ saved' = NoCheckpoint
          /\ files' = files \cup {[version |-> recv.meta, chunks |-> stored]}
          /\ Tell(<<Msg("received", recv.meta, 0)>>)
          /\ Rest
  /\ UNCHANGED <<stored, durable, faults>> /\ StorageOnly

\* replaceBlock and the end of finishRepair
Replace ==
  /\ Starts("replace")
  /\ LET i == Head(disk).chunk[2]  left == check.missing \ {i} IN
     IF stored = << >>
     THEN UNCHANGED <<stored, check, recv>> /\ Silent
     ELSE /\ stored' = [stored EXCEPT ![i] = Head(disk).chunk[1]]
          /\ IF ~Current THEN UNCHANGED <<check, recv>> /\ Silent
             ELSE /\ check' = [check EXCEPT !.missing = left,
                                            !.repaired = IF left = {} THEN {} ELSE @]
                  /\ recv' = IF left # {} \/ check.manifest = None THEN [recv EXCEPT !.shown = TRUE]
                             ELSE [recv EXCEPT !.shown = TRUE, !.state = "verifying",
                                     !.verify = [of |-> check.manifest, blocks |-> check.repaired]]
                  /\ Tell(<<Progress(recv)>>)
  /\ Rest /\ UNCHANGED <<durable, saved, files, faults>> /\ StorageOnly

Storage ==
  AppendChunk \/ Prepare \/ Cleanup \/ Adopt \/ ForcedCheckpoint \/ Discard \/ Complete \/ Replace

-----------------------------------------------------------------------------
(* The receiver's message handler, one message at a time.                  *)

Busy ==
  \/ \E i \in DOMAIN disk : disk[i].by = "channel"
  \/ recv.finish \in {"stop", "restart"}
  \/ recv.verify # NoVerification
Gets(type) ==
  /\ toReceiver # << >> /\ Head(toReceiver).type = type
  /\ recv.link # "new" /\ ~Busy
Message == Head(toReceiver)
Handled ==
  /\ toReceiver' = Tail(toReceiver)
  /\ UNCHANGED <<senderVars, store, files, bounds>>
Ignored == UNCHANGED <<recv, check, disk>> /\ Silent
ThenRequest(r) ==
  recv' = Requesting(r) /\ disk' = disk \o Preparing(r, "channel")

\* Details of a version: another one than was begun is only offered.
OnMeta ==
  /\ Gets("meta")
  /\ LET v == Message.version
         begun == stored # << >> \/ recv.state \in {"downloading", "paused", "complete"}
         shown == [recv EXCEPT !.meta = v, !.accepting = FALSE]
     IN
     IF recv.state = "stopping"
     THEN /\ recv' = [recv EXCEPT !.pending = IF recv.restart /\ @ # None THEN v ELSE @]
          /\ UNCHANGED disk /\ Silent
     ELSE IF recv.meta \notin {None, v} /\ begun
     THEN LET r == [recv EXCEPT !.pending = v, !.requested = FALSE] IN
          /\ IF r.state = "downloading" THEN ThenRequest(r) ELSE recv' = r /\ UNCHANGED disk
          /\ Silent
     ELSE IF recv.state = "paused"
     THEN /\ recv' = [shown EXCEPT !.shown = TRUE]
          /\ Tell(<<Progress(shown), Msg("pause", None, 0)>>)
          /\ UNCHANGED disk
     ELSE /\ IF recv.state = "downloading" THEN ThenRequest(shown) ELSE recv' = shown /\ UNCHANGED disk
          /\ Silent
  /\ UNCHANGED check /\ Handled

OnUpdate ==
  /\ Gets("file-update")
  /\ LET v == Message.version IN
     recv' = IF v = recv.meta THEN recv
             ELSE IF stored = << >> /\ recv.state \notin {"complete", "downloading", "paused", "pausing"}
             THEN [recv EXCEPT !.meta = v, !.accepting = FALSE, !.shown = FALSE]
             ELSE [recv EXCEPT !.pending = v]
  /\ UNCHANGED <<check, disk>> /\ Silent /\ Handled

Fails(r) ==
  /\ recv' = [r EXCEPT !.state = "idle", !.requested = FALSE]
  /\ disk' = disk \o <<Entry("fail", NoChunk, "channel")>>

\* finishTransfer: what is missing is asked for again; the manifest came with the message.
OnDone ==
  /\ Gets("done")
  /\ LET v == Message.version IN
     IF recv.meta = None \/ recv.state = "stopping" THEN Ignored
     ELSE IF Len(stored) < Sizes[recv.meta]
     THEN /\ IF check.retries >= MaxRetries
             THEN Fails(recv) /\ UNCHANGED check
             ELSE /\ ThenRequest([recv EXCEPT !.requested = FALSE])
                  /\ check' = [check EXCEPT !.retries = @ + 1]
          /\ Silent
     ELSE IF recv.meta \notin Verified
     THEN /\ disk' = disk \o <<Entry("file", NoChunk, "channel")>>
          /\ UNCHANGED <<recv, check>> /\ Silent
     ELSE IF v \notin Verified \/ Sizes[v] # Sizes[recv.meta] THEN Ignored
     ELSE /\ check' = [check EXCEPT !.manifest = v]
          /\ recv' = [recv EXCEPT !.state = "verifying",
                                  !.verify = [of |-> v, blocks |-> 1..Sizes[v]]]
          /\ UNCHANGED disk /\ Silent
  /\ Handled

Mismatches == {i \in recv.verify.blocks : i > Len(stored) \/ stored[i] # <<recv.verify.of, i>>}

\* As Verify, but no block is compared.
BlindVerify ==
  /\ recv.verify # NoVerification
  /\ Tell(<<Msg("verified", None, 0)>>)
  /\ disk' = disk \o <<Entry("file", NoChunk, "channel")>>
  /\ recv' = [recv EXCEPT !.verify = NoVerification]
  /\ UNCHANGED <<senderVars, toReceiver, check, store, files, bounds>>

\* verifyOrRequestRepair after the hashes have been computed, whatever happened meanwhile.
Verify ==
  /\ recv.verify # NoVerification
  /\ LET r == [recv EXCEPT !.verify = NoVerification] IN
     IF Mismatches = {}
     THEN /\ Tell(<<Msg("verified", None, 0)>>)
          /\ disk' = disk \o <<Entry("file", NoChunk, "channel")>>
          /\ recv' = r /\ UNCHANGED check
     ELSE IF check.repairs >= MaxRepairs
     THEN Fails(r) /\ Silent /\ UNCHANGED check
     ELSE /\ check' = [check EXCEPT !.repairs = @ + 1,
                                    !.missing = Mismatches, !.repaired = Mismatches]
          /\ recv' = [r EXCEPT !.state = "repairing", !.shown = TRUE]
          /\ Tell(<<Progress(recv), Msg("repair-request", None, Mismatches)>>)
          /\ UNCHANGED disk
  /\ UNCHANGED <<senderVars, toReceiver, store, files, bounds>>

\* The sender's error is shown, and changes nothing.
OnError ==
  /\ Gets("error")
  /\ recv' = [recv EXCEPT !.failed = TRUE]
  /\ UNCHANGED <<check, disk>> /\ Silent /\ Handled

OnPaused ==
  /\ Gets("paused")
  /\ recv' = Confirmed(recv)
  /\ disk' = disk \o Checkpointing(recv)
  /\ IF recv.state = "pausing" /\ recv.meta # None THEN Tell(<<Progress(recv)>>) ELSE Silent
  /\ UNCHANGED check /\ Handled

\* finishStoppedTransfer up to its await.
OnStopped ==
  /\ Gets("stopped")
  /\ LET r == [Cleaning(recv) EXCEPT
                 !.state = "idle", !.requested = FALSE,
                 !.finish = IF recv.state = "stopping" /\ recv.restart THEN "restart" ELSE "stop"]
         after == AfterStop(r)
     IN IF r.cleanup # "done" THEN recv' = r /\ disk' = disk \o CleanupEntry(recv)
        ELSE /\ recv' = IF Restarts(r) THEN Requesting(after) ELSE after
             /\ disk' = disk \o (IF Restarts(r) THEN Asking(after) ELSE << >>)
  /\ UNCHANGED check /\ Silent /\ Handled

\* startRepair
OnRepairStart ==
  /\ Gets("repair-start")
  /\ check' = IF check.manifest = None \/ Message.at > Sizes[check.manifest] THEN check
              ELSE [check EXCEPT !.block = Message.at, !.parts = << >>]
  /\ UNCHANGED <<recv, disk>> /\ Silent /\ Handled

\* finishRepair up to its await: what was received takes the place of the block.
OnRepairEnd ==
  /\ Gets("repair-end")
  /\ IF check.block # Message.at THEN Ignored
     ELSE /\ check' = [check EXCEPT !.block = 0, !.parts = << >>]
          /\ disk' = IF check.parts = << >> THEN disk
                     ELSE disk \o <<Entry("replace", <<check.parts[1], check.block>>, "channel")>>
          /\ UNCHANGED recv /\ Silent
  /\ Handled

\* receive(): dropped without details or while stopping; an error is only shown.
OnChunk ==
  /\ Gets("chunk")
  /\ LET chunk == <<Message.version, Message.at>>
         expected == \/ recv.state \in {"downloading", "pausing"}
                     \/ recv.state = "repairing" /\ check.block # 0
     IN IF recv.meta = None \/ recv.state = "stopping" \/ ~expected THEN Ignored
        ELSE IF check.block # 0
        THEN IF check.parts # << >> THEN Ignored
             ELSE LET flow == recv.flow + 1 IN
                  /\ check' = [check EXCEPT !.parts = <<chunk>>]
                  /\ IF flow - recv.acked >= AckInterval
                     THEN /\ recv' = [recv EXCEPT !.flow = flow, !.acked = flow]
                          /\ Tell(<<Msg("progress", recv.meta, flow)>>)
                     ELSE recv' = [recv EXCEPT !.flow = flow] /\ Silent
                  /\ UNCHANGED disk
        ELSE IF Len(stored) >= Sizes[recv.meta] THEN Ignored
        ELSE /\ disk' = disk \o <<Entry("append", chunk, "channel")>>
             /\ UNCHANGED <<recv, check>> /\ Silent
  /\ Handled

ReceiverReceives ==
  \/ OnMeta \/ OnUpdate \/ OnDone \/ OnError \/ OnPaused \/ OnStopped
  \/ OnRepairStart \/ OnRepairEnd \/ OnChunk

-----------------------------------------------------------------------------
(* The user.  The buttons are those that the page shows in this state.     *)

Click == clicks < MaxClicks /\ clicks' = clicks + 1
UserOnly == UNCHANGED <<senderVars, toReceiver, check, store, files, links, faults>>

\* requestDownload
Receive ==
  /\ ~recv.shown /\ recv.meta # None /\ ~recv.accepting
  /\ recv.state \notin {"complete", "downloading"}
  /\ Overlaps \/ (Settled /\ recv.state # "stopping")
  /\ LET r == Downloading(recv) IN recv' = Requesting(r) /\ disk' = disk \o Asking(r)
  /\ Silent /\ UNCHANGED clicks /\ UserOnly

Pause ==
  /\ Click /\ recv.shown /\ recv.state = "downloading"
  /\ LET r == [recv EXCEPT !.state = "pausing", !.requested = FALSE] IN
     IF recv.link = "open"
     THEN recv' = r /\ UNCHANGED disk /\ Tell(<<Msg("pause", None, 0)>>)
     ELSE recv' = Confirmed(r) /\ disk' = disk \o Checkpointing(r) /\ Silent
  /\ UserOnly

Resume ==
  /\ Click /\ recv.shown /\ (Overlaps \/ Settled) /\ recv.state = "paused"
  /\ LET r == Downloading(recv) IN recv' = Requesting(r) /\ disk' = disk \o Asking(r)
  /\ Silent /\ UserOnly

Terminate ==
  /\ Click /\ recv.shown /\ recv.state \notin {"complete", "stopping"}
  /\ recv' = [Cleaning(recv) EXCEPT !.state = "stopping", !.restart = FALSE, !.requested = FALSE]
  /\ disk' = disk \o CleanupEntry(recv)
  /\ Tell(<<Msg("stop", None, 0)>>)
  /\ UserOnly

\* acceptUpdate: what has begun is stopped first, if the sender can be told.
AcceptUpdate ==
  /\ Click /\ recv.pending # None /\ ~recv.accepting
  /\ Overlaps \/ (Settled /\ recv.state # "stopping")
  /\ LET r == [recv EXCEPT !.accepting = TRUE, !.shown = FALSE]
         active == recv.state # "complete"
                   /\ (recv.state \in {"downloading", "paused", "pausing"} \/ stored # << >>)
     IN IF recv.link = "open" /\ active
        THEN /\ recv' = [Cleaning(r) EXCEPT !.state = "stopping", !.restart = TRUE, !.requested = FALSE]
             /\ disk' = disk \o CleanupEntry(recv)
             /\ Tell(<<Msg("stop", None, 0)>>)
        ELSE /\ recv' = r /\ Silent
             /\ disk' = disk \o <<Entry("adopt", <<recv.pending, 0>>, "nobody")>>
  /\ UserOnly

\* open() of the storage worker: a file that is shorter than its record is not used.
Restorable(n) == saved.version # None /\ n >= saved.bytes

\* The page is loaded anew.  What was flushed is in the file, and maybe more; a sender that
\* hears of a receiver that leaves for good forgets it.
Reload ==
  /\ faults < MaxFaults /\ faults' = faults + 1
  /\ recv.state # "complete"
  /\ check' = NoCheck /\ disk' = << >> /\ Lost
  /\ \E n \in durable..Len(stored) :
       IF Restorable(n)
       THEN /\ recv' = [NewReceiver EXCEPT !.state = "paused", !.meta = saved.version, !.shown = TRUE]
            /\ stored' = SubSeq(stored, 1, saved.bytes) /\ durable' = saved.bytes
            /\ UNCHANGED <<saved, refs>> /\ peer' = PeerLost
       ELSE /\ recv' = NewReceiver /\ Emptied
            /\ \/ UNCHANGED refs /\ peer' = PeerLost
               \/ refs' = NoRefs /\ peer' = NewPeer
  /\ UNCHANGED <<current, released, files, links, clicks>>

-----------------------------------------------------------------------------

SenderSteps ==
  \/ Authorize \/ SenderOpen \/ SendChunk \/ FinishSend \/ SenderReceives
  \/ \E i \in peer.op.todo : RepairBlock(i)
ReceiverSteps == ReceiverOpen \/ Storage \/ ReceiverReceives \/ Verify
User == Receive \/ Pause \/ Resume \/ Terminate \/ AcceptUpdate
Faults == Break \/ ReadFails \/ StorageFails \/ PrepareFails \/ Reload

Next ==
  \/ SenderSteps \/ ReceiverSteps \/ User \/ Faults
  \/ UpdateFile \/ (\E v \in Versions : Release(v))
  \/ Connect \/ RecoveryFails

Spec == Init /\ [][Next]_vars

\* The browsers run their tasks, the channel delivers, and a recovery ends either way.
FairSpec ==
  /\ Spec
  /\ WF_vars(SenderSteps) /\ WF_vars(ReceiverSteps)
  /\ WF_vars(Connect \/ RecoveryFails)

-----------------------------------------------------------------------------
(* Properties.                                                             *)

\* Every variable has its type.
TypeOK ==
  /\ current \in Versions /\ released \subseteq Versions
  /\ peer.xfer \in {"idle", "uploading", "paused", "verifying", "repairing", "complete"}
  /\ recv.state \in {"idle", "downloading", "pausing", "paused", "stopping",
                     "verifying", "repairing", "complete"}
  /\ recv.meta \in Versions \cup {None} /\ recv.pending \in Versions \cup {None}
  /\ stored \in Seq(Versions \X (Nat \ {0}))
  /\ saved.version \in Versions \cup {None}
  /\ durable \in 0..Len(stored)

\* p2pReceiver.ts hands a file to the user only as the sender has it: the chunks of
\* one version, each in its place, through pauses, stops, updates and reconnections.
CompletedFileIsExact ==
  \A f \in files :
    /\ Len(f.chunks) = Sizes[f.version]
    /\ \A i \in DOMAIN f.chunks : f.chunks[i] = <<f.version, i>>

\* What has been verified block by block is one shared file, though not always the
\* one it is named after (receiverDataSession.ts, verifyOrRequestRepair and complete).
VerifiedFileIsWhole ==
  \A f \in files : f.version \in Verified =>
    \E v \in Versions :
      /\ Len(f.chunks) = Sizes[v]
      /\ \A i \in DOMAIN f.chunks : f.chunks[i] = <<v, i>>

\* The window bounds what the receiver must hold before it is stored (transfer.ts:14).
BoundedBacklog ==
  Len(SelectSeq(toReceiver, LAMBDA m : m.type = "chunk"))
    + Len(SelectSeq(disk, LAMBDA e : e.kind = "append")) <= Window

\* A checkpoint in localStorage counts only bytes that a reload will find
\* (receiverStorageCoordinator.ts, checkpointData).
CheckpointIsDurable == saved.bytes <= durable

\* The sender still has the version that a receiver is in the middle of, whatever was
\* shared since (senderState.ts, SenderFileVersionRegistry.prune), as long as what the
\* receiver has is of that version.
VersionIsRetained ==
  /\ recv.state \in {"downloading", "pausing", "paused"}
  /\ stored # << >> /\ \A i \in DOMAIN stored : stored[i][1] = recv.meta
  => recv.meta \notin released

\* Nothing is under way, on a channel that is open.
Standstill ==
  recv.link = "open" /\ peer.op = NoOp /\ toReceiver = << >> /\ toSender = << >> /\ disk = << >>

\* What the receiver waits for ends: a pause and a stop do not hang, and a download does
\* only where an error has been shown that p2pReceiver.ts leaves to the user (:568, :605).
TransferSettles ==
  /\ \A s \in {"pausing", "stopping"} : (recv.state = s) ~> (recv.state # s)
  /\ (recv.state = "downloading") ~> (recv.state # "downloading" \/ (Standstill /\ recv.failed))

=============================================================================

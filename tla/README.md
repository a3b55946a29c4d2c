# Formal models of pastebin-worker

TLA+ models of the stateful parts of this repository, checked with TLC; for the
read counter, the paste store, the room, the upload client, the optical receiver,
and the checkpoints and verified files of the browser transfer, what matters most is
also proved with TLAPS. Paths below are relative to the repository.

## 1. The system

pastebin-worker is a pastebin on Cloudflare Workers. A Worker holds no state
between requests; what persists is in four services: Workers KV (an eventually
consistent map with expiry), R2 (objects), Durable Objects (single-threaded
objects with transactional storage, one alarm and hibernatable WebSockets) and,
in the browser, OPFS. The difficulty of the code is in the seams between them.

| component | state it keeps | operations | what makes it correct |
|---|---|---|---|
| read counter `worker/readCounter.ts` | one record (version, reads left, expiry, clean-up time) and an alarm per version | `/init`, `/consume`, `/peek`, alarm | at most N reads of a version with N reads, none after it was retired; nothing stored for ever |
| paste store `worker/storage/storage.ts`, called by `worker/handlers/` | KV index per name, R2 object per version, KV clean-up queue | create, update, complete an upload, delete, read, scheduled sweep | the live version keeps its body and its reads; a replaced body outlives stale readers; nothing leaks |
| P2P room `worker/p2p/room.ts` | sockets and their attachments, memory rebuilt from them, stored deadlines and expiry, an alarm | connect, pair, complete, checkpoint, leave, abandon, disconnect, heartbeat, alarm, update | one live socket per role; a slot is kept during the grace period and given back after it; a room is deleted in the end |
| room membership `worker/p2p/roomState.ts` | one key per receiver, two derived counts, the limit | admission and the recording of each state | the limit is never passed; counts and keys agree |
| P2P requests `worker/p2p.ts` | none | create, update, status, WebSocket upgrade | a name in use is not created again |
| TURN credentials `worker/p2p/turnCredentials.ts`, `worker/turnHealth.ts` | a cached credential | fetch, refresh, probe | an expired credential is not handed out |
| request routing, pages, access metric | a sampled counter | HTTP | pure, or promises nothing |
| upload client `shared/uploadPaste.ts`, encryption parts `frontend/utils/encryptionCore.ts` | the upload's id, the parts read, under way and acknowledged | create, upload parts in parallel, complete, release, cancel | what is published is the whole file; a failed upload is released, and nothing is sent after that |
| shared parsers and signal validation `shared/` | none | pure functions of text | they agree with their grammar |
| browser P2P `frontend/utils/p2p*` | data channels, send window, retained versions, received bytes and checkpoints in OPFS | share, update, download, acknowledge, pause, resume, stop, verify, repair, reconnect, reload | bytes arrive once and in order; a resumed transfer continues the same version; nothing waits for ever |
| optical receiver `frontend/optical/receive` | decode workers and what each has, the fountain worker's stream and symbols, two counters of frames, the attempt, the assembly and its temporary files | start a camera, a screen or an APNG, decode, collect symbols, finish a stream, accept a part, switch modes, give up, leave | a part that was received is on the disk and not lost; parts are assembled in any order; attempts that share workers do not mix; no file is left behind; the page comes back from each attempt |
| optical sender `frontend/optical/send` | the part and the frame it shows | encode, show | stateless but for the choice of the user |
| web application, codecs, `scripts/pb` | page state | user interface, compression, shell | outside these models |

Interaction. A handler reads the index from KV, asks the counter of the version
(a call to another object) and opens the object in R2: three awaits, between
which other Workers write, delete and sweep. A write prepares the counter,
stores the object, and commits by putting the index; what it replaced is queued
and its counter is retired afterwards, and each of these may fail. A room is
called by the platform: requests, socket events and alarms arrive one at a time,
but the platform may put the object to sleep, crash it, or deliver an alarm late.

The optical receiver is a page with workers: decode workers answer the page over
one channel and send what they read to the fountain worker over another, the
fountain worker answers the page over a third, and the assembler's calls wait in
a chain of promises while the user changes the mode or leaves.

The behaviours that are hard: eventual consistency of KV, crashes between two
stores, alarms that arrive late, socket events that arrive after the socket was
replaced, several clocks (heartbeat, grace, expiry) behind one alarm, and work in
the browser that goes on after what it was done for has been superseded.
`PROJECT.json` lists them as hazards, each at its line.

## 2. Modules

- `ReadAllowance` is what a read limit promises: a version opens once, is read at
  most `Limit` times while it is open, and never opens again.
- `PasteReadCounter` is the counter object of one version. `stored` and `alarm`
  are the object's storage; `scheduling` holds the requests whose transaction is
  done and whose `scheduleCleanup` is not, so that a `Crash` can fall in between;
  `status`, `retired` and `granted` are the caller's progress and history. Each
  request is the whole transaction (`Consume`, `Peek`, `InitCounter`, `Retire`)
  followed by `ScheduleCleanup`. A reader holds the metadata of its version for
  any length of time, so `Consume` and `Peek` stay enabled after the retirement.
- `MCPasteReadCounter` gives it a limit of 2 and instants; `PasteReadCounter_proofs`
  holds the theorems. Likewise `RoomMembership_proofs`, `P2PRoom_proofs` (the
  slots), `P2PRoomAlarm_proofs` (sockets, deadlines and the alarm),
  `PasteStore_proofs` and `P2PTransfer_proofs` of the modules below.
- `RoomMembership` has the methods of `P2PRoomMembershipStore` as operators from
  a stored membership to the next. `ReleaseCut` is what a crash leaves of a
  release whose key was deleted and whose counts were not put.
- `ReceiverSlots` is what a room promises about slots.
- `P2PRoom` is the room. `sockets` are the platform's sockets with their
  attachments (`who` is the role, `pingAt` the unanswered ping), `sender` and
  `receivers` the memory of the object, `membership`, `cleanupAt`, `expiresAt`,
  `exists` and `alarm` its storage. An action is an event of the object; the
  only await another event can fall into is the fetch of TURN credentials in
  `handleWebSocket`, so connecting is two actions. `Reschedule` is
  `rescheduleRoomAlarm`, which sets the alarm or closes the room, and is part of
  every handler that calls it. `Hibernate` is the constructor after a sleep,
  `Restart` and `RestartInRelease` a crash.
- `MCP2PRoom` names two receivers and the small sets of limits and windows.
- `PasteStore` is one paste name. `index` is the committed KV value, `stale` the
  values another location may still answer; `objects` and `queue` are R2 and the
  queue with their times, `remaining` and `retired` the counters as seen by the
  store, `location` and `expiresAt` the metadata of a version. `writer`,
  `reader` and `sweep` are the program counters of the running requests: one
  action per await. A write is identified with the version it creates.
- `MCPasteStore` names two writes, a delete and two readers.
- `P2PTransfer` is one sender page and one receiver page (`p2pSender.ts`,
  `p2pReceiver.ts` and their helpers in `p2p/`). `toReceiver` and `toSender` are the
  data channel's two directions; `recv.link` is its state, and `links` counts the
  channels there have been. The sender has its published version (`current`), those
  it has forgotten (`released`), those it keeps for this receiver (`refs`), and
  `peer`: the transfer's state (`peer.xfer`), the window (`sent`, `acked`) and
  `peer.op`, the loop of `send()` or `resendBlocks()`, one chunk a step (`SendChunk`,
  `FinishSend`, `RepairBlock`). The receiver is `recv` (the transfer's state, the
  version it works on, what it has asked for on this channel, a stop that waits),
  `check` (manifest, retries and repairs) and `disk`, the queue of storage
  operations, with `stored`, `durable` (what of it is flushed) and `saved` (the
  checkpoint). An entry of the queue belongs to the channel it came through, to
  nobody (the user's own operations) or to a channel that is gone, in which case it is
  carried out and not answered. A chunk is the version and position it was cut from, so
  that a file is the sequence of what was stored. `Connect` stands for a recovery
  that succeeds, signaling included; `Break`, `RecoveryFails`, `ReadFails` (the
  sender's file), `StorageFails` (a write, a flush or the reading of the received file),
  `PrepareFails` (no store can be made) and `Reload` are the faults. `recv.failed` says
  that an error has been shown that left the transfer as it was. Two constants name
  what the default bounds leave out: `Overlaps` lets the user act, or a store fail,
  while a stop, a pause or old chunks still wait; `LateAnswers` lets an answer of the
  room come after the first request.
- `MCP2PTransfer` names the versions and their lengths.
- `UploadParts` has the arithmetic of `uploadPaste.ts` and `encryptionCore.ts`: where
  part i of a plain or encrypted file begins, how long it is, and what is stored.
- `MultipartUpload` is one call of the upload client with its requests, the `/mpu`
  handlers and R2's state of the upload. `client` is the phase of the call, `parts`
  the progress of each part (read, sent, acknowledged), `calls` the requests that the
  Worker may still carry out although the client has given them up, `stored`, `upload`
  and `object` R2's side. `MCMultipartUpload` chooses files, `MultipartUpload_proofs`
  holds the theorems.

- `PartAssembler` is `MultipartOpticalAssembler`, which puts parts together as they
  come. `queue` is the chain of promises (`work` in the code): the calls of `accept()`
  and the disposals of `reset()` that wait for their turn; `work` is the `accept()`
  that runs and the await it is in; `assembly` the parts received, staged and appended,
  `attached` whether it still is `this.assembly`; `disk` the temporary files that
  exist; `answer` the end of an `accept()` until its caller goes on. One action per
  await. A call in the queue carries the assembler's generation (`live`) and its
  caller's (`current`), which different operations of the page move on.
- `OpticalReceive` extends it to the page. `phase` is the attempt and the await it is
  in: `starting`, then `capturing` (a camera) or `parsing`, `ending`, `draining` (a file);
  a complete stream takes it through `progress` (the animation), `idle` and `drain`
  (the two barriers of `suspendReceiver`), `preparing` (the codecs) and `accepting` to
  `ready`, `result` or `failed`; `rejecting` and `rejectDrain` are those of a file that is
  not wanted; `switching` is the teardown of a change of mode. `tasks` is what each
  decode worker has, `frames` what is on its way to the fountain worker, `inbox` what
  that has sent to the page, `lead` the difference of the page's two counters.
  `expected` is what the page tells the fountain worker to accept; it is delivered
  when an input is opened, as only the last that was posted matters by then.
  `EarlySwitch` says whether the sender's user may show another part before the
  receiver asks for it; `lost` is a history variable: a worker was stopped with
  an answer, or with frames of its own still unread.
- `MCOpticalReceive` names the streams: the parts of one transfer and a file of its own.
  `OpticalReceive_proofs` holds the theorems of both.

How they compose: `OpticalReceive` is `PartAssembler` with its only caller. `P2PRoom` extends `RoomMembership` and refines `ReceiverSlots`;
`PasteReadCounter` refines `ReadAllowance`; `PasteStore` uses the counters through
what these properties promise (a consumed read is atomic, a retired version is
refused). `MultipartUpload` ends where `PasteStore` begins: its completed object is
the object a multipart write of the store publishes. `P2PTransfer` relies on the
room for one receiver at a time per link.


## 3. What each run checks

| run | question | bounds |
|---|---|---|
| `counter` | Is the read limit kept whatever seeds arrive, in whatever order, with crashes, and is the storage reclaimed? | 2 reads, expiry 2, clean-up 3, requests before 4: alarms fire before, between and after requests |
| `room_recovery` | Do counts, sockets, deadlines and the alarm agree, does the limit hold, is there one live socket per role, and does no receiver lose its slot before its grace is over, also after a sleep or a crash, in the middle of a release too? | 2 receivers, 3 connections, 1 crash, limit 1 or none, grace of 2 intervals, a room that expires at once or after an interval |
| `room_liveness` | Is a stored room always watched, is a disconnected receiver settled, an expired room deleted and a silent socket closed? | 2 receivers, 3 connections, limit 1, no crash; the clock runs past every deadline and heartbeat timeout |
| `room_stranded` | Does every slot have somebody who frees it, also after a crash? No. | 3 connections, 1 crash |
| `store_sweep` | Does the live version keep its object and reads whatever step of a write fails, and is an orphaned object reclaimed? | a direct and a multipart write, a delete, lost acknowledgements, time for several sweeps |
| `store_reads` | Is a directly written version that was found served, while it is replaced and swept? | 2 writes, one with a limit of 1 read; 2 reads |
| `transfer_resume` | Does a file arrive exactly, within the window, and does nothing hang but after an error was shown, when the link breaks, a file or the disk fails or a page reloads and the user pauses, resumes and stops? | 1 version of 3 chunks, window 2, 2 links, 2 clicks, 1 fault |
| `transfer_update` | When the sender replaces the file twice: is a verified file one version from end to end, is the checkpoint never ahead of the disk, and is a version kept while it is received? | versions of 2, 2 and 1 chunks, window 2, 2 links, 1 click, 1 fault, verification and repair |
| `transfer_twice` | Does a file arrive exactly when it was replaced while the receiver was away? No. | 2 versions, 2 links |
| `transfer_stalled` | Does a download settle when the room's answer comes late? No. | 1 version, 1 link |
| `upload_parts` | Is what is published whole and what is not released, whatever request is lost, late, refused or cancelled? | part size 5, header 2, tag 1, files up to 14 bytes (4 parts), plain and encrypted, 2 parts at a time |
| `optical_receive` | Are received parts persisted, kept once accepted, is no file left behind, do attempts not mix, is no wanted part refused or ignored, and does the page come back? | a transfer of 2 parts and a file of its own, 2 symbols per stream, 1 decode worker, 2 frames under way, 1 change of mode, source or pool, 1 failure of the disk or a worker |

Bounds. A slot conflict needs two receivers; a replaced socket needs two
connections of one role beside another's, so three connections; a late answer
needs an instant before and one after each deadline. The heartbeat timeout is
three intervals. A grace period of one interval (`room_liveness`) lets all the
clocks run out, one of two (`room_recovery`) lets an alarm that was set for the
heartbeat come in the middle of it. In the store, what is bounded is the number of requests on one name, and
`Horizon`, before which clients act; the clock runs on to `LastInstant`. Two
instants of KV staleness, a request span of one and a grace of three keep the
assumption `GraceAssumption`: the code's grace (see `R2_CLEANUP_GRACE_MS`) is
longer than a request and the propagation of a KV value. A transfer needs more
chunks than its window holds, so three and two; a resumption needs two links. Two versions of one length are
those a manifest does not tell apart, so that a file with chunks of both may pass the
verification; a third one lets the sender forget a version, with a click and a
fault at any step. An upload
needs a first, a middle and a last part, with one waiting while two are under
way: four parts; the part size leaves lengths that end on a part's boundary and
beside it. Two parts in any order show both ways of the assembler (append and
stage), and with a file of its own each reason to refuse a stream; two symbols
make a stream that is begun and not finished; one decode worker and two frames
under way let one attempt's frames and answers meet the next; one failure and
one change at any step are what the code handles at a time. Deadlock is not checked: the clock and the clients stop at their bounds.

Fairness. `FairSpec` of each module assumes what the platform promises: time
passes, a due alarm is delivered, a closed socket is reported closed, a fetch
returns, a request that began ends, and the cron schedule starts another sweep;
in the browser, a task that was queued runs, a channel delivers what was
sent or breaks, a recovery succeeds or gives up, and a worker that was given work
answers unless it fails. No client is assumed to do
anything. `StorageIsReclaimed` is claimed with crashes; a counter that crashes
before `setAlarm` and is never called again does keep its storage, and the
property says so. The liveness of the room is claimed without crashes.
`SilentSocketIsClosed` also rests on the bound on clients' events: each
`rescheduleRoomAlarm` pushes the heartbeat back, so a room with an event in
every interval never sends one.

## 4. Where the code and its documents disagree

Shown by a run:

1. `room_stranded`: the constructor (`worker/p2p/room.ts:107`) looks at sockets
   only. After a crash or a deployment a paired receiver has neither a socket
   nor a deadline: nothing frees its slot, and the receiver is refused with 429.
2. `transfer_twice`: a receiver that reconnects asks for the rest of its file in
   `onOpen` (`frontend/utils/p2pReceiver.ts:605`), and again when the meta message
   on the new channel names another version (`:509-518` forget that it has asked).
   Both answers are appended; chunks carry no offset.
3. `transfer_stalled`: the sender drops a download request that comes before the
   room's confirmation of the pair (`frontend/utils/p2p/senderTransfer.ts:44`); the
   receiver has noted the request and never repeats it on this channel.

Met while modelling, and excused by a property or excluded by a constant:

4. `rescheduleRoomAlarm` (`worker/p2p/room.ts:733`) closes the room when the earliest
   time it waits for has passed, and a receiver's overdue deadline is such a time.
   If the alarm is late and another event is handled first, every receiver loses
   its slot, although "A disconnected receiver keeps its signaling slot for 30
   seconds" (`doc/api.md:347-348`). `SlotKeptUnlessOverdue` excuses this. An
   update with the expiration 0 closes the room at once, which it excuses too.
5. The comment at `worker/storage/storage.ts:486-489` leaves the object of a deleted
   paste to "stale KV readers in other locations" for a grace period, but the
   bucket scan (`:557`) measures the grace from the upload, and looks up objects of
   multipart uploads whatever their expiry. `FoundDirectVersionIsServed` speaks of
   direct writes only.
6. A receiver that accepts an update, resumes or receives again while chunks of
   the broken channel wait for the storage queue appends them to the new file;
   a second stop, sent because a write failed after the user's stop, is answered
   with a second `stopped`, which ends the next download. `Overlaps` is FALSE in
   every run, which lets the user act only once the queue is empty.
7. The test of `p2pReceiver.ts:509-514` has no `isPausePending`, unlike `:546`: when the
   details of another version come while a pause waits for the disk, the receiver
   keeps part of a version that the sender has let go. So it is after a stop while an
   append of a broken channel still waits. `VersionIsRetained` excuses both: it speaks of
   a receiver whose chunks are of the version it works on. A manifest names no version,
   so a download of one version may verify and repair itself against another of the
   same size, and ends as a whole file of that one under the name of the first:
   `CompletedFileIsExact` fails then, and `VerifiedFileIsWhole` says what is left. A
   link that breaks while blocks are verified or repaired leaves the receiver
   waiting until its recovery ends. The sender may never learn that a file was
   received, if the link breaks just then. A receiver that is paused when the details
   come on a new channel sends a `pause` of its own (`:522-529`), whose `paused` may
   confirm the user's next pause: Resume, Pause, the old answer, Resume, and the chunks
   of two streams overlap. It takes three clicks; with three, and three links, TLC finds
   `BoundedBacklog` violated in an unverified transfer, and its file may end inexact.
   `transfer_resume` has two.
8. An upload that is cancelled, or loses its answer, during `/mpu/create` leaves R2's
   multipart state to R2's own lifecycle rule. A completion that the client gave
   up may still be published while it reports a failure. No request is retried.
9. The optical receiver drops a stream that completes while it is still finishing
   another (`frontend/optical/receive/receiver-transfer.ts:44`), and the fountain worker
   then ignores every frame of it (`fountain-worker.ts:93`), until the workers are
   released. It takes a sender who shows the next part before the receiver asks for
   it: with `EarlySwitch` TRUE, `DoneIsReceived` fails; the run has it FALSE. Without
   it two changes of mode do the same: the parts that were accepted before them are
   added while a file that belongs to no transfer is refused, and the transfer they
   complete leaves the page ready for any stream (`receiver-transfer.ts:99`) while the
   fountain worker still ignores the one it has finished. The run has one change.
10. A change of mode while the last part is being added deletes the completed file
   (`receiver-transfer.ts:196-198`) when all parts are in it, although the accumulator
   "intentionally survives" so that the summary "stays visible across mode switches
   and parts" (`receiver-controller.ts:693-694`). `PartsAreKept` excuses exactly this. An
   `accept()` that ends after its attempt does not refresh what the page shows and
   what the fountain worker expects (`receiver-transfer.ts:142`) until the next reset.
11. The barrier of `suspendReceiver` compares counters, and a decode worker that is
   stopped takes counted or uncounted frames with it: the barrier then ends early or
   waits until the mode is changed. A fountain worker that stops while the attempt
   finishes is not reported (`fountain-client.ts:75`). `QuietBetweenAttempts` and
   `ReceiverReturns` excuse both (`lost`, `crashed`).
12. Two parts with one transfer id and different metadata end the transfer with all
   its parts (`part-assembler.ts:163`); the transfer id is the hash of the file, so it
   takes a sender who renames it.
13. An error of the sender is only shown (`p2pReceiver.ts:568-569`): when its file cannot be
   read (`p2p/senderTransfer.ts:106-118`) it stops sending, and the receiver goes on
   waiting for a download that nobody sends, until the user pauses or stops it. So it is
   when no store can be made for a request that follows a reconnection (`:605`), new
   details (`:517`, `:538`) or an incomplete end (`:566`), where the channel counts as
   asked; only `requestDownload` (`:360-365`) gives up and returns to the beginning. A
   failed read of a block under repair (`p2p/senderTransfer.ts:167-173`) leaves the
   receiver repairing. `TransferSettles` excuses a download exactly so: after such an
   error (`recv.failed`), and only when nothing is under way any more (`Standstill`).

## 5. Proofs

`PasteReadCounter_proofs` proves, for every `Limit`, `ExpiresAt`,
`OriginalExpiresAt` and `Horizon` that are natural numbers (`CounterAssumption`,
the only assumption):

- `TypeCorrect`: `Spec => []TypeOK`;
- `OpenVersionCounted`: `Spec => []OpenVersionIsCounted`;
- `TombstoneOutlives`: `Spec => []TombstoneHolds`;
- `ReadLimit`: `Spec => Allowance!Spec`, the refinement of `ReadAllowance`;
- `Invariance`: `Spec => []IInv`, on which they rest.

None of the properties is inductive. The count of an open version could vanish
if the clean-up alarm came early, and the alarm is set from requests that are
still being scheduled; so `IInv` adds `OutlivesVersion` (what is stored, what is
scheduled and the alarm all reach to the version's expiry), `Counted` (the count
from `/init` on, before publication too) and `Lifecycle` (nothing is stored
before `/init`; only a published version is read or retired). One lemma per
action shows that it keeps `IInv`. `FoundIsStoredOrSeed` is the fact about
`reconcileRemainingReads` the argument turns on: with immutable metadata it never
changes what it finds.

`P2PRoom_proofs` proves, for every finite set of receivers and every value of the
other constants that satisfies `PeersAssumption` and `RoomAssumption`:

- `CountsCover`: `Spec => []CountsCoverMembers`;
- `SlotsImplemented`: `Spec => Slots!Spec`, the refinement of `ReceiverSlots`.

The argument is about the surplus of a membership, the stored count minus the
number of receivers it counts. `RoomMembership_proofs` shows with the library's
facts on cardinalities that every method of the store leaves the surplus as it
is, that a release cut short by a crash can only raise it, and what each does to
the slots. `NextMovesMembers` shows, one step per action, that every event of the
room is one of these. `SlotInv` (the surplus is never negative, and 0 in a room
that never crashed) is then inductive. `CountsCoverMembers` is not a property of
the current state of the counts alone: the limit is enforced on the count, the
promise is about the receivers, and the surplus is what connects the two.

`MultipartUpload_proofs` proves, for every part size, header, tag and number of
parallel uploads that satisfy `SizesAssumption` and `UploadAssumption`, and every
finite set of files:

- `PartsCoverFile`, `PartsAreUniform`, `StoredSizeIsTheSumOfParts`: the parts of
  a file laid end to end are the file, all but the last have the part size that R2
  asks for, and the announced size is their sum;
- `TypeCorrect`, `PublicationIsWhole`, `CompletionAccepted`: `Spec => []` of
  `TypeOK`, `PublishedIsWhole` and `CompletionIsAccepted`;
- `SilentAfterRelease`: `Spec => NothingSentAfterRelease`.

`PublishedIsWhole` is about R2's object, which is put together from what R2 has
stored; what the client knows is which parts were acknowledged. The inductive
invariant `Inv` connects them: `NeedsParts` (a completion is sent only when every
part was acknowledged), `AcknowledgedIsStored` (what was acknowledged is stored,
with the size of its part, as long as the upload is open), `CreatedOnce` and
`CompletedOnce` (requests that were given up may come late, but there is at most
one of each) and `FailureIsSignalled` (the client releases an upload only after its
abort signal, which every worker reads before it sends). The geometry is proved
from the definitions of `UploadParts` by cases on the last part.

`PasteStore_proofs` proves, for any sets of writes, deletes and reads and every limit,
lifetime, grace, staleness and request time that satisfy `StoreAssumption` and
`GraceAssumption` (the grace is longer than a request and the propagation of an index
entry):

- `StoreIsTyped`: `Spec => []TypeOK`;
- `LiveVersionKeepsItsBody`, `LiveVersionKeepsItsReads`: `Spec => []` of
  `LiveObjectPresent` and `RetiredIsReplaced`;
- `FoundDirectVersionKeepsItsBody`: under `~LostAcks`,
  `Spec => []FoundDirectVersionIsServed`, whatever is uploaded in parts beside it.

`LiveObjectPresent` speaks of the index and of R2; what connects them is the queue and
the sweep, which deletes an object it has looked up some time ago. `LiveInv` follows a
version through them: `Timed` (no request and no stale index value is older than its
limit), `FreshIsUnknown` and `FreshObject` (nobody but its own request knows of a
version that is being written, whose object is there before the index is put),
`OriginalIsReplaced` (a write cleans up after a version that the index does not name),
`QueuedIndexIsSettled` and `UploadedIndexIsSettled` (the index names a queued version
only after a late put, and no location serves anything else once the grace is over),
`SweepIsSound` and `ReapingIsDead` (the sweep and the readers delete the live version
only when nobody can read it). `ReadInv` adds what a reader of a stale index value
rests on: `QueuedIsFading` (a version is queued once it is replaced, and is found for
the staleness after that), `SweptIsForgotten` (nobody finds or reads what the sweep
takes from the queue) and `BodyIsKept`. Two hypotheses are needed. A put that is reported as failed
and was stored has its entry queued from that failure: when the version is replaced
later by a write that did not find it, the sweep takes the old entry without a new
grace, while readers of the stale value are under way (TLC finds this with
`LostAcks` TRUE). And the bucket scan, which reclaims uploads in parts, measures its
grace from the upload (item 5 above).

`P2PRoomAlarm_proofs` proves, for every finite set of receivers and every value of
the constants that satisfies `PeersAssumption` and `RoomAssumption`, restarts and
sleeps included:

- `RoomIsTyped`: `Spec => []TypeOK`;
- `OneSocketOfEachRole`: `Spec => []OneLiveSocketPerRole`;
- `NoDeadlineIsMissed`: `Spec => []DeadlineHasAlarm`;
- `SlotsAreKept`: `Spec => SlotKeptUnlessOverdue`;
- `RoomIsNeverForgotten`: `FairSpec => []RoomIsWatched` (`FairSpec` has neither crashes
  nor sleeps).

`RoomInv` says how sockets and memory are wired (`Wired`: an accepted socket that is
open is the one its role remembers; `Unused`: socket numbers that were not given out
are free) and that deadlines belong to receivers that are away and have an alarm no
later than themselves. `NextAlarm` and `RescheduleEffect` are the facts about
`rescheduleRoomAlarm`, which computes the one alarm anew from all clocks, and each
action has a lemma. `SlotsAreKept` goes through every step that removes a key of a
paired receiver (`OnlyReleaseUnpairs`) and names its reason (`LostForAReason`); the
proof showed that an update with the expiration 0 is one, which the run did not
reach until its windows had 0.

`P2PTransfer_proofs` proves, for every list of versions and every window, interval
and bound that satisfies `TransferAssumption`:

- `TransferInvariance`: `Spec => []TransferInv`;
- `TransferIsTyped`: `Spec => []TypeOK`;
- `CheckpointsAreDurable`: `Spec => []CheckpointIsDurable`;
- `SessionInvariance`: `Spec => []SessionInv`;
- `BlocksInPlace`: where the sender has one version, `Spec => []PlaceInv`;
- `VerifiedFilesAreWhole`, `VerifiedFilesAreExact`: where the sender has one version
  (`OneVersion`), `Spec => []VerifiedFileIsWhole`, and, if it is verified,
  `Spec => []CompletedFileIsExact`. `Overlaps` and `LateAnswers`, which the runs
  leave out, may be TRUE.

Types do not follow from types here: a chunk is cut from the version the session
works on, so `Working` says that a session that sends has one; a manifest is compared
with the version the receiver has details of, so `Checked` and `Entries` say that
nothing is verified, replaced or asked for without them. `StoreInv` carries the
checkpoint through truncation, repair and reload: what it counts is flushed, and what
is flushed is stored.

A verified file can be wrong if it changes between the comparison of its blocks
and its completion. What may still change it waits in the storage queue, so the
argument is about its order. `SessionInv` has three parts: one handler of the receiver
waits for the queue at a time, and the entries that a broken channel left are in front
of all others (`QueueInv`); a sender whose channel is closed has nothing under way
(`QuietWhenClosed`); while a transfer is under way no old entry waits (`FreshInv`),
as the entry that let it begin was behind them. `PlaceInv` is about the blocks of a
repair, which the receiver stores where the block is said to belong, and not where its
bytes were cut from. A repair may end between any two of its messages (a failed read, a
pause, another download), and chunks of other places may follow: so for the end of a
block on the channel, and for a block that the sender is at, whatever chunk of another
place came before is followed by a new start of that block, which makes the receiver
forget what it has. From these `VerifiedInv` is
inductive:
whoever waits for a manifest has all the data (`ManifestHasData`); the blocks that a
verification passed, in whatever entry its result waits, and those that are not under
repair are the sender's (`VerifySound`, `RepairSound`); so is the file from the last
verification on to its completion (`FileSound`, `FilesSound`). With several versions the
manifest may be another one's than the data's (item 7), so that a verification says
nothing about the blocks still to be repaired from a third version; TLC finds no
violation of `VerifiedFileIsWhole` there, and its proof needs another invariant.

`OpticalReceive_proofs` proves, for every number of parts, streams, decode workers,
frames, failures and changes of the page that satisfies `AssemblerAssumption` and
`ReceiverAssumption`:

- `Persisted`: `Spec => []ReceivedIsPersisted`;
- `NoLeak`: `Spec => []NothingLeaked`;
- `QuietBetween`: `Spec => []QuietBetweenAttempts`;
- `PartsKept`: `Spec => PartsAreKept`, under `OneName`: the parts of a transfer agree
  on the name of its file, as those of one sender do (item 12 above);
- `DoneReceived`: `Spec => []DoneIsReceived`, and `WholeApngRead`:
  `Spec => WholeApngIsRead`, both under `Patient`: the sender shows another part only
  when the receiver asks for it, and the user changes the mode, the source or the pool
  at most once. The hypothesis is that of the run, and is needed: TLC finds each
  property violated with two changes (item 9 above).

The first two speak of an assembler at rest, and neither is inductive. `Inv` says what
holds at every await of `accept()`: `Consistent` (the part that is being added is the
only difference between what is counted and what is on the disk), `DisposalsFirst`
(what is queued for disposal is detached, and the calls before it are refused), `Owned`
(every file has one owner: the assembly, the call that stages it, or, for the result,
the call, its answer or the page), `DetachedIsDisposed` (a detached assembly with
files is in the queue) and `OneAttempt` (the call of the attempt that goes on is the
last one, so that nobody deletes or keeps another's result). The steps of the page
are put into four classes (`Keeps`, `Supersedes`, `Forgets`, `Resets`), each of which
keeps `Inv`; those of the assembler have a lemma each for either half.

`QuietBetween` is the argument for the barrier of `suspendReceiver`, which compares
two counters of the page. `Balanced` counts: their difference, and the decode workers
that have forwarded a payload and not answered yet, are together as many as the
payloads that wait for the fountain worker and its acknowledgements that wait for the
page. When no decode worker has a task and
the difference is 0 or less, both are empty; and as every message is followed by an
acknowledgement (`AcknowledgedLast`), so is the inbox. The identifiers of streams must
differ from the two marks the model puts in `tasks`.

`PartsKept` rests on `KeptInv`: a call that belongs to the attempt that goes on has
not been reset (`CallsAreLive`), so it is refused only for a failure, and the last part
that comes finds every other one appended (`Completes`), so that complete() compares
the whole file. It is an action property, and each class of steps is shown to lose
nothing but what the property names.

`DoneReceived` and `WholeApngRead` relate what four parties know: what the page expects,
what the fountain worker was told to expect and has done with, what is shown, and what
the `accept()` of an attempt that was superseded may still change. `StrayInv` is about the
last: a change of the mode leaves at most one such call (`OneStray`), and what the page
expects is of the transfer that call works on, or the call has only begun one
(`StrayExpected`); it holds whatever is lost or fails. The rest holds until a worker is
lost or something fails (`Smooth`). While input is read the fountain worker has been told
what the page expects (`Told`), what is under way and wanted is what is shown, or the
part that is being finished (`OneWanted`), a file has the frames of one stream (`OneFile`),
a verdict is only of what is not wanted (`RefusedIsUnwanted`), and a container on its
way is of the stream that is shown (`ReportedIsDone`). So a stream that the fountain worker
ignores has its container on its way, or has been added to a transfer that nobody
ends behind the page's back (`DoneWith`, `IgnoredIsUnwanted`). For files this is
counted: of a stream that is wanted, the frames to be submitted, those that are decoded,
those on their way and those collected are as many as its decoder needs (`FileCounted`),
and no stream was begun before (`OneCollected`). When all of them are processed none is
under way, so that they are all collected, and the stream has been reported.

Only model-checked:

- `CompletedFileIsExact` without verification, and `BoundedBacklog` (of `P2PTransfer`).
  They are true of what their run has and not in general: of one version, of two clicks,
  and of a user who does not act while old chunks wait (items 2, 6 and 7 above).
- `VerifiedFileIsWhole` with several versions, and `VersionIsRetained`, which holds for
  the versions, links and clicks of its run and is not claimed beyond.
- Everything that says that something happens in the end: liveness under fairness is
  out of the prover's reach.

## 6. Not modelled

Left out of the modelled components: passwords and authorization, formatting of
metadata, Range and conditional responses and caching in the store, and the
paging cursors of its sweep (a sweep lists everything at once); the choice of
random names; offers, answers and candidates that a room relays; the sleep of a
room between the heartbeat's close of a socket and the event of it, but for
`OneLiveSocketPerRole`; what comes between the two calls of a room's creation, the status
and `/init` (`worker/p2p.ts:85-106`; somebody else calls that room only when two requests
draw one random name); in the browser, hashing that fails, a store whose deletion fails
(which the code ignores), a flush that fails behind an append apart from the append
itself, the signaling of a connection and the timers
of its recovery (a recovery succeeds or gives up at any time), several receivers
of one sender, and the size of messages; in the optical receiver, failures that end as
others do (a pool that gives up after too many restarts, `shared/worker-pool.ts:90-99`;
an APNG frame that is not decoded, `receive/receiver-controller.ts:351-353`; a container
that does not match its tag, `receive/fountain-worker.ts:124-127`), the late
`resetReceiver()` of a rejected APNG whose attempt was superseded while its barrier waited
(`:407-411` do not compare the generation again), cameras,
screens and their settings, the decoding of frames and symbols, compression and
every size.

Not modelled at all, with the reason: TURN credentials (a cache in front of an
external service); request routing, access checks and the access metric
(sequential, or sampled at random); rendered pages and parsers (pure functions
of text); the web application (React state around the transfers above); the
optical sender (it shows what its user chooses, over and over); the codecs
(numeric code of libraries); the shell client.

## 7. Plan

Next, in this order: the signaling and recovery timers of the browser
(`p2p/senderRecovery.ts`, `p2p/receiverRecovery.ts`) composed with `P2PRoom`; several
receivers of one sender; the cursors of the sweep; the TURN cache with its
refresh and its health probe; byte ranges. Proofs: `VerifiedFileIsWhole` with several
versions.

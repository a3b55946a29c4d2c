-------------------------- MODULE MultipartUpload ---------------------------
(***************************************************************************)
(* One multipart upload: the client (shared/uploadPaste.ts), which sends   *)
(* the parts of a file a few at a time and releases the upload when        *)
(* anything fails, the handlers of /mpu/* (worker/handlers/handleMPU.ts,   *)
(* handleWrite.ts), and the multipart state R2 keeps between them.         *)
(*                                                                         *)
(* Requests are handled in any order; any may be lost or refused, and the  *)
(* client may give up on one that is handled all the same, for a request   *)
(* it has cancelled may already have left.  A refusal and a lost answer    *)
(* are the same to the client, which throws either way, so only answers    *)
(* that report success are kept.  There are no retries.                    *)
(*                                                                         *)
(* Left out: progress, the metadata form, and everything about the name    *)
(* the upload is published under (PasteStore, which has the version a      *)
(* completed upload creates compete with the other writes to its name).    *)
(***************************************************************************)
EXTENDS UploadParts, FiniteSets

CONSTANTS
  Uploads,      \* the files a client may upload
  Concurrency   \* parts sent at a time

ASSUME UploadAssumption == Uploads \subseteq Files /\ Concurrency \in Nat \ {0}

VARIABLES
  file,         \* what is uploaded
  client,       \* how far uploadMPUSource is
  signal,       \* ctrl.signal.aborted
  createResp,   \* has the answer of /mpu/create been read?
  nextIndex,    \* mapWithConcurrency: the next part to take
  parts,        \* mapWithConcurrency: what became of each part
  network,      \* requests on their way to a handler
  answers,      \* successful answers on their way to the client
  upload,       \* R2: "none", "open", "complete" or "aborted"
  stored,       \* R2: the parts it has been sent while the upload was open
  object,       \* R2: the parts of the completed object
  handler,      \* the Worker that handles /mpu/complete, after R2 has answered
  published,    \* does the paste have its version?
  abortLost     \* history: the request to release the upload was lost

clientVars == <<client, signal, createResp, nextIndex, parts>>
r2Vars == <<upload, stored, object>>
vars == <<file, clientVars, network, answers, r2Vars, handler, published, abortLost>>

Request(op) == [op |-> op, index |-> 0]
PartRequest(i) == [op |-> "part", index |-> i]
Requests == {Request("create"), Request("complete"), Request("abort")}
            \cup {PartRequest(i) : i \in Indices(file)}

\* Only a file that does not fit into a direct upload gets here.
Init ==
  /\ file \in {f \in Uploads : StoredSize(f) > PartSize}
  /\ client = "preparing"
  /\ signal = FALSE
  /\ createResp = FALSE
  /\ nextIndex = 0
  /\ parts = [i \in Indices(file) |-> "waiting"]
  /\ network = {}
  /\ answers = {}
  /\ upload = "none"
  /\ stored = {}
  /\ object = {}
  /\ handler = "idle"
  /\ published = FALSE
  /\ abortLost = FALSE

-----------------------------------------------------------------------------
(* The client.                                                             *)

Send(request) == network' = network \cup {request}

Active == client \in {"preparing", "creating", "uploading", "completing"}
Ended == client \in {"succeeded", "failed", "gone"}

\* As Raise, but the requests and reads in progress go on.
ForgetfulRaise ==
  /\ UNCHANGED signal
  /\ IF createResp
     THEN client' = "releasing" /\ Send(Request("abort"))
     ELSE client' = "failed" /\ UNCHANGED network

\* As Raise, but an upload that was cancelled is not released.
DeafRaise ==
  /\ signal' = TRUE
  /\ IF createResp /\ ~signal
     THEN client' = "releasing" /\ Send(Request("abort"))
     ELSE client' = "failed" /\ UNCHANGED network

\* The catch of uploadMPUSource: cancel what is in progress, release the upload.
Raise ==
  /\ signal' = TRUE
  /\ IF createResp
     THEN client' = "releasing" /\ Send(Request("abort"))
     ELSE client' = "failed" /\ UNCHANGED network

Create ==
  /\ client = "preparing"
  /\ \/ ~signal /\ client' = "creating" /\ Send(Request("create")) /\ UNCHANGED signal
     \/ signal /\ Raise
  /\ UNCHANGED <<file, createResp, nextIndex, parts, answers, r2Vars, handler, published, abortLost>>

OnCreated ==
  /\ client = "creating" /\ ~signal /\ Request("create") \in answers
  /\ createResp' = TRUE
  /\ client' = "uploading"
  /\ UNCHANGED <<file, signal, nextIndex, parts, network, answers, r2Vars, handler, published, abortLost>>

\* Refused, not answered, or cancelled: what it created is not known.
FailCreate ==
  /\ client = "creating"
  /\ Raise
  /\ UNCHANGED <<file, createResp, nextIndex, parts, answers, r2Vars, handler, published, abortLost>>

Busy == {i \in DOMAIN parts : parts[i] \in {"reading", "sending"}}
PartFailed == \E i \in DOMAIN parts : parts[i] = "failed"
AllUploaded == \A i \in DOMAIN parts : parts[i] = "uploaded"

\* As StartPart, but the end of the parts is overrun by one.
OverrunStartPart ==
  /\ client = "uploading" /\ ~PartFailed
  /\ nextIndex <= PartCount(file) /\ Cardinality(Busy) < Concurrency
  /\ nextIndex' = nextIndex + 1
  /\ parts' = [i \in DOMAIN parts |-> IF i = nextIndex THEN "reading" ELSE parts[i]]
  /\ UNCHANGED <<file, client, signal, createResp, network, answers, r2Vars, handler, published, abortLost>>

\* A run of mapWithConcurrency takes the next part, unless one has failed.
StartPart ==
  /\ client = "uploading" /\ ~PartFailed
  /\ nextIndex < PartCount(file) /\ Cardinality(Busy) < Concurrency
  /\ nextIndex' = nextIndex + 1
  /\ parts' = [parts EXCEPT ![nextIndex] = "reading"]
  /\ UNCHANGED <<file, client, signal, createResp, network, answers, r2Vars, handler, published, abortLost>>

\* The part has been read (and encrypted); the signal is checked before it is sent.
SendPart(i) ==
  /\ parts[i] = "reading" /\ ~signal
  /\ parts' = [parts EXCEPT ![i] = "sending"]
  /\ Send(PartRequest(i))
  /\ UNCHANGED <<file, client, signal, createResp, nextIndex, answers, r2Vars, handler, published, abortLost>>

OnPart(i) ==
  /\ parts[i] = "sending" /\ ~signal /\ PartRequest(i) \in answers
  /\ parts' = [parts EXCEPT ![i] = "uploaded"]
  /\ UNCHANGED <<file, client, signal, createResp, nextIndex, network, answers, r2Vars, handler, published, abortLost>>

\* As FailPart, but a request that is cancelled never settles.
AbortDeafFailPart(i) ==
  /\ parts[i] \in {"reading", "sending"} /\ (signal => parts[i] = "reading")
  /\ parts' = [parts EXCEPT ![i] = "failed"]
  /\ IF client = "uploading" THEN Raise ELSE UNCHANGED <<client, signal, network>>
  /\ UNCHANGED <<file, createResp, nextIndex, answers, r2Vars, handler, published, abortLost>>

\* The read or the request fails, or is cancelled: the first to fail rejects.
FailPart(i) ==
  /\ parts[i] \in {"reading", "sending"}
  /\ parts' = [parts EXCEPT ![i] = "failed"]
  /\ IF client = "uploading" THEN Raise ELSE UNCHANGED <<client, signal, network>>
  /\ UNCHANGED <<file, createResp, nextIndex, answers, r2Vars, handler, published, abortLost>>

\* All parts have been acknowledged: complete, with the list of their tags.
Complete ==
  /\ client = "uploading" /\ AllUploaded
  /\ \/ ~signal /\ client' = "completing" /\ Send(Request("complete")) /\ UNCHANGED signal
     \/ signal /\ Raise
  /\ UNCHANGED <<file, createResp, nextIndex, parts, answers, r2Vars, handler, published, abortLost>>

OnCompleted ==
  /\ client = "completing" /\ ~signal /\ Request("complete") \in answers
  /\ client' = "succeeded"
  /\ UNCHANGED <<file, signal, createResp, nextIndex, parts, network, answers, r2Vars, handler, published, abortLost>>

FailComplete ==
  /\ client = "completing"
  /\ Raise
  /\ UNCHANGED <<file, createResp, nextIndex, parts, answers, r2Vars, handler, published, abortLost>>

\* The request to release is answered, fails, or has taken five seconds.
Released ==
  /\ client = "releasing"
  /\ client' = "failed"
  /\ UNCHANGED <<file, signal, createResp, nextIndex, parts, network, answers, r2Vars, handler, published, abortLost>>

\* The user cancels, or leaves the page (which the request to release survives).
Cancel ==
  /\ Active /\ ~signal
  /\ signal' = TRUE
  /\ UNCHANGED <<file, client, createResp, nextIndex, parts, network, answers, r2Vars, handler, published, abortLost>>

\* The browser is killed.
Kill ==
  /\ Active
  /\ client' = "gone" /\ signal' = TRUE
  /\ parts' = [i \in DOMAIN parts |-> IF i \in Busy THEN "failed" ELSE parts[i]]
  /\ UNCHANGED <<file, createResp, nextIndex, network, answers, r2Vars, handler, published, abortLost>>

-----------------------------------------------------------------------------
(* The handlers and R2.                                                    *)

Receive(request) ==
  /\ request \in network
  /\ network' = network \ {request}

Answer(request) == answers' = answers \cup {request}

HandleCreate ==
  /\ Receive(Request("create"))
  /\ upload' = "open"
  /\ Answer(Request("create"))
  /\ UNCHANGED <<file, clientVars, stored, object, handler, published, abortLost>>

\* Without an open upload, the answer is 410.
HandlePart(i) ==
  /\ Receive(PartRequest(i))
  /\ upload = "open"
  /\ stored' = stored \cup {i}
  /\ Answer(PartRequest(i))
  /\ UNCHANGED <<file, clientVars, upload, object, handler, published, abortLost>>

\* R2 has every listed part, and all but the last are of the same size.
Listed == Indices(file)
AcceptsParts ==
  /\ Listed \subseteq stored
  /\ \A i \in Listed :
       IF i = PartCount(file) - 1 THEN PartLength(file, i) \in 1 .. PartSize
       ELSE PartLength(file, i) = PartSize

\* handleMPUComplete: R2 assembles the object; the paste is still as it was.
HandleComplete ==
  /\ Receive(Request("complete"))
  /\ upload = "open" /\ AcceptsParts
  /\ upload' = "complete"
  /\ object' = Listed
  /\ handler' = "persisting"
  /\ UNCHANGED <<file, clientVars, answers, stored, published, abortLost>>

\* The object is too large: it is deleted, if that succeeds.
RejectOversized ==
  /\ handler = "persisting"
  /\ object' \in {{}, object}
  /\ handler' = "idle"
  /\ UNCHANGED <<file, clientVars, network, answers, upload, stored, published, abortLost>>

\* createPaste or updatePaste.
Persist ==
  /\ handler = "persisting"
  /\ published' = TRUE
  /\ Answer(Request("complete"))
  /\ handler' = "idle"
  /\ UNCHANGED <<file, clientVars, network, r2Vars, abortLost>>

\* It fails, or the Worker is stopped: the object is left to the sweep.
FailPersist ==
  /\ handler = "persisting"
  /\ handler' = "idle"
  /\ UNCHANGED <<file, clientVars, network, answers, r2Vars, published, abortLost>>

\* An upload that is complete or already aborted stays what it is.
HandleAbort ==
  /\ Receive(Request("abort"))
  /\ upload' = IF upload = "open" THEN "aborted" ELSE upload
  /\ UNCHANGED <<file, clientVars, answers, stored, object, handler, published, abortLost>>

\* A request is lost or refused, or R2 fails it.
Drop(request) ==
  /\ Receive(request)
  /\ abortLost' = (abortLost \/ request = Request("abort"))
  /\ UNCHANGED <<file, clientVars, answers, r2Vars, handler, published>>

-----------------------------------------------------------------------------
PartStep(i) ==
  \/ SendPart(i) \/ OnPart(i) \/ FailPart(i)
  \/ HandlePart(i)

Next ==
  \/ Create \/ OnCreated \/ FailCreate
  \/ StartPart
  \/ \E i \in Indices(file) : PartStep(i)
  \/ Complete \/ OnCompleted \/ FailComplete
  \/ Released \/ Cancel \/ Kill
  \/ HandleCreate \/ HandleComplete \/ HandleAbort
  \/ RejectOversized \/ Persist \/ FailPersist
  \/ \E request \in network : Drop(request)

Spec == Init /\ [][Next]_vars

\* Every request of the client ends, in an answer or an error, and so does
\* every read; the handlers run on what reaches them.
Fairness ==
  /\ WF_vars(Create) /\ WF_vars(OnCreated \/ FailCreate)
  /\ WF_vars(StartPart)
  /\ \A i \in UNION {Indices(f) : f \in Uploads} :
       WF_vars(i \in Indices(file) /\ (SendPart(i) \/ OnPart(i) \/ FailPart(i)))
  /\ WF_vars(Complete) /\ WF_vars(OnCompleted \/ FailComplete)
  /\ WF_vars(Released)
  /\ WF_vars(HandleAbort)

FairSpec == Spec /\ Fairness

-----------------------------------------------------------------------------
(* Properties.                                                             *)

\* A part is busy or settled only once it was taken; R2 has only parts of the
\* file; requests and answers are those the client makes.
TypeOK ==
  /\ file \in Files
  /\ client \in {"preparing", "creating", "uploading", "completing", "releasing",
                 "succeeded", "failed", "gone"}
  /\ signal \in BOOLEAN /\ createResp \in BOOLEAN
  /\ nextIndex \in 0 .. PartCount(file)
  /\ parts \in [Indices(file) -> {"waiting", "reading", "sending", "uploaded", "failed"}]
  /\ network \subseteq Requests
  /\ answers \subseteq Requests
  /\ upload \in {"none", "open", "complete", "aborted"}
  /\ stored \subseteq Indices(file)
  /\ object \subseteq Indices(file)
  /\ handler \in {"idle", "persisting"}
  /\ published \in BOOLEAN /\ abortLost \in BOOLEAN

\* The parts of the object, laid end to end, are the file.
Whole ==
  /\ object = Indices(file)
  /\ PartBounds(file, 0).start = 0
  /\ \A i \in Indices(file) :
       PartBounds(file, i).end = IF i + 1 \in object THEN PartBounds(file, i + 1).start
                                 ELSE file.size

\* What is published is the whole file, and what the client reports as
\* uploaded is published, whatever was lost, late or cancelled on the way.
PublishedIsWhole ==
  /\ client = "succeeded" => published
  /\ published => Whole

\* A completion that reaches an open upload is not refused for its parts:
\* R2 has them all, and their sizes are those R2 asks for.
CompletionIsAccepted ==
  Request("complete") \in network /\ upload = "open" => AcceptsParts

\* Once the upload has failed, the runs that still read or wait send nothing
\* more: the request that releases the upload is the last.
NothingSentAfterRelease ==
  [][(client \in {"releasing", "failed", "gone"}) => network' \subseteq network]_vars

\* What R2 holds of an unfinished upload is released.  Excused: the browser was
\* killed, the answer of /mpu/create was never read, the request was lost.
UploadIsReleased ==
  upload = "open" ~> \/ upload # "open"
                     \/ client = "gone" \/ (client = "failed" /\ ~createResp)
                     \/ abortLost

\* Every upload ends.
UploadEnds == <>Ended
=============================================================================

---------------------------- MODULE ControlPlane ----------------------------
(***************************************************************************)
(* One canonical generation as the Cloudflare Worker (worker.js) sees it:  *)
(* the submission, RunPod's record of the job, the GPU worker's callbacks, *)
(* the client's /status, /cancel and DELETE requests, R2 and the job's     *)
(* Durable Object.                                                         *)
(*                                                                         *)
(* Every request runs in an isolate of its own and may stop, fail or be    *)
(* overtaken at each await: `req` holds the requests under way, and one    *)
(* action is what a request does between two awaits. The Durable Object    *)
(* merges one update at a time (its input gate keeps get and put of        *)
(* /update together), so a push is one step; a read and the push that      *)
(* follows it are two.                                                     *)
(***************************************************************************)
EXTENDS Naturals, FiniteSets

CONSTANTS
  Requests,      \* slots for requests the Worker serves at the same time
  Refs,          \* reference objects of the generation
  Confidential,  \* privacyMode, signed into the upload token
  MaxAttempts    \* how often RunPod starts the job

ASSUME ConfidentialAssumption == Confidential \in BOOLEAN
ASSUME AttemptsAssumption     == MaxAttempts \in Nat \ {0}

VARIABLES
  submit,    \* POST /canonical/generate
  runpod,    \* RunPod's status of the job
  swept,     \* the cron has run since that status became terminal
  attempt,   \* how often RunPod has started the job
  gpu,       \* the GPU worker's current attempt
  net,       \* progress callbacks under way; the GPU waits 3 s for each
  chan,      \* the state the job's Durable Object stores
  objects,   \* artefacts in R2
  refs,      \* reference objects in R2
  req,       \* [slot -> the request in it]
  asked,     \* client operations so far (history)
  ended      \* an attempt delivered or gave up (history)

vars == <<submit, runpod, swept, attempt, gpu, net, chan, objects, refs, req, asked, ended>>

Forms    == {"plain", "cipher"}
Objects  == [key : {"video.mp4", "artifact.enc"}, form : Forms]
Verdicts == {"completed", "failed", "cancelled"}
Reports  == {"sampling", "completed", "failed"}

\* What /status says of the artefact. unread: the channel did not answer;
\* guess: RunPod lists a video and the channel knows no artefact.
Descriptions == {"unread", "none", "guess", "deleted", "plain", "cipher"}

NoSnapshot == [verdict |-> "none", artifact |-> "none"]
Snapshots  == [verdict : Verdicts, artifact : Descriptions]

Channel ==
  [phase : {"none", "queued", "cancelled"} \cup Reports,
   video : {"none", "video.mp4", "artifact.enc", "deleted"},
   artifact : {"none", "deleted"} \cup Forms,   \* what `encrypted` says
   refs : SUBSET Refs,                          \* referenceObjectKeys
   snapshot : Snapshots \cup {NoSnapshot}]      \* terminalResult

\* A request: its handler, the await it is at, the verdict of a poll, the attempt
\* and body of an upload, and what it read from the channel.
Idle == [op |-> "idle", at |-> "none", verdict |-> "none", attempt |-> 0,
         form |-> "plain", refs |-> {}, artifact |-> "none"]
Ops  == {"progress", "upload", "cancel", "status", "delete"}
Ats  == {"put", "push", "read", "cleanup", "forget", "ack", "persist", "remove"}
Request ==
  [op : Ops, at : Ats, verdict : Verdicts \cup {"none"}, attempt : 0 .. MaxAttempts,
   form : Forms, refs : SUBSET Refs, artifact : Descriptions]

Terminal == {"COMPLETED", "FAILED", "TIMED_OUT", "CANCELLED"}

\* Mutant of Verdict: the upstream status shines through.
VerdictUpstream(status) ==
  CASE status = "COMPLETED" -> "completed"
    [] status = "CANCELLED" -> "cancelled"
    [] status = "TIMED_OUT" -> "timed_out"
    [] OTHER -> "failed"

\* normalizeRunPodJobStatus; "failed" also for COMPLETED with an output.error.
Verdict(status) ==
  CASE status = "COMPLETED" -> "completed"
    [] status = "CANCELLED" -> "cancelled"
    [] OTHER -> "failed"

GpuStates == {"off", "running", "uploading", "delivered", "failed",
              "reported_completed", "reported_failed"}

TypeOK ==
  /\ submit \in {"new", "posted", "answered", "failed"}
  /\ runpod \in {"none", "IN_QUEUE", "IN_PROGRESS", "expired"} \cup Terminal
  /\ swept \in BOOLEAN
  /\ attempt \in 0 .. MaxAttempts
  /\ gpu \in GpuStates
  /\ net \subseteq Reports
  /\ chan \in Channel
  /\ objects \subseteq Objects
  /\ refs \subseteq Refs
  /\ req \in [Requests -> Request \cup {Idle}]
  /\ asked \subseteq {"cancel", "delete"}
  /\ ended \in BOOLEAN
  \* Only a record in progress has a worker, and only a submission a record.
  /\ gpu # "off" => runpod = "IN_PROGRESS"
  /\ submit = "new" => runpod = "none"

Init ==
  /\ submit = "new"
  /\ runpod = "none"
  /\ swept = FALSE
  /\ attempt = 0
  /\ gpu = "off"
  /\ net = {}
  /\ chan = [phase |-> "none", video |-> "none", artifact |-> "none",
             refs |-> {}, snapshot |-> NoSnapshot]
  /\ objects = {}
  /\ refs = Refs
  /\ req = [h \in Requests |-> Idle]
  /\ asked = {}
  /\ ended = FALSE

-----------------------------------------------------------------------------
(* Submission: generateCanonicalVideo, after validation.                   *)

clientVars == <<req, asked, ended>>

\* RunPod answers the POST with a job id.
PostAccepted ==
  /\ submit = "new"
  /\ submit' = "posted"
  /\ runpod' = "IN_QUEUE"
  /\ UNCHANGED <<swept, attempt, gpu, net, chan, objects, refs, clientVars>>

\* RunPod refuses, or answers without an id: the references go, unless that
\* fails as well.
PostRefused ==
  /\ submit = "new"
  /\ submit' = "failed"
  /\ refs' \in {refs, {}}
  /\ UNCHANGED <<runpod, swept, attempt, gpu, net, chan, objects, clientVars>>

\* fetch() throws: RunPod may have taken a job nobody will hear of.
PostThrows ==
  /\ submit = "new"
  /\ submit' = "failed"
  /\ runpod' \in {"none", "IN_QUEUE"}
  /\ UNCHANGED <<swept, attempt, gpu, net, chan, objects, refs, clientVars>>

\* The channel is seeded after the POST. A worker may have reported before.
Seed ==
  /\ submit = "posted"
  /\ submit' = "answered"
  /\ chan' = [chan EXCEPT !.phase = "queued", !.refs = Refs]
  /\ UNCHANGED <<runpod, swept, attempt, gpu, net, objects, refs, clientVars>>

\* pushJobState is not guarded here: 500, and the client learns no id.
SeedFails ==
  /\ submit = "posted"
  /\ submit' = "failed"
  /\ UNCHANGED <<runpod, swept, attempt, gpu, net, chan, objects, refs, clientVars>>

-----------------------------------------------------------------------------
(* RunPod and the GPU worker, as worker.js and handler.py use them.        *)

RunPodStarts ==
  /\ runpod = "IN_QUEUE"
  /\ attempt < MaxAttempts
  /\ runpod' = "IN_PROGRESS"
  /\ attempt' = attempt + 1
  /\ gpu' = "running"
  /\ UNCHANGED <<submit, swept, net, chan, objects, refs, clientVars>>

\* policy.executionTimeout, policy.ttl.
RunPodTimesOut ==
  /\ runpod \in {"IN_QUEUE", "IN_PROGRESS"}
  /\ runpod' = "TIMED_OUT"
  /\ gpu' = "off"
  /\ UNCHANGED <<submit, swept, attempt, net, chan, objects, refs, clientVars>>

\* The container dies: RunPod tries again or gives up.
WorkerLost ==
  /\ gpu # "off"
  /\ gpu' = "off"
  /\ runpod' = IF attempt < MaxAttempts THEN "IN_QUEUE" ELSE "FAILED"
  /\ UNCHANGED <<submit, swept, attempt, net, chan, objects, refs, clientVars>>

GpuReports ==
  /\ gpu = "running"
  /\ net' = net \cup {"sampling"}
  /\ UNCHANGED <<submit, runpod, swept, attempt, gpu, chan, objects, refs, clientVars>>

\* handler() fails, or has waited H3_UPLOAD_TIMEOUT for the Worker's answer.
GpuFails ==
  /\ gpu \in {"running", "uploading"}
  /\ gpu' = "failed"
  /\ UNCHANGED <<submit, runpod, swept, attempt, net, chan, objects, refs, clientVars>>

\* The last progress callback, before handler() returns.
GpuReportsEnd ==
  /\ \/ /\ gpu = "delivered"
        /\ gpu' = "reported_completed"
        /\ net' = net \cup {"completed"}
     \/ /\ gpu = "failed"
        /\ gpu' = "reported_failed"
        /\ net' = net \cup {"failed"}
  /\ ended' = TRUE
  /\ UNCHANGED <<submit, runpod, swept, attempt, chan, objects, refs, req, asked>>

GpuReturns ==
  /\ gpu \in {"reported_completed", "reported_failed"}
  /\ runpod' = IF gpu = "reported_completed" THEN "COMPLETED" ELSE "FAILED"
  /\ gpu' = "off"
  /\ UNCHANGED <<submit, swept, attempt, net, chan, objects, refs, clientVars>>

\* scheduled(): sweepActiveJobs reads an index no submission of this route
\* ever wrote to, so it visits no job.
CronSweep ==
  /\ runpod \in Terminal
  /\ swept' = TRUE
  /\ UNCHANGED <<submit, runpod, attempt, gpu, net, chan, objects, refs, clientVars>>

\* RunPod purges the record after about half an hour: a sweep has run, and only
\* an upload could have been under way for so long.
RecordExpires ==
  /\ runpod \in Terminal
  /\ swept
  /\ \A h \in Requests : req[h].op \in {"idle", "upload"}
  /\ runpod' = "expired"
  /\ UNCHANGED <<submit, swept, attempt, gpu, net, chan, objects, refs, clientVars>>

LoseReport ==
  /\ \E p \in net : net' = net \ {p}
  /\ UNCHANGED <<submit, runpod, swept, attempt, gpu, chan, objects, refs, clientVars>>

RunPodNext ==
  \/ RunPodStarts \/ RunPodTimesOut \/ WorkerLost \/ CronSweep \/ RecordExpires
  \/ GpuReports \/ GpuFails \/ GpuReportsEnd \/ GpuReturns \/ LoseReport

-----------------------------------------------------------------------------
(* Requests. Continue(h, at) is the next await of the request in slot h.   *)

outside == <<submit, runpod, swept, attempt>>

Continue(h, at) == req' = [req EXCEPT ![h].at = at]
Finish(h)       == req' = [req EXCEPT ![h] = Idle]
Begin(h, op, at) ==
  /\ req[h] = Idle
  /\ req' = [req EXCEPT ![h] = [Idle EXCEPT !.op = op, !.at = at]]

\* Mutant of ReceiveProgress: every phase is treated as the last one.
ReceiveProgressAsLast(h) ==
  \E p \in net :
    /\ net' = net \ {p}
    /\ chan' = IF p = "completed"
               THEN [chan EXCEPT !.phase = p, !.video = "video.mp4"]
               ELSE [chan EXCEPT !.phase = p]
    /\ Begin(h, "progress", "read")
    /\ UNCHANGED <<outside, gpu, objects, refs, asked, ended>>

\* receiveProgress pushes phase and video; only a terminal phase goes on. The
\* handler puts a video into `completed`, filed under outputKey(jobId).
ReceiveProgress(h) ==
  \E p \in net :
    /\ net' = net \ {p}
    /\ chan' = IF p = "completed"
               THEN [chan EXCEPT !.phase = p, !.video = "video.mp4"]
               ELSE [chan EXCEPT !.phase = p]
    /\ \/ /\ p = "sampling"
          /\ req[h] = Idle
          /\ UNCHANGED req
       \/ /\ p # "sampling"
          /\ Begin(h, "progress", "read")
    /\ UNCHANGED <<outside, gpu, objects, refs, asked, ended>>

\* The worker PUTs its artefact. Confidential jobs should send a container.
GpuUploads(h) ==
  /\ gpu = "running"
  /\ gpu' = "uploading"
  /\ req[h] = Idle
  /\ \E body \in (IF Confidential THEN Forms ELSE {"plain"}) :
       req' = [req EXCEPT ![h] = [Idle EXCEPT !.op = "upload", !.at = "put",
                                              !.attempt = attempt, !.form = body]]
  /\ UNCHANGED <<outside, net, chan, objects, refs, asked, ended>>

\* What a finished upload means to the worker that is still waiting for it.
AnswerUpload(h, verdict) ==
  gpu' = IF req[h].op = "upload" /\ gpu = "uploading" /\ req[h].attempt = attempt
         THEN verdict ELSE gpu

\* Mutant of Acceptable: the container is not looked at.
AcceptAny(body) == TRUE

\* The gate of receiveOutput: a confidential job's body must parse as a container.
Acceptable(body) == Confidential => body = "cipher"

Label == IF Confidential THEN "cipher" ELSE "plain"
Key   == IF Confidential THEN "artifact.enc" ELSE "video.mp4"

\* Mutant of StoreOutput: a put that failed goes unnoticed.
StoreOutputUnchecked(h) ==
  /\ req[h].op = "upload" /\ req[h].at = "put"
  /\ Acceptable(req[h].form)
  /\ objects' \in {objects, {o \in objects : o.key # Key} \cup
                              {[key |-> Key, form |-> req[h].form]}}
  /\ ended' = TRUE
  /\ Continue(h, "push")
  /\ UNCHANGED <<outside, gpu, net, chan, refs, asked>>

\* bucket.put, which replaces what an earlier attempt stored.
StoreOutput(h) ==
  /\ req[h].op = "upload" /\ req[h].at = "put"
  /\ Acceptable(req[h].form)
  /\ objects' = {o \in objects : o.key # Key} \cup {[key |-> Key, form |-> req[h].form]}
  /\ ended' = TRUE
  /\ Continue(h, "push")
  /\ UNCHANGED <<outside, gpu, net, chan, refs, asked>>

RefuseOutput(h) ==
  /\ req[h].op = "upload" /\ req[h].at = "put"
  /\ ~Acceptable(req[h].form)
  /\ AnswerUpload(h, "failed")
  /\ Finish(h)
  /\ UNCHANGED <<outside, net, chan, objects, refs, asked, ended>>

\* Mutant of AnnounceOutput: the channel is left to the completed callback.
AnnounceNothing(h) ==
  /\ req[h].op = "upload" /\ req[h].at = "push"
  /\ Continue(h, "read")
  /\ UNCHANGED <<outside, gpu, net, chan, objects, refs, asked, ended>>

AnnounceOutput(h) ==
  /\ req[h].op = "upload" /\ req[h].at = "push"
  /\ chan' = [chan EXCEPT !.video = Key, !.artifact = Label]
  /\ Continue(h, "read")
  /\ UNCHANGED <<outside, gpu, net, objects, refs, asked, ended>>

Acknowledge(h) ==
  /\ req[h].op = "upload" /\ req[h].at = "ack"
  /\ AnswerUpload(h, "delivered")
  /\ Finish(h)
  /\ UNCHANGED <<outside, net, chan, objects, refs, asked, ended>>

\* The client has the ids, and RunPod stops the job.
Cancel(h) ==
  /\ submit = "answered"
  /\ runpod \in {"IN_QUEUE", "IN_PROGRESS"}
  /\ runpod' = "CANCELLED"
  /\ gpu' = "off"
  /\ asked' = asked \cup {"cancel"}
  /\ Begin(h, "cancel", "read")
  /\ UNCHANGED <<submit, swept, attempt, net, chan, objects, refs, ended>>

FinalStatuses == Terminal

\* getJobStatus: only a final status changes anything.
PollStatus(h) ==
  /\ submit = "answered"
  /\ runpod \in FinalStatuses
  /\ req[h] = Idle
  /\ req' = [req EXCEPT ![h] = [Idle EXCEPT !.op = "status", !.at = "read",
                                            !.verdict = Verdict(runpod)]]
  /\ UNCHANGED <<outside, gpu, net, chan, objects, refs, asked, ended>>

\* DELETE /jobs/{id}/artifact and DELETE /jobs/{id}.
Delete(h) ==
  /\ submit = "answered"
  /\ asked' = asked \cup {"delete"}
  /\ \/ Begin(h, "delete", "remove")
     \/ Begin(h, "delete", "read")
  /\ UNCHANGED <<outside, gpu, net, chan, objects, refs, ended>>

\* describeArtifactForStatus of a state the channel returned.
Describe(verdict) ==
  CASE chan.artifact = "none" /\ verdict # "completed" -> "none"
    [] chan.artifact = "deleted" \/ chan.video = "deleted" -> "deleted"
    [] chan.artifact = "none" -> "guess"
    [] OTHER -> chan.artifact

\* Where a request goes that read `keys`.
AfterRead(op, keys) ==
  CASE op = "delete" -> "remove"
    [] op # "delete" /\ keys # {} -> "cleanup"
    [] op = "cancel" /\ keys = {} -> "push"
    [] op = "status" /\ keys = {} -> "persist"
    [] op = "upload" /\ keys = {} -> "ack"
    [] OTHER -> "none"

\* readJobState, which turns every failure into null.
ReadState(h) ==
  /\ req[h].at = "read"
  /\ \E answered \in BOOLEAN :
       LET keys == IF answered THEN chan.refs ELSE {}
           next == AfterRead(req[h].op, keys) IN
       IF next = "none"
       THEN Finish(h)
       ELSE req' = [req EXCEPT ![h].at = next, ![h].refs = keys,
                      ![h].artifact = CASE req[h].op # "status" -> "none"
                                        [] ~answered -> "unread"
                                        [] OTHER -> Describe(req[h].verdict)]
  /\ UNCHANGED <<outside, gpu, net, chan, objects, refs, asked, ended>>

\* Mutant of CleanUp: as at submission, a deletion that fails is swallowed.
CleanUpBestEffort(h) ==
  /\ req[h].at = "cleanup"
  /\ refs' \in {refs, refs \ req[h].refs}
  /\ Continue(h, IF req[h].op = "cancel" THEN "push" ELSE "forget")
  /\ UNCHANGED <<outside, gpu, net, chan, objects, asked, ended>>

\* cleanupReferenceObjects.
CleanUp(h) ==
  /\ req[h].at = "cleanup"
  /\ refs' = refs \ req[h].refs
  /\ Continue(h, IF req[h].op = "cancel" THEN "push" ELSE "forget")
  /\ UNCHANGED <<outside, gpu, net, chan, objects, asked, ended>>

ForgetReferences(h) ==
  /\ req[h].at = "forget"
  /\ chan' = [chan EXCEPT !.refs = {}]
  /\ CASE req[h].op = "upload" -> Continue(h, "ack")
       [] req[h].op = "status" -> Continue(h, "persist")
       [] OTHER -> Finish(h)
  /\ UNCHANGED <<outside, gpu, net, objects, refs, asked, ended>>

\* persistTerminalResult; the index it then looks at does not name the job.
Persist(h) ==
  /\ req[h].at = "persist"
  /\ chan' = [chan EXCEPT !.snapshot = [verdict |-> req[h].verdict, artifact |-> req[h].artifact]]
  /\ Finish(h)
  /\ UNCHANGED <<outside, gpu, net, objects, refs, asked, ended>>

MarkCancelled(h) ==
  /\ req[h].op = "cancel" /\ req[h].at = "push"
  /\ chan' = [chan EXCEPT !.phase = "cancelled", !.refs = {}]
  /\ Finish(h)
  /\ UNCHANGED <<outside, gpu, net, objects, refs, asked, ended>>

\* deleteGeneration removes both keys an artefact can have, whatever it listed.
RemoveObjects(h) ==
  /\ req[h].at = "remove"
  /\ objects' = {}
  /\ refs' = refs \ req[h].refs
  /\ req' = [req EXCEPT ![h].at = "push"]
  /\ UNCHANGED <<outside, gpu, net, chan, asked, ended>>

MarkDeleted(h) ==
  /\ req[h].op = "delete" /\ req[h].at = "push"
  /\ chan' = [chan EXCEPT !.video = "deleted", !.artifact = "deleted"]
  /\ Finish(h)
  /\ UNCHANGED <<outside, gpu, net, objects, refs, asked, ended>>

\* Any await may throw: the upload answers 500, the others answer something the
\* state does not depend on. receiveOutput may have stored its object by then.
Abort(h) ==
  /\ req[h] # Idle
  /\ AnswerUpload(h, "failed")
  /\ Finish(h)
  /\ UNCHANGED <<outside, net, chan, objects, refs, asked, ended>>

RequestNext(h) ==
  \/ ReceiveProgress(h) \/ GpuUploads(h) \/ Cancel(h) \/ PollStatus(h) \/ Delete(h)
  \/ StoreOutput(h) \/ RefuseOutput(h) \/ AnnounceOutput(h) \/ Acknowledge(h)
  \/ ReadState(h) \/ CleanUp(h) \/ ForgetReferences(h) \/ Persist(h)
  \/ MarkCancelled(h) \/ RemoveObjects(h) \/ MarkDeleted(h) \/ Abort(h)

Next ==
  \/ PostAccepted \/ PostRefused \/ PostThrows \/ Seed \/ SeedFails
  \/ RunPodNext
  \/ \E h \in Requests : RequestNext(h)

Spec == Init /\ [][Next]_vars

-----------------------------------------------------------------------------
(* What the control plane promises.                                        *)

\* Nothing but containers is ever stored for a confidential job, and under the
\* name of a container: the gate of receiveOutput holds for retries, for uploads
\* nobody waits for any more and after a deletion.
StoredSealed ==
  Confidential => \A o \in objects : o = [key |-> "artifact.enc", form |-> "cipher"]

\* An artefact the channel advertises is in R2, in the form it is labelled
\* with, as long as no client asked for a deletion: the object is stored before
\* it is announced, whichever attempts and requests overlap.
AdvertisedIsStored ==
  chan.artifact \in Forms /\ "delete" \notin asked =>
    [key |-> Key, form |-> chan.artifact] \in objects

\* The snapshot that outlives RunPod's record of a completed job names the
\* artefact or its deletion, unless the channel did not answer: an upload is
\* announced before it is acknowledged, acknowledged before the job completes.
SnapshotKnowsArtifact ==
  chan.snapshot.verdict = "completed" =>
    chan.snapshot.artifact \in Forms \cup {"deleted", "unread"}

\* A snapshot only ever records the status RunPod ended with, so nothing starts
\* the job again once /status has called it over.
SnapshotIsFinal ==
  chan.snapshot # NoSnapshot =>
    /\ runpod \in Terminal \cup {"expired"}
    /\ runpod \in Terminal => chan.snapshot.verdict = Verdict(runpod)

\* What outlives RunPod's record is right: about the artefact and about the end.
SnapshotIsRight == SnapshotKnowsArtifact /\ SnapshotIsFinal

\* The references are in R2 while a first attempt may still read them: they only
\* go after an upload, a terminal report, a final status, a refused submission
\* or at the client's request.
ReferencesOutliveUse ==
  refs # Refs => \/ submit = "failed"
                 \/ ended
                 \/ runpod \in Terminal \cup {"expired"}
                 \/ "delete" \in asked

\* The channel does not forget the references before they are deleted, so that
\* every later terminal event still finds what is left of them. (cancelJob
\* forgets them when its read of the channel failed, and leaves the objects.)
ForgottenIsDeleted ==
  submit = "answered" /\ "cancel" \notin asked =>
    (chan.refs = Refs \/ refs = {})

-----------------------------------------------------------------------------
(* What the documentation says, and the code does not do.                  *)

EventReportsDeletion ==
  chan.artifact = "deleted" /\ chan.phase = "completed" =>
    chan.video \notin {"video.mp4", "artifact.enc"}

\* Once RunPod's record has expired, what /status answers is the snapshot.
StatusReportsDeletion ==
  chan.artifact = "deleted" /\ runpod = "expired" =>
    chan.snapshot.artifact \notin Forms

\* README.md, "Deleting": afterwards /status reports the output as gone instead
\* of handing back a URL that would 404, and the WebSocket's completed event
\* carries {"deleted": true} and no URL.
DeletionReported == EventReportsDeletion /\ StatusReportsDeletion
=============================================================================

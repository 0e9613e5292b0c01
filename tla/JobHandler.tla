----------------------------- MODULE JobHandler -----------------------------
(***************************************************************************)
(* The life of one generation on a warm single-GPU worker: handler() of    *)
(* handler.py and everything it calls that changes state - the bridge that *)
(* stages a PrivoraVideo request, the privacy protector, ComfyUI's prompt, *)
(* the collection of its outputs and the `finally` that cleans up.         *)
(*                                                                         *)
(* RunPod hands a worker one job at a time (serverless.start is called     *)
(* without a concurrency modifier), so `pc` is the one handler thread.     *)
(* ComfyUI is a second process: it writes outputs while it executes a      *)
(* prompt, and goes on executing one the handler has given up on.          *)
(***************************************************************************)
EXTENDS Naturals, FiniteSets

CONSTANTS
  Jobs,         \* jobs RunPod hands to this worker, in any order
  Keyframes,    \* KEYFRAME_ROLES: assets of a raw-workflow request
  References,   \* staging items of a PrivoraVideo plan
  Loras,        \* user LoRA downloads of a PrivoraVideo request
  Outputs,      \* files the Save* nodes of a workflow may write
  Requests,     \* the requests a job may carry
  KeepOutputs,  \* H3_KEEP_OUTPUTS=1
  OutputMode,   \* H3_OUTPUT_MODE: what a job without an output block gets
  NoJob,        \* no job is being served
  NoRequest     \* the job was not opened yet

RequestType ==
  [kind : {"capabilities", "privora", "workflow"},
   confidential : BOOLEAN,   \* privacy.mode resolves to an encrypting protector
   url : BOOLEAN,            \* an output block: upload through the Worker
   keyframes : SUBSET Keyframes,
   refs : SUBSET References,
   loras : SUBSET Loras]

ASSUME RequestsAssumption == Requests \subseteq RequestType
ASSUME KeepAssumption     == KeepOutputs \in BOOLEAN
ASSUME ModeAssumption     == OutputMode \in {"base64", "r2"}
ASSUME NoJobAssumption    == NoJob \notin Jobs
ASSUME NoRequestAssumption == NoRequest \notin Requests

VARIABLES
  pc,        \* the statement of handler() the job thread is at
  job,       \* the job being served, or NoJob
  asked,     \* [job -> its request once it was opened, or NoRequest]
  todo,      \* what the current loop has still to stage or collect
  known,     \* the cleanup handles handler() holds: staged_assets, job_dir, lora_dir
  current,   \* the output between protect() and the end of store()
  disk,      \* files on the container's disk
  unshredded,\* plaintext shred() failed to delete
  remote,    \* artefacts that left the container
  phase,     \* [job -> the last phase reported]
  believed,  \* reporter._phase of the job being served
  result,    \* [job -> "none", "ok" or why handler() returned an error]
  prompt,    \* [job -> its prompt on rank 0]
  written    \* [job -> outputs its prompt has written]

vars == <<pc, job, asked, todo, known, current, disk, unshredded, remote,
          phase, believed, result, prompt, written>>

Handles   == {"staged_assets", "job_dir", "lora_dir"}
\* plain: in the output directories; foreign: outside them; scratch: a copy
\* downloaded into collect_outputs' own directory.
Sources   == {"plain", "foreign", "scratch"}
\* truncated: a keyframe whose write failed half-way.
FileKinds == {"ref", "lora", "keyframe", "truncated", "cipher"} \cup Sources
Items     == Keyframes \cup References \cup Loras \cup Outputs

File(kind, j, i)      == [kind |-> kind, job |-> j, item |-> i]
FileOf(kinds)         == [kind : kinds, job : Jobs, item : Items]
Artefact              == [job : Jobs, item : Items, form : {"plain", "cipher"},
                          via : {"upload", "result", "r2"}]

PhaseSet == {"none", "starting", "comfy_ready", "loading", "sampling", "decoding",
             "uploading", "completed", "failed"}
Terminal == {"completed", "failed"}

Causes  == {"refused", "rejected", "lora", "reference", "protector", "no_upload_url",
            "keyframe", "comfy", "queue", "timeout", "execution", "foreign", "fetch",
            "protect", "store", "no_output"}
Prompts == {"none", "queued", "success", "error", "lost"}
Steps   == {"idle", "route", "loras", "references", "protector", "keyframes", "boot",
            "queue", "await", "collect", "store", "finally"}

req == asked[job]
Confidential(j) == asked[j] # NoRequest /\ asked[j].confidential

\* The files `kinds` of job j.
FilesOf(j, kinds) == {f \in disk : f.job = j /\ f.kind \in kinds}

TypeOK ==
  /\ pc \in Steps
  /\ job \in Jobs \cup {NoJob}
  /\ asked \in [Jobs -> Requests \cup {NoRequest}]
  /\ todo \subseteq Items
  /\ known \subseteq Handles
  /\ current \subseteq Items
  /\ disk \subseteq FileOf(FileKinds)
  /\ unshredded \subseteq FileOf({"plain", "scratch"})
  /\ remote \subseteq Artefact
  /\ phase \in [Jobs -> PhaseSet]
  /\ believed \in PhaseSet
  /\ result \in [Jobs -> Causes \cup {"none", "ok"}]
  /\ prompt \in [Jobs -> Prompts]
  /\ written \in [Jobs -> SUBSET Outputs]
  \* handler()'s locals live as long as the call.
  /\ job = NoJob <=> pc = "idle"
  /\ pc = "idle" => known = {} /\ believed = "none"
  /\ current # {} <=> pc = "store"
  /\ current \subseteq todo

Init ==
  /\ pc = "idle"
  /\ job = NoJob
  /\ asked = [j \in Jobs |-> NoRequest]
  /\ todo = {}
  /\ known = {}
  /\ current = {}
  /\ disk = {}
  /\ unshredded = {}
  /\ remote = {}
  /\ phase = [j \in Jobs |-> "none"]
  /\ believed = "none"
  /\ result = [j \in Jobs |-> "none"]
  /\ prompt = [j \in Jobs |-> "none"]
  /\ written = [j \in Jobs |-> {}]

-----------------------------------------------------------------------------
(* Leaving the try block.                                                  *)

comfyVars  == <<prompt, written>>
reportVars == <<phase, believed>>

\* ProgressReporter.phase.
Report(reported) ==
  /\ phase' = [phase EXCEPT ![job] = reported]
  /\ believed' = reported

\* One of handler()'s except clauses: phase failed, an error result, and on
\* to the finally block.
Fail(cause) ==
  /\ pc' = "finally"
  /\ Report("failed")
  /\ result' = [result EXCEPT ![job] = cause]
  /\ todo' = {}

Goto(step, items) ==
  /\ pc' = step
  /\ todo' = items
  /\ UNCHANGED <<reportVars, result>>

GotoReporting(step, items, reported) ==
  /\ pc' = step
  /\ todo' = items
  /\ Report(reported)
  /\ UNCHANGED result

-----------------------------------------------------------------------------
(* Opening and routing the job.                                            *)

\* A job whose result is still pending is taken from the queue and opened.
OpenJob(j, r) ==
  /\ pc = "idle"
  /\ result[j] = "none"
  /\ pc' = "route"
  /\ job' = j
  /\ asked' = [asked EXCEPT ![j] = r]
  /\ UNCHANGED <<todo, known, current, disk, unshredded, remote, reportVars, result, comfyVars>>

\* _open_job_envelope raises before the try block: RunPod records the
\* exception, no phase is reported and no finally runs.
RefuseEnvelope(j) ==
  /\ pc = "idle"
  /\ result[j] = "none"
  /\ result' = [result EXCEPT ![j] = "refused"]
  /\ UNCHANGED <<pc, job, asked, todo, known, current, disk, unshredded, remote,
                 reportVars, comfyVars>>

AnswerCapabilities ==
  /\ pc = "route"
  /\ req.kind = "capabilities"
  /\ pc' = "finally"
  /\ result' = [result EXCEPT ![job] = "ok"]
  /\ UNCHANGED <<job, asked, todo, known, current, disk, unshredded, remote, reportVars, comfyVars>>

RouteWorkflow ==
  /\ pc = "route"
  /\ req.kind = "workflow"
  /\ Goto("protector", {})
  /\ UNCHANGED <<job, asked, known, current, disk, unshredded, remote, comfyVars>>

\* build_privora_job: parse, then the job's own directories.
RoutePrivora ==
  /\ pc = "route"
  /\ req.kind = "privora"
  /\ \/ Goto("loras", req.loras)
     \/ Fail("rejected")
  /\ UNCHANGED <<job, asked, known, current, disk, unshredded, remote, comfyVars>>

StageUserLora ==
  /\ pc = "loras"
  /\ \E l \in todo :
       /\ disk' = disk \cup {File("lora", job, l)}
       /\ todo' = todo \ {l}
  /\ UNCHANGED <<pc, job, asked, known, current, unshredded, remote, reportVars, result, comfyVars>>

PlanBuilt ==
  /\ pc = "loras"
  /\ todo = {}
  /\ Goto("references", req.refs)
  /\ UNCHANGED <<job, asked, known, current, disk, unshredded, remote, comfyVars>>

\* A download, a digest or the plan fails: build_privora_job's first except
\* clause removes both directories.
LorasOrPlanFail ==
  /\ pc = "loras"
  /\ disk' = disk \ FilesOf(job, {"lora", "ref"})
  /\ Fail("lora")
  /\ UNCHANGED <<job, asked, known, current, unshredded, remote, comfyVars>>

StageReference ==
  /\ pc = "references"
  /\ \E r \in todo :
       /\ disk' = disk \cup {File("ref", job, r)}
       /\ todo' = todo \ {r}
  /\ UNCHANGED <<pc, job, asked, known, current, unshredded, remote, reportVars, result, comfyVars>>

\* build_privora_job returns, and handler() learns the two directories.
PrivoraJobBuilt ==
  /\ pc = "references"
  /\ todo = {}
  /\ known' = known \cup {"job_dir", "lora_dir"}
  /\ Goto("protector", {})
  /\ UNCHANGED <<job, asked, current, disk, unshredded, remote, comfyVars>>

\* A fetch, a probe or the duration rules fail: the second except clause
\* removes the reference directory.
ReferencesFail ==
  /\ pc = "references"
  /\ disk' = disk \ FilesOf(job, {"ref"})
  /\ Fail("reference")
  /\ UNCHANGED <<job, asked, known, current, unshredded, remote, comfyVars>>

-----------------------------------------------------------------------------
(* Protector, keyframes, ComfyUI.                                          *)

\* Mutant of BuildProtector: the upload-endpoint guard is missing.
BuildProtectorUnguarded ==
  /\ pc = "protector"
  /\ \/ Fail("protector")
     \/ GotoReporting("keyframes", req.keyframes, "starting")
  /\ UNCHANGED <<job, asked, known, current, disk, unshredded, remote, comfyVars>>

BuildProtector ==
  /\ pc = "protector"
  /\ \/ Fail("protector")
     \/ /\ req.confidential /\ ~req.url
        /\ Fail("no_upload_url")
     \/ /\ req.confidential => req.url
        /\ GotoReporting("keyframes", req.keyframes, "starting")
  /\ UNCHANGED <<job, asked, known, current, disk, unshredded, remote, comfyVars>>

StageKeyframe ==
  /\ pc = "keyframes"
  /\ \E k \in todo :
       /\ disk' = disk \cup {File("keyframe", job, k)}
       /\ todo' = todo \ {k}
  /\ UNCHANGED <<pc, job, asked, known, current, unshredded, remote, reportVars, result, comfyVars>>

KeyframesStaged ==
  /\ pc = "keyframes"
  /\ todo = {}
  /\ known' = known \cup {"staged_assets"}
  /\ Goto("boot", {})
  /\ UNCHANGED <<job, asked, current, disk, unshredded, remote, comfyVars>>

\* Mutant of KeyframesFail: the partially staged files are not removed.
KeyframesFailLeaking ==
  /\ pc = "keyframes"
  /\ Fail("keyframe")
  /\ UNCHANGED <<job, asked, known, current, disk, unshredded, remote, comfyVars>>

\* stage_input_assets removes what it staged before it raises: handler() has
\* not been given the list yet. A file whose write raised is not on that list.
KeyframesFail ==
  /\ pc = "keyframes"
  /\ \/ disk' = disk \ FilesOf(job, {"keyframe"})
     \/ \E k \in todo :
          disk' = (disk \ FilesOf(job, {"keyframe"})) \cup {File("truncated", job, k)}
  /\ Fail("keyframe")
  /\ UNCHANGED <<job, asked, known, current, unshredded, remote, comfyVars>>

StartComfyUI ==
  /\ pc = "boot"
  /\ \/ GotoReporting("queue", {}, "comfy_ready")
     \/ Fail("comfy")
  /\ UNCHANGED <<job, asked, known, current, disk, unshredded, remote, comfyVars>>

QueuePrompt ==
  /\ pc = "queue"
  /\ prompt' = [prompt EXCEPT ![job] = "queued"]
  /\ GotoReporting("await", {}, "loading")
  /\ UNCHANGED <<job, asked, known, current, disk, unshredded, remote, written>>

\* The POST fails: ComfyUI may or may not have taken the prompt.
QueuePromptFails ==
  /\ pc = "queue"
  /\ \/ prompt' = [prompt EXCEPT ![job] = "queued"]
     \/ UNCHANGED prompt
  /\ Fail("queue")
  /\ UNCHANGED <<job, asked, known, current, disk, unshredded, remote, written>>

\* Mutant of ReportExecution: step() keeps the phase it reports.
ReportExecutionRemembering ==
  /\ pc = "await"
  /\ Report("sampling") \/ (believed # "decoding" /\ Report("decoding"))
  /\ UNCHANGED <<pc, job, asked, todo, known, current, disk, unshredded, remote, result, comfyVars>>

\* Progress frames: any node may count steps, which step() reports as sampling
\* without a look at the reporter's phase; a node that decodes or saves is
\* reported as decoding unless the reporter is there.
ReportExecution ==
  /\ pc = "await"
  /\ \/ /\ phase' = [phase EXCEPT ![job] = "sampling"]
        /\ UNCHANGED believed
     \/ believed # "decoding" /\ Report("decoding")
  /\ UNCHANGED <<pc, job, asked, todo, known, current, disk, unshredded, remote, result, comfyVars>>

\* Mutant of ExecutionSucceeds: an entry that lists outputs counts as finished.
ExecutionSucceedsEarly ==
  /\ pc = "await"
  /\ prompt[job] = "success" \/ (prompt[job] = "queued" /\ written[job] # {})
  /\ \/ /\ req.url
        /\ GotoReporting("collect", written[job], "uploading")
     \/ /\ ~req.url
        /\ Goto("collect", written[job])
  /\ UNCHANGED <<job, asked, known, current, disk, unshredded, remote, comfyVars>>

\* await_execution returns the history entry; a job with an output block goes
\* on to the upload and says so.
ExecutionSucceeds ==
  /\ pc = "await"
  /\ prompt[job] = "success"
  /\ \/ /\ req.url
        /\ GotoReporting("collect", written[job], "uploading")
     \/ /\ ~req.url
        /\ Goto("collect", written[job])
  /\ UNCHANGED <<job, asked, known, current, disk, unshredded, remote, comfyVars>>

ExecutionFails ==
  /\ pc = "await"
  /\ prompt[job] \in {"error", "lost"}
  /\ Fail("execution")
  /\ UNCHANGED <<job, asked, known, current, disk, unshredded, remote, comfyVars>>

\* A poll of /history raises, or ComfyUI has no entry: the prompt may run on.
PollFails ==
  /\ pc = "await"
  /\ Fail("execution")
  /\ UNCHANGED <<job, asked, known, current, disk, unshredded, remote, comfyVars>>

\* Mutant of ExecutionTimesOut: no deadline on the wait.
ExecutionNeverTimesOut == FALSE

\* H3_JOB_TIMEOUT: the handler gives up, ComfyUI is not told.
ExecutionTimesOut ==
  /\ pc = "await"
  /\ Fail("timeout")
  /\ UNCHANGED <<job, asked, known, current, disk, unshredded, remote, comfyVars>>

-----------------------------------------------------------------------------
(* collect_outputs: protect, then store, then discard, entry by entry.     *)

\* What the finally of collect_outputs discards.
Scratch == FilesOf(job, {"cipher", "scratch"})

PathOf(o) == {f \in FilesOf(job, Sources) : f.item = o}

\* resolve_output_path finds nothing, /view still has a copy.
Fetch ==
  /\ pc = "collect"
  /\ \E o \in todo :
       /\ PathOf(o) = {}
       /\ disk' = disk \cup {File("scratch", job, o)}
  /\ UNCHANGED <<pc, job, asked, todo, known, current, unshredded, remote, reportVars,
                 result, comfyVars>>

\* Nor has /view.
FetchFails ==
  /\ pc = "collect"
  /\ \E o \in todo : PathOf(o) = {}
  /\ disk' = disk \ Scratch
  /\ Fail("fetch")
  /\ UNCHANGED <<job, asked, known, current, unshredded, remote, comfyVars>>

\* _is_owned_artifact: a confidential entry outside the output directories.
RefuseForeign ==
  /\ pc = "collect"
  /\ req.confidential
  /\ \E o \in todo : File("foreign", job, o) \in disk
  /\ disk' = disk \ Scratch
  /\ Fail("foreign")
  /\ UNCHANGED <<job, asked, known, current, unshredded, remote, comfyVars>>

\* PassthroughProtector.protect hands the file on.
PassThrough ==
  /\ pc = "collect"
  /\ ~req.confidential
  /\ \E o \in todo : /\ PathOf(o) # {}
                     /\ current' = {o}
  /\ Goto("store", todo)
  /\ UNCHANGED <<job, asked, known, disk, unshredded, remote, comfyVars>>

\* Mutant of Encrypt: the plaintext is left to the clean-up after the upload.
EncryptWithoutShred ==
  /\ pc = "collect"
  /\ req.confidential
  /\ \E o \in todo, f \in FilesOf(job, {"plain", "scratch"}) :
       /\ f.item = o
       /\ current' = {o}
       /\ disk' = disk \cup {File("cipher", job, o)}
  /\ Goto("store", todo)
  /\ UNCHANGED <<job, asked, known, unshredded, remote, comfyVars>>

\* Confidential*.protect: a complete container, then shred(), which reports a
\* file it could not delete instead of raising.
Encrypt ==
  /\ pc = "collect"
  /\ req.confidential
  /\ \E o \in todo, f \in FilesOf(job, {"plain", "scratch"}) :
       /\ f.item = o
       /\ current' = {o}
       /\ \/ /\ disk' = (disk \ {f}) \cup {File("cipher", job, o)}
             /\ UNCHANGED unshredded
          \/ /\ disk' = disk \cup {File("cipher", job, o)}
             /\ unshredded' = unshredded \cup {f}
  /\ Goto("store", todo)
  /\ UNCHANGED <<job, asked, known, remote, comfyVars>>

\* Wrapping or encrypting raises: the protector's scratch directory goes, the
\* plaintext stays where it was.
EncryptFails ==
  /\ pc = "collect"
  /\ req.confidential
  /\ \E o \in todo, f \in FilesOf(job, {"plain", "scratch"}) : f.item = o
  /\ disk' = disk \ Scratch
  /\ Fail("protect")
  /\ UNCHANGED <<job, asked, known, current, unshredded, remote, comfyVars>>

\* build_output_store_for_job: the job's own upload endpoint or the worker's store.
Via == IF req.url THEN "upload" ELSE IF OutputMode = "r2" THEN "r2" ELSE "result"

\* What store() delivers for an output. EncryptedR2Store seals every file itself.
Delivery(o) ==
  [job |-> job, item |-> o, via |-> Via,
   form |-> IF File("cipher", job, o) \in disk \/ Via = "r2" THEN "cipher" ELSE "plain"]

\* EncryptedR2Store.store shreds the file it was given, whatever happens and
\* wherever it lies.
ShreddedByStore(o) == IF Via = "r2" THEN PathOf(o) ELSE {}

\* _discard_output_file, unless H3_KEEP_OUTPUTS keeps a standard-mode file.
Discarded(o) ==
  IF ~KeepOutputs \/ req.confidential THEN {File("plain", job, o)} ELSE {}

Store ==
  /\ pc = "store"
  /\ \E o \in current :
       /\ remote' = remote \cup {Delivery(o)}
       /\ \/ disk' = (disk \ ShreddedByStore(o)) \ Discarded(o)
          \/ /\ File("plain", job, o) \in unshredded   \* fails again
             /\ disk' = disk
       /\ Goto("collect", todo \ {o})
  /\ current' = {}
  /\ UNCHANGED <<job, asked, known, unshredded, comfyVars>>

\* Mutant of StoreFails: the failure is reported, and collection goes on.
StoreFailsAndGoesOn ==
  /\ pc = "store"
  /\ \E o \in current : todo' = todo \ {o}
  /\ current' = {}
  /\ Report("failed")
  /\ pc' = "collect"
  /\ UNCHANGED <<job, asked, known, disk, unshredded, remote, result, comfyVars>>

\* store() raises on anything but the Worker's 2xx JSON acknowledgement - which
\* can also be an upload whose answer was lost.
StoreFails ==
  /\ pc = "store"
  /\ \E o \in current :
       /\ remote' \in {remote, remote \cup {Delivery(o)}}
       /\ disk' = (disk \ ShreddedByStore(o)) \ Scratch
  /\ current' = {}
  /\ Fail("store")
  /\ UNCHANGED <<job, asked, known, unshredded, comfyVars>>

NoOutput ==
  /\ pc = "collect"
  /\ written[job] = {}
  /\ Fail("no_output")
  /\ UNCHANGED <<job, asked, known, current, disk, unshredded, remote, comfyVars>>

Complete ==
  /\ pc = "collect"
  /\ todo = {}
  /\ written[job] # {}
  /\ disk' = disk \ Scratch
  /\ pc' = "finally"
  /\ Report("completed")
  /\ result' = [result EXCEPT ![job] = "ok"]
  /\ UNCHANGED <<job, asked, todo, known, current, unshredded, remote, comfyVars>>

-----------------------------------------------------------------------------
(* The finally block. Each cleanup only reaches what its handle names.     *)

\* Mutant of KindsKnown: lora_dir is not among the handles.
KindsKnownWithoutLoras ==
  (IF "staged_assets" \in known THEN {"keyframe"} ELSE {}) \cup
  (IF "job_dir" \in known THEN {"ref"} ELSE {})

KindsKnown ==
  (IF "staged_assets" \in known THEN {"keyframe"} ELSE {}) \cup
  (IF "job_dir" \in known THEN {"ref"} ELSE {}) \cup
  (IF "lora_dir" \in known THEN {"lora"} ELSE {})

\* Mutant of Finally: the handles outlive the call, as module globals would.
FinallyKeepingHandles ==
  /\ pc = "finally"
  /\ disk' = disk \ FilesOf(job, KindsKnown)
  /\ believed' = "none"
  /\ pc' = "idle"
  /\ job' = NoJob
  /\ UNCHANGED <<asked, todo, known, current, unshredded, remote, phase, result, comfyVars>>

Finally ==
  /\ pc = "finally"
  /\ disk' = disk \ FilesOf(job, KindsKnown)
  /\ known' = {}
  /\ believed' = "none"
  /\ pc' = "idle"
  /\ job' = NoJob
  /\ UNCHANGED <<asked, todo, current, unshredded, remote, phase, result, comfyVars>>

-----------------------------------------------------------------------------
(* Rank 0's ComfyUI.                                                       *)

handlerVars == <<pc, job, asked, todo, known, current, unshredded, remote, reportVars, result>>

\* A Save* node writes its file, almost always into the output directory.
ComfyWrites(j) ==
  /\ prompt[j] = "queued"
  /\ \E o \in Outputs \ written[j] :
       /\ written' = [written EXCEPT ![j] = @ \cup {o}]
       /\ \/ disk' = disk \cup {File("plain", j, o)}
          \/ disk' = disk \cup {File("foreign", j, o)}
          \/ UNCHANGED disk          \* listed, but not on this disk
  /\ UNCHANGED <<handlerVars, prompt>>

ComfyFinishes(j) ==
  /\ prompt[j] = "queued"
  /\ \E verdict \in {"success", "error"} : prompt' = [prompt EXCEPT ![j] = verdict]
  /\ UNCHANGED <<handlerVars, disk, written>>

\* The process dies; its queue and history die with it.
ComfyExits ==
  /\ \E j \in Jobs : prompt[j] = "queued"
  /\ prompt' = [j \in Jobs |-> IF prompt[j] = "queued" THEN "lost" ELSE prompt[j]]
  /\ UNCHANGED <<handlerVars, disk, written>>

-----------------------------------------------------------------------------
\* handler()'s own statements, once a job is open.
HandlerStep ==
  \/ AnswerCapabilities \/ RouteWorkflow \/ RoutePrivora
  \/ StageUserLora \/ PlanBuilt \/ LorasOrPlanFail
  \/ StageReference \/ PrivoraJobBuilt \/ ReferencesFail
  \/ BuildProtector \/ StageKeyframe \/ KeyframesStaged \/ KeyframesFail
  \/ StartComfyUI \/ QueuePrompt \/ QueuePromptFails
  \/ ExecutionSucceeds \/ ExecutionFails \/ ExecutionTimesOut
  \/ Fetch \/ FetchFails \/ RefuseForeign \/ PassThrough \/ Encrypt \/ EncryptFails
  \/ Store \/ StoreFails \/ NoOutput \/ Complete \/ Finally

ComfyStep ==
  \/ \E j \in Jobs : ComfyWrites(j) \/ ComfyFinishes(j)
  \/ ComfyExits

Next ==
  \/ \E j \in Jobs : RefuseEnvelope(j) \/ \E r \in Requests : OpenJob(j, r)
  \/ HandlerStep
  \/ ReportExecution
  \/ PollFails
  \/ ComfyStep

\* Every statement of handler() ends: downloads, boots, uploads and the wait
\* for ComfyUI all carry a timeout. ComfyUI itself is not assumed to progress.
Spec == Init /\ [][Next]_vars /\ WF_vars(HandlerStep)

-----------------------------------------------------------------------------
(* What a warm worker promises its callers.                                *)

\* Whatever leaves the container for a confidential job - through an upload, a
\* retry, an upload whose answer was lost or the job's own result - is a sealed
\* container sent to the upload endpoint. build_protector_for_job, the guard on
\* output.url, protect() and the two stores establish it together.
ConfidentialNeverPlain ==
  \A a \in remote : Confidential(a.job) => a.form = "cipher" /\ a.via = "upload"

\* When an artefact of a confidential job has left the container, its plaintext
\* has already left the disk, unless deleting it failed: protect() destroys it
\* before store() begins.
DeliveredIsGone ==
  \A a \in remote : Confidential(a.job) =>
    \A f \in disk : f.job = a.job /\ f.item = a.item /\ f.kind \in {"plain", "scratch"}
                       => f \in unshredded

\* Between jobs no reference and no keyframe of any job is on the disk, whichever
\* of the nested clean-ups (build_privora_job, stage_input_assets, the finally
\* of handler()) was the one in charge when the job ended - but for a keyframe
\* that could not be written to its end.
InputsPurged ==
  pc = "idle" => \A f \in disk : f.kind \notin {"ref", "keyframe"}

\* docs/confidential-generation.md: when encryption fails, the plaintext is deleted.
EncryptionFailureDeletesPlaintext ==
  \A f \in disk : pc = "idle" /\ f.kind = "plain" => result[f.job] # "protect"

\* A generation answered without an error delivered every file its prompt saved,
\* and saved at least one: no failed store() is ever passed over.
OkMeansDelivered ==
  \A j \in Jobs :
    result[j] = "ok" /\ asked[j].kind # "capabilities" =>
      /\ written[j] # {}
      /\ \A o \in written[j] : \E a \in remote : a.job = j /\ a.item = o

\* A job that succeeded leaves nothing behind on the warm worker but what
\* H3_KEEP_OUTPUTS keeps, what could not be deleted and what was never the
\* worker's own file.
SuccessLeavesNothing ==
  pc = "idle" =>
    \A f \in disk : result[f.job] = "ok" =>
      \/ f.kind = "foreign"
      \/ f \in unshredded
      \/ f.kind = "plain" /\ KeepOutputs /\ ~Confidential(f.job)

\* What a client that follows the phases of one attempt may rely on (RunPod's retry
\* starts over): each is later than the one before, with a single exception. A progress frame behind the start of the decode
\* takes "decoding" back to "sampling"; that happens once at most, because decoding is
\* never reported again, and nowhere else: an upload or an end is not taken back.
PhaseRank(p) ==
  CASE p = "none" -> 0
    [] p = "starting" -> 1
    [] p = "comfy_ready" -> 2
    [] p = "loading" -> 3
    [] p = "sampling" -> 4
    [] p = "decoding" -> 5
    [] p = "uploading" -> 6
    [] OTHER -> 7
PhasesFallBackOnce ==
  /\ [][\A j \in Jobs : phase'[j] # phase[j] =>
          \/ PhaseRank(phase'[j]) > PhaseRank(phase[j])
          \/ phase[j] = "decoding" /\ phase'[j] = "sampling"]_vars
  /\ \A j \in Jobs :
       [](phase[j] = "decoding" => [](phase[j] # "decoding" => [](phase[j] # "decoding")))

\* Every job the handler opens is answered and the worker is free again, with
\* ComfyUI stuck on the prompt too.
JobsReturn ==
  \A j \in Jobs : job = j ~> result[j] # "none" /\ pc = "idle"

-----------------------------------------------------------------------------
(* handler() implements the worker's contract.                             *)

\* The job is asked for nothing yet, the capabilities, or files.
KindOf(r) ==
  IF r = NoRequest THEN "none"
  ELSE IF r.kind = "capabilities" THEN "probe"
  ELSE IF r.confidential THEN "sealed" ELSE "open"

Contract == INSTANCE WorkerContract WITH
  serving <- job,
  kind    <- [j \in Jobs |-> KindOf(asked[j])],
  answer  <- [j \in Jobs |-> IF result[j] \in {"none", "ok"} THEN result[j] ELSE "error"],
  saved   <- written,
  sent    <- [j \in Jobs |->
                {<<a.item, a.form = "cipher">> : a \in {b \in remote : b.job = j}}]

\* Every step of handler() and of the ComfyUI behind it is a step of the
\* contract or invisible to it: one answer to a job and nothing after it,
\* nothing sent before the job is open or by another job, although prompts
\* outlive the jobs they were for, acknowledgements get lost and any statement
\* may raise; and success only when all the prompt ever saves was sent.
ImplementsContract == Contract!Spec
=============================================================================

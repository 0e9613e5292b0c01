------------------------------ MODULE Admission ------------------------------
(***************************************************************************)
(* How a canonical request is admitted.  worker.js asks the GPU endpoint   *)
(* what it can do by submitting a job, keeps the answer in a durable       *)
(* object for CAPABILITY_CACHE_TTL_MS, judges requests against it and      *)
(* submits those that pass; a GPU worker judges them again.  Invocations   *)
(* of the Cloudflare Worker share nothing but that object, RunPod's jobs   *)
(* and the endpoint.  A new release is rolled out worker by worker and may *)
(* be rolled back, so each answer and each job may meet any release.       *)
(*                                                                         *)
(* A step runs from one await to the next.  A document is represented by   *)
(* the release that published it.  The durable object holds three dates    *)
(* (of the document, of the last rejection, of the pending probe) that the *)
(* code only ever compares with a limit of 30 minutes: a date is in        *)
(* cache.young until its limit has passed.  A value an invocation will not *)
(* read again is cleared.                                                  *)
(***************************************************************************)
EXTENDS CanonicalRequest

CONSTANTS
    Generators,     \* invocations of POST /canonical/generate
    Readers,        \* invocations of GET /capabilities, with or without ?refresh=1
    Probes,         \* RunPod job ids of capability probes
    Releases,       \* what may be deployed on the endpoint
    ExpectedBuild,  \* EXPECTED_H3_BUILD
    Inputs,         \* the bodies that clients send
    None

Invocations == Generators \cup Readers

(* A reference of a body. *)
References == [type : STRING, role : STRING, seconds : Nat, soundtrack : Nat \cup {NoSoundtrack}]

ASSUME AdmissionAssumption ==
    /\ Generators \cap Readers = {}
    /\ None \notin Releases \cup Probes
    /\ \A in \in Inputs : /\ in.duration \in Int /\ in.references \in Seq(References)
                         /\ in.firstFrame \in BOOLEAN /\ in.lastFrame \in BOOLEAN

VARIABLES
    probes,     \* RunPod's records of the probes: [status, release]
    cache,      \* the durable object __canonical_capabilities__
    pc,         \* where each invocation is
    held,       \* the cached document an invocation read before it refreshes
    probe,      \* the probe it waits for
    document,   \* the document it goes on with
    job         \* the job it submitted: [input, under, on]

vars == <<probes, cache, pc, held, probe, document, job>>
invocation == <<held, probe, document, job>>

Dates == {"fetched", "rejected", "submitted"}
Steps == {"read", "reread", "submit_probe", "announce", "poll",
          "publish", "reject", "clear", "stale", "admit", "validate",
          "queued", "stage", "graph"}
Ended == {"idle", "deployment", "refused"}

NoRecord == [status |-> "none", release |-> None]
EmptyCache == [document |-> None, pending |-> None, young |-> {}]
NoJob == [input |-> None, under |-> None, on |-> None]

IsCanonical(release) == release # None /\ IsCanonicalDocument(Document(release))

Init ==
    /\ probes = [p \in Probes |-> NoRecord]
    /\ cache = EmptyCache
    /\ pc = [i \in Invocations |-> "idle"]
    /\ held = [i \in Invocations |-> None]
    /\ probe = [i \in Invocations |-> None]
    /\ document = [i \in Invocations |-> None]
    /\ job = [i \in Invocations |-> NoJob]

Goto(i, step) == pc' = [pc EXCEPT ![i] = step]
Forget(f, i) == [f EXCEPT ![i] = None]

(* A read of the durable object: readJobState answers null when it fails.  *)
Readable == {cache, EmptyCache}

(* A request arrives.  How the last one ended shows in pc when a property   *)
(* asks for it: answered that the deployment needs action, or refused by a  *)
(* GPU worker.                                                              *)
Ask(i) ==
    /\ pc[i] \in Ended
    /\ Goto(i, "read")
    /\ job' = [job EXCEPT ![i] = NoJob]
    /\ UNCHANGED <<probes, cache, held, probe, document>>

(* getCanonicalCapabilities, up to the refresh.  Only a reader can force   *)
(* one.                                                                    *)
ReadCache(i) ==
    /\ pc[i] = "read"
    /\ \E cached \in Readable, forced \in IF i \in Readers THEN BOOLEAN ELSE {FALSE} :
          \/ /\ ~forced /\ IsCanonical(cached.document) /\ "fetched" \in cached.young
             /\ document' = [document EXCEPT ![i] = cached.document]
             /\ Goto(i, "admit")
             /\ UNCHANGED held
          \/ /\ ~forced /\ ~IsCanonical(cached.document) /\ "rejected" \in cached.young
             /\ Goto(i, "deployment")
             /\ UNCHANGED <<held, document>>
          \/ /\ \/ forced
                \/ IsCanonical(cached.document) /\ "fetched" \notin cached.young
                \/ ~IsCanonical(cached.document) /\ "rejected" \notin cached.young
             /\ held' = [held EXCEPT ![i] = IF IsCanonical(cached.document)
                                            THEN cached.document ELSE None]
             /\ Goto(i, "reread")
             /\ UNCHANGED document
    /\ UNCHANGED <<probes, cache, probe, job>>

(* refreshCanonicalCapabilities joins the pending probe while it is young. *)
JoinOrSubmit(i) ==
    /\ pc[i] = "reread"
    /\ \E previous \in Readable :
          LET joins == previous.pending # None /\ "submitted" \in previous.young
          IN  /\ probe' = [probe EXCEPT ![i] = IF joins THEN previous.pending ELSE None]
              /\ Goto(i, IF joins THEN "poll" ELSE "submit_probe")
    /\ UNCHANGED <<probes, cache, held, document, job>>

(* The POST of a probe: accepted under a new id, or not accepted.  An id   *)
(* is new when nobody remembers it.                                        *)
Unused(p) ==
    /\ probes[p] = NoRecord
    /\ cache.pending # p
    /\ \A i \in Invocations : probe[i] # p
SubmitProbe(i) ==
    /\ pc[i] = "submit_probe"
    /\ \/ \E p \in Probes :
            /\ Unused(p)
            /\ probes' = [probes EXCEPT ![p] = [status |-> "queued", release |-> None]]
            /\ probe' = [probe EXCEPT ![i] = p]
            /\ Goto(i, "announce")
       \/ /\ Goto(i, "stale")
          /\ UNCHANGED <<probes, probe>>
    /\ UNCHANGED <<cache, held, document, job>>

(* Its id is pushed into the durable object; the push may fail. *)
AnnounceProbe(i) ==
    /\ pc[i] = "announce"
    /\ \/ /\ cache' = [cache EXCEPT !.pending = probe[i], !.young = @ \cup {"submitted"}]
          /\ Goto(i, "poll")
          /\ UNCHANGED probe
       \/ /\ Goto(i, "stale")
          /\ probe' = Forget(probe, i)
          /\ UNCHANGED cache
    /\ UNCHANGED <<probes, held, document, job>>

(* One round of the polling loop.  A record that is gone fails the refresh *)
(* and leaves the pending id.                                              *)
PollAnswered(i) ==
    /\ pc[i] = "poll"
    /\ probe' = Forget(probe, i)
    /\ LET record == probes[probe[i]]
       IN  \/ /\ record.status = "completed"
              /\ document' = [document EXCEPT ![i] = record.release]
              /\ Goto(i, IF IsCanonical(record.release) THEN "publish" ELSE "reject")
           \/ /\ record.status = "failed"
              /\ Goto(i, "clear")
              /\ UNCHANGED document
           \/ /\ record.status = "none"
              /\ Goto(i, "stale")
              /\ UNCHANGED document
    /\ UNCHANGED <<probes, cache, held, job>>

(* An answer to the poll that does not come, is not ok or carries an error *)
(* of the handler fails the refresh, and so does the deadline of the loop, *)
(* CAPABILITY_REFRESH_TIMEOUT_MS.  Both leave the pending id.              *)
PollFails(i) ==
    /\ pc[i] = "poll"
    /\ probe' = Forget(probe, i)
    /\ Goto(i, "stale")
    /\ UNCHANGED <<probes, cache, held, document, job>>

(* The document of the probe becomes the cached one.  A push that fails    *)
(* fails the refresh, whose document is forgotten.                         *)
PublishDocument(i) ==
    /\ pc[i] = "publish"
    /\ \/ /\ cache' = [document |-> document[i], pending |-> None,
                        young |-> (cache.young \ {"submitted"}) \cup {"fetched"}]
          /\ Goto(i, "admit")
          /\ UNCHANGED document
       \/ /\ document' = [document EXCEPT ![i] = None]
          /\ Goto(i, "stale")
          /\ UNCHANGED cache
    /\ UNCHANGED <<probes, held, probe, job>>

(* A document that is not canonical takes the cached one's place away. *)
RejectKeepingDate(i) ==                                                 \* mutant
    /\ pc[i] = "reject"
    /\ cache' = [document |-> None, pending |-> None,
                  young |-> (cache.young \ {"submitted"}) \cup {"rejected"}]
    /\ document' = [document EXCEPT ![i] = None]
    /\ Goto(i, "stale")
    /\ UNCHANGED <<probes, held, probe, job>>
RejectDocument(i) ==
    /\ pc[i] = "reject"
    /\ \/ cache' = [EmptyCache EXCEPT !.young = {"rejected"}]
       \/ UNCHANGED cache
    /\ document' = [document EXCEPT ![i] = None]
    /\ Goto(i, "stale")
    /\ UNCHANGED <<probes, held, probe, job>>

(* A probe that ended as FAILED, CANCELLED or TIMED_OUT is forgotten, the  *)
(* document is not.                                                        *)
ClearProbeAndDocument(i) ==                                             \* mutant
    /\ pc[i] = "clear"
    /\ cache' = [cache EXCEPT !.document = None, !.pending = None, !.young = {}]
    /\ Goto(i, "stale")
    /\ UNCHANGED <<probes, invocation>>
ClearProbe(i) ==
    /\ pc[i] = "clear"
    /\ \/ cache' = [cache EXCEPT !.pending = None, !.young = @ \ {"submitted"}]
       \/ UNCHANGED cache
    /\ Goto(i, "stale")
    /\ UNCHANGED <<probes, invocation>>

(* The refresh failed: the document read before it serves, if there is one. *)
FallBack(i) ==
    /\ pc[i] = "stale"
    /\ \/ /\ held[i] # None
          /\ document' = [document EXCEPT ![i] = held[i]]
          /\ held' = Forget(held, i)
          /\ Goto(i, "admit")
       \/ /\ held[i] = None
          /\ Goto(i, "idle")
          /\ UNCHANGED <<held, document>>
    /\ UNCHANGED <<probes, cache, probe, job>>

(* A reader gets the document.  A generation goes on if it is of the       *)
(* expected build.                                                         *)
Admit(i) ==
    /\ pc[i] = "admit"
    /\ held' = Forget(held, i)
    /\ \/ /\ i \in Readers
          /\ Goto(i, "idle") /\ document' = Forget(document, i)
       \/ /\ i \in Generators /\ document[i].build # ExpectedBuild
          /\ Goto(i, "deployment") /\ document' = Forget(document, i)
       \/ /\ i \in Generators /\ document[i].build = ExpectedBuild
          /\ Goto(i, "validate")
          /\ UNCHANGED document
    /\ UNCHANGED <<probes, cache, probe, job>>

(* validateCanonicalInput; then the assets are verified and signed, the    *)
(* callbacks built and the job posted, and a failure on that way ends the  *)
(* request without a job.                                                  *)
Validate(i) ==
    /\ pc[i] = "validate"
    /\ document' = Forget(document, i)
    /\ \E in \in Inputs :
          \/ /\ ValidateCanonicalInput(in, Document(document[i]))
             /\ job' = [job EXCEPT ![i] = [input |-> in, under |-> document[i], on |-> None]]
             /\ Goto(i, "queued")
          \/ Goto(i, "idle") /\ UNCHANGED job
    /\ UNCHANGED <<probes, cache, held, probe>>

(* A worker of the endpoint takes the job: request.parse, then resolve.    *)
WorkerParses(i) ==
    /\ pc[i] = "queued"
    /\ \E r \in Releases :
          \/ /\ Parse(job[i].input, r) /\ Resolve(job[i].input, r)
             /\ Goto(i, "stage")
             /\ UNCHANGED job
          \/ /\ ~(Parse(job[i].input, r) /\ Resolve(job[i].input, r))
             /\ job' = [job EXCEPT ![i].input = None, ![i].on = r]
             /\ Goto(i, "refused")
    /\ UNCHANGED <<probes, cache, held, probe, document>>

(* The references are downloaded, measured and judged again before the     *)
(* graph is executed.                                                      *)
WorkerStages(i) ==
    /\ pc[i] = "stage"
    /\ \/ /\ StageReferences(job[i].input.references)
          /\ Goto(i, "graph")
          /\ UNCHANGED job
       \/ /\ ~StageReferences(job[i].input.references)
          /\ Goto(i, "idle")
          /\ job' = [job EXCEPT ![i] = NoJob]
    /\ UNCHANGED <<probes, cache, held, probe, document>>

WorkerExecutes(i) ==
    /\ pc[i] = "graph"
    /\ Goto(i, "idle")
    /\ job' = [job EXCEPT ![i] = NoJob]
    /\ UNCHANGED <<probes, cache, held, probe, document>>

(* RunPod: a worker answers a probe, a probe fails, a record expires. *)
AnswerProbe(p) ==
    /\ probes[p].status = "queued"
    /\ \E r \in Releases : probes' = [probes EXCEPT ![p] = [status |-> "completed", release |-> r]]
    /\ UNCHANGED <<cache, pc, invocation>>
FailProbe(p) ==
    /\ probes[p].status = "queued"
    /\ probes' = [probes EXCEPT ![p] = [status |-> "failed", release |-> None]]
    /\ UNCHANGED <<cache, pc, invocation>>
ExpireRecord(p) ==
    /\ probes[p].status \in {"completed", "failed"}
    /\ probes' = [probes EXCEPT ![p] = NoRecord]
    /\ UNCHANGED <<cache, pc, invocation>>

(* The passing of 30 minutes. *)
Age(date) ==
    /\ date \in cache.young
    /\ cache' = [cache EXCEPT !.young = @ \ {date}]
    /\ UNCHANGED <<probes, pc, invocation>>

Proceed(i) ==
    \/ ReadCache(i) \/ JoinOrSubmit(i) \/ SubmitProbe(i) \/ AnnounceProbe(i)
    \/ PollAnswered(i) \/ PollFails(i) \/ PublishDocument(i)
    \/ RejectDocument(i) \/ ClearProbe(i) \/ FallBack(i) \/ Admit(i)
    \/ Validate(i)
Serve(i) == WorkerParses(i) \/ WorkerStages(i) \/ WorkerExecutes(i)

Next ==
    \/ \E i \in Invocations : Ask(i) \/ Proceed(i)
    \/ \E i \in Generators : Serve(i)
    \/ \E p \in Probes : AnswerProbe(p) \/ FailProbe(p) \/ ExpireRecord(p)
    \/ \E date \in Dates : Age(date)

Spec == Init /\ [][Next]_vars

-----------------------------------------------------------------------------
(* Every variable keeps its type, a young date belongs to a value and an   *)
(* invocation that polls has a probe to poll.                              *)
TypeOK ==
    /\ \A p \in Probes :
          /\ probes[p].status \in {"none", "queued", "completed", "failed"}
          /\ probes[p].release \in Releases \cup {None}
          /\ probes[p].status = "completed" <=> probes[p].release # None
    /\ cache.document \in Releases \cup {None} /\ cache.pending \in Probes \cup {None}
    /\ cache.young \subseteq Dates
    /\ "fetched" \in cache.young => cache.document # None
    /\ "submitted" \in cache.young => cache.pending # None
    /\ \A i \in Invocations :
          /\ pc[i] \in Steps \cup Ended
          /\ held[i] \in Releases \cup {None} /\ document[i] \in Releases \cup {None}
          /\ pc[i] \in {"announce", "poll"} <=> probe[i] # None
          /\ pc[i] \in {"publish", "reject", "admit", "validate"} => document[i] # None

(* What the control plane admits under a release's document, a worker of   *)
(* that release accepts: a job that is refused met a worker of another     *)
(* release.  A refusal costs the caller a queue wait and a job.            *)
AdmittedIsAccepted ==
    \A i \in Generators : pc[i] = "refused" => job[i].on # job[i].under

(* Every tag of the compiled prompt names the file that the conditioning   *)
(* node gives that label to, whatever mix of images, videos with and       *)
(* without soundtrack and standalone audio a job has.                      *)
PromptTagsMatchGraph ==
    \A i \in Generators : pc[i] = "graph" =>
        LET refs == job[i].input.references
            sockets == BuildRef2va(refs)
        IN  \A tag \in CompilePrompt(refs) :
                \E s \in sockets :
                    s.file = tag.file /\ NodeLabel(sockets, s) = <<tag.kind, tag.ordinal>>

(* What a worker accepts makes a graph the node can run: a frame count on  *)
(* its grid and within its schema, and no more sockets than it has.        *)
GraphIsLegal ==
    \A i \in Generators : pc[i] = "graph" =>
        LET frames == ResolveCanvasFrames(job[i].input.duration)
            sockets == BuildRef2va(job[i].input.references)
        IN  /\ OnGrid(frames) /\ frames \in MinFrames .. MaxFrames
            /\ \A s \in sockets : s.index < IF s.group = "ref_images" THEN 9 ELSE 3

(* A document is lost to a rejected one only: a probe that fails, expires  *)
(* or is not answered never takes away what the cache serves.              *)
DocumentSurvivesFailures ==
    [][cache.document # None /\ cache'.document = None => "rejected" \in cache'.young]_vars
=============================================================================

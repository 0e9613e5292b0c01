# MiniMax H3 on RunPod: specifications

TLA+ models of the serverless video worker (`src/handler.py` and its packages)
and of its control plane (`src/worker.js`), the TLC runs that check them on
small instances and the TLAPS proofs of what holds for every instance.

    tlc -workers 2 -config JobHandler_warm.cfg MCJobHandler
    tlapm JobHandler_proofs.tla

The theorems about a module `M` are in `M_proofs`, those about `Container` in
`ControlPlane_proofs` with the upload handler that peeks at one.

## The system

A browser talks to a Cloudflare Worker. The Worker validates a request, submits
it to a RunPod endpoint, and keeps what it knows of the job in a Durable Object.
A GPU worker on the endpoint takes the job, has ComfyUI compute the video,
encrypts it if the job is confidential, and uploads it through the Worker to R2.
It reports its phases to the Worker on the way. Nothing is shared between these
parts but messages that may be lost or overtaken, RunPod's record of a job, R2,
and the Durable Objects.

| Component | Source | State it keeps | Operations | Hard behaviour | What makes it correct |
|---|---|---|---|---|---|
| Job handler | `handler.py` `handler`, `build_privora_job`, `stage_input_assets`, `collect_outputs` | locals of one call, files on a warm container's disk, phases reported, artefacts sent | one job from envelope to `finally` | every statement may raise; prompts outlive their job; acknowledgements get lost | nothing confidential leaves in the clear, nothing job-specific stays, an answer is honest, phases fall back at most once, from decoding to sampling |
| Keyframe staging | `handler.py` `find_image_node`, `stage_input_assets` | files, the caller's graph | resolve, fetch, write, wire | the graph is the caller's: circles, dangling links, shared loaders | no image at the wrong end of the clip; all files or none |
| Waiting for ComfyUI | `handler.py` `await_execution`, `_connect_websocket`, `_poll_history` | one websocket | receive, poll, give up | the socket opens after the prompt was sent, and breaks; the end is announced before it is recorded | the wait ends, and says what happened |
| Progress | `handler.py` `ProgressReporter` | last phase and percentage | `phase`, `step` | best-effort delivery, a frame that comes late | phases rise, but for one fall-back while ComfyUI runs; a retry starts over |
| Artefacts | `artifacts.py`, stores in `handler.py` | scratch directories, keys | protect, store, discard, shred | deletion that fails, partial failure | plaintext is gone once the ciphertext is delivered |
| ComfyUI processes | `handler.py` `ComfyRank`, `start_comfyui` ... `_drain_shadow_ranks` | process handles, ports, transport rung | bring up, verify, feed, drain, stop | two processes that must stay in step, death, stalls | one process per port, whole groups, no mixing of prompts |
| Dual-GPU runtime | `h3_parallel/runtime.py`, `shadow.py`, `config.py`, `collectives.py` | process group, execution plan | resolve, collectives, shadow workflow | order of collectives, time-outs | both ranks compute the same prompt |
| Ulysses | `h3_parallel/ulysses.py`, `patches.py` | per rank: shard, chunk counter | shard, two all-to-alls per block, gather, share a chunk | every rank must take the same path; uneven shards | the video is the unpatched model's |
| Container | `artifacts.py`, `worker.js`, `client/` | none | write, peek, parse | three hand-kept copies of one framing | every reader finds what was written |
| Request bridge | `privora/` | none (pure), the model inventory | parse, resolve, compile, build, stage | numeric edges, two numberings that must agree | an admitted request is executable and its tags name the right files |
| Job control | `worker.js` | JobChannel, R2 objects | submit, progress, upload, status, cancel, delete, sweep | every `await` is a point where others run | status, channel and R2 agree; references live as long as they are needed |
| Admission | `worker.js` `getCanonicalCapabilities` ... `generateCanonicalVideo` | one Durable Object with document, dates and pending probe | capabilities, refresh, admit | probes answered late or never, rollouts | what is admitted is accepted; a document survives failures |
| Assets | `worker.js` `authorizeCanonicalAsset` ... `deleteCanonicalAsset`, `verifyCanonicalAsset` | R2 objects, presigned URLs | authorise, upload, confirm, delete, verify, sign, stage, clean up | URLs that outlive a decision; generations that share an asset | the GPU reads what was admitted; a reference goes missing for a reason |
| LoRA library | `worker.js` LoRA routes | R2 objects | authorise, confirm, list | none: nothing in the repository reads what they store | not modelled |
| Legacy routes | `worker.js` `generateVideo`, `normalizeRequest` | active-jobs index | submit | unreachable: the route throws before it submits | not modelled |
| Tokens, presigning | `worker.js`, `mint-tokens.mjs` | none | sign, verify | none | not modelled |
| Client library | `client/` | keys in memory | decrypt | none concurrent | reads the container; its keys are not modelled |
| Model cache | `cached_models.py`, `bootstrap.py` | links on disk | check the snapshot, link, roll back | killed half-way, evictions behind its back, restarts on what is left | a worker serves the pinned files only, leaves no trace when it does not, and comes up in the end |
| Build scripts, CI | `scripts/`, `.github/`, Dockerfiles | none at run time | | | not modelled |

The hazards that follow from this, each at its line and with the property that
covers it, are the `hazards` of `PROJECT.json`.

## Modules

`JobHandler` - one warm worker's handler thread. `pc` is a statement of
`handler()`, `job` the call being served, `asked` the opened request, `known`
the handles its `finally` will clean up, `disk` the files on the container,
`remote` what left it, `phase` what clients were last told, `believed` what the
reporter remembers of it (`step()` reports sampling and remembers nothing), `prompt`
and `written` what ComfyUI does on its own. An action is one statement with all it calls: a
loop over items is one action per item. An except clause is an action (`...Fail`).
`MCJobHandler` gives it both routes and both privacy modes.

`WorkerContract` - what such a worker promises, without its insides: one job at a
time, one answer to each and nothing after it, nothing sent but by the open job,
sealed if that was asked for, success only when all that the prompt ever saves
was sent. `JobHandler` implements it (`Contract`, `ImplementsContract`): a request
becomes its `kind`, what left the container becomes pairs of a file and whether
it was sealed, and files, phases and statements disappear.

`ExecutionWatch` - the one statement at which `JobHandler` waits, frame by frame.
`wire` holds the frames on the socket, `history` what a poll would see, `due` and
`late` the two clocks, `believed` and `phase` what the reporter thinks and last
said. It refines `JobHandler` (`Handler`, `RefinesAwait`) with one job, without
assets and with its `pc` at "await" until the outcome is known: every frame and
poll is invisible there, ComfyUI saving a file, the phases it starts, the success and the
failure are steps `JobHandler` has.

`KeyframeStaging` - the inside of `stage_input_assets`. `workflow` is the caller's
graph, `queue` and `seen` are the walk of `_reachable_image_loaders`, `preferred`
and `claimed` its two results, `resolved`, `staged`, `files` and `wired` what
becomes of each role. `JobHandler` has its staging loop as one action per file.

`ModelCache` - one worker's start. `pc` is a statement of `bootstrap.main()`,
`image` and `link` the file system before and now, `snapshot` RunPod's files,
which change on their own, `created` and `planned` the locals a rollback depends
on, `names` what the handler found when it was imported. Last comes the judgement
of `worker.js` on the document such a worker publishes.

`ReferenceAssets` - the reference objects of one session, beside `ControlPlane`:
`put` is a live upload URL and what it was signed for, `object` R2, `claim` the
descriptors a generation brought, `todo` what is still to be verified or staged,
`removed` who deleted an object last, `listed` whose channel lists its references.
A generation is reduced to verify, post, stage, end. RunPod starts its job up to
`MaxAttempts` times (`attempt`); `ended` is the first attempt that delivered or
failed. From then on the references may go, with RunPod's record still in
progress and perhaps a retry at work that has them still to read.

`ControlPlane` - one canonical generation in `worker.js`. `req` holds the
requests being served; one action runs from one `await` to the next, so any two
handlers interleave there as they do in the isolates. `chan` is the job's
Durable Object, whose `/update` merges one push atomically (its input gate),
`objects` and `refs` are R2, `runpod` is RunPod's record, `gpu` and `net` are
the GPU worker's attempt and callbacks it stopped waiting for. `JobHandler`
shows what one attempt does; here an attempt is reduced to what it sends.

`ComfyRanks` - the ComfyUI processes. `Resolve` decides from an endpoint (mode,
GPUs, world size, whether it may fall back) how many ranks a worker has, or that
it exits. `pc`, `job`, `rung` and `group` are the handler's; `proc` is what each
process is doing, named after the bring-up that launched it. `mixed` and `stale`
are history variables: prompts that computed with another prompt's tensors,
prompts submitted to a busy rank. `MCComfyRanks` provides the endpoints.

`SequenceParallel` - what the ranks of a group compute for a prompt they began
together (`ComfyRanks` shows when they do not). An action is the code of one rank
between two collectives; `call` is the collective it waits in, `reply` what that
returned, and `Meet` moves the data as NCCL does. `packed` holds symbols - token,
block, step, prompt - so a row that went to the wrong place, lost a head or was
modulated by the wrong segment is `Garbage` from then on. `counter` is the chunk
counter every rank keeps for itself, `split` whether install managed to patch its
video VAE. `MCSequenceParallel` provides the segment table.

`Container` - the framing of an encrypted artefact as byte strings: its writer,
and the questions of its three readers. The Worker's parser and Python's ask the
same ones; the client asks for the whole container at once.

`CanonicalRequest` - the pure part of both sides' judgement on a request: frame
arithmetic, limits, ordinals, tags, the sockets of the conditioning graph, the
inventory and the capability document. Durations are ten-thousandths of a
second, the precision of the document, so rounding is exact. A reference is its
position in the request's list: the code splits the list by type and enumerates
each part, the model counts the positions of that type up to its own. `NodeLabel`
is how the conditioning node numbers its inputs and is external.

`Admission` (extends `CanonicalRequest`) - the capability cache and the way of a
request through it. `cache` is the Durable Object, `probes` RunPod's records,
`pc`, `held`, `probe`, `document` and `job` the locals of each invocation. The
three dates the code compares with 30 minutes are in `cache.young` until they
pass. A read of the Durable Object that fails is a read of an empty one
(`readJobState`). `MCAdmission` provides releases and bodies.

## Runs

| Run | Bounds | What it shows |
|---|---|---|
| `handler` | 2 jobs in a row of 5 kinds, 2 outputs, r2 store | type, `ConfidentialNeverPlain`, `DeliveredIsGone`, `InputsPurged`, `SuccessLeavesNothing`, `PhasesFallBackOnce`, `ImplementsContract`, `JobsReturn` |
| `handler_plaintext` | 1 job, 1 output, outputs kept | violation: plaintext left behind by a failed encryption |
| `execution_watch` | 2 outputs, 3 frames | `Returns`, `RefinesAwait` |
| `keyframes` | 2 roles, 2 video nodes, 2 loaders, 2 others, 3072 workflows | `NeverTheOtherEnd`, `AllOrNothing`, `Ends` |
| `model_cache` | 3 files and the alias, 3 faults, a clean image or one foreign path | `ServesPinned`, `LeavesNoTrace`, `Recovers` |
| `control_plane` | 1 generation, 2 attempts, 2 requests at a time, 1 reference | type, `StoredSealed`, `AdvertisedIsStored`, `SnapshotIsRight`, `ReferencesOutliveUse`, `ForgottenIsDeleted` |
| `deletion` | as above | violation: a deleted video is advertised again |
| `reference_assets` | 2 assets, 2 generations, 2 attempts of one of them, 1 content type, sizes 1 and 2 | `ReadAsAdmitted`, `MissedForACause` |
| `ranks` | 24 endpoint configurations (0, 1 or 2 ranks), 2 rungs, 2 jobs and the preload, 2 collectives | type, `OnlyVerifiedServe`, `GroupIsWhole`, `FreshJobsMatch`, `JobsEnd` |
| `ranks_mixing` | 2 ranks, 2 jobs | violation: prompts mix |
| `sequence_parallel` | 2 and 3 ranks, 5 rows in 3 segments, 6 heads, 2 blocks, 2 steps, 3 chunks, 2 prompts | `CallsAgree`, `ResultsAreExact`, `PromptsEnd` |
| `admission` | 1 generation, 1 reader, 2 probes, 3 releases, 30 bodies | type, `AdmittedIsAccepted`, `PromptTagsMatchGraph`, `GraphIsLegal`, `DocumentSurvivesFailures` |

Why these bounds are enough.

- `handler`: two outputs are what "one delivered, the other not" needs, two jobs
  what "left by the first, found by the second" needs. `FirstJobFirst` is a
  constraint, not a change of the handler: the jobs are interchangeable, so `j1`
  may as well come first, and `j2` saves at most one file - a prompt with several
  is `j1`'s. What is left is closed under the handler's steps and ComfyUI is
  assumed to save nothing, so it is again an instance of `JobHandler`, for
  liveness too.
- `execution_watch`: three frames are enough to break the socket before, between
  and after them and to say one phase again after a later one.
- `keyframes`: the workflows have each kind of source behind a socket - a loader, a resize
  node, a circle of two, a node that is not there - for both ends and of both
  clips, so a loader can be shared, preferred for both ends, or alone.
- `model_cache`: three files are the checkpoint with its alias, a listed one and
  one that nobody lists. Three faults are a crash in the middle of linking, one in
  the middle of the rollback that follows, and an eviction.
- `control_plane`: two slots, two attempts, so every pair of handlers can
  interleave, an upload of the first attempt can land in the second, and a third
  party (RunPod, the GPU, the cron) runs beside them.
- `reference_assets`: two generations are what sharing needs, two sizes what a
  replaced object needs; a second type would tell apart nothing that a second
  size does not, since both are compared together. A descriptor without a size
  (0, which the Worker does not compare) asks less of an object than these do, and
  a size over the limit is never stored: both stay out of the instance. One of the
  generations may have a second attempt (`OneRetry`): that a retry misses what its own
  first attempt or another generation deleted needs one; a retry of both at once would
  add no new pair of a reader and a remover.
- `ranks`: two rungs let a group be replaced during boot, two jobs with two
  collectives let a rank be one collective or one prompt behind the other.
- `sequence_parallel`: five rows do not divide among two ranks nor among three,
  one segment straddles a border of the shards and the others end inside one or
  at it; two blocks are a first, which shards, and a last, which gathers; the second step
  starts from what the first left on the thread; three
  chunks come back to the first owner of two; the second prompt starts from what
  a failed one left.
- `admission`: two probes let two refreshes overtake each other; the bodies lie
  on each side of every limit the two validations compare.

`ExecutionWatch`, `KeyframeStaging`, `ModelCache`, `ReferenceAssets` and
`SequenceParallel` state their `TypeOK` too. It holds in the instances above,
and is not listed as a property of their runs.

Fairness. `JobHandler`: the handler's own statements go on (they are bounded by
time-outs; the wait for ComfyUI by the deadline), ComfyUI's are not assumed to.
`ExecutionWatch` shows what that rests on: `recv` and a GET return
(`WF(HandlerStep)`) and five seconds pass; ComfyUI need not go on, and the
deadline may be far away. `KeyframeStaging`: one thread goes on. `ModelCache`:
`main()` goes on, RunPod restarts what exited and goes on downloading; faults are
limited by `MaxFaults` and never required. `ComfyRanks`: the handler's steps, the
steps of a process with a prompt, and a collective both ranks have entered; not
that `H3_JOB_TIMEOUT` passes, that a process boots or that one dies.
`SequenceParallel`: some rank goes on as long as one can, and a collective that
a rank will not join times out (`collectives.py` sets a blocking wait with a
timeout); not that a rank raises or that a prompt comes. `ControlPlane`,
`ReferenceAssets` and `Admission` assume nothing: their properties are safety.
Deadlock is not checked where a model ends (all jobs served, the worker exited or
up, the record expired, all prompts done); `Admission` never ends and checks it.

Symmetry is used for request slots (`ControlPlane`), probe ids (`Admission`),
assets and generations (`ReferenceAssets`), all with safety properties only.

## Findings

Three places where the code and what the repository says of it disagree, each
with its counterexample run: plaintext left behind by a failed encryption
(`handler_plaintext`), a deletion undone in what is reported (`deletion`), a
drain that does not drain (`ranks_mixing`).

What else the models contain as the code has it, and is worth knowing when
reading it; the first nine are among the hazards:

- User LoRAs stay on the disk when the references of the same job fail to stage
  (`handler.py:2898`).
- The cron sweep sees no canonical job: the index it reads has one writer, which
  throws before it writes (`worker.js:2322`).
- The Worker looks for a tier `2k` where this repository's GPU document has
  `ultra`, and never serves it (`worker.js:135`, `privora/canvas.py:137`).
- A cancel whose read of the channel fails forgets references it did not delete
  (`worker.js:2538`).
- A keyframe whose write fails half-way stays on the disk (`handler.py:1962`).
- A prompt that succeeded is given up when its last frame overtakes the history
  entry (`handler.py:1543`).
- The end of a generation deletes an asset another one still has to read
  (`worker.js:1912`).
- A retry misses the references an earlier attempt of its own job made the Worker
  delete: a terminal callback (`worker.js:3276`) and a stored upload
  (`worker.js:3378`) delete them, whatever RunPod's record says.
- A progress frame behind the start of the decode reports sampling again, and
  decoding is not reported a second time (`handler.py:475`).
- The field list of canonical bodies lacks `loras` (`worker.js:230`).
- The encrypted store shreds the path it is given without the ownership guard of
  `_discard_output_file` (`handler.py:2379`).
- A refused envelope reports no phase (`handler.py:3131`); a channel is seeded
  after the POST and so may be set back to "queued" (`worker.js:2059`); a late
  sampling callback changes the phase of a job that is over (`worker.js:3272`).
- A signed GET lives at most 30 minutes from admission (`worker.js:1590`), as long
  as RunPod keeps the job queued or running (`worker.js:2031`): a job taken late
  finds its URLs expired, which is an `AttemptEnds` of `ReferenceAssets`.

## Proofs

Every safety property and action property that a run checks is also a theorem,
for every value of the constants, but for the refinement `RefinesAwait` of
`ExecutionWatch`. A theorem assumes what its module declares of its constants,
and nothing else unless it is said here. Each is an invariant of its own that is
inductive: true at first, kept by every step (one step of the proof per action),
and enough for the property.

`JobHandler_proofs`, for any jobs, assets, outputs and requests and every setting
of the worker:

- `TypeCorrect`. `TypeInv` is `TypeOK` with the fact that the open job has a
  request.
- `ConfidentialArtefactsAreSealed`. Alone, `ConfidentialNeverPlain` is not
  inductive: that an artefact on its way is a ciphertext follows from where the
  handler is. `Sealing` says that a confidential job beyond the protector has an
  upload URL, so `Via` can only be "upload", and that what is being stored is on
  the disk as a ciphertext.
- `InputsArePurged`. `Purging` ties every staged file to the handle that will
  clean it, at each statement: a loop in progress cleans up itself, a later
  failure through `finally`.
- `AnswersAreHonest`: `OkMeansDelivered`, which in the runs is a consequence of
  `ImplementsContract` and therefore not a property of its own. `Delivering` says
  what the collecting loop has still to do and what it has delivered.
- `PhasesFallBackAtMostOnce`. `Reporting` bounds the phase by the statement, and
  says that while ComfyUI runs a decode clients know of is one the reporter
  remembers. So when the phase falls from decoding to sampling the job is `Past`: the
  reporter will not say decoding again, and nothing leaves `Past`.
- `KeepsContract`, the refinement of `WorkerContract`. Initial states map to
  initial states; each step is one of the contract's or leaves its variables
  alone. That `DeliverOutput` is a step of the contract needs to know what is being
  delivered: sealed if it has to be (`Sealing`) and saved by this prompt
  (`Saving`, which also says that a probe has no prompt). That the answer is one
  needs that success means delivered (`Delivering`).
- `DeliveredPlaintextIsGone`. `Placing` says where each kind of file may be: at
  `store()` a confidential output has only its container left, unless `shred`
  failed, and only what the loop is done with was delivered.
- `SuccessIsClean`. `Leaving` names who still has to remove each file of a job that
  has not failed; at its end nobody is left, so no file is.

`KeyframeStaging_proofs`, for any graph, roles and request:

- `NoSwappedEnds`. What the worklist of `_reachable_image_loaders` finds is not
  computed but bounded: `Walking` says that what it has seen feeds the role, and
  that behind every socket it is done with there is a set of nodes closed under
  links whose loaders were found. `Feeds` is defined by such sets, so when the
  queue is empty exactly what feeds the role was found (`FoundIsAll`), circles and
  dangling links included. `Choosing` keeps that for every role whose turn is over.
- `KeyframesAreAllOrNothing`. `Writing`: files are written in the order of the
  roles, to nodes of their own. That they are their own is what comparing the two
  cardinalities in the code is for (`NodesAreTheirOwn`).

`ModelCache_proofs`, for a manifest of any length, any images and any number of
faults: `PinnedIsServed` from `Checking` (a path the loop has passed is linked or
will be, its file was right and a change since is on record) and `NoTraceIsLeft`
from `Tracing` (a path this start changed was free before and is in `created`, or
could not be removed again).

`ReferenceAssets_proofs`, for any assets, generations, types, sizes and number of
attempts: `MissingHasACause` from `Blaming`: whoever is on record as the remover of
an object has had an attempt that ended, and if it is the reader's own generation the
attempt now reading is a later one. What was there at admission and has no remover
is still there. `AdmittedIsRead` from `Signing`: an upload URL
can only put back what was there, since it was signed for it and there is one per
asset, so what matched when it was admitted is what a later upload brings, too.

`ControlPlane_proofs`, for any number of concurrent requests, any references,
either privacy mode and any number of attempts: `TypeCorrect` (with `Routing`,
which awaits a request of a kind can be at), and over it

- `OnlyContainers` and `NothingIsAdvertisedInVain` from `Storing`: an upload that is
  past its put, and a channel that knows an artefact, vouch for it in R2 until
  somebody asks for its deletion.
- `SnapshotsAreRight` from `Ending` and `Knowing`: a poll under way saw a status
  that RunPod does not take back, and the channel knows of the artefact before
  the GPU worker hears that it was delivered, hence before a poll can see
  "COMPLETED". This is the order of `await`s in the upload handler.
- `ReferencesStay` from `Using` (whoever deletes references comes after an end) and
  `NoneIsForgottenEarly` from `Forgetting` (all are forgotten at once, by requests
  that have deleted them).

About `Container`, in the same module, for byte strings of any length and without
an assumption:

- `ReadersFindWhatWasWritten`. `ContainerLayout` gives the length and the
  preamble of what is written (a header length survives its two bytes because
  8192 is below 2^16), `PartOf` finds a part of a concatenation by its place.
- `PeekDecides`. A prefix that covers the peek, or everything, has the same
  preamble and covers the header if the whole does.
- `ReadersAgree` and `CutContainers`: no reader looks beyond the end, the Worker
  can only tell a container from its header, and a cut later than sixteen
  bytes behind the nonce is for the tag to refuse.

No run checks these: TLC has nothing to explore in a byte string of 8200.

`ComfyRanks_proofs`, for any endpoints, ladder, jobs and number of collectives:

- `TypeCorrect`. That a bring-up has a number in the range of `TypeOK` is a
  budget: `Counting` says how often the ranks were launched at each statement -
  main, every job that is done and the one being served have climbed the ladder
  once. `Blocking` and `Listening` (one process per port) carry the rest.
- `OnlyVerifiedRanksServe` and `GroupsAreWhole` from `Grouping`: every process that
  lives is of one bring-up, and between two starts all of them serve what was
  verified. Assumes `~SlowAnswers`: with slow answers a start launches over live
  ranks and both statements are false (see below).
- `FreshJobsComputeTheirOwn`, under the same assumption. The property speaks of
  tensors that have been mixed; what keeps them apart is where every rank is.
  `Alone`: each rank has a fresh job once and has nothing else, and rank 0 gets it
  last. `InStep`: two ranks that compute it are at the same collective. `Over`: once
  it succeeded, the shadow may still run it, but past its last collective.
  `Holding`: nobody holds a prompt that was not submitted.

`Admission_proofs`, for any releases, bodies and number of invocations:

- `WhatIsAdmittedIsAccepted`. `Judging` carries what the document of its release
  said of a queued job to the worker that takes it; the rest is `AcceptedHere`,
  which relates the two validations for every body. Durations: what is at most
  the published maximum rounds and aligns to at most 3600 frames (`Rounding`,
  `Aligning`, `LongestCanvas`, `DurationsFit`) - the maximum is published in
  ten-thousandths, so the two roundings have to be followed exactly. References:
  the Worker counts soundtracks of all media, the GPU those of videos
  (`CountsAreKept`).
- `TagsMatchTheGraph`. The tags count by type in the list, the node counts the
  sockets it is fed. `PairedCount` maps soundtracks to their sockets one to one,
  `Positions` says that counting keeps the order, `SoundtracksBefore` that the audio
  fed before a video's own is that of earlier videos.
- `GraphsAreLegal` from `Aligning` and `FewSockets`; `TypeCorrect`;
  `FailuresKeepTheDocument`, an action property, from the types.

`SequenceParallel_proofs`, for any number of ranks that divides the heads, any
rows, layout, blocks, steps, chunks and prompts, and any set of ranks whose video
VAE was patched:

- `CallsCorrect`, `ResultsCorrect`, `TypeCorrect`, all from one invariant, `IInv`
  (`Invariance`). Neither property is inductive. That calls match says nothing of
  what the ranks do before the next one; and that rows are right between two
  blocks says nothing of what was scattered on the way. `Exact` therefore says, for
  every statement of a rank, what it holds: its rows, as many of q, k and v, of
  the shards or of the chunks as it has gathered, and the call it makes or the reply it
  got, each equal to what the unpatched model's values come to. `InStep` says that
  ranks which have not failed are in the same round, a round being one collective of
  the prompt (`Round`); it allows them apart only over the chunks, and only when
  the video VAE is patched on one and not on the other. `Endings` says how a prompt ends:
  a rank that is out of step has failed, and that has a cause. A rank's step leaves
  the others alone (`OwnStepKeeps`), and `Meet` needs that all who wait make the
  same call and get what is exact (`AllServed`).
- What it rests on are facts about sequences, each an induction over a set of
  natural numbers (`Inductive`): `Sums` of lengths, `Flattened` for `FlattenSeq`,
  and from them `Reassembled` (slices put together again). For the two exchanges
  the key is the `Packet`, the columns of one rank of the rows of another, flat:
  a send buffer is packets at the offsets the receiver slices at
  (`ScatteringIsCut`, `GatheringIsCut`), so one exchange transposes and the other
  transposes back (`GatheredIs`, `ConcatenatedIs`). `RemapIsExact` does the
  modulation, `ShardSums` the row that does not divide.
- `NoneAssumption` says that `None` is not a value that it stands beside; Python
  has it so. `IInv` holds in TLC's instance of `sequence_parallel`, too.

Only model-checked: the refinement `RefinesAwait` of `ExecutionWatch`, and liveness
(`JobsReturn`, `Returns`, `Ends`, `Recovers`, `JobsEnd`, `PromptsEnd`), which is out
of the prover's reach. The three runs that expect a violation have no theorem, of course.

## Abstractions, and what they leave out

- Files, artefacts, messages and prompts are model values; a container is
  "cipher", a video "plain". Cryptography is perfect. Only `Container` has bytes,
  and of a header only its length: its JSON and the key it wraps are left out.
- RunPod retries a job whose worker died, up to `MaxAttempts`
  (`docs/confidential-generation.md:459`). It refuses to cancel a job that is over.
- NCCL collectives match by the order in which they are issued, and a
  communicator that timed out stays broken. ComfyUI's `/interrupt` marks the
  prompt that is running. A process that cannot bind its port exits. In
  `ComfyRanks`, `SlowAnswers` is FALSE in every run: if `/system_stats` of a live
  rank may take longer than five seconds, `OnlyVerifiedServe` and
  `GroupIsWhole` fail, because a start that gets no answer launches another
  process over the live one (`handler.py:1028`, a hazard).
- In `SequenceParallel` floating point is exact, the TokenRefiner runs on every
  rank without a collective, and patches of other nodes are absent.
- A document in `Admission` differs from another by build, tiers and model
  files; the rest of it is the same code's output in every release. A soundtrack
  takes the role of its video. Aspect ratios, seeds, camera, style and LoRAs are
  judged field by field and left out.
- Deleting staged inputs succeeds in `JobHandler`; that deleting a plaintext
  fails is modelled. Unused assets of an upload session are left to R2's lifecycle rule
  and not modelled; a generation cleans up every key it claimed.
- In `ModelCache` the manifest that the image carries is right, and a file is its
  size class ("right" or not), as in the code, which compares sizes.
- In `KeyframeStaging` checking a URL, downloading and decoding an image is one
  statement that may raise.

Not modelled: the LoRA library's routes (nothing reads what they store), the
legacy submission (it throws before it submits), tokens and presigning (no state
of their own), the client's key bundles (cryptography), canvas widths and
prompt prose (data), build scripts and CI (nothing survives a run).

## Plan

1. Done: `JobHandler` with proofs and its contract; `ExecutionWatch`;
   `KeyframeStaging`; `ModelCache`; `ControlPlane`; `ReferenceAssets`;
   `ComfyRanks` with the execution plan; `SequenceParallel`; `CanonicalRequest`
   and `Admission`; `Container` with proofs.
2. Done: the proofs of every safety property, of every action property and of the
   refinement of `WorkerContract`.
3. Left: the proof of `RefinesAwait` of `ExecutionWatch`, step by step as in
   `KeepsContract`; `execution_watch` checks it.

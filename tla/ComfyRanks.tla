----------------------------- MODULE ComfyRanks -----------------------------
(***************************************************************************)
(* The ComfyUI processes of one worker: how handler.py starts, verifies,   *)
(* feeds, interrupts and stops them, with one GPU or with two.             *)
(*                                                                         *)
(* With two, h3_parallel makes the two processes compute one video: rank 0 *)
(* serves the job, rank 1 is its shadow and runs a copy of the workflow,   *)
(* and both meet in the collectives of every transformer block. The        *)
(* collectives carry no job id, so what they exchange is whatever the two  *)
(* ranks happen to be computing.                                           *)
(*                                                                         *)
(* The handler is one thread (`pc`); the processes boot, bind their port,  *)
(* execute, stall and die on their own.                                    *)
(***************************************************************************)
EXTENDS Naturals, Sequences, FiniteSets

CONSTANTS
  Jobs,           \* jobs RunPod hands to this worker, numbered as they arrive
  Preload,        \* the synthetic prompt of run_flashboot_preload, before them
  PreloadEnabled, \* H3_FLASHBOOT_PRELOAD
  Endpoints,      \* the configurations of an endpoint to consider
  Ladder,         \* how many NCCL transports transport_ladder returns
  Collectives,    \* collectives of one prompt
  Verbatim,       \* jobs whose workflow has no decode node to put a sink on
  SlowAnswers,    \* /system_stats of a busy rank may take longer than 5 s
  NoJob           \* no job is being served

(* The execution plan of a worker (h3_parallel/config.py): how many ranks an  *)
(* endpoint that asks for a mode gets on a worker with so many devices. None  *)
(* is a refusal to start. The transformer has 56 heads.                       *)
DualBlocked(endpoint) ==
  \/ endpoint.worldSize < 2
  \/ endpoint.devices < endpoint.worldSize
  \/ 56 % endpoint.worldSize # 0
Resolve(endpoint) ==
  CASE endpoint.mode = "single"    -> 1
    [] ~DualBlocked(endpoint)      -> endpoint.worldSize
    [] endpoint.allowFallback      -> 1
    [] OTHER                       -> 0

\* A worker has two GPUs at most.
ASSUME EndpointsAssumption ==
  /\ Endpoints \subseteq [mode : {"single", "dual"}, devices : Nat, worldSize : Nat,
                          allowFallback : BOOLEAN]
  /\ \A endpoint \in Endpoints : endpoint.devices <= 2
ASSUME LadderAssumption      == Ladder \in Nat \ {0}
ASSUME CollectivesAssumption == Collectives \in Nat \ {0}
ASSUME JobsAssumption        == IsFiniteSet(Jobs) /\ Jobs \subseteq Nat \ {0}
ASSUME NamesAssumption       == Preload = 0 /\ NoJob \notin Nat
ASSUME FlagsAssumption       == PreloadEnabled \in BOOLEAN /\ SlowAnswers \in BOOLEAN
ASSUME VerbatimAssumption    == Verbatim \subseteq Jobs

Prompts  == Jobs \cup {Preload}
\* Every job starts the ranks at most once, and so does main; one start
\* launches them at most once for every rung of the ladder.
Attempts == 1 .. Ladder * (Cardinality(Jobs) + 1)
\* A process, named after the bring-up that launched it and its rank. The
\* processes of one bring-up are one NCCL group.
Procs    == Attempts \X (0..1)
Attempt(p) == p[1]
Rank(p)    == p[2]
Peer(p)    == <<Attempt(p), 1 - Rank(p)>>

VARIABLES
  world,    \* GPU_CONFIG.world_size
  pc,       \* the statement main() or handler() is at
  job,      \* the job being served, Preload, or NoJob
  rung,     \* the rung of the transport ladder being tried
  launches, \* how many times _bring_up has run
  group,    \* the bring-up whose processes _ranks holds, 0 when it holds none
  proc,     \* [process -> what it is doing]
  broken,   \* groups whose communicator NCCL aborted
  scratch,  \* jobs with a file in a shadow's output directory
  outcome,  \* [prompt -> what became of it]
  stale,    \* prompts submitted while a rank was busy with another one
  mixed     \* prompts that computed with another prompt's tensors

handlerVars == <<world, pc, job, rung, launches, group, outcome>>
historyVars == <<stale, mixed>>
vars == <<handlerVars, proc, broken, scratch, historyVars>>

Ranks   == 0 .. world - 1
Dual    == world = 2
\* A single-GPU start has no ladder to climb.
Rungs   == IF Dual THEN Ladder ELSE 1

States  == {"unborn", "booting", "joined", "serving", "dead"}
Process(state) ==
  [state |-> state, patched |-> FALSE, queue |-> <<>>, running |-> NoJob, step |-> 0,
   stuck |-> FALSE, interrupt |-> FALSE, success |-> {}, failed |-> {}]

Alive(p)   == proc[p].state \in {"booting", "joined", "serving"}
Serving(p) == proc[p].state = "serving"
\* The processes listening on a rank's port: at most one can bind it.
Holders(r) == {p \in Procs : Rank(p) = r /\ Serving(p)}
Handles    == {p \in Procs : Attempt(p) = group /\ Rank(p) \in Ranks}
Busy(p)    == proc[p].running # NoJob \/ proc[p].queue # <<>>

TypeOK ==
  /\ world \in 0..2
  /\ pc \in {"start", "wait", "idle", "shadows", "queue", "await", "finally", "exited"}
  /\ job \in Prompts \cup {NoJob}
  /\ rung \in 1..Rungs
  /\ launches \in {0} \cup Attempts
  /\ group \in 0..launches
  /\ proc \in [Procs -> [state : States, patched : BOOLEAN, queue : Seq(Prompts),
                         running : Prompts \cup {NoJob}, step : 0..Collectives,
                         stuck : BOOLEAN, interrupt : BOOLEAN,
                         success : SUBSET Prompts, failed : SUBSET Prompts]]
  /\ broken \subseteq Attempts
  /\ scratch \subseteq Verbatim
  /\ outcome \in [Prompts -> {"none", "ok", "error"}]
  /\ stale \subseteq Prompts /\ mixed \subseteq Prompts
  \* A job is being served exactly between AcceptJob and Finally.
  /\ pc = "idle" => job = NoJob
  /\ pc \in {"shadows", "queue", "await", "finally"} => job # NoJob
  \* A process exists once its bring-up has begun, a free port has no holder.
  /\ \A p \in Procs : proc[p].state # "unborn" => Attempt(p) <= launches
  /\ \A r \in 0..1 : Cardinality(Holders(r)) <= 1

Init ==
  /\ world \in {Resolve(endpoint) : endpoint \in Endpoints}
  \* main(): a refused configuration exits, H3_EAGER_START is on by default
  /\ pc = IF world = 0 THEN "exited" ELSE "start"
  /\ job = NoJob
  /\ rung = 1
  /\ launches = 0
  /\ group = 0
  /\ proc = [p \in Procs |-> Process("unborn")]
  /\ broken = {}
  /\ scratch = {}
  /\ outcome = [j \in Prompts |-> "none"]
  /\ stale = {}
  /\ mixed = {}

-----------------------------------------------------------------------------
(* start_comfyui, _bring_up and _stop_ranks.                               *)

\* What is left once the processes of P have been terminated or killed.
Without(P) == [p \in Procs |-> IF p \in P /\ Alive(p) THEN Process("dead") ELSE proc[p]]

\* _bring_up: `_ranks` is replaced, whatever it held, and every rank launched.
BringUp(left) ==
  /\ launches' = launches + 1
  /\ group' = launches + 1
  /\ proc' = [p \in Procs |->
                IF Attempt(p) = launches + 1 /\ Rank(p) \in Ranks THEN Process("booting")
                                                                 ELSE left[p]]
  /\ pc' = "wait"
  /\ UNCHANGED <<world, job, outcome>>

\* The ranks that answer /system_stats within 5 seconds.
Answering(up) ==
  LET listening == {r \in Ranks : Holders(r) # {}}
  IN IF SlowAnswers THEN up \subseteq listening ELSE up = listening

\* Mutant: the preload is queued without becoming the job being served.
ProceedUnmarked ==
  /\ pc' = IF job = NoJob /\ ~PreloadEnabled THEN "idle" ELSE "shadows"
  /\ UNCHANGED <<world, job, rung, launches, outcome>>

\* After start_comfyui: the job goes on; main preloads, or starts serving.
Proceed ==
  /\ pc' = IF job = NoJob /\ ~PreloadEnabled THEN "idle" ELSE "shadows"
  /\ job' = IF job = NoJob /\ PreloadEnabled THEN Preload ELSE job
  /\ UNCHANGED <<world, rung, launches, outcome>>

AlreadyUp ==
  /\ pc = "start"
  /\ group # 0
  /\ \A p \in Handles : Alive(p)
  /\ Answering(Ranks)
  /\ Proceed
  /\ UNCHANGED <<group, proc, broken, scratch, historyVars>>

\* Only an exited rank makes start_comfyui stop the others; ranks that live and
\* do not answer are launched over.
NeedsStart(up) == group = 0 \/ up # Ranks \/ \E p \in Handles : ~Alive(p)
LeftToLaunchOver ==
  IF \E p \in Handles : ~Alive(p) THEN Without(Handles) ELSE proc

StartRanks ==
  /\ pc = "start"
  /\ \E up \in SUBSET Ranks : Answering(up) /\ NeedsStart(up)
  /\ rung' = 1
  /\ BringUp(LeftToLaunchOver)
  /\ UNCHANGED <<broken, scratch, historyVars>>

\* Mutant: only rank 0 is asked.
VerifiedRank0 == Dual => \A p \in Holders(0) : proc[p].patched

\* _verify_dual_ranks asks whoever answers on the ranks' ports.
Verified == Dual => \A r \in Ranks : \A p \in Holders(r) : proc[p].patched

BroughtUp ==
  /\ pc = "wait"
  /\ \A p \in Handles : Alive(p)
  /\ \A r \in Ranks : Holders(r) # {}
  /\ Verified
  /\ Proceed
  /\ UNCHANGED <<group, proc, broken, scratch, historyVars>>

\* A rank exited, a rank is not running the parallel path, or time is up.
AttemptFails ==
  \/ \E p \in Handles : ~Alive(p)
  \/ (\A r \in Ranks : Holders(r) # {}) /\ ~Verified
  \/ \E r \in Ranks : Holders(r) = {}

\* Mutant: the next transport is tried without stopping the ranks of the last.
NextRungKeepingRanks ==
  /\ pc = "wait"
  /\ AttemptFails
  /\ Dual /\ rung < Rungs
  /\ rung' = rung + 1
  /\ BringUp(proc)
  /\ UNCHANGED <<broken, scratch, historyVars>>

NextRung ==
  /\ pc = "wait"
  /\ AttemptFails
  /\ Dual /\ rung < Rungs
  /\ rung' = rung + 1
  /\ BringUp(Without(Handles))
  /\ UNCHANGED <<broken, scratch, historyVars>>

\* The last rung failed: start_comfyui stops the group and raises. A worker
\* that was starting exits, a job fails.
GroupCannotStart ==
  /\ pc = "wait"
  /\ AttemptFails
  /\ Dual /\ rung = Rungs
  /\ proc' = Without(Handles)
  /\ group' = 0
  /\ pc' = IF job = NoJob THEN "exited" ELSE "finally"
  /\ outcome' = IF job = NoJob THEN outcome ELSE [outcome EXCEPT ![job] = "error"]
  /\ UNCHANGED <<world, job, rung, launches, broken, scratch, historyVars>>

\* With one rank, _bring_up raises and leaves the process as it is; main warns
\* and goes on (the preload, if any, will fail), a job fails.
RankCannotStart ==
  /\ pc = "wait"
  /\ AttemptFails
  /\ ~Dual
  /\ \/ job = NoJob /\ Proceed
     \/ /\ job # NoJob
        /\ pc' = "finally"
        /\ outcome' = [outcome EXCEPT ![job] = "error"]
        /\ UNCHANGED <<world, job, rung, launches>>
  /\ UNCHANGED <<group, proc, broken, scratch, historyVars>>

\* _shutdown, on SIGTERM or SIGINT.
Shutdown ==
  /\ pc # "exited"
  /\ pc' = "exited"
  /\ proc' = Without(Handles)
  /\ group' = 0
  /\ UNCHANGED <<world, job, rung, launches, outcome, broken, scratch, historyVars>>

-----------------------------------------------------------------------------
(* A ComfyUI process.                                                      *)

procOnly == <<handlerVars, broken, scratch, historyVars>>

\* runtime.boot: init_process_group returns once every rank of the bring-up is
\* there, and a group that still lives holds the rendezvous port.
JoinGroup(a) ==
  LET members == {p \in Procs : Attempt(p) = a}
  IN /\ Dual
     /\ \A p \in members : proc[p].state = "booting"
     /\ \A p \in Procs \ members : ~(Alive(p) /\ proc[p].patched)
     /\ proc' = [p \in Procs |-> IF p \in members THEN [proc[p] EXCEPT !.state = "joined"]
                                                  ELSE proc[p]]
     /\ UNCHANGED procOnly

\* ComfyUI binds its port once its custom nodes are imported. It serves even
\* when h3_parallel's import raised: no group, a failed probe or self-test.
Serve(p) ==
  /\ proc[p].state \in {"booting", "joined"}
  /\ Holders(Rank(p)) = {}
  /\ \E patched \in BOOLEAN :
       /\ patched => proc[p].state = "joined"
       /\ proc' = [proc EXCEPT ![p].state = "serving", ![p].patched = patched]
  /\ UNCHANGED procOnly

\* It exits: the port is taken, the probe stalled (exit 97), out of memory.
Exit(p) ==
  /\ Alive(p)
  /\ proc' = [proc EXCEPT ![p] = Process("dead")]
  /\ UNCHANGED procOnly

\* The prompt worker takes the next prompt, and forgets earlier interrupts.
TakePrompt(p) ==
  /\ Serving(p)
  /\ proc[p].running = NoJob /\ proc[p].queue # <<>>
  /\ proc' = [proc EXCEPT ![p].running = Head(proc[p].queue), ![p].queue = Tail(@),
                          ![p].step = 0, ![p].interrupt = FALSE]
  /\ UNCHANGED procOnly

Computing(p) == Serving(p) /\ proc[p].running # NoJob /\ ~proc[p].stuck
StepsOf(p)   == IF proc[p].patched THEN Collectives ELSE 0

\* The rank calls the next collective and blocks in it.
EnterCollective(p) ==
  /\ Computing(p)
  /\ proc[p].step < StepsOf(p)
  /\ proc' = [proc EXCEPT ![p].stuck = TRUE]
  /\ UNCHANGED procOnly

\* The two ranks of a group are both blocked: data moves, whatever it is.
Meet(a) ==
  LET p == <<a, 0>>
      q == <<a, 1>>
  IN /\ proc[p].stuck /\ proc[q].stuck
     /\ a \notin broken
     /\ proc' = [proc EXCEPT ![p].stuck = FALSE, ![p].step = @ + 1,
                             ![q].stuck = FALSE, ![q].step = @ + 1]
     /\ mixed' = IF proc[p].running = proc[q].running /\ proc[p].step = proc[q].step
                   THEN mixed ELSE mixed \cup {proc[p].running, proc[q].running}
     /\ UNCHANGED <<handlerVars, broken, scratch, stale>>

\* Mutant: without a timeout, only a dead partner is noticed.
CollectiveFailsWithPeer(p) ==
  /\ proc[p].stuck
  /\ ~Alive(Peer(p))
  /\ proc' = [proc EXCEPT ![p].stuck = FALSE, ![p].running = NoJob,
                          ![p].failed = @ \cup {proc[p].running}]
  /\ broken' = broken \cup {Attempt(p)}
  /\ UNCHANGED <<handlerVars, scratch, historyVars>>

\* A collective without a partner times out and NCCL aborts the communicator;
\* a later one of that group fails at once.
CollectiveTimesOut(p) ==
  /\ proc[p].stuck
  /\ Attempt(p) \in broken \/ ~Alive(Peer(p)) \/ ~Busy(Peer(p))
  /\ proc' = [proc EXCEPT ![p].stuck = FALSE, ![p].running = NoJob,
                          ![p].failed = @ \cup {proc[p].running}]
  /\ broken' = broken \cup {Attempt(p)}
  /\ UNCHANGED <<handlerVars, scratch, historyVars>>

\* A node raises, or finds the interrupt flag set.
PromptFails(p) ==
  /\ Computing(p)
  /\ proc' = [proc EXCEPT ![p].running = NoJob, ![p].interrupt = FALSE,
                          ![p].failed = @ \cup {proc[p].running}]
  /\ UNCHANGED procOnly

\* A verbatim copy saves its outputs on the shadow, too.
PromptEnds(p) ==
  /\ Computing(p)
  /\ proc[p].step = StepsOf(p)
  /\ ~proc[p].interrupt
  /\ proc' = [proc EXCEPT ![p].running = NoJob, ![p].success = @ \cup {proc[p].running}]
  /\ scratch' = IF Rank(p) = 1 THEN scratch \cup ({proc[p].running} \cap Verbatim) ELSE scratch
  /\ UNCHANGED <<handlerVars, broken, historyVars>>

-----------------------------------------------------------------------------
(* Serving a job, or the preload.                                          *)

AcceptJob(j) ==
  /\ pc = "idle"
  /\ \A i \in Jobs : (outcome[i] = "none") <=> (i >= j)
  /\ job' = j
  /\ pc' = "start"
  /\ UNCHANGED <<world, rung, launches, group, outcome, proc, broken, scratch, historyVars>>

Fail ==
  /\ pc' = "finally"
  /\ outcome' = [outcome EXCEPT ![job] = "error"]
  /\ UNCHANGED <<world, job, rung, launches, group>>

Goto(step) ==
  /\ pc' = step
  /\ UNCHANGED <<world, job, rung, launches, group, outcome>>

Submitted(r) == [p \in Procs |-> IF p \in Holders(r)
                                   THEN [proc[p] EXCEPT !.queue = Append(@, job)]
                                   ELSE proc[p]]

\* Mutant: a submission whose answer is lost is tried again.
QueueOnShadowsTwice ==
  /\ pc = "shadows"
  /\ stale' = IF \E p \in Procs : Busy(p) THEN stale \cup {job} ELSE stale
  /\ \/ ~Dual /\ Goto("queue") /\ UNCHANGED proc
     \/ Dual /\ Holders(1) # {} /\ Goto("queue")
        /\ proc' = [p \in Procs |-> IF p \in Holders(1)
                                      THEN [proc[p] EXCEPT !.queue = @ \o <<job, job>>]
                                      ELSE proc[p]]
  /\ UNCHANGED <<broken, scratch, mixed>>

\* _queue_on_shadows. The shadow may have taken a prompt whose answer is lost.
QueueOnShadows ==
  /\ pc = "shadows"
  /\ stale' = IF \E p \in Procs : Busy(p) THEN stale \cup {job} ELSE stale
  /\ \/ ~Dual /\ Goto("queue") /\ UNCHANGED proc
     \/ Dual /\ Holders(1) # {} /\ Goto("queue") /\ proc' = Submitted(1)
     \/ Dual /\ Fail /\ (UNCHANGED proc \/ proc' = Submitted(1))
  /\ UNCHANGED <<broken, scratch, mixed>>

\* queue_prompt: rank 0 accepts, rejects, or cannot be reached in 60 seconds.
QueueOnRank0 ==
  /\ pc = "queue"
  /\ \/ Holders(0) # {} /\ Goto("await") /\ proc' = Submitted(0)
     \/ Fail /\ (UNCHANGED proc \/ proc' = Submitted(0))
  /\ UNCHANGED <<broken, scratch, historyVars>>

\* await_execution reads the history of whoever listens on rank 0's port.
PromptSucceeded ==
  /\ pc = "await"
  /\ \E p \in Holders(0) : job \in proc[p].success
  /\ pc' = "finally"
  /\ outcome' = [outcome EXCEPT ![job] = "ok"]
  /\ UNCHANGED <<world, job, rung, launches, group, proc, broken, scratch, historyVars>>

PromptFailed ==
  /\ pc = "await"
  /\ Holders(0) = {} \/ \E p \in Holders(0) : job \in proc[p].failed
  /\ Fail
  /\ UNCHANGED <<proc, broken, scratch, historyVars>>

\* The ranks of R that are reached abandon what they are executing at their next
\* check; a rank that executes nothing has nothing to abandon.
Interrupted(R) ==
  [p \in Procs |-> IF Rank(p) \in R /\ Serving(p)
                     THEN [proc[p] EXCEPT !.interrupt = (proc[p].running # NoJob)]
                     ELSE proc[p]]

\* H3_JOB_TIMEOUT, or H3_FLASHBOOT_PRELOAD_TIMEOUT: the preload interrupts every
\* rank then, a job does not.
JobTimesOut ==
  /\ pc = "await"
  /\ Fail
  /\ IF job = Preload THEN \E R \in SUBSET Ranks : proc' = Interrupted(R)
                      ELSE UNCHANGED proc
  /\ UNCHANGED <<broken, scratch, historyVars>>

\* The end of handler(): _drain_shadow_ranks, on every exit. The preload has no
\* such clause.
Finally ==
  /\ pc = "finally"
  /\ pc' = "idle"
  /\ job' = NoJob
  /\ IF Dual /\ job # Preload
       THEN /\ \E R \in SUBSET {1} : proc' = Interrupted(R)
            /\ scratch' = {}
       ELSE UNCHANGED <<proc, scratch>>
  /\ UNCHANGED <<world, rung, launches, group, outcome, broken, historyVars>>

-----------------------------------------------------------------------------

Progress ==
  \/ AlreadyUp \/ StartRanks \/ BroughtUp \/ NextRung \/ GroupCannotStart \/ RankCannotStart
  \/ QueueOnShadows \/ QueueOnRank0 \/ PromptSucceeded \/ PromptFailed \/ Finally

Handler == Progress \/ JobTimesOut \/ Shutdown \/ \E j \in Jobs : AcceptJob(j)

Execute(p) ==
  TakePrompt(p) \/ EnterCollective(p) \/ CollectiveTimesOut(p) \/ PromptFails(p) \/ PromptEnds(p)

Comfy ==
  \/ \E a \in Attempts : JoinGroup(a) \/ Meet(a)
  \/ \E p \in Procs : Serve(p) \/ Exit(p) \/ Execute(p)

Next == Handler \/ Comfy

\* The handler's own steps happen, _bring_up's loop being bounded by its timeout;
\* so do those of a ComfyUI that was given a prompt. Nothing promises that
\* H3_JOB_TIMEOUT ever passes, that a process boots, or that one dies.
Fairness ==
  /\ WF_vars(Progress)
  /\ \A p \in Procs : WF_vars(Execute(p))
  /\ \A a \in Attempts : WF_vars(Meet(a))

Spec == Init /\ [][Next]_vars /\ Fairness

-----------------------------------------------------------------------------
(* What holds.                                                             *)

\* _verify_dual_ranks refuses to serve unless every rank runs the parallel path:
\* no job of a dual worker is ever submitted to ComfyUIs that do not, however
\* the ranks died and came back since the last job.
OnlyVerifiedServe ==
  Dual /\ pc \in {"shadows", "queue", "await"} =>
    \A r \in Ranks : \A p \in Holders(r) : proc[p].patched /\ Attempt(p) = group

\* One bring-up replaces another: with two ranks no process outlives the group
\* it was launched with, so a GPU and a port never have two owners.
GroupReplacedWhole ==
  Dual => \A p \in Procs : Alive(p) => Attempt(p) = group

\* _shutdown and a failed eager start leave no rank behind to hold a GPU.
ExitLeavesNothing == pc = "exited" /\ Dual => \A p \in Procs : ~Alive(p)

\* A group starts, is replaced and goes as a whole.
GroupIsWhole == GroupReplacedWhole /\ ExitLeavesNothing

\* A job submitted to ranks that were doing nothing computes with its own
\* tensors only until it is answered, whatever fails, stalls or dies meanwhile.
FreshJobsMatch == \A j \in mixed \ stale : outcome[j] = "error"

\* collectives.init_process_group: a collective that never returns kills the
\* job, not the worker. With two ranks every job ends, even if H3_JOB_TIMEOUT
\* never passes. (With one, a start may launch over a live process, and a job whose
\* process died may ask the older one for its history until that timeout.)
JobsEnd == (Dual /\ pc \notin {"idle", "exited"}) ~> (pc \in {"idle", "exited"})

-----------------------------------------------------------------------------
(* What the documentation says, and the code does not do.                  *)

\* _drain_shadow_ranks and _interrupt_comfy: no rank answers a job's collectives
\* with another job's tensors, so a job that succeeded made its own video.
CollectivesMatch == \A j \in mixed : outcome[j] # "ok"
=============================================================================

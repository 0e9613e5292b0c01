-------------------------- MODULE ComfyRanks_proofs --------------------------
(***************************************************************************)
(* Machine-checked proofs about ComfyRanks, for any endpoints, any length  *)
(* of the transport ladder, any jobs and any number of collectives.        *)
(***************************************************************************)
EXTENDS ComfyRanks, TLAPS, FiniteSetTheorems

-----------------------------------------------------------------------------
(* The invariants of the processes and of the handler.                     *)

Waiting(p) == {proc[p].queue[n] : n \in 1 .. Len(proc[p].queue)}

\* A process that does not serve holds nothing; only the ranks of a group join and
\* run the parallel path; one that is blocked in a collective is computing a prompt
\* that has collectives left.
Blocking ==
  \A p \in Procs :
    /\ ~Serving(p) => /\ ~proc[p].patched /\ proc[p].queue = << >> /\ proc[p].running = NoJob
                      /\ proc[p].success = {} /\ proc[p].failed = {}
    /\ proc[p].state = "joined" \/ proc[p].patched => Dual
    /\ proc[p].stuck => /\ Serving(p) /\ proc[p].patched
                        /\ proc[p].running # NoJob /\ proc[p].step < Collectives

\* At most one process listens on a rank's port.
Listening ==
  \A p, q \in Procs : Serving(p) /\ Serving(q) /\ Rank(p) = Rank(q) => p = q

Done  == {j \in Jobs : outcome[j] # "none"}
Spent == Ladder * Cardinality(Done)

\* How often the ranks were launched: main, every job that is done and the job being
\* served have each climbed the ladder once.
Counting ==
  /\ pc = "start" => launches <= IF job = NoJob THEN 0 ELSE Spent + Ladder
  /\ pc = "wait" => launches <= rung + (IF job = NoJob THEN 0 ELSE Spent + Ladder)
  /\ pc \in {"idle", "finally"} => launches <= Spent + Ladder
  /\ pc \in {"shadows", "queue", "await"} =>
       launches <= Spent + Ladder + (IF job = Preload THEN 0 ELSE Ladder)
  /\ pc \in {"start", "wait"} => job # Preload
  /\ pc \in {"start", "wait"} /\ job = NoJob => outcome[Preload] = "none"
  /\ pc \in {"start", "wait", "shadows", "queue", "await"} /\ job # NoJob => outcome[job] = "none"
  /\ pc = "finally" => outcome[job] # "none"

Typing == TypeOK /\ Blocking /\ Listening /\ Counting

ProcessType ==
  [state : States, patched : BOOLEAN, queue : Seq(Prompts), running : Prompts \cup {NoJob},
   step : 0..Collectives, stuck : BOOLEAN, interrupt : BOOLEAN,
   success : SUBSET Prompts, failed : SUBSET Prompts]

-----------------------------------------------------------------------------
(* Processes.                                                              *)

LEMMA AProcess ==
  ASSUME NEW state \in States
  PROVE  /\ Process(state) \in ProcessType
         /\ Process(state).state = state /\ Process(state).patched = FALSE
         /\ Process(state).queue = << >> /\ Process(state).running = NoJob
         /\ Process(state).step = 0 /\ Process(state).stuck = FALSE
         /\ Process(state).success = {} /\ Process(state).failed = {}
<1>1. << >> \in Seq(Prompts) /\ 0 \in 0..Collectives
  BY CollectivesAssumption
<1> QED BY <1>1 DEF Process, ProcessType

LEMMA ProcessesAreTyped == TypeOK => proc \in [Procs -> ProcessType]
BY DEF TypeOK, ProcessType

\* The ranks of a bring-up are two, and each other's peer.
LEMMA Pairs ==
  /\ \A p \in Procs : /\ Attempt(p) \in Attempts /\ Rank(p) \in 0..1
                      /\ Peer(p) \in Procs /\ Peer(Peer(p)) = p /\ Peer(p) # p
                      /\ Attempt(Peer(p)) = Attempt(p) /\ Rank(Peer(p)) # Rank(p)
  /\ \A p, q \in Procs : Attempt(p) = Attempt(q) => p = q \/ p = Peer(q)
  /\ \A a \in Attempts : /\ <<a, 0>> \in Procs /\ <<a, 1>> \in Procs
                         /\ Peer(<<a, 0>>) = <<a, 1>> /\ Peer(<<a, 1>>) = <<a, 0>>
                         /\ Attempt(<<a, 0>>) = a /\ Attempt(<<a, 1>>) = a
BY DEF Procs, Attempt, Rank, Peer

LEMMA WorldIsSmall == \A endpoint \in Endpoints : Resolve(endpoint) \in 0..2
BY EndpointsAssumption DEF Resolve, DualBlocked

LEMMA PromptsAreNumbers == NoJob \notin Prompts /\ Preload \in Prompts /\ Preload \notin Jobs
<1>1. NoJob \notin Nat /\ Preload = 0
  BY NamesAssumption
<1>2. Jobs \subseteq Nat /\ 0 \notin Jobs
  BY JobsAssumption
<1>3. NoJob \notin Jobs /\ NoJob # Preload
  <2>1. 0 \in Nat
    OBVIOUS
  <2> QED BY <1>1, <1>2, <2>1
<1>4. Preload \notin Jobs
  BY <1>1, <1>2
<1> QED BY <1>3, <1>4 DEF Prompts

LEMMA Multiples ==
  ASSUME NEW n \in Nat, NEW m \in Nat, NEW k \in Nat
  PROVE  /\ k * (n + 1) = k * n + k /\ k * n \in Nat
         /\ n + 1 <= m => k * n + k <= k * m
OBVIOUS

\* A process that a step leaves alone, but for its interrupt flag.
Untouched(p) ==
  /\ proc'[p].state = proc[p].state /\ proc'[p].patched = proc[p].patched
  /\ proc'[p].queue = proc[p].queue /\ proc'[p].running = proc[p].running
  /\ proc'[p].step = proc[p].step /\ proc'[p].stuck = proc[p].stuck
  /\ proc'[p].success = proc[p].success /\ proc'[p].failed = proc[p].failed

\* A process a prompt is submitted to.
Handed(p) ==
  /\ Serving(p)
  /\ proc'[p].state = proc[p].state /\ proc'[p].patched = proc[p].patched
  /\ proc'[p].queue = Append(proc[p].queue, job) /\ proc'[p].running = proc[p].running
  /\ proc'[p].step = proc[p].step /\ proc'[p].stuck = proc[p].stuck
  /\ proc'[p].success = proc[p].success /\ proc'[p].failed = proc[p].failed

\* A process that is stopped if it lives.
Stopped(p) == proc'[p] = IF Alive(p) THEN Process("dead") ELSE proc[p]

OnlyOne(p) == \A q \in Procs \ {p} : proc'[q] = proc[q]

LEMMA OneTyped ==
  ASSUME NEW p \in Procs, proc \in [Procs -> ProcessType], OnlyOne(p),
         proc' = [q \in Procs |-> proc'[q]], proc'[p] \in ProcessType
  PROVE  proc' \in [Procs -> ProcessType]
<1>1. \A q \in Procs : proc'[q] \in ProcessType
  BY DEF OnlyOne
<1> QED BY <1>1

LEMMA Rest == UNCHANGED proc => \A p \in Procs : Untouched(p)
BY DEF Untouched

LEMMA Interrupting ==
  ASSUME TypeOK, NEW R, proc' = Interrupted(R)
  PROVE  /\ \A p \in Procs : Untouched(p)
         /\ proc' \in [Procs -> ProcessType]
<1>1. proc \in [Procs -> ProcessType]
  BY ProcessesAreTyped
<1>2. ASSUME NEW p \in Procs PROVE Untouched(p) /\ proc'[p] \in ProcessType
  <2>1. CASE Rank(p) \in R /\ Serving(p)
    <3>1. proc'[p] = [proc[p] EXCEPT !.interrupt = (proc[p].running # NoJob)]
      BY <2>1 DEF Interrupted
    <3>2. (proc[p].running # NoJob) \in BOOLEAN
      OBVIOUS
    <3> QED BY <1>1, <2>1, <3>1, <3>2 DEF Untouched, ProcessType
  <2>2. CASE ~(Rank(p) \in R /\ Serving(p))
    BY <1>1, <2>2 DEF Interrupted, Untouched
  <2> QED BY <2>1, <2>2
<1>3. proc' \in [Procs -> ProcessType]
  BY <1>2 DEF Interrupted
<1> QED BY <1>2, <1>3

LEMMA Submitting ==
  ASSUME TypeOK, NEW r, proc' = Submitted(r), job # NoJob
  PROVE  /\ \A p \in Procs : IF p \in Holders(r) THEN Handed(p) ELSE Untouched(p)
         /\ proc' \in [Procs -> ProcessType]
<1>1. proc \in [Procs -> ProcessType] /\ job \in Prompts
  BY ProcessesAreTyped DEF TypeOK
<1>2. ASSUME NEW p \in Procs
      PROVE  (IF p \in Holders(r) THEN Handed(p) ELSE Untouched(p)) /\ proc'[p] \in ProcessType
  <2>1. CASE p \in Holders(r)
    <3>1. proc'[p] = [proc[p] EXCEPT !.queue = Append(@, job)] /\ Serving(p)
      BY <2>1 DEF Submitted, Holders
    <3>2. Append(proc[p].queue, job) \in Seq(Prompts)
      BY <1>1 DEF ProcessType
    <3> QED BY <1>1, <2>1, <3>1, <3>2 DEF Handed, ProcessType
  <2>2. CASE p \notin Holders(r)
    BY <1>1, <2>2 DEF Submitted, Untouched
  <2> QED BY <2>1, <2>2
<1>3. proc' \in [Procs -> ProcessType]
  BY <1>2 DEF Submitted
<1> QED BY <1>2, <1>3

LEMMA Stopping ==
  ASSUME TypeOK, proc' = Without(Handles)
  PROVE  /\ \A p \in Procs : IF p \in Handles THEN Stopped(p) ELSE proc'[p] = proc[p]
         /\ proc' \in [Procs -> ProcessType]
<1>1. proc \in [Procs -> ProcessType] /\ Process("dead") \in ProcessType
  BY ProcessesAreTyped, AProcess DEF States
<1> QED BY <1>1 DEF Without, Stopped

\* Where a process comes from when the ranks are launched over what is left.
LEMMA Launching ==
  ASSUME TypeOK, NEW left, left \in {proc, Without(Handles)}, BringUp(left)
  PROVE  /\ \A p \in Procs :
              \/ Attempt(p) = launches + 1 /\ proc'[p] = Process("booting")
              \/ /\ proc'[p] = proc[p] \/ (Alive(p) /\ proc'[p] = Process("dead"))
                 /\ left = Without(Handles) /\ p \in Handles => ~Alive(p)'
         /\ proc' \in [Procs -> ProcessType]
         /\ pc' = "wait" /\ launches' = launches + 1 /\ group' = launches + 1
         /\ UNCHANGED <<world, job, outcome>>
<1>1. /\ proc \in [Procs -> ProcessType]
      /\ Process("dead") \in ProcessType /\ Process("booting") \in ProcessType
      /\ Process("dead").state = "dead"
  BY ProcessesAreTyped, AProcess DEF States
<1>2. \A p \in Procs : left[p] = proc[p] \/ (Alive(p) /\ left[p] = Process("dead"))
  BY DEF Without
<1>3. left = Without(Handles) =>
        \A p \in Handles : IF Alive(p) THEN left[p] = Process("dead") ELSE left[p] = proc[p]
  BY DEF Without, Handles
<1>4. \A p \in Procs :
        proc'[p] = IF Attempt(p) = launches + 1 /\ Rank(p) \in Ranks THEN Process("booting")
                                                                   ELSE left[p]
  BY DEF BringUp
<1>5. ASSUME NEW p \in Procs
      PROVE  \/ Attempt(p) = launches + 1 /\ proc'[p] = Process("booting")
             \/ /\ proc'[p] = proc[p] \/ (Alive(p) /\ proc'[p] = Process("dead"))
                /\ left = Without(Handles) /\ p \in Handles => ~Alive(p)'
  BY <1>1, <1>2, <1>3, <1>4 DEF Alive
<1>6. ASSUME NEW p \in Procs PROVE proc'[p] \in ProcessType
  BY <1>1, <1>5
<1>7. proc' \in [Procs -> ProcessType]
  BY <1>6 DEF BringUp
<1> QED BY <1>5, <1>7 DEF BringUp

-----------------------------------------------------------------------------
(* What the steps of ComfyUI do to their process.                          *)

LEMMA Joining ==
  ASSUME TypeOK, NEW a, JoinGroup(a)
  PROVE  /\ \A p \in Procs :
              \/ proc'[p] = proc[p]
              \/ /\ proc[p].state = "booting" /\ proc'[p].state = "joined"
                 /\ proc'[p].patched = proc[p].patched /\ proc'[p].stuck = proc[p].stuck
                 /\ proc'[p].queue = proc[p].queue /\ proc'[p].running = proc[p].running
                 /\ proc'[p].step = proc[p].step
                 /\ proc'[p].success = proc[p].success /\ proc'[p].failed = proc[p].failed
         /\ proc' \in [Procs -> ProcessType]
         /\ Dual
<1>1. proc \in [Procs -> ProcessType] /\ "joined" \in States
  BY ProcessesAreTyped DEF States
<1>2. ASSUME NEW p \in Procs
      PROVE  /\ \/ proc'[p] = proc[p]
                \/ /\ proc[p].state = "booting" /\ proc'[p].state = "joined"
                   /\ proc'[p].patched = proc[p].patched /\ proc'[p].stuck = proc[p].stuck
                   /\ proc'[p].queue = proc[p].queue /\ proc'[p].running = proc[p].running
                   /\ proc'[p].step = proc[p].step
                   /\ proc'[p].success = proc[p].success /\ proc'[p].failed = proc[p].failed
             /\ proc'[p] \in ProcessType
  <2>1. \/ proc'[p] = proc[p]
        \/ proc[p].state = "booting" /\ proc'[p] = [proc[p] EXCEPT !.state = "joined"]
    BY DEF JoinGroup
  <2> QED BY <1>1, <2>1 DEF ProcessType
<1>3. proc' \in [Procs -> ProcessType]
  BY <1>2 DEF JoinGroup
<1> QED BY <1>2, <1>3 DEF JoinGroup

LEMMA Binding ==
  ASSUME TypeOK, NEW p \in Procs, Serve(p)
  PROVE  /\ OnlyOne(p)
         /\ proc' \in [Procs -> ProcessType]
         /\ proc[p].state \in {"booting", "joined"} /\ Holders(Rank(p)) = {}
         /\ proc'[p].state = "serving"
         /\ proc'[p].patched => proc[p].state = "joined"
         /\ proc'[p].queue = proc[p].queue /\ proc'[p].running = proc[p].running
         /\ proc'[p].step = proc[p].step /\ proc'[p].stuck = proc[p].stuck
         /\ proc'[p].success = proc[p].success /\ proc'[p].failed = proc[p].failed
<1>1. proc \in [Procs -> ProcessType] /\ "serving" \in States
  BY ProcessesAreTyped DEF States
<1>2. PICK patched \in BOOLEAN :
        /\ patched => proc[p].state = "joined"
        /\ proc' = [proc EXCEPT ![p].state = "serving", ![p].patched = patched]
  BY DEF Serve
<1>3. /\ proc'[p] = [proc[p] EXCEPT !.state = "serving", !.patched = patched]
      /\ OnlyOne(p)
  BY <1>1, <1>2 DEF OnlyOne
<1>4. /\ proc'[p] \in ProcessType
      /\ proc'[p].state = "serving" /\ proc'[p].patched = patched
      /\ proc'[p].queue = proc[p].queue /\ proc'[p].running = proc[p].running
      /\ proc'[p].step = proc[p].step /\ proc'[p].stuck = proc[p].stuck
      /\ proc'[p].success = proc[p].success /\ proc'[p].failed = proc[p].failed
  BY <1>1, <1>3 DEF ProcessType
<1>5. proc' \in [Procs -> ProcessType]
  BY <1>1, <1>2, <1>3, <1>4, OneTyped
<1> QED BY <1>2, <1>3, <1>4, <1>5 DEF Serve

LEMMA Leaving ==
  ASSUME TypeOK, NEW p \in Procs, Exit(p)
  PROVE  /\ OnlyOne(p)
         /\ proc' \in [Procs -> ProcessType]
         /\ Alive(p) /\ proc'[p] = Process("dead")
<1>1. proc \in [Procs -> ProcessType] /\ Process("dead") \in ProcessType
  BY ProcessesAreTyped, AProcess DEF States
<1> QED BY <1>1 DEF Exit, OnlyOne

LEMMA Taking ==
  ASSUME TypeOK, NEW p \in Procs, TakePrompt(p)
  PROVE  /\ OnlyOne(p)
         /\ proc' \in [Procs -> ProcessType]
         /\ Serving(p) /\ proc[p].running = NoJob /\ proc[p].queue # << >>
         /\ proc'[p].running = Head(proc[p].queue) /\ proc'[p].queue = Tail(proc[p].queue)
         /\ proc'[p].running \in Prompts
         /\ proc'[p].step = 0 /\ proc'[p].stuck = proc[p].stuck
         /\ proc'[p].state = proc[p].state /\ proc'[p].patched = proc[p].patched
         /\ proc'[p].success = proc[p].success /\ proc'[p].failed = proc[p].failed
<1>1. proc \in [Procs -> ProcessType] /\ 0 \in 0..Collectives
  BY ProcessesAreTyped, CollectivesAssumption
<1>2. proc[p].queue \in Seq(Prompts) /\ proc[p].queue # << >>
  BY <1>1 DEF TakePrompt, ProcessType
<1>3. Head(proc[p].queue) \in Prompts /\ Tail(proc[p].queue) \in Seq(Prompts)
  BY <1>2
<1>4. proc' = [proc EXCEPT ![p].running = Head(proc[p].queue),
                           ![p].queue = Tail(proc[p].queue),
                           ![p].step = 0, ![p].interrupt = FALSE]
  BY DEF TakePrompt
<1> DEFINE h == Head(proc[p].queue)
           t == Tail(proc[p].queue)
<1> HIDE DEF h, t
<1>a. /\ OnlyOne(p)
      /\ proc'[p] = [proc[p] EXCEPT !.running = h, !.queue = t, !.step = 0, !.interrupt = FALSE]
  BY <1>1, <1>4 DEF OnlyOne, h, t
<1>b. h \in Prompts /\ t \in Seq(Prompts)
  BY <1>3 DEF h, t
<1>5. /\ proc'[p] \in ProcessType
      /\ proc'[p].running = h /\ proc'[p].queue = t
      /\ proc'[p].step = 0 /\ proc'[p].stuck = proc[p].stuck
      /\ proc'[p].state = proc[p].state /\ proc'[p].patched = proc[p].patched
      /\ proc'[p].success = proc[p].success /\ proc'[p].failed = proc[p].failed
  BY <1>1, <1>a, <1>b DEF ProcessType
<1>6. proc' \in [Procs -> ProcessType]
  BY <1>1, <1>4, <1>5, <1>a, OneTyped
<1> QED BY <1>3, <1>5, <1>6, <1>a DEF TakePrompt, h, t

LEMMA Entering ==
  ASSUME TypeOK, NEW p \in Procs, EnterCollective(p)
  PROVE  /\ OnlyOne(p)
         /\ proc' \in [Procs -> ProcessType]
         /\ Serving(p) /\ proc[p].patched /\ proc[p].running # NoJob /\ proc[p].step < Collectives
         /\ proc'[p].stuck
         /\ proc'[p].running = proc[p].running /\ proc'[p].queue = proc[p].queue
         /\ proc'[p].step = proc[p].step
         /\ proc'[p].state = proc[p].state /\ proc'[p].patched = proc[p].patched
         /\ proc'[p].success = proc[p].success /\ proc'[p].failed = proc[p].failed
<1>1. proc \in [Procs -> ProcessType]
  BY ProcessesAreTyped
<1>2. proc' = [proc EXCEPT ![p].stuck = TRUE]
  BY DEF EnterCollective
<1>3. proc[p].step < Collectives /\ proc[p].patched
  <2>1. proc[p].step \in 0..Collectives /\ proc[p].patched \in BOOLEAN
    BY <1>1 DEF ProcessType
  <2> QED BY <2>1 DEF EnterCollective, StepsOf
<1> QED BY <1>1, <1>2, <1>3 DEF EnterCollective, Computing, OnlyOne, ProcessType

\* A prompt ends at a process: it fails, or succeeds after its last collective.
LEMMA Ending ==
  ASSUME TypeOK, Blocking, NEW p \in Procs,
         CollectiveTimesOut(p) \/ PromptFails(p) \/ PromptEnds(p)
  PROVE  /\ OnlyOne(p)
         /\ proc' \in [Procs -> ProcessType]
         /\ Serving(p) /\ proc[p].running \in Prompts
         /\ proc'[p].stuck = FALSE /\ proc'[p].running = NoJob
         /\ proc'[p].queue = proc[p].queue /\ proc'[p].step = proc[p].step
         /\ proc'[p].state = proc[p].state /\ proc'[p].patched = proc[p].patched
         /\ \/ /\ proc'[p].success = proc[p].success
               /\ proc'[p].failed = proc[p].failed \cup {proc[p].running}
            \/ /\ proc'[p].success = proc[p].success \cup {proc[p].running}
               /\ proc'[p].failed = proc[p].failed
               /\ proc[p].patched => proc[p].step = Collectives
<1>1. proc \in [Procs -> ProcessType]
  BY ProcessesAreTyped
<1>2. Serving(p) /\ proc[p].running \in Prompts
  BY <1>1 DEF ProcessType, Blocking, CollectiveTimesOut, PromptFails, PromptEnds, Computing
<1>3. CASE CollectiveTimesOut(p)
  BY <1>1, <1>2, <1>3 DEF CollectiveTimesOut, OnlyOne, ProcessType
<1>4. CASE PromptFails(p)
  BY <1>1, <1>2, <1>4 DEF PromptFails, Computing, OnlyOne, ProcessType
<1>5. CASE PromptEnds(p)
  BY <1>1, <1>2, <1>5 DEF PromptEnds, Computing, StepsOf, OnlyOne, ProcessType
<1> QED BY <1>3, <1>4, <1>5

LEMMA Meeting ==
  ASSUME TypeOK, Blocking, NEW a \in Attempts, Meet(a)
  PROVE  /\ proc' \in [Procs -> ProcessType]
         /\ \A k \in Procs :
              IF Attempt(k) # a THEN proc'[k] = proc[k]
              ELSE /\ proc[k].stuck /\ ~proc'[k].stuck
                   /\ proc'[k].step = proc[k].step + 1
                   /\ proc'[k].running = proc[k].running /\ proc'[k].queue = proc[k].queue
                   /\ proc'[k].state = proc[k].state /\ proc'[k].patched = proc[k].patched
                   /\ proc'[k].success = proc[k].success /\ proc'[k].failed = proc[k].failed
<1> DEFINE p == <<a, 0>>
           q == <<a, 1>>
<1>0. \A k \in Procs : Attempt(k) = a <=> k \in {p, q}
  BY Pairs
<1>1. proc \in [Procs -> ProcessType] /\ p \in Procs /\ q \in Procs /\ p # q
  BY ProcessesAreTyped, Pairs
<1>2. /\ proc[p].stuck /\ proc[q].stuck
      /\ proc' = [proc EXCEPT ![p].stuck = FALSE, ![p].step = @ + 1,
                              ![q].stuck = FALSE, ![q].step = @ + 1]
  BY DEF Meet
<1>3. \A k \in {p, q} : proc[k].step \in Nat /\ proc[k].step + 1 \in 0..Collectives
  <2>1. ASSUME NEW k \in {p, q}
        PROVE  proc[k].step \in 0..Collectives /\ proc[k].step < Collectives
    <3>1. proc[k] \in ProcessType /\ proc[k].stuck /\ k \in Procs
      BY <1>1, <1>2
    <3> QED BY <3>1 DEF ProcessType, Blocking
  <2> QED BY <2>1, CollectivesAssumption
<1>4. /\ proc'[p] = [proc[p] EXCEPT !.stuck = FALSE, !.step = @ + 1]
      /\ proc'[q] = [proc[q] EXCEPT !.stuck = FALSE, !.step = @ + 1]
      /\ \A k \in Procs \ {p, q} : proc'[k] = proc[k]
      /\ DOMAIN proc' = Procs
  BY <1>1, <1>2 DEF ProcessType
<1>5. ASSUME NEW k \in {p, q}
      PROVE  /\ proc'[k] \in ProcessType /\ ~proc'[k].stuck
             /\ proc'[k].step = proc[k].step + 1
             /\ proc'[k].running = proc[k].running /\ proc'[k].queue = proc[k].queue
             /\ proc'[k].state = proc[k].state /\ proc'[k].patched = proc[k].patched
             /\ proc'[k].success = proc[k].success /\ proc'[k].failed = proc[k].failed
  <2>1. proc[k] \in ProcessType /\ proc'[k] = [proc[k] EXCEPT !.stuck = FALSE, !.step = @ + 1]
    BY <1>1, <1>4
  <2> QED BY <1>3, <2>1 DEF ProcessType
<1>6. proc' \in [Procs -> ProcessType]
  <2>1. \A k \in Procs : proc'[k] \in ProcessType
    BY <1>1, <1>4, <1>5
  <2>2. proc' = [k \in Procs |-> proc'[k]]
    BY <1>1, <1>2
  <2> QED BY <2>1, <2>2
<1>7. proc[p].stuck /\ proc[q].stuck /\ \A k \in Procs \ {p, q} : proc'[k] = proc[k]
  BY <1>2, <1>4
<1> HIDE DEF p, q
<1>8. \A k \in Procs : Attempt(k) # a => proc'[k] = proc[k]
  BY <1>0, <1>7
<1>9. \A k \in Procs : Attempt(k) = a =>
        /\ proc[k].stuck /\ ~proc'[k].stuck
        /\ proc'[k].step = proc[k].step + 1
        /\ proc'[k].running = proc[k].running /\ proc'[k].queue = proc[k].queue
        /\ proc'[k].state = proc[k].state /\ proc'[k].patched = proc[k].patched
        /\ proc'[k].success = proc[k].success /\ proc'[k].failed = proc[k].failed
  BY <1>0, <1>5, <1>7
<1> QED BY <1>6, <1>8, <1>9

-----------------------------------------------------------------------------
(* Types.                                                                  *)

\* A process exists once its bring-up has begun.
Born == \A p \in Procs : proc[p].state # "unborn" => Attempt(p) <= launches

Processes == proc \in [Procs -> ProcessType] /\ Blocking /\ Listening /\ Born

LEMMA AttemptsAreNumbers == Attempts \subseteq Nat \ {0} /\ launches \in {0} \cup Attempts => launches \in Nat
BY DEF Attempts

LEMMA ProcessesOfTyping == Typing => Processes /\ launches \in Nat
<1> SUFFICES ASSUME Typing PROVE Processes /\ launches \in Nat
  OBVIOUS
<1>1. launches \in Nat /\ Born
  BY DEF Typing, TypeOK, Attempts, Born
<1> QED BY <1>1, ProcessesAreTyped DEF Typing, Processes

LEMMA RestingProcesses ==
  ASSUME Processes, \A p \in Procs : Untouched(p), proc' \in [Procs -> ProcessType],
         UNCHANGED <<world, launches>>
  PROVE  Processes'
BY DEF Processes, Blocking, Listening, Born, Untouched, Serving, Dual

LEMMA HandedProcesses ==
  ASSUME Processes, NEW r, \A p \in Procs : IF p \in Holders(r) THEN Handed(p) ELSE Untouched(p),
         proc' \in [Procs -> ProcessType], UNCHANGED <<world, launches>>
  PROVE  Processes'
<1>1. \A p \in Procs :
        /\ proc'[p].state = proc[p].state /\ proc'[p].patched = proc[p].patched
        /\ proc'[p].stuck = proc[p].stuck /\ proc'[p].running = proc[p].running
        /\ proc'[p].step = proc[p].step
        /\ proc'[p].success = proc[p].success /\ proc'[p].failed = proc[p].failed
        /\ proc'[p].queue = proc[p].queue \/ Serving(p)
  BY DEF Handed, Untouched
<1> QED BY <1>1 DEF Processes, Blocking, Listening, Born, Serving, Dual

LEMMA StoppedProcesses ==
  ASSUME Processes, \A p \in Procs : proc'[p] = proc[p] \/ (Alive(p) /\ proc'[p] = Process("dead")),
         proc' \in [Procs -> ProcessType], UNCHANGED <<world, launches>>
  PROVE  Processes'
<1>1. /\ Process("dead").state = "dead" /\ Process("dead").patched = FALSE
      /\ Process("dead").stuck = FALSE /\ Process("dead").running = NoJob
      /\ Process("dead").queue = << >>
      /\ Process("dead").success = {} /\ Process("dead").failed = {}
  BY AProcess DEF States
<1>2. Blocking'
  BY <1>1 DEF Processes, Blocking, Serving, Dual
<1>3. Listening'
  BY <1>1 DEF Processes, Listening, Serving
<1>4. Born'
  BY <1>1 DEF Processes, Born, Alive
<1> QED BY <1>2, <1>3, <1>4 DEF Processes

LEMMA LaunchedProcesses ==
  ASSUME TypeOK, Processes, launches \in Nat, NEW left, left \in {proc, Without(Handles)}, BringUp(left)
  PROVE  Processes'
<1>1. /\ Process("dead").state = "dead" /\ Process("dead").patched = FALSE
      /\ Process("dead").stuck = FALSE /\ Process("dead").running = NoJob
      /\ Process("dead").queue = << >>
      /\ Process("dead").success = {} /\ Process("dead").failed = {}
      /\ Process("booting").state = "booting" /\ Process("booting").patched = FALSE
      /\ Process("booting").stuck = FALSE /\ Process("booting").running = NoJob
      /\ Process("booting").queue = << >>
      /\ Process("booting").success = {} /\ Process("booting").failed = {}
  BY AProcess DEF States
<1>2. /\ \A p \in Procs :
           \/ Attempt(p) = launches + 1 /\ proc'[p] = Process("booting")
           \/ proc'[p] = proc[p] \/ (Alive(p) /\ proc'[p] = Process("dead"))
      /\ proc' \in [Procs -> ProcessType]
      /\ launches' = launches + 1 /\ UNCHANGED world
  BY Launching
<1>3. Blocking'
  BY <1>1, <1>2 DEF Processes, Blocking, Serving, Dual
<1>4. Listening'
  BY <1>1, <1>2 DEF Processes, Listening, Serving
<1>5. Born'
  <2>1. \A p \in Procs : Attempt(p) \in Nat
    BY Pairs DEF Attempts
  <2> QED BY <1>1, <1>2, <2>1 DEF Processes, Born, Alive
<1> QED BY <1>2, <1>3, <1>4, <1>5 DEF Processes

LEMMA StepProcesses == Typing /\ [Next]_vars => Processes'
<1> SUFFICES ASSUME Typing, [Next]_vars PROVE Processes'
  OBVIOUS
<1>a. /\ TypeOK /\ Processes /\ launches \in Nat
      /\ pc \in {"shadows", "queue", "await", "finally"} => job # NoJob
  BY ProcessesOfTyping DEF Typing, TypeOK
<1>b. UNCHANGED proc => proc' \in [Procs -> ProcessType]
  BY <1>a DEF Processes
<1>1. ASSUME AlreadyUp PROVE Processes'
  <2>1. UNCHANGED <<proc, world, launches>>
    BY <1>1 DEF AlreadyUp, Proceed
  <2> QED BY <1>a, <1>b, <2>1, Rest, RestingProcesses
<1>2. ASSUME StartRanks PROVE Processes'
  <2>1. LeftToLaunchOver \in {proc, Without(Handles)} /\ BringUp(LeftToLaunchOver)
    BY <1>2 DEF StartRanks, LeftToLaunchOver
  <2> QED BY <1>a, <2>1, LaunchedProcesses
<1>3. ASSUME BroughtUp PROVE Processes'
  <2>1. UNCHANGED <<proc, world, launches>>
    BY <1>3 DEF BroughtUp, Proceed
  <2> QED BY <1>a, <1>b, <2>1, Rest, RestingProcesses
<1>4. ASSUME NextRung PROVE Processes'
  BY <1>4, <1>a, LaunchedProcesses DEF NextRung
<1>5. ASSUME GroupCannotStart PROVE Processes'
  <2>1. proc' = Without(Handles) /\ UNCHANGED <<world, launches>>
    BY <1>5 DEF GroupCannotStart
  <2>2. /\ proc' \in [Procs -> ProcessType]
        /\ \A p \in Procs : proc'[p] = proc[p] \/ (Alive(p) /\ proc'[p] = Process("dead"))
    BY <1>a, <2>1, Stopping DEF Stopped
  <2> QED BY <1>a, <2>1, <2>2, StoppedProcesses
<1>6. ASSUME RankCannotStart PROVE Processes'
  <2>1. UNCHANGED <<proc, world, launches>>
    BY <1>6 DEF RankCannotStart, Proceed
  <2> QED BY <1>a, <1>b, <2>1, Rest, RestingProcesses
<1>7. ASSUME QueueOnShadows PROVE Processes'
  <2>1. /\ UNCHANGED <<world, launches>> /\ job # NoJob
        /\ UNCHANGED proc \/ proc' = Submitted(1)
    BY <1>7, <1>a DEF QueueOnShadows, Goto, Fail
  <2>2. CASE UNCHANGED proc
    BY <1>a, <1>b, <2>1, <2>2, Rest, RestingProcesses
  <2>3. CASE proc' = Submitted(1)
    BY <1>a, <2>1, <2>3, Submitting, HandedProcesses
  <2> QED BY <2>1, <2>2, <2>3
<1>8. ASSUME QueueOnRank0 PROVE Processes'
  <2>1. /\ UNCHANGED <<world, launches>> /\ job # NoJob
        /\ UNCHANGED proc \/ proc' = Submitted(0)
    BY <1>8, <1>a DEF QueueOnRank0, Goto, Fail
  <2>2. CASE UNCHANGED proc
    BY <1>a, <1>b, <2>1, <2>2, Rest, RestingProcesses
  <2>3. CASE proc' = Submitted(0)
    BY <1>a, <2>1, <2>3, Submitting, HandedProcesses
  <2> QED BY <2>1, <2>2, <2>3
<1>9. ASSUME PromptSucceeded PROVE Processes'
  <2>1. UNCHANGED <<proc, world, launches>>
    BY <1>9 DEF PromptSucceeded
  <2> QED BY <1>a, <1>b, <2>1, Rest, RestingProcesses
<1>10. ASSUME PromptFailed PROVE Processes'
  <2>1. UNCHANGED <<proc, world, launches>>
    BY <1>10 DEF PromptFailed, Fail
  <2> QED BY <1>a, <1>b, <2>1, Rest, RestingProcesses
<1>11. ASSUME Finally PROVE Processes'
  <2>1. /\ UNCHANGED <<world, launches>>
        /\ UNCHANGED proc \/ \E R : proc' = Interrupted(R)
    BY <1>11 DEF Finally, Fail
  <2>2. CASE UNCHANGED proc
    BY <1>a, <1>b, <2>1, <2>2, Rest, RestingProcesses
  <2>3. ASSUME NEW R, proc' = Interrupted(R) PROVE Processes'
    BY <1>a, <2>1, <2>3, Interrupting, RestingProcesses
  <2> QED BY <2>1, <2>2, <2>3
<1>12. ASSUME JobTimesOut PROVE Processes'
  <2>1. /\ UNCHANGED <<world, launches>>
        /\ UNCHANGED proc \/ \E R : proc' = Interrupted(R)
    BY <1>12 DEF JobTimesOut, Fail
  <2>2. CASE UNCHANGED proc
    BY <1>a, <1>b, <2>1, <2>2, Rest, RestingProcesses
  <2>3. ASSUME NEW R, proc' = Interrupted(R) PROVE Processes'
    BY <1>a, <2>1, <2>3, Interrupting, RestingProcesses
  <2> QED BY <2>1, <2>2, <2>3
<1>13. ASSUME Shutdown PROVE Processes'
  <2>1. proc' = Without(Handles) /\ UNCHANGED <<world, launches>>
    BY <1>13 DEF Shutdown
  <2>2. /\ proc' \in [Procs -> ProcessType]
        /\ \A p \in Procs : proc'[p] = proc[p] \/ (Alive(p) /\ proc'[p] = Process("dead"))
    BY <1>a, <2>1, Stopping DEF Stopped
  <2> QED BY <1>a, <2>1, <2>2, StoppedProcesses
<1>14. ASSUME NEW j \in Jobs, AcceptJob(j) PROVE Processes'
  <2>1. UNCHANGED <<proc, world, launches>>
    BY <1>14 DEF AcceptJob
  <2> QED BY <1>a, <1>b, <2>1, Rest, RestingProcesses
<1>15. ASSUME NEW a \in Attempts, JoinGroup(a) PROVE Processes'
  <2>1. UNCHANGED <<world, launches>>
    BY <1>15 DEF JoinGroup, procOnly, handlerVars
  <2>2. proc' \in [Procs -> ProcessType]
    BY <1>15, <1>a, Joining DEF Processes
  <2>3. Blocking'
    BY <1>15, <1>a, <2>1, Joining DEF Processes, Blocking, Serving, OnlyOne, Dual
  <2>4. Listening'
    BY <1>15, <1>a, Joining DEF Processes, Listening, Serving, OnlyOne
  <2>5. Born'
    BY <1>15, <1>a, <2>1, Joining DEF Processes, Born, OnlyOne
  <2> QED BY <2>2, <2>3, <2>4, <2>5 DEF Processes
<1>16. ASSUME NEW a \in Attempts, Meet(a) PROVE Processes'
  <2>1. UNCHANGED <<world, launches>>
    BY <1>16 DEF Meet, procOnly, handlerVars
  <2>2. proc' \in [Procs -> ProcessType]
    BY <1>16, <1>a, Meeting DEF Processes
  <2>3. Blocking'
    BY <1>16, <1>a, <2>1, Meeting DEF Processes, Blocking, Serving, OnlyOne, Dual
  <2>4. Listening'
    BY <1>16, <1>a, Meeting DEF Processes, Listening, Serving, OnlyOne
  <2>5. Born'
    BY <1>16, <1>a, <2>1, Meeting DEF Processes, Born, OnlyOne
  <2> QED BY <2>2, <2>3, <2>4, <2>5 DEF Processes
<1>17. ASSUME NEW p \in Procs, Serve(p) PROVE Processes'
  <2>1. UNCHANGED <<world, launches>>
    BY <1>17 DEF Serve, procOnly, handlerVars
  <2>2. proc' \in [Procs -> ProcessType]
    BY <1>17, <1>a, Binding DEF Processes
  <2>3. Blocking'
    BY <1>17, <1>a, <2>1, Binding DEF Processes, Blocking, Serving, OnlyOne, Dual, Holders
  <2>4. Listening'
    BY <1>17, <1>a, Binding DEF Processes, Listening, Serving, OnlyOne, Holders
  <2>5. Born'
    BY <1>17, <1>a, <2>1, Binding DEF Processes, Born, OnlyOne, Holders
  <2> QED BY <2>2, <2>3, <2>4, <2>5 DEF Processes
<1>18. ASSUME NEW p \in Procs, Exit(p) PROVE Processes'
  <2>a. /\ OnlyOne(p) /\ Alive(p)
        /\ proc'[p].state = "dead" /\ proc'[p].patched = FALSE /\ proc'[p].stuck = FALSE
        /\ proc'[p].queue = << >> /\ proc'[p].running = NoJob
        /\ proc'[p].success = {} /\ proc'[p].failed = {}
    <3>1. OnlyOne(p) /\ Alive(p) /\ proc'[p] = Process("dead") /\ "dead" \in States
      BY <1>18, <1>a, Leaving DEF States
    <3> QED BY <3>1, AProcess
  <2>1. UNCHANGED <<world, launches>>
    BY <1>18 DEF Exit, procOnly, handlerVars
  <2>2. proc' \in [Procs -> ProcessType]
    BY <1>18, <1>a, Leaving DEF Processes
  <2>3. Blocking'
    BY <1>18, <1>a, <2>1, <2>a DEF Processes, Blocking, Serving, OnlyOne, Dual, Alive
  <2>4. Listening'
    BY <1>18, <1>a, <2>a DEF Processes, Listening, Serving, OnlyOne, Alive
  <2>5. Born'
    BY <1>18, <1>a, <2>1, <2>a DEF Processes, Born, OnlyOne, Alive
  <2> QED BY <2>2, <2>3, <2>4, <2>5 DEF Processes
<1>19. ASSUME NEW p \in Procs, TakePrompt(p) PROVE Processes'
  <2>1. UNCHANGED <<world, launches>>
    BY <1>19 DEF TakePrompt, procOnly, handlerVars
  <2>2. proc' \in [Procs -> ProcessType]
    BY <1>19, <1>a, Taking DEF Processes
  <2>3. Blocking'
    BY <1>19, <1>a, <2>1, Taking DEF Processes, Blocking, Serving, OnlyOne, Dual
  <2>4. Listening'
    BY <1>19, <1>a, Taking DEF Processes, Listening, Serving, OnlyOne
  <2>5. Born'
    BY <1>19, <1>a, <2>1, Taking DEF Processes, Born, OnlyOne
  <2> QED BY <2>2, <2>3, <2>4, <2>5 DEF Processes
<1>20. ASSUME NEW p \in Procs, EnterCollective(p) PROVE Processes'
  <2>1. UNCHANGED <<world, launches>>
    BY <1>20 DEF EnterCollective, procOnly, handlerVars
  <2>2. proc' \in [Procs -> ProcessType]
    BY <1>20, <1>a, Entering DEF Processes
  <2>3. Blocking'
    BY <1>20, <1>a, <2>1, Entering DEF Processes, Blocking, Serving, OnlyOne, Dual
  <2>4. Listening'
    BY <1>20, <1>a, Entering DEF Processes, Listening, Serving, OnlyOne
  <2>5. Born'
    BY <1>20, <1>a, <2>1, Entering DEF Processes, Born, OnlyOne
  <2> QED BY <2>2, <2>3, <2>4, <2>5 DEF Processes
<1>21. ASSUME NEW p \in Procs, CollectiveTimesOut(p) PROVE Processes'
  <2>a. /\ OnlyOne(p) /\ Serving(p)
        /\ proc'[p].stuck = FALSE /\ proc'[p].running = NoJob
        /\ proc'[p].queue = proc[p].queue
        /\ proc'[p].state = proc[p].state /\ proc'[p].patched = proc[p].patched
    BY <1>21, <1>a, Ending DEF Processes
  <2>1. UNCHANGED <<world, launches>>
    BY <1>21 DEF CollectiveTimesOut, procOnly, handlerVars
  <2>2. proc' \in [Procs -> ProcessType]
    BY <1>21, <1>a, Ending DEF Processes
  <2>3. Blocking'
    BY <1>21, <1>a, <2>1, <2>a DEF Processes, Blocking, Serving, OnlyOne, Dual
  <2>4. Listening'
    BY <1>21, <1>a, <2>a DEF Processes, Listening, Serving, OnlyOne
  <2>5. Born'
    BY <1>21, <1>a, <2>1, <2>a DEF Processes, Born, OnlyOne
  <2> QED BY <2>2, <2>3, <2>4, <2>5 DEF Processes
<1>22. ASSUME NEW p \in Procs, PromptFails(p) PROVE Processes'
  <2>a. /\ OnlyOne(p) /\ Serving(p)
        /\ proc'[p].stuck = FALSE /\ proc'[p].running = NoJob
        /\ proc'[p].queue = proc[p].queue
        /\ proc'[p].state = proc[p].state /\ proc'[p].patched = proc[p].patched
    BY <1>22, <1>a, Ending DEF Processes
  <2>1. UNCHANGED <<world, launches>>
    BY <1>22 DEF PromptFails, procOnly, handlerVars
  <2>2. proc' \in [Procs -> ProcessType]
    BY <1>22, <1>a, Ending DEF Processes
  <2>3. Blocking'
    BY <1>22, <1>a, <2>1, <2>a DEF Processes, Blocking, Serving, OnlyOne, Dual
  <2>4. Listening'
    BY <1>22, <1>a, <2>a DEF Processes, Listening, Serving, OnlyOne
  <2>5. Born'
    BY <1>22, <1>a, <2>1, <2>a DEF Processes, Born, OnlyOne
  <2> QED BY <2>2, <2>3, <2>4, <2>5 DEF Processes
<1>23. ASSUME NEW p \in Procs, PromptEnds(p) PROVE Processes'
  <2>a. /\ OnlyOne(p) /\ Serving(p)
        /\ proc'[p].stuck = FALSE /\ proc'[p].running = NoJob
        /\ proc'[p].queue = proc[p].queue
        /\ proc'[p].state = proc[p].state /\ proc'[p].patched = proc[p].patched
    BY <1>23, <1>a, Ending DEF Processes
  <2>1. UNCHANGED <<world, launches>>
    BY <1>23 DEF PromptEnds, procOnly, handlerVars
  <2>2. proc' \in [Procs -> ProcessType]
    BY <1>23, <1>a, Ending DEF Processes
  <2>3. Blocking'
    BY <1>23, <1>a, <2>1, <2>a DEF Processes, Blocking, Serving, OnlyOne, Dual
  <2>4. Listening'
    BY <1>23, <1>a, <2>a DEF Processes, Listening, Serving, OnlyOne
  <2>5. Born'
    BY <1>23, <1>a, <2>1, <2>a DEF Processes, Born, OnlyOne
  <2> QED BY <2>2, <2>3, <2>4, <2>5 DEF Processes
<1>24. CASE UNCHANGED vars
  <2>1. UNCHANGED <<proc, world, launches>>
    BY <1>24 DEF vars, handlerVars
  <2> QED BY <1>a, <1>b, <2>1, Rest, RestingProcesses
<1> QED
  BY <1>1, <1>2, <1>3, <1>4, <1>5, <1>6, <1>7, <1>8, <1>9, <1>10, <1>11,
     <1>12, <1>13, <1>14, <1>15, <1>16, <1>17, <1>18, <1>19, <1>20, <1>21, <1>22,
     <1>23, <1>24
  DEF Next, Handler, Progress, Comfy, Execute

LEMMA InitTyping == Init => Typing
<1> SUFFICES ASSUME Init PROVE Typing
  OBVIOUS
<1>1. Process("unborn") \in ProcessType /\ proc \in [Procs -> ProcessType]
  BY AProcess DEF Init, States
<1>2. world \in 0..2
  BY WorldIsSmall DEF Init
<1>3. 1 \in 1..Rungs
  BY LadderAssumption DEF Rungs
<1>4. \A p \in Procs : /\ proc[p].state = "unborn" /\ ~proc[p].patched /\ ~proc[p].stuck
                       /\ proc[p].queue = << >> /\ proc[p].running = NoJob
                       /\ proc[p].success = {} /\ proc[p].failed = {}
  BY AProcess DEF Init, States
<1>5. \A r \in 0..1 : Cardinality(Holders(r)) <= 1
  <2>1. \A r \in 0..1 : Holders(r) = {}
    BY <1>4 DEF Holders, Serving
  <2> QED BY <2>1, FS_EmptySet
<1>6. /\ pc \in {"start", "exited"} /\ job = NoJob /\ rung = 1 /\ launches = 0 /\ group = 0
      /\ broken = {} /\ scratch = {} /\ stale = {} /\ mixed = {}
      /\ outcome = [j \in Prompts |-> "none"]
  BY DEF Init
<1>7. TypeOK
  BY <1>1, <1>2, <1>3, <1>4, <1>5, <1>6 DEF TypeOK, ProcessType
<1>8. Blocking /\ Listening
  BY <1>4 DEF Blocking, Listening, Serving
<1>9. Counting
  BY <1>6, PromptsAreNumbers DEF Counting
<1> QED BY <1>7, <1>8, <1>9 DEF Typing

LEMMA OneHolder == Listening => \A r \in 0..1 : Cardinality(Holders(r)) <= 1
<1> SUFFICES ASSUME Listening, NEW r \in 0..1 PROVE Cardinality(Holders(r)) <= 1
  OBVIOUS
<1>1. CASE Holders(r) = {}
  BY <1>1, FS_EmptySet
<1>2. CASE Holders(r) # {}
  <2>1. PICK p : p \in Holders(r)
    BY <1>2
  <2>2. Holders(r) = {p}
    BY <2>1 DEF Holders, Listening
  <2> QED BY <2>2, FS_Singleton
<1> QED BY <1>1, <1>2

\* The jobs that are done are counted, and every one pays for a ladder.
LEMMA Budget ==
  /\ Ladder \in Nat /\ Ladder >= 1 /\ Rungs <= Ladder /\ Rungs >= 1 /\ Rungs \in Nat
  /\ Spent \in Nat
  /\ Ladder * (Cardinality(Jobs) + 1) = Ladder * Cardinality(Jobs) + Ladder
  /\ Ladder * Cardinality(Jobs) \in Nat
  /\ Attempts = 1 .. Ladder * Cardinality(Jobs) + Ladder
  /\ TypeOK /\ job \in Jobs /\ outcome[job] = "none" => Spent + Ladder <= Ladder * Cardinality(Jobs)
<1>1. Ladder \in Nat /\ Ladder >= 1
  BY LadderAssumption
<1>2. Rungs <= Ladder /\ Rungs >= 1 /\ Rungs \in Nat
  BY <1>1 DEF Rungs
<1>3. IsFiniteSet(Jobs) /\ Cardinality(Jobs) \in Nat
  BY JobsAssumption, FS_CardinalityType
<1>4. Done \subseteq Jobs /\ IsFiniteSet(Done) /\ Cardinality(Done) \in Nat
  <2>1. Done \subseteq Jobs
    BY DEF Done
  <2> QED BY <1>3, <2>1, FS_Subset, FS_CardinalityType
<1>5. Spent \in Nat
  BY <1>1, <1>4 DEF Spent
<1>6. /\ Ladder * (Cardinality(Jobs) + 1) = Ladder * Cardinality(Jobs) + Ladder
      /\ Ladder * Cardinality(Jobs) \in Nat
  BY <1>1, <1>3
<1>7. ASSUME TypeOK, job \in Jobs, outcome[job] = "none"
      PROVE  Spent + Ladder <= Ladder * Cardinality(Jobs)
  <2>1. job \notin Done
    BY <1>7 DEF Done
  <2>2. Cardinality(Done \cup {job}) = Cardinality(Done) + 1
    BY <1>4, <2>1, FS_AddElement
  <2>3. Cardinality(Done \cup {job}) <= Cardinality(Jobs)
    BY <1>3, <1>4, <1>7, FS_Subset
  <2>4. Cardinality(Done) + 1 <= Cardinality(Jobs)
    BY <2>2, <2>3
  <2> QED BY <1>1, <1>3, <1>4, <2>4, Multiples DEF Spent
<1> QED BY <1>1, <1>2, <1>5, <1>6, <1>7 DEF Attempts

LEMMA OneMoreIsDone ==
  ASSUME TypeOK, job \in Prompts, outcome[job] = "none", NEW end \in {"ok", "error"},
         outcome' = [outcome EXCEPT ![job] = end]
  PROVE  /\ Spent' = Spent + (IF job = Preload THEN 0 ELSE Ladder)
         /\ outcome'[job] = end /\ outcome' \in [Prompts -> {"none", "ok", "error"}]
<1>1. outcome \in [Prompts -> {"none", "ok", "error"}]
  BY DEF TypeOK
<1>2. outcome'[job] = end /\ outcome' \in [Prompts -> {"none", "ok", "error"}]
  BY <1>1
<1>3. CASE job = Preload
  <2>1. Done' = Done
    BY <1>1, <1>3, PromptsAreNumbers DEF Done, Prompts
  <2> QED BY <1>2, <1>3, <2>1, Budget DEF Spent
<1>4. CASE job # Preload
  <2>1. job \in Jobs /\ job \notin Done
    BY <1>4 DEF Prompts, Done
  <2>2. Done' = Done \cup {job}
    BY <1>1, <2>1 DEF Done, Prompts
  <2>3. IsFiniteSet(Done)
    BY JobsAssumption, FS_Subset DEF Done
  <2>4. Cardinality(Done') = Cardinality(Done) + 1 /\ Cardinality(Done) \in Nat
    BY <2>1, <2>2, <2>3, FS_AddElement, FS_CardinalityType
  <2> QED BY <1>2, <1>4, <2>4, LadderAssumption, Multiples DEF Spent
<1> QED BY <1>3, <1>4

LEMMA StepCounting == Typing /\ [Next]_vars => Counting'
<1> SUFFICES ASSUME Typing, [Next]_vars PROVE Counting'
  OBVIOUS
<1>a. /\ TypeOK /\ launches \in Nat /\ Counting
      /\ pc \in {"shadows", "queue", "await", "finally"} => job # NoJob
      /\ pc = "idle" => job = NoJob
      /\ job \in Prompts \cup {NoJob} /\ rung \in 1..Rungs
      /\ outcome \in [Prompts -> {"none", "ok", "error"}]
  BY ProcessesOfTyping DEF Typing, TypeOK
<1>b. /\ Ladder \in Nat /\ Ladder >= 1 /\ Rungs <= Ladder /\ Rungs >= 1 /\ Rungs \in Nat
      /\ Spent \in Nat
      /\ NoJob # Preload /\ Preload \notin Jobs /\ Jobs \subseteq Prompts /\ NoJob \notin Jobs
  BY Budget, PromptsAreNumbers DEF Prompts
<1>c. UNCHANGED outcome => Spent' = Spent
  BY DEF Spent, Done
<1>d. \A end \in {"ok", "error"} :
        job \in Prompts /\ outcome[job] = "none" /\ outcome' = [outcome EXCEPT ![job] = end] =>
          /\ Spent' = Spent + (IF job = Preload THEN 0 ELSE Ladder)
          /\ outcome'[job] = end
  BY <1>a, OneMoreIsDone
<1> USE DEF Counting
<1>1. ASSUME AlreadyUp PROVE Counting'
  BY <1>1, <1>a, <1>b, <1>c DEF AlreadyUp, Proceed
<1>2. ASSUME StartRanks PROVE Counting'
  BY <1>2, <1>a, <1>b, <1>c DEF StartRanks, BringUp
<1>3. ASSUME BroughtUp PROVE Counting'
  BY <1>3, <1>a, <1>b, <1>c DEF BroughtUp, Proceed
<1>4. ASSUME NextRung PROVE Counting'
  BY <1>4, <1>a, <1>b, <1>c DEF NextRung, BringUp
<1>5. ASSUME GroupCannotStart PROVE Counting'
  BY <1>5, <1>a, <1>b, <1>c, <1>d DEF GroupCannotStart
<1>6. ASSUME RankCannotStart PROVE Counting'
  BY <1>6, <1>a, <1>b, <1>c, <1>d DEF RankCannotStart, Proceed
<1>7. ASSUME QueueOnShadows PROVE Counting'
  BY <1>7, <1>a, <1>b, <1>c, <1>d DEF QueueOnShadows, Fail, Goto
<1>8. ASSUME QueueOnRank0 PROVE Counting'
  BY <1>8, <1>a, <1>b, <1>c, <1>d DEF QueueOnRank0, Fail, Goto
<1>9. ASSUME PromptSucceeded PROVE Counting'
  BY <1>9, <1>a, <1>b, <1>c, <1>d DEF PromptSucceeded
<1>10. ASSUME PromptFailed PROVE Counting'
  BY <1>10, <1>a, <1>b, <1>c, <1>d DEF PromptFailed, Fail
<1>11. ASSUME Finally PROVE Counting'
  BY <1>11, <1>a, <1>b, <1>c DEF Finally
<1>12. ASSUME JobTimesOut PROVE Counting'
  BY <1>12, <1>a, <1>b, <1>c, <1>d DEF JobTimesOut, Fail
<1>13. ASSUME Shutdown PROVE Counting'
  BY <1>13, <1>a, <1>b, <1>c DEF Shutdown
<1>14. ASSUME NEW j \in Jobs, AcceptJob(j) PROVE Counting'
  <2>1. outcome[j] = "none" /\ j \in Jobs
    <3>1. j >= j
      BY JobsAssumption
    <3> QED BY <1>14, <3>1 DEF AcceptJob
  <2> QED BY <1>14, <1>a, <1>b, <1>c, <2>1 DEF AcceptJob
<1>15. ASSUME NEW a \in Attempts, JoinGroup(a) PROVE Counting'
  BY <1>15, <1>a, <1>b, <1>c DEF JoinGroup, procOnly, handlerVars
<1>16. ASSUME NEW a \in Attempts, Meet(a) PROVE Counting'
  BY <1>16, <1>a, <1>b, <1>c DEF Meet, procOnly, handlerVars
<1>17. ASSUME NEW p \in Procs, Serve(p) PROVE Counting'
  BY <1>17, <1>a, <1>b, <1>c DEF Serve, procOnly, handlerVars
<1>18. ASSUME NEW p \in Procs, Exit(p) PROVE Counting'
  BY <1>18, <1>a, <1>b, <1>c DEF Exit, procOnly, handlerVars
<1>19. ASSUME NEW p \in Procs, TakePrompt(p) PROVE Counting'
  BY <1>19, <1>a, <1>b, <1>c DEF TakePrompt, procOnly, handlerVars
<1>20. ASSUME NEW p \in Procs, EnterCollective(p) PROVE Counting'
  BY <1>20, <1>a, <1>b, <1>c DEF EnterCollective, procOnly, handlerVars
<1>21. ASSUME NEW p \in Procs, CollectiveTimesOut(p) PROVE Counting'
  BY <1>21, <1>a, <1>b, <1>c DEF CollectiveTimesOut, procOnly, handlerVars
<1>22. ASSUME NEW p \in Procs, PromptFails(p) PROVE Counting'
  BY <1>22, <1>a, <1>b, <1>c DEF PromptFails, procOnly, handlerVars
<1>23. ASSUME NEW p \in Procs, PromptEnds(p) PROVE Counting'
  BY <1>23, <1>a, <1>b, <1>c DEF PromptEnds, procOnly, handlerVars
<1>24. CASE UNCHANGED vars
  BY <1>24, <1>a, <1>b, <1>c DEF vars, handlerVars
<1> QED
  BY <1>1, <1>2, <1>3, <1>4, <1>5, <1>6, <1>7, <1>8, <1>9, <1>10, <1>11,
     <1>12, <1>13, <1>14, <1>15, <1>16, <1>17, <1>18, <1>19, <1>20, <1>21, <1>22,
     <1>23, <1>24
  DEF Next, Handler, Progress, Comfy, Execute

\* Who may launch the ranks has not used up the attempts there are.
LEMMA RoomToLaunch ==
  ASSUME Typing, pc = "start" \/ (pc = "wait" /\ rung < Rungs)
  PROVE  launches + 1 \in Attempts
<1>a. /\ TypeOK /\ launches \in Nat /\ Counting
      /\ job \in Prompts \cup {NoJob} /\ rung \in 1..Rungs
  BY ProcessesOfTyping DEF Typing, TypeOK
<1>b. /\ Ladder \in Nat /\ Ladder >= 1 /\ Rungs <= Ladder /\ Rungs \in Nat
      /\ Spent \in Nat /\ Ladder * Cardinality(Jobs) \in Nat
      /\ Attempts = 1 .. Ladder * Cardinality(Jobs) + Ladder
  BY Budget
<1>1. job # NoJob => Spent + Ladder <= Ladder * Cardinality(Jobs)
  <2>1. job # NoJob => job \in Jobs /\ outcome[job] = "none"
    BY <1>a DEF Counting, Prompts
  <2> QED BY <1>a, <2>1, Budget
<1>2. launches + 1 <= Ladder * Cardinality(Jobs) + Ladder
  BY <1>a, <1>b, <1>1 DEF Counting
<1> QED BY <1>a, <1>b, <1>2

LEMMA StepTypeOK == Typing /\ [Next]_vars => TypeOK'
<1> SUFFICES ASSUME Typing, [Next]_vars PROVE TypeOK'
  OBVIOUS
<1>a. /\ TypeOK /\ Blocking /\ launches \in Nat /\ Counting /\ proc \in [Procs -> ProcessType]
  BY ProcessesOfTyping DEF Typing, Processes
<1>b. /\ Ladder \in Nat /\ Ladder >= 1 /\ Rungs >= 1 /\ Rungs \in Nat
      /\ NoJob # Preload /\ Preload \notin Jobs /\ Jobs \subseteq Prompts /\ NoJob \notin Jobs
      /\ Preload \in Prompts
  BY Budget, PromptsAreNumbers DEF Prompts
<1>c. /\ proc' \in [Procs -> ProcessType]
      /\ \A p \in Procs : proc'[p].state # "unborn" => Attempt(p) <= launches'
      /\ \A r \in 0..1 : Cardinality(Holders(r)') <= 1
  <2>1. Processes'
    BY StepProcesses
  <2>2. Listening' => (\A r \in 0..1 : Cardinality(Holders(r)) <= 1)'
    BY OneHolder, PTL
  <2> QED BY <2>1, <2>2 DEF Processes, Born
<1> DEFINE Scalars ==
      /\ world \in 0..2
      /\ pc \in {"start", "wait", "idle", "shadows", "queue", "await", "finally", "exited"}
      /\ job \in Prompts \cup {NoJob}
      /\ rung \in 1..Rungs
      /\ launches \in {0} \cup Attempts
      /\ group \in 0..launches
      /\ broken \subseteq Attempts
      /\ scratch \subseteq Verbatim
      /\ outcome \in [Prompts -> {"none", "ok", "error"}]
      /\ stale \subseteq Prompts /\ mixed \subseteq Prompts
      /\ pc = "idle" => job = NoJob
      /\ pc \in {"shadows", "queue", "await", "finally"} => job # NoJob
<1>d. Scalars
  BY <1>a DEF TypeOK
<1>e. Rungs' = IF world' = 2 THEN Ladder ELSE 1
  BY DEF Rungs, Dual
<1>f. Rungs = IF world = 2 THEN Ladder ELSE 1
  BY DEF Rungs, Dual
<1>g. Scalars' => TypeOK'
  BY <1>c DEF TypeOK, ProcessType
<1>1. ASSUME AlreadyUp PROVE TypeOK'
  <2>1. Scalars'
    BY <1>1, <1>a, <1>b, <1>d, <1>e, <1>f DEF AlreadyUp, Proceed, handlerVars, historyVars
  <2> HIDE DEF Scalars
  <2> QED BY <2>1, <1>g
<1>2. ASSUME StartRanks PROVE TypeOK'
  <2>1. Scalars'
    <3>1. launches + 1 \in Attempts
      BY <1>2, RoomToLaunch DEF StartRanks
    <3> QED BY <1>2, <1>a, <1>b, <1>d, <1>e, <1>f, <3>1 DEF StartRanks, BringUp, handlerVars, historyVars
  <2> HIDE DEF Scalars
  <2> QED BY <2>1, <1>g
<1>3. ASSUME BroughtUp PROVE TypeOK'
  <2>1. Scalars'
    BY <1>3, <1>a, <1>b, <1>d, <1>e, <1>f DEF BroughtUp, Proceed, handlerVars, historyVars
  <2> HIDE DEF Scalars
  <2> QED BY <2>1, <1>g
<1>4. ASSUME NextRung PROVE TypeOK'
  <2>1. Scalars'
    <3>1. launches + 1 \in Attempts
      BY <1>4, RoomToLaunch DEF NextRung
    <3> QED BY <1>4, <1>a, <1>b, <1>d, <1>e, <1>f, <3>1 DEF NextRung, BringUp, handlerVars, historyVars
  <2> HIDE DEF Scalars
  <2> QED BY <2>1, <1>g
<1>5. ASSUME GroupCannotStart PROVE TypeOK'
  <2>1. Scalars'
    BY <1>5, <1>a, <1>b, <1>d, <1>e, <1>f DEF GroupCannotStart, handlerVars, historyVars
  <2> HIDE DEF Scalars
  <2> QED BY <2>1, <1>g
<1>6. ASSUME RankCannotStart PROVE TypeOK'
  <2>1. Scalars'
    BY <1>6, <1>a, <1>b, <1>d, <1>e, <1>f DEF RankCannotStart, Proceed, handlerVars, historyVars
  <2> HIDE DEF Scalars
  <2> QED BY <2>1, <1>g
<1>7. ASSUME QueueOnShadows PROVE TypeOK'
  <2>1. Scalars'
    BY <1>7, <1>a, <1>b, <1>d, <1>e, <1>f DEF QueueOnShadows, Fail, Goto, handlerVars, historyVars
  <2> HIDE DEF Scalars
  <2> QED BY <2>1, <1>g
<1>8. ASSUME QueueOnRank0 PROVE TypeOK'
  <2>1. Scalars'
    BY <1>8, <1>a, <1>b, <1>d, <1>e, <1>f DEF QueueOnRank0, Fail, Goto, handlerVars, historyVars
  <2> HIDE DEF Scalars
  <2> QED BY <2>1, <1>g
<1>9. ASSUME PromptSucceeded PROVE TypeOK'
  <2>1. Scalars'
    BY <1>9, <1>a, <1>b, <1>d, <1>e, <1>f DEF PromptSucceeded, handlerVars, historyVars
  <2> HIDE DEF Scalars
  <2> QED BY <2>1, <1>g
<1>10. ASSUME PromptFailed PROVE TypeOK'
  <2>1. Scalars'
    BY <1>10, <1>a, <1>b, <1>d, <1>e, <1>f DEF PromptFailed, Fail, handlerVars, historyVars
  <2> HIDE DEF Scalars
  <2> QED BY <2>1, <1>g
<1>11. ASSUME Finally PROVE TypeOK'
  <2>1. Scalars'
    BY <1>11, <1>a, <1>b, <1>d, <1>e, <1>f DEF Finally, handlerVars, historyVars
  <2> HIDE DEF Scalars
  <2> QED BY <2>1, <1>g
<1>12. ASSUME JobTimesOut PROVE TypeOK'
  <2>1. Scalars'
    BY <1>12, <1>a, <1>b, <1>d, <1>e, <1>f DEF JobTimesOut, Fail, handlerVars, historyVars
  <2> HIDE DEF Scalars
  <2> QED BY <2>1, <1>g
<1>13. ASSUME Shutdown PROVE TypeOK'
  <2>1. Scalars'
    BY <1>13, <1>a, <1>b, <1>d, <1>e, <1>f DEF Shutdown, handlerVars, historyVars
  <2> HIDE DEF Scalars
  <2> QED BY <2>1, <1>g
<1>14. ASSUME NEW j \in Jobs, AcceptJob(j) PROVE TypeOK'
  <2>1. Scalars'
    BY <1>14, <1>b, <1>d, <1>e, <1>f DEF AcceptJob, handlerVars, historyVars
  <2> HIDE DEF Scalars
  <2> QED BY <2>1, <1>g
<1>15. ASSUME NEW a \in Attempts, JoinGroup(a) PROVE TypeOK'
  <2>1. Scalars'
    BY <1>15, <1>a, <1>b, <1>d, <1>e, <1>f DEF JoinGroup, procOnly, handlerVars, historyVars
  <2> HIDE DEF Scalars
  <2> QED BY <2>1, <1>g
<1>16. ASSUME NEW a \in Attempts, Meet(a) PROVE TypeOK'
  <2>1. Scalars'
    <3>1. mixed' \subseteq Prompts
      <4>1. \A p \in Procs : proc[p].stuck => proc[p].running \in Prompts
        BY <1>a DEF Blocking, ProcessType
      <4> QED BY <1>16, <1>d, <4>1, Pairs DEF Meet
    <3> QED BY <1>16, <1>d, <1>e, <1>f, <3>1 DEF Meet, procOnly, handlerVars, historyVars
  <2> HIDE DEF Scalars
  <2> QED BY <2>1, <1>g
<1>17. ASSUME NEW p \in Procs, Serve(p) PROVE TypeOK'
  <2>1. Scalars'
    BY <1>17, <1>a, <1>b, <1>d, <1>e, <1>f DEF Serve, procOnly, handlerVars, historyVars
  <2> HIDE DEF Scalars
  <2> QED BY <2>1, <1>g
<1>18. ASSUME NEW p \in Procs, Exit(p) PROVE TypeOK'
  <2>1. Scalars'
    BY <1>18, <1>a, <1>b, <1>d, <1>e, <1>f DEF Exit, procOnly, handlerVars, historyVars
  <2> HIDE DEF Scalars
  <2> QED BY <2>1, <1>g
<1>19. ASSUME NEW p \in Procs, TakePrompt(p) PROVE TypeOK'
  <2>1. Scalars'
    BY <1>19, <1>a, <1>b, <1>d, <1>e, <1>f DEF TakePrompt, procOnly, handlerVars, historyVars
  <2> HIDE DEF Scalars
  <2> QED BY <2>1, <1>g
<1>20. ASSUME NEW p \in Procs, EnterCollective(p) PROVE TypeOK'
  <2>1. Scalars'
    BY <1>20, <1>a, <1>b, <1>d, <1>e, <1>f DEF EnterCollective, procOnly, handlerVars, historyVars
  <2> HIDE DEF Scalars
  <2> QED BY <2>1, <1>g
<1>21. ASSUME NEW p \in Procs, CollectiveTimesOut(p) PROVE TypeOK'
  <2>1. Scalars'
    <3>1. Attempt(p) \in Attempts
      BY Pairs
    <3> QED BY <1>21, <1>d, <1>e, <1>f, <3>1 DEF CollectiveTimesOut, procOnly, handlerVars, historyVars
  <2> HIDE DEF Scalars
  <2> QED BY <2>1, <1>g
<1>22. ASSUME NEW p \in Procs, PromptFails(p) PROVE TypeOK'
  <2>1. Scalars'
    BY <1>22, <1>a, <1>b, <1>d, <1>e, <1>f DEF PromptFails, procOnly, handlerVars, historyVars
  <2> HIDE DEF Scalars
  <2> QED BY <2>1, <1>g
<1>23. ASSUME NEW p \in Procs, PromptEnds(p) PROVE TypeOK'
  <2>1. Scalars'
    <3>1. scratch' \subseteq Verbatim
      BY <1>23, <1>d DEF PromptEnds
    <3> QED BY <1>23, <1>d, <1>e, <1>f, <3>1 DEF PromptEnds, procOnly, handlerVars, historyVars
  <2> HIDE DEF Scalars
  <2> QED BY <2>1, <1>g
<1>24. CASE UNCHANGED vars
  <2>1. Scalars'
    BY <1>24, <1>d, <1>e, <1>f DEF vars, handlerVars, historyVars
  <2> HIDE DEF Scalars
  <2> QED BY <2>1, <1>g
<1> QED
  BY <1>1, <1>2, <1>3, <1>4, <1>5, <1>6, <1>7, <1>8, <1>9, <1>10, <1>11,
     <1>12, <1>13, <1>14, <1>15, <1>16, <1>17, <1>18, <1>19, <1>20, <1>21, <1>22,
     <1>23, <1>24
  DEF Next, Handler, Progress, Comfy, Execute

LEMMA StepTyping == Typing /\ [Next]_vars => Typing'
BY StepTypeOK, StepProcesses, StepCounting DEF Typing, Processes

\* Every variable has its type, each port at most one holder, and the ranks are
\* launched no more often than the ladder and the jobs allow.
THEOREM TypeCorrect == Spec => []TypeOK
<1>1. Typing => TypeOK
  BY DEF Typing
<1> QED BY InitTyping, StepTyping, <1>1, PTL DEF Spec

-----------------------------------------------------------------------------
(* One group.  A rank that is busy is taken to answer /system_stats within  *)
(* its 5 seconds: start_comfyui launches over one that does not.            *)

\* A dual worker has one group, and between two starts of the ranks every process
\* of it that lives serves what was verified.
Grouping ==
  Dual =>
    /\ \A p \in Procs : Alive(p) => Attempt(p) = group
    /\ pc = "exited" => \A p \in Procs : ~Alive(p)
    /\ pc # "wait" => \A p \in Procs : Alive(p) => Serving(p) /\ proc[p].patched

LEMMA InitGrouping == Init => Grouping
<1> SUFFICES ASSUME Init PROVE Grouping
  OBVIOUS
<1>1. \A p \in Procs : ~Alive(p)
  BY AProcess DEF Init, States, Alive
<1> QED BY <1>1 DEF Grouping

LEMMA HandlesOfDual == Dual => Handles = {p \in Procs : Attempt(p) = group}
BY Pairs DEF Dual, Handles, Ranks

\* A step that leaves every process its state.
LEMMA SameGroup ==
  ASSUME Grouping, UNCHANGED <<world, group>>, pc # "exited" \/ UNCHANGED pc,
         \A p \in Procs : proc'[p].state = proc[p].state /\ proc'[p].patched = proc[p].patched,
         pc' \in {"wait", "exited"} => pc' = pc,
         pc = "wait" => pc' = "wait"
  PROVE  Grouping'
BY DEF Grouping, Alive, Serving, Dual

\* What start_comfyui launches over is dead.
LEMMA NothingIsLaunchedOver ==
  ASSUME ~SlowAnswers, Typing, Grouping, Dual, StartRanks
  PROVE  LeftToLaunchOver = Without(Handles) \/ \A p \in Procs : ~Alive(p)
<1> SUFFICES ASSUME LeftToLaunchOver # Without(Handles) PROVE \A p \in Procs : ~Alive(p)
  OBVIOUS
<1>1. \A p \in Handles : Alive(p)
  BY DEF LeftToLaunchOver
<1>2. Ranks = {0, 1}
  BY DEF Ranks, Dual
<1>3. PICK up \in SUBSET Ranks : Answering(up) /\ NeedsStart(up)
  BY DEF StartRanks
<1>4. up = {r \in Ranks : Holders(r) # {}}
  BY <1>3 DEF Answering
<1>5. pc = "start" /\ group \in Nat
  BY DEF StartRanks, Typing, TypeOK, Attempts
<1>6. CASE group = 0
  <2>1. \A p \in Procs : Attempt(p) # 0
    BY Pairs DEF Attempts
  <2> QED BY <1>6, <2>1 DEF Grouping
<1>7. CASE group # 0
  <2>1. group \in Attempts
    <3>1. group \in 0..launches /\ launches \in {0} \cup Attempts
      BY DEF Typing, TypeOK
    <3>2. Attempts = 1 .. Ladder * Cardinality(Jobs) + Ladder
      BY Budget
    <3>3. Ladder * Cardinality(Jobs) + Ladder \in Nat
      BY Budget
    <3> DEFINE most == Ladder * Cardinality(Jobs) + Ladder
    <3> HIDE DEF most
    <3>4. Attempts = 1 .. most /\ most \in Nat
      BY <3>2, <3>3 DEF most
    <3> QED BY <1>5, <1>7, <3>1, <3>4
  <2>2. PICK r \in {0, 1} : Holders(r) = {}
    BY <1>1, <1>2, <1>3, <1>4, <1>7 DEF NeedsStart
  <2>3. <<group, r>> \in Handles /\ Rank(<<group, r>>) = r /\ <<group, r>> \in Procs
    BY <1>2, <2>1 DEF Handles, Procs, Attempt, Rank
  <2>4. Serving(<<group, r>>)
    BY <1>1, <1>5, <2>3 DEF Grouping
  <2> QED BY <2>2, <2>3, <2>4 DEF Holders
<1> QED BY <1>6, <1>7

\* Every step preserves it.
LEMMA StepGrouping ==
  ASSUME ~SlowAnswers PROVE Typing /\ Grouping /\ [Next]_vars => Grouping'
<1> SUFFICES ASSUME Typing, Grouping, [Next]_vars PROVE Grouping'
  OBVIOUS
<1>a. /\ TypeOK /\ Blocking /\ Processes /\ launches \in Nat
      /\ pc \in {"shadows", "queue", "await", "finally"} => job # NoJob
  BY ProcessesOfTyping DEF Typing, TypeOK
<1>b. UNCHANGED proc => \A p \in Procs : proc'[p].state = proc[p].state /\ proc'[p].patched = proc[p].patched
  OBVIOUS
<1>d. /\ Process("dead").state = "dead" /\ Process("booting").state = "booting"
  BY AProcess DEF States
<1>l. ASSUME Dual, NEW left, left \in {proc, Without(Handles)}, BringUp(left),
             left = Without(Handles) \/ \A p \in Procs : ~Alive(p)
      PROVE  Grouping'
  <2>1. /\ \A p \in Procs :
              \/ Attempt(p) = launches + 1 /\ proc'[p] = Process("booting")
              \/ /\ proc'[p] = proc[p] \/ (Alive(p) /\ proc'[p] = Process("dead"))
                 /\ left = Without(Handles) /\ p \in Handles => ~Alive(p)'
        /\ pc' = "wait" /\ group' = launches + 1 /\ UNCHANGED world
    BY <1>a, <1>l, Launching
  <2>2. \A p \in Procs : Alive(p) => p \in Handles
    BY <1>l, HandlesOfDual DEF Grouping
  <2>3. \A p \in Procs : Alive(p)' => Attempt(p) = group'
    BY <1>l, <1>d, <2>1, <2>2 DEF Alive
  <2> QED BY <2>1, <2>3 DEF Grouping
<1>s. ASSUME proc' = Without(Handles), UNCHANGED world PROVE Dual => \A p \in Procs : ~Alive(p)'
  <2>1. \A p \in Procs : IF p \in Handles THEN Stopped(p) ELSE proc'[p] = proc[p]
    BY <1>a, <1>s, Stopping
  <2>2. Dual => \A p \in Procs : Alive(p) => p \in Handles
    BY HandlesOfDual DEF Grouping
  <2> QED BY <1>d, <2>1, <2>2 DEF Stopped, Alive
<1>1. ASSUME AlreadyUp PROVE Grouping'
  <2>1. /\ UNCHANGED <<world, group>> /\ pc \notin {"wait", "exited"} /\ pc' \notin {"wait", "exited"}
    BY <1>1 DEF AlreadyUp, Proceed
  <2>2. UNCHANGED proc
    BY <1>1 DEF AlreadyUp
  <2> QED BY <1>b, <2>1, <2>2, SameGroup
<1>2. ASSUME StartRanks PROVE Grouping'
  <2>1. LeftToLaunchOver \in {proc, Without(Handles)} /\ BringUp(LeftToLaunchOver)
    BY <1>2 DEF StartRanks, LeftToLaunchOver
  <2>2. CASE Dual
    BY <1>2, <1>l, <2>1, <2>2, NothingIsLaunchedOver
  <2>3. CASE ~Dual
    BY <2>1, <2>3 DEF BringUp, Grouping, Dual
  <2> QED BY <2>2, <2>3
<1>3. ASSUME BroughtUp PROVE Grouping'
  <2>1. /\ UNCHANGED <<world, group, proc>> /\ pc' \notin {"wait", "exited"}
        /\ \A r \in Ranks : Holders(r) # {}
        /\ Verified
    BY <1>3 DEF BroughtUp, Proceed
  <2>2. ASSUME Dual, NEW p \in Procs, Alive(p) PROVE Serving(p) /\ proc[p].patched
    <3>1. Rank(p) \in Ranks
      BY <2>2, Pairs DEF Ranks, Dual
    <3>2. PICK h : h \in Holders(Rank(p))
      BY <2>1, <3>1
    <3>3. h \in Procs /\ Rank(h) = Rank(p) /\ Serving(h) /\ Alive(h)
      BY <3>2 DEF Holders, Serving, Alive
    <3>4. h = p
      BY <2>2, <3>3, Pairs DEF Grouping
    <3> QED BY <2>1, <2>2, <3>1, <3>2, <3>3, <3>4 DEF Verified
  <2> QED BY <2>1, <2>2 DEF Grouping, Alive, Serving, Dual
<1>4. ASSUME NextRung PROVE Grouping'
  BY <1>4, <1>l DEF NextRung
<1>5. ASSUME GroupCannotStart PROVE Grouping'
  <2>1. proc' = Without(Handles) /\ UNCHANGED world
    BY <1>5 DEF GroupCannotStart
  <2> QED BY <1>s, <2>1 DEF Grouping, Dual
<1>6. ASSUME RankCannotStart PROVE Grouping'
  BY <1>6 DEF RankCannotStart, Proceed, Grouping, Dual
<1>7. ASSUME QueueOnShadows PROVE Grouping'
  <2>1. /\ UNCHANGED <<world, group>> /\ pc \notin {"wait", "exited"} /\ pc' \notin {"wait", "exited"}
    BY <1>7 DEF QueueOnShadows, Fail, Goto
  <2>2. job # NoJob /\ (UNCHANGED proc \/ proc' = Submitted(1))
    BY <1>7, <1>a DEF QueueOnShadows, Goto, Fail
  <2>3. \A p \in Procs : proc'[p].state = proc[p].state /\ proc'[p].patched = proc[p].patched
    BY <1>a, <1>b, <2>2, Submitting DEF Handed, Untouched
  <2> QED BY <2>1, <2>3, SameGroup
<1>8. ASSUME QueueOnRank0 PROVE Grouping'
  <2>1. /\ UNCHANGED <<world, group>> /\ pc \notin {"wait", "exited"} /\ pc' \notin {"wait", "exited"}
    BY <1>8 DEF QueueOnRank0, Fail, Goto
  <2>2. job # NoJob /\ (UNCHANGED proc \/ proc' = Submitted(0))
    BY <1>8, <1>a DEF QueueOnRank0, Goto, Fail
  <2>3. \A p \in Procs : proc'[p].state = proc[p].state /\ proc'[p].patched = proc[p].patched
    BY <1>a, <1>b, <2>2, Submitting DEF Handed, Untouched
  <2> QED BY <2>1, <2>3, SameGroup
<1>9. ASSUME PromptSucceeded PROVE Grouping'
  <2>1. /\ UNCHANGED <<world, group>> /\ pc \notin {"wait", "exited"} /\ pc' \notin {"wait", "exited"}
    BY <1>9 DEF PromptSucceeded
  <2>2. UNCHANGED proc
    BY <1>9 DEF PromptSucceeded
  <2> QED BY <1>b, <2>1, <2>2, SameGroup
<1>10. ASSUME PromptFailed PROVE Grouping'
  <2>1. /\ UNCHANGED <<world, group>> /\ pc \notin {"wait", "exited"} /\ pc' \notin {"wait", "exited"}
    BY <1>10 DEF PromptFailed, Fail
  <2>2. UNCHANGED proc
    BY <1>10 DEF PromptFailed
  <2> QED BY <1>b, <2>1, <2>2, SameGroup
<1>11. ASSUME Finally PROVE Grouping'
  <2>1. /\ UNCHANGED <<world, group>> /\ pc \notin {"wait", "exited"} /\ pc' \notin {"wait", "exited"}
    BY <1>11 DEF Finally
  <2>2. UNCHANGED proc \/ \E R : proc' = Interrupted(R)
    BY <1>11 DEF Finally, Fail
  <2>3. \A p \in Procs : proc'[p].state = proc[p].state /\ proc'[p].patched = proc[p].patched
    BY <1>a, <1>b, <2>2, Interrupting DEF Untouched
  <2> QED BY <2>1, <2>3, SameGroup
<1>12. ASSUME JobTimesOut PROVE Grouping'
  <2>1. /\ UNCHANGED <<world, group>> /\ pc \notin {"wait", "exited"} /\ pc' \notin {"wait", "exited"}
    BY <1>12 DEF JobTimesOut, Fail
  <2>2. UNCHANGED proc \/ \E R : proc' = Interrupted(R)
    BY <1>12 DEF JobTimesOut, Fail
  <2>3. \A p \in Procs : proc'[p].state = proc[p].state /\ proc'[p].patched = proc[p].patched
    BY <1>a, <1>b, <2>2, Interrupting DEF Untouched
  <2> QED BY <2>1, <2>3, SameGroup
<1>13. ASSUME Shutdown PROVE Grouping'
  <2>1. proc' = Without(Handles) /\ UNCHANGED world
    BY <1>13 DEF Shutdown
  <2> QED BY <1>s, <2>1 DEF Grouping, Dual
<1>14. ASSUME NEW j \in Jobs, AcceptJob(j) PROVE Grouping'
  <2>1. /\ UNCHANGED <<world, group>> /\ pc \notin {"wait", "exited"} /\ pc' \notin {"wait", "exited"}
    BY <1>14 DEF AcceptJob
  <2>2. UNCHANGED proc
    BY <1>14 DEF AcceptJob
  <2> QED BY <1>b, <2>1, <2>2, SameGroup
<1>15. ASSUME NEW a \in Attempts, JoinGroup(a) PROVE Grouping'
  <2>1. /\ UNCHANGED <<world, group, pc>> /\ Dual /\ a \in Attempts
        /\ \A p \in Procs : Attempt(p) = a => proc[p].state = "booting"
    BY <1>15 DEF JoinGroup, procOnly, handlerVars
  <2>2. pc \notin {"exited"} /\ pc = "wait"
    <3>1. <<a, 0>> \in Procs /\ Attempt(<<a, 0>>) = a
      BY Pairs
    <3> QED BY <2>1, <3>1 DEF Grouping, Alive, Serving
  <2>3. \A p \in Procs : Alive(p)' => Alive(p)
    BY <1>15, <1>a, Joining DEF Alive
  <2> QED BY <2>1, <2>2, <2>3 DEF Grouping
<1>16. ASSUME NEW a \in Attempts, Meet(a) PROVE Grouping'
  <2>1. UNCHANGED <<world, group, pc>>
    BY <1>16 DEF Meet, procOnly, handlerVars
  <2>2. \A k \in Procs : proc'[k].state = proc[k].state /\ proc'[k].patched = proc[k].patched
    BY <1>16, <1>a, Meeting
  <2> QED BY <2>1, <2>2 DEF Grouping, Alive, Serving, Dual
<1>17. ASSUME NEW p \in Procs, Serve(p) PROVE Grouping'
  <2>1. UNCHANGED <<world, group, pc>>
    BY <1>17 DEF Serve, procOnly, handlerVars
  <2>2. Alive(p) /\ ~Serving(p) /\ OnlyOne(p)
    BY <1>17, <1>a, Binding DEF Alive, Serving
  <2>3. Dual => pc = "wait"
    BY <2>2 DEF Grouping
  <2> QED BY <2>1, <2>2, <2>3 DEF Grouping, OnlyOne, Alive, Dual
<1>18. ASSUME NEW p \in Procs, Exit(p) PROVE Grouping'
  <2>1. UNCHANGED <<world, group, pc>>
    BY <1>18 DEF Exit, procOnly, handlerVars
  <2>2. OnlyOne(p) /\ proc'[p].state = "dead"
    BY <1>18, <1>a, <1>d, Leaving
  <2> QED BY <2>1, <2>2 DEF Grouping, OnlyOne, Alive, Serving, Dual
<1>19. ASSUME NEW p \in Procs, TakePrompt(p) PROVE Grouping'
  <2>1. UNCHANGED <<world, group, pc>>
    BY <1>19 DEF TakePrompt, procOnly, handlerVars
  <2>2. \A k \in Procs : proc'[k].state = proc[k].state /\ proc'[k].patched = proc[k].patched
    BY <1>19, <1>a, Taking DEF OnlyOne
  <2> QED BY <2>1, <2>2 DEF Grouping, Alive, Serving, Dual
<1>20. ASSUME NEW p \in Procs, EnterCollective(p) PROVE Grouping'
  <2>1. UNCHANGED <<world, group, pc>>
    BY <1>20 DEF EnterCollective, procOnly, handlerVars
  <2>2. \A k \in Procs : proc'[k].state = proc[k].state /\ proc'[k].patched = proc[k].patched
    BY <1>20, <1>a, Entering DEF OnlyOne
  <2> QED BY <2>1, <2>2 DEF Grouping, Alive, Serving, Dual
<1>21. ASSUME NEW p \in Procs, CollectiveTimesOut(p) PROVE Grouping'
  <2>1. UNCHANGED <<world, group, pc>>
    BY <1>21 DEF CollectiveTimesOut, procOnly, handlerVars
  <2>2. \A k \in Procs : proc'[k].state = proc[k].state /\ proc'[k].patched = proc[k].patched
    BY <1>21, <1>a, Ending DEF OnlyOne
  <2> QED BY <2>1, <2>2 DEF Grouping, Alive, Serving, Dual
<1>22. ASSUME NEW p \in Procs, PromptFails(p) PROVE Grouping'
  <2>1. UNCHANGED <<world, group, pc>>
    BY <1>22 DEF PromptFails, procOnly, handlerVars
  <2>2. \A k \in Procs : proc'[k].state = proc[k].state /\ proc'[k].patched = proc[k].patched
    BY <1>22, <1>a, Ending DEF OnlyOne
  <2> QED BY <2>1, <2>2 DEF Grouping, Alive, Serving, Dual
<1>23. ASSUME NEW p \in Procs, PromptEnds(p) PROVE Grouping'
  <2>1. UNCHANGED <<world, group, pc>>
    BY <1>23 DEF PromptEnds, procOnly, handlerVars
  <2>2. \A k \in Procs : proc'[k].state = proc[k].state /\ proc'[k].patched = proc[k].patched
    BY <1>23, <1>a, Ending DEF OnlyOne
  <2> QED BY <2>1, <2>2 DEF Grouping, Alive, Serving, Dual
<1>24. CASE UNCHANGED vars
  <2>1. UNCHANGED <<world, group, pc, proc>>
    BY <1>24 DEF vars, handlerVars
  <2> QED BY <2>1 DEF Grouping, Alive, Serving, Dual
<1> QED
  BY <1>1, <1>2, <1>3, <1>4, <1>5, <1>6, <1>7, <1>8, <1>9, <1>10, <1>11,
     <1>12, <1>13, <1>14, <1>15, <1>16, <1>17, <1>18, <1>19, <1>20, <1>21, <1>22,
     <1>23, <1>24
  DEF Next, Handler, Progress, Comfy, Execute

\* With two ranks, what a prompt is submitted to is the verified group.
THEOREM OnlyVerifiedRanksServe ==
  ASSUME ~SlowAnswers PROVE Spec => []OnlyVerifiedServe
<1>1. Grouping => OnlyVerifiedServe
  BY DEF Grouping, OnlyVerifiedServe, Holders, Serving, Alive
<1> QED BY InitTyping, StepTyping, InitGrouping, StepGrouping, <1>1, PTL DEF Spec

\* With two ranks, no process outlives its group, and none an exit of the worker.
THEOREM GroupsAreWhole ==
  ASSUME ~SlowAnswers PROVE Spec => []GroupIsWhole
<1>1. Grouping => GroupIsWhole
  BY DEF Grouping, GroupIsWhole, GroupReplacedWhole, ExitLeavesNothing
<1> QED BY InitTyping, StepTyping, InitGrouping, StepGrouping, <1>1, PTL DEF Spec

-----------------------------------------------------------------------------
(* What the ranks of a dual worker compute.                                *)

Held(p) == Waiting(p) \cup {proc[p].running} \cup proc[p].success \cup proc[p].failed

Fresh == pc \in {"queue", "await"} /\ job \notin stale

\* Nothing holds a prompt that was not submitted.
Holding ==
  \A p \in Procs : \A j \in Held(p) :
    \/ j = NoJob
    \/ outcome[j] # "none"
    \/ j = job /\ pc \in {"queue", "await"}

\* While a fresh job is out, each rank has had it once and has nothing else; rank 0
\* is given it last, and without rank 0 no rank gets through its collectives.
Alone ==
  Fresh => \A p \in Procs :
    /\ proc[p].running \in {NoJob, job}
    /\ proc[p].queue \in {<< >>, <<job>>}
    /\ proc[p].queue # << >> => proc[p].running = NoJob
    /\ Busy(p) => job \notin proc[p].success \cup proc[p].failed
    /\ pc = "queue" => /\ job \notin proc[p].success
                       /\ Rank(p) = 0 => ~Busy(p) /\ job \notin proc[p].failed

\* The ranks of a group that both compute it are at the same collective.
InStep ==
  Fresh => \A p \in Procs :
    /\ proc[p].running = job /\ proc[Peer(p)].running = job => proc[p].step = proc[Peer(p)].step
    /\ proc[p].running = job /\ proc[Peer(p)].queue # << >> => proc[p].step = 0
    /\ proc[p].running = job /\ pc = "queue" => proc[p].step = 0
    /\ job \in proc[p].success => /\ proc[Peer(p)].queue = << >>
                                  /\ proc[Peer(p)].running = job => proc[Peer(p)].step = Collectives

\* A fresh job that succeeded may still run on the shadow, past its last collective.
Over ==
  \A j \in Prompts \ stale : outcome[j] = "ok" =>
    \A p \in Procs : j \notin Waiting(p) /\ (proc[p].running = j => proc[p].step = Collectives)

Sharing ==
  IF Dual THEN Holding /\ Alone /\ InStep /\ Over /\ FreshJobsMatch ELSE mixed = {}

LEMMA InitSharing == Init => Sharing
<1> SUFFICES ASSUME Init PROVE Sharing
  OBVIOUS
<1>1. \A p \in Procs : /\ proc[p].queue = << >> /\ proc[p].running = NoJob
                       /\ proc[p].success = {} /\ proc[p].failed = {}
  BY AProcess DEF Init, States
<1>2. \A p \in Procs : Waiting(p) = {}
  BY <1>1 DEF Waiting
<1>3. pc \notin {"queue", "await"} /\ mixed = {} /\ \A j \in Prompts : outcome[j] = "none"
  BY DEF Init
<1> QED BY <1>1, <1>2, <1>3 DEF Sharing, Holding, Alone, InStep, Over, FreshJobsMatch, Fresh, Held

\* A process that holds what it held.
Quiet(p) ==
  /\ proc'[p].queue = proc[p].queue /\ proc'[p].running = proc[p].running
  /\ proc'[p].step = proc[p].step
  /\ proc'[p].success = proc[p].success /\ proc'[p].failed = proc[p].failed

LEMMA SameQueueSameWaiting == \A p : proc'[p].queue = proc[p].queue => Waiting(p)' = Waiting(p)
BY DEF Waiting

LEMMA QuietHolds == \A p : Quiet(p) => Held(p)' = Held(p) /\ Waiting(p)' = Waiting(p)
BY SameQueueSameWaiting DEF Quiet, Held

LEMMA HeldArePrompts == TypeOK => \A p \in Procs : Held(p) \subseteq Prompts \cup {NoJob} /\ Waiting(p) \subseteq Prompts
<1> SUFFICES ASSUME TypeOK, NEW p \in Procs
             PROVE  Held(p) \subseteq Prompts \cup {NoJob} /\ Waiting(p) \subseteq Prompts
  OBVIOUS
<1>1. /\ proc[p].queue \in Seq(Prompts) /\ proc[p].running \in Prompts \cup {NoJob}
      /\ proc[p].success \subseteq Prompts /\ proc[p].failed \subseteq Prompts
  BY ProcessesAreTyped DEF ProcessType
<1>2. \A n \in 1 .. Len(proc[p].queue) : proc[p].queue[n] \in Prompts
  BY <1>1
<1>3. Waiting(p) \subseteq Prompts
  BY <1>2 DEF Waiting
<1> QED BY <1>1, <1>3 DEF Held

LEMMA OneWaits == \A p, j : proc[p].queue = <<j>> => Waiting(p) = {j}
<1> TAKE p, j
<1> HAVE proc[p].queue = <<j>>
<1>1. Len(proc[p].queue) = 1 /\ proc[p].queue[1] = j
  OBVIOUS
<1> QED BY <1>1 DEF Waiting

LEMMA NoneWaits == \A p : (proc[p].queue = << >> => Waiting(p) = {}) /\ (proc'[p].queue = << >> => Waiting(p)' = {})
BY DEF Waiting

LEMMA HandedWaits ==
  ASSUME TypeOK, NEW p \in Procs, proc'[p].queue = Append(proc[p].queue, job), job \in Prompts
  PROVE  Waiting(p)' = Waiting(p) \cup {job} /\ (proc[p].queue = << >> => proc'[p].queue = <<job>>)
<1> DEFINE q == proc[p].queue
<1>1. q \in Seq(Prompts)
  BY ProcessesAreTyped DEF ProcessType
<1> HIDE DEF q
<1>2. /\ Len(Append(q, job)) = Len(q) + 1 /\ Len(q) \in Nat
      /\ \A n \in 1 .. Len(q) : Append(q, job)[n] = q[n]
      /\ Append(q, job)[Len(q) + 1] = job
  BY <1>1
<1>3. {Append(q, job)[n] : n \in 1 .. Len(Append(q, job))} = {q[n] : n \in 1 .. Len(q)} \cup {job}
  BY <1>2
<1>4. q = << >> => Append(q, job) = <<job>>
  OBVIOUS
<1>5. proc'[p].queue = Append(q, job)
  BY DEF q
<1>6. Waiting(p) = {q[n] : n \in 1 .. Len(q)}
  BY DEF Waiting, q
<1>7. Waiting(p)' = {proc'[p].queue[n] : n \in 1 .. Len(proc'[p].queue)}
  BY DEF Waiting
<1>8. Waiting(p)' = Waiting(p) \cup {job}
  BY <1>3, <1>5, <1>6, <1>7
<1> QED BY <1>4, <1>5, <1>8 DEF q

LEMMA TakenWaits ==
  ASSUME TypeOK, NEW p \in Procs, proc[p].queue # << >>, proc'[p].queue = Tail(proc[p].queue)
  PROVE  /\ Waiting(p)' \subseteq Waiting(p) /\ Head(proc[p].queue) \in Waiting(p)
         /\ \A j : proc[p].queue = <<j>> => proc'[p].queue = << >> /\ Head(proc[p].queue) = j
<1> DEFINE q == proc[p].queue
<1>1. q \in Seq(Prompts) /\ q # << >>
  BY ProcessesAreTyped DEF ProcessType
<1> HIDE DEF q
<1>2. /\ Len(Tail(q)) = Len(q) - 1 /\ Len(q) \in Nat \ {0} /\ Head(q) = q[1]
      /\ \A n \in 1 .. Len(q) - 1 : Tail(q)[n] = q[n + 1] /\ n + 1 \in 1 .. Len(q)
  BY <1>1
<1>3. {Tail(q)[n] : n \in 1 .. Len(Tail(q))} \subseteq {q[n] : n \in 1 .. Len(q)}
  BY <1>2
<1>4. Head(q) \in {q[n] : n \in 1 .. Len(q)}
  BY <1>2
<1>5. \A j : q = <<j>> => Tail(q) = << >> /\ Head(q) = j
  OBVIOUS
<1> QED BY <1>3, <1>4, <1>5 DEF Waiting, q

\* A step at which no process takes, gets or ends anything.
LEMMA QuietSharing ==
  ASSUME Sharing, Dual, Dual', \A p \in Procs : Quiet(p),
         UNCHANGED <<pc, job, outcome, stale, mixed>>
  PROVE  Sharing'
<1>1. \A p \in Procs : Held(p)' = Held(p) /\ Waiting(p)' = Waiting(p)
  BY QuietHolds
<1>2. Holding' /\ Over'
  BY <1>1 DEF Sharing, Holding, Over, Quiet
<1>3. Alone'
  BY DEF Sharing, Alone, Fresh, Busy, Quiet
<1>4. InStep'
  BY Pairs DEF Sharing, InStep, Fresh, Quiet
<1> QED BY <1>2, <1>3, <1>4 DEF Sharing, FreshJobsMatch

\* A step of the handler that submits nothing, or fails to hand a prompt over.
LEMMA HandlerSharing ==
  ASSUME Sharing, TypeOK, Dual, Dual',
         \A p \in Procs : \/ Quiet(p)
                          \/ /\ Held(p)' \subseteq Held(p) \cup {job}
                             /\ Waiting(p)' \subseteq Waiting(p) \cup {job}
                             /\ proc'[p].running = proc[p].running /\ proc'[p].step = proc[p].step
                             /\ outcome' = [outcome EXCEPT ![job] = "error"],
         pc' \notin {"queue", "await"}, mixed' = mixed, stale \subseteq stale',
         \/ pc \notin {"queue", "await"} /\ UNCHANGED outcome
         \/ job \in Prompts /\ outcome' = [outcome EXCEPT ![job] = "error"]
  PROVE  Sharing'
<1>1. \A p \in Procs : Held(p) \subseteq Prompts \cup {NoJob} /\ Waiting(p) \subseteq Prompts
  BY HeldArePrompts
<1>2. \A p \in Procs :
        \/ Held(p)' = Held(p) /\ Waiting(p)' = Waiting(p)
        \/ /\ Held(p)' \subseteq Held(p) \cup {job} /\ Waiting(p)' \subseteq Waiting(p) \cup {job}
           /\ outcome' = [outcome EXCEPT ![job] = "error"]
  BY QuietHolds
<1>3. \A p \in Procs : proc'[p].running = proc[p].running /\ proc'[p].step = proc[p].step
  BY DEF Quiet
<1>4. outcome \in [Prompts -> {"none", "ok", "error"}] /\ mixed \subseteq Prompts
      /\ job \in Prompts \cup {NoJob}
  BY DEF TypeOK
<1>5. Holding'
  BY <1>1, <1>2, <1>4 DEF Sharing, Holding
<1>6. Over'
  BY <1>1, <1>2, <1>3, <1>4 DEF Sharing, Over
<1>7. FreshJobsMatch'
  BY <1>4 DEF Sharing, FreshJobsMatch
<1> QED BY <1>5, <1>6, <1>7 DEF Sharing, Alone, InStep, Fresh

\* A step that stops or launches ranks.
LEMMA EmptiedSharing ==
  ASSUME Sharing, TypeOK, Dual, Dual', pc \notin {"queue", "await"}, pc' \notin {"queue", "await"},
         \A p \in Procs :
           Quiet(p) \/ (Held(p)' = {NoJob} /\ Waiting(p)' = {} /\ proc'[p].running = NoJob),
         UNCHANGED <<stale, mixed>>,
         UNCHANGED outcome \/ (job \in Prompts /\ outcome' = [outcome EXCEPT ![job] = "error"])
  PROVE  Sharing'
<1>1. \A p \in Procs : Held(p) \subseteq Prompts \cup {NoJob} /\ Waiting(p) \subseteq Prompts
  BY HeldArePrompts
<1>2. \A p \in Procs : /\ Held(p)' \subseteq Held(p) \cup {NoJob} /\ Waiting(p)' \subseteq Waiting(p)
                       /\ \/ proc'[p].running = NoJob
                          \/ proc'[p].running = proc[p].running /\ proc'[p].step = proc[p].step
  BY QuietHolds DEF Quiet
<1>3. /\ outcome \in [Prompts -> {"none", "ok", "error"}] /\ mixed \subseteq Prompts
      /\ NoJob \notin Prompts
  BY PromptsAreNumbers DEF TypeOK
<1>4. Holding'
  BY <1>1, <1>2, <1>3 DEF Sharing, Holding
<1>5. Over'
  BY <1>1, <1>2, <1>3 DEF Sharing, Over
<1>6. FreshJobsMatch'
  BY <1>3 DEF Sharing, FreshJobsMatch
<1> QED BY <1>4, <1>5, <1>6 DEF Sharing, Alone, InStep, Fresh

\* A step of one process.
LEMMA OneSharing ==
  ASSUME Sharing, TypeOK, Dual, NEW p \in Procs, OnlyOne(p),
         Held(p)' \subseteq Held(p) \cup {NoJob}, Waiting(p)' \subseteq Waiting(p),
         \/ proc'[p].running = NoJob
         \/ proc'[p].running \in Waiting(p),
         UNCHANGED <<pc, job, outcome, stale, mixed>>
  PROVE  Holding' /\ Over' /\ FreshJobsMatch'
<1>1. \A k \in Procs : Held(k) \subseteq Prompts \cup {NoJob} /\ Waiting(k) \subseteq Prompts
  BY HeldArePrompts
<1>2. \A k \in Procs \ {p} : Held(k)' = Held(k) /\ Waiting(k)' = Waiting(k) /\ proc'[k] = proc[k]
  BY QuietHolds DEF OnlyOne, Quiet
<1>3. NoJob \notin Prompts
  BY PromptsAreNumbers
<1>4. Holding'
  BY <1>1, <1>2 DEF Sharing, Holding
<1>5. Over'
  BY <1>1, <1>2, <1>3 DEF Sharing, Over
<1> QED BY <1>4, <1>5 DEF Sharing, FreshJobsMatch

\* One rank has no collectives to meet in.
LEMMA SingleRanksDoNotMix == Typing /\ Sharing /\ ~Dual /\ [Next]_vars => Sharing'
<1> SUFFICES ASSUME Typing, Sharing, ~Dual, [Next]_vars PROVE Sharing'
  OBVIOUS
<1>1. \A a \in Attempts : ~Meet(a)
  BY Pairs DEF Meet, Typing, Blocking
<1>2. UNCHANGED <<world, mixed>>
  <2>1. ASSUME AlreadyUp PROVE UNCHANGED <<world, mixed>>
    BY <2>1 DEF AlreadyUp, Proceed, handlerVars, historyVars
  <2>2. ASSUME StartRanks PROVE UNCHANGED <<world, mixed>>
    BY <2>2 DEF StartRanks, BringUp, handlerVars, historyVars
  <2>3. ASSUME BroughtUp PROVE UNCHANGED <<world, mixed>>
    BY <2>3 DEF BroughtUp, Proceed, handlerVars, historyVars
  <2>4. ASSUME NextRung PROVE UNCHANGED <<world, mixed>>
    BY <2>4 DEF NextRung, BringUp, handlerVars, historyVars
  <2>5. ASSUME GroupCannotStart PROVE UNCHANGED <<world, mixed>>
    BY <2>5 DEF GroupCannotStart, handlerVars, historyVars
  <2>6. ASSUME RankCannotStart PROVE UNCHANGED <<world, mixed>>
    BY <2>6 DEF RankCannotStart, Proceed, handlerVars, historyVars
  <2>7. ASSUME QueueOnShadows PROVE UNCHANGED <<world, mixed>>
    BY <2>7 DEF QueueOnShadows, Fail, Goto, handlerVars, historyVars
  <2>8. ASSUME QueueOnRank0 PROVE UNCHANGED <<world, mixed>>
    BY <2>8 DEF QueueOnRank0, Fail, Goto, handlerVars, historyVars
  <2>9. ASSUME PromptSucceeded PROVE UNCHANGED <<world, mixed>>
    BY <2>9 DEF PromptSucceeded, handlerVars, historyVars
  <2>10. ASSUME PromptFailed PROVE UNCHANGED <<world, mixed>>
    BY <2>10 DEF PromptFailed, Fail, handlerVars, historyVars
  <2>11. ASSUME Finally PROVE UNCHANGED <<world, mixed>>
    BY <2>11 DEF Finally, handlerVars, historyVars
  <2>12. ASSUME JobTimesOut PROVE UNCHANGED <<world, mixed>>
    BY <2>12 DEF JobTimesOut, Fail, handlerVars, historyVars
  <2>13. ASSUME Shutdown PROVE UNCHANGED <<world, mixed>>
    BY <2>13 DEF Shutdown, handlerVars, historyVars
  <2>14. ASSUME NEW j \in Jobs, AcceptJob(j) PROVE UNCHANGED <<world, mixed>>
    BY <2>14 DEF AcceptJob, handlerVars, historyVars
  <2>15. ASSUME NEW a \in Attempts, JoinGroup(a) PROVE UNCHANGED <<world, mixed>>
    BY <2>15 DEF JoinGroup, procOnly, handlerVars, historyVars
  <2>16. ASSUME NEW a \in Attempts, Meet(a) PROVE UNCHANGED <<world, mixed>>
    BY <2>16, <1>1
  <2>17. ASSUME NEW p \in Procs, Serve(p) PROVE UNCHANGED <<world, mixed>>
    BY <2>17 DEF Serve, procOnly, handlerVars, historyVars
  <2>18. ASSUME NEW p \in Procs, Exit(p) PROVE UNCHANGED <<world, mixed>>
    BY <2>18 DEF Exit, procOnly, handlerVars, historyVars
  <2>19. ASSUME NEW p \in Procs, TakePrompt(p) PROVE UNCHANGED <<world, mixed>>
    BY <2>19 DEF TakePrompt, procOnly, handlerVars, historyVars
  <2>20. ASSUME NEW p \in Procs, EnterCollective(p) PROVE UNCHANGED <<world, mixed>>
    BY <2>20 DEF EnterCollective, procOnly, handlerVars, historyVars
  <2>21. ASSUME NEW p \in Procs, CollectiveTimesOut(p) PROVE UNCHANGED <<world, mixed>>
    BY <2>21 DEF CollectiveTimesOut, procOnly, handlerVars, historyVars
  <2>22. ASSUME NEW p \in Procs, PromptFails(p) PROVE UNCHANGED <<world, mixed>>
    BY <2>22 DEF PromptFails, procOnly, handlerVars, historyVars
  <2>23. ASSUME NEW p \in Procs, PromptEnds(p) PROVE UNCHANGED <<world, mixed>>
    BY <2>23 DEF PromptEnds, procOnly, handlerVars, historyVars
  <2>24. CASE UNCHANGED vars
    BY <2>24 DEF vars, handlerVars, historyVars
  <2> QED
    BY <2>1, <2>2, <2>3, <2>4, <2>5, <2>6, <2>7, <2>8, <2>9, <2>10, <2>11,
       <2>12, <2>13, <2>14, <2>15, <2>16, <2>17, <2>18, <2>19, <2>20, <2>21, <2>22,
       <2>23, <2>24
    DEF Next, Handler, Progress, Comfy, Execute
<1> QED BY <1>2 DEF Sharing, Dual

\* A prompt that ends at a process.
LEMMA EndingSharing ==
  ASSUME Typing, Grouping, Sharing, Dual, NEW p \in Procs,
         UNCHANGED <<world, pc, job, outcome, stale, mixed>>,
         OnlyOne(p), proc[p].running \in Prompts, proc'[p].running = NoJob,
         proc'[p].queue = proc[p].queue, proc'[p].step = proc[p].step,
         proc'[p].success \cup proc'[p].failed \subseteq
           proc[p].success \cup proc[p].failed \cup {proc[p].running},
         \/ proc'[p].success = proc[p].success
         \/ /\ proc'[p].success = proc[p].success \cup {proc[p].running}
            /\ proc[p].patched => proc[p].step = Collectives
  PROVE  Sharing'
<1>1. Waiting(p)' = Waiting(p)
  BY SameQueueSameWaiting
<1>2. Held(p)' \subseteq Held(p) \cup {NoJob}
  BY <1>1 DEF Held
<1>3. Holding' /\ Over' /\ FreshJobsMatch'
  BY <1>1, <1>2, OneSharing DEF Typing
<1>4. Fresh => /\ proc[p].running = job /\ proc[p].queue = << >> /\ job # NoJob
               /\ job \notin proc[p].success \cup proc[p].failed
               /\ pc = "queue" => Rank(p) # 0
  BY PromptsAreNumbers DEF Sharing, Alone, Busy
<1>5. Fresh => proc[p].patched /\ Collectives # 0
  <2>1. Serving(p)
    BY PromptsAreNumbers DEF Typing, Blocking
  <2>2. Collectives # 0
    BY CollectivesAssumption
  <2> QED BY <2>1, <2>2 DEF Fresh, Grouping, Serving, Alive
<1>6. Fresh /\ job \in proc'[p].success => proc[p].step = Collectives /\ pc # "queue"
  BY <1>4, <1>5 DEF Sharing, InStep
<1>7. Alone'
  BY <1>4, <1>6 DEF Sharing, Alone, Fresh, Busy, OnlyOne
<1>8. InStep'
  <2>1. \A k \in Procs : k # p => proc'[k] = proc[k] /\ (Peer(k) = p => k = Peer(p))
    BY Pairs DEF OnlyOne
  <2>2. ASSUME Fresh, NEW k \in Procs
        PROVE  /\ proc'[k].running = job /\ proc'[Peer(k)].running = job =>
                    proc'[k].step = proc'[Peer(k)].step
               /\ proc'[k].running = job /\ proc'[Peer(k)].queue # << >> => proc'[k].step = 0
               /\ proc'[k].running = job /\ pc = "queue" => proc'[k].step = 0
               /\ job \in proc'[k].success =>
                    /\ proc'[Peer(k)].queue = << >>
                    /\ proc'[Peer(k)].running = job => proc'[Peer(k)].step = Collectives
    <3>1. CASE k = p
      BY <1>4, <1>5, <1>6, <2>1, <2>2, <3>1, Pairs DEF Sharing, InStep
    <3>2. CASE k = Peer(p)
      BY <1>4, <2>1, <2>2, <3>2, Pairs DEF Sharing, InStep
    <3>3. CASE k # p /\ k # Peer(p)
      BY <2>1, <2>2, <3>3, Pairs DEF Sharing, InStep
    <3> QED BY <3>1, <3>2, <3>3
  <2> QED BY <2>2 DEF InStep, Fresh
<1> QED BY <1>3, <1>7, <1>8 DEF Sharing, Dual

\* Every step of a dual worker preserves it.
LEMMA DualSharing == Typing /\ Grouping /\ Grouping' /\ Sharing /\ Dual /\ [Next]_vars => Sharing'
<1> SUFFICES ASSUME Typing, Grouping, Grouping', Sharing, Dual, [Next]_vars PROVE Sharing'
  OBVIOUS
<1>a. /\ TypeOK /\ Blocking /\ Processes /\ launches \in Nat /\ Counting
      /\ pc \in {"shadows", "queue", "await", "finally"} => job # NoJob
      /\ job \in Prompts \cup {NoJob} /\ outcome \in [Prompts -> {"none", "ok", "error"}]
      /\ mixed \subseteq Prompts /\ NoJob \notin Prompts
  BY ProcessesOfTyping, PromptsAreNumbers DEF Typing, TypeOK
<1>b. UNCHANGED proc => \A p \in Procs : Quiet(p)
  BY DEF Quiet
<1>d. \A p \in Procs : Held(p) \subseteq Prompts \cup {NoJob} /\ Waiting(p) \subseteq Prompts
  BY <1>a, HeldArePrompts
<1>e. \A p \in Procs : proc'[p].running = NoJob /\ proc'[p].queue = << >> /\ proc'[p].success = {}
                       /\ proc'[p].failed = {} => Held(p)' = {NoJob} /\ Waiting(p)' = {}
  BY NoneWaits DEF Held
<1>f. Fresh => outcome[job] = "none" /\ job \in Prompts /\ job # NoJob
  BY <1>a DEF Fresh, Counting
<1>g. \A p \in Procs : ~Serving(p) => /\ proc[p].running = NoJob /\ proc[p].queue = << >>
                                      /\ proc[p].success = {} /\ proc[p].failed = {}
  BY <1>a DEF Blocking
<1>h. pc # "wait" => \A p \in Procs : proc[p].running # NoJob => proc[p].patched
  BY <1>g DEF Grouping, Serving, Alive
<1>1. ASSUME AlreadyUp PROVE Sharing'
  <2>1. /\ UNCHANGED <<world, proc, outcome, stale, mixed>>
        /\ pc \notin {"queue", "await"} /\ pc' \notin {"queue", "await"}
    BY <1>1 DEF AlreadyUp, Proceed, historyVars
  <2> QED BY <1>a, <1>b, <2>1, HandlerSharing DEF Dual
<1>2. ASSUME StartRanks PROVE Sharing'
  <2>1. /\ pc \notin {"queue", "await"} /\ pc' = "wait" /\ UNCHANGED <<world, outcome, stale, mixed>>
        /\ LeftToLaunchOver \in {proc, Without(Handles)} /\ BringUp(LeftToLaunchOver)
    BY <1>2 DEF StartRanks, BringUp, historyVars, LeftToLaunchOver
  <2>2. \A p \in Procs : \/ proc'[p] = proc[p]
                         \/ proc'[p] = Process("dead") \/ proc'[p] = Process("booting")
    BY <1>a, <2>1, Launching
  <2>3. /\ Process("dead").running = NoJob /\ Process("dead").queue = << >>
        /\ Process("dead").success = {} /\ Process("dead").failed = {}
        /\ Process("booting").running = NoJob /\ Process("booting").queue = << >>
        /\ Process("booting").success = {} /\ Process("booting").failed = {}
    BY AProcess DEF States
  <2>4. \A p \in Procs : Quiet(p) \/ (Held(p)' = {NoJob} /\ Waiting(p)' = {} /\ proc'[p].running = NoJob)
    BY <1>e, <2>2, <2>3 DEF Quiet
  <2> QED BY <1>a, <2>1, <2>4, EmptiedSharing DEF Dual
<1>3. ASSUME BroughtUp PROVE Sharing'
  <2>1. /\ UNCHANGED <<world, proc, outcome, stale, mixed>>
        /\ pc \notin {"queue", "await"} /\ pc' \notin {"queue", "await"}
    BY <1>3 DEF BroughtUp, Proceed, historyVars
  <2> QED BY <1>a, <1>b, <2>1, HandlerSharing DEF Dual
<1>4. ASSUME NextRung PROVE Sharing'
  <2>1. /\ pc \notin {"queue", "await"} /\ pc' = "wait" /\ UNCHANGED <<world, outcome, stale, mixed>>
        /\ Without(Handles) \in {proc, Without(Handles)} /\ BringUp(Without(Handles))
    BY <1>4 DEF NextRung, BringUp, historyVars, LeftToLaunchOver
  <2>2. \A p \in Procs : \/ proc'[p] = proc[p]
                         \/ proc'[p] = Process("dead") \/ proc'[p] = Process("booting")
    BY <1>a, <2>1, Launching
  <2>3. /\ Process("dead").running = NoJob /\ Process("dead").queue = << >>
        /\ Process("dead").success = {} /\ Process("dead").failed = {}
        /\ Process("booting").running = NoJob /\ Process("booting").queue = << >>
        /\ Process("booting").success = {} /\ Process("booting").failed = {}
    BY AProcess DEF States
  <2>4. \A p \in Procs : Quiet(p) \/ (Held(p)' = {NoJob} /\ Waiting(p)' = {} /\ proc'[p].running = NoJob)
    BY <1>e, <2>2, <2>3 DEF Quiet
  <2> QED BY <1>a, <2>1, <2>4, EmptiedSharing DEF Dual
<1>5. ASSUME GroupCannotStart PROVE Sharing'
  <2>1. /\ pc' \notin {"queue", "await"} /\ pc = "wait" /\ UNCHANGED <<world, stale, mixed>>
        /\ proc' = Without(Handles)
        /\ UNCHANGED outcome \/ (job \in Prompts /\ outcome' = [outcome EXCEPT ![job] = "error"])
    BY <1>5, <1>a DEF GroupCannotStart, historyVars
  <2>2. \A p \in Procs : \/ proc'[p] = proc[p]
                         \/ proc'[p] = Process("dead") \/ proc'[p] = Process("booting")
    BY <1>a, <2>1, Stopping DEF Stopped
  <2>3. /\ Process("dead").running = NoJob /\ Process("dead").queue = << >>
        /\ Process("dead").success = {} /\ Process("dead").failed = {}
        /\ Process("booting").running = NoJob /\ Process("booting").queue = << >>
        /\ Process("booting").success = {} /\ Process("booting").failed = {}
    BY AProcess DEF States
  <2>4. \A p \in Procs : Quiet(p) \/ (Held(p)' = {NoJob} /\ Waiting(p)' = {} /\ proc'[p].running = NoJob)
    BY <1>e, <2>2, <2>3 DEF Quiet
  <2> QED BY <1>a, <2>1, <2>4, EmptiedSharing DEF Dual
<1>6. ASSUME RankCannotStart PROVE Sharing'
  BY <1>6 DEF RankCannotStart
<1>7. ASSUME QueueOnShadows PROVE Sharing'
  <2>1. /\ pc = "shadows" /\ job \in Prompts /\ outcome[job] = "none" /\ mixed' = mixed
        /\ stale' = IF \E p \in Procs : Busy(p) THEN stale \cup {job} ELSE stale
        /\ stale \subseteq stale'
    BY <1>7, <1>a DEF QueueOnShadows, Counting
  <2>2. ASSUME UNCHANGED proc \/ proc' = Submitted(1), NEW p \in Procs
        PROVE  /\ Quiet(p) \/ (p \in Holders(1) /\ proc'[p].queue = Append(proc[p].queue, job))
               /\ Held(p)' \subseteq Held(p) \cup {job} /\ Waiting(p)' \subseteq Waiting(p) \cup {job}
               /\ proc'[p].running = proc[p].running /\ proc'[p].step = proc[p].step
               /\ proc'[p].success = proc[p].success /\ proc'[p].failed = proc[p].failed
               /\ Quiet(p) \/ (Rank(p) = 1 /\ (proc[p].queue = << >> => proc'[p].queue = <<job>>))
    <3>1. Quiet(p) \/ (p \in Holders(1) /\ Handed(p))
      BY <1>a, <1>b, <2>1, <2>2, Submitting DEF Untouched, Quiet
    <3>2. CASE Quiet(p)
      BY <3>2, QuietHolds DEF Quiet
    <3>3. CASE p \in Holders(1) /\ Handed(p)
      <4>1. Rank(p) = 1 /\ job \in Prompts
        BY <1>a, <2>1, <3>3 DEF Holders
      <4>2. /\ Waiting(p)' = Waiting(p) \cup {job} /\ (proc[p].queue = << >> => proc'[p].queue = <<job>>)
        BY <1>a, <3>3, <4>1, HandedWaits DEF Handed
      <4> QED BY <3>3, <4>1, <4>2 DEF Handed, Held
    <3> QED BY <3>1, <3>2, <3>3
  <2>3. CASE Fail /\ (UNCHANGED proc \/ proc' = Submitted(1))
    <3>1. pc' = "finally" /\ outcome' = [outcome EXCEPT ![job] = "error"] /\ UNCHANGED world
      BY <2>3 DEF Fail
    <3>2. \A p \in Procs : /\ Held(p)' \subseteq Held(p) \cup {job}
                           /\ Waiting(p)' \subseteq Waiting(p) \cup {job}
                           /\ proc'[p].running = proc[p].running /\ proc'[p].step = proc[p].step
      BY <2>2, <2>3
    <3> QED BY <1>a, <2>1, <3>1, <3>2, HandlerSharing DEF Dual
  <2>4. CASE Goto("queue") /\ proc' = Submitted(1)
    <3>1. pc' = "queue" /\ UNCHANGED <<world, job, outcome>>
      BY <2>4 DEF Goto
    <3>2. \A p \in Procs :
            /\ Held(p)' \subseteq Held(p) \cup {job} /\ Waiting(p)' \subseteq Waiting(p) \cup {job}
            /\ proc'[p].running = proc[p].running /\ proc'[p].step = proc[p].step
            /\ proc'[p].success = proc[p].success /\ proc'[p].failed = proc[p].failed
            /\ Quiet(p) \/ (Rank(p) = 1 /\ (proc[p].queue = << >> => proc'[p].queue = <<job>>))
      BY <2>2, <2>4
    <3>3. \A p \in Procs : \A j \in Held(p) : j = NoJob \/ outcome[j] # "none"
      BY <2>1 DEF Sharing, Holding
    <3>4. \A p \in Procs : job \notin proc[p].success \cup proc[p].failed
      BY <2>1, <1>a, <3>3 DEF Held
    <3>5. Holding'
      BY <3>1, <3>2, <3>3 DEF Holding
    <3>6. Fresh' => \A p \in Procs : proc[p].running = NoJob /\ proc[p].queue = << >>
      BY <2>1, <3>1 DEF Fresh, Busy
    <3>7. Alone'
      <4>1. \A p \in Procs : job \notin proc'[p].success \cup proc'[p].failed
        BY <3>2, <3>4
      <4>2. ASSUME Fresh', NEW p \in Procs
            PROVE  /\ proc'[p].running = NoJob
                   /\ proc'[p].queue \in {<< >>, <<job>>}
                   /\ Rank(p) = 0 => proc'[p].queue = << >>
        <5>1. proc[p].running = NoJob /\ proc[p].queue = << >>
          BY <3>6, <4>2
        <5>2. \/ proc'[p].queue = << >>
              \/ Rank(p) # 0 /\ proc'[p].queue = <<job>>
          <6>1. proc'[p].queue = << >> \/ (Rank(p) = 1 /\ proc'[p].queue = <<job>>)
            BY <3>2, <5>1 DEF Quiet
          <6>2. Rank(p) = 1 => Rank(p) # 0
            OBVIOUS
          <6> QED BY <6>1, <6>2
        <5>3. proc'[p].running = NoJob
          BY <3>2, <5>1
        <5> QED BY <5>2, <5>3, Zenon
      <4> QED BY <3>1, <4>1, <4>2 DEF Alone, Busy
    <3>8. InStep'
      BY <1>a, <2>1, <3>1, <3>2, <3>4, <3>6, Pairs DEF InStep
    <3>9. Over'
      BY <2>1, <3>1, <3>2 DEF Sharing, Over
    <3> QED BY <2>1, <3>1, <3>5, <3>7, <3>8, <3>9 DEF Sharing, FreshJobsMatch, Dual
  <2> QED BY <1>7, <2>3, <2>4 DEF QueueOnShadows
<1>8. ASSUME QueueOnRank0 PROVE Sharing'
  <2>1. /\ pc = "queue" /\ job \in Prompts /\ outcome[job] = "none" /\ UNCHANGED <<stale, mixed>>
    BY <1>8, <1>a DEF QueueOnRank0, Counting, historyVars
  <2>2. ASSUME UNCHANGED proc \/ proc' = Submitted(0), NEW p \in Procs
        PROVE  /\ Quiet(p) \/ (p \in Holders(0) /\ proc'[p].queue = Append(proc[p].queue, job))
               /\ Held(p)' \subseteq Held(p) \cup {job} /\ Waiting(p)' \subseteq Waiting(p) \cup {job}
               /\ proc'[p].running = proc[p].running /\ proc'[p].step = proc[p].step
               /\ proc'[p].success = proc[p].success /\ proc'[p].failed = proc[p].failed
               /\ Quiet(p) \/ (Rank(p) = 0 /\ (proc[p].queue = << >> => proc'[p].queue = <<job>>))
    <3>1. Quiet(p) \/ (p \in Holders(0) /\ Handed(p))
      BY <1>a, <1>b, <2>1, <2>2, Submitting DEF Untouched, Quiet
    <3>2. CASE Quiet(p)
      BY <3>2, QuietHolds DEF Quiet
    <3>3. CASE p \in Holders(0) /\ Handed(p)
      <4>1. Rank(p) = 0 /\ job \in Prompts
        BY <1>a, <2>1, <3>3 DEF Holders
      <4>2. /\ Waiting(p)' = Waiting(p) \cup {job} /\ (proc[p].queue = << >> => proc'[p].queue = <<job>>)
        BY <1>a, <3>3, <4>1, HandedWaits DEF Handed
      <4> QED BY <3>3, <4>1, <4>2 DEF Handed, Held
    <3> QED BY <3>1, <3>2, <3>3
  <2>3. CASE Fail /\ (UNCHANGED proc \/ proc' = Submitted(0))
    <3>1. pc' = "finally" /\ outcome' = [outcome EXCEPT ![job] = "error"] /\ UNCHANGED world
      BY <2>3 DEF Fail
    <3>2. \A p \in Procs : /\ Held(p)' \subseteq Held(p) \cup {job}
                           /\ Waiting(p)' \subseteq Waiting(p) \cup {job}
                           /\ proc'[p].running = proc[p].running /\ proc'[p].step = proc[p].step
      BY <2>2, <2>3
    <3> QED BY <1>a, <2>1, <3>1, <3>2, HandlerSharing DEF Dual
  <2>4. CASE Goto("await") /\ proc' = Submitted(0)
    <3>1. pc' = "await" /\ UNCHANGED <<world, job, outcome>>
      BY <2>4 DEF Goto
    <3>2. \A p \in Procs :
            /\ Held(p)' \subseteq Held(p) \cup {job} /\ Waiting(p)' \subseteq Waiting(p) \cup {job}
            /\ proc'[p].running = proc[p].running /\ proc'[p].step = proc[p].step
            /\ proc'[p].success = proc[p].success /\ proc'[p].failed = proc[p].failed
            /\ Quiet(p) \/ (Rank(p) = 0 /\ (proc[p].queue = << >> => proc'[p].queue = <<job>>))
      BY <2>2, <2>4
    <3>4. Fresh' => Fresh /\ job # NoJob
      BY <1>a, <2>1, <3>1 DEF Fresh
    <3>5. Holding'
      BY <2>1, <3>1, <3>2 DEF Sharing, Holding
    <3>6. Fresh => \A p \in Procs :
            /\ job \notin proc[p].success
            /\ proc[p].running = job => proc[p].step = 0
            /\ Rank(p) = 0 => /\ proc[p].running = NoJob /\ proc[p].queue = << >>
                              /\ job \notin proc[p].failed
      BY <2>1 DEF Sharing, Alone, InStep, Busy
    <3>7. Alone'
      BY <2>1, <3>1, <3>2, <3>4, <3>6 DEF Sharing, Alone, Busy, Quiet
    <3>8. InStep'
      BY <2>1, <3>1, <3>2, <3>4, <3>6, Pairs DEF Sharing, InStep
    <3>9. Over'
      BY <2>1, <3>1, <3>2 DEF Sharing, Over
    <3> QED BY <2>1, <3>1, <3>5, <3>7, <3>8, <3>9 DEF Sharing, FreshJobsMatch, Dual
  <2> QED BY <1>8, <2>3, <2>4 DEF QueueOnRank0
<1>9. ASSUME PromptSucceeded PROVE Sharing'
  <2>1. /\ UNCHANGED <<world, stale, mixed, proc>> /\ pc = "await" /\ pc' = "finally"
        /\ job \in Prompts /\ outcome' = [outcome EXCEPT ![job] = "ok"] /\ outcome[job] = "none"
    BY <1>9, <1>a DEF PromptSucceeded, historyVars, Counting
  <2>2. PICK h \in Holders(0) : job \in proc[h].success
    BY <1>9 DEF PromptSucceeded
  <2>3. h \in Procs /\ Serving(h) /\ Alive(h)
    BY <2>2 DEF Holders, Serving, Alive
  <2>4. \A p \in Procs : Held(p)' = Held(p) /\ Waiting(p)' = Waiting(p)
    BY <1>b, <2>1, QuietHolds
  <2>5. Holding'
    BY <1>a, <1>d, <2>1, <2>4 DEF Sharing, Holding
  <2>6. ASSUME job \notin stale, NEW p \in Procs
        PROVE  job \notin Waiting(p) /\ (proc[p].running = job => proc[p].step = Collectives)
    <3>0. Fresh /\ job # NoJob
      BY <1>f, <2>1, <2>6 DEF Fresh
    <3>1. CASE ~Alive(p)
      <4>1. ~Serving(p)
        BY <3>1 DEF Alive, Serving
      <4> QED BY <1>g, <3>0, <4>1, NoneWaits
    <3>2. CASE Alive(p)
      <4>1. p = h \/ p = Peer(h)
        BY <2>3, <3>2, Pairs DEF Grouping
      <4>2. CASE p = h
        BY <2>2, <2>3, <3>0, <4>2, NoneWaits DEF Sharing, Alone, Busy
      <4>3. CASE p = Peer(h)
        BY <2>2, <2>3, <3>0, <4>3, NoneWaits DEF Sharing, InStep
      <4> QED BY <4>1, <4>2, <4>3
    <3> QED BY <3>1, <3>2
  <2>7. Over'
    BY <1>a, <2>1, <2>4, <2>6 DEF Sharing, Over
  <2>8. FreshJobsMatch'
    BY <1>a, <2>1 DEF Sharing, FreshJobsMatch
  <2> QED BY <2>1, <2>5, <2>7, <2>8 DEF Sharing, Alone, InStep, Fresh, Dual
<1>10. ASSUME PromptFailed PROVE Sharing'
  <2>1. /\ UNCHANGED <<world, stale, mixed>> /\ pc = "await" /\ pc' = "finally"
        /\ job \in Prompts /\ outcome' = [outcome EXCEPT ![job] = "error"]
        /\ UNCHANGED proc \/ \E R : proc' = Interrupted(R)
    BY <1>10, <1>a DEF PromptFailed, Fail, historyVars
  <2>2. \A p \in Procs : Quiet(p)
    BY <1>a, <1>b, <2>1, Interrupting DEF Untouched, Quiet
  <2> QED BY <1>a, <2>1, <2>2, HandlerSharing DEF Dual
<1>11. ASSUME Finally PROVE Sharing'
  <2>1. /\ UNCHANGED <<world, outcome, stale, mixed>> /\ pc = "finally" /\ pc' = "idle"
        /\ UNCHANGED proc \/ \E R : proc' = Interrupted(R)
    BY <1>11 DEF Finally, historyVars
  <2>2. \A p \in Procs : Quiet(p)
    BY <1>a, <1>b, <2>1, Interrupting DEF Untouched, Quiet
  <2> QED BY <1>a, <2>1, <2>2, HandlerSharing DEF Dual
<1>12. ASSUME JobTimesOut PROVE Sharing'
  <2>1. /\ UNCHANGED <<world, stale, mixed>> /\ pc = "await" /\ pc' = "finally"
        /\ job \in Prompts /\ outcome' = [outcome EXCEPT ![job] = "error"]
        /\ UNCHANGED proc \/ \E R : proc' = Interrupted(R)
    BY <1>12, <1>a DEF JobTimesOut, Fail, historyVars
  <2>2. \A p \in Procs : Quiet(p)
    BY <1>a, <1>b, <2>1, Interrupting DEF Untouched, Quiet
  <2> QED BY <1>a, <2>1, <2>2, HandlerSharing DEF Dual
<1>13. ASSUME Shutdown PROVE Sharing'
  <2>1. /\ pc' = "exited" /\ UNCHANGED <<world, outcome, stale, mixed>> /\ proc' = Without(Handles)
    BY <1>13 DEF Shutdown, historyVars
  <2>2. Processes'
    BY StepProcesses
  <2>3. \A p \in Procs : ~Alive(p)' /\ ~Serving(p)'
    BY <2>1 DEF Grouping, Alive, Serving, Dual
  <2>4. \A p \in Procs : /\ proc'[p].running = NoJob /\ proc'[p].queue = << >>
                         /\ proc'[p].success = {} /\ proc'[p].failed = {}
    BY <2>2, <2>3 DEF Processes, Blocking, Serving
  <2>5. \A p \in Procs : Held(p)' = {NoJob} /\ Waiting(p)' = {}
    BY <1>e, <2>4
  <2>6. Holding'
    BY <2>5 DEF Holding
  <2>7. Over'
    BY <1>a, <2>1, <2>4, <2>5 DEF Over
  <2> QED BY <2>1, <2>6, <2>7 DEF Sharing, Alone, InStep, Fresh, FreshJobsMatch, Dual
<1>14. ASSUME NEW j \in Jobs, AcceptJob(j) PROVE Sharing'
  <2>1. /\ UNCHANGED <<world, proc, outcome, stale, mixed>>
        /\ pc \notin {"queue", "await"} /\ pc' \notin {"queue", "await"}
    BY <1>14 DEF AcceptJob, historyVars
  <2> QED BY <1>a, <1>b, <2>1, HandlerSharing DEF Dual
<1>15. ASSUME NEW a \in Attempts, JoinGroup(a) PROVE Sharing'
  <2>1. UNCHANGED <<world, pc, job, outcome, stale, mixed>>
    BY <1>15 DEF JoinGroup, procOnly, handlerVars, historyVars
  <2>2. \A k \in Procs : Quiet(k)
    BY <1>15, <1>a, Joining DEF Quiet, OnlyOne
  <2> QED BY <2>1, <2>2, QuietSharing DEF Dual
<1>16. ASSUME NEW a \in Attempts, Meet(a) PROVE Sharing'
  <2>1. UNCHANGED <<world, pc, job, outcome, stale>>
    BY <1>16 DEF Meet, handlerVars
  <2>2. \A k \in Procs :
          IF Attempt(k) # a THEN proc'[k] = proc[k]
          ELSE /\ proc[k].stuck
               /\ proc'[k].step = proc[k].step + 1
               /\ proc'[k].running = proc[k].running /\ proc'[k].queue = proc[k].queue
               /\ proc'[k].success = proc[k].success /\ proc'[k].failed = proc[k].failed
    BY <1>16, <1>a, Meeting
  <2>3. \A k \in Procs : /\ Held(k)' = Held(k) /\ Waiting(k)' = Waiting(k)
                         /\ proc'[k].running = proc[k].running /\ proc'[k].queue = proc[k].queue
                         /\ proc'[k].success = proc[k].success /\ proc'[k].failed = proc[k].failed
    BY <2>2, SameQueueSameWaiting DEF Held
  <2>4. \A k \in Procs : Attempt(k) = a => proc[k].running # NoJob /\ proc[k].step < Collectives
    BY <1>a, <2>2 DEF Blocking
  <2>5. Fresh => /\ pc # "queue"
                 /\ \A k \in Procs : Attempt(k) = a =>
                      /\ proc[k].running = job /\ proc[k].queue = << >> /\ job \notin proc[k].success
                      /\ proc[k].step = proc[Peer(k)].step
    <3>1. Fresh => \A k \in Procs : Attempt(k) = a =>
                     proc[k].running = job /\ proc[k].queue = << >> /\ job \notin proc[k].success
      BY <2>4 DEF Sharing, Alone, Busy
    <3>2. Fresh => \A k \in Procs : Attempt(k) = a => proc[k].step = proc[Peer(k)].step
      BY <3>1, Pairs DEF Sharing, InStep
    <3>3. Fresh => pc # "queue"
      <4>1. <<a, 0>> \in Procs /\ Attempt(<<a, 0>>) = a /\ Rank(<<a, 0>>) = 0
        BY Pairs DEF Rank
      <4> QED BY <2>4, <4>1 DEF Sharing, Alone, Busy
    <3> QED BY <3>1, <3>2, <3>3
  <2>6. Holding'
    BY <2>1, <2>3 DEF Sharing, Holding
  <2>7. Alone'
    BY <2>1, <2>3 DEF Sharing, Alone, Fresh, Busy
  <2>8. InStep'
    <3>1. ASSUME Fresh, NEW k \in Procs
          PROVE  /\ proc'[k].running = job /\ proc'[Peer(k)].running = job =>
                       proc'[k].step = proc'[Peer(k)].step
                 /\ proc'[k].running = job /\ proc'[Peer(k)].queue # << >> => proc'[k].step = 0
                 /\ proc'[k].running = job /\ pc = "queue" => proc'[k].step = 0
                 /\ job \in proc'[k].success =>
                       /\ proc'[Peer(k)].queue = << >>
                       /\ proc'[Peer(k)].running = job => proc'[Peer(k)].step = Collectives
      <4>1. Peer(k) \in Procs /\ Attempt(Peer(k)) = Attempt(k)
        BY Pairs
      <4>2. CASE Attempt(k) = a
        BY <2>2, <2>5, <3>1, <4>1, <4>2
      <4>3. CASE Attempt(k) # a
        BY <2>2, <3>1, <4>1, <4>3 DEF Sharing, InStep
      <4> QED BY <4>2, <4>3
    <3> QED BY <2>1, <3>1 DEF InStep, Fresh
  <2>9. Over'
    <3>1. ASSUME NEW j \in Prompts \ stale, outcome[j] = "ok", NEW k \in Procs
          PROVE  j \notin Waiting(k)' /\ (proc'[k].running = j => proc'[k].step = Collectives)
      <4>1. j \notin Waiting(k) /\ (proc[k].running = j => proc[k].step = Collectives)
        BY <3>1 DEF Sharing, Over
      <4>2. Attempt(k) = a => proc[k].running # j
        <5>1. proc[k].step \in Nat /\ Collectives \in Nat
          BY <1>a, CollectivesAssumption DEF Processes, ProcessType
        <5> QED BY <2>4, <4>1, <5>1
      <4> QED BY <2>2, <2>3, <4>1, <4>2
    <3> QED BY <2>1, <3>1 DEF Over
  <2>10. FreshJobsMatch'
    <3>1. ASSUME NEW k \in Procs, Attempt(k) = a, proc[k].running \notin stale,
                 outcome[proc[k].running] # "error"
          PROVE  Fresh
      <4>1. proc[k].running \in Prompts
        BY <1>a, <2>4, <3>1 DEF Processes, ProcessType
      <4>2. proc[k].step \in Nat /\ Collectives \in Nat /\ proc[k].step < Collectives
        BY <1>a, <2>4, <3>1, CollectivesAssumption DEF Processes, ProcessType
      <4>3. outcome[proc[k].running] = "none"
        <5>1. outcome[proc[k].running] # "ok"
          BY <3>1, <4>1, <4>2 DEF Sharing, Over
        <5> QED BY <1>a, <3>1, <4>1, <5>1
      <4>4. proc[k].running \in Held(k)
        BY DEF Held
      <4> QED BY <2>4, <3>1, <4>3, <4>4 DEF Sharing, Holding, Fresh
    <3> DEFINE p == <<a, 0>>
               q == <<a, 1>>
    <3>2. /\ p \in Procs /\ q \in Procs /\ Attempt(p) = a /\ Attempt(q) = a /\ Peer(p) = q
      BY Pairs
    <3>3. mixed' = IF proc[p].running = proc[q].running /\ proc[p].step = proc[q].step
                     THEN mixed ELSE mixed \cup {proc[p].running, proc[q].running}
      BY <1>16 DEF Meet
    <3> HIDE DEF p, q
    <3>4. Fresh => mixed' = mixed
      BY <2>5, <3>2, <3>3
    <3>5. ASSUME NEW j \in mixed' \ stale, outcome[j] # "error" PROVE FALSE
      <4>1. j \in mixed \/ j = proc[p].running \/ j = proc[q].running
        BY <3>3, <3>5
      <4>2. j \notin mixed
        BY <3>5 DEF Sharing, FreshJobsMatch
      <4>3. Fresh
        BY <3>1, <3>2, <3>5, <4>1, <4>2
      <4> QED BY <3>4, <3>5, <4>2, <4>3
    <3> QED BY <2>1, <3>5 DEF FreshJobsMatch
  <2> QED BY <2>1, <2>6, <2>7, <2>8, <2>9, <2>10 DEF Sharing, Dual
<1>17. ASSUME NEW p \in Procs, Serve(p) PROVE Sharing'
  <2>1. UNCHANGED <<world, pc, job, outcome, stale, mixed>>
    BY <1>17 DEF Serve, procOnly, handlerVars, historyVars
  <2>2. \A k \in Procs : Quiet(k)
    BY <1>17, <1>a, Binding DEF Quiet, OnlyOne
  <2> QED BY <2>1, <2>2, QuietSharing DEF Dual
<1>18. ASSUME NEW p \in Procs, Exit(p) PROVE Sharing'
  <2>1. UNCHANGED <<world, pc, job, outcome, stale, mixed>>
    BY <1>18 DEF Exit, procOnly, handlerVars, historyVars
  <2>2. OnlyOne(p) /\ proc'[p] = Process("dead") /\ "dead" \in States
    BY <1>18, <1>a, Leaving DEF States
  <2>3. /\ proc'[p].running = NoJob /\ proc'[p].queue = << >>
        /\ proc'[p].success = {} /\ proc'[p].failed = {}
    BY <2>2, AProcess
  <2>4. Held(p)' = {NoJob} /\ Waiting(p)' = {}
    BY <1>e, <2>3
  <2>5. Holding' /\ Over' /\ FreshJobsMatch'
    BY <1>a, <2>1, <2>2, <2>3, <2>4, OneSharing
  <2>6. Alone'
    BY <2>1, <2>2, <2>3 DEF Sharing, Alone, Fresh, Busy, OnlyOne
  <2>7. InStep'
    <3>1. Fresh => job # NoJob
      BY <1>f
    <3> QED BY <2>1, <2>2, <2>3, <3>1, Pairs DEF Sharing, InStep, Fresh, OnlyOne
  <2> QED BY <2>1, <2>5, <2>6, <2>7 DEF Sharing, Dual
<1>19. ASSUME NEW p \in Procs, TakePrompt(p) PROVE Sharing'
  <2>1. UNCHANGED <<world, pc, job, outcome, stale, mixed>>
    BY <1>19 DEF TakePrompt, procOnly, handlerVars, historyVars
  <2>2. /\ OnlyOne(p)
        /\ proc[p].running = NoJob /\ proc[p].queue # << >>
        /\ proc'[p].running = Head(proc[p].queue) /\ proc'[p].queue = Tail(proc[p].queue)
        /\ proc'[p].running \in Prompts /\ proc'[p].step = 0
        /\ proc'[p].success = proc[p].success /\ proc'[p].failed = proc[p].failed
    BY <1>19, <1>a, Taking
  <2>3. /\ Waiting(p)' \subseteq Waiting(p) /\ proc'[p].running \in Waiting(p)
        /\ proc[p].queue = <<job>> => proc'[p].queue = << >> /\ proc'[p].running = job
    BY <1>a, <2>2, TakenWaits
  <2>4. Held(p)' \subseteq Held(p)
    BY <2>2, <2>3 DEF Held
  <2>5. Holding' /\ Over' /\ FreshJobsMatch'
    BY <1>a, <2>1, <2>2, <2>3, <2>4, OneSharing
  <2>6. Fresh => /\ proc'[p].queue = << >> /\ proc'[p].running = job
                 /\ job \notin proc[p].success \cup proc[p].failed
                 /\ pc = "queue" => Rank(p) # 0
    BY <2>2, <2>3 DEF Sharing, Alone, Busy
  <2>7. Alone'
    BY <2>1, <2>2, <2>6 DEF Sharing, Alone, Fresh, Busy, OnlyOne
  <2>8. InStep'
    <3>1. Fresh => /\ proc[Peer(p)].running = job => proc[Peer(p)].step = 0
                   /\ job \notin proc[Peer(p)].success
      BY <2>2, Pairs DEF Sharing, InStep
    <3>2. OnlyOne(p) /\ proc'[p].step = 0 /\ proc'[p].success = proc[p].success
      BY <2>2
    <3>3. \A k \in Procs : k # p => proc'[k] = proc[k] /\ (Peer(k) = p => k = Peer(p))
      BY <3>2, Pairs DEF OnlyOne
    <3>4. ASSUME Fresh, NEW k \in Procs
          PROVE  /\ proc'[k].running = job /\ proc'[Peer(k)].running = job =>
                       proc'[k].step = proc'[Peer(k)].step
                 /\ proc'[k].running = job /\ proc'[Peer(k)].queue # << >> => proc'[k].step = 0
                 /\ proc'[k].running = job /\ pc = "queue" => proc'[k].step = 0
                 /\ job \in proc'[k].success =>
                       /\ proc'[Peer(k)].queue = << >>
                       /\ proc'[Peer(k)].running = job => proc'[Peer(k)].step = Collectives
      <4>1. CASE k = p
        BY <3>1, <3>2, <3>3, <3>4, <2>6, <4>1, Pairs
      <4>2. CASE k = Peer(p)
        BY <3>1, <3>2, <3>3, <3>4, <2>6, <4>2, Pairs DEF Sharing, InStep
      <4>3. CASE k # p /\ k # Peer(p)
        BY <3>3, <3>4, <4>3, Pairs DEF Sharing, InStep
      <4> QED BY <4>1, <4>2, <4>3
    <3> QED BY <2>1, <3>4 DEF InStep, Fresh
  <2> QED BY <2>1, <2>5, <2>7, <2>8 DEF Sharing, Dual
<1>20. ASSUME NEW p \in Procs, EnterCollective(p) PROVE Sharing'
  <2>1. UNCHANGED <<world, pc, job, outcome, stale, mixed>>
    BY <1>20 DEF EnterCollective, procOnly, handlerVars, historyVars
  <2>2. \A k \in Procs : Quiet(k)
    BY <1>20, <1>a, Entering DEF Quiet, OnlyOne
  <2> QED BY <2>1, <2>2, QuietSharing DEF Dual
<1>21. ASSUME NEW p \in Procs, CollectiveTimesOut(p) PROVE Sharing'
  <2>1. UNCHANGED <<world, pc, job, outcome, stale, mixed>>
    BY <1>21 DEF CollectiveTimesOut, procOnly, handlerVars, historyVars
  <2>2. /\ OnlyOne(p) /\ proc[p].running \in Prompts /\ proc'[p].running = NoJob
        /\ proc'[p].queue = proc[p].queue /\ proc'[p].step = proc[p].step
        /\ proc'[p].success \cup proc'[p].failed \subseteq
             proc[p].success \cup proc[p].failed \cup {proc[p].running}
        /\ \/ proc'[p].success = proc[p].success
           \/ /\ proc'[p].success = proc[p].success \cup {proc[p].running}
              /\ proc[p].patched => proc[p].step = Collectives
    BY <1>21, <1>a, Ending
  <2> QED BY <1>a, <2>1, <2>2, EndingSharing
<1>22. ASSUME NEW p \in Procs, PromptFails(p) PROVE Sharing'
  <2>1. UNCHANGED <<world, pc, job, outcome, stale, mixed>>
    BY <1>22 DEF PromptFails, procOnly, handlerVars, historyVars
  <2>2. /\ OnlyOne(p) /\ proc[p].running \in Prompts /\ proc'[p].running = NoJob
        /\ proc'[p].queue = proc[p].queue /\ proc'[p].step = proc[p].step
        /\ proc'[p].success \cup proc'[p].failed \subseteq
             proc[p].success \cup proc[p].failed \cup {proc[p].running}
        /\ \/ proc'[p].success = proc[p].success
           \/ /\ proc'[p].success = proc[p].success \cup {proc[p].running}
              /\ proc[p].patched => proc[p].step = Collectives
    BY <1>22, <1>a, Ending
  <2> QED BY <1>a, <2>1, <2>2, EndingSharing
<1>23. ASSUME NEW p \in Procs, PromptEnds(p) PROVE Sharing'
  <2>1. UNCHANGED <<world, pc, job, outcome, stale, mixed>>
    BY <1>23 DEF PromptEnds, procOnly, handlerVars, historyVars
  <2>2. /\ OnlyOne(p) /\ proc[p].running \in Prompts /\ proc'[p].running = NoJob
        /\ proc'[p].queue = proc[p].queue /\ proc'[p].step = proc[p].step
        /\ proc'[p].success \cup proc'[p].failed \subseteq
             proc[p].success \cup proc[p].failed \cup {proc[p].running}
        /\ \/ proc'[p].success = proc[p].success
           \/ /\ proc'[p].success = proc[p].success \cup {proc[p].running}
              /\ proc[p].patched => proc[p].step = Collectives
    BY <1>23, <1>a, Ending
  <2> QED BY <1>a, <2>1, <2>2, EndingSharing
<1>24. CASE UNCHANGED vars
  <2>1. UNCHANGED <<world, pc, job, outcome, stale, mixed, proc>>
    BY <1>24 DEF vars, handlerVars, historyVars
  <2> QED BY <1>b, <2>1, QuietSharing DEF Dual
<1> QED
  BY <1>1, <1>2, <1>3, <1>4, <1>5, <1>6, <1>7, <1>8, <1>9, <1>10, <1>11,
     <1>12, <1>13, <1>14, <1>15, <1>16, <1>17, <1>18, <1>19, <1>20, <1>21, <1>22,
     <1>23, <1>24
  DEF Next, Handler, Progress, Comfy, Execute

\* Every step preserves it.
LEMMA StepSharing ==
  ASSUME ~SlowAnswers PROVE Typing /\ Grouping /\ Sharing /\ [Next]_vars => Sharing'
BY StepGrouping, SingleRanksDoNotMix, DualSharing

\* A job that was submitted to idle ranks computes with its own tensors until it is
\* answered: whoever mixed them up was stale, or has failed.
THEOREM FreshJobsComputeTheirOwn ==
  ASSUME ~SlowAnswers PROVE Spec => []FreshJobsMatch
<1>1. Sharing => FreshJobsMatch
  BY DEF Sharing, FreshJobsMatch
<1> QED BY InitTyping, StepTyping, InitGrouping, StepGrouping, InitSharing, StepSharing, <1>1, PTL
        DEF Spec

=============================================================================

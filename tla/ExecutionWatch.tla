--------------------------- MODULE ExecutionWatch ---------------------------
(***************************************************************************)
(* await_execution of handler.py, the one statement at which JobHandler    *)
(* waits: the handler follows a prompt over ComfyUI's websocket and asks   *)
(* /history every five seconds, until one of them says it is over or       *)
(* H3_JOB_TIMEOUT has passed.                                              *)
(*                                                                         *)
(* The prompt is submitted before the socket is opened, so any frame, the  *)
(* last one too, may have been sent to nobody; the socket may break; and   *)
(* ComfyUI announces the end of a prompt before it records it.             *)
(***************************************************************************)
EXTENDS Naturals, Sequences

CONSTANTS
  Outputs,    \* files the prompt's Save* nodes may write
  MaxFrames,  \* frames ComfyUI sends while the prompt executes
  Job,        \* the job the prompt is for, in JobHandler
  NoJob,
  NoRequest

ASSUME MaxFramesAssumption == MaxFrames \in Nat

VARIABLES
  \* ComfyUI
  verdict,   \* how the prompt ended, once it has
  history,   \* what /history says of it
  written,   \* the files it has saved
  frames,    \* frames sent while it executed
  alive,     \* the process
  \* between them
  conn,      \* "none", or "open": the handler's socket
  wire,      \* frames on it, not received yet
  \* await_execution
  pc,
  due,       \* five seconds have passed since the last poll
  late,      \* the deadline has passed
  outcome,   \* "none", "ok", or why it raised
  \* the progress reporter and what it last said of the job
  believed,  \* reporter._phase
  phase      \* the public phase

vars == <<verdict, history, written, frames, alive, conn, wire, pc, due, late,
          outcome, believed, phase>>

comfyVars == <<verdict, history, written, frames, alive>>
reportVars == <<believed, phase>>

Running  == {"progress", "node", "decode", "binary"}
Verdicts == {"execution_success", "execution_error", "execution_interrupted"}
Final    == Verdicts \cup {"executing_none"}
Failures == {"timeout", "reported", "recorded", "unanswered", "unrecorded"}

TypeOK ==
  /\ verdict \in Verdicts \cup {"none"}
  /\ history \in {"none", "success", "error"}
  /\ written \subseteq Outputs
  /\ frames \in 0 .. MaxFrames
  /\ alive \in BOOLEAN
  /\ conn \in {"none", "open"}
  /\ wire \in Seq(Running \cup Final)
  /\ pc \in {"connect", "check", "recv", "poll", "final", "returned"}
  /\ due \in BOOLEAN
  /\ late \in BOOLEAN
  /\ outcome \in Failures \cup {"none", "ok"}
  /\ believed \in {"loading", "decoding"}
  /\ phase \in {"loading", "sampling", "decoding"}
  /\ outcome = "none" <=> pc # "returned"

\* queue_prompt has returned, and reporter.phase(PHASE_LOADING).
Init ==
  /\ verdict = "none"
  /\ history = "none"
  /\ written = {}
  /\ frames = 0
  /\ alive = TRUE
  /\ conn = "none"
  /\ wire = <<>>
  /\ pc = "connect"
  /\ due = TRUE
  /\ late = FALSE
  /\ outcome = "none"
  /\ believed = "loading"
  /\ phase = "loading"

-----------------------------------------------------------------------------
(* ComfyUI, as await_execution and its comments know it.                   *)

\* A frame for this client: lost unless it has a socket.
Send(frame) == wire' = IF conn = "open" THEN Append(wire, frame) ELSE wire

ComfyExecutes ==
  /\ alive
  /\ verdict = "none"
  /\ frames < MaxFrames
  /\ frames' = frames + 1
  /\ \E f \in Running : Send(f)
  /\ UNCHANGED <<verdict, history, written, alive, conn, pc, due, late, outcome, reportVars>>

ComfySaves ==
  /\ alive
  /\ verdict = "none"
  /\ \E o \in Outputs \ written : written' = written \cup {o}
  /\ UNCHANGED <<verdict, history, frames, alive, conn, wire, pc, due, late, outcome, reportVars>>

\* The end is announced ...
ComfyAnnounces ==
  /\ alive
  /\ verdict = "none"
  /\ \E v \in Verdicts : verdict' = v /\ Send(v)
  /\ UNCHANGED <<history, written, frames, alive, conn, pc, due, late, outcome, reportVars>>

\* ... and then recorded.
ComfyRecords ==
  /\ alive
  /\ verdict # "none"
  /\ history = "none"
  /\ history' = IF verdict = "execution_success" THEN "success" ELSE "error"
  /\ Send("executing_none")
  /\ UNCHANGED <<verdict, written, frames, alive, conn, pc, due, late, outcome, reportVars>>

\* The process dies. Whether the socket tells is up to it (RecvBreaks).
ComfyDies ==
  /\ alive
  /\ alive' = FALSE
  /\ UNCHANGED <<verdict, history, written, frames, conn, wire, pc, due, late, outcome, reportVars>>

ComfyStep ==
  ComfyExecutes \/ ComfySaves \/ ComfyAnnounces \/ ComfyRecords \/ ComfyDies

-----------------------------------------------------------------------------
(* await_execution.                                                        *)

timeVars == <<due, late>>

Return(result) ==
  /\ pc' = "returned"
  /\ outcome' = result
  /\ conn' = "none"
  /\ wire' = <<>>

Goto(step) == pc' = step /\ UNCHANGED outcome

Connect ==
  /\ pc = "connect"
  /\ \/ alive /\ conn' = "open"
     \/ UNCHANGED conn
  /\ Goto("check")
  /\ UNCHANGED <<comfyVars, wire, timeVars, reportVars>>

\* The head of the loop.
Check ==
  /\ pc = "check"
  /\ IF late
     THEN Return("timeout")
     ELSE /\ Goto(IF conn = "open" THEN "recv" ELSE "poll")
          /\ UNCHANGED <<conn, wire>>
  /\ UNCHANGED <<comfyVars, timeVars, reportVars>>

\* What a frame makes the reporter say: step() neither reads nor sets its phase.
Report(frame) ==
  CASE frame = "progress" ->
         /\ phase' = "sampling"
         /\ UNCHANGED believed
    [] frame = "decode" /\ believed # "decoding" ->
         /\ phase' = "decoding"
         /\ believed' = "decoding"
    [] OTHER -> UNCHANGED reportVars

\* A binary frame skips the poll.
RecvRunning ==
  /\ pc = "recv"
  /\ wire # <<>>
  /\ Head(wire) \in Running
  /\ wire' = Tail(wire)
  /\ Report(Head(wire))
  /\ Goto(IF Head(wire) = "binary" THEN "check" ELSE "poll")
  /\ UNCHANGED <<comfyVars, conn, timeVars>>

RecvFinal ==
  /\ pc = "recv"
  /\ wire # <<>>
  /\ Head(wire) \in Final
  /\ IF Head(wire) = "execution_error"
     THEN Return("reported")
     ELSE /\ Goto("final")
          /\ wire' = Tail(wire)
          /\ UNCHANGED conn
  /\ UNCHANGED <<comfyVars, timeVars, reportVars>>

\* WebSocketTimeoutException: the generation runs quietly.
RecvTimesOut ==
  /\ pc = "recv"
  /\ wire = <<>>
  /\ Goto("poll")
  /\ UNCHANGED <<comfyVars, conn, wire, timeVars, reportVars>>

\* Any other exception: from now on the history alone is asked.
RecvBreaks ==
  /\ pc = "recv"
  /\ conn' = "none"
  /\ wire' = <<>>
  /\ Goto("poll")
  /\ UNCHANGED <<comfyVars, timeVars, reportVars>>

\* Mutant of MustPoll: history is a fallback for a broken socket only.
MustPollWithoutSocket == due /\ conn = "none"

MustPoll == due

\* The poll at the end of the loop: a request that fails is not caught.
Poll ==
  /\ pc = "poll"
  /\ IF ~MustPoll
     THEN Goto("check") /\ UNCHANGED <<conn, wire, due>>
     ELSE /\ due' = FALSE
          /\ \/ Return("unanswered")
             \/ /\ alive
                /\ Goto(IF history # "none" THEN "final" ELSE "check")
                /\ UNCHANGED <<conn, wire>>
  /\ UNCHANGED <<comfyVars, late, reportVars>>

\* Mutant of Conclude: a history that says nothing is taken for a success.
ConcludeLeniently ==
  /\ pc = "final"
  /\ \/ Return("unanswered")
     \/ /\ alive
        /\ Return(IF history = "error" THEN "recorded" ELSE "ok")
  /\ UNCHANGED <<comfyVars, timeVars, reportVars>>

\* After the loop: the socket is closed and the history has the last word.
Conclude ==
  /\ pc = "final"
  /\ \/ Return("unanswered")
     \/ /\ alive
        /\ Return(CASE history = "none" -> "unrecorded"
                    [] history = "error" -> "recorded"
                    [] history = "success" -> "ok")
  /\ UNCHANGED <<comfyVars, timeVars, reportVars>>

HandlerStep ==
  \/ Connect \/ Check \/ RecvRunning \/ RecvFinal \/ RecvTimesOut \/ Poll \/ Conclude

-----------------------------------------------------------------------------
(* Time.                                                                   *)

FiveSeconds ==
  /\ ~due
  /\ due' = TRUE
  /\ UNCHANGED <<comfyVars, conn, wire, pc, late, outcome, reportVars>>

Deadline ==
  /\ ~late
  /\ late' = TRUE
  /\ UNCHANGED <<comfyVars, conn, wire, pc, due, outcome, reportVars>>

Next == ComfyStep \/ HandlerStep \/ RecvBreaks \/ FiveSeconds \/ Deadline

\* recv returns within WS_RECV_TIMEOUT and a GET within a minute, so the handler
\* goes on; the clock does. ComfyUI need not, and the deadline may be far away.
Spec == Init /\ [][Next]_vars /\ WF_vars(HandlerStep) /\ WF_vars(FiveSeconds)

-----------------------------------------------------------------------------
(* What await_execution promises handler().                                *)

\* The wait ends when the deadline passes, and does not last until then once the
\* history has an entry: whatever frames were sent before the socket was open,
\* lost when it broke or never sent.
Returns == late \/ history # "none" ~> outcome # "none"

\* The generation in whose handler() the wait takes place: nothing
\* but the prompt is left of it, and it is answered inline.
Request ==
  [kind |-> "workflow", confidential |-> FALSE, url |-> FALSE,
   keyframes |-> {}, refs |-> {}, loras |-> {}]

OfJob(value) == [j \in {Job} |-> value]

Saved(o) == [kind |-> "plain", job |-> Job, item |-> o]

Handler == INSTANCE JobHandler WITH
  Jobs        <- {Job},
  Keyframes   <- {},
  References  <- {},
  Loras       <- {},
  Requests    <- {Request},
  KeepOutputs <- FALSE,
  OutputMode  <- "base64",
  pc          <- CASE outcome = "none" -> "await"
                   [] outcome = "ok" -> "collect"
                   [] OTHER -> "finally",
  job         <- Job,
  asked       <- OfJob(Request),
  todo        <- IF outcome = "ok" THEN written ELSE {},
  known       <- {"staged_assets"},
  current     <- {},
  disk        <- {Saved(o) : o \in written},
  unshredded  <- {},
  remote      <- {},
  phase       <- OfJob(IF outcome \in Failures THEN "failed" ELSE phase),
  believed    <- IF outcome \in Failures THEN "failed" ELSE believed,
  result      <- OfJob(CASE outcome \in {"none", "ok"} -> "none"
                         [] outcome = "timeout" -> "timeout"
                         [] OTHER -> "execution"),
  prompt      <- OfJob(CASE history # "none" -> history
                         [] history = "none" /\ alive -> "queued"
                         [] OTHER -> "lost"),
  \* JobHandler's Outputs are this module's.
  written     <- OfJob(written)

\* JobHandler takes the wait for one statement that succeeds when the prompt has,
\* with all the files it saved, and may fail at any time. Frames and polls do no
\* more than that: no frame alone makes a success, no history entry counts
\* before it is final, and what the reporter says goes on in JobHandler's order.
RefinesAwait == [][Handler!Next]_(Handler!vars)
=============================================================================

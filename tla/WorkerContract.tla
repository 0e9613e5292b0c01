--------------------------- MODULE WorkerContract ---------------------------
(***************************************************************************)
(* What a warm worker promises to RunPod and to the clients of its jobs,   *)
(* whatever happens inside it: one job at a time, one answer to each,      *)
(* nothing sent but by the job being served, sealed if it was asked to be, *)
(* and success only for a job all of whose files were sent. JobHandler     *)
(* implements it.                                                          *)
(***************************************************************************)
CONSTANTS Jobs, Outputs, NoJob

VARIABLES
  serving,  \* the job being served, or NoJob
  kind,     \* [job -> what was asked for: nothing yet, a probe of the worker's
            \*   capabilities, or files, open or sealed]
  answer,   \* [job -> "none", "ok" or "error"]
  saved,    \* [job -> the files its prompt has saved]
  sent      \* [job -> what left the worker for it: pairs of a file and whether
            \*   it was sealed]

vars == <<serving, kind, answer, saved, sent>>

Init ==
  /\ serving = NoJob
  /\ kind = [j \in Jobs |-> "none"]
  /\ answer = [j \in Jobs |-> "none"]
  /\ saved = [j \in Jobs |-> {}]
  /\ sent = [j \in Jobs |-> {}]

Accept(j) ==
  /\ serving = NoJob
  /\ answer[j] = "none"
  /\ serving' = j
  /\ \E k \in {"probe", "open", "sealed"} : kind' = [kind EXCEPT ![j] = k]
  /\ UNCHANGED <<answer, saved, sent>>

\* An envelope that cannot be opened.
Refuse(j) ==
  /\ serving = NoJob
  /\ answer[j] = "none"
  /\ answer' = [answer EXCEPT ![j] = "error"]
  /\ UNCHANGED <<serving, kind, saved, sent>>

\* ComfyUI saves a file, for a job that was given up, too, but not for one that
\* was answered with success.
Save(j, o) ==
  /\ kind[j] \in {"open", "sealed"}
  /\ answer[j] # "ok"
  /\ saved' = [saved EXCEPT ![j] = @ \cup {o}]
  /\ UNCHANGED <<serving, kind, answer, sent>>

Unanswered(j) == serving = j /\ answer[j] = "none"

Parcels(j) == {p \in saved[j] \X BOOLEAN : kind[j] = "sealed" => p[2]}

Deliver(j) ==
  /\ Unanswered(j)
  /\ \E p \in Parcels(j) : sent' = [sent EXCEPT ![j] = @ \cup {p}]
  /\ UNCHANGED <<serving, kind, answer, saved>>

Succeed(j) ==
  /\ Unanswered(j)
  /\ kind[j] # "probe" =>
       /\ saved[j] # {}
       /\ \A o \in saved[j] : \E p \in sent[j] : p[1] = o
  /\ answer' = [answer EXCEPT ![j] = "ok"]
  /\ UNCHANGED <<serving, kind, saved, sent>>

\* The last parcel may have arrived without an acknowledgement.
GiveUp(j) ==
  /\ Unanswered(j)
  /\ answer' = [answer EXCEPT ![j] = "error"]
  /\ \/ UNCHANGED sent
     \/ \E p \in Parcels(j) : sent' = [sent EXCEPT ![j] = @ \cup {p}]
  /\ UNCHANGED <<serving, kind, saved>>

Leave(j) ==
  /\ serving = j
  /\ answer[j] # "none"
  /\ serving' = NoJob
  /\ UNCHANGED <<kind, answer, saved, sent>>

Next ==
  \E j \in Jobs :
    \/ Accept(j) \/ Refuse(j) \/ Deliver(j) \/ Succeed(j) \/ GiveUp(j) \/ Leave(j)
    \/ \E o \in Outputs : Save(j, o)

Spec == Init /\ [][Next]_vars
=============================================================================

-------------------------- MODULE JobHandler_proofs --------------------------
(***************************************************************************)
(* Machine-checked proofs about JobHandler, for any sets of jobs, assets,  *)
(* outputs and requests and for every setting of the worker.               *)
(***************************************************************************)
EXTENDS JobHandler, TLAPS

USE DEF FileOf, Items, Handles, FileKinds, Sources, Steps, PhaseSet, Causes,
        Prompts, Artefact, comfyVars, reportVars, handlerVars, Report

\* The request of the open job is one of Requests: OpenJob stores nothing else
\* and handler() is at "route" or beyond only with a job open.
Opened == pc # "idle" => req \in Requests

TypeInv == TypeOK /\ Opened

LEMMA InitTyping == Init => TypeInv
  BY NoJobAssumption DEF Init, TypeInv, TypeOK, Opened, File

\* Every action preserves the type invariant.
LEMMA StepTyping == TypeInv /\ [Next]_vars => TypeInv'
<1> SUFFICES ASSUME TypeInv, [Next]_vars PROVE TypeInv'
  OBVIOUS
<1> USE DEF TypeInv, TypeOK, Opened, req
<1> USE NoJobAssumption, RequestsAssumption, NoRequestAssumption
<1>1. ASSUME NEW j \in Jobs, NEW r \in Requests, OpenJob(j, r) PROVE TypeInv'
  BY <1>1 DEF OpenJob
<1>2. ASSUME NEW j \in Jobs, RefuseEnvelope(j) PROVE TypeInv'
  BY <1>2 DEF RefuseEnvelope
<1>3. CASE AnswerCapabilities BY <1>3 DEF AnswerCapabilities
<1>4. CASE RouteWorkflow BY <1>4 DEF RouteWorkflow, Goto
<1>5. CASE RoutePrivora BY <1>5 DEF RoutePrivora, Goto, Fail, RequestType
<1>6. CASE StageUserLora BY <1>6 DEF StageUserLora, File
<1>7. CASE PlanBuilt BY <1>7 DEF PlanBuilt, Goto, RequestType
<1>8. CASE LorasOrPlanFail BY <1>8 DEF LorasOrPlanFail, Fail
<1>9. CASE StageReference BY <1>9 DEF StageReference, File
<1>10. CASE PrivoraJobBuilt BY <1>10 DEF PrivoraJobBuilt, Goto
<1>11. CASE ReferencesFail BY <1>11 DEF ReferencesFail, Fail
<1>12. CASE BuildProtector
  BY <1>12 DEF BuildProtector, Fail, GotoReporting, RequestType
<1>13. CASE StageKeyframe BY <1>13 DEF StageKeyframe, File
<1>14. CASE KeyframesStaged BY <1>14 DEF KeyframesStaged, Goto
<1>15. CASE KeyframesFail BY <1>15 DEF KeyframesFail, Fail, File
<1>16. CASE StartComfyUI BY <1>16 DEF StartComfyUI, Fail, GotoReporting
<1>17. CASE QueuePrompt BY <1>17 DEF QueuePrompt, GotoReporting
<1>18. CASE QueuePromptFails BY <1>18 DEF QueuePromptFails, Fail
<1>19. CASE ExecutionSucceeds
  BY <1>19 DEF ExecutionSucceeds, Goto, GotoReporting
<1>20. CASE ExecutionFails BY <1>20 DEF ExecutionFails, Fail
<1>21. CASE ExecutionTimesOut BY <1>21 DEF ExecutionTimesOut, Fail
<1>22. CASE Fetch BY <1>22 DEF Fetch, File
<1>23. CASE FetchFails BY <1>23 DEF FetchFails, Fail
<1>24. CASE RefuseForeign BY <1>24 DEF RefuseForeign, Fail
<1>25. CASE PassThrough BY <1>25 DEF PassThrough, Goto
<1>26. CASE Encrypt BY <1>26 DEF Encrypt, Goto, FilesOf, File
<1>27. CASE EncryptFails BY <1>27 DEF EncryptFails, Fail
<1>28. CASE Store BY <1>28 DEF Store, Goto, Delivery, Via, ShreddedByStore, Discarded
<1>29. CASE StoreFails BY <1>29 DEF StoreFails, Fail, Delivery, Via
<1>30. CASE NoOutput BY <1>30 DEF NoOutput, Fail
<1>31. CASE Complete BY <1>31 DEF Complete
<1>32. CASE Finally BY <1>32 DEF Finally
<1>33. CASE ReportExecution BY <1>33 DEF ReportExecution
<1>34. CASE PollFails BY <1>34 DEF PollFails, Fail
<1>35. ASSUME NEW j \in Jobs, ComfyWrites(j) PROVE TypeInv'
  BY <1>35 DEF ComfyWrites, File
<1>36. ASSUME NEW j \in Jobs, ComfyFinishes(j) PROVE TypeInv'
  BY <1>36 DEF ComfyFinishes
<1>37. CASE ComfyExits BY <1>37 DEF ComfyExits
<1>38. CASE UNCHANGED vars BY <1>38 DEF vars
<1> QED
  BY <1>1, <1>2, <1>3, <1>4, <1>5, <1>6, <1>7, <1>8, <1>9, <1>10, <1>11, <1>12,
     <1>13, <1>14, <1>15, <1>16, <1>17, <1>18, <1>19, <1>20, <1>21, <1>22, <1>23,
     <1>24, <1>25, <1>26, <1>27, <1>28, <1>29, <1>30, <1>31, <1>32, <1>33, <1>34,
     <1>35, <1>36, <1>37, <1>38 DEF Next, HandlerStep, ComfyStep

\* The types hold for every value of the constants, and handler()'s locals live
\* exactly as long as its call.
THEOREM TypeCorrect == Spec => []TypeOK
<1>1. Spec => []TypeInv
  BY InitTyping, StepTyping, PTL DEF Spec
<1>2. TypeInv => TypeOK
  BY DEF TypeInv
<1> QED BY <1>1, <1>2, PTL

-----------------------------------------------------------------------------
(* Confidential artefacts.                                                 *)

Guarded == {"keyframes", "boot", "queue", "await", "collect", "store"}

\* What makes ConfidentialNeverPlain inductive: past build_protector_for_job a
\* confidential job has an upload endpoint; the output at store() has its
\* container; and only the open job or an answered one has delivered anything,
\* so a job's privacy mode is settled before anything of it leaves.
Sealing ==
  /\ pc \in Guarded /\ req.confidential => req.url
  /\ pc = "store" /\ req.confidential =>
       \A o \in current : File("cipher", job, o) \in disk
  /\ pc = "finally" => result[job] # "none"
  /\ \A a \in remote : a.job = job \/ result[a.job] # "none"

SealInv == TypeInv /\ ConfidentialNeverPlain /\ Sealing

LEMMA InitSealing == Init => SealInv
  BY InitTyping DEF Init, SealInv, ConfidentialNeverPlain, Sealing, Guarded

\* Every action preserves the sealing invariant.
LEMMA StepSealing == SealInv /\ [Next]_vars => SealInv'
<1> SUFFICES ASSUME SealInv, [Next]_vars
             PROVE  ConfidentialNeverPlain' /\ Sealing'
  BY StepTyping DEF SealInv
<1> USE NoJobAssumption, RequestsAssumption, NoRequestAssumption
<1> USE DEF SealInv, TypeInv, TypeOK, Opened, req, Confidential,
            ConfidentialNeverPlain, Sealing, Guarded
<1>1. ASSUME NEW j \in Jobs, NEW r \in Requests, OpenJob(j, r) PROVE ConfidentialNeverPlain' /\ Sealing'
  BY <1>1 DEF OpenJob
<1>2. ASSUME NEW j \in Jobs, RefuseEnvelope(j) PROVE ConfidentialNeverPlain' /\ Sealing'
  BY <1>2 DEF RefuseEnvelope
<1>3. CASE AnswerCapabilities BY <1>3 DEF AnswerCapabilities
<1>4. CASE RouteWorkflow BY <1>4 DEF RouteWorkflow, Goto
<1>5. CASE RoutePrivora BY <1>5 DEF RoutePrivora, Fail, Goto
<1>6. CASE StageUserLora BY <1>6 DEF StageUserLora
<1>7. CASE PlanBuilt BY <1>7 DEF PlanBuilt, Goto
<1>8. CASE LorasOrPlanFail BY <1>8 DEF LorasOrPlanFail, Fail
<1>9. CASE StageReference BY <1>9 DEF StageReference
<1>10. CASE PrivoraJobBuilt BY <1>10 DEF PrivoraJobBuilt, Goto
<1>11. CASE ReferencesFail BY <1>11 DEF ReferencesFail, Fail
<1>12. CASE BuildProtector BY <1>12 DEF BuildProtector, Fail, GotoReporting
<1>13. CASE StageKeyframe BY <1>13 DEF StageKeyframe
<1>14. CASE KeyframesStaged BY <1>14 DEF KeyframesStaged, Goto
<1>15. CASE KeyframesFail BY <1>15 DEF KeyframesFail, Fail, File
<1>16. CASE StartComfyUI BY <1>16 DEF StartComfyUI, Fail, GotoReporting
<1>17. CASE QueuePrompt BY <1>17 DEF QueuePrompt, GotoReporting
<1>18. CASE QueuePromptFails BY <1>18 DEF QueuePromptFails, Fail
<1>19. CASE ExecutionSucceeds
  BY <1>19 DEF ExecutionSucceeds, Goto, GotoReporting
<1>20. CASE ExecutionFails BY <1>20 DEF ExecutionFails, Fail
<1>21. CASE ExecutionTimesOut BY <1>21 DEF ExecutionTimesOut, Fail
<1>22. CASE Fetch BY <1>22 DEF Fetch
<1>23. CASE FetchFails BY <1>23 DEF FetchFails, Fail
<1>24. CASE RefuseForeign BY <1>24 DEF RefuseForeign, Fail
<1>25. CASE PassThrough BY <1>25 DEF PassThrough, Goto
<1>26. CASE Encrypt BY <1>26 DEF Encrypt, Goto, File, FilesOf
<1>27. CASE EncryptFails BY <1>27 DEF EncryptFails, Fail
<1>28. CASE Store BY <1>28 DEF Store, Goto, Delivery, Via, File
<1>29. CASE StoreFails BY <1>29 DEF StoreFails, Fail, Delivery, Via, File
<1>30. CASE NoOutput BY <1>30 DEF NoOutput, Fail
<1>31. CASE Complete BY <1>31 DEF Complete
<1>32. CASE Finally BY <1>32 DEF Finally
<1>33. CASE ReportExecution BY <1>33 DEF ReportExecution
<1>34. CASE PollFails BY <1>34 DEF PollFails, Fail
<1>35. ASSUME NEW j \in Jobs, ComfyWrites(j) PROVE ConfidentialNeverPlain' /\ Sealing'
  BY <1>35 DEF ComfyWrites, File
<1>36. ASSUME NEW j \in Jobs, ComfyFinishes(j) PROVE ConfidentialNeverPlain' /\ Sealing'
  BY <1>36 DEF ComfyFinishes
<1>37. CASE ComfyExits BY <1>37 DEF ComfyExits
<1>38. CASE UNCHANGED vars BY <1>38 DEF vars
<1> QED
  BY <1>1, <1>2, <1>3, <1>4, <1>5, <1>6, <1>7, <1>8, <1>9, <1>10, <1>11,
     <1>12, <1>13, <1>14, <1>15, <1>16, <1>17, <1>18, <1>19, <1>20, <1>21,
     <1>22, <1>23, <1>24, <1>25, <1>26, <1>27, <1>28, <1>29, <1>30, <1>31,
     <1>32, <1>33, <1>34, <1>35, <1>36, <1>37, <1>38 DEF Next, HandlerStep,
     ComfyStep

\* Whatever leaves the container for a confidential job is a sealed container sent
\* to the upload endpoint, for any jobs, requests and worker configuration.
THEOREM ConfidentialArtefactsAreSealed == Spec => []ConfidentialNeverPlain
<1>1. Spec => []SealInv
  BY InitSealing, StepSealing, PTL DEF Spec
<1>2. SealInv => ConfidentialNeverPlain
  BY DEF SealInv
<1> QED BY <1>1, <1>2, PTL

-----------------------------------------------------------------------------
(* Staged inputs.                                                          *)

\* Every staged input on the disk belongs to the open job, and some clean-up is in
\* charge of it: the function still staging it, or the handle it returned.
Purging ==
  \A f \in disk :
    /\ f.kind = "ref" =>
         /\ pc # "idle" /\ f.job = job
         /\ pc = "references" \/ "job_dir" \in known
    /\ f.kind = "keyframe" =>
         /\ pc # "idle" /\ f.job = job
         /\ pc = "keyframes" \/ "staged_assets" \in known

PurgeInv == TypeInv /\ Purging

LEMMA InitPurging == Init => PurgeInv
  BY InitTyping DEF Init, PurgeInv, Purging

\* Every action preserves the purging invariant.
LEMMA StepPurging == PurgeInv /\ [Next]_vars => PurgeInv'
<1> SUFFICES ASSUME PurgeInv, [Next]_vars PROVE Purging'
  BY StepTyping DEF PurgeInv
<1> USE NoJobAssumption
<1> USE DEF PurgeInv, TypeInv, TypeOK, Purging
<1>1. ASSUME NEW j \in Jobs, NEW r \in Requests, OpenJob(j, r) PROVE Purging'
  BY <1>1 DEF OpenJob
<1>2. ASSUME NEW j \in Jobs, RefuseEnvelope(j) PROVE Purging'
  BY <1>2 DEF RefuseEnvelope
<1>3. CASE AnswerCapabilities BY <1>3 DEF AnswerCapabilities
<1>4. CASE RouteWorkflow BY <1>4 DEF RouteWorkflow, Goto
<1>5. CASE RoutePrivora BY <1>5 DEF RoutePrivora, Fail, Goto
<1>6. CASE StageUserLora BY <1>6 DEF StageUserLora, File
<1>7. CASE PlanBuilt BY <1>7 DEF PlanBuilt, Goto
<1>8. CASE LorasOrPlanFail BY <1>8 DEF LorasOrPlanFail, Fail, FilesOf
<1>9. CASE StageReference BY <1>9 DEF StageReference, File
<1>10. CASE PrivoraJobBuilt BY <1>10 DEF PrivoraJobBuilt, Goto
<1>11. CASE ReferencesFail BY <1>11 DEF ReferencesFail, Fail, FilesOf
<1>12. CASE BuildProtector BY <1>12 DEF BuildProtector, Fail, GotoReporting
<1>13. CASE StageKeyframe BY <1>13 DEF StageKeyframe, File
<1>14. CASE KeyframesStaged BY <1>14 DEF KeyframesStaged, Goto
<1>15. CASE KeyframesFail BY <1>15 DEF KeyframesFail, Fail, FilesOf, File
<1>16. CASE StartComfyUI BY <1>16 DEF StartComfyUI, Fail, GotoReporting
<1>17. CASE QueuePrompt BY <1>17 DEF QueuePrompt, GotoReporting
<1>18. CASE QueuePromptFails BY <1>18 DEF QueuePromptFails, Fail
<1>19. CASE ExecutionSucceeds
  BY <1>19 DEF ExecutionSucceeds, Goto, GotoReporting
<1>20. CASE ExecutionFails BY <1>20 DEF ExecutionFails, Fail
<1>21. CASE ExecutionTimesOut BY <1>21 DEF ExecutionTimesOut, Fail
<1>22. CASE Fetch BY <1>22 DEF Fetch, File
<1>23. CASE FetchFails BY <1>23 DEF FetchFails, Fail
<1>24. CASE RefuseForeign BY <1>24 DEF RefuseForeign, Fail
<1>25. CASE PassThrough BY <1>25 DEF PassThrough, Goto
<1>26. CASE Encrypt BY <1>26 DEF Encrypt, Goto, File, FilesOf
<1>27. CASE EncryptFails BY <1>27 DEF EncryptFails, Fail
<1>28. CASE Store BY <1>28 DEF Store, Goto
<1>29. CASE StoreFails BY <1>29 DEF StoreFails, Fail
<1>30. CASE NoOutput BY <1>30 DEF NoOutput, Fail
<1>31. CASE Complete BY <1>31 DEF Complete
<1>32. CASE Finally BY <1>32 DEF Finally, FilesOf, KindsKnown
<1>33. CASE ReportExecution BY <1>33 DEF ReportExecution
<1>34. CASE PollFails BY <1>34 DEF PollFails, Fail
<1>35. ASSUME NEW j \in Jobs, ComfyWrites(j) PROVE Purging'
  BY <1>35 DEF ComfyWrites, File
<1>36. ASSUME NEW j \in Jobs, ComfyFinishes(j) PROVE Purging'
  BY <1>36 DEF ComfyFinishes
<1>37. CASE ComfyExits BY <1>37 DEF ComfyExits
<1>38. CASE UNCHANGED vars BY <1>38 DEF vars
<1> QED
  BY <1>1, <1>2, <1>3, <1>4, <1>5, <1>6, <1>7, <1>8, <1>9, <1>10, <1>11,
     <1>12, <1>13, <1>14, <1>15, <1>16, <1>17, <1>18, <1>19, <1>20, <1>21,
     <1>22, <1>23, <1>24, <1>25, <1>26, <1>27, <1>28, <1>29, <1>30, <1>31,
     <1>32, <1>33, <1>34, <1>35, <1>36, <1>37, <1>38 DEF Next, HandlerStep,
     ComfyStep

\* No reference and no keyframe of any job survives into the next one, whichever
\* clean-up was in charge when its job ended.
THEOREM InputsArePurged == Spec => []InputsPurged
<1>1. Spec => []PurgeInv
  BY InitPurging, StepPurging, PTL DEF Spec
<1>2. PurgeInv => InputsPurged
  BY DEF PurgeInv, Purging, InputsPurged
<1> QED BY <1>1, <1>2, PTL

-----------------------------------------------------------------------------
(* Answers.                                                                *)

\* What makes OkMeansDelivered inductive: while outputs are collected the prompt is
\* over, so the list of outputs is final, and what is not still to do has been
\* delivered; an open job is not answered before its finally; and the prompt of
\* a generation that succeeded is over for good.
Delivering ==
  /\ pc \in {"collect", "store"} =>
       /\ prompt[job] = "success"
       /\ \A o \in written[job] \ todo : \E a \in remote : a.job = job /\ a.item = o
  /\ pc \notin {"idle", "finally"} => result[job] = "none"
  /\ \A j \in Jobs : result[j] = "ok" /\ asked[j].kind # "capabilities" =>
                       prompt[j] = "success"

DeliverInv == TypeInv /\ OkMeansDelivered /\ Delivering

LEMMA InitDelivering == Init => DeliverInv
  BY InitTyping DEF Init, DeliverInv, OkMeansDelivered, Delivering

\* Every action preserves the delivery invariant.
LEMMA StepDelivering == DeliverInv /\ [Next]_vars => DeliverInv'
<1> SUFFICES ASSUME DeliverInv, [Next]_vars
             PROVE  OkMeansDelivered' /\ Delivering'
  BY StepTyping DEF DeliverInv
<1> USE NoJobAssumption
<1> USE DEF DeliverInv, TypeInv, TypeOK, OkMeansDelivered, Delivering
<1>1. ASSUME NEW j \in Jobs, NEW r \in Requests, OpenJob(j, r) PROVE OkMeansDelivered' /\ Delivering'
  BY <1>1 DEF OpenJob
<1>2. ASSUME NEW j \in Jobs, RefuseEnvelope(j) PROVE OkMeansDelivered' /\ Delivering'
  BY <1>2 DEF RefuseEnvelope
<1>3. CASE AnswerCapabilities BY <1>3 DEF AnswerCapabilities, req
<1>4. CASE RouteWorkflow BY <1>4 DEF RouteWorkflow, Goto
<1>5. CASE RoutePrivora BY <1>5 DEF RoutePrivora, Fail, Goto
<1>6. CASE StageUserLora BY <1>6 DEF StageUserLora
<1>7. CASE PlanBuilt BY <1>7 DEF PlanBuilt, Goto
<1>8. CASE LorasOrPlanFail BY <1>8 DEF LorasOrPlanFail, Fail
<1>9. CASE StageReference BY <1>9 DEF StageReference
<1>10. CASE PrivoraJobBuilt BY <1>10 DEF PrivoraJobBuilt, Goto
<1>11. CASE ReferencesFail BY <1>11 DEF ReferencesFail, Fail
<1>12. CASE BuildProtector BY <1>12 DEF BuildProtector, Fail, GotoReporting
<1>13. CASE StageKeyframe BY <1>13 DEF StageKeyframe
<1>14. CASE KeyframesStaged BY <1>14 DEF KeyframesStaged, Goto
<1>15. CASE KeyframesFail BY <1>15 DEF KeyframesFail, Fail, File
<1>16. CASE StartComfyUI BY <1>16 DEF StartComfyUI, Fail, GotoReporting
<1>17. CASE QueuePrompt BY <1>17 DEF QueuePrompt, GotoReporting
<1>18. CASE QueuePromptFails BY <1>18 DEF QueuePromptFails, Fail
<1>19. CASE ExecutionSucceeds
  BY <1>19 DEF ExecutionSucceeds, Goto, GotoReporting
<1>20. CASE ExecutionFails BY <1>20 DEF ExecutionFails, Fail
<1>21. CASE ExecutionTimesOut BY <1>21 DEF ExecutionTimesOut, Fail
<1>22. CASE Fetch BY <1>22 DEF Fetch
<1>23. CASE FetchFails BY <1>23 DEF FetchFails, Fail
<1>24. CASE RefuseForeign BY <1>24 DEF RefuseForeign, Fail
<1>25. CASE PassThrough BY <1>25 DEF PassThrough, Goto
<1>26. CASE Encrypt BY <1>26 DEF Encrypt, Goto
<1>27. CASE EncryptFails BY <1>27 DEF EncryptFails, Fail
<1>28. CASE Store
  <2>1. PICK o \in current : /\ remote' = remote \cup {Delivery(o)}
                             /\ Goto("collect", todo \ {o})
    BY <1>28 DEF Store
  <2>2. /\ pc = "store" /\ job' = job /\ asked' = asked
        /\ prompt' = prompt /\ written' = written
    BY <1>28 DEF Store
  <2>3. Delivery(o).job = job /\ Delivery(o).item = o
    BY DEF Delivery
  <2>4. /\ pc' = "collect" /\ todo' = todo \ {o} /\ result' = result
    BY <2>1 DEF Goto
  <2>5. ASSUME NEW p \in written[job] \ (todo \ {o})
        PROVE  \E a \in remote' : a.job = job /\ a.item = p
    <3>1. CASE p = o BY <2>1, <2>3, <3>1
    <3>2. CASE p # o BY <2>1, <2>2, <3>2
    <3> QED BY <3>1, <3>2
  <2>6. remote \subseteq remote'
    BY <2>1
  <2> QED BY <2>2, <2>4, <2>5, <2>6
<1>29. CASE StoreFails BY <1>29 DEF StoreFails, Fail, Delivery
<1>30. CASE NoOutput BY <1>30 DEF NoOutput, Fail
<1>31. CASE Complete BY <1>31 DEF Complete
<1>32. CASE Finally BY <1>32 DEF Finally
<1>33. CASE ReportExecution BY <1>33 DEF ReportExecution
<1>34. CASE PollFails BY <1>34 DEF PollFails, Fail
<1>35. ASSUME NEW j \in Jobs, ComfyWrites(j) PROVE OkMeansDelivered' /\ Delivering'
  BY <1>35 DEF ComfyWrites
<1>36. ASSUME NEW j \in Jobs, ComfyFinishes(j) PROVE OkMeansDelivered' /\ Delivering'
  BY <1>36 DEF ComfyFinishes
<1>37. CASE ComfyExits BY <1>37 DEF ComfyExits
<1>38. CASE UNCHANGED vars BY <1>38 DEF vars
<1> QED
  BY <1>1, <1>2, <1>3, <1>4, <1>5, <1>6, <1>7, <1>8, <1>9, <1>10, <1>11,
     <1>12, <1>13, <1>14, <1>15, <1>16, <1>17, <1>18, <1>19, <1>20, <1>21,
     <1>22, <1>23, <1>24, <1>25, <1>26, <1>27, <1>28, <1>29, <1>30, <1>31,
     <1>32, <1>33, <1>34, <1>35, <1>36, <1>37, <1>38 DEF Next, HandlerStep,
     ComfyStep

\* A generation is answered without an error only when all of its outputs, and at
\* least one, have been delivered.
THEOREM AnswersAreHonest == Spec => []OkMeansDelivered
<1>1. Spec => []DeliverInv
  BY InitDelivering, StepDelivering, PTL DEF Spec
<1>2. DeliverInv => OkMeansDelivered
  BY DEF DeliverInv
<1> QED BY <1>1, <1>2, PTL

-----------------------------------------------------------------------------
(* Reported phases.                                                        *)

InRun == {"loading", "sampling", "decoding"}

\* The phase last reported, by the statement handler() is at. A job that is neither
\* open nor answered has reported nothing. While ComfyUI runs, the reporter knows of
\* a decode that was reported.
Reporting ==
  /\ pc \in {"route", "loras", "references", "protector"} => phase[job] = "none"
  /\ pc \in {"keyframes", "boot"} => phase[job] = "starting"
  /\ pc = "queue" => phase[job] = "comfy_ready"
  /\ pc = "await" => /\ phase[job] \in InRun
                     /\ phase[job] = "decoding" => believed = "decoding"
  /\ pc \in {"collect", "store"} => phase[job] \in InRun \cup {"uploading"}
  /\ \A j \in Jobs : j # job /\ result[j] = "none" => phase[j] = "none"
  /\ pc = "finally" => /\ phase[job] \in {"none", "completed", "failed"}
                       /\ result[job] # "none"

PhaseInv == TypeInv /\ Reporting

Decoding(j) == phase[j] = "decoding"

\* The decode of job j is behind its reporter: uploading, answered, or fallen back
\* to sampling with the decode still remembered.
Past(j) ==
  \/ phase[j] \in {"uploading", "completed", "failed"}
  \/ phase[j] = "sampling" /\ j = job /\ believed = "decoding"

\* What one step does to the phase of a job: it rises, or falls from decoding to
\* sampling; and a decode ends in Past, which nothing leaves.
Advance ==
  \A j \in Jobs :
    /\ phase'[j] # phase[j] => \/ PhaseRank(phase'[j]) > PhaseRank(phase[j])
                               \/ phase[j] = "decoding" /\ phase'[j] = "sampling"
    /\ Decoding(j) => Decoding(j)' \/ Past(j)'
    /\ Past(j) => Past(j)'

LEMMA Ranks ==
  /\ PhaseRank("none") = 0
  /\ PhaseRank("starting") = 1
  /\ PhaseRank("comfy_ready") = 2
  /\ PhaseRank("loading") = 3
  /\ PhaseRank("sampling") = 4
  /\ PhaseRank("decoding") = 5
  /\ PhaseRank("uploading") = 6
  /\ PhaseRank("completed") = 7
  /\ PhaseRank("failed") = 7
  BY DEF PhaseRank

LEMMA InitReporting == Init => PhaseInv
  BY InitTyping DEF Init, PhaseInv, Reporting

\* Every action preserves the phase invariant and steps as Advance says.
LEMMA StepReporting == PhaseInv /\ [Next]_vars => PhaseInv' /\ Advance
<1> SUFFICES ASSUME PhaseInv, [Next]_vars PROVE Reporting' /\ Advance
  BY StepTyping DEF PhaseInv
<1> USE NoJobAssumption, Ranks
<1> USE DEF PhaseInv, TypeInv, TypeOK, Reporting, Advance, InRun, Decoding, Past
<1>1. ASSUME NEW j \in Jobs, NEW r \in Requests, OpenJob(j, r) PROVE Reporting' /\ Advance
  BY <1>1 DEF OpenJob
<1>2. ASSUME NEW j \in Jobs, RefuseEnvelope(j) PROVE Reporting' /\ Advance
  BY <1>2 DEF RefuseEnvelope
<1>3. CASE AnswerCapabilities BY <1>3 DEF AnswerCapabilities
<1>4. CASE RouteWorkflow BY <1>4 DEF RouteWorkflow, Goto
<1>5. CASE RoutePrivora BY <1>5 DEF RoutePrivora, Fail, Goto
<1>6. CASE StageUserLora BY <1>6 DEF StageUserLora
<1>7. CASE PlanBuilt BY <1>7 DEF PlanBuilt, Goto
<1>8. CASE LorasOrPlanFail BY <1>8 DEF LorasOrPlanFail, Fail
<1>9. CASE StageReference BY <1>9 DEF StageReference
<1>10. CASE PrivoraJobBuilt BY <1>10 DEF PrivoraJobBuilt, Goto
<1>11. CASE ReferencesFail BY <1>11 DEF ReferencesFail, Fail
<1>12. CASE BuildProtector BY <1>12 DEF BuildProtector, Fail, GotoReporting
<1>13. CASE StageKeyframe BY <1>13 DEF StageKeyframe
<1>14. CASE KeyframesStaged BY <1>14 DEF KeyframesStaged, Goto
<1>15. CASE KeyframesFail BY <1>15 DEF KeyframesFail, Fail, File
<1>16. CASE StartComfyUI BY <1>16 DEF StartComfyUI, Fail, GotoReporting
<1>17. CASE QueuePrompt BY <1>17 DEF QueuePrompt, GotoReporting
<1>18. CASE QueuePromptFails BY <1>18 DEF QueuePromptFails, Fail
<1>19. CASE ExecutionSucceeds
  BY <1>19 DEF ExecutionSucceeds, Goto, GotoReporting
<1>20. CASE ExecutionFails BY <1>20 DEF ExecutionFails, Fail
<1>21. CASE ExecutionTimesOut BY <1>21 DEF ExecutionTimesOut, Fail
<1>22. CASE Fetch BY <1>22 DEF Fetch
<1>23. CASE FetchFails BY <1>23 DEF FetchFails, Fail
<1>24. CASE RefuseForeign BY <1>24 DEF RefuseForeign, Fail
<1>25. CASE PassThrough BY <1>25 DEF PassThrough, Goto
<1>26. CASE Encrypt BY <1>26 DEF Encrypt, Goto
<1>27. CASE EncryptFails BY <1>27 DEF EncryptFails, Fail
<1>28. CASE Store BY <1>28 DEF Store, Goto
<1>29. CASE StoreFails BY <1>29 DEF StoreFails, Fail
<1>30. CASE NoOutput BY <1>30 DEF NoOutput, Fail
<1>31. CASE Complete BY <1>31 DEF Complete
<1>32. CASE Finally BY <1>32 DEF Finally
<1>33. CASE ReportExecution BY <1>33 DEF ReportExecution
<1>34. CASE PollFails BY <1>34 DEF PollFails, Fail
<1>35. ASSUME NEW j \in Jobs, ComfyWrites(j) PROVE Reporting' /\ Advance
  BY <1>35 DEF ComfyWrites
<1>36. ASSUME NEW j \in Jobs, ComfyFinishes(j) PROVE Reporting' /\ Advance
  BY <1>36 DEF ComfyFinishes
<1>37. CASE ComfyExits BY <1>37 DEF ComfyExits
<1>38. CASE UNCHANGED vars BY <1>38 DEF vars
<1> QED
  BY <1>1, <1>2, <1>3, <1>4, <1>5, <1>6, <1>7, <1>8, <1>9, <1>10, <1>11,
     <1>12, <1>13, <1>14, <1>15, <1>16, <1>17, <1>18, <1>19, <1>20, <1>21,
     <1>22, <1>23, <1>24, <1>25, <1>26, <1>27, <1>28, <1>29, <1>30, <1>31,
     <1>32, <1>33, <1>34, <1>35, <1>36, <1>37, <1>38 DEF Next, HandlerStep,
     ComfyStep

\* The clients' callback never takes back an upload, a failure or a completion; it
\* goes back from decoding to sampling at most once in an attempt, and nowhere else.
THEOREM PhasesFallBackAtMostOnce == Spec => PhasesFallBackOnce
<1>1. Spec => []PhaseInv
  BY InitReporting, StepReporting, PTL DEF Spec
<1>2. PhaseInv /\ [Next]_vars => [Advance]_vars
  BY StepReporting
<1>3. Spec => [][Advance]_vars
  BY <1>1, <1>2, PTL DEF Spec
<1>4. Spec => [][\A j \in Jobs : phase'[j] # phase[j] =>
                   \/ PhaseRank(phase'[j]) > PhaseRank(phase[j])
                   \/ phase[j] = "decoding" /\ phase'[j] = "sampling"]_vars
  <2>1. [Advance]_vars =>
          [\A j \in Jobs : phase'[j] # phase[j] =>
             \/ PhaseRank(phase'[j]) > PhaseRank(phase[j])
             \/ phase[j] = "decoding" /\ phase'[j] = "sampling"]_vars
    BY DEF Advance
  <2> QED BY <1>3, <2>1, PTL
\* The second part, job by job.
<1>5. ASSUME NEW j \in Jobs
      PROVE  Spec => [](phase[j] = "decoding" =>
                          [](phase[j] # "decoding" => [](phase[j] # "decoding")))
  <2>1. [Advance]_vars => (Decoding(j) => Decoding(j)' \/ Past(j)')
    BY DEF Advance, Decoding, vars
  <2>2. [Advance]_vars => (Past(j) => Past(j)')
    BY DEF Advance, Past, vars
  <2>3. Past(j) => ~Decoding(j)
    BY DEF Past, Decoding
  <2>4. /\ phase[j] = "decoding" <=> Decoding(j)
        /\ phase[j] # "decoding" <=> ~Decoding(j)
    BY DEF Decoding
  <2> QED BY <1>3, <2>1, <2>2, <2>3, <2>4, PTL
<1>6. Spec => \A j \in Jobs :
                [](phase[j] = "decoding" =>
                     [](phase[j] # "decoding" => [](phase[j] # "decoding")))
  BY <1>5
<1> QED BY <1>4, <1>6 DEF PhasesFallBackOnce
-----------------------------------------------------------------------------
(* The contract.                                                           *)

\* What the refinement needs of the prompts: only a request for files has one or
\* goes beyond its route, and what is still to be collected was saved by it.
Saving ==
  /\ pc \notin {"idle", "route", "finally"} => req.kind # "capabilities"
  /\ \A j \in Jobs :
       /\ prompt[j] # "none" => asked[j] # NoRequest /\ asked[j].kind # "capabilities"
       /\ asked[j] # NoRequest => j = job \/ result[j] # "none"
  /\ pc \in {"collect", "store"} => todo \subseteq written[job]
  /\ pc = "finally" => result[job] # "none"

SaveInv == TypeInv /\ Saving

LEMMA InitSaving == Init => SaveInv
  BY InitTyping DEF Init, SaveInv, Saving

\* Every action preserves the saving invariant.
LEMMA StepSaving == SaveInv /\ [Next]_vars => SaveInv'
<1> SUFFICES ASSUME SaveInv, [Next]_vars PROVE Saving'
  BY StepTyping DEF SaveInv
<1> USE NoJobAssumption, NoRequestAssumption
<1> USE DEF SaveInv, TypeInv, TypeOK, Opened, Saving, req
<1>1. ASSUME NEW j \in Jobs, NEW r \in Requests, OpenJob(j, r) PROVE Saving'
  BY <1>1 DEF OpenJob
<1>2. ASSUME NEW j \in Jobs, RefuseEnvelope(j) PROVE Saving'
  BY <1>2 DEF RefuseEnvelope
<1>3. CASE AnswerCapabilities BY <1>3 DEF AnswerCapabilities
<1>4. CASE RouteWorkflow BY <1>4 DEF RouteWorkflow, Goto
<1>5. CASE RoutePrivora BY <1>5 DEF RoutePrivora, Goto, Fail
<1>6. CASE StageUserLora BY <1>6 DEF StageUserLora
<1>7. CASE PlanBuilt BY <1>7 DEF PlanBuilt, Goto
<1>8. CASE LorasOrPlanFail BY <1>8 DEF LorasOrPlanFail, Fail
<1>9. CASE StageReference BY <1>9 DEF StageReference
<1>10. CASE PrivoraJobBuilt BY <1>10 DEF PrivoraJobBuilt, Goto
<1>11. CASE ReferencesFail BY <1>11 DEF ReferencesFail, Fail
<1>12. CASE BuildProtector BY <1>12 DEF BuildProtector, Fail, GotoReporting
<1>13. CASE StageKeyframe BY <1>13 DEF StageKeyframe
<1>14. CASE KeyframesStaged BY <1>14 DEF KeyframesStaged, Goto
<1>15. CASE KeyframesFail BY <1>15 DEF KeyframesFail, Fail
<1>16. CASE StartComfyUI BY <1>16 DEF StartComfyUI, Fail, GotoReporting
<1>17. CASE QueuePrompt BY <1>17 DEF QueuePrompt, GotoReporting
<1>18. CASE QueuePromptFails BY <1>18 DEF QueuePromptFails, Fail
<1>19. CASE ExecutionSucceeds BY <1>19 DEF ExecutionSucceeds, Goto, GotoReporting
<1>20. CASE ExecutionFails BY <1>20 DEF ExecutionFails, Fail
<1>21. CASE ExecutionTimesOut BY <1>21 DEF ExecutionTimesOut, Fail
<1>22. CASE Fetch BY <1>22 DEF Fetch
<1>23. CASE FetchFails BY <1>23 DEF FetchFails, Fail
<1>24. CASE RefuseForeign BY <1>24 DEF RefuseForeign, Fail
<1>25. CASE PassThrough BY <1>25 DEF PassThrough, Goto
<1>26. CASE Encrypt BY <1>26 DEF Encrypt, Goto
<1>27. CASE EncryptFails BY <1>27 DEF EncryptFails, Fail
<1>28. CASE Store BY <1>28 DEF Store, Goto
<1>29. CASE StoreFails BY <1>29 DEF StoreFails, Fail
<1>30. CASE NoOutput BY <1>30 DEF NoOutput, Fail
<1>31. CASE Complete BY <1>31 DEF Complete
<1>32. CASE Finally BY <1>32 DEF Finally
<1>33. CASE ReportExecution BY <1>33 DEF ReportExecution
<1>34. CASE PollFails BY <1>34 DEF PollFails, Fail
<1>35. ASSUME NEW j \in Jobs, ComfyWrites(j) PROVE Saving'
  BY <1>35 DEF ComfyWrites
<1>36. ASSUME NEW j \in Jobs, ComfyFinishes(j) PROVE Saving'
  BY <1>36 DEF ComfyFinishes
<1>37. CASE ComfyExits BY <1>37 DEF ComfyExits
<1>38. CASE UNCHANGED vars BY <1>38 DEF vars
<1> QED
  BY <1>1, <1>2, <1>3, <1>4, <1>5, <1>6, <1>7, <1>8, <1>9, <1>10, <1>11,
     <1>12, <1>13, <1>14, <1>15, <1>16, <1>17, <1>18, <1>19, <1>20, <1>21,
     <1>22, <1>23, <1>24, <1>25, <1>26, <1>27, <1>28, <1>29, <1>30, <1>31,
     <1>32, <1>33, <1>34, <1>35, <1>36, <1>37, <1>38 DEF Next, HandlerStep,
     ComfyStep

RefInv == DeliverInv /\ SealInv /\ SaveInv

\* What the contract does not see.
LEMMA Invisible ==
  UNCHANGED <<job, asked, result, written, remote>> => UNCHANGED Contract!vars
BY DEF Contract!vars

\* The except clauses of handler() give the job up, whatever was sent for it.
LEMMA FailureGivesUp ==
  ASSUME RefInv, NEW cause \in Causes, Fail(cause),
         pc \notin {"idle", "finally"},
         UNCHANGED <<job, asked, remote, written>>
  PROVE  Contract!GiveUp(job)
<1> USE DEF RefInv, DeliverInv, Delivering, TypeInv, TypeOK
<1>1. /\ job \in Jobs
      /\ result[job] = "none"
      /\ result' = [result EXCEPT ![job] = cause]
  BY NoJobAssumption DEF Fail
<1>2. Contract!Unanswered(job)
  BY <1>1 DEF Contract!Unanswered
<1>3. [j \in Jobs |-> IF result'[j] \in {"none", "ok"} THEN result'[j] ELSE "error"]
      = [[j \in Jobs |-> IF result[j] \in {"none", "ok"} THEN result[j] ELSE "error"]
           EXCEPT ![job] = "error"]
  BY <1>1
<1> QED BY <1>2, <1>3 DEF Contract!GiveUp

\* The first state of handler() is the first of the contract.
LEMMA InitContract == Init => Contract!Init
  BY DEF Init, Contract!Init, KindOf

\* What store() delivers of a prompt's output is one of the contract's parcels.
LEMMA DeliveryIsParcel ==
  ASSUME RefInv, pc = "store", NEW o \in current
  PROVE  LET parcel == <<o, Delivery(o).form = "cipher">> IN
         /\ parcel \in Contract!Parcels(job)
         /\ remote' = remote \cup {Delivery(o)} =>
              [j \in Jobs |-> {<<a.item, a.form = "cipher">> : a \in {b \in remote' : b.job = j}}]
              = [[j \in Jobs |-> {<<a.item, a.form = "cipher">> : a \in {b \in remote : b.job = j}}]
                   EXCEPT ![job] = @ \cup {parcel}]
<1> DEFINE parcel == <<o, Delivery(o).form = "cipher">>
           Parts(js, r) == {<<a.item, a.form = "cipher">> : a \in {b \in r : b.job = js}}
<1>1. job \in Jobs /\ o \in written[job] /\ req \in Requests
  BY NoJobAssumption DEF RefInv, SaveInv, TypeInv, TypeOK, Opened, Saving
<1>2. parcel \in Contract!Parcels(job)
  <2>1. asked[job].confidential => Delivery(o).form = "cipher"
    BY <1>1 DEF RefInv, SealInv, Sealing, Delivery, req
  <2>2. KindOf(asked[job]) = "sealed" => asked[job].confidential
    BY DEF KindOf
  <2>3. parcel \in written[job] \X BOOLEAN
    BY <1>1
  <2> QED BY <1>1, <2>1, <2>2, <2>3 DEF Contract!Parcels
<1>3. ASSUME remote' = remote \cup {Delivery(o)}
      PROVE  [j \in Jobs |-> Parts(j, remote')]
             = [[j \in Jobs |-> Parts(j, remote)] EXCEPT ![job] = @ \cup {parcel}]
  <2>1. Delivery(o).job = job /\ Delivery(o).item = o
    BY DEF Delivery
  <2>2. Parts(job, remote') = Parts(job, remote) \cup {parcel}
    BY <1>3, <2>1
  <2>3. ASSUME NEW j \in Jobs, j # job PROVE Parts(j, remote') = Parts(j, remote)
    BY <1>3, <2>1, <2>3
  <2> HIDE DEF Parts, parcel
  <2> QED BY <1>1, <2>2, <2>3
<1> QED BY <1>2, <1>3

\* Every step of the worker is a step of the contract or invisible to it.
LEMMA StepContract == RefInv /\ [Next]_vars => [Contract!Next]_(Contract!vars)
<1> SUFFICES ASSUME RefInv, [Next]_vars
             PROVE  Contract!Next \/ UNCHANGED Contract!vars
  OBVIOUS
<1> DEFINE Goal == Contract!Next \/ UNCHANGED Contract!vars
<1> SUFFICES Goal OBVIOUS
<1>a. /\ pc \in Steps /\ (job = NoJob <=> pc = "idle") /\ job \in Jobs \cup {NoJob}
      /\ pc \notin {"idle", "finally"} => result[job] = "none"
      /\ result \in [Jobs -> Causes \cup {"none", "ok"}]
      /\ asked \in [Jobs -> Requests \cup {NoRequest}]
      /\ written \in [Jobs -> SUBSET Outputs]
  BY DEF RefInv, DeliverInv, TypeInv, TypeOK, Delivering
<1>b. ASSUME job \in Jobs, Contract!GiveUp(job) PROVE Goal
  BY <1>b DEF Contract!Next, Contract!GiveUp
<1>c. ASSUME UNCHANGED <<job, asked, result, written, remote>> PROVE Goal
  BY <1>c, Invisible
<1> HIDE DEF Goal
<1>d. ASSUME NEW cause \in Causes, Fail(cause), pc \notin {"idle", "finally"},
             UNCHANGED <<job, asked, remote, written>>
      PROVE  Goal
  BY <1>d, <1>a, <1>b, FailureGivesUp
<1>1. ASSUME NEW j \in Jobs, NEW r \in Requests, OpenJob(j, r) PROVE Goal
  <2>1. /\ job = NoJob /\ result[j] = "none" /\ job' = j
        /\ UNCHANGED <<result, written, remote>>
        /\ asked' = [asked EXCEPT ![j] = r]
    BY <1>1, <1>a DEF OpenJob
  <2>2. KindOf(r) \in {"probe", "open", "sealed"}
    BY NoRequestAssumption DEF KindOf
  <2>3. [i \in Jobs |-> KindOf(asked'[i])]
        = [[i \in Jobs |-> KindOf(asked[i])] EXCEPT ![j] = KindOf(r)]
    BY <2>1, <1>a
  <2> QED BY <2>1, <2>2, <2>3 DEF Goal, Contract!Next, Contract!Accept
<1>2. ASSUME NEW j \in Jobs, RefuseEnvelope(j) PROVE Goal
  <2>1. /\ job = NoJob /\ result[j] = "none"
        /\ UNCHANGED <<job, asked, written, remote>>
        /\ result' = [result EXCEPT ![j] = "refused"]
    BY <1>2, <1>a DEF RefuseEnvelope
  <2>2. [i \in Jobs |-> IF result'[i] \in {"none", "ok"} THEN result'[i] ELSE "error"]
        = [[i \in Jobs |-> IF result[i] \in {"none", "ok"} THEN result[i] ELSE "error"]
             EXCEPT ![j] = "error"]
    BY <2>1, <1>a
  <2> QED BY <2>1, <2>2 DEF Goal, Contract!Next, Contract!Refuse
<1>3. ASSUME job \in Jobs, result[job] = "none",
             (KindOf(asked[job]) = "probe") \/
               (/\ written[job] # {}
                /\ \A o \in written[job] : \E a \in remote : a.job = job /\ a.item = o),
             result' = [result EXCEPT ![job] = "ok"],
             UNCHANGED <<job, asked, written, remote>>
      PROVE  Goal
  <2>1. [i \in Jobs |-> IF result'[i] \in {"none", "ok"} THEN result'[i] ELSE "error"]
        = [[i \in Jobs |-> IF result[i] \in {"none", "ok"} THEN result[i] ELSE "error"]
             EXCEPT ![job] = "ok"]
    BY <1>3, <1>a
  <2>2. ASSUME NEW o, NEW a \in remote, a.job = job, a.item = o
        PROVE  \E p \in {<<b.item, b.form = "cipher">> : b \in {c \in remote : c.job = job}} : p[1] = o
    <3>1. <<a.item, a.form = "cipher">>
            \in {<<b.item, b.form = "cipher">> : b \in {c \in remote : c.job = job}}
      BY <2>2
    <3>2. <<a.item, a.form = "cipher">>[1] = o
      BY <2>2
    <3> QED BY <3>1, <3>2
  <2>3. Contract!Succeed(job)
    BY <1>3, <2>1, <2>2 DEF Contract!Succeed, Contract!Unanswered
  <2> QED BY <1>3, <2>3 DEF Goal, Contract!Next, Contract!Succeed
<1>4. CASE AnswerCapabilities
  <2>1. KindOf(asked[job]) = "probe" /\ job \in Jobs
    BY <1>4, <1>a, NoRequestAssumption DEF AnswerCapabilities, KindOf, req, RefInv, SaveInv, TypeInv, Opened
  <2> QED BY <1>3, <1>4, <1>a, <2>1 DEF AnswerCapabilities
<1>5. CASE RouteWorkflow BY <1>5, <1>c DEF RouteWorkflow, Goto
<1>6. CASE RoutePrivora BY <1>6, <1>c, <1>d DEF RoutePrivora, Goto
<1>7. CASE StageUserLora BY <1>7, <1>c DEF StageUserLora
<1>8. CASE PlanBuilt BY <1>8, <1>c DEF PlanBuilt, Goto
<1>9. CASE LorasOrPlanFail BY <1>9, <1>d DEF LorasOrPlanFail
<1>10. CASE StageReference BY <1>10, <1>c DEF StageReference
<1>11. CASE PrivoraJobBuilt BY <1>11, <1>c DEF PrivoraJobBuilt, Goto
<1>12. CASE ReferencesFail BY <1>12, <1>d DEF ReferencesFail
<1>13. CASE BuildProtector BY <1>13, <1>c, <1>d DEF BuildProtector, GotoReporting
<1>14. CASE StageKeyframe BY <1>14, <1>c DEF StageKeyframe
<1>15. CASE KeyframesStaged BY <1>15, <1>c DEF KeyframesStaged, Goto
<1>16. CASE KeyframesFail BY <1>16, <1>d DEF KeyframesFail
<1>17. CASE StartComfyUI BY <1>17, <1>c, <1>d DEF StartComfyUI, GotoReporting
<1>18. CASE QueuePrompt BY <1>18, <1>c DEF QueuePrompt, GotoReporting
<1>19. CASE QueuePromptFails BY <1>19, <1>d DEF QueuePromptFails
<1>20. CASE ExecutionSucceeds
  BY <1>20, <1>c DEF ExecutionSucceeds, Goto, GotoReporting
<1>21. CASE ExecutionFails BY <1>21, <1>d DEF ExecutionFails
<1>22. CASE ExecutionTimesOut BY <1>22, <1>d DEF ExecutionTimesOut
<1>23. CASE Fetch BY <1>23, <1>c DEF Fetch
<1>24. CASE FetchFails BY <1>24, <1>d DEF FetchFails
<1>25. CASE RefuseForeign BY <1>25, <1>d DEF RefuseForeign
<1>26. CASE PassThrough BY <1>26, <1>c DEF PassThrough, Goto
<1>27. CASE Encrypt BY <1>27, <1>c DEF Encrypt, Goto
<1>28. CASE EncryptFails BY <1>28, <1>d DEF EncryptFails
<1>29. CASE Store
  <2>1. PICK o \in current : remote' = remote \cup {Delivery(o)} /\ Goto("collect", todo \ {o})
    BY <1>29 DEF Store
  <2>2. /\ pc = "store" /\ job \in Jobs /\ result[job] = "none"
        /\ UNCHANGED <<job, asked, result, written>>
    BY <1>29, <1>a, <2>1 DEF Store, Goto
  <2>3. Contract!Deliver(job)
    BY <2>1, <2>2, DeliveryIsParcel DEF Contract!Deliver, Contract!Unanswered
  <2> QED BY <2>2, <2>3 DEF Goal, Contract!Next, Contract!Deliver
<1>30. CASE StoreFails
  <2>1. PICK o \in current : remote' \in {remote, remote \cup {Delivery(o)}}
    BY <1>30 DEF StoreFails
  <2>2. /\ pc = "store" /\ job \in Jobs /\ result[job] = "none"
        /\ UNCHANGED <<job, asked, written>>
        /\ result' = [result EXCEPT ![job] = "store"]
    BY <1>30, <1>a DEF StoreFails, Fail
  <2>3. CASE remote' = remote
    BY <1>30, <1>d, <2>2, <2>3 DEF StoreFails
  <2>4. CASE remote' = remote \cup {Delivery(o)}
    <3>1. [i \in Jobs |-> IF result'[i] \in {"none", "ok"} THEN result'[i] ELSE "error"]
          = [[i \in Jobs |-> IF result[i] \in {"none", "ok"} THEN result[i] ELSE "error"]
               EXCEPT ![job] = "error"]
      BY <2>2, <1>a
    <3>2. Contract!GiveUp(job)
      BY <2>2, <2>4, <3>1, DeliveryIsParcel DEF Contract!GiveUp, Contract!Unanswered
    <3> QED BY <1>b, <2>2, <3>2
  <2> QED BY <2>1, <2>3, <2>4
<1>31. CASE NoOutput BY <1>31, <1>d DEF NoOutput
<1>32. CASE Complete
  <2>1. \A o \in written[job] : \E a \in remote : a.job = job /\ a.item = o
    BY <1>32 DEF Complete, RefInv, DeliverInv, Delivering
  <2> QED BY <1>3, <1>32, <1>a, <2>1 DEF Complete
<1>33. CASE Finally
  <2>1. /\ job \in Jobs /\ job' = NoJob /\ result[job] # "none"
        /\ UNCHANGED <<asked, result, written, remote>>
    BY <1>33, <1>a DEF Finally, RefInv, SaveInv, Saving
  <2> QED BY <2>1, <1>a DEF Goal, Contract!Next, Contract!Leave
<1>34. CASE ReportExecution BY <1>34, <1>c DEF ReportExecution
<1>35. CASE PollFails BY <1>35, <1>d DEF PollFails
<1>36. ASSUME NEW j \in Jobs, ComfyWrites(j) PROVE Goal
  <2>1. PICK o \in Outputs : written' = [written EXCEPT ![j] = @ \cup {o}]
    BY <1>36 DEF ComfyWrites
  <2>2. prompt[j] = "queued" /\ UNCHANGED <<job, asked, result, remote>>
    BY <1>36 DEF ComfyWrites
  <2>3. KindOf(asked[j]) \in {"open", "sealed"} /\ result[j] # "ok"
    BY <2>2 DEF RefInv, DeliverInv, Delivering, SaveInv, Saving, KindOf
  <2> QED BY <2>1, <2>2, <2>3, <1>a DEF Goal, Contract!Next, Contract!Save
<1>37. ASSUME NEW j \in Jobs, ComfyFinishes(j) PROVE Goal
  BY <1>37, <1>c DEF ComfyFinishes
<1>38. CASE ComfyExits BY <1>38, <1>c DEF ComfyExits
<1>39. CASE UNCHANGED vars BY <1>39, <1>c DEF vars
<1> QED
  BY <1>1, <1>2, <1>4, <1>5, <1>6, <1>7, <1>8, <1>9, <1>10, <1>11,
     <1>12, <1>13, <1>14, <1>15, <1>16, <1>17, <1>18, <1>19, <1>20, <1>21,
     <1>22, <1>23, <1>24, <1>25, <1>26, <1>27, <1>28, <1>29, <1>30, <1>31,
     <1>32, <1>33, <1>34, <1>35, <1>36, <1>37, <1>38, <1>39
  DEF Next, HandlerStep, ComfyStep

\* handler() keeps the contract, whatever the jobs, their requests and the worker's
\* settings are, and whatever fails.
THEOREM KeepsContract == Spec => ImplementsContract
<1>1. Init => RefInv
  BY InitDelivering, InitSealing, InitSaving DEF RefInv
<1>2. RefInv /\ [Next]_vars => RefInv'
  BY StepDelivering, StepSealing, StepSaving DEF RefInv
<1> QED
  BY <1>1, <1>2, InitContract, StepContract, PTL DEF Spec, ImplementsContract, Contract!Spec
-----------------------------------------------------------------------------
(* What is left on the disk.                                               *)

Collecting == pc \in {"collect", "store"}

\* Where artefacts are, beside what SealInv says: copies and containers live as
\* long as the collecting loop; an output has one source there; only what the
\* loop is done with was delivered; and at store() a confidential output has no
\* source any more, unless shred() failed.
Placing ==
  /\ \A f \in disk :
       /\ f.kind \in {"cipher", "scratch"} => Collecting /\ f.job = job
       /\ f.kind \in {"plain", "foreign", "scratch", "cipher"} =>
            f.item \in written[f.job] /\ prompt[f.job] # "none"
  /\ \A f, g \in disk :
       f.job = g.job /\ f.item = g.item /\ f.kind = "scratch" => g.kind # "plain"
  /\ \A a \in remote :
       /\ a.item \in written[a.job]
       /\ a.job = job => pc = "finally" \/ (Collecting /\ a.item \notin todo)
  /\ pc = "store" /\ req.confidential =>
       \A f \in disk : f.job = job /\ f.item \in current /\ f.kind \in {"plain", "scratch"}
                         => f \in unshredded

GoneInv == RefInv /\ DeliveredIsGone /\ Placing

LEMMA InitPlacing == Init => DeliveredIsGone /\ Placing
  BY DEF Init, DeliveredIsGone, Placing, Collecting

\* Every action preserves it.
LEMMA StepPlacing == GoneInv /\ [Next]_vars => DeliveredIsGone' /\ Placing'
<1> SUFFICES ASSUME GoneInv, [Next]_vars PROVE DeliveredIsGone' /\ Placing'
  OBVIOUS
<1> USE NoJobAssumption, RequestsAssumption, NoRequestAssumption
<1> USE DEF GoneInv, RefInv, DeliverInv, Delivering, SealInv, Sealing, SaveInv, Saving,
            TypeInv, TypeOK, Opened, req, Confidential, DeliveredIsGone, Placing, Collecting
<1>1. ASSUME NEW j \in Jobs, NEW r \in Requests, OpenJob(j, r) PROVE DeliveredIsGone' /\ Placing'
  BY <1>1 DEF OpenJob
<1>2. ASSUME NEW j \in Jobs, RefuseEnvelope(j) PROVE DeliveredIsGone' /\ Placing'
  BY <1>2 DEF RefuseEnvelope
<1>3. CASE AnswerCapabilities BY <1>3 DEF AnswerCapabilities
<1>4. CASE RouteWorkflow BY <1>4 DEF RouteWorkflow, Goto
<1>5. CASE RoutePrivora BY <1>5 DEF RoutePrivora, Goto, Fail
<1>6. CASE StageUserLora BY <1>6 DEF StageUserLora, File
<1>7. CASE PlanBuilt BY <1>7 DEF PlanBuilt, Goto
<1>8. CASE LorasOrPlanFail BY <1>8 DEF LorasOrPlanFail, Fail
<1>9. CASE StageReference BY <1>9 DEF StageReference, File
<1>10. CASE PrivoraJobBuilt BY <1>10 DEF PrivoraJobBuilt, Goto
<1>11. CASE ReferencesFail BY <1>11 DEF ReferencesFail, Fail
<1>12. CASE BuildProtector BY <1>12 DEF BuildProtector, Fail, GotoReporting
<1>13. CASE StageKeyframe BY <1>13 DEF StageKeyframe, File
<1>14. CASE KeyframesStaged BY <1>14 DEF KeyframesStaged, Goto
<1>15. CASE KeyframesFail BY <1>15 DEF KeyframesFail, Fail, File
<1>16. CASE StartComfyUI BY <1>16 DEF StartComfyUI, Fail, GotoReporting
<1>17. CASE QueuePrompt BY <1>17 DEF QueuePrompt, GotoReporting
<1>18. CASE QueuePromptFails BY <1>18 DEF QueuePromptFails, Fail
<1>19. CASE ExecutionSucceeds
  BY <1>19 DEF ExecutionSucceeds, Goto, GotoReporting
<1>20. CASE ExecutionFails BY <1>20 DEF ExecutionFails, Fail
<1>21. CASE ExecutionTimesOut BY <1>21 DEF ExecutionTimesOut, Fail
<1>22. CASE Fetch BY <1>22 DEF Fetch, File, PathOf, FilesOf
<1>23. CASE FetchFails BY <1>23 DEF FetchFails, Fail, Scratch, FilesOf
<1>24. CASE RefuseForeign BY <1>24 DEF RefuseForeign, Fail, Scratch, FilesOf
<1>25. CASE PassThrough BY <1>25 DEF PassThrough, Goto
<1>26. CASE Encrypt BY <1>26 DEF Encrypt, Goto, File, FilesOf
<1>27. CASE EncryptFails BY <1>27 DEF EncryptFails, Fail, Scratch, FilesOf
<1>28. CASE Store BY <1>28 DEF Store, Goto, Delivery
<1>29. CASE StoreFails
  BY <1>29 DEF StoreFails, Fail, Scratch, FilesOf, Delivery
<1>30. CASE NoOutput BY <1>30 DEF NoOutput, Fail
<1>31. CASE Complete BY <1>31 DEF Complete, Scratch, FilesOf
<1>32. CASE Finally BY <1>32 DEF Finally, FilesOf
<1>33. CASE ReportExecution BY <1>33 DEF ReportExecution
<1>34. CASE PollFails BY <1>34 DEF PollFails, Fail
<1>35. ASSUME NEW j \in Jobs, ComfyWrites(j) PROVE DeliveredIsGone' /\ Placing'
  BY <1>35 DEF ComfyWrites, File
<1>36. ASSUME NEW j \in Jobs, ComfyFinishes(j) PROVE DeliveredIsGone' /\ Placing'
  BY <1>36 DEF ComfyFinishes
<1>37. CASE ComfyExits BY <1>37 DEF ComfyExits
<1>38. CASE UNCHANGED vars BY <1>38 DEF vars
<1> QED
  BY <1>1, <1>2, <1>3, <1>4, <1>5, <1>6, <1>7, <1>8, <1>9, <1>10, <1>11,
     <1>12, <1>13, <1>14, <1>15, <1>16, <1>17, <1>18, <1>19, <1>20, <1>21,
     <1>22, <1>23, <1>24, <1>25, <1>26, <1>27, <1>28, <1>29, <1>30, <1>31,
     <1>32, <1>33, <1>34, <1>35, <1>36, <1>37, <1>38 DEF Next, HandlerStep,
     ComfyStep

\* All that has been proved of the worker so far, in one invariant.
LEMMA Invariants == Spec => [](GoneInv /\ PurgeInv)
<1>1. Init => GoneInv /\ PurgeInv
  BY InitDelivering, InitSealing, InitSaving, InitPlacing, InitPurging DEF GoneInv, RefInv
<1>2. GoneInv /\ PurgeInv /\ [Next]_vars => (GoneInv /\ PurgeInv)'
  BY StepDelivering, StepSealing, StepSaving, StepPlacing, StepPurging DEF GoneInv, RefInv
<1> QED BY <1>1, <1>2, PTL DEF Spec

\* The plaintext of what left the container for a confidential job has left its
\* disk, or could not be deleted.
THEOREM DeliveredPlaintextIsGone == Spec => []DeliveredIsGone
<1>1. GoneInv => DeliveredIsGone
  BY DEF GoneInv
<1> QED BY <1>1, Invariants, PTL

\* What a job that did not fail will not leave behind: inputs that a clean-up still
\* to come is in charge of, and outputs the loop is not done with.
Leaving ==
  \A f \in disk :
    /\ f.kind = "truncated" => result[f.job] \notin {"none", "ok"}
    /\ f.kind = "lora" /\ result[f.job] \in {"none", "ok"} =>
         /\ pc # "idle" /\ f.job = job
         /\ pc \in {"loras", "references"} \/ "lora_dir" \in known
    /\ f.kind = "plain" =>
         \/ result[f.job] # "ok" /\ ~(Collecting /\ f.job = job /\ f.item \notin todo)
         \/ f \in unshredded
         \/ KeepOutputs /\ ~Confidential(f.job)

LEMMA InitLeaving == Init => Leaving
  BY DEF Init, Leaving

\* Every action preserves it.
LEMMA StepLeaving == GoneInv /\ PurgeInv /\ Leaving /\ [Next]_vars => Leaving'
<1> SUFFICES ASSUME GoneInv, PurgeInv, Leaving, [Next]_vars PROVE Leaving'
  OBVIOUS
<1> USE NoJobAssumption, RequestsAssumption, NoRequestAssumption
<1> USE DEF GoneInv, RefInv, DeliverInv, Delivering, SaveInv, Saving,
            TypeInv, TypeOK, Opened, req, Confidential, Placing, Collecting, Leaving
<1>1. ASSUME NEW j \in Jobs, NEW r \in Requests, OpenJob(j, r) PROVE Leaving'
  BY <1>1 DEF OpenJob
<1>2. ASSUME NEW j \in Jobs, RefuseEnvelope(j) PROVE Leaving'
  BY <1>2 DEF RefuseEnvelope
<1>3. CASE AnswerCapabilities BY <1>3 DEF AnswerCapabilities
<1>4. CASE RouteWorkflow BY <1>4 DEF RouteWorkflow, Goto
<1>5. CASE RoutePrivora BY <1>5 DEF RoutePrivora, Goto, Fail
<1>6. CASE StageUserLora BY <1>6 DEF StageUserLora, File
<1>7. CASE PlanBuilt BY <1>7 DEF PlanBuilt, Goto
<1>8. CASE LorasOrPlanFail BY <1>8 DEF LorasOrPlanFail, Fail, FilesOf
<1>9. CASE StageReference BY <1>9 DEF StageReference, File
<1>10. CASE PrivoraJobBuilt BY <1>10 DEF PrivoraJobBuilt, Goto
<1>11. CASE ReferencesFail BY <1>11 DEF ReferencesFail, Fail
<1>12. CASE BuildProtector BY <1>12 DEF BuildProtector, Fail, GotoReporting
<1>13. CASE StageKeyframe BY <1>13 DEF StageKeyframe, File
<1>14. CASE KeyframesStaged BY <1>14 DEF KeyframesStaged, Goto
<1>15. CASE KeyframesFail BY <1>15 DEF KeyframesFail, Fail, File, FilesOf
<1>16. CASE StartComfyUI BY <1>16 DEF StartComfyUI, Fail, GotoReporting
<1>17. CASE QueuePrompt BY <1>17 DEF QueuePrompt, GotoReporting
<1>18. CASE QueuePromptFails BY <1>18 DEF QueuePromptFails, Fail
<1>19. CASE ExecutionSucceeds
  BY <1>19 DEF ExecutionSucceeds, Goto, GotoReporting
<1>20. CASE ExecutionFails BY <1>20 DEF ExecutionFails, Fail
<1>21. CASE ExecutionTimesOut BY <1>21 DEF ExecutionTimesOut, Fail
<1>22. CASE Fetch BY <1>22 DEF Fetch, File, PathOf, FilesOf
<1>23. CASE FetchFails BY <1>23 DEF FetchFails, Fail, Scratch, FilesOf
<1>24. CASE RefuseForeign BY <1>24 DEF RefuseForeign, Fail, Scratch, FilesOf
<1>25. CASE PassThrough BY <1>25 DEF PassThrough, Goto
<1>26. CASE Encrypt BY <1>26 DEF Encrypt, Goto, File, FilesOf
<1>27. CASE EncryptFails BY <1>27 DEF EncryptFails, Fail, Scratch, FilesOf
<1>28. CASE Store BY <1>28 DEF Store, Goto, Delivery, Discarded, File
<1>29. CASE StoreFails
  BY <1>29 DEF StoreFails, Fail, Scratch, FilesOf, Delivery
<1>30. CASE NoOutput BY <1>30 DEF NoOutput, Fail
<1>31. CASE Complete BY <1>31 DEF Complete, Scratch, FilesOf
<1>32. CASE Finally BY <1>32 DEF Finally, FilesOf, KindsKnown
<1>33. CASE ReportExecution BY <1>33 DEF ReportExecution
<1>34. CASE PollFails BY <1>34 DEF PollFails, Fail
<1>35. ASSUME NEW j \in Jobs, ComfyWrites(j) PROVE Leaving'
  BY <1>35 DEF ComfyWrites, File
<1>36. ASSUME NEW j \in Jobs, ComfyFinishes(j) PROVE Leaving'
  BY <1>36 DEF ComfyFinishes
<1>37. CASE ComfyExits BY <1>37 DEF ComfyExits
<1>38. CASE UNCHANGED vars BY <1>38 DEF vars
<1> QED
  BY <1>1, <1>2, <1>3, <1>4, <1>5, <1>6, <1>7, <1>8, <1>9, <1>10, <1>11,
     <1>12, <1>13, <1>14, <1>15, <1>16, <1>17, <1>18, <1>19, <1>20, <1>21,
     <1>22, <1>23, <1>24, <1>25, <1>26, <1>27, <1>28, <1>29, <1>30, <1>31,
     <1>32, <1>33, <1>34, <1>35, <1>36, <1>37, <1>38 DEF Next, HandlerStep,
     ComfyStep

\* A successful job leaves nothing of its own on the warm worker that it could
\* delete and was not told to keep.
THEOREM SuccessIsClean == Spec => []SuccessLeavesNothing
<1>1. Init => Leaving
  BY InitLeaving
<1>2. GoneInv /\ PurgeInv /\ Leaving => SuccessLeavesNothing
  BY DEF GoneInv, RefInv, DeliverInv, TypeInv, TypeOK, PurgeInv, Purging, Placing,
         Collecting, Leaving, SuccessLeavesNothing
<1> QED BY <1>1, <1>2, StepLeaving, Invariants, PTL DEF Spec
=============================================================================

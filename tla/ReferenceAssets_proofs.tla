------------------------ MODULE ReferenceAssets_proofs ------------------------
(***************************************************************************)
(* Machine-checked proofs about ReferenceAssets, for any assets,           *)
(* generations, content types, limits, sizes and numbers of attempts.      *)
(***************************************************************************)
EXTENDS ReferenceAssets, TLAPS

USE NothingAssumption, MaxBytesAssumption, SizesAssumption, AttemptsAssumption
USE DEF uploadVars, jobVars, gpuVars, Metadata

-----------------------------------------------------------------------------
(* Types.                                                                  *)

LEMMA InitTyping == Init => TypeOK
  BY DEF Init, TypeOK, Removers, Places

\* Every step preserves the types.
LEMMA StepTyping == TypeOK /\ [Next]_vars => TypeOK'
<1> SUFFICES ASSUME TypeOK, [Next]_vars PROVE TypeOK'
  OBVIOUS
<1> USE DEF TypeOK, Removers, Places
<1>1. ASSUME NEW a \in Assets, NEW m \in Metadata, Authorize(a, m) PROVE TypeOK'
  BY <1>1 DEF Authorize
<1>2. ASSUME NEW a \in Assets, NEW m \in Metadata, ConfirmMismatch(a, m) PROVE TypeOK'
  BY <1>2 DEF ConfirmMismatch, Remove
<1>3. ASSUME NEW a \in Assets, Upload(a) PROVE TypeOK'
  BY <1>3 DEF Upload, SignedFor
<1>4. ASSUME NEW a \in Assets, UploadUrlExpires(a) PROVE TypeOK'
  BY <1>4 DEF UploadUrlExpires
<1>5. ASSUME NEW a \in Assets, DeleteAsset(a) PROVE TypeOK'
  BY <1>5 DEF DeleteAsset, Remove
<1>6. ASSUME NEW g \in Generations, NEW c \in [Assets -> Metadata \cup {Nothing}], Begin(g, c) PROVE TypeOK'
  BY <1>6 DEF Begin
<1>7. ASSUME NEW g \in Generations, Verify(g) PROVE TypeOK'
  BY <1>7 DEF Verify
<1>8. ASSUME NEW g \in Generations, VerifyFails(g) PROVE TypeOK'
  BY <1>8 DEF VerifyFails, Refuse
<1>9. ASSUME NEW g \in Generations, Resolve(g) PROVE TypeOK'
  BY <1>9 DEF Resolve
<1>10. ASSUME NEW g \in Generations, PostAccepted(g) PROVE TypeOK'
  BY <1>10 DEF PostAccepted, Start, Forget, Keys
<1>11. ASSUME NEW g \in Generations, PostRefused(g) PROVE TypeOK'
  <2>1. object' \in [Assets -> Metadata \cup {Nothing}] /\ removed' \in [Assets -> Removers]
    BY <1>11 DEF PostRefused, Remove
  <2>2. at[g] = "post" /\ UNCHANGED <<uploadVars, signed, listed, ended>>
    BY <1>11 DEF PostRefused
  <2>3. CASE Refuse(g) /\ UNCHANGED <<attempt, gpuVars>>
    BY <2>1, <2>2, <2>3 DEF Refuse
  <2>4. CASE Start(g) /\ UNCHANGED claim
    BY <2>1, <2>2, <2>4 DEF Start, Forget, Keys
  <2> QED BY <1>11, <2>3, <2>4 DEF PostRefused
<1>12. ASSUME NEW g \in Generations, GetUrlsExpire(g) PROVE TypeOK'
  BY <1>12 DEF GetUrlsExpire
<1>13. ASSUME NEW g \in Generations, Stage(g) PROVE TypeOK'
  BY <1>13 DEF Stage
<1>14. ASSUME NEW g \in Generations, StageMisses(g) PROVE TypeOK'
  BY <1>14 DEF StageMisses, EndAttempt, Forget
<1>15. ASSUME NEW g \in Generations, AttemptEnds(g) PROVE TypeOK'
  BY <1>15 DEF AttemptEnds, EndAttempt, Forget
<1>16. ASSUME NEW g \in Generations, End(g) PROVE TypeOK'
  BY <1>16 DEF End, Forget
<1>17. ASSUME NEW g \in Generations, CleanUp(g) PROVE TypeOK'
  BY <1>17 DEF CleanUp, Remove, Keys
<1>18. ASSUME NEW g \in Generations, Retry(g) PROVE TypeOK'
  BY <1>18 DEF Retry, Start, Forget, Keys
<1>19. CASE UNCHANGED vars BY <1>19 DEF vars
<1> QED
  BY <1>1, <1>2, <1>3, <1>4, <1>5, <1>6, <1>7, <1>8, <1>9, <1>10,
     <1>11, <1>12, <1>13, <1>14, <1>15, <1>16, <1>17, <1>18, <1>19 DEF Next

\* The types hold for any assets, generations and limits.
THEOREM TypeCorrect == Spec => []TypeOK
BY InitTyping, StepTyping, PTL DEF Spec

-----------------------------------------------------------------------------
(* What is read.                                                           *)

\* The Worker has compared a with its descriptor in the request of g, and g may
\* still read it.
Admitted(g, a) ==
  /\ claim[g][a] # Nothing
  /\ at[g] \in {"post", "taken", "ended"} \/ (at[g] = "verify" /\ a \notin todo[g])

\* What makes ReadAsAdmitted inductive: an upload URL can only put back what was
\* there, since it was signed for it, and there is one per asset; so whatever
\* matched when it was admitted is what a later upload brings, too.
Signing ==
  /\ \A a \in Assets :
       /\ a \notin issued => put[a] = Nothing /\ object[a] = Nothing
       /\ put[a] # Nothing /\ object[a] # Nothing => object[a] = put[a]
  /\ \A g \in Generations, a \in Assets :
       /\ Admitted(g, a) =>
            /\ a \in issued
            /\ object[a] # Nothing => Matches(object[a], claim[g][a])
            /\ put[a] # Nothing => Matches(put[a], claim[g][a])
       /\ a \in todo[g] => claim[g][a] # Nothing
       /\ at[g] \notin {"taken", "ended", "over"} => read[g][a] = Nothing

LEMMA InitSigning == Init => Signing /\ ReadAsAdmitted
  BY DEF Init, Signing, Admitted, ReadAsAdmitted

\* Every step preserves it.
LEMMA StepSigning ==
  TypeOK /\ Signing /\ ReadAsAdmitted /\ [Next]_vars => Signing' /\ ReadAsAdmitted'
<1> SUFFICES ASSUME TypeOK, Signing, ReadAsAdmitted, [Next]_vars
             PROVE  Signing' /\ ReadAsAdmitted'
  OBVIOUS
<1> USE DEF TypeOK, Signing, Admitted, ReadAsAdmitted
<1>1. ASSUME NEW a \in Assets, NEW m \in Metadata, Authorize(a, m) PROVE Signing' /\ ReadAsAdmitted'
  BY <1>1 DEF Authorize, Matches
<1>2. ASSUME NEW a \in Assets, NEW m \in Metadata, ConfirmMismatch(a, m) PROVE Signing' /\ ReadAsAdmitted'
  BY <1>2 DEF ConfirmMismatch, Remove
<1>3. ASSUME NEW a \in Assets, Upload(a) PROVE Signing' /\ ReadAsAdmitted'
  BY <1>3 DEF Upload, SignedFor
<1>4. ASSUME NEW a \in Assets, UploadUrlExpires(a) PROVE Signing' /\ ReadAsAdmitted'
  BY <1>4 DEF UploadUrlExpires
<1>5. ASSUME NEW a \in Assets, DeleteAsset(a) PROVE Signing' /\ ReadAsAdmitted'
  BY <1>5 DEF DeleteAsset, Remove
<1>6. ASSUME NEW g \in Generations, NEW c \in [Assets -> Metadata \cup {Nothing}], Begin(g, c) PROVE Signing' /\ ReadAsAdmitted'
  BY <1>6 DEF Begin
<1>7. ASSUME NEW g \in Generations, Verify(g) PROVE Signing' /\ ReadAsAdmitted'
  BY <1>7 DEF Verify, Matches
<1>8. ASSUME NEW g \in Generations, VerifyFails(g) PROVE Signing' /\ ReadAsAdmitted'
  BY <1>8 DEF VerifyFails, Refuse
<1>9. ASSUME NEW g \in Generations, Resolve(g) PROVE Signing' /\ ReadAsAdmitted'
  BY <1>9 DEF Resolve
<1>10. ASSUME NEW g \in Generations, PostAccepted(g) PROVE Signing' /\ ReadAsAdmitted'
  BY <1>10 DEF PostAccepted, Start, Forget, Keys
<1>11. ASSUME NEW g \in Generations, PostRefused(g) PROVE Signing' /\ ReadAsAdmitted'
  <2>1. \A a \in Assets : object'[a] = object[a] \/ object'[a] = Nothing
    BY <1>11 DEF PostRefused, Remove
  <2>2. at[g] = "post" /\ UNCHANGED <<uploadVars, signed, listed, ended>>
    BY <1>11 DEF PostRefused
  <2>3. CASE Refuse(g) /\ UNCHANGED <<attempt, gpuVars>>
    <3>1. \A a \in Assets : ~Admitted(g, a)' /\ a \notin todo'[g] /\ read'[g][a] = Nothing
      BY <2>2, <2>3 DEF Refuse
    <3>2. \A h \in Generations \ {g} :
            at'[h] = at[h] /\ claim'[h] = claim[h] /\ todo'[h] = todo[h] /\ read'[h] = read[h]
      BY <2>3 DEF Refuse
    <3>3. \A a \in Assets :
            /\ a \notin issued' => put'[a] = Nothing /\ object'[a] = Nothing
            /\ put'[a] # Nothing /\ object'[a] # Nothing => object'[a] = put'[a]
      BY <2>1, <2>2
    <3>4. \A h \in Generations \ {g}, a \in Assets :
            /\ Admitted(h, a)' =>
                 /\ a \in issued'
                 /\ object'[a] # Nothing => Matches(object'[a], claim'[h][a])
                 /\ put'[a] # Nothing => Matches(put'[a], claim'[h][a])
            /\ a \in todo'[h] => claim'[h][a] # Nothing
            /\ at'[h] \notin {"taken", "ended", "over"} => read'[h][a] = Nothing
      BY <2>1, <2>2, <3>2
    <3>5. \A h \in Generations, a \in Assets :
            read'[h][a] # Nothing => Matches(read'[h][a], claim'[h][a])
      BY <2>2, <3>1, <3>2
    <3>6. \A h \in Generations : h = g \/ h \in Generations \ {g}
      OBVIOUS
    <3>7. Signing'
      BY <3>1, <3>3, <3>4, <3>6
    <3> QED BY <3>5, <3>7
  <2>4. CASE Start(g) /\ UNCHANGED claim
    <3>1. \A a \in Assets :
            /\ Admitted(g, a)' => Admitted(g, a)
            /\ a \in todo'[g] => claim[g][a] # Nothing
            /\ read'[g][a] = Nothing
      BY <2>2, <2>4 DEF Start, Forget, Keys
    <3>2. \A h \in Generations \ {g} :
            at'[h] = at[h] /\ todo'[h] = todo[h] /\ read'[h] = read[h]
      BY <2>4 DEF Start, Forget
    <3>3. \A a \in Assets :
            /\ a \notin issued' => put'[a] = Nothing /\ object'[a] = Nothing
            /\ put'[a] # Nothing /\ object'[a] # Nothing => object'[a] = put'[a]
      BY <2>1, <2>2
    <3>4. UNCHANGED claim /\ at'[g] = "taken"
      BY <2>4 DEF Start
    <3>5. \A h \in Generations, a \in Assets :
            (Admitted(h, a)' => Admitted(h, a)) /\ (a \in todo'[h] => claim[h][a] # Nothing)
      BY <3>1, <3>2, <3>4
    <3>6. \A h \in Generations, a \in Assets :
            read'[h][a] = Nothing \/ (h # g /\ read'[h][a] = read[h][a])
      BY <3>1, <3>2
    <3>7. Signing'
      BY <2>1, <2>2, <3>2, <3>3, <3>4, <3>5, <3>6
    <3>8. ReadAsAdmitted'
      BY <3>4, <3>6
    <3> QED BY <3>7, <3>8
  <2> QED BY <1>11, <2>3, <2>4 DEF PostRefused
<1>12. ASSUME NEW g \in Generations, GetUrlsExpire(g) PROVE Signing' /\ ReadAsAdmitted'
  BY <1>12 DEF GetUrlsExpire
<1>13. ASSUME NEW g \in Generations, Stage(g) PROVE Signing' /\ ReadAsAdmitted'
  BY <1>13 DEF Stage
<1>14. ASSUME NEW g \in Generations, StageMisses(g) PROVE Signing' /\ ReadAsAdmitted'
  BY <1>14 DEF StageMisses, EndAttempt, Forget
<1>15. ASSUME NEW g \in Generations, AttemptEnds(g) PROVE Signing' /\ ReadAsAdmitted'
  BY <1>15 DEF AttemptEnds, EndAttempt, Forget
<1>16. ASSUME NEW g \in Generations, End(g) PROVE Signing' /\ ReadAsAdmitted'
  BY <1>16 DEF End, Forget
<1>17. ASSUME NEW g \in Generations, CleanUp(g) PROVE Signing' /\ ReadAsAdmitted'
  BY <1>17 DEF CleanUp, Remove, Keys
<1>18. ASSUME NEW g \in Generations, Retry(g) PROVE Signing' /\ ReadAsAdmitted'
  BY <1>18 DEF Retry, Start, Forget, Keys
<1>19. CASE UNCHANGED vars BY <1>19 DEF vars
<1> QED
  BY <1>1, <1>2, <1>3, <1>4, <1>5, <1>6, <1>7, <1>8, <1>9, <1>10,
     <1>11, <1>12, <1>13, <1>14, <1>15, <1>16, <1>17, <1>18, <1>19 DEF Next

\* What the GPU reads is of the type and the size that were admitted, although the
\* object may have been deleted and uploaded again in between.
THEOREM AdmittedIsRead == Spec => []ReadAsAdmitted
BY InitTyping, StepTyping, InitSigning, StepSigning, PTL DEF Spec
-----------------------------------------------------------------------------
(* Missing references.                                                     *)

\* What makes MissedForACause inductive: a generation deletes nothing before one of
\* its attempts has ended, which the first of them has not while it reads; and what
\* the Worker saw is there until somebody deletes it.
Blaming ==
  /\ \A a \in Assets : removed[a] \in Generations => ended[removed[a]] # 0
  /\ \A g \in Generations :
       /\ ended[g] <= attempt[g]
       /\ at[g] = "taken" => ended[g] < attempt[g]
  /\ \A g \in Generations, a \in Assets :
       Admitted(g, a) => object[a] # Nothing \/ removed[a] # "nobody"

LEMMA InitBlaming == Init => Blaming /\ MissedForACause
  BY GenerationsAssumption DEF Init, Blaming, Admitted, MissedForACause

\* Every step preserves it.
LEMMA StepBlaming ==
  TypeOK /\ Signing /\ Blaming /\ MissedForACause /\ [Next]_vars => Blaming' /\ MissedForACause'
<1> SUFFICES ASSUME TypeOK, Signing, Blaming, MissedForACause, [Next]_vars
             PROVE  Blaming' /\ MissedForACause'
  OBVIOUS
<1> USE GenerationsAssumption
<1> USE DEF TypeOK, Removers, Blaming, Admitted, MissedForACause
<1>1. ASSUME NEW a \in Assets, NEW m \in Metadata, Authorize(a, m) PROVE Blaming' /\ MissedForACause'
  BY <1>1 DEF Authorize
<1>2. ASSUME NEW a \in Assets, NEW m \in Metadata, ConfirmMismatch(a, m) PROVE Blaming' /\ MissedForACause'
  BY <1>2 DEF ConfirmMismatch, Remove
<1>3. ASSUME NEW a \in Assets, Upload(a) PROVE Blaming' /\ MissedForACause'
  BY <1>3 DEF Upload, SignedFor
<1>4. ASSUME NEW a \in Assets, UploadUrlExpires(a) PROVE Blaming' /\ MissedForACause'
  BY <1>4 DEF UploadUrlExpires
<1>5. ASSUME NEW a \in Assets, DeleteAsset(a) PROVE Blaming' /\ MissedForACause'
  BY <1>5 DEF DeleteAsset, Remove
<1>6. ASSUME NEW g \in Generations, NEW c \in [Assets -> Metadata \cup {Nothing}], Begin(g, c) PROVE Blaming' /\ MissedForACause'
  BY <1>6 DEF Begin
<1>7. ASSUME NEW g \in Generations, Verify(g) PROVE Blaming' /\ MissedForACause'
  BY <1>7 DEF Verify, Matches
<1>8. ASSUME NEW g \in Generations, VerifyFails(g) PROVE Blaming' /\ MissedForACause'
  BY <1>8 DEF VerifyFails, Refuse
<1>9. ASSUME NEW g \in Generations, Resolve(g) PROVE Blaming' /\ MissedForACause'
  BY <1>9 DEF Resolve
<1>10. ASSUME NEW g \in Generations, PostAccepted(g) PROVE Blaming' /\ MissedForACause'
  BY <1>10 DEF PostAccepted, Start, Forget, Keys
<1>11. ASSUME NEW g \in Generations, PostRefused(g) PROVE Blaming' /\ MissedForACause'
  <2>1. \A a \in Assets :
          /\ removed'[a] \in {removed[a], "refusal"}
          /\ object[a] # Nothing => object'[a] # Nothing \/ removed'[a] = "refusal"
    BY <1>11 DEF PostRefused, Remove
  <2>2. at[g] = "post" /\ UNCHANGED ended /\ ended[g] = 0
    BY <1>11 DEF PostRefused
  <2>3. /\ \A h \in Generations, a \in Assets : Admitted(h, a)' => Admitted(h, a)
        /\ \A h \in Generations :
             \/ /\ attempt'[h] = attempt[h]
                /\ missed'[h] = missed[h]
                /\ at'[h] = "taken" => at[h] = "taken"
             \/ h = g /\ attempt'[g] = 1 /\ missed'[g] = "none"
    <3>1. CASE Refuse(g) /\ UNCHANGED <<attempt, gpuVars>>
      BY <2>2, <3>1 DEF Refuse
    <3>2. CASE Start(g) /\ UNCHANGED claim
      BY <2>2, <3>2 DEF Start
    <3> QED BY <1>11, <3>1, <3>2 DEF PostRefused
  <2>4. \A a \in Assets : removed'[a] \in Generations => ended'[removed'[a]] # 0
    BY <2>1, <2>2
  <2>5. \A h \in Generations : ended'[h] <= attempt'[h] /\ (at'[h] = "taken" => ended'[h] < attempt'[h])
    <3>1. TAKE h \in Generations
    <3>2. ended'[h] = ended[h] /\ ended[h] \in Nat /\ attempt[h] \in Nat
      BY <2>2
    <3> QED BY <2>2, <2>3, <3>2
  <2>6. \A h \in Generations, a \in Assets :
          Admitted(h, a)' => object'[a] # Nothing \/ removed'[a] # "nobody"
    <3>1. SUFFICES ASSUME NEW h \in Generations, NEW a \in Assets, Admitted(h, a)'
                   PROVE  object'[a] # Nothing \/ removed'[a] # "nobody"
      OBVIOUS
    <3>2. Admitted(h, a)
      BY ONLY <2>3, <3>1
    <3>3. object[a] # Nothing \/ removed[a] # "nobody"
      BY <3>2
    <3> QED BY <2>1, <3>3
  <2>7. Blaming'
    BY <2>4, <2>5, <2>6
  <2>8. MissedForACause'
    BY <2>2, <2>3
  <2> QED BY <2>7, <2>8
<1>12. ASSUME NEW g \in Generations, GetUrlsExpire(g) PROVE Blaming' /\ MissedForACause'
  BY <1>12 DEF GetUrlsExpire
<1>13. ASSUME NEW g \in Generations, Stage(g) PROVE Blaming' /\ MissedForACause'
  BY <1>13 DEF Stage
<1>14. ASSUME NEW g \in Generations, StageMisses(g) PROVE Blaming' /\ MissedForACause'
  <2>1. PICK a \in todo[g] : object[a] = Nothing /\ missed' = [missed EXCEPT ![g] = removed[a]]
    BY <1>14 DEF StageMisses
  <2>2. /\ at[g] = "taken"
        /\ at' = [at EXCEPT ![g] = "ended"]
        /\ ended' = [ended EXCEPT ![g] = IF @ = 0 THEN attempt[g] ELSE @]
        /\ UNCHANGED <<object, removed, claim, attempt>>
        /\ todo' = [todo EXCEPT ![g] = {}]
    BY <1>14 DEF StageMisses, EndAttempt
  <2>3. a \in Assets /\ Admitted(g, a)
    BY <2>1, <2>2 DEF Signing
  <2>4. removed[a] \in {"client", "confirm", "refusal"} \cup Generations
    BY <2>1, <2>3
  <2>5. /\ \A h \in Generations : ended[h] # 0 => ended'[h] = ended[h]
        /\ \A h \in Generations : ended'[h] <= attempt'[h]
        /\ \A h \in Generations : at'[h] = "taken" => ended'[h] < attempt'[h]
        /\ \A h \in Generations : ended[h] # 0 => ended'[h] # 0
    BY <2>2
  <2>6. Blaming'
    BY <2>2, <2>5
  <2>7. removed[a] \in Generations => ended[removed[a]] # 0
    BY <2>3
  <2>8. removed[a] = g => ended'[g] \in 1 .. attempt'[g] - 1
    BY <2>2, <2>7
  <2>9. MissedForACause'
    BY <2>1, <2>2, <2>4, <2>5, <2>7, <2>8
  <2> QED BY <2>6, <2>9
<1>15. ASSUME NEW g \in Generations, AttemptEnds(g) PROVE Blaming' /\ MissedForACause'
  BY <1>15 DEF AttemptEnds, EndAttempt, Forget
<1>16. ASSUME NEW g \in Generations, End(g) PROVE Blaming' /\ MissedForACause'
  BY <1>16 DEF End, Forget
<1>17. ASSUME NEW g \in Generations, CleanUp(g) PROVE Blaming' /\ MissedForACause'
  BY <1>17 DEF CleanUp, Remove, Keys
<1>18. ASSUME NEW g \in Generations, Retry(g) PROVE Blaming' /\ MissedForACause'
  BY <1>18 DEF Retry, Start, Forget, Keys
<1>19. CASE UNCHANGED vars BY <1>19 DEF vars
<1> QED
  BY <1>1, <1>2, <1>3, <1>4, <1>5, <1>6, <1>7, <1>8, <1>9, <1>10,
     <1>11, <1>12, <1>13, <1>14, <1>15, <1>16, <1>17, <1>18, <1>19 DEF Next

\* A job misses no reference that the Worker saw, unless a client, a submission or an
\* attempt that ended took it away: in its first attempt, one of another generation.
THEOREM MissingHasACause == Spec => []MissedForACause
BY InitTyping, StepTyping, InitSigning, StepSigning, InitBlaming, StepBlaming, PTL DEF Spec
=============================================================================

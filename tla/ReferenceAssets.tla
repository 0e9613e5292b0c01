--------------------------- MODULE ReferenceAssets ---------------------------
(***************************************************************************)
(* The reference assets of one upload session: the asset routes of         *)
(* worker.js, the two uses generateCanonicalVideo makes of an asset (HEAD  *)
(* before the submission, a signed GET for the GPU) and the deletions at   *)
(* the end of a generation. Generations may name the same asset.           *)
(*                                                                         *)
(* Nothing holds an object while it is used: an upload URL lives for       *)
(* R2_PRESIGN_PUT_TTL_SECONDS, whatever became of the asset, and the GPU   *)
(* reads long after the Worker looked. RunPod retries a job whose worker   *)
(* died, and the retry reads again: by then an earlier attempt may have    *)
(* told the Worker of its end, which deletes the references while the job  *)
(* is still in progress. The rest of a job's life is ControlPlane's.       *)
(***************************************************************************)
EXTENDS Naturals, FiniteSets

CONSTANTS
  Assets,       \* asset ids, a fresh UUID each
  Generations,
  ContentTypes, \* of all media types; each belongs to one type
  MaxBytes,     \* MEDIA_TYPES: the limit of a content type's media type
  Sizes,
  MaxAttempts,  \* how often RunPod starts a job
  Nothing

ASSUME MaxBytesAssumption == MaxBytes \in [ContentTypes -> Nat]
ASSUME SizesAssumption    == Sizes \subseteq Nat
ASSUME AttemptsAssumption == MaxAttempts \in Nat \ {0}
ASSUME GenerationsAssumption ==
  Generations \cap {"none", "nobody", "client", "confirm", "refusal"} = {}
ASSUME NothingAssumption  == Nothing \notin [contentType : ContentTypes, size : Sizes]

VARIABLES
  put,      \* [asset -> what its upload URL was signed for, or Nothing]
  issued,   \* the assets that were ever authorised
  object,   \* [asset -> the object in R2, or Nothing]
  removed,  \* [asset -> who deleted its object since it was uploaded (history)]
  at,       \* [generation -> where it is]
  claim,    \* [generation -> [asset -> the descriptor the request has of it, or Nothing]]
  todo,     \* [generation -> assets still to be verified, then to be staged]
  signed,   \* generations whose GET URLs are valid
  listed,   \* generations whose channel lists referenceObjectKeys
  attempt,  \* [generation -> how often RunPod has started its job]
  ended,    \* [generation -> the first attempt that delivered or failed, or 0 (history)]
  read,     \* [generation -> [asset -> what its running attempt has read, or Nothing]]
  missed    \* [generation -> who had deleted the reference its attempt missed (history)]

vars == <<put, issued, object, removed, at, claim, todo, signed, listed, attempt, ended,
          read, missed>>

uploadVars == <<put, issued>>
jobVars    == <<listed, attempt, ended>>
gpuVars    == <<read, missed>>

Metadata == [contentType : ContentTypes, size : Sizes]
Removers == {"nobody", "client", "confirm", "refusal"} \cup Generations
\* taken: RunPod has the job, and an attempt may be running; ended: the attempt
\* has delivered or failed, and the job is still in progress for RunPod.
Places   == {"new", "verify", "post", "refused", "taken", "ended", "over"}

TypeOK ==
  /\ put \in [Assets -> Metadata \cup {Nothing}]
  /\ issued \subseteq Assets
  /\ object \in [Assets -> Metadata \cup {Nothing}]
  /\ removed \in [Assets -> Removers]
  /\ at \in [Generations -> Places]
  /\ claim \in [Generations -> [Assets -> Metadata \cup {Nothing}]]
  /\ todo \in [Generations -> SUBSET Assets]
  /\ signed \subseteq Generations
  /\ listed \subseteq Generations
  /\ attempt \in [Generations -> 0 .. MaxAttempts]
  /\ ended \in [Generations -> 0 .. MaxAttempts]
  /\ read \in [Generations -> [Assets -> Metadata \cup {Nothing}]]
  /\ missed \in [Generations -> Removers \cup {"none"}]
  \* RunPod has not started what it does not have.
  /\ \A g \in Generations :
       at[g] \in {"new", "verify", "post"} => attempt[g] = 0 /\ ended[g] = 0

Init ==
  /\ put = [a \in Assets |-> Nothing]
  /\ issued = {}
  /\ object = [a \in Assets |-> Nothing]
  /\ removed = [a \in Assets |-> "nobody"]
  /\ at = [g \in Generations |-> "new"]
  /\ claim = [g \in Generations |-> [a \in Assets |-> Nothing]]
  /\ todo = [g \in Generations |-> {}]
  /\ signed = {}
  /\ listed = {}
  /\ attempt = [g \in Generations |-> 0]
  /\ ended = [g \in Generations |-> 0]
  /\ read = [g \in Generations |-> [a \in Assets |-> Nothing]]
  /\ missed = [g \in Generations |-> "none"]

\* resolved.objectKeys and referenceObjectKeys.
Keys(g) == {a \in Assets : claim[g][a] # Nothing}

\* Objects go, and `who` is remembered for those that were there.
Remove(keys, who) ==
  /\ object' = [a \in Assets |-> IF a \in keys THEN Nothing ELSE object[a]]
  /\ removed' = [a \in Assets |->
                   IF a \in keys /\ object[a] # Nothing THEN who ELSE removed[a]]

-----------------------------------------------------------------------------
(* The asset routes.                                                       *)

\* createReferenceObject: a new id, and a size within the limit of its type.
Authorize(a, m) ==
  /\ a \notin issued
  /\ m.size \in 1 .. MaxBytes[m.contentType]
  /\ issued' = issued \cup {a}
  /\ put' = [put EXCEPT ![a] = m]
  /\ UNCHANGED <<object, removed, at, claim, todo, signed, jobVars, gpuVars>>

\* Mutant of SignedFor: content-length is not among the signed headers.
SignedForAnyLength(m) == {x \in Metadata : x.contentType = m.contentType}

\* The bodies R2 takes under a URL signReferencePut made for m.
SignedFor(m) == {x \in Metadata : x = m}

\* The client uploads, perhaps again, perhaps after the asset was used or deleted.
Upload(a) ==
  /\ put[a] # Nothing
  /\ \E x \in SignedFor(put[a]) : object' = [object EXCEPT ![a] = x]
  /\ removed' = [removed EXCEPT ![a] = "nobody"]
  /\ UNCHANGED <<uploadVars, at, claim, todo, signed, jobVars, gpuVars>>

UploadUrlExpires(a) ==
  /\ put[a] # Nothing
  /\ put' = [put EXCEPT ![a] = Nothing]
  /\ UNCHANGED <<issued, object, removed, at, claim, todo, signed, jobVars, gpuVars>>

\* verifyCanonicalAsset: what is stored against the descriptor of the request,
\* which the client wrote. Size 0: the descriptor has none.
Matches(stored, described) ==
  /\ stored # Nothing
  /\ stored.size \in 1 .. MaxBytes[described.contentType]
  /\ stored.contentType = described.contentType
  /\ described.size > 0 => stored.size = described.size

\* confirmCanonicalAsset deletes what does not match, if R2 does; confirming one
\* that matches, or is not there, changes nothing.
ConfirmMismatch(a, m) ==
  /\ object[a] # Nothing
  /\ ~Matches(object[a], m)
  /\ Remove({a}, "confirm")
  /\ UNCHANGED <<uploadVars, at, claim, todo, signed, jobVars, gpuVars>>

\* By its id, or with all of a generation's (deleteGeneration).
DeleteAsset(a) ==
  /\ object[a] # Nothing
  /\ Remove({a}, "client")
  /\ UNCHANGED <<uploadVars, at, claim, todo, signed, jobVars, gpuVars>>

-----------------------------------------------------------------------------
(* generateCanonicalVideo.                                                 *)

Begin(g, c) ==
  /\ at[g] = "new"
  /\ at' = [at EXCEPT ![g] = "verify"]
  /\ claim' = [claim EXCEPT ![g] = c]
  /\ todo' = [todo EXCEPT ![g] = {a \in Assets : c[a] # Nothing}]
  /\ UNCHANGED <<uploadVars, object, removed, signed, jobVars, gpuVars>>

\* One HEAD per descriptor, one after the other.
Verify(g) ==
  /\ at[g] = "verify"
  /\ \E a \in todo[g] :
       /\ Matches(object[a], claim[g][a])
       /\ todo' = [todo EXCEPT ![g] = @ \ {a}]
  /\ UNCHANGED <<uploadVars, object, removed, at, claim, signed, jobVars, gpuVars>>

\* The request is over, and nothing refers to its descriptors any more.
Refuse(g) ==
  /\ at' = [at EXCEPT ![g] = "refused"]
  /\ claim' = [claim EXCEPT ![g] = [a \in Assets |-> Nothing]]
  /\ todo' = [todo EXCEPT ![g] = {}]

VerifyFails(g) ==
  /\ at[g] = "verify"
  /\ \E a \in todo[g] : ~Matches(object[a], claim[g][a])
  /\ Refuse(g)
  /\ UNCHANGED <<uploadVars, object, removed, signed, jobVars, gpuVars>>

\* resolveReferenceAssets: the GET URLs, before the POST to RunPod.
Resolve(g) ==
  /\ at[g] = "verify"
  /\ todo[g] = {}
  /\ at' = [at EXCEPT ![g] = "post"]
  /\ signed' = signed \cup {g}
  /\ UNCHANGED <<uploadVars, object, removed, claim, todo, jobVars, gpuVars>>

\* A container has nothing of an earlier attempt (JobHandler: InputsPurged).
Forget(g) == read' = [read EXCEPT ![g] = [a \in Assets |-> Nothing]]

\* RunPod starts the job, which has everything still to read.
Start(g) ==
  /\ at' = [at EXCEPT ![g] = "taken"]
  /\ todo' = [todo EXCEPT ![g] = Keys(g)]
  /\ attempt' = [attempt EXCEPT ![g] = @ + 1]
  /\ Forget(g)
  /\ missed' = [missed EXCEPT ![g] = "none"]

\* The channel learns the keys after the POST.
PostAccepted(g) ==
  /\ at[g] = "post"
  /\ Start(g)
  /\ listed' = listed \cup {g}
  /\ UNCHANGED <<uploadVars, object, removed, claim, signed, ended>>

\* An error, or no id in the answer: the references go, if R2 lets them. RunPod
\* may have taken the job all the same.
PostRefused(g) ==
  /\ at[g] = "post"
  /\ \/ /\ Refuse(g)
        /\ UNCHANGED <<attempt, gpuVars>>
     \/ /\ Start(g)
        /\ UNCHANGED claim
  /\ \/ Remove(Keys(g), "refusal")
     \/ UNCHANGED <<object, removed>>
  /\ UNCHANGED <<uploadVars, signed, listed, ended>>

-----------------------------------------------------------------------------
(* The job: staging on the GPU, and its end.                               *)

GetUrlsExpire(g) ==
  /\ g \in signed
  /\ signed' = signed \ {g}
  /\ UNCHANGED <<uploadVars, object, removed, at, claim, todo, jobVars, gpuVars>>

\* _stage_image_reference, _stage_media_reference: the limits are the Worker's.
Stage(g) ==
  /\ at[g] = "taken"
  /\ g \in signed
  /\ \E a \in todo[g] :
       /\ object[a] # Nothing
       /\ object[a].size <= MaxBytes[object[a].contentType]
       /\ read' = [read EXCEPT ![g][a] = object[a]]
       /\ todo' = [todo EXCEPT ![g] = @ \ {a}]
  /\ UNCHANGED <<uploadVars, object, removed, at, claim, signed, jobVars, missed>>

\* The attempt's failed callback, or its artefact, is on its way to the Worker.
\* Either can be all that is left of the attempt when its worker dies.
EndAttempt(g) ==
  /\ at' = [at EXCEPT ![g] = "ended"]
  /\ todo' = [todo EXCEPT ![g] = {}]
  /\ ended' = [ended EXCEPT ![g] = IF @ = 0 THEN attempt[g] ELSE @]
  /\ Forget(g)

\* There is nothing to read.
StageMisses(g) ==
  /\ at[g] = "taken"
  /\ g \in signed
  /\ \E a \in todo[g] :
       /\ object[a] = Nothing
       /\ missed' = [missed EXCEPT ![g] = removed[a]]
  /\ EndAttempt(g)
  /\ UNCHANGED <<uploadVars, object, removed, claim, signed, listed, attempt>>

\* Everything was staged and the artefact is delivered; or any statement fails,
\* for an expired URL, a download, a media check or what comes after them.
AttemptEnds(g) ==
  /\ at[g] = "taken"
  /\ EndAttempt(g)
  /\ UNCHANGED <<uploadVars, object, removed, claim, signed, listed, attempt, missed>>

\* The worker died, before or after its attempt came to an end: the same payload
\* again, with the same URLs.
Retry(g) ==
  /\ at[g] \in {"taken", "ended"}
  /\ attempt[g] < MaxAttempts
  /\ Start(g)
  /\ UNCHANGED <<uploadVars, object, removed, claim, signed, listed, ended>>

\* RunPod's record is terminal: done, failed, cancelled, or its time to live over.
\* Nobody will ask for the job's URLs.
End(g) ==
  /\ at[g] \in {"taken", "ended"}
  /\ at' = [at EXCEPT ![g] = "over"]
  /\ todo' = [todo EXCEPT ![g] = {}]
  /\ ended' = [ended EXCEPT ![g] = IF @ = 0 THEN attempt[g] ELSE @]
  /\ signed' = signed \ {g}
  /\ Forget(g)
  /\ missed' = [missed EXCEPT ![g] = "none"]
  /\ UNCHANGED <<uploadVars, object, removed, claim, listed, attempt>>

\* Mutant of CleanUp: every progress callback of a job is taken for its last.
CleanUpAtAnyReport(g) ==
  /\ g \in listed
  /\ Remove(Keys(g), g)
  /\ UNCHANGED <<uploadVars, at, claim, todo, signed, jobVars, gpuVars>>

\* cleanupReferenceObjects: by the terminal callback of an attempt or the upload of
\* its artefact, with the record still in progress and perhaps with the next
\* attempt at work; by the poll or the cancel that knows the record is terminal.
\* If its deletion or the channel failed it may come again, or never.
CleanUp(g) ==
  /\ g \in listed
  /\ ended[g] # 0
  /\ Remove(Keys(g), g)
  /\ UNCHANGED <<uploadVars, at, claim, todo, signed, jobVars, gpuVars>>

-----------------------------------------------------------------------------
Next ==
  \/ \E a \in Assets :
       \/ \E m \in Metadata : Authorize(a, m) \/ ConfirmMismatch(a, m)
       \/ Upload(a) \/ UploadUrlExpires(a) \/ DeleteAsset(a)
  \/ \E g \in Generations :
       \/ \E c \in [Assets -> Metadata \cup {Nothing}] : Begin(g, c)
       \/ Verify(g) \/ VerifyFails(g) \/ Resolve(g) \/ PostAccepted(g) \/ PostRefused(g)
       \/ GetUrlsExpire(g) \/ Stage(g) \/ StageMisses(g) \/ AttemptEnds(g)
       \/ Retry(g) \/ End(g) \/ CleanUp(g)

Spec == Init /\ [][Next]_vars

-----------------------------------------------------------------------------
(* What the GPU and the other generations may rely on.                     *)

\* What the GPU reads is what was admitted: of the type and the size the Worker
\* saw, and within the type's limit, although the object may have been deleted
\* and uploaded again in between, under a URL that outlives both. (Its bytes may
\* differ: nothing pins the etag the Worker saw.)
ReadAsAdmitted ==
  \A g \in Generations, a \in Assets :
    read[g][a] # Nothing => Matches(read[g][a], claim[g][a])

\* A reference that was there when the Worker looked is missing on the GPU only if
\* a client deleted it or confirmed it with other metadata, a submission that names
\* it was answered with an error, or an attempt that names it came to an end: of
\* another generation, or an earlier one of its own, whose callback or upload made
\* the Worker delete what RunPod's retry reads again. The first attempt never misses
\* what its own generation deleted, nor does the retry of one that was merely lost.
MissedForACause ==
  \A g \in Generations :
    \/ missed[g] \in {"none", "client", "confirm", "refusal"}
    \/ \E h \in Generations \ {g} : missed[g] = h /\ ended[h] # 0
    \/ missed[g] = g /\ ended[g] \in 1 .. attempt[g] - 1
=============================================================================

-------------------------- MODULE CanonicalRequest --------------------------
(***************************************************************************)
(* One product request, judged twice.  worker.js validates it against the  *)
(* capability document a GPU worker published; the GPU worker parses it    *)
(* again (privora/request.py, references.py, canvas.py, models.py), checks *)
(* the media it downloaded (media.py) and builds the ComfyUI graph         *)
(* (prompt.py, workflows.py).  This module holds the pure part of both.    *)
(*                                                                         *)
(* A release is what a GPU worker was built and booted with: its build     *)
(* identity, its quality tiers and the model files on its disk.  An input  *)
(* is a record of the fields the two sides tell apart; duration is in      *)
(* ten-thousandths of a second, the precision of the capability document.  *)
(* A reference carries the length of its file (and of its soundtrack) in   *)
(* seconds, which nobody knows before the GPU worker has probed the file.  *)
(***************************************************************************)
EXTENDS Integers, FiniteSets, FiniteSetsExt, Sequences

Modes == {"create", "animate", "references", "remix"}
MediaTypes == {"image", "video", "audio"}
GenerationModes == {"quality", "turbo", "turboFast"}
NoSoundtrack == -1

ModeFamily(mode) == IF mode \in {"create", "animate"} THEN "fl2va" ELSE "ref2va"

(* The roles the properties tell apart: every type takes "general", "guided" *)
(* stands for a role with guidance, "source" is a role of videos alone.      *)
Roles(type) == {"general", "guided"} \cup IF type = "video" THEN {"source"} ELSE {}
HasGuidance(role) == role # "general"

(***************************************************************************)
(* canvas.py: durations and frames.                                        *)
(***************************************************************************)
FPS == 24
MinFrames == 5
MaxFrames == 3600
Second == 10000

(* The first frame count from n on the 17k+5 grid. *)
OnGrid(n) == n % 17 = 5
AlignFrameCount(n) ==
    LET frames == IF n < MinFrames THEN MinFrames ELSE n
    IN  CHOOSE m \in frames .. frames + 16 : OnGrid(m)

(* The largest frame count on the grid that the node takes. *)
MaximumAlignedFrameCountCeiling == MaxFrames                            \* mutant
MaximumAlignedFrameCount ==
    CHOOSE m \in MinFrames .. MaxFrames :
        /\ OnGrid(m)
        /\ \A k \in m + 1 .. MaxFrames : AlignFrameCount(k) > MaxFrames

(* Python's round of a / b for b even or odd: halves go to the even side. *)
RoundHalfEven(a, b) ==
    LET q == a \div b
        twice == 2 * (a % b)
    IN  IF twice > b \/ (twice = b /\ q % 2 = 1) THEN q + 1 ELSE q

RequestedFrames(duration) == RoundHalfEven(duration * FPS, Second)
ResolveCanvasFramesUnaligned(duration) == RequestedFrames(duration)     \* mutant
ResolveCanvasFrames(duration) == AlignFrameCount(RequestedFrames(duration))

(***************************************************************************)
(* references.py: what a list of references consists of, by the positions  *)
(* in the list (the code splits it by type, in its order).  A file is      *)
(* <<i, "media">> or <<i, "soundtrack">> for the i-th reference.           *)
(***************************************************************************)
OfType(refs, type) == {i \in DOMAIN refs : refs[i].type = type}
HasSoundtrack(ref) == ref.soundtrack # NoSoundtrack
WithSoundtrack(refs) == {i \in OfType(refs, "video") : HasSoundtrack(refs[i])}
FileCount(refs) == Len(refs) + Cardinality(WithSoundtrack(refs))
Files(refs) == (DOMAIN refs) \X {"media"} \cup WithSoundtrack(refs) \X {"soundtrack"}

(* What enumerate(..., start=1) gives reference i among those of a kind. *)
PositionIn(indices, i) == Cardinality({k \in indices : k <= i})

(* The ordinals that the prompt's tags use.  Soundtracks come first among  *)
(* the audio ordinals, in the order of their videos.                       *)
AssignOrdinalsFromOne(refs) ==                                          \* mutant
    [file \in Files(refs) |->
        IF file[2] = "soundtrack" THEN PositionIn(WithSoundtrack(refs), file[1])
        ELSE PositionIn(OfType(refs, refs[file[1]].type), file[1])]
AssignOrdinals(refs) ==
    [file \in Files(refs) |->
        IF file[2] = "soundtrack" THEN PositionIn(WithSoundtrack(refs), file[1])
        ELSE PositionIn(OfType(refs, refs[file[1]].type), file[1])
             + IF refs[file[1]].type = "audio" THEN Cardinality(WithSoundtrack(refs)) ELSE 0]

(* The bindings the compiled prompt states: a tag for each file whose role *)
(* has guidance (a soundtrack takes the role of its reference here).       *)
CompilePrompt(refs) ==
    LET ordinal == AssignOrdinals(refs)
    IN  {[file |-> f, ordinal |-> ordinal[f],
          kind |-> IF f[2] = "soundtrack" THEN "audio" ELSE refs[f[1]].type] :
             f \in {g \in Files(refs) : HasGuidance(refs[g[1]].role)}}

Within(refs, limits) ==
    /\ Cardinality(OfType(refs, "image")) <= limits.maxImages
    /\ Cardinality(OfType(refs, "video")) <= limits.maxVideos
    /\ Cardinality(OfType(refs, "audio")) <= limits.maxAudio
    /\ Cardinality(WithSoundtrack(refs)) <= limits.maxVideoSoundtracks
    /\ FileCount(refs) <= limits.maxTotal

ReferenceLimits == [maxImages |-> 9, maxVideos |-> 3, maxAudio |-> 3,
                    maxVideoSoundtracks |-> 3, maxTotal |-> 12]

(* references.validate, with the checks _reference_from makes before it. *)
ValidateReferences(refs) ==
    /\ \A i \in DOMAIN refs :
          /\ refs[i].type \in MediaTypes
          /\ HasSoundtrack(refs[i]) => refs[i].type = "video"
          /\ refs[i].role \in Roles(refs[i].type)
    /\ Within(refs, ReferenceLimits)

(***************************************************************************)
(* models.py: the files on the disk and what they make possible.           *)
(***************************************************************************)
Checkpoint(family) == family
(* The distilled LoRA of an accelerated mode; there is none for (ref2va,   *)
(* turbo), whose entry is absent from ACCELERATIONS.                       *)
Accelerations ==
    [fl2va |-> [quality |-> {}, turbo |-> {"fl2v_8step"}, turboFast |-> {"fl2v_4step"}],
     ref2va |-> [quality |-> {}, turboFast |-> {"ref2v_4step"}]]

HasFamily(release, family) == Checkpoint(family) \in release.files
HasAcceleration(release, family, mode) ==
    /\ mode \in DOMAIN Accelerations[family]
    /\ HasFamily(release, family)
    /\ Accelerations[family][mode] \subseteq release.files

(***************************************************************************)
(* request.capabilities and handler.worker_capabilities: the document a    *)
(* release publishes about itself.                                         *)
(***************************************************************************)
Document(release) ==
    [build |-> release.build,
     modes |-> {m \in Modes : ModeFamily(m) = "fl2va" \/ HasFamily(release, "ref2va")},
     quality |-> release.tiers,
     minDuration |-> RoundHalfEven(MinFrames * Second, FPS),
     maxDuration |-> RoundHalfEven(MaximumAlignedFrameCount * Second, FPS),
     references |-> ReferenceLimits,
     byFamily |-> [f \in {"fl2va", "ref2va"} |->
                     {m \in GenerationModes : HasAcceleration(release, f, m)}]]

(* worker.js isCanonicalCapabilityDocument, where every worker's document  *)
(* of this repository has the shape asked for except its quality tiers.    *)
IsCanonicalDocument(document) ==
    {"draft", "standard", "hd", "2k"} \subseteq document.quality

(***************************************************************************)
(* worker.js validateCanonicalInput.                                       *)
(***************************************************************************)
(* countReferences: keyframes count as images, a soundtrack as one audio.  *)
CountReferences(in) ==
    LET count(type) == Cardinality(OfType(in.references, type))
        frames == (IF in.firstFrame THEN 1 ELSE 0) + (IF in.lastFrame THEN 1 ELSE 0)
        soundtracks == Cardinality({i \in DOMAIN in.references : HasSoundtrack(in.references[i])})
    IN  [image |-> count("image") + frames, video |-> count("video"),
         audio |-> count("audio") + soundtracks, soundtracks |-> soundtracks,
         total |-> Len(in.references) + frames + soundtracks]

WithinDocument(counts, limits) ==
    /\ counts.image <= limits.maxImages
    /\ counts.video <= limits.maxVideos
    /\ counts.audio - counts.soundtracks <= limits.maxAudio
    /\ counts.soundtracks <= limits.maxVideoSoundtracks
    /\ counts.total <= limits.maxTotal

ValidMediaHandle(ref) ==
    /\ ref.type \in MediaTypes
    /\ ref.role \in Roles(ref.type)
    /\ HasSoundtrack(ref) => ref.type = "video"

HasKeyframe(in) == in.firstFrame \/ in.lastFrame
HasSource(in) ==
    \E i \in DOMAIN in.references :
        in.references[i].type = "video" /\ in.references[i].role = "source"

ValidateCanonicalInput(in, document) ==
    /\ in.mode \in document.modes
    /\ in.quality \in document.quality
    /\ in.duration > 0
    /\ in.duration \in document.minDuration .. document.maxDuration
    /\ in.generationMode \in document.byFamily[ModeFamily(in.mode)]
    /\ \A i \in DOMAIN in.references : ValidMediaHandle(in.references[i])
    /\ in.mode = "create" => ~HasKeyframe(in) /\ in.references = <<>>
    /\ in.mode = "animate" => HasKeyframe(in) /\ in.references = <<>>
    /\ in.mode \in {"references", "remix"} => ~HasKeyframe(in)
    /\ in.mode = "references" => in.references # <<>>
    /\ in.mode = "remix" => HasSource(in)
    /\ WithinDocument(CountReferences(in), document.references)
    /\ in.confidential => in.mode = "create" /\ CountReferences(in).total = 0

(***************************************************************************)
(* request.parse and ModelInventory.resolve.                               *)
(***************************************************************************)
Parse(in, release) ==
    /\ in.mode \in Modes
    /\ in.quality \in release.tiers
    /\ in.duration > 0
    /\ ResolveCanvasFrames(in.duration) <= MaxFrames
    /\ in.mode = "create" => ~HasKeyframe(in)
    /\ in.mode = "animate" => HasKeyframe(in)
    /\ in.mode = "references" => in.references # <<>>
    /\ in.mode \in {"references", "remix"} => ~HasKeyframe(in)
    /\ in.mode \in {"create", "animate"} => in.references = <<>>
    /\ ValidateReferences(in.references)
    /\ in.mode = "remix" => HasSource(in)

Resolve(in, release) ==
    HasAcceleration(release, ModeFamily(in.mode), in.generationMode)

(***************************************************************************)
(* workflows.build_ref2va: the sockets of the conditioning node, by group  *)
(* and zero-based index, and the file that each is fed from.               *)
(***************************************************************************)
BuildRef2va(refs) ==
    LET group(name, indices, part) ==
            {[group |-> name, index |-> PositionIn(indices, i) - 1, file |-> <<i, part>>] :
                i \in indices}
        videos == OfType(refs, "video")
    IN  group("ref_images", OfType(refs, "image"), "media")
        \cup group("ref_videos", videos, "media")
        \cup {s \in group("ref_video_audios", videos, "soundtrack") :
                 HasSoundtrack(refs[s.file[1]])}
        \cup group("ref_audios", OfType(refs, "audio"), "media")

(* The conditioning node numbers what it is fed: the audio of a video gets *)
(* its label before its video does, standalone audio after all videos.     *)
NodeLabel(sockets, s) ==
    LET paired(upTo) == Cardinality({t \in sockets : t.group = "ref_video_audios"
                                                     /\ t.index <= upTo})
    IN  CASE s.group = "ref_images" -> <<"image", s.index + 1>>
          [] s.group = "ref_videos" -> <<"video", s.index + 1>>
          [] s.group = "ref_video_audios" -> <<"audio", paired(s.index)>>
          [] s.group = "ref_audios" -> <<"audio", paired(ReferenceLimits.maxVideos) + s.index + 1>>

(***************************************************************************)
(* build_privora_job's staging: what the files turn out to be.             *)
(***************************************************************************)
MaxSeconds == 15
MinVideoSeconds == 2

(* references.validate_durations *)
ValidateDurations(refs) ==
    \A i \in DOMAIN refs :
        /\ refs[i].type = "video" => refs[i].seconds \in MinVideoSeconds .. MaxSeconds
        /\ refs[i].type = "audio" => refs[i].seconds <= MaxSeconds
        /\ refs[i].soundtrack <= MaxSeconds

(* media.check_aggregate over the videos, then over the standalone audio. *)
TotalSeconds(refs, type) ==
    MapThenSumSet(LAMBDA i : refs[i].seconds, OfType(refs, type))
CheckAggregate(refs) ==
    /\ TotalSeconds(refs, "video") <= MaxSeconds * ReferenceLimits.maxVideos
    /\ TotalSeconds(refs, "audio") <= MaxSeconds * ReferenceLimits.maxAudio

StageReferences(refs) == ValidateDurations(refs) /\ CheckAggregate(refs)
=============================================================================

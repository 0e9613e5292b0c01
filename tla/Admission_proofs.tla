-------------------------- MODULE Admission_proofs --------------------------
(***************************************************************************)
(* Machine-checked proofs about Admission and CanonicalRequest, for any    *)
(* releases, any bodies and any number of invocations and probes: what the *)
(* two validations of a body have to do with each other, what the graph    *)
(* makes of its references, and what the capability cache keeps.           *)
(***************************************************************************)
EXTENDS Admission, TLAPS, FiniteSetTheorems

-----------------------------------------------------------------------------
(* Frames.                                                                 *)

(* Rounding to the even side stays within half a unit. *)
LEMMA Rounding ==
  ASSUME NEW a \in Int, NEW b \in Nat \ {0}
  PROVE  /\ RoundHalfEven(a, b) \in Int
         /\ 2 * a - b <= 2 * (b * RoundHalfEven(a, b)) /\ 2 * (b * RoundHalfEven(a, b)) <= 2 * a + b
<1>1. /\ a \div b \in Int /\ a % b \in 0 .. b - 1
      /\ a = b * (a \div b) + (a % b)
  OBVIOUS
<1>2. PICK q \in Int, r \in 0 .. b - 1 : q = a \div b /\ r = a % b /\ a = b * q + r
  BY <1>1
<1>3. RoundHalfEven(a, b) = q \/ (RoundHalfEven(a, b) = q + 1 /\ 2 * r >= b)
  BY <1>2 DEF RoundHalfEven
<1>4. CASE RoundHalfEven(a, b) = q
  <2>1. ~(2 * r > b)
    BY <1>2, <1>4 DEF RoundHalfEven
  <2> QED BY <1>2, <1>4, <2>1
<1>5. CASE RoundHalfEven(a, b) = q + 1 /\ 2 * r >= b
  <2>1. b * (q + 1) = b * q + b
    OBVIOUS
  <2> QED BY <1>2, <1>5, <2>1
<1> QED BY <1>3, <1>4, <1>5

(* An aligned frame count is the first one on the grid. *)
LEMMA Aligning ==
  ASSUME NEW n \in Int
  PROVE  /\ AlignFrameCount(n) \in Nat /\ OnGrid(AlignFrameCount(n))
         /\ MinFrames <= AlignFrameCount(n) /\ n <= AlignFrameCount(n)
         /\ \A m \in Int : OnGrid(m) /\ MinFrames <= m /\ n <= m => AlignFrameCount(n) <= m
<1> DEFINE f == IF n < MinFrames THEN MinFrames ELSE n
<1>1. f \in Nat /\ f >= 5 /\ n <= f /\ (f = n \/ f = MinFrames)
  BY DEF MinFrames
<1>2. f + ((5 - f) % 17) \in f .. f + 16 /\ OnGrid(f + ((5 - f) % 17))
  BY <1>1 DEF OnGrid
<1>3. AlignFrameCount(n) = CHOOSE m \in f .. f + 16 : OnGrid(m)
  BY DEF AlignFrameCount
<1>4. AlignFrameCount(n) \in f .. f + 16 /\ OnGrid(AlignFrameCount(n))
  <2>1. \E m \in f .. f + 16 : OnGrid(m)
    BY <1>2
  <2> QED BY <1>3, <2>1, Zenon
<1>5. ASSUME NEW m \in Int, OnGrid(m), MinFrames <= m, n <= m
      PROVE  AlignFrameCount(n) <= m
  <2>1. f <= m
    BY <1>1, <1>5 DEF MinFrames
  <2> QED BY <1>1, <1>4, <1>5, <2>1 DEF OnGrid
<1> HIDE DEF f
<1> QED BY <1>1, <1>4, <1>5 DEF MinFrames

(* The longest canvas is on the grid. *)
LEMMA LongestCanvas ==
  /\ MaximumAlignedFrameCount \in MinFrames .. MaxFrames
  /\ OnGrid(MaximumAlignedFrameCount)
<1>1. 3592 \in MinFrames .. MaxFrames /\ OnGrid(3592)
  BY DEF MinFrames, MaxFrames, OnGrid
<1>2. ASSUME NEW k \in 3592 + 1 .. MaxFrames PROVE AlignFrameCount(k) > MaxFrames
  <2>1. k \in Int /\ AlignFrameCount(k) \in Nat /\ OnGrid(AlignFrameCount(k)) /\ k <= AlignFrameCount(k)
    BY Aligning DEF MaxFrames
  <2> QED BY <1>2, <2>1 DEF OnGrid, MaxFrames
<1>3. \E m \in MinFrames .. MaxFrames :
        OnGrid(m) /\ \A k \in m + 1 .. MaxFrames : AlignFrameCount(k) > MaxFrames
  BY <1>1, <1>2
<1> QED BY <1>3, Zenon DEF MaximumAlignedFrameCount

(* What the capability document allows, the GPU worker's canvas takes. *)
LEMMA DurationsFit ==
  ASSUME NEW d \in Int, d <= RoundHalfEven(MaximumAlignedFrameCount * Second, FPS)
  PROVE  ResolveCanvasFrames(d) <= MaxFrames
<1> DEFINE top == MaximumAlignedFrameCount
<1>1. top \in Nat /\ top <= MaxFrames /\ OnGrid(top) /\ MinFrames <= top
  BY LongestCanvas DEF MinFrames, MaxFrames
<1> HIDE DEF top
<1>2. 48 * d <= 20000 * top + 24
  <2>1. /\ RoundHalfEven(top * Second, FPS) \in Int
        /\ 2 * (FPS * RoundHalfEven(top * Second, FPS)) <= 2 * (top * Second) + FPS
    <3>1. top * Second \in Int /\ FPS \in Nat \ {0}
      BY <1>1 DEF FPS, Second
    <3> QED BY <3>1, Rounding
  <2>2. d <= RoundHalfEven(top * Second, FPS)
    BY DEF top
  <2> QED BY <1>1, <2>1, <2>2 DEF FPS, Second
<1>3. RequestedFrames(d) \in Int /\ 20000 * RequestedFrames(d) <= 48 * d + 10000
  <2>1. /\ RoundHalfEven(d * FPS, Second) \in Int
        /\ 2 * (Second * RoundHalfEven(d * FPS, Second)) <= 2 * (d * FPS) + Second
    <3>1. d * FPS \in Int /\ Second \in Nat \ {0}
      BY DEF FPS, Second
    <3> QED BY <3>1, Rounding
  <2> QED BY <2>1 DEF RequestedFrames, FPS, Second
<1>4. RequestedFrames(d) <= top
  BY <1>1, <1>2, <1>3
<1>5. ResolveCanvasFrames(d) \in Nat /\ ResolveCanvasFrames(d) <= top
  BY <1>1, <1>3, <1>4, Aligning DEF ResolveCanvasFrames
<1> QED BY <1>1, <1>5 DEF MaxFrames

-----------------------------------------------------------------------------
(* Positions.                                                              *)

LEMMA ListsAreFinite ==
  ASSUME NEW refs \in Seq(References)
  PROVE  /\ DOMAIN refs = 1 .. Len(refs) /\ Len(refs) \in Nat
         /\ \A S \in SUBSET (DOMAIN refs) : IsFiniteSet(S) /\ Cardinality(S) \in Nat
<1>1. DOMAIN refs = 1 .. Len(refs) /\ Len(refs) \in Nat
  OBVIOUS
<1>2. IsFiniteSet(DOMAIN refs)
  BY <1>1, FS_Interval
<1> QED BY <1>1, <1>2, FS_Subset, FS_CardinalityType

(* A reference's position among some of a list counts from one and keeps   *)
(* their order.                                                            *)
LEMMA Positions ==
  ASSUME NEW refs \in Seq(References), NEW S \in SUBSET (DOMAIN refs), NEW i \in S
  PROVE  /\ PositionIn(S, i) \in 1 .. Cardinality(S)
         /\ \A k \in S : k <= i <=> PositionIn(S, k) <= PositionIn(S, i)
<1> DEFINE upTo(k) == {j \in S : j <= k}
<1>1. \A k \in S : k \in Nat
  BY ListsAreFinite
<1>2. ASSUME NEW k \in S
      PROVE  /\ upTo(k) \subseteq S /\ k \in upTo(k) /\ IsFiniteSet(upTo(k))
             /\ Cardinality(upTo(k)) \in Nat /\ Cardinality(upTo(k)) <= Cardinality(S)
             /\ Cardinality(upTo(k)) # 0
  <2>1. upTo(k) \subseteq S /\ k \in upTo(k)
    BY <1>1, <1>2
  <2>2. IsFiniteSet(S) /\ IsFiniteSet(upTo(k)) /\ Cardinality(upTo(k)) <= Cardinality(S)
    BY <2>1, ListsAreFinite, FS_Subset
  <2> HIDE DEF upTo
  <2> QED BY <2>1, <2>2, FS_CardinalityType, FS_EmptySet
<1>3. ASSUME NEW k \in S, k <= i PROVE Cardinality(upTo(k)) <= Cardinality(upTo(i))
  <2>1. upTo(k) \subseteq upTo(i)
    BY <1>1, <1>3
  <2> HIDE DEF upTo
  <2> QED BY <1>2, <2>1, FS_Subset
<1>4. ASSUME NEW k \in S, ~(k <= i) PROVE Cardinality(upTo(i)) < Cardinality(upTo(k))
  <2>1. upTo(i) \subseteq upTo(k) /\ upTo(i) # upTo(k)
    BY <1>1, <1>4
  <2>2. /\ Cardinality(upTo(i)) <= Cardinality(upTo(k))
        /\ Cardinality(upTo(i)) = Cardinality(upTo(k)) => upTo(i) = upTo(k)
    <3> HIDE DEF upTo
    <3> QED BY <1>2, <2>1, FS_Subset
  <2> HIDE DEF upTo
  <2> QED BY <1>2, <2>1, <2>2
<1>5. \A k \in S : PositionIn(S, k) = Cardinality(upTo(k))
  BY DEF PositionIn
<1>6. Cardinality(S) \in Nat
  BY ListsAreFinite
<1> HIDE DEF upTo
<1>7. PositionIn(S, i) \in 1 .. Cardinality(S)
  BY <1>2, <1>5, <1>6
<1>8. ASSUME NEW k \in S PROVE k <= i <=> PositionIn(S, k) <= PositionIn(S, i)
  BY <1>2, <1>3, <1>4, <1>5
<1> QED BY <1>7, <1>8

LEMMA KindsAreListed ==
  ASSUME NEW refs \in Seq(References)
  PROVE  /\ \A type : OfType(refs, type) \in SUBSET (DOMAIN refs)
         /\ WithSoundtrack(refs) \in SUBSET (DOMAIN refs)
         /\ \A type : Cardinality(OfType(refs, type)) \in Nat
         /\ Cardinality(WithSoundtrack(refs)) \in Nat
<1>1. /\ \A type : OfType(refs, type) \in SUBSET (DOMAIN refs)
      /\ WithSoundtrack(refs) \in SUBSET (DOMAIN refs)
  BY DEF OfType, WithSoundtrack
<1> QED BY <1>1, ListsAreFinite

-----------------------------------------------------------------------------
(* What the control plane lets through, a worker of that release takes.    *)
LEMMA CountsAreKept ==
  ASSUME NEW in, in.references \in Seq(References),
         \A i \in DOMAIN in.references : ValidMediaHandle(in.references[i]),
         in.firstFrame \in BOOLEAN, in.lastFrame \in BOOLEAN,
         WithinDocument(CountReferences(in), ReferenceLimits)
  PROVE  ValidateReferences(in.references)
<1> DEFINE refs == in.references
           sounding == {i \in DOMAIN refs : HasSoundtrack(refs[i])}
           frames == (IF in.firstFrame THEN 1 ELSE 0) + (IF in.lastFrame THEN 1 ELSE 0)
           n(type) == Cardinality(OfType(refs, type))
<1>1. sounding = WithSoundtrack(refs)
  BY DEF ValidMediaHandle, WithSoundtrack, OfType
<1>2. frames \in Nat /\ Len(refs) \in Nat /\ n("image") \in Nat /\ n("video") \in Nat
      /\ n("audio") \in Nat /\ Cardinality(WithSoundtrack(refs)) \in Nat
  BY KindsAreListed
<1>3. CountReferences(in) = [image |-> n("image") + frames, video |-> n("video"),
                             audio |-> n("audio") + Cardinality(sounding),
                             soundtracks |-> Cardinality(sounding),
                             total |-> Len(refs) + frames + Cardinality(sounding)]
  BY DEF CountReferences
<1> HIDE DEF refs, frames, n, sounding
<1>4. /\ n("image") + frames <= 9 /\ n("video") <= 3
      /\ n("audio") + Cardinality(sounding) - Cardinality(sounding) <= 3
      /\ Cardinality(sounding) <= 3 /\ Len(refs) + frames + Cardinality(sounding) <= 12
  <2>1. /\ CountReferences(in).image = n("image") + frames
        /\ CountReferences(in).video = n("video")
        /\ CountReferences(in).audio = n("audio") + Cardinality(sounding)
        /\ CountReferences(in).soundtracks = Cardinality(sounding)
        /\ CountReferences(in).total = Len(refs) + frames + Cardinality(sounding)
    BY <1>3
  <2>2. /\ ReferenceLimits.maxImages = 9 /\ ReferenceLimits.maxVideos = 3
        /\ ReferenceLimits.maxAudio = 3 /\ ReferenceLimits.maxVideoSoundtracks = 3
        /\ ReferenceLimits.maxTotal = 12
    BY DEF ReferenceLimits
  <2>3. /\ CountReferences(in).image <= 9 /\ CountReferences(in).video <= 3
        /\ CountReferences(in).audio - CountReferences(in).soundtracks <= 3
        /\ CountReferences(in).soundtracks <= 3 /\ CountReferences(in).total <= 12
    BY <2>2 DEF WithinDocument
  <2> QED BY <1>1, <1>2, <2>1, <2>3
<1>5. /\ n("image") <= 9 /\ n("video") <= 3 /\ n("audio") <= 3
      /\ Cardinality(WithSoundtrack(refs)) <= 3
      /\ Len(refs) + Cardinality(WithSoundtrack(refs)) <= 12
  BY <1>1, <1>2, <1>4
<1>6. Within(refs, ReferenceLimits)
  BY <1>5 DEF Within, FileCount, ReferenceLimits, n
<1>7. \A i \in DOMAIN refs : ValidMediaHandle(refs[i])
  BY DEF refs
<1>8. ValidateReferences(refs)
  BY <1>6, <1>7 DEF ValidateReferences, ValidMediaHandle
<1> QED BY <1>8 DEF refs

LEMMA AcceptedHere ==
  ASSUME NEW in \in Inputs, NEW r, ValidateCanonicalInput(in, Document(r))
  PROVE  Parse(in, r) /\ Resolve(in, r)
<1>1. in.references \in Seq(References) /\ in.firstFrame \in BOOLEAN /\ in.lastFrame \in BOOLEAN
  BY AdmissionAssumption
<1>2. /\ in.mode \in Modes /\ in.quality \in r.tiers
      /\ in.duration \in RoundHalfEven(MinFrames * Second, FPS) ..
                         RoundHalfEven(MaximumAlignedFrameCount * Second, FPS)
      /\ HasAcceleration(r, ModeFamily(in.mode), in.generationMode)
      /\ WithinDocument(CountReferences(in), ReferenceLimits)
  BY DEF ValidateCanonicalInput, Document, ModeFamily
<1>3. ResolveCanvasFrames(in.duration) <= MaxFrames
  <2>1. in.duration \in Int
        /\ in.duration <= RoundHalfEven(MaximumAlignedFrameCount * Second, FPS)
    <3>1. /\ RoundHalfEven(MinFrames * Second, FPS) \in Int
          /\ RoundHalfEven(MaximumAlignedFrameCount * Second, FPS) \in Int
      <4>1. /\ MinFrames * Second \in Int /\ MaximumAlignedFrameCount * Second \in Int
            /\ FPS \in Nat \ {0}
        BY LongestCanvas DEF MinFrames, MaxFrames, Second, FPS
      <4> QED BY <4>1, Rounding
    <3> QED BY <1>2, <3>1
  <2> QED BY <2>1, DurationsFit
<1>4. ValidateReferences(in.references)
  BY <1>1, <1>2, CountsAreKept DEF ValidateCanonicalInput
<1>5. Parse(in, r)
  BY <1>2, <1>3, <1>4 DEF ValidateCanonicalInput, Parse, Modes
<1> QED BY <1>2, <1>5 DEF Resolve

-----------------------------------------------------------------------------
(* The sockets of the graph.                                               *)

Socket(name, S, i, part) ==
  [group |-> name, index |-> PositionIn(S, i) - 1, file |-> <<i, part>>]
ImageSockets(refs) ==
  {Socket("ref_images", OfType(refs, "image"), i, "media") : i \in OfType(refs, "image")}
VideoSockets(refs) ==
  {Socket("ref_videos", OfType(refs, "video"), i, "media") : i \in OfType(refs, "video")}
PairedSockets(refs) ==
  {Socket("ref_video_audios", OfType(refs, "video"), i, "soundtrack") : i \in WithSoundtrack(refs)}
AudioSockets(refs) ==
  {Socket("ref_audios", OfType(refs, "audio"), i, "media") : i \in OfType(refs, "audio")}

LEMMA Sockets ==
  ASSUME NEW refs
  PROVE  BuildRef2va(refs) = ImageSockets(refs) \cup VideoSockets(refs)
                             \cup PairedSockets(refs) \cup AudioSockets(refs)
<1> DEFINE all == {Socket("ref_video_audios", OfType(refs, "video"), i, "soundtrack") :
                     i \in OfType(refs, "video")}
<1>1. {s \in all : HasSoundtrack(refs[s.file[1]])} = PairedSockets(refs)
  BY DEF PairedSockets, Socket, WithSoundtrack
<1>2. BuildRef2va(refs) = ImageSockets(refs) \cup VideoSockets(refs)
                          \cup {s \in all : HasSoundtrack(refs[s.file[1]])} \cup AudioSockets(refs)
  BY DEF BuildRef2va, ImageSockets, VideoSockets, AudioSockets, Socket
<1> QED BY <1>1, <1>2

(* The sockets for soundtracks up to a position are as many as the videos   *)
(* with a soundtrack up to it.                                             *)
LEMMA PairedCount ==
  ASSUME NEW refs \in Seq(References), NEW n \in Int
  PROVE  Cardinality({t \in BuildRef2va(refs) : t.group = "ref_video_audios" /\ t.index <= n})
         = Cardinality({i \in WithSoundtrack(refs) : PositionIn(OfType(refs, "video"), i) - 1 <= n})
<1> DEFINE socket(i) == Socket("ref_video_audios", OfType(refs, "video"), i, "soundtrack")
           S == {i \in WithSoundtrack(refs) : PositionIn(OfType(refs, "video"), i) - 1 <= n}
           T == {t \in BuildRef2va(refs) : t.group = "ref_video_audios" /\ t.index <= n}
           f == [i \in S |-> socket(i)]
<1>1. \A i : socket(i).group = "ref_video_audios" /\ socket(i).file = <<i, "soundtrack">>
             /\ socket(i).index = PositionIn(OfType(refs, "video"), i) - 1
  BY DEF Socket
<1>2. T = {socket(i) : i \in S}
  <2>1. ASSUME NEW t \in BuildRef2va(refs), t.group = "ref_video_audios"
        PROVE  \E i \in WithSoundtrack(refs) : t = socket(i)
    BY <2>1, Sockets DEF ImageSockets, VideoSockets, PairedSockets, AudioSockets, Socket
  <2>2. \A i \in WithSoundtrack(refs) : socket(i) \in BuildRef2va(refs)
    BY Sockets DEF PairedSockets
  <2> HIDE DEF socket
  <2> QED BY <1>1, <2>1, <2>2
<1>3. \A i, k \in S : socket(i) = socket(k) => i = k
  BY <1>1
<1>4. f \in Bijection(S, T)
  <2> HIDE DEF socket, S, T
  <2>1. f \in [S -> T]
    BY <1>2
  <2>2. \A i, k \in S : f[i] = f[k] => i = k
    BY <1>3
  <2>3. \A t \in T : \E i \in S : f[i] = t
    BY <1>2
  <2> QED BY <2>1, <2>2, <2>3 DEF Bijection, Injection, IsInjective, Surjection
<1>5. IsFiniteSet(S)
  BY KindsAreListed, ListsAreFinite
<1> HIDE DEF f, S, T
<1>6. Cardinality(T) = Cardinality(S)
  BY <1>4, <1>5, FS_Bijection DEF ExistsBijection
<1> QED BY <1>6 DEF S, T

LEMMA FewSockets ==
  ASSUME NEW refs \in Seq(References), ValidateReferences(refs), NEW s \in BuildRef2va(refs)
  PROVE  s.index < IF s.group = "ref_images" THEN 9 ELSE 3
<1>1. /\ Cardinality(OfType(refs, "image")) <= 9 /\ Cardinality(OfType(refs, "video")) <= 3
      /\ Cardinality(OfType(refs, "audio")) <= 3
  BY DEF ValidateReferences, Within, ReferenceLimits
<1>2. \A type : \A i \in OfType(refs, type) :
        PositionIn(OfType(refs, type), i) \in 1 .. Cardinality(OfType(refs, type))
  BY KindsAreListed, Positions
<1>3. \A type : Cardinality(OfType(refs, type)) \in Nat
  BY KindsAreListed
<1>4. CASE s \in ImageSockets(refs)
  <2>1. PICK i \in OfType(refs, "image") : s = Socket("ref_images", OfType(refs, "image"), i, "media")
    BY <1>4 DEF ImageSockets
  <2>2. s.group = "ref_images" /\ s.index = PositionIn(OfType(refs, "image"), i) - 1
    BY <2>1 DEF Socket
  <2>3. s.index < 9
    BY <1>1, <1>2, <1>3, <2>2
  <2> QED BY <2>2, <2>3
<1>5. CASE s \in VideoSockets(refs) \cup PairedSockets(refs)
  <2>1. PICK i \in OfType(refs, "video") :
          s.group # "ref_images" /\ s.index = PositionIn(OfType(refs, "video"), i) - 1
    BY <1>5 DEF VideoSockets, PairedSockets, Socket, WithSoundtrack
  <2>2. s.index < 3
    BY <1>1, <1>2, <1>3, <2>1
  <2> QED BY <2>1, <2>2
<1>6. CASE s \in AudioSockets(refs)
  <2>1. PICK i \in OfType(refs, "audio") :
          s.group # "ref_images" /\ s.index = PositionIn(OfType(refs, "audio"), i) - 1
    BY <1>6 DEF AudioSockets, Socket
  <2>2. s.index < 3
    BY <1>1, <1>2, <1>3, <2>1
  <2> QED BY <2>1, <2>2
<1> QED BY <1>4, <1>5, <1>6, Sockets

(* Of the soundtracks, those fed before a video's own are those of earlier *)
(* videos; before standalone audio, all of them.                           *)
LEMMA SoundtracksBefore ==
  ASSUME NEW refs \in Seq(References), ValidateReferences(refs)
  PROVE  /\ \A i \in WithSoundtrack(refs) :
              Cardinality({t \in BuildRef2va(refs) : t.group = "ref_video_audios"
                             /\ t.index <= PositionIn(OfType(refs, "video"), i) - 1})
              = PositionIn(WithSoundtrack(refs), i)
         /\ Cardinality({t \in BuildRef2va(refs) : t.group = "ref_video_audios"
                           /\ t.index <= ReferenceLimits.maxVideos})
            = Cardinality(WithSoundtrack(refs))
<1> DEFINE V == OfType(refs, "video")
           W == WithSoundtrack(refs)
<1>1. W \subseteq V /\ V \in SUBSET (DOMAIN refs) /\ Cardinality(V) \in Nat /\ Cardinality(V) <= 3
  BY KindsAreListed DEF ValidateReferences, Within, ReferenceLimits, WithSoundtrack
<1>2. \A i \in V : PositionIn(V, i) \in 1 .. Cardinality(V)
                   /\ \A k \in V : k <= i <=> PositionIn(V, k) <= PositionIn(V, i)
  BY <1>1, Positions
<1> HIDE DEF V, W
<1>3. ASSUME NEW i \in W
      PROVE  {k \in W : PositionIn(V, k) - 1 <= PositionIn(V, i) - 1} = {k \in W : k <= i}
  <2>1. ASSUME NEW k \in W
        PROVE  PositionIn(V, k) - 1 <= PositionIn(V, i) - 1 <=> k <= i
    <3>1. PositionIn(V, k) \in Int /\ PositionIn(V, i) \in Int
      BY <1>1, <1>2
    <3>2. k <= i <=> PositionIn(V, k) <= PositionIn(V, i)
      BY <1>1, <1>2
    <3> QED BY <3>1, <3>2
  <2> QED BY <2>1
<1>4. {k \in W : PositionIn(V, k) - 1 <= ReferenceLimits.maxVideos} = W
  <2>1. ReferenceLimits.maxVideos = 3
    BY DEF ReferenceLimits
  <2> QED BY <1>1, <1>2, <2>1
<1>5. ASSUME NEW i \in W
      PROVE  Cardinality({t \in BuildRef2va(refs) : t.group = "ref_video_audios"
                            /\ t.index <= PositionIn(V, i) - 1}) = PositionIn(W, i)
  <2>1. PositionIn(V, i) - 1 \in Int
    BY <1>1, <1>2
  <2> QED BY <1>3, <2>1, PairedCount DEF V, W, PositionIn
<1>6. Cardinality({t \in BuildRef2va(refs) : t.group = "ref_video_audios"
                     /\ t.index <= ReferenceLimits.maxVideos}) = Cardinality(W)
  <2>1. ReferenceLimits.maxVideos \in Int
    BY DEF ReferenceLimits
  <2> QED BY <1>4, <2>1, PairedCount DEF V, W
<1> QED BY <1>5, <1>6 DEF V, W

LEMMA TagsNameTheirFiles ==
  ASSUME NEW refs \in Seq(References), ValidateReferences(refs), NEW tag \in CompilePrompt(refs)
  PROVE  \E s \in BuildRef2va(refs) :
            s.file = tag.file /\ NodeLabel(BuildRef2va(refs), s) = <<tag.kind, tag.ordinal>>
<1>1. PICK f \in Files(refs) :
        /\ tag.file = f /\ tag.ordinal = AssignOrdinals(refs)[f]
        /\ tag.kind = IF f[2] = "soundtrack" THEN "audio" ELSE refs[f[1]].type
  BY DEF CompilePrompt
<1>2. /\ f = <<f[1], f[2]>>
      /\ \/ f[2] = "media" /\ f[1] \in DOMAIN refs
         \/ f[2] = "soundtrack" /\ f[1] \in WithSoundtrack(refs)
  BY DEF Files
<1>3. \A type : \A i \in OfType(refs, type) : PositionIn(OfType(refs, type), i) \in Nat
  BY KindsAreListed, Positions
<1>4. CASE f[2] = "soundtrack"
  <2> DEFINE s == Socket("ref_video_audios", OfType(refs, "video"), f[1], "soundtrack")
  <2>1. s \in BuildRef2va(refs) /\ s.file = f
    BY <1>2, <1>4, Sockets DEF PairedSockets, Socket
  <2>2. s.group = "ref_video_audios" /\ s.index = PositionIn(OfType(refs, "video"), f[1]) - 1
    BY DEF Socket
  <2>3. tag.kind = "audio" /\ tag.ordinal = PositionIn(WithSoundtrack(refs), f[1])
    BY <1>1, <1>4 DEF AssignOrdinals
  <2> HIDE DEF s
  <2>4. NodeLabel(BuildRef2va(refs), s) =
          <<"audio", Cardinality({t \in BuildRef2va(refs) : t.group = "ref_video_audios"
                                                           /\ t.index <= s.index})>>
    BY <2>2 DEF NodeLabel
  <2>5. NodeLabel(BuildRef2va(refs), s) = <<"audio", PositionIn(WithSoundtrack(refs), f[1])>>
    BY <1>2, <1>4, <2>2, <2>4, SoundtracksBefore
  <2> QED BY <1>1, <2>1, <2>3, <2>5
<1>5. CASE f[2] = "media"
  <2>1. refs[f[1]].type \in MediaTypes /\ f[1] \in OfType(refs, refs[f[1]].type)
    BY <1>2, <1>5 DEF ValidateReferences, OfType
  <2>2. /\ tag.kind = refs[f[1]].type
        /\ tag.ordinal = PositionIn(OfType(refs, refs[f[1]].type), f[1])
             + IF refs[f[1]].type = "audio" THEN Cardinality(WithSoundtrack(refs)) ELSE 0
    BY <1>1, <1>5 DEF AssignOrdinals
  <2>3. CASE refs[f[1]].type = "image"
    <3> DEFINE s == Socket("ref_images", OfType(refs, "image"), f[1], "media")
    <3>1. s \in BuildRef2va(refs) /\ s.file = f
      BY <1>2, <1>5, <2>1, <2>3, Sockets DEF ImageSockets, Socket
    <3>2. s.group = "ref_images" /\ s.index + 1 = PositionIn(OfType(refs, "image"), f[1])
      BY <1>3, <2>1, <2>3 DEF Socket
    <3>3. tag.ordinal = PositionIn(OfType(refs, "image"), f[1])
      BY <1>3, <2>1, <2>2, <2>3
    <3> HIDE DEF s
    <3>4. NodeLabel(BuildRef2va(refs), s) = <<"image", s.index + 1>>
      BY <3>2 DEF NodeLabel
    <3> QED BY <1>1, <2>2, <2>3, <3>1, <3>2, <3>3, <3>4
  <2>4. CASE refs[f[1]].type = "video"
    <3> DEFINE s == Socket("ref_videos", OfType(refs, "video"), f[1], "media")
    <3>1. s \in BuildRef2va(refs) /\ s.file = f
      BY <1>2, <1>5, <2>1, <2>4, Sockets DEF VideoSockets, Socket
    <3>2. s.group = "ref_videos" /\ s.index + 1 = PositionIn(OfType(refs, "video"), f[1])
      BY <1>3, <2>1, <2>4 DEF Socket
    <3>3. tag.ordinal = PositionIn(OfType(refs, "video"), f[1])
      BY <1>3, <2>1, <2>2, <2>4
    <3> HIDE DEF s
    <3>4. NodeLabel(BuildRef2va(refs), s) = <<"video", s.index + 1>>
      BY <3>2 DEF NodeLabel
    <3> QED BY <1>1, <2>2, <2>4, <3>1, <3>2, <3>3, <3>4
  <2>5. CASE refs[f[1]].type = "audio"
    <3> DEFINE s == Socket("ref_audios", OfType(refs, "audio"), f[1], "media")
    <3>1. s \in BuildRef2va(refs) /\ s.file = f
      BY <1>2, <1>5, <2>1, <2>5, Sockets DEF AudioSockets, Socket
    <3>2. s.group = "ref_audios" /\ s.index = PositionIn(OfType(refs, "audio"), f[1]) - 1
      BY DEF Socket
    <3>3. tag.ordinal = PositionIn(OfType(refs, "audio"), f[1]) + Cardinality(WithSoundtrack(refs))
      BY <2>2, <2>5
    <3> HIDE DEF s
    <3>4. NodeLabel(BuildRef2va(refs), s) =
            <<"audio", Cardinality({t \in BuildRef2va(refs) : t.group = "ref_video_audios"
                                      /\ t.index <= ReferenceLimits.maxVideos}) + s.index + 1>>
      BY <3>2 DEF NodeLabel
    <3>5. Cardinality(WithSoundtrack(refs)) + s.index + 1 = tag.ordinal
      BY <1>3, <2>1, <2>5, <3>2, <3>3, KindsAreListed
    <3> QED BY <1>1, <2>2, <2>5, <3>1, <3>4, <3>5, SoundtracksBefore
  <2> QED BY <2>1, <2>3, <2>4, <2>5 DEF MediaTypes
<1> QED BY <1>2, <1>4, <1>5

-----------------------------------------------------------------------------
(* The types.                                                              *)

ProbeRecords == [status : {"none", "queued", "completed", "failed"}, release : Releases \cup {None}]
Caches == [document : Releases \cup {None}, pending : Probes \cup {None}, young : SUBSET Dates]
JobRecords == [input : Inputs \cup {None}, under : Releases \cup {None}, on : Releases \cup {None}]

(* The variables are functions on the invocations and probes.              *)
Shapes ==
  /\ probes \in [Probes -> ProbeRecords] /\ cache \in Caches
  /\ pc \in [Invocations -> Steps \cup Ended]
  /\ held \in [Invocations -> Releases \cup {None}]
  /\ probe \in [Invocations -> Probes \cup {None}]
  /\ document \in [Invocations -> Releases \cup {None}]
  /\ job \in [Invocations -> JobRecords]

Typing == TypeOK /\ Shapes

LEMMA InitTyping == Init => Typing
<1> SUFFICES ASSUME Init PROVE Typing
  OBVIOUS
<1>1. Shapes
  BY DEF Init, Shapes, NoRecord, EmptyCache, NoJob, ProbeRecords, Caches, JobRecords, Dates, Ended
<1>2. TypeOK
  BY DEF Init, TypeOK, NoRecord, EmptyCache, Ended, Dates
<1> QED BY <1>1, <1>2 DEF Typing

(* Every step keeps the types.                                             *)
LEMMA StepTyping == Typing /\ [Next]_vars => Typing'
<1> SUFFICES ASSUME Typing, [Next]_vars PROVE Typing'
  OBVIOUS
<1> USE DEF Typing, Goto, Forget
<1>1. ASSUME NEW i \in Invocations, Ask(i) PROVE Typing'
  <2>1. Shapes'
    BY <1>1 DEF Ask, Shapes, Steps, Ended, JobRecords, NoJob
  <2>2. TypeOK'
    BY <1>1 DEF Ask, TypeOK, Shapes, Steps, Ended
  <2> QED BY <2>1, <2>2
<1>2. ASSUME NEW i \in Invocations, ReadCache(i) PROVE Typing'
  <2>1. Shapes'
    BY <1>2 DEF ReadCache, Shapes, Steps, Ended, Readable, Caches, EmptyCache
  <2>2. TypeOK'
    BY <1>2 DEF ReadCache, TypeOK, Shapes, Steps, Ended, IsCanonical, Readable, Caches, EmptyCache
  <2> QED BY <2>1, <2>2
<1>3. ASSUME NEW i \in Invocations, JoinOrSubmit(i) PROVE Typing'
  <2>1. Shapes'
    BY <1>3 DEF JoinOrSubmit, Shapes, Steps, Readable, Caches, EmptyCache
  <2>2. TypeOK'
    BY <1>3 DEF JoinOrSubmit, TypeOK, Shapes, Steps, Readable, Caches, EmptyCache
  <2> QED BY <2>1, <2>2
<1>4. ASSUME NEW i \in Invocations, SubmitProbe(i) PROVE Typing'
  <2>1. /\ UNCHANGED <<cache, held, document, job>>
        /\ \/ \E p \in Probes :
                /\ probes' = [probes EXCEPT ![p] = [status |-> "queued", release |-> None]]
                /\ probe' = [probe EXCEPT ![i] = p] /\ pc' = [pc EXCEPT ![i] = "announce"]
           \/ pc' = [pc EXCEPT ![i] = "stale"] /\ UNCHANGED <<probes, probe>>
    BY <1>4 DEF SubmitProbe
  <2>2. pc[i] = "submit_probe" /\ probe[i] = None
    BY <1>4 DEF SubmitProbe, TypeOK
  <2>3. ASSUME NEW p \in Probes,
               probes' = [probes EXCEPT ![p] = [status |-> "queued", release |-> None]],
               probe' = [probe EXCEPT ![i] = p], pc' = [pc EXCEPT ![i] = "announce"]
        PROVE  Typing'
    <3>1. Shapes'
      BY <2>1, <2>3 DEF Shapes, ProbeRecords, Steps
    <3>2. p # None
      BY AdmissionAssumption
    <3>3. TypeOK'
      BY <2>1, <2>3, <3>2 DEF TypeOK, Shapes, ProbeRecords, Steps
    <3> QED BY <3>1, <3>3
  <2>4. CASE pc' = [pc EXCEPT ![i] = "stale"] /\ UNCHANGED <<probes, probe>>
    <3>1. Shapes'
      BY <2>1, <2>4 DEF Shapes, Steps
    <3>2. TypeOK'
      BY <2>1, <2>2, <2>4 DEF TypeOK, Shapes, Steps
    <3> QED BY <3>1, <3>2
  <2> QED BY <2>1, <2>3, <2>4
<1>5. ASSUME NEW i \in Invocations, AnnounceProbe(i) PROVE Typing'
  <2>1. /\ UNCHANGED <<probes, held, document, job>> /\ pc[i] = "announce"
        /\ \/ /\ cache' = [cache EXCEPT !.pending = probe[i], !.young = @ \cup {"submitted"}]
              /\ pc' = [pc EXCEPT ![i] = "poll"] /\ UNCHANGED probe
           \/ /\ pc' = [pc EXCEPT ![i] = "stale"] /\ probe' = [probe EXCEPT ![i] = None]
              /\ UNCHANGED cache
    BY <1>5 DEF AnnounceProbe
  <2>2. probe[i] \in Probes /\ probe[i] # None
    BY <2>1 DEF TypeOK, Shapes
  <2>3. CASE /\ cache' = [cache EXCEPT !.pending = probe[i], !.young = @ \cup {"submitted"}]
             /\ pc' = [pc EXCEPT ![i] = "poll"] /\ UNCHANGED probe
    <3>1. /\ cache' \in Caches /\ cache'.pending = probe[i] /\ cache'.document = cache.document
          /\ cache'.young = cache.young \cup {"submitted"}
      BY <2>2, <2>3 DEF Shapes, Caches, Dates
    <3>2. Shapes'
      BY <2>1, <2>3, <3>1 DEF Shapes, Steps
    <3>3. TypeOK'
      BY <2>1, <2>2, <2>3, <3>1 DEF TypeOK, Shapes, Caches, Steps
    <3> QED BY <3>2, <3>3
  <2>4. CASE /\ pc' = [pc EXCEPT ![i] = "stale"] /\ probe' = [probe EXCEPT ![i] = None]
             /\ UNCHANGED cache
    <3>1. Shapes'
      BY <2>1, <2>4 DEF Shapes, Steps
    <3>2. TypeOK'
      BY <2>1, <2>4 DEF TypeOK, Shapes, Steps
    <3> QED BY <3>1, <3>2
  <2> QED BY <2>1, <2>3, <2>4
<1>6. ASSUME NEW i \in Invocations, PollAnswered(i) PROVE Typing'
  <2>1. Shapes'
    BY <1>6 DEF PollAnswered, Shapes, Steps, ProbeRecords, TypeOK
  <2>2. TypeOK'
    BY <1>6 DEF PollAnswered, TypeOK, Shapes, Steps, IsCanonical, ProbeRecords
  <2> QED BY <2>1, <2>2
<1>7. ASSUME NEW i \in Invocations, PollFails(i) PROVE Typing'
  <2>1. Shapes'
    BY <1>7 DEF PollFails, Shapes, Steps
  <2>2. TypeOK'
    BY <1>7 DEF PollFails, TypeOK, Shapes, Steps
  <2> QED BY <2>1, <2>2
<1>8. ASSUME NEW i \in Invocations, PublishDocument(i) PROVE Typing'
  <2>1. Shapes'
    BY <1>8 DEF PublishDocument, Shapes, Steps, Caches, Dates, TypeOK
  <2>2. TypeOK'
    BY <1>8 DEF PublishDocument, TypeOK, Shapes, Steps, Caches, Dates
  <2> QED BY <2>1, <2>2
<1>9. ASSUME NEW i \in Invocations, RejectDocument(i) PROVE Typing'
  <2>1. Shapes'
    BY <1>9 DEF RejectDocument, Shapes, Steps, Caches, Dates, EmptyCache
  <2>2. TypeOK'
    BY <1>9 DEF RejectDocument, TypeOK, Shapes, Steps, Caches, Dates, EmptyCache
  <2> QED BY <2>1, <2>2
<1>10. ASSUME NEW i \in Invocations, ClearProbe(i) PROVE Typing'
  <2>1. /\ cache' \in Caches /\ cache'.document = cache.document
        /\ \/ cache'.pending = None /\ cache'.young = cache.young \ {"submitted"}
           \/ cache' = cache
    BY <1>10 DEF ClearProbe, Shapes, Caches
  <2>2. pc[i] = "clear" /\ pc' = [pc EXCEPT ![i] = "stale"] /\ UNCHANGED <<probes, invocation>>
    BY <1>10 DEF ClearProbe
  <2>3. Shapes'
    BY <2>1, <2>2 DEF Shapes, Steps, invocation
  <2>4. TypeOK'
    BY <2>1, <2>2 DEF TypeOK, Shapes, Caches, Steps, invocation
  <2> QED BY <2>3, <2>4
<1>11. ASSUME NEW i \in Invocations, FallBack(i) PROVE Typing'
  <2>1. Shapes'
    BY <1>11 DEF FallBack, Shapes, Steps, Ended
  <2>2. TypeOK'
    BY <1>11 DEF FallBack, TypeOK, Shapes, Steps, Ended
  <2> QED BY <2>1, <2>2
<1>12. ASSUME NEW i \in Invocations, Admit(i) PROVE Typing'
  <2>1. Shapes'
    BY <1>12 DEF Admit, Shapes, Steps, Ended, TypeOK
  <2>2. TypeOK'
    BY <1>12 DEF Admit, TypeOK, Shapes, Steps, Ended
  <2> QED BY <2>1, <2>2
<1>13. ASSUME NEW i \in Invocations, Validate(i) PROVE Typing'
  <2>1. /\ UNCHANGED <<probes, cache, held, probe>> /\ document' = [document EXCEPT ![i] = None]
        /\ pc[i] = "validate" /\ \E step \in {"queued", "idle"} : pc' = [pc EXCEPT ![i] = step]
    BY <1>13 DEF Validate
  <2>2. \/ UNCHANGED job
        \/ \E in \in Inputs :
              job' = [job EXCEPT ![i] = [input |-> in, under |-> document[i], on |-> None]]
    BY <1>13 DEF Validate
  <2>3. job' \in [Invocations -> JobRecords]
    BY <2>2 DEF Shapes, JobRecords
  <2>4. Shapes'
    BY <2>1, <2>3 DEF Shapes, Steps, Ended
  <2>5. TypeOK'
    BY <2>1 DEF TypeOK, Shapes, Steps, Ended
  <2> QED BY <2>4, <2>5
<1>14. ASSUME NEW i \in Generators, WorkerParses(i) PROVE Typing'
  <2>1. /\ UNCHANGED <<probes, cache, held, probe, document>> /\ pc[i] = "queued"
        /\ \E r \in Releases :
             \/ pc' = [pc EXCEPT ![i] = "stage"] /\ UNCHANGED job
             \/ /\ job' = [job EXCEPT ![i].input = None, ![i].on = r]
                /\ pc' = [pc EXCEPT ![i] = "refused"]
    BY <1>14 DEF WorkerParses
  <2>2. job' \in [Invocations -> JobRecords]
    BY <2>1 DEF Shapes, JobRecords
  <2>3. Shapes'
    BY <2>1, <2>2 DEF Shapes, Steps, Ended
  <2>4. TypeOK'
    BY <2>1 DEF TypeOK, Shapes, Steps, Ended, Invocations
  <2> QED BY <2>3, <2>4
<1>15. ASSUME NEW i \in Generators, WorkerStages(i) PROVE Typing'
  <2>1. Shapes'
    BY <1>15 DEF WorkerStages, Shapes, Steps, Ended, JobRecords, NoJob, Invocations
  <2>2. TypeOK'
    BY <1>15 DEF WorkerStages, TypeOK, Shapes, Steps, Ended, Invocations
  <2> QED BY <2>1, <2>2
<1>16. ASSUME NEW i \in Generators, WorkerExecutes(i) PROVE Typing'
  <2>1. Shapes'
    BY <1>16 DEF WorkerExecutes, Shapes, Steps, Ended, JobRecords, NoJob, Invocations
  <2>2. TypeOK'
    BY <1>16 DEF WorkerExecutes, TypeOK, Shapes, Steps, Ended, Invocations
  <2> QED BY <2>1, <2>2
<1>17. ASSUME NEW p \in Probes, AnswerProbe(p) PROVE Typing'
  <2>1. Shapes'
    BY <1>17 DEF AnswerProbe, Shapes, ProbeRecords, invocation
  <2>2. TypeOK'
    BY <1>17, AdmissionAssumption DEF AnswerProbe, TypeOK, Shapes, ProbeRecords, invocation
  <2> QED BY <2>1, <2>2
<1>18. ASSUME NEW p \in Probes, FailProbe(p) PROVE Typing'
  <2>1. Shapes'
    BY <1>18 DEF FailProbe, Shapes, ProbeRecords, invocation
  <2>2. TypeOK'
    BY <1>18 DEF FailProbe, TypeOK, Shapes, ProbeRecords, invocation
  <2> QED BY <2>1, <2>2
<1>19. ASSUME NEW p \in Probes, ExpireRecord(p) PROVE Typing'
  <2>1. Shapes'
    BY <1>19 DEF ExpireRecord, Shapes, ProbeRecords, invocation, NoRecord
  <2>2. TypeOK'
    BY <1>19 DEF ExpireRecord, TypeOK, Shapes, ProbeRecords, invocation, NoRecord
  <2> QED BY <2>1, <2>2
<1>20. ASSUME NEW date \in Dates, Age(date) PROVE Typing'
  <2>1. Shapes'
    BY <1>20 DEF Age, Shapes, Caches, invocation
  <2>2. TypeOK'
    BY <1>20 DEF Age, TypeOK, Shapes, Caches, invocation
  <2> QED BY <2>1, <2>2
<1>21. CASE UNCHANGED vars
  BY <1>21 DEF TypeOK, Shapes, vars
<1> QED
  BY <1>1, <1>2, <1>3, <1>4, <1>5, <1>6, <1>7, <1>8, <1>9, <1>10, <1>11,
     <1>12, <1>13, <1>14, <1>15, <1>16, <1>17, <1>18, <1>19, <1>20, <1>21
  DEF Next, Proceed, Serve

(* Every variable keeps its type, and what an invocation waits for or goes *)
(* on with is there.                                                       *)
THEOREM TypeCorrect == Spec => []TypeOK
BY InitTyping, StepTyping, PTL DEF Spec, Typing

-----------------------------------------------------------------------------
(* A job between its validation and its graph.  What a job's release said of *)
(* its input has to be remembered while it is queued, since the release of *)
(* the worker that takes it is chosen only then.                           *)

Judged == {"queued", "stage", "graph", "refused"}

(* Whoever's job the control plane submitted passed under its document.    *)
PassedWhenSubmitted ==
  \A i \in Generators : pc[i] = "queued" =>
    job[i].input \in Inputs /\ ValidateCanonicalInput(job[i].input, Document(job[i].under))

(* Whoever's job is on a GPU was parsed by the worker.                     *)
ParsedWhenRun ==
  \A i \in Generators : pc[i] \in {"stage", "graph"} =>
    job[i].input \in Inputs /\ \E r \in Releases : Parse(job[i].input, r)

Judging == PassedWhenSubmitted /\ ParsedWhenRun /\ AdmittedIsAccepted

(* A step that sends no job on its way does not disturb it.                *)
Unjudged(i) == pc'[i] \notin Judged \/ (pc'[i] = pc[i] /\ job'[i] = job[i])

LEMMA UnjudgedStep ==
  ASSUME Judging, \A i \in Generators : Unjudged(i) PROVE Judging'
<1>1. PassedWhenSubmitted'
  BY DEF Judging, PassedWhenSubmitted, Unjudged, Judged
<1>2. ParsedWhenRun'
  BY DEF Judging, ParsedWhenRun, Unjudged, Judged
<1>3. AdmittedIsAccepted'
  BY DEF Judging, AdmittedIsAccepted, Unjudged, Judged
<1> QED BY <1>1, <1>2, <1>3 DEF Judging

LEMMA InitJudging == Init => Judging
BY DEF Init, Judging, PassedWhenSubmitted, ParsedWhenRun, AdmittedIsAccepted, Invocations

LEMMA StepJudging == Typing /\ Judging /\ [Next]_vars => Judging'
<1> SUFFICES ASSUME Typing, Judging, [Next]_vars PROVE Judging'
  OBVIOUS
<1>a. /\ pc \in [Invocations -> Steps \cup Ended] /\ job \in [Invocations -> JobRecords]
      /\ document \in [Invocations -> Releases \cup {None}]
  BY DEF Typing, Shapes
<1>b. Generators \subseteq Invocations
  BY DEF Invocations
<1>1. ASSUME NEW i \in Invocations, Ask(i) PROVE Judging'
  <2>1. \A k \in Generators : Unjudged(k)
    BY <1>1, <1>a, <1>b DEF Ask, Goto, Unjudged, Judged
  <2> QED BY <2>1, UnjudgedStep
<1>2. ASSUME NEW i \in Invocations, ReadCache(i) PROVE Judging'
  <2>1. \A k \in Generators : Unjudged(k)
    BY <1>2, <1>a, <1>b DEF ReadCache, Goto, Unjudged, Judged
  <2> QED BY <2>1, UnjudgedStep
<1>3. ASSUME NEW i \in Invocations, JoinOrSubmit(i) PROVE Judging'
  <2>1. \A k \in Generators : Unjudged(k)
    BY <1>3, <1>a, <1>b DEF JoinOrSubmit, Goto, Unjudged, Judged
  <2> QED BY <2>1, UnjudgedStep
<1>4. ASSUME NEW i \in Invocations, SubmitProbe(i) PROVE Judging'
  <2>1. \A k \in Generators : Unjudged(k)
    BY <1>4, <1>a, <1>b DEF SubmitProbe, Goto, Unjudged, Judged
  <2> QED BY <2>1, UnjudgedStep
<1>5. ASSUME NEW i \in Invocations, AnnounceProbe(i) PROVE Judging'
  <2>1. \A k \in Generators : Unjudged(k)
    BY <1>5, <1>a, <1>b DEF AnnounceProbe, Goto, Unjudged, Judged
  <2> QED BY <2>1, UnjudgedStep
<1>6. ASSUME NEW i \in Invocations, PollAnswered(i) PROVE Judging'
  <2>1. \A k \in Generators : Unjudged(k)
    BY <1>6, <1>a, <1>b DEF PollAnswered, Goto, Unjudged, Judged
  <2> QED BY <2>1, UnjudgedStep
<1>7. ASSUME NEW i \in Invocations, PollFails(i) PROVE Judging'
  <2>1. \A k \in Generators : Unjudged(k)
    BY <1>7, <1>a, <1>b DEF PollFails, Goto, Unjudged, Judged
  <2> QED BY <2>1, UnjudgedStep
<1>8. ASSUME NEW i \in Invocations, PublishDocument(i) PROVE Judging'
  <2>1. \A k \in Generators : Unjudged(k)
    BY <1>8, <1>a, <1>b DEF PublishDocument, Goto, Unjudged, Judged
  <2> QED BY <2>1, UnjudgedStep
<1>9. ASSUME NEW i \in Invocations, RejectDocument(i) PROVE Judging'
  <2>1. \A k \in Generators : Unjudged(k)
    BY <1>9, <1>a, <1>b DEF RejectDocument, Goto, Unjudged, Judged
  <2> QED BY <2>1, UnjudgedStep
<1>10. ASSUME NEW i \in Invocations, ClearProbe(i) PROVE Judging'
  <2>1. \A k \in Generators : Unjudged(k)
    BY <1>10, <1>a, <1>b DEF ClearProbe, Goto, Unjudged, Judged, invocation
  <2> QED BY <2>1, UnjudgedStep
<1>11. ASSUME NEW i \in Invocations, FallBack(i) PROVE Judging'
  <2>1. \A k \in Generators : Unjudged(k)
    BY <1>11, <1>a, <1>b DEF FallBack, Goto, Unjudged, Judged
  <2> QED BY <2>1, UnjudgedStep
<1>12. ASSUME NEW i \in Invocations, Admit(i) PROVE Judging'
  <2>1. \A k \in Generators : Unjudged(k)
    BY <1>12, <1>a, <1>b DEF Admit, Goto, Unjudged, Judged
  <2> QED BY <2>1, UnjudgedStep
<1>13. ASSUME NEW i \in Invocations, Validate(i) PROVE Judging'
  <2>1. CASE \E in \in Inputs :
               /\ ValidateCanonicalInput(in, Document(document[i]))
               /\ job' = [job EXCEPT ![i] = [input |-> in, under |-> document[i], on |-> None]]
               /\ pc' = [pc EXCEPT ![i] = "queued"]
    <3>1. PICK in \in Inputs :
            /\ ValidateCanonicalInput(in, Document(document[i]))
            /\ job' = [job EXCEPT ![i] = [input |-> in, under |-> document[i], on |-> None]]
            /\ pc' = [pc EXCEPT ![i] = "queued"]
      BY <2>1
    <3>2. job'[i].input = in /\ job'[i].under = document[i] /\ pc'[i] = "queued"
      BY <1>a, <3>1
    <3>3. \A k \in Generators \ {i} : pc'[k] = pc[k] /\ job'[k] = job[k]
      BY <1>a, <1>b, <3>1
    <3>4. PassedWhenSubmitted'
      BY <3>1, <3>2, <3>3 DEF Judging, PassedWhenSubmitted
    <3>5. ParsedWhenRun' /\ AdmittedIsAccepted'
      BY <3>2, <3>3 DEF Judging, ParsedWhenRun, AdmittedIsAccepted
    <3> QED BY <3>4, <3>5 DEF Judging
  <2>2. CASE pc' = [pc EXCEPT ![i] = "idle"] /\ UNCHANGED job
    <3>1. \A k \in Generators : Unjudged(k)
      BY <1>a, <1>b, <2>2 DEF Unjudged, Judged
    <3> QED BY <3>1, UnjudgedStep
  <2> QED BY <1>13, <2>1, <2>2 DEF Validate, Goto
<1>14. ASSUME NEW i \in Generators, WorkerParses(i) PROVE Judging'
  <2>1. pc[i] = "queued" /\ i \in Invocations
    BY <1>14, <1>b DEF WorkerParses
  <2>2. /\ job[i].input \in Inputs
        /\ ValidateCanonicalInput(job[i].input, Document(job[i].under))
    BY <2>1 DEF Judging, PassedWhenSubmitted
  <2>3. PICK r \in Releases :
          \/ /\ Parse(job[i].input, r) /\ pc' = [pc EXCEPT ![i] = "stage"]
             /\ UNCHANGED job
          \/ /\ ~(Parse(job[i].input, r) /\ Resolve(job[i].input, r))
             /\ job' = [job EXCEPT ![i].input = None, ![i].on = r]
             /\ pc' = [pc EXCEPT ![i] = "refused"]
    BY <1>14 DEF WorkerParses, Goto
  <2>4. CASE /\ Parse(job[i].input, r) /\ pc' = [pc EXCEPT ![i] = "stage"]
             /\ UNCHANGED job
    <3>1. pc'[i] = "stage" /\ \A k \in Generators \ {i} : pc'[k] = pc[k]
      BY <1>a, <1>b, <2>1, <2>4
    <3>2. ParsedWhenRun'
      BY <2>2, <2>4, <3>1 DEF Judging, ParsedWhenRun
    <3>3. PassedWhenSubmitted' /\ AdmittedIsAccepted'
      BY <2>4, <3>1 DEF Judging, PassedWhenSubmitted, AdmittedIsAccepted
    <3> QED BY <3>2, <3>3 DEF Judging
  <2>5. CASE /\ ~(Parse(job[i].input, r) /\ Resolve(job[i].input, r))
             /\ job' = [job EXCEPT ![i].input = None, ![i].on = r]
             /\ pc' = [pc EXCEPT ![i] = "refused"]
    <3>1. r # job[i].under
      BY <2>2, <2>5, AcceptedHere
    <3>2. job'[i].on = r /\ job'[i].under = job[i].under /\ pc'[i] = "refused"
      BY <1>a, <2>1, <2>5 DEF JobRecords
    <3>3. \A k \in Generators \ {i} : pc'[k] = pc[k] /\ job'[k] = job[k]
      BY <1>a, <1>b, <2>1, <2>5
    <3>4. AdmittedIsAccepted'
      BY <3>1, <3>2, <3>3 DEF Judging, AdmittedIsAccepted
    <3>5. PassedWhenSubmitted' /\ ParsedWhenRun'
      BY <3>2, <3>3 DEF Judging, PassedWhenSubmitted, ParsedWhenRun
    <3> QED BY <3>4, <3>5 DEF Judging
  <2> QED BY <2>3, <2>4, <2>5
<1>15. ASSUME NEW i \in Generators, WorkerStages(i) PROVE Judging'
  <2>1. CASE pc' = [pc EXCEPT ![i] = "graph"] /\ UNCHANGED job
    <3>1. pc[i] = "stage" /\ pc'[i] = "graph" /\ \A k \in Generators \ {i} : pc'[k] = pc[k]
      BY <1>15, <1>a, <1>b, <2>1 DEF WorkerStages
    <3> QED BY <2>1, <3>1 DEF Judging, PassedWhenSubmitted, ParsedWhenRun, AdmittedIsAccepted
  <2>2. CASE pc' = [pc EXCEPT ![i] = "idle"] /\ job' = [job EXCEPT ![i] = NoJob]
    <3>1. \A k \in Generators : Unjudged(k)
      BY <1>a, <1>b, <2>2 DEF Unjudged, Judged
    <3> QED BY <3>1, UnjudgedStep
  <2> QED BY <1>15, <2>1, <2>2 DEF WorkerStages, Goto
<1>16. ASSUME NEW i \in Generators, WorkerExecutes(i) PROVE Judging'
  <2>1. \A k \in Generators : Unjudged(k)
    BY <1>16, <1>a, <1>b DEF WorkerExecutes, Goto, Unjudged, Judged
  <2> QED BY <2>1, UnjudgedStep
<1>17. ASSUME NEW p \in Probes, AnswerProbe(p) PROVE Judging'
  BY <1>17, UnjudgedStep DEF AnswerProbe, invocation, Unjudged
<1>18. ASSUME NEW p \in Probes, FailProbe(p) PROVE Judging'
  BY <1>18, UnjudgedStep DEF FailProbe, invocation, Unjudged
<1>19. ASSUME NEW p \in Probes, ExpireRecord(p) PROVE Judging'
  BY <1>19, UnjudgedStep DEF ExpireRecord, invocation, Unjudged
<1>20. ASSUME NEW date \in Dates, Age(date) PROVE Judging'
  BY <1>20, UnjudgedStep DEF Age, invocation, Unjudged
<1>21. CASE UNCHANGED vars
  BY <1>21, UnjudgedStep DEF vars, Unjudged
<1> QED
  BY <1>1, <1>2, <1>3, <1>4, <1>5, <1>6, <1>7, <1>8, <1>9, <1>10, <1>11,
     <1>12, <1>13, <1>14, <1>15, <1>16, <1>17, <1>18, <1>19, <1>20, <1>21
  DEF Next, Proceed, Serve

(* What the control plane admits under a release's document, a worker of   *)
(* that release accepts, whatever body it is: validateCanonicalInput never *)
(* lets through what request.parse and ModelInventory.resolve refuse.      *)
THEOREM WhatIsAdmittedIsAccepted == Spec => []AdmittedIsAccepted
BY InitTyping, StepTyping, InitJudging, StepJudging, PTL DEF Spec, Judging

(* Every tag of a compiled prompt names the file that the conditioning     *)
(* node labels so, for every list of references.                           *)
THEOREM TagsMatchTheGraph == Spec => []PromptTagsMatchGraph
<1>1. ASSUME Judging PROVE PromptTagsMatchGraph
  <2>1. ASSUME NEW i \in Generators, pc[i] = "graph"
        PROVE  job[i].input.references \in Seq(References)
               /\ ValidateReferences(job[i].input.references)
    BY <1>1, <2>1, AdmissionAssumption DEF Judging, ParsedWhenRun, Parse
  <2> QED BY <2>1, TagsNameTheirFiles DEF PromptTagsMatchGraph
<1> QED BY InitTyping, StepTyping, InitJudging, StepJudging, <1>1, PTL DEF Spec

(* What a worker accepts makes a graph the node can run, for every         *)
(* duration and every list of references.                                  *)
THEOREM GraphsAreLegal == Spec => []GraphIsLegal
<1>1. ASSUME Judging PROVE GraphIsLegal
  <2>1. ASSUME NEW i \in Generators, pc[i] = "graph"
        PROVE  /\ OnGrid(ResolveCanvasFrames(job[i].input.duration))
               /\ ResolveCanvasFrames(job[i].input.duration) \in MinFrames .. MaxFrames
               /\ \A s \in BuildRef2va(job[i].input.references) :
                     s.index < IF s.group = "ref_images" THEN 9 ELSE 3
    <3>1. PICK r \in Releases : Parse(job[i].input, r)
      BY <1>1, <2>1 DEF Judging, ParsedWhenRun
    <3>2. job[i].input.references \in Seq(References) /\ job[i].input.duration \in Int
      BY <1>1, <2>1, AdmissionAssumption DEF Judging, ParsedWhenRun
    <3>3. \A s \in BuildRef2va(job[i].input.references) :
            s.index < IF s.group = "ref_images" THEN 9 ELSE 3
      BY <3>1, <3>2, FewSockets DEF Parse
    <3>4. RequestedFrames(job[i].input.duration) \in Int
      <4>1. job[i].input.duration * FPS \in Int /\ Second \in Nat \ {0}
        BY <3>2 DEF FPS, Second
      <4> QED BY <4>1, Rounding DEF RequestedFrames
    <3>5. /\ ResolveCanvasFrames(job[i].input.duration) \in Nat
          /\ OnGrid(ResolveCanvasFrames(job[i].input.duration))
          /\ MinFrames <= ResolveCanvasFrames(job[i].input.duration)
      BY <3>4, Aligning DEF ResolveCanvasFrames
    <3>6. ResolveCanvasFrames(job[i].input.duration) <= MaxFrames
      BY <3>1 DEF Parse
    <3>7. ResolveCanvasFrames(job[i].input.duration) \in MinFrames .. MaxFrames
      <4>1. MinFrames \in Nat /\ MaxFrames \in Nat
        BY DEF MinFrames, MaxFrames
      <4>2. \A n \in Nat : MinFrames <= n /\ n <= MaxFrames => n \in MinFrames .. MaxFrames
        BY <4>1
      <4> QED BY <3>5, <3>6, <4>2, Zenon
    <3> QED BY <3>3, <3>5, <3>7, Zenon
  <2> QED BY <2>1 DEF GraphIsLegal
<1> QED BY InitTyping, StepTyping, InitJudging, StepJudging, <1>1, PTL DEF Spec

(* Only a rejected document takes the cached one away; a probe that fails,   *)
(* expires or is not answered never does.                                  *)
LEMMA StepKeepsDocument ==
  Typing /\ [Next]_vars =>
    (cache.document # None /\ cache'.document = None => "rejected" \in cache'.young)
<1> SUFFICES ASSUME Typing, [Next]_vars, cache.document # None, cache'.document = None
             PROVE  "rejected" \in cache'.young
  OBVIOUS
<1>a. cache \in Caches
  BY DEF Typing, Shapes
<1>1. UNCHANGED cache => FALSE
  OBVIOUS
<1>2. ASSUME NEW i \in Invocations, Ask(i) \/ Proceed(i) PROVE "rejected" \in cache'.young
  <2>1. CASE AnnounceProbe(i)
    BY <1>1, <1>a, <2>1 DEF AnnounceProbe, Caches
  <2>2. CASE PublishDocument(i)
    <3>1. document[i] # None
      BY <2>2 DEF PublishDocument, Typing, TypeOK
    <3> QED BY <1>1, <2>2, <3>1 DEF PublishDocument
  <2>3. CASE RejectDocument(i)
    BY <1>1, <2>3 DEF RejectDocument, EmptyCache
  <2>4. CASE ClearProbe(i)
    BY <1>1, <1>a, <2>4 DEF ClearProbe, Caches
  <2>5. CASE \/ Ask(i) \/ ReadCache(i) \/ JoinOrSubmit(i) \/ SubmitProbe(i) \/ PollAnswered(i)
             \/ PollFails(i) \/ FallBack(i) \/ Admit(i) \/ Validate(i)
    BY <1>1, <2>5
    DEF Ask, ReadCache, JoinOrSubmit, SubmitProbe, PollAnswered, PollFails, FallBack, Admit, Validate
  <2> QED BY <1>2, <2>1, <2>2, <2>3, <2>4, <2>5 DEF Proceed
<1>3. ASSUME NEW i \in Generators, Serve(i) PROVE FALSE
  BY <1>1, <1>3 DEF Serve, WorkerParses, WorkerStages, WorkerExecutes
<1>4. ASSUME NEW p \in Probes, AnswerProbe(p) \/ FailProbe(p) \/ ExpireRecord(p) PROVE FALSE
  BY <1>1, <1>4 DEF AnswerProbe, FailProbe, ExpireRecord
<1>5. ASSUME NEW date \in Dates, Age(date) PROVE FALSE
  BY <1>a, <1>5 DEF Age, Caches
<1>6. CASE UNCHANGED vars
  BY <1>1, <1>6 DEF vars
<1> QED BY <1>2, <1>3, <1>4, <1>5, <1>6 DEF Next

THEOREM FailuresKeepTheDocument == Spec => DocumentSurvivesFailures
BY InitTyping, StepTyping, StepKeepsDocument, PTL DEF Spec, DocumentSurvivesFailures

=============================================================================

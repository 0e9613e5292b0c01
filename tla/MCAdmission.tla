---------------------------- MODULE MCAdmission ----------------------------
(* Releases and request bodies for model checking Admission. *)
EXTENDS Admission, TLC

\* A probe's id means nothing.
Ids == Permutations(Probes)

MCTiers == {"draft", "standard", "hd", "2k"}
MCFiles == {"fl2va", "ref2va", "fl2v_8step", "fl2v_4step", "ref2v_4step"}
(* The release the control plane expects; one it does not, without the     *)
(* reference model; and one with the tiers of this repository's canvas.py. *)
MCExpected == [build |-> "expected", tiers |-> MCTiers, files |-> MCFiles]
MCSlim == [build |-> "slim", tiers |-> MCTiers, files |-> {"fl2va", "fl2v_4step"}]
MCOwn == [build |-> "expected", tiers |-> {"draft", "standard", "hd", "ultra"},
          files |-> MCFiles]
MCReleases == {MCExpected, MCSlim, MCOwn}

Image == [type |-> "image", role |-> "guided", seconds |-> 0, soundtrack |-> NoSoundtrack]
Video(role, seconds, soundtrack) ==
    [type |-> "video", role |-> role, seconds |-> seconds, soundtrack |-> soundtrack]
Audio(seconds) ==
    [type |-> "audio", role |-> "guided", seconds |-> seconds, soundtrack |-> NoSoundtrack]

Body(mode, references) ==
    [mode |-> mode, quality |-> "standard", duration |-> 5 * Second,
     generationMode |-> "quality", firstFrame |-> mode = "animate",
     lastFrame |-> FALSE, references |-> references, confidential |-> FALSE]

Silent == Video("guided", 5, NoSoundtrack)
Sounding == Video("source", 5, 5)
MCReferences == {
    <<Image>>, <<Audio(16)>>, <<Video("source", 1, NoSoundtrack)>>,
    <<Audio(3), Silent, Sounding, Image, Audio(3)>>,
    [k \in 1 .. 9 |-> Image] \o <<Sounding, Audio(3)>>,
    [k \in 1 .. 9 |-> Image] \o <<Sounding, Audio(3), Audio(3)>>,
    [k \in 1 .. 4 |-> Audio(3)], <<[Image EXCEPT !.role = "source"]>>,
    <<[Audio(3) EXCEPT !.soundtrack = 3]>> }

MCInputs ==
    {Body("references", refs) : refs \in MCReferences}
    \cup {Body("remix", <<Image>>), Body("remix", <<Audio(3), Sounding>>)}
    \cup {Body(m, <<>>) : m \in Modes} \cup {Body("create", <<Image>>)}
    \cup {[Body("create", <<>>) EXCEPT !.duration = d] :
             d \in {0, 2082, 2083, 1496667, 1496668, 1500000}}
    \cup {[Body("create", <<>>) EXCEPT !.quality = q] : q \in {"2k", "ultra"}}
    \cup {[Body("animate", <<>>) EXCEPT !.generationMode = "turbo"],
          [Body("references", <<Image>>) EXCEPT !.generationMode = "turbo"],
          [Body("animate", <<>>) EXCEPT !.confidential = TRUE],
          [Body("references", <<Image>>) EXCEPT !.lastFrame = TRUE]}
=============================================================================

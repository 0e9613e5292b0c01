----------------------------- MODULE ModelCache -----------------------------
(***************************************************************************)
(* How a slim worker starts: bootstrap.py checks the image's build         *)
(* identity, cached_models.py checks RunPod's snapshot of the pinned model *)
(* revision and links its files into ComfyUI's model directories, and the  *)
(* handler takes over the process. Then worker.js compares the document    *)
(* that handler reports with the release it expects.                       *)
(*                                                                         *)
(* RunPod's cache changes on its own. The container dies at any statement; *)
(* it comes back with the links it left, or from the image.                *)
(***************************************************************************)
EXTENDS Integers, FiniteSets, FiniteSetsExt

CONSTANTS
  NumAssets,  \* files of the manifest; the first is the FL2VA checkpoint
  Listed,     \* those ModelInventory looks for: checkpoints and Turbo LoRAs
  Images,     \* what an image may have at the paths of the links
  MaxFaults   \* crashes, evictions and failed system calls of a behaviour

Assets == 1 .. NumAssets
Alias  == NumAssets + 1            \* diffusion_models/h3/, linked to the first
Paths  == 1 .. NumAssets + 1       \* in the order activate_cached_models goes

\* pinned: the one target _link_state accepts; foreign: a file, a directory or
\* a link to anything else.
Links == {"missing", "pinned", "foreign"}

ASSUME NumAssetsAssumption == NumAssets \in Nat \ {0}
ASSUME ListedAssumption    == Listed \subseteq Assets
ASSUME ImagesAssumption    == Images \subseteq [Paths -> {"missing", "foreign"}]
ASSUME MaxFaultsAssumption == MaxFaults \in Nat

VARIABLES
  pc,        \* the statement of bootstrap.main(), or the handler's process
  config,    \* H3_MODEL_REPO, _REVISION and _MANIFEST_VERSION of the endpoint
  identity,  \* slim-build-identity.json is well formed
  digest,    \* H3_IMAGE_DIGEST is the one worker.js expects
  image,     \* the image's file system at the paths of the links
  link,      \* the container's
  snapshot,  \* RunPod's files of the pinned revision
  at,        \* the path the checking loop is at
  planned,   \* links still to create
  created,   \* links created by this start and not rolled back
  names,     \* the file names the handler found when it was imported
  faults,    \* faults so far
  before,    \* the links this start found (history)
  stuck,     \* links this start could not remove again (history)
  changed    \* snapshot files that changed since they were checked (history)

vars == <<pc, config, identity, digest, image, link, snapshot, at, planned,
          created, names, faults, before, stuck, changed>>

fixed == <<config, identity, digest, image>>
history == <<before, stuck, changed>>

Running == {"identity", "checking", "linking", "rollback"}

TypeOK ==
  /\ pc \in Running \cup {"down", "exited", "serving"}
  /\ config \in {"pinned", "unset", "wrong"}
  /\ identity \in BOOLEAN
  /\ digest \in BOOLEAN
  /\ image \in Images
  /\ link \in [Paths -> Links]
  /\ snapshot \in [Assets -> {"absent", "short", "right"}]
  /\ at \in Paths
  /\ planned \subseteq Paths
  /\ created \subseteq Paths
  /\ names \subseteq Assets
  /\ faults \in 0 .. MaxFaults
  /\ before \in [Paths -> Links]
  /\ stuck \subseteq Paths
  /\ changed \subseteq Assets
  \* What is to be linked is not linked yet, what was created is.
  /\ \A p \in planned : link[p] = "missing"
  /\ \A p \in created : link[p] = "pinned"

Init ==
  /\ pc = "down"
  /\ config \in {"pinned", "unset", "wrong"}
  /\ identity \in BOOLEAN
  /\ digest \in BOOLEAN
  /\ image \in Images
  /\ link = image
  /\ snapshot = [a \in Assets |-> "absent"]
  /\ at = 1
  /\ planned = {}
  /\ created = {}
  /\ names = {}
  /\ faults = 0
  /\ before = image
  /\ stuck = {}
  /\ changed = {}

-----------------------------------------------------------------------------
(* bootstrap.main() and activate_cached_models.                            *)

\* RunPod starts the container: a new call of main().
Start ==
  /\ pc = "down"
  /\ pc' = "identity"
  /\ at' = 1
  /\ planned' = {}
  /\ created' = {}
  /\ names' = {}
  /\ before' = link
  /\ stuck' = {}
  /\ changed' = {}
  /\ UNCHANGED <<fixed, link, snapshot, faults>>

\* CachedModelError: main() returns 1.
Refuse ==
  /\ pc' = "exited"
  /\ UNCHANGED <<fixed, link, snapshot, at, planned, created, names, faults, history>>

\* _load_build_identity, load_manifest and _configured_value: a value that is
\* not set stands for the pinned one.
Configure ==
  /\ pc = "identity"
  /\ identity
  /\ config # "wrong"
  /\ pc' = "checking"
  /\ UNCHANGED <<fixed, link, snapshot, at, planned, created, names, faults, history>>

RefuseConfiguration ==
  /\ pc = "identity"
  /\ ~identity \/ config = "wrong"
  /\ Refuse

\* Mutant of Acceptable: a file of any size will do.
AcceptableOfAnySize(p) == p \in Assets => snapshot[p] # "absent"

\* The file is there and has the size of the manifest.
Acceptable(p) == p \in Assets => snapshot[p] = "right"

\* Mutant of Recognised: what an earlier start linked is refused, too.
RecognisedWhenMissing(p) == link[p] = "missing"

\* _link_state does not raise.
Recognised(p) == link[p] # "foreign"

CheckPath ==
  /\ pc = "checking"
  /\ Acceptable(at)
  /\ Recognised(at)
  /\ planned' = IF link[at] = "missing" THEN planned \cup {at} ELSE planned
  /\ IF at = Alias
     THEN /\ pc' = "linking"
          /\ UNCHANGED at
     ELSE /\ at' = at + 1
          /\ UNCHANGED pc
  /\ changed' = changed \ {at}
  /\ UNCHANGED <<fixed, link, snapshot, created, names, faults, before, stuck>>

RefusePath ==
  /\ pc = "checking"
  /\ ~Acceptable(at) \/ ~Recognised(at)
  /\ Refuse

\* One round of the loop over `planned`, the alias last.
Link ==
  /\ pc = "linking"
  /\ planned # {}
  /\ LET p == Min(planned) IN
       /\ link' = [link EXCEPT ![p] = "pinned"]
       /\ planned' = planned \ {p}
       /\ created' = created \cup {p}
  /\ UNCHANGED <<pc, fixed, snapshot, at, names, faults, history>>

\* mkdir or symlink raises OSError.
LinkFails ==
  /\ pc = "linking"
  /\ planned # {}
  /\ faults < MaxFaults
  /\ faults' = faults + 1
  /\ pc' = "rollback"
  /\ UNCHANGED <<fixed, link, snapshot, at, planned, created, names, history>>

\* Mutant of Unlink: only the first link is taken back.
UnlinkFirst ==
  /\ pc = "rollback"
  /\ created # {}
  /\ link' = [link EXCEPT ![Max(created)] = "missing"]
  /\ created' = {}
  /\ UNCHANGED <<pc, fixed, snapshot, at, planned, names, faults, history>>

Unlink ==
  /\ pc = "rollback"
  /\ created # {}
  /\ link' = [link EXCEPT ![Max(created)] = "missing"]
  /\ created' = created \ {Max(created)}
  /\ UNCHANGED <<pc, fixed, snapshot, at, planned, names, faults, history>>

\* An OSError of the clean-up is swallowed: the link stays.
UnlinkFails ==
  /\ pc = "rollback"
  /\ created # {}
  /\ faults < MaxFaults
  /\ faults' = faults + 1
  /\ created' = created \ {Max(created)}
  /\ stuck' = stuck \cup {Max(created)}
  /\ UNCHANGED <<pc, fixed, link, snapshot, at, planned, names, before, changed>>

RolledBack ==
  /\ pc = "rollback"
  /\ created = {}
  /\ Refuse

\* os.execv; importing the handler lists the model directories. A link whose
\* target is gone has a name, too.
ExecHandler ==
  /\ pc = "linking"
  /\ planned = {}
  /\ pc' = "serving"
  /\ names' = {a \in Assets : link[a] # "missing"}
  /\ UNCHANGED <<fixed, link, snapshot, at, planned, created, faults, history>>

Bootstrap ==
  \/ Configure \/ RefuseConfiguration \/ CheckPath \/ RefusePath
  \/ Link \/ Unlink \/ RolledBack \/ ExecHandler

-----------------------------------------------------------------------------
(* RunPod.                                                                 *)

\* After an exit the container is started again, or another from the image.
Restart ==
  /\ pc = "exited"
  /\ pc' = "down"
  /\ link' \in {link, image}
  /\ UNCHANGED <<fixed, snapshot, at, names, faults, history>>
  /\ planned' = {}
  /\ created' = {}

\* The process is killed, in the middle of main() or as the handler.
Crash ==
  /\ pc \in Running \cup {"serving"}
  /\ faults < MaxFaults
  /\ faults' = faults + 1
  /\ pc' = "down"
  /\ link' \in {link, image}
  /\ planned' = {}
  /\ created' = {}
  /\ UNCHANGED <<fixed, snapshot, at, names, history>>

\* The host downloads a file of the revision.
Materialise(a) ==
  /\ snapshot[a] # "right"
  /\ snapshot' = [snapshot EXCEPT ![a] = IF @ = "absent" THEN "short" ELSE "right"]
  /\ changed' = changed \cup {a}
  /\ UNCHANGED <<pc, fixed, link, at, planned, created, names, faults, before, stuck>>

Evict(a) ==
  /\ snapshot[a] # "absent"
  /\ faults < MaxFaults
  /\ faults' = faults + 1
  /\ snapshot' = [snapshot EXCEPT ![a] = "absent"]
  /\ changed' = changed \cup {a}
  /\ UNCHANGED <<pc, fixed, link, at, planned, created, names, before, stuck>>

-----------------------------------------------------------------------------
(* The gate of worker.js: cachedCanaryReleaseMatchesExpected on the        *)
(* document worker_capabilities would report.                              *)

Document ==
  [imageDigest |-> digest, modelRelease |-> config = "pinned", files |-> names]

ReleaseMatches(document) ==
  /\ document.imageDigest
  /\ document.modelRelease
  /\ Listed \subseteq document.files

Admits == pc = "serving" /\ ReleaseMatches(Document)

-----------------------------------------------------------------------------
Next ==
  \/ Start \/ Bootstrap \/ LinkFails \/ UnlinkFails \/ Restart \/ Crash
  \/ \E a \in Assets : Materialise(a) \/ Evict(a)

\* main() goes on, RunPod restarts what exited and goes on downloading.
Fairness ==
  /\ WF_vars(Start \/ Bootstrap \/ Restart)
  /\ WF_vars(\E a \in Assets : Materialise(a))

Spec == Init /\ [][Next]_vars /\ Fairness

-----------------------------------------------------------------------------
(* What activation promises.                                               *)

\* A handler only ever runs, and a generation is only ever admitted to it, with
\* every model path linked to the pinned revision and every file of the right
\* size - but for files the host changed after they were checked: nobody looks
\* at them again while the worker lives.
ServesPinned ==
  pc = "serving" =>
    /\ identity /\ config # "wrong"
    /\ \A p \in Paths : link[p] = "pinned"
    /\ \A a \in Assets : snapshot[a] = "right" \/ a \in changed
    /\ names = Assets

\* No start replaces what it did not link, and a start that fails leaves the
\* links as it found them, but for those it could not remove.
LeavesNoTrace ==
  /\ \A p \in Paths : image[p] = "foreign" => link[p] = "foreign"
  /\ pc = "exited" => \A p \in Paths : link[p] # before[p] => p \in stuck

\* An endpoint that is configured for the pinned release, with an image that is
\* clean, comes up and stays up once the faults are over - whatever a crash
\* between two links, a failed rollback or an eviction left behind - and, if its
\* operator set every variable, worker.js then admits generations to it.
Recovers ==
  identity /\ config # "wrong" /\ (\A p \in Paths : image[p] = "missing")
    => /\ <>[](pc = "serving")
       /\ config = "pinned" /\ digest => <>[]Admits
=============================================================================

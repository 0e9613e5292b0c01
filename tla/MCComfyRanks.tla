---------------------------- MODULE MCComfyRanks ----------------------------
(* Endpoint configurations for model checking ComfyRanks. *)
EXTENDS ComfyRanks

Endpoint(mode, devices, worldSize, allowFallback) ==
  [mode |-> mode, devices |-> devices, worldSize |-> worldSize,
   allowFallback |-> allowFallback]

\* Every reason for which dual cannot be honoured, with and without fallback.
MCEndpoints ==
  {Endpoint(mode, devices, worldSize, fallback) :
     mode \in {"single", "dual"}, devices \in 1..2, worldSize \in 1..3, fallback \in BOOLEAN}
MCDual == {Endpoint("dual", 2, 2, FALSE)}
=============================================================================

---------------------------- MODULE MCJobHandler ----------------------------
(* Instances of JobHandler for TLC.                                        *)
EXTENDS JobHandler

CONSTANTS j1, j2, k1, r1, l1, o1, o2

MCKeyframes  == {k1}
MCReferences == {r1}
MCLoras      == {l1}

Workflow(confidential, url) ==
  [kind |-> "workflow", confidential |-> confidential, url |-> url,
   keyframes |-> {k1}, refs |-> {}, loras |-> {}]
Privora(confidential, url) ==
  [kind |-> "privora", confidential |-> confidential, url |-> url,
   keyframes |-> {}, refs |-> {r1}, loras |-> {l1}]
Capabilities ==
  [kind |-> "capabilities", confidential |-> FALSE, url |-> FALSE,
   keyframes |-> {}, refs |-> {}, loras |-> {}]

\* Both routes, both privacy modes, with and without an upload endpoint.
MCRequests ==
  {Capabilities, Workflow(FALSE, FALSE), Workflow(FALSE, TRUE),
   Privora(TRUE, TRUE), Privora(TRUE, FALSE)}

\* j1 comes first, and j2 saves at most one file. ComfyUI promises nothing, so
\* what is left is again an instance of JobHandler, with a tamer ComfyUI.
FirstJobFirst ==
  /\ written[j2] \subseteq {o1}
  /\ job = j2 \/ result[j2] # "none" => result[j1] # "none"
=============================================================================

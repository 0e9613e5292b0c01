------------------------- MODULE MCKeyframeStaging -------------------------
(* Workflows and requests for model checking KeyframeStaging.              *)
EXTENDS KeyframeStaging, TLC

CONSTANTS v, w, a, b, r, s

MCRoles == <<"first_frame", "last_frame">>

Sockets(first, last) == [role \in RoleSet |-> IF role = "first_frame" THEN first ELSE last]

\* v is wired to a loader, to one of two nodes that may be linked in a circle, or
\* to nothing; a second clip may take b. The workflow may lack a, which leaves
\* the links to it dangling, and b may be no candidate.
MCWorkflows ==
  {[present |-> present,
    socket  |-> v :> Sockets(first, last) @@ w :> Sockets(second, Nothing),
    links   |-> r :> ofR @@ s :> ofS @@ [l \in Loaders |-> {}],
    image   |-> image] :
     present \in {Nodes, Nodes \ {a}},
     first \in {Nothing, a, r, s}, last \in {Nothing, a, r, s}, second \in {Nothing, b},
     ofR \in SUBSET {a, b, s}, ofS \in {{}, {r}, {b, r}},
     image \in {{a, b, r}, {a}}}

\* No image, one for whichever node fits, one for b, one for r.
MCRequests == [RoleSet -> {Nothing} \cup [node : {Nothing, b, r}]]
=============================================================================

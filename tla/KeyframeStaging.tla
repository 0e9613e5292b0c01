--------------------------- MODULE KeyframeStaging ---------------------------
(***************************************************************************)
(* stage_input_assets of handler.py: which image loader of a caller's      *)
(* workflow gets which keyframe, and what is on the disk afterwards.       *)
(*                                                                         *)
(* find_image_node walks the links of the workflow backwards from the      *)
(* frame sockets of every MiniMaxH3ImageToVideo node. The graph is the     *)
(* caller's: it may have cycles, links to nodes that are not there, loaders *)
(* behind resize nodes, loaders shared by both sockets.                    *)
(***************************************************************************)
EXTENDS Naturals, FiniteSets, Sequences

CONSTANTS
  Roles,      \* KEYFRAME_ROLES, a sequence: the order they are staged in
  Videos,     \* MiniMaxH3ImageToVideo nodes
  Loaders,    \* nodes of IMAGE_LOADER_CLASS_TYPES
  Others,     \* all other nodes, a resize node for one
  Workflows,  \* the workflows callers send
  Requests,   \* the keyframes callers send
  Nothing     \* no link, no node, no image

Nodes    == Videos \cup Loaders \cup Others
RoleSet  == {Roles[i] : i \in 1 .. Len(Roles)}

\* An id of Loaders or Others that is not in `present` is a dangling link's.
Workflow ==
  [present : SUBSET Nodes,                              \* ids of the workflow
   socket  : [Videos -> [RoleSet -> Nodes \cup {Nothing}]],
   links   : [Loaders \cup Others -> SUBSET Nodes],     \* sources of its links
   image   : SUBSET Nodes]                              \* has an "image" input

\* role -> Nothing, or an image and the node id the caller named for it.
Request == [RoleSet -> {Nothing} \cup [node : Nodes \cup {Nothing}]]

ASSUME RolesAssumption     == /\ Roles \in Seq(RoleSet)
                              /\ \A i, k \in 1 .. Len(Roles) : Roles[i] = Roles[k] => i = k
ASSUME NodesAssumption     == Nothing \notin Nodes
ASSUME WorkflowsAssumption == Workflows \subseteq Workflow
ASSUME RequestsAssumption  == Requests \subseteq Request

VARIABLES
  workflow,   \* the caller's graph
  request,    \* the caller's keyframes, after _collect_asset_specs
  pc,         \* where stage_input_assets is
  turn,       \* index of the role being resolved or staged
  walks,      \* sockets find_image_node has still to walk back from
  queue,      \* _reachable_image_loaders' queue
  seen,       \* its nodes so far
  preferred,  \* loaders that feed the role
  claimed,    \* loaders that feed another role
  resolved,   \* role -> the node that gets its image, or Nothing
  staged,     \* roles whose file was written
  files,      \* on the disk: role and whether it was written to its end
  wired       \* node -> the role whose file its image input names, or Nothing

vars == <<workflow, request, pc, turn, walks, queue, seen, preferred, claimed,
          resolved, staged, files, wired>>

caller == <<workflow, request>>
walkVars == <<walks, queue, seen, preferred, claimed>>
diskVars == <<staged, files, wired>>

Role == Roles[turn]
Socket == [video : Videos, role : RoleSet]

TypeOK ==
  /\ workflow \in Workflow
  /\ request \in Request
  /\ pc \in {"resolve", "feeding", "claiming", "stage", "done", "failed"}
  /\ turn \in 1 .. Len(Roles) + 1
  /\ pc \in {"feeding", "claiming"} => turn <= Len(Roles)
  /\ walks \subseteq Socket
  /\ queue \subseteq Nodes
  /\ seen \subseteq workflow.present
  /\ preferred \cup claimed \subseteq Loaders \cap workflow.present
  /\ resolved \in [RoleSet -> Nodes \cup {Nothing}]
  /\ staged \subseteq RoleSet
  /\ files \subseteq [role : RoleSet, whole : BOOLEAN]
  /\ wired \in [Nodes -> RoleSet \cup {Nothing}]

\* _collect_asset_specs has merged the legacy fields with the assets.
Init ==
  /\ workflow \in Workflows
  /\ request \in Requests
  /\ pc = "resolve"
  /\ turn = 1
  /\ walks = {}
  /\ queue = {}
  /\ seen = {}
  /\ preferred = {}
  /\ claimed = {}
  /\ resolved = [r \in RoleSet |-> Nothing]
  /\ staged = {}
  /\ files = {}
  /\ wired = [n \in Nodes |-> Nothing]

-----------------------------------------------------------------------------
(* find_image_node, for one role after the other.                          *)

Candidates == Loaders \cap workflow.present \cap workflow.image

\* ImageInputError before anything is staged.
Reject ==
  /\ pc' = "failed"
  /\ UNCHANGED <<caller, turn, walkVars, resolved, diskVars>>

Resolve(node) ==
  /\ resolved' = [resolved EXCEPT ![Role] = node]
  /\ turn' = turn + 1
  /\ pc' = "resolve"
  /\ UNCHANGED <<caller, walkVars, diskVars>>

Resolving == pc = "resolve" /\ turn <= Len(Roles)

SkipRole ==
  /\ Resolving
  /\ request[Role] = Nothing
  /\ Resolve(Nothing)

\* The caller named a node: any node with an image input will do.
ResolveNamed ==
  /\ Resolving
  /\ request[Role] # Nothing
  /\ LET node == request[Role].node IN
       /\ node # Nothing
       /\ IF node \in workflow.present \cap workflow.image THEN Resolve(node) ELSE Reject

\* The sockets of the given roles that are wired.
SocketsOf(roles) ==
  {s \in Socket : /\ s.video \in workflow.present
                  /\ s.role \in roles
                  /\ workflow.socket[s.video][s.role] # Nothing}

BeginSearch ==
  /\ Resolving
  /\ request[Role] # Nothing
  /\ request[Role].node = Nothing
  /\ IF Candidates = {}
     THEN Reject
     ELSE /\ pc' = "feeding"
          /\ walks' = SocketsOf({Role})
          /\ preferred' = {}
          /\ claimed' = {}
          /\ UNCHANGED <<caller, turn, queue, seen, resolved, diskVars>>

Searching == pc \in {"feeding", "claiming"}

\* _reachable_image_loaders is called for one socket.
BeginWalk ==
  /\ Searching
  /\ queue = {}
  /\ \E s \in walks :
       /\ walks' = walks \ {s}
       /\ queue' = {workflow.socket[s.video][s.role]}
  /\ seen' = {}
  /\ UNCHANGED <<caller, pc, turn, preferred, claimed, resolved, diskVars>>

\* What a node that is not a loader is linked to.
SourcesOf(n) ==
  IF n \in Videos
  THEN {workflow.socket[n][r] : r \in RoleSet} \ {Nothing}
  ELSE workflow.links[n]

\* Mutant of Skipped: a node is visited as often as it is linked to.
SkippedIfMissing(n) == n \notin workflow.present

Skipped(n) == n \in seen \/ n \notin workflow.present

\* One round of its loop.
Walk ==
  /\ Searching
  /\ \E n \in queue :
       IF Skipped(n)
       THEN /\ queue' = queue \ {n}
            /\ UNCHANGED <<seen, preferred, claimed>>
       ELSE /\ seen' = seen \cup {n}
            /\ queue' = (queue \ {n}) \cup IF n \in Loaders THEN {} ELSE SourcesOf(n)
            /\ preferred' = preferred \cup (IF pc = "feeding" THEN {n} \cap Loaders ELSE {})
            /\ claimed' = claimed \cup (IF pc = "claiming" THEN {n} \cap Loaders ELSE {})
  /\ UNCHANGED <<caller, pc, turn, walks, resolved, diskVars>>

SearchOver == Searching /\ queue = {} /\ walks = {}

\* Exactly one loader feeds the role.
ResolvePreferred ==
  /\ SearchOver
  /\ pc = "feeding"
  /\ \E n \in preferred : preferred = {n} /\ Resolve(n)

BeginClaims ==
  /\ SearchOver
  /\ pc = "feeding"
  /\ Cardinality(preferred) # 1
  /\ pc' = "claiming"
  /\ walks' = SocketsOf(RoleSet \ {Role})
  /\ UNCHANGED <<caller, turn, queue, seen, preferred, claimed, resolved, diskVars>>

\* Mutant of Unclaimed: every loader of the workflow.
UnclaimedOrNot == Candidates

Unclaimed == Candidates \ claimed

\* None does, and there is one loader nobody else has.
ResolveOnly ==
  /\ SearchOver
  /\ pc = "claiming"
  /\ preferred = {}
  /\ \E n \in Unclaimed : Unclaimed = {n} /\ Resolve(n)

RejectAmbiguous ==
  /\ SearchOver
  /\ pc = "claiming"
  /\ preferred # {} \/ Cardinality(Unclaimed) # 1
  /\ Reject

-----------------------------------------------------------------------------
(* The rest of stage_input_assets.                                         *)

Supplied == {r \in RoleSet : request[r] # Nothing}

\* Mutant of BeginStaging: two keyframes may share a node.
BeginStagingUnchecked ==
  /\ pc = "resolve"
  /\ turn > Len(Roles)
  /\ pc' = "stage"
  /\ turn' = 1
  /\ UNCHANGED <<caller, walkVars, resolved, diskVars>>

\* Two keyframes must not share a node.
BeginStaging ==
  /\ pc = "resolve"
  /\ turn > Len(Roles)
  /\ IF Cardinality({resolved[r] : r \in Supplied}) # Cardinality(Supplied)
     THEN Reject
     ELSE /\ pc' = "stage"
          /\ turn' = 1
          /\ UNCHANGED <<caller, walkVars, resolved, diskVars>>

Staging == pc = "stage" /\ turn <= Len(Roles)

SkipStaging ==
  /\ Staging
  /\ Role \notin Supplied
  /\ turn' = turn + 1
  /\ UNCHANGED <<caller, pc, walkVars, resolved, diskVars>>

\* Fetched over at most three redirects or decoded, validated, written, wired.
Stage ==
  /\ Staging
  /\ Role \in Supplied
  /\ files' = files \cup {[role |-> Role, whole |-> TRUE]}
  /\ staged' = staged \cup {Role}
  /\ wired' = [wired EXCEPT ![resolved[Role]] = Role]
  /\ turn' = turn + 1
  /\ UNCHANGED <<caller, pc, walkVars, resolved>>

\* Fetch, decoding or validation raise before the file exists, the write and
\* chmod after; a file that was not written to its end is not in `staged`.
StageFails ==
  /\ Staging
  /\ Role \in Supplied
  /\ pc' = "failed"
  /\ \E left \in {{}, {[role |-> Role, whole |-> FALSE]}} :
       files' = {f \in files : f.role \notin staged} \cup left
  /\ UNCHANGED <<caller, turn, walkVars, resolved, staged, wired>>

Finish ==
  /\ pc = "stage"
  /\ turn > Len(Roles)
  /\ pc' = "done"
  /\ UNCHANGED <<caller, turn, walkVars, resolved, diskVars>>

-----------------------------------------------------------------------------
Next ==
  \/ SkipRole \/ ResolveNamed \/ BeginSearch \/ BeginWalk \/ Walk
  \/ ResolvePreferred \/ BeginClaims \/ ResolveOnly \/ RejectAmbiguous
  \/ BeginStaging \/ SkipStaging \/ Stage \/ StageFails \/ Finish

\* One thread; each statement returns or raises.
Spec == Init /\ [][Next]_vars /\ WF_vars(Next)

-----------------------------------------------------------------------------
(* What a caller relies on.                                                *)

\* n feeds the role: it is in every set of nodes that contains what one of the
\* role's sockets is linked to and, with a node that is no loader, all its
\* sources.
Closed(nodes) ==
  \A m \in nodes \ Loaders : SourcesOf(m) \cap workflow.present \subseteq nodes

Feeds(n, role) ==
  /\ n \in workflow.present
  /\ \E s \in SocketsOf({role}) :
       LET source == workflow.socket[s.video][s.role] IN
         /\ source \in workflow.present
         /\ \A nodes \in SUBSET workflow.present :
              source \in nodes /\ Closed(nodes) => n \in nodes

\* An image whose node the handler chose is the only one to feed its role, or no
\* loader does; and it never ends up at the other end of the clip alone: what
\* find_image_node says of its fallback, for every graph a caller can send.
NeverTheOtherEnd ==
  pc = "done" =>
    \A role \in Supplied : request[role].node = Nothing =>
      LET node == resolved[role] IN
        /\ \A n \in Loaders : Feeds(n, role) => n = node
        /\ \/ Feeds(node, role)
           \/ \A other \in RoleSet : ~Feeds(node, other)

\* Either every keyframe of the request is on the disk and named by a node of its
\* own, or none is - but for a file that could not be written to its end. Two
\* roles that share a loader, or a second image that cannot be had, are found
\* out at different times.
AllOrNothing ==
  /\ pc = "done" =>
       /\ {f.role : f \in files} = Supplied
       /\ \A r \in Supplied : \E n \in workflow.present : wired[n] = r
  /\ pc = "failed" => \A f \in files : ~f.whole

\* Graphs with cycles, too, are searched in finite time.
Ends == <>(pc \in {"done", "failed"})
=============================================================================

------------------------ MODULE KeyframeStaging_proofs ------------------------
(***************************************************************************)
(* Machine-checked proofs about KeyframeStaging, for any workflow graph,   *)
(* any keyframe roles and any request.                                     *)
(***************************************************************************)
EXTENDS KeyframeStaging, FiniteSetTheorems, TLAPS

USE NodesAssumption
USE DEF caller, walkVars, diskVars

-----------------------------------------------------------------------------
(* The invariants.                                                         *)

Typing == TypeOK /\ walks \subseteq SocketsOf(RoleSet)

Source(s) == workflow.socket[s.video][s.role]

\* The roles whose sockets are walked back, and the loaders that were found.
Wanted == IF pc = "feeding" THEN {Role} ELSE RoleSet \ {Role}
Found  == IF pc = "feeding" THEN preferred ELSE claimed

\* A finished walk leaves a closed set of nodes behind it.
Searched(source) ==
  \E nodes \in SUBSET workflow.present :
    source \in nodes /\ Closed(nodes) /\ nodes \cap Loaders \subseteq Found

\* The first walk from the sockets has begun: what is in `seen` is no longer
\* that of the role before.
Begun == walks # SocketsOf(Wanted)

\* Where a search is. Nothing is found that feeds none of the roles, and nothing is
\* passed over: what `seen` links to is in it or in the queue, and behind every
\* socket that is done with there is a closed set of nodes.
Walking ==
  /\ Searching =>
       /\ walks \subseteq SocketsOf(Wanted)
       /\ Begun \/ queue = {}
       /\ \A n \in Found : \E role \in Wanted : Feeds(n, role)
       /\ Begun =>
            /\ \A n \in seen \cup (queue \cap workflow.present) :
                 \E role \in Wanted : Feeds(n, role)
            /\ seen \cap Loaders \subseteq Found
            /\ \A m \in seen \ Loaders :
                 SourcesOf(m) \cap workflow.present \subseteq seen \cup queue
            /\ \A s \in SocketsOf(Wanted) \ walks :
                 Source(s) \in workflow.present =>
                   Source(s) \in seen \cup queue \/ Searched(Source(s))
  /\ ~Searching => queue = {}
  /\ pc = "feeding" => claimed = {}
  /\ pc = "claiming" => preferred = {n \in Loaders : Feeds(n, Role)}

\* What NeverTheOtherEnd asks of the node that was chosen for a role.
Settled(role) ==
  request[role].node = Nothing =>
    /\ \A n \in Loaders : Feeds(n, role) => n = resolved[role]
    /\ \/ Feeds(resolved[role], role)
       \/ \A other \in RoleSet : ~Feeds(resolved[role], other)

\* A keyframe is settled when its turn is over, and stays so.
Chosen(role) ==
  role \in Supplied => resolved[role] \in workflow.present /\ Settled(role)

Choosing ==
  /\ pc \in {"resolve", "feeding", "claiming"} =>
       \A i \in 1 .. turn - 1 : Chosen(Roles[i])
  /\ pc \in {"stage", "done"} => \A role \in RoleSet : Chosen(role)

\* Files are written in the order of the roles, to nodes of their own, and only
\* when all keyframes have one.
Writing ==
  /\ pc \in {"resolve", "feeding", "claiming"} => staged = {} /\ files = {}
  /\ pc \in {"stage", "done"} =>
       /\ \A r, q \in Supplied : resolved[r] = resolved[q] => r = q
       /\ staged = {r \in Supplied : \E i \in 1 .. turn - 1 : r = Roles[i]}
       /\ \A f \in files : f.role \in staged /\ f.whole
       /\ \A r \in staged : \E f \in files : f.role = r
       /\ \A r \in staged : wired[resolved[r]] = r
  /\ pc = "done" => turn > Len(Roles)
  /\ pc = "failed" => \A f \in files : ~f.whole

-----------------------------------------------------------------------------
(* Types.                                                                  *)

LEMMA RolesAreCounted == Len(Roles) \in Nat
BY RolesAssumption

\* A request is staged as it was sent.
LEMMA CallerIsKept == [Next]_vars => UNCHANGED caller
BY DEF Next, vars, SkipRole, ResolveNamed, BeginSearch, BeginWalk, Walk, ResolvePreferred,
       BeginClaims, ResolveOnly, RejectAmbiguous, BeginStaging, SkipStaging, Stage,
       StageFails, Finish, Resolve, Reject

LEMMA SocketsAreKept ==
  ASSUME UNCHANGED caller, NEW roles PROVE SocketsOf(roles)' = SocketsOf(roles)
BY DEF SocketsOf

LEMMA MoreSockets == ASSUME NEW roles \in SUBSET RoleSet PROVE SocketsOf(roles) \subseteq SocketsOf(RoleSet)
BY DEF SocketsOf


LEMMA RoleIsOne == TypeOK /\ turn <= Len(Roles) => Role \in RoleSet
BY RolesAreCounted DEF TypeOK, Role, RoleSet

LEMMA SourcesAreNodes ==
  ASSUME workflow \in Workflow, NEW n \in Nodes \ Loaders
  PROVE  SourcesOf(n) \subseteq Nodes
BY DEF Workflow, SourcesOf, Nodes

LEMMA SocketsHaveSources ==
  ASSUME workflow \in Workflow, NEW s \in SocketsOf(RoleSet)
  PROVE  s \in Socket /\ Source(s) \in Nodes
BY DEF Workflow, SocketsOf, Socket, Source

LEMMA InitTyping == Init => Typing
BY RolesAreCounted, RolesAssumption, WorkflowsAssumption, RequestsAssumption
DEF Init, Typing, TypeOK

\* Every step preserves the types.
LEMMA StepTyping == Typing /\ [Next]_vars => Typing'
<1> SUFFICES ASSUME Typing, [Next]_vars PROVE Typing'
  OBVIOUS
<1>a. turn <= Len(Roles) => Role \in RoleSet
  BY RoleIsOne DEF Typing
<1>b. SocketsOf(RoleSet)' = SocketsOf(RoleSet) /\ caller' = caller
  BY CallerIsKept, SocketsAreKept
<1>c. /\ SocketsOf(RoleSet \ {Role}) \subseteq SocketsOf(RoleSet)
      /\ turn <= Len(Roles) => SocketsOf({Role}) \subseteq SocketsOf(RoleSet)
  BY <1>a, MoreSockets
<1>d. SocketsOf(RoleSet) \subseteq Socket
  BY DEF SocketsOf
<1>e. workflow.present \subseteq Nodes
  BY DEF Typing, TypeOK, Workflow
<1>f. ASSUME turn <= Len(Roles), NEW node \in Nodes \cup {Nothing}, Resolve(node) PROVE Typing'
  <2>1. turn' \in 1 .. Len(Roles) + 1
    BY <1>f, RolesAreCounted DEF Resolve, Typing, TypeOK
  <2> QED BY <1>a, <1>b, <1>f, <2>1 DEF Resolve, Typing, TypeOK
<1>g. ASSUME Reject PROVE Typing'
  BY <1>b, <1>g DEF Reject, Typing, TypeOK
<1> USE DEF Typing, TypeOK
<1>1. CASE SkipRole
  BY <1>1, <1>f DEF SkipRole, Resolving
<1>2. CASE ResolveNamed
  BY <1>2, <1>e, <1>f, <1>g DEF ResolveNamed, Resolving
<1>3. CASE BeginSearch
  BY <1>3, <1>a, <1>b, <1>c, <1>d, RolesAreCounted DEF BeginSearch, Resolving, Reject
<1>4. CASE BeginWalk
  <2>1. PICK s \in walks : walks' = walks \ {s} /\ queue' = {Source(s)}
    BY <1>4 DEF BeginWalk, Source
  <2>2. Source(s) \in Nodes
    BY SocketsHaveSources
  <2> QED BY <1>4, <1>b, <2>1, <2>2 DEF BeginWalk
<1>5. CASE Walk
  <2>1. PICK n \in queue :
          IF Skipped(n)
          THEN queue' = queue \ {n} /\ UNCHANGED <<seen, preferred, claimed>>
          ELSE /\ seen' = seen \cup {n}
               /\ queue' = (queue \ {n}) \cup IF n \in Loaders THEN {} ELSE SourcesOf(n)
               /\ preferred' = preferred \cup (IF pc = "feeding" THEN {n} \cap Loaders ELSE {})
               /\ claimed' = claimed \cup (IF pc = "claiming" THEN {n} \cap Loaders ELSE {})
    BY <1>5 DEF Walk
  <2>2. UNCHANGED <<caller, pc, turn, walks, resolved, diskVars>>
    BY <1>5 DEF Walk
  <2>3. n \in Loaders \/ SourcesOf(n) \subseteq Nodes
    BY SourcesAreNodes
  <2> QED BY <1>b, <2>1, <2>2, <2>3 DEF Skipped
<1>6. CASE ResolvePreferred
  BY <1>6, <1>f DEF ResolvePreferred, SearchOver, Searching, Nodes
<1>7. CASE BeginClaims
  BY <1>7, <1>a, <1>b, <1>c, <1>d, RolesAreCounted DEF BeginClaims, SearchOver, Searching
<1>8. CASE ResolveOnly
  BY <1>8, <1>f DEF ResolveOnly, SearchOver, Searching, Unclaimed, Candidates, Nodes
<1>9. CASE RejectAmbiguous
  BY <1>9, <1>g DEF RejectAmbiguous
<1>10. CASE BeginStaging
  <2>1. CASE Reject
    BY <2>1, <1>g
  <2>2. CASE pc' = "stage" /\ turn' = 1 /\ UNCHANGED <<caller, walkVars, resolved, diskVars>>
    BY <1>b, <2>2, RolesAreCounted
  <2> QED BY <1>10, <2>1, <2>2 DEF BeginStaging
<1>11. CASE SkipStaging
  BY <1>11, <1>a, <1>b, <1>c, <1>d, RolesAreCounted DEF SkipStaging, Staging
<1>12. CASE Stage
  <2> DEFINE file == [role |-> Role, whole |-> TRUE]
  <2>0. file \in [role : RoleSet, whole : BOOLEAN]
    BY <1>12, <1>a DEF Stage, Staging
  <2>1. files' \subseteq [role : RoleSet, whole : BOOLEAN]
    <3>1. files' = files \cup {file}
      BY <1>12 DEF Stage
    <3> HIDE DEF file
    <3> QED BY <2>0, <3>1
  <2>2. wired' \in [Nodes -> RoleSet \cup {Nothing}]
    BY <1>12, <1>a DEF Stage, Staging
  <2>3. turn' \in 1 .. Len(Roles) + 1
    BY <1>12, RolesAreCounted DEF Stage, Staging
  <2>4. staged' \subseteq RoleSet /\ UNCHANGED <<caller, pc, walkVars, resolved>>
    BY <1>12, <1>a DEF Stage, Staging
  <2>5. pc = "stage"
    BY <1>12 DEF Stage, Staging
  <2> QED BY <1>b, <2>1, <2>2, <2>3, <2>4, <2>5
<1>13. CASE StageFails
  <2> DEFINE file == [role |-> Role, whole |-> FALSE]
  <2>0. file \in [role : RoleSet, whole : BOOLEAN]
    BY <1>13, <1>a DEF StageFails, Staging
  <2>1. files' \subseteq [role : RoleSet, whole : BOOLEAN]
    <3>1. files' \subseteq files \cup {file}
      BY <1>13 DEF StageFails
    <3> HIDE DEF file
    <3> QED BY <2>0, <3>1
  <2>2. pc' = "failed" /\ UNCHANGED <<caller, turn, walkVars, resolved, staged, wired>>
    BY <1>13 DEF StageFails
  <2> QED BY <1>b, <2>1, <2>2
<1>14. CASE Finish
  BY <1>14, <1>a, <1>b, <1>c, <1>d, RolesAreCounted DEF Finish
<1>15. CASE UNCHANGED vars
  BY <1>15, <1>a, <1>b, <1>c, <1>d, RolesAreCounted DEF vars
<1> QED
  BY <1>1, <1>2, <1>3, <1>4, <1>5, <1>6, <1>7, <1>8, <1>9, <1>10, <1>11, <1>12, <1>13, <1>14, <1>15 DEF Next

\* The types hold for any workflow, roles and request.
THEOREM TypeCorrect == Spec => []TypeOK
<1>1. Typing => TypeOK
  BY DEF Typing
<1> QED BY InitTyping, StepTyping, <1>1, PTL DEF Spec

-----------------------------------------------------------------------------
(* What feeds a role.                                                      *)

LEMMA SourceFeeds ==
  ASSUME NEW role, NEW s \in SocketsOf({role}), Source(s) \in workflow.present
  PROVE  Feeds(Source(s), role)
BY DEF Feeds, Source

LEMMA LinkFeeds ==
  ASSUME NEW role, NEW n, Feeds(n, role), n \notin Loaders,
         NEW m \in SourcesOf(n) \cap workflow.present
  PROVE  Feeds(m, role)
BY DEF Feeds, Closed

\* When there is a closed set behind every socket, all loaders are found.
LEMMA SearchedIsAll ==
  ASSUME NEW role,
         \A s \in SocketsOf({role}) : Source(s) \in workflow.present => Searched(Source(s)),
         NEW n \in Loaders, Feeds(n, role)
  PROVE  n \in Found
<1>1. PICK s \in SocketsOf({role}) :
        /\ Source(s) \in workflow.present
        /\ \A nodes \in SUBSET workflow.present :
             Source(s) \in nodes /\ Closed(nodes) => n \in nodes
  BY DEF Feeds, Source
<1>2. PICK nodes \in SUBSET workflow.present :
        Source(s) \in nodes /\ Closed(nodes) /\ nodes \cap Loaders \subseteq Found
  BY <1>1 DEF Searched
<1> QED BY <1>1, <1>2

LEMMA SocketHasARole ==
  ASSUME NEW roles, NEW s \in SocketsOf(roles)
  PROVE  s \in SocketsOf({s.role}) /\ s.role \in roles
BY DEF SocketsOf

LEMMA RoleHasSockets ==
  ASSUME NEW roles, NEW role \in roles PROVE SocketsOf({role}) \subseteq SocketsOf(roles)
BY DEF SocketsOf

LEMMA FeedsIsKept ==
  ASSUME UNCHANGED caller, NEW n, NEW role PROVE Feeds(n, role)' = Feeds(n, role)
<1>1. workflow' = workflow
  OBVIOUS
<1>2. \A m : SourcesOf(m)' = SourcesOf(m)
  BY <1>1 DEF SourcesOf
<1>3. \A nodes : Closed(nodes)' <=> Closed(nodes)
  BY <1>1 DEF Closed, SourcesOf
<1>4. SocketsOf({role})' = SocketsOf({role})
  BY SocketsAreKept
<1>5. Feeds(n, role)' <=> Feeds(n, role)
  BY <1>1, <1>3, <1>4 DEF Feeds
<1> QED BY <1>5 DEF Feeds

LEMMA SearchedIsKept ==
  ASSUME UNCHANGED caller, Found \subseteq Found', NEW s, Searched(Source(s))
  PROVE  Searched(Source(s))'
<1>1. workflow' = workflow
  OBVIOUS
<1>2. PICK nodes \in SUBSET workflow.present :
        Source(s) \in nodes /\ Closed(nodes) /\ nodes \cap Loaders \subseteq Found
  BY DEF Searched
<1>3. Closed(nodes)'
  BY <1>1, <1>2 DEF Closed, SourcesOf
<1>4. Source(s)' = Source(s)
  BY <1>1 DEF Source
<1> QED BY <1>1, <1>2, <1>3, <1>4 DEF Searched

\* A walk that is over has left a closed set behind its socket.
LEMMA WalkedIsSearched ==
  ASSUME TypeOK, Walking, Searching, queue = {},
         NEW s \in SocketsOf(Wanted) \ walks, Source(s) \in workflow.present
  PROVE  Searched(Source(s))
<1>1. Begun
  BY DEF Begun
<1>2. CASE Source(s) \in seen
  <2>1. Closed(seen) /\ seen \cap Loaders \subseteq Found /\ seen \in SUBSET workflow.present
    BY <1>1 DEF Walking, Closed, TypeOK
  <2> QED BY <1>2, <2>1 DEF Searched
<1> QED BY <1>1, <1>2 DEF Walking

\* When the search is over, exactly what feeds the roles is found.
LEMMA FoundIsAll ==
  ASSUME TypeOK, Walking, SearchOver, NEW role \in Wanted, NEW n \in Loaders, Feeds(n, role)
  PROVE  n \in Found
<1>1. \A s \in SocketsOf(Wanted) : Source(s) \in workflow.present => Searched(Source(s))
  BY WalkedIsSearched DEF SearchOver
<1>2. SocketsOf({role}) \subseteq SocketsOf(Wanted)
  BY RoleHasSockets
<1> QED BY <1>1, <1>2, SearchedIsAll

-----------------------------------------------------------------------------
(* The walk.                                                               *)

LEMMA InitWalking == Init => Walking
BY DEF Init, Walking, Searching

\* Every step preserves the invariant of the walk.
LEMMA StepWalking == Typing /\ Walking /\ [Next]_vars => Walking'
<1> SUFFICES ASSUME Typing, Walking, [Next]_vars PROVE Walking'
  OBVIOUS
<1>a. TypeOK /\ walks \subseteq SocketsOf(RoleSet)
  BY DEF Typing
<1>b. UNCHANGED caller /\ workflow' = workflow
  BY CallerIsKept
<1>c. /\ \A roles : SocketsOf(roles)' = SocketsOf(roles)
      /\ \A n, role : Feeds(n, role)' <=> Feeds(n, role)
      /\ \A n : SourcesOf(n)' = SourcesOf(n)
      /\ \A s : Source(s)' = Source(s)
  <2>1. \A roles : SocketsOf(roles)' = SocketsOf(roles)
    BY <1>b DEF SocketsOf
  <2>2. \A n, role : Feeds(n, role)' <=> Feeds(n, role)
    BY <1>b, FeedsIsKept
  <2> QED BY <1>b, <2>1, <2>2 DEF SourcesOf, Source
<1>d. ASSUME pc' \notin {"feeding", "claiming"}, queue' = {} PROVE Walking'
  BY <1>d DEF Walking, Searching
<1>e. ASSUME NEW node, Resolve(node), queue = {} PROVE Walking'
  BY <1>d, <1>e DEF Resolve
<1>f. ASSUME Reject, queue = {} PROVE Walking'
  BY <1>d, <1>f DEF Reject
<1>g. ~Searching => queue = {}
  BY DEF Walking
<1>1. CASE SkipRole
  BY <1>1, <1>e, <1>g DEF SkipRole, Resolving, Searching
<1>2. CASE ResolveNamed
  BY <1>2, <1>e, <1>f, <1>g DEF ResolveNamed, Resolving, Searching
<1>3. CASE BeginSearch
  <2>1. CASE Reject
    BY <1>3, <1>f, <1>g, <2>1 DEF BeginSearch, Resolving, Searching
  <2>2. CASE ~Reject
    <3>1. /\ pc' = "feeding" /\ turn' = turn /\ walks' = SocketsOf({Role})
          /\ preferred' = {} /\ claimed' = {} /\ queue' = {}
      BY <1>3, <1>g, <2>2 DEF BeginSearch, Resolving, Searching
    <3>2. Wanted' = {Role} /\ Found' = {}
      BY <3>1 DEF Wanted, Found, Role
    <3> QED BY <1>c, <3>1, <3>2 DEF Walking, Begun, Searching
  <2> QED BY <2>1, <2>2
<1>4. CASE BeginWalk
  <2>1. PICK s \in walks : walks' = walks \ {s} /\ queue' = {Source(s)}
    BY <1>4 DEF BeginWalk, Source
  <2>2. /\ Searching /\ queue = {} /\ seen' = {}
        /\ UNCHANGED <<caller, pc, turn, preferred, claimed, resolved, diskVars>>
    BY <1>4 DEF BeginWalk
  <2>3. Wanted' = Wanted /\ Found' = Found /\ Searching'
    BY <2>2 DEF Wanted, Found, Searching, Role
  <2>4. walks \subseteq SocketsOf(Wanted) /\ s \in SocketsOf(Wanted)
    BY <2>2 DEF Walking
  <2>5. Source(s) \in workflow.present => \E role \in Wanted : Feeds(Source(s), role)
    BY <2>4, SocketHasARole, SourceFeeds
  <2>6. ASSUME NEW x \in SocketsOf(Wanted) \ walks', Source(x) \in workflow.present
        PROVE  Source(x) \in queue' \/ Searched(Source(x))'
    <3>1. CASE x = s
      BY <2>1, <3>1
    <3>2. CASE x # s
      <4>1. Searched(Source(x))
        BY <1>a, <2>1, <2>2, <2>6, <3>2, WalkedIsSearched
      <4> QED BY <1>b, <2>3, <4>1, SearchedIsKept
    <3> QED BY <3>1, <3>2
  <2>7. walks' # SocketsOf(Wanted)
    BY <2>1, <2>4
  <2>8. /\ walks' \subseteq SocketsOf(Wanted)
        /\ \A n \in Found : \E role \in Wanted : Feeds(n, role)
    BY <2>1, <2>2, <2>4 DEF Walking
  <2>9. /\ pc' = "feeding" => claimed' = {}
        /\ pc' = "claiming" => preferred' = {n \in Loaders : Feeds(n, Role)}
    BY <2>2 DEF Walking
  <2> QED
    BY <1>b, <1>c, <2>1, <2>2, <2>3, <2>5, <2>6, <2>7, <2>8, <2>9 DEF Walking, Begun, Role
<1>5. CASE Walk
  <2>1. PICK n \in queue :
          IF Skipped(n)
          THEN queue' = queue \ {n} /\ UNCHANGED <<seen, preferred, claimed>>
          ELSE /\ seen' = seen \cup {n}
               /\ queue' = (queue \ {n}) \cup IF n \in Loaders THEN {} ELSE SourcesOf(n)
               /\ preferred' = preferred \cup (IF pc = "feeding" THEN {n} \cap Loaders ELSE {})
               /\ claimed' = claimed \cup (IF pc = "claiming" THEN {n} \cap Loaders ELSE {})
    BY <1>5 DEF Walk
  <2>2. Searching /\ UNCHANGED <<caller, pc, turn, walks, resolved, diskVars>>
    BY <1>5 DEF Walk
  <2>3. Wanted' = Wanted /\ Searching' /\ Role' = Role
    BY <2>2 DEF Wanted, Searching, Role
  <2>4. Begun /\ Begun'
    BY <1>c, <2>1, <2>2, <2>3 DEF Walking, Begun
  <2>5. Found' = IF Skipped(n) THEN Found ELSE Found \cup ({n} \cap Loaders)
    BY <2>1, <2>2 DEF Found, Searching
  <2>6. /\ \A m \in Found : \E role \in Wanted : Feeds(m, role)
        /\ \A m \in seen \cup (queue \cap workflow.present) :
             \E role \in Wanted : Feeds(m, role)
        /\ seen \cap Loaders \subseteq Found
        /\ \A m \in seen \ Loaders : SourcesOf(m) \cap workflow.present \subseteq seen \cup queue
        /\ walks \subseteq SocketsOf(Wanted)
    BY <2>2, <2>4 DEF Walking
  <2>7. seen \cup (queue \cap workflow.present) \subseteq seen' \cup queue'
    BY <2>1 DEF Skipped
  <2>8. ASSUME NEW s \in SocketsOf(Wanted) \ walks, Source(s) \in workflow.present
        PROVE  Source(s) \in seen' \cup queue' \/ Searched(Source(s))'
    <3>1. CASE Source(s) \in seen \cup queue
      BY <2>7, <2>8, <3>1
    <3>2. CASE Searched(Source(s))
      BY <1>b, <2>5, <3>2, SearchedIsKept
    <3> QED BY <2>2, <2>4, <2>8, <3>1, <3>2 DEF Walking
  <2>9. /\ pc' = "feeding" => claimed' = {}
        /\ pc' = "claiming" => preferred' = {m \in Loaders : Feeds(m, Role)}
    BY <2>1, <2>2 DEF Walking
  <2>10. \A m \in seen' \cup (queue' \cap workflow.present) : \E role \in Wanted : Feeds(m, role)
    <3>1. CASE Skipped(n) \/ n \in Loaders
      BY <2>1, <2>6, <3>1 DEF Skipped
    <3>2. CASE ~Skipped(n) /\ n \notin Loaders
      <4>1. PICK role \in Wanted : Feeds(n, role)
        BY <2>6, <3>2 DEF Skipped
      <4>2. \A m \in SourcesOf(n) \cap workflow.present : Feeds(m, role)
        BY <3>2, <4>1, LinkFeeds
      <4> QED BY <2>1, <2>6, <3>2, <4>1, <4>2
    <3> QED BY <3>1, <3>2
  <2>11. \A m \in Found' : \E role \in Wanted : Feeds(m, role)
    BY <2>5, <2>6 DEF Skipped
  <2>12. seen' \cap Loaders \subseteq Found'
    BY <2>1, <2>5, <2>6
  <2>13. \A m \in seen' \ Loaders : SourcesOf(m) \cap workflow.present \subseteq seen' \cup queue'
    <3>1. ASSUME NEW m \in seen' \ Loaders, m # n PROVE SourcesOf(m) \cap workflow.present \subseteq seen' \cup queue'
      BY <2>1, <2>6, <2>7, <3>1
    <3>2. n \in seen' \ Loaders => SourcesOf(n) \cap workflow.present \subseteq seen' \cup queue'
      BY <2>1, <2>6, <2>7 DEF Skipped
    <3> QED BY <3>1, <3>2
  <2>14. walks' = walks /\ workflow' = workflow
    BY <1>b, <2>2
  <2> QED
    BY <1>c, <2>3, <2>4, <2>6, <2>8, <2>9, <2>10, <2>11, <2>12, <2>13, <2>14 DEF Walking
<1>6. CASE ResolvePreferred
  BY <1>6, <1>e DEF ResolvePreferred, SearchOver
<1>7. CASE BeginClaims
  <2>1. /\ SearchOver /\ pc = "feeding" /\ pc' = "claiming" /\ turn' = turn
        /\ walks' = SocketsOf(RoleSet \ {Role})
        /\ UNCHANGED <<queue, preferred, claimed>>
    BY <1>7 DEF BeginClaims
  <2>2. Wanted = {Role} /\ Found = preferred /\ Searching /\ queue = {}
    BY <2>1 DEF Wanted, Found, SearchOver
  <2>3. preferred = {n \in Loaders : Feeds(n, Role)}
    <3>1. \A n \in preferred : n \in Loaders /\ Feeds(n, Role)
      BY <1>a, <2>2 DEF Walking, TypeOK
    <3>2. \A n \in Loaders : Feeds(n, Role) => n \in preferred
      BY <1>a, <2>1, <2>2, FoundIsAll
    <3> QED BY <3>1, <3>2
  <2>4. Wanted' = RoleSet \ {Role} /\ Found' = {} /\ Role' = Role
    BY <2>1 DEF Wanted, Found, Role, Walking
  <2>5. walks' = SocketsOf(Wanted)'
    BY <1>c, <2>1, <2>4
  <2>6. ~Begun' /\ queue' = {} /\ Searching'
    BY <2>1, <2>2, <2>5 DEF Begun, Searching
  <2>7. preferred' = {n \in Loaders : Feeds(n, Role)}'
    BY <1>c, <2>1, <2>3, <2>4
  <2> QED BY <2>1, <2>4, <2>5, <2>6, <2>7 DEF Walking
<1>8. CASE ResolveOnly
  BY <1>8, <1>e DEF ResolveOnly, SearchOver
<1>9. CASE RejectAmbiguous
  BY <1>9, <1>f DEF RejectAmbiguous, SearchOver
<1>10. CASE BeginStaging
  BY <1>10, <1>d, <1>f, <1>g DEF BeginStaging, Searching
<1>11. CASE SkipStaging
  BY <1>11, <1>d, <1>g DEF SkipStaging, Staging, Searching
<1>12. CASE Stage
  BY <1>12, <1>d, <1>g DEF Stage, Staging, Searching
<1>13. CASE StageFails
  BY <1>13, <1>d, <1>g DEF StageFails, Staging, Searching
<1>14. CASE Finish
  BY <1>14, <1>d, <1>g DEF Finish, Searching
<1>15. CASE UNCHANGED vars
  <2>1. /\ Searching' <=> Searching
        /\ Wanted' = Wanted /\ Found' = Found /\ Role' = Role
        /\ UNCHANGED <<pc, walks, queue, seen, preferred, claimed>>
    BY <1>15 DEF vars, Searching, Wanted, Found, Role
  <2>2. Begun' <=> Begun
    BY <1>c, <2>1 DEF Begun
  <2>3. \A s : Searched(Source(s)) => Searched(Source(s))'
    BY <1>b, <2>1, SearchedIsKept
  <2> QED BY <1>b, <1>c, <2>1, <2>2, <2>3 DEF Walking
<1> QED
  BY <1>1, <1>2, <1>3, <1>4, <1>5, <1>6, <1>7, <1>8, <1>9, <1>10,
     <1>11, <1>12, <1>13, <1>14, <1>15 DEF Next

-----------------------------------------------------------------------------
(* The choice of a node for every role.                                    *)

LEMMA ChosenIsKept ==
  ASSUME UNCHANGED caller, NEW role, resolved'[role] = resolved[role], Chosen(role)
  PROVE  Chosen(role)'
<1>1. UNCHANGED <<workflow, request>> /\ (role \in Supplied' => role \in Supplied)
  BY DEF Supplied
<1>2. \A n, other : Feeds(n, other)' <=> Feeds(n, other)
  BY FeedsIsKept
<1> QED BY <1>1, <1>2 DEF Chosen, Settled

LEMMA InitChoosing == Init => Choosing
BY DEF Init, Choosing

\* Every step preserves it.
LEMMA StepChoosing == Typing /\ Walking /\ Choosing /\ [Next]_vars => Choosing'
<1> SUFFICES ASSUME Typing, Walking, Choosing, [Next]_vars PROVE Choosing'
  OBVIOUS
<1> DEFINE Early == {"resolve", "feeding", "claiming"}
<1>a. TypeOK /\ turn \in 1 .. Len(Roles) + 1 /\ Len(Roles) \in Nat
  BY RolesAreCounted DEF Typing, TypeOK
<1>b. UNCHANGED caller /\ UNCHANGED <<workflow, request>>
  BY CallerIsKept
<1>c. \A n, role : Feeds(n, role)' <=> Feeds(n, role)
  BY <1>b, FeedsIsKept
<1>d. ASSUME UNCHANGED resolved, NEW role, Chosen(role) PROVE Chosen(role)'
  BY <1>b, <1>d, ChosenIsKept
<1>e. ASSUME UNCHANGED <<turn, resolved>>, pc \in Early, pc' \in Early \cup {"failed"} PROVE Choosing'
  BY <1>d, <1>e DEF Choosing
<1>f. ASSUME UNCHANGED resolved, pc \in {"stage", "done"}, pc' \in {"stage", "done", "failed"}
      PROVE  Choosing'
  BY <1>d, <1>f DEF Choosing
<1>g. ASSUME Reject, pc \in Early PROVE Choosing'
  BY <1>e, <1>g DEF Reject
<1>h. ASSUME NEW node, Resolve(node), turn <= Len(Roles), pc \in Early,
             node \in Nodes \cup {Nothing},
             Role \in Supplied =>
               /\ node \in workflow.present
               /\ request[Role].node = Nothing =>
                    /\ \A n \in Loaders : Feeds(n, Role) => n = node
                    /\ Feeds(node, Role) \/ \A other \in RoleSet : ~Feeds(node, other)
      PROVE  Choosing'
  <2>1. Role \in RoleSet
    BY <1>a, <1>h, RoleIsOne
  <2>2. resolved \in [RoleSet -> Nodes \cup {Nothing}] /\ resolved' = [resolved EXCEPT ![Role] = node]
    BY <1>a, <1>h DEF TypeOK, Resolve
  <2>3. ASSUME NEW k, k = turn PROVE Chosen(Roles[k])'
    <3>1. resolved'[Roles[k]] = node /\ Roles[k] = Role
      BY <2>1, <2>2, <2>3 DEF Role
    <3>2. Role \in Supplied' <=> Role \in Supplied
      BY <1>b DEF Supplied
    <3> QED BY <1>b, <1>c, <1>h, <3>1, <3>2 DEF Chosen, Settled
  <2>4. ASSUME NEW i \in 1 .. turn - 1 PROVE Chosen(Roles[i])'
    <3>1. Chosen(Roles[i])
      BY <1>h DEF Choosing
    <3>2. Roles[i] # Role
      BY <1>a, <1>h, RolesAssumption DEF Role
    <3>3. Roles[i] \in RoleSet
      BY <1>a DEF RoleSet
    <3>4. resolved'[Roles[i]] = resolved[Roles[i]]
      BY <2>2, <3>2, <3>3
    <3> QED BY <1>b, <3>1, <3>4, ChosenIsKept
  <2>5. turn' = turn + 1 /\ pc' = "resolve"
    BY <1>h DEF Resolve
  <2>6. \A i \in 1 .. turn' - 1 : i = turn \/ i \in 1 .. turn - 1
    BY <1>a, <2>5
  <2> QED BY <2>3, <2>4, <2>5, <2>6 DEF Choosing, Role
<1>i. SearchOver => pc \in Early /\ turn <= Len(Roles)
  BY <1>a DEF SearchOver, Searching, TypeOK
<1>1. CASE SkipRole
  BY <1>1, <1>h DEF SkipRole, Resolving, Supplied
<1>2. CASE ResolveNamed
  <2>1. workflow.present \subseteq Nodes
    BY <1>a DEF TypeOK, Workflow
  <2> QED BY <1>2, <1>g, <1>h, <2>1 DEF ResolveNamed, Resolving
<1>3. CASE BeginSearch
  BY <1>3, <1>e, <1>g DEF BeginSearch, Resolving
<1>4. CASE BeginWalk
  BY <1>4, <1>e DEF BeginWalk, Searching
<1>5. CASE Walk
  BY <1>5, <1>e DEF Walk, Searching
<1>6. CASE ResolvePreferred
  <2>1. PICK n \in preferred : preferred = {n} /\ Resolve(n)
    BY <1>6 DEF ResolvePreferred
  <2>2. Wanted = {Role} /\ Found = preferred /\ SearchOver /\ Searching
    BY <1>6 DEF ResolvePreferred, Wanted, Found, SearchOver
  <2>3. n \in Loaders \cap workflow.present /\ n \in Nodes
    BY <1>a, <2>1 DEF TypeOK, Nodes
  <2>4. Feeds(n, Role)
    BY <2>1, <2>2 DEF Walking
  <2>5. \A m \in Loaders : Feeds(m, Role) => m = n
    BY <1>a, <2>1, <2>2, FoundIsAll
  <2> QED BY <1>h, <1>i, <2>1, <2>2, <2>3, <2>4, <2>5
<1>7. CASE BeginClaims
  BY <1>7, <1>e DEF BeginClaims
<1>8. CASE ResolveOnly
  <2>1. PICK n \in Unclaimed : Unclaimed = {n} /\ Resolve(n)
    BY <1>8 DEF ResolveOnly
  <2>2. /\ pc = "claiming" /\ preferred = {} /\ SearchOver
        /\ Wanted = RoleSet \ {Role} /\ Found = claimed
    BY <1>8 DEF ResolveOnly, Wanted, Found
  <2>3. n \in Loaders \cap workflow.present /\ n \in Nodes /\ n \notin claimed
    BY <2>1 DEF Unclaimed, Candidates, Nodes
  <2>4. \A m \in Loaders : ~Feeds(m, Role)
    BY <2>2 DEF Walking
  <2>5. \A other \in RoleSet \ {Role} : ~Feeds(n, other)
    BY <1>a, <2>2, <2>3, FoundIsAll
  <2>6. \A other \in RoleSet : ~Feeds(n, other)
    BY <2>3, <2>4, <2>5
  <2> QED BY <1>h, <1>i, <2>1, <2>2, <2>3, <2>4, <2>6
<1>9. CASE RejectAmbiguous
  BY <1>9, <1>g, <1>i DEF RejectAmbiguous
<1>10. CASE BeginStaging
  <2>1. CASE Reject
    BY <1>10, <1>g, <2>1 DEF BeginStaging
  <2>2. CASE ~Reject
    <3>1. pc = "resolve" /\ turn > Len(Roles) /\ pc' = "stage" /\ UNCHANGED resolved
      BY <1>10, <2>2 DEF BeginStaging
    <3>2. \A role \in RoleSet : \E i \in 1 .. turn - 1 : role = Roles[i]
      BY <1>a, <3>1 DEF RoleSet
    <3>3. \A role \in RoleSet : Chosen(role)
      BY <3>1, <3>2 DEF Choosing
    <3> QED BY <1>d, <3>1, <3>3 DEF Choosing
  <2> QED BY <2>1, <2>2
<1>11. CASE SkipStaging
  BY <1>11, <1>f DEF SkipStaging, Staging
<1>12. CASE Stage
  BY <1>12, <1>f DEF Stage, Staging
<1>13. CASE StageFails
  BY <1>13, <1>f DEF StageFails, Staging
<1>14. CASE Finish
  BY <1>14, <1>f DEF Finish
<1>15. CASE UNCHANGED vars
  BY <1>15, <1>d DEF vars, Choosing
<1> QED
  BY <1>1, <1>2, <1>3, <1>4, <1>5, <1>6, <1>7, <1>8, <1>9, <1>10,
     <1>11, <1>12, <1>13, <1>14, <1>15 DEF Next

\* An image whose node the handler chose never ends up at the other end alone, for
\* every graph a caller can send.
THEOREM NoSwappedEnds == Spec => []NeverTheOtherEnd
<1>1. Choosing => NeverTheOtherEnd
  BY DEF Choosing, Chosen, Settled, NeverTheOtherEnd, Supplied
<1> QED
  BY InitTyping, StepTyping, InitWalking, StepWalking, InitChoosing, StepChoosing, <1>1,
     PTL DEF Spec

-----------------------------------------------------------------------------
(* Staging.                                                                *)

LEMMA RolesAreFinite == IsFiniteSet(RoleSet)
<1> DEFINE f == [i \in 1 .. Len(Roles) |-> Roles[i]]
<1>1. f \in Surjection(1 .. Len(Roles), RoleSet)
  BY DEF Surjection, RoleSet
<1>2. IsFiniteSet(1 .. Len(Roles))
  BY RolesAreCounted, FS_Interval
<1> HIDE DEF f
<1> QED BY <1>1, <1>2, FS_Surjection

\* What the comparison of the two cardinalities is for.
LEMMA NodesAreTheirOwn ==
  ASSUME Cardinality({resolved[r] : r \in Supplied}) = Cardinality(Supplied)
  PROVE  \A r, q \in Supplied : resolved[r] = resolved[q] => r = q
<1> DEFINE nodes == {resolved[r] : r \in Supplied}
           f     == [r \in Supplied |-> resolved[r]]
<1>1. f \in Surjection(Supplied, nodes)
  BY DEF Surjection
<1>2. IsFiniteSet(Supplied)
  BY RolesAreFinite, FS_Subset DEF Supplied
<1>3. Cardinality(Supplied) = Cardinality(nodes)
  OBVIOUS
<1>4. f \in Injection(Supplied, nodes)
  <2> HIDE DEF f, nodes
  <2> QED BY <1>1, <1>2, <1>3, FS_SurjSameCardinalityImpliesInj
<1>5. \A r, q \in Supplied : f[r] = f[q] => r = q
  BY <1>4 DEF Injection, IsInjective
<1> QED BY <1>5

LEMMA InitWriting == Init => Writing
BY DEF Init, Writing

\* Every step preserves it.
LEMMA StepWriting == Typing /\ Choosing /\ Writing /\ [Next]_vars => Writing'
<1> SUFFICES ASSUME Typing, Choosing, Writing, [Next]_vars PROVE Writing'
  OBVIOUS
<1> DEFINE Early == {"resolve", "feeding", "claiming"}
<1>a. TypeOK /\ turn \in 1 .. Len(Roles) + 1 /\ Len(Roles) \in Nat
  BY RolesAreCounted DEF Typing, TypeOK
<1>b. UNCHANGED <<workflow, request>> /\ Supplied' = Supplied
  BY CallerIsKept DEF Supplied
<1>e. ASSUME UNCHANGED <<staged, files>>, pc \in Early, pc' \in Early \cup {"failed"} PROVE Writing'
  BY <1>e DEF Writing
<1>g. ASSUME Reject, pc \in Early PROVE Writing'
  BY <1>e, <1>g DEF Reject
<1>h. ASSUME NEW node, Resolve(node), pc \in Early PROVE Writing'
  BY <1>e, <1>h DEF Resolve
<1>i. SearchOver => pc \in Early
  BY DEF SearchOver, Searching
<1>1. CASE SkipRole
  BY <1>1, <1>h DEF SkipRole, Resolving
<1>2. CASE ResolveNamed
  BY <1>2, <1>g, <1>h DEF ResolveNamed, Resolving
<1>3. CASE BeginSearch
  BY <1>3, <1>e, <1>g DEF BeginSearch, Resolving
<1>4. CASE BeginWalk
  BY <1>4, <1>e DEF BeginWalk, Searching
<1>5. CASE Walk
  BY <1>5, <1>e DEF Walk, Searching
<1>6. CASE ResolvePreferred
  BY <1>6, <1>h, <1>i DEF ResolvePreferred
<1>7. CASE BeginClaims
  BY <1>7, <1>e DEF BeginClaims
<1>8. CASE ResolveOnly
  BY <1>8, <1>h, <1>i DEF ResolveOnly
<1>9. CASE RejectAmbiguous
  BY <1>9, <1>g, <1>i DEF RejectAmbiguous
<1>10. CASE BeginStaging
  <2>1. CASE Reject
    BY <1>10, <1>g, <2>1 DEF BeginStaging
  <2>2. CASE ~Reject
    <3>1. /\ Cardinality({resolved[r] : r \in Supplied}) = Cardinality(Supplied)
          /\ pc = "resolve" /\ pc' = "stage" /\ turn' = 1
          /\ UNCHANGED <<resolved, staged, files, wired>>
      BY <1>10, <2>2 DEF BeginStaging
    <3>2. staged = {} /\ files = {}
      BY <3>1 DEF Writing
    <3>3. \A r, q \in Supplied : resolved[r] = resolved[q] => r = q
      BY <3>1, NodesAreTheirOwn
    <3>4. staged' = {r \in Supplied : \E i \in 1 .. turn' - 1 : r = Roles[i]}
      BY <3>1, <3>2
    <3>5. staged' = {} /\ files' = {}
      BY <3>1, <3>2
    <3> QED BY <1>b, <3>1, <3>2, <3>3, <3>4, <3>5 DEF Writing
  <2> QED BY <2>1, <2>2
<1>11. CASE SkipStaging
  <2>1. /\ pc = "stage" /\ pc' = "stage" /\ turn' = turn + 1 /\ Role \notin Supplied
        /\ UNCHANGED <<resolved, staged, files, wired>>
    BY <1>11 DEF SkipStaging, Staging
  <2>2. staged' = {r \in Supplied : \E i \in 1 .. turn' - 1 : r = Roles[i]}
    <3>1. \A i \in 1 .. turn' - 1 : i = turn \/ i \in 1 .. turn - 1
      BY <1>a, <2>1
    <3>2. \A i \in 1 .. turn - 1 : i \in 1 .. turn' - 1
      BY <1>a, <2>1
    <3> QED BY <2>1, <3>1, <3>2 DEF Writing, Role
  <2> QED BY <1>b, <2>1, <2>2 DEF Writing
<1>12. CASE Stage
  <2>1. /\ pc = "stage" /\ pc' = "stage" /\ turn' = turn + 1 /\ Role \in Supplied
        /\ staged' = staged \cup {Role} /\ UNCHANGED resolved
        /\ files' = files \cup {[role |-> Role, whole |-> TRUE]}
        /\ wired' = [wired EXCEPT ![resolved[Role]] = Role]
    BY <1>12 DEF Stage, Staging
  <2>2. staged' = {r \in Supplied : \E i \in 1 .. turn' - 1 : r = Roles[i]}
    <3>1. \A i \in 1 .. turn' - 1 : i = turn \/ i \in 1 .. turn - 1
      BY <1>a, <2>1
    <3>2. /\ \A i \in 1 .. turn - 1 : i \in 1 .. turn' - 1
          /\ turn \in 1 .. turn' - 1
      BY <1>a, <2>1
    <3>3. staged = {r \in Supplied : \E i \in 1 .. turn - 1 : r = Roles[i]}
      BY <2>1 DEF Writing
    <3> QED BY <2>1, <3>1, <3>2, <3>3 DEF Role
  <2>3. /\ \A f \in files' : f.role \in staged' /\ f.whole
        /\ \A r \in staged' : \E f \in files' : f.role = r
    <3>1. /\ \A f \in files : f.role \in staged /\ f.whole
          /\ \A r \in staged : \E f \in files : f.role = r
      BY <2>1 DEF Writing
    <3> DEFINE file == [role |-> Role, whole |-> TRUE]
    <3>2. file.role = Role /\ file.whole /\ files' = files \cup {file}
      BY <2>1
    <3> HIDE DEF file
    <3> QED BY <2>1, <3>1, <3>2
  <2>4. \A r \in staged' : wired'[resolved[r]] = r
    <3>1. resolved[Role] \in Nodes /\ wired \in [Nodes -> RoleSet \cup {Nothing}]
      <4>1. Role \in RoleSet /\ workflow.present \subseteq Nodes
        BY <1>a, <2>1 DEF Supplied, TypeOK, Workflow
      <4> QED BY <1>a, <2>1, <4>1 DEF Choosing, Chosen, TypeOK
    <3>2. staged \subseteq Supplied /\ \A r \in staged : wired[resolved[r]] = r
      BY <2>1 DEF Writing
    <3>3. \A r \in staged : resolved[r] = resolved[Role] => r = Role
      BY <2>1, <3>2 DEF Writing
    <3> QED BY <2>1, <3>1, <3>2, <3>3
  <2>5. \A r, q \in Supplied : resolved[r] = resolved[q] => r = q
    BY <2>1 DEF Writing
  <2> QED BY <1>b, <2>1, <2>2, <2>3, <2>4, <2>5 DEF Writing
<1>13. CASE StageFails
  <2>1. \A f \in files : f.role \in staged
    BY <1>13 DEF StageFails, Staging, Writing
  <2>2. {f \in files : f.role \notin staged} = {}
    BY <2>1
  <2>3. PICK left \in {{}, {[role |-> Role, whole |-> FALSE]}} :
          files' = {f \in files : f.role \notin staged} \cup left
    BY <1>13 DEF StageFails
  <2>4. \A f \in files' : ~f.whole
    BY <2>2, <2>3
  <2> QED BY <1>13, <2>4 DEF StageFails, Writing
<1>14. CASE Finish
  BY <1>14, <1>b DEF Finish, Writing
<1>15. CASE UNCHANGED vars
  BY <1>15, <1>b DEF vars, Writing
<1> QED
  BY <1>1, <1>2, <1>3, <1>4, <1>5, <1>6, <1>7, <1>8, <1>9, <1>10,
     <1>11, <1>12, <1>13, <1>14, <1>15 DEF Next

\* Either every keyframe of the request is on the disk and named by a node of its
\* own, or none is - but for a file that could not be written to its end.
THEOREM KeyframesAreAllOrNothing == Spec => []AllOrNothing
<1>1. Typing /\ Choosing /\ Writing => AllOrNothing
  <2> SUFFICES ASSUME Typing, Choosing, Writing PROVE AllOrNothing
    OBVIOUS
  <2>1. ASSUME pc = "done"
        PROVE  /\ {f.role : f \in files} = Supplied
               /\ \A r \in Supplied : \E n \in workflow.present : wired[n] = r
    <3>1. \A r \in RoleSet : \E i \in 1 .. turn - 1 : r = Roles[i]
      BY <2>1, RolesAreCounted DEF Writing, RoleSet, Typing, TypeOK
    <3>2. staged = Supplied
      BY <2>1, <3>1 DEF Writing, Supplied
    <3>4. {f.role : f \in files} = Supplied
      BY <2>1, <3>2 DEF Writing
    <3>5. ASSUME NEW r \in Supplied PROVE \E n \in workflow.present : wired[n] = r
      <4>1. resolved[r] \in workflow.present /\ wired[resolved[r]] = r
        BY <2>1, <3>2 DEF Choosing, Chosen, Writing, Supplied
      <4> QED BY <4>1
    <3> QED BY <3>4, <3>5
  <2> QED BY <2>1 DEF AllOrNothing, Writing
<1> QED
  BY InitTyping, StepTyping, InitWalking, StepWalking, InitChoosing, StepChoosing,
     InitWriting, StepWriting, <1>1, PTL DEF Spec
=============================================================================

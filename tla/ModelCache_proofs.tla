-------------------------- MODULE ModelCache_proofs --------------------------
(***************************************************************************)
(* Machine-checked proofs about ModelCache, for a manifest of any length,  *)
(* any set of images and any number of faults.                             *)
(***************************************************************************)
EXTENDS ModelCache, WellFoundedInduction, TLAPS

-----------------------------------------------------------------------------
(* The ends of a set of paths.                                             *)

\* A non-empty set of paths has a first one.
LEMMA MinIsMember ==
  ASSUME NEW S \in SUBSET Paths, S # {}
  PROVE  Min(S) \in S
<1>1. S \subseteq Nat
  BY NumAssetsAssumption DEF Paths
<1>2. PICK x \in S : \A y \in S : ~(<<y, x>> \in OpToRel(<, Nat))
  BY <1>1, NatLessThanWellFounded, WFMin
<1>3. ASSUME NEW y \in S PROVE x =< y
  <2>1. x \in Nat /\ y \in Nat /\ ~(y < x)
    BY <1>1, <1>2 DEF OpToRel
  <2> QED BY <2>1
<1> QED BY <1>3 DEF Min

\* A non-empty set of paths has a last one: its distance from the end is least.
LEMMA MaxIsMember ==
  ASSUME NEW S \in SUBSET Paths, S # {}
  PROVE  Max(S) \in S
<1> DEFINE T == {Alias - p : p \in S}
<1>1. T \subseteq Nat /\ T # {} /\ S \subseteq Nat
  <2>1. S \subseteq 1 .. Alias /\ Alias \in Nat
    BY NumAssetsAssumption DEF Paths, Alias
  <2>2. \A p \in S : p \in Nat /\ Alias - p \in Nat
    BY <2>1
  <2> QED BY <2>2
<1>2. PICK t \in T : \A u \in T : ~(<<u, t>> \in OpToRel(<, Nat))
  BY <1>1, NatLessThanWellFounded, WFMin
<1>3. PICK x \in S : t = Alias - x
  OBVIOUS
<1>4. ASSUME NEW y \in S PROVE x >= y
  <2>1. Alias - y \in T
    OBVIOUS
  <2>2. ~(Alias - y < Alias - x)
    BY <1>1, <1>2, <1>3, <2>1 DEF OpToRel
  <2> QED BY <1>1, <2>2, NumAssetsAssumption DEF Alias
<1> QED BY <1>4 DEF Max

-----------------------------------------------------------------------------
(* Types.                                                                  *)

USE DEF Links, Running, fixed, history
USE NumAssetsAssumption, ImagesAssumption, MaxFaultsAssumption

LEMMA InitTyping == Init => TypeOK
  BY DEF Init, TypeOK, Assets, Paths

\* Every step preserves the types.
LEMMA StepTyping == TypeOK /\ [Next]_vars => TypeOK'
<1> SUFFICES ASSUME TypeOK, [Next]_vars PROVE TypeOK'
  OBVIOUS
<1> USE DEF TypeOK, Assets, Paths, Alias
<1>1. CASE Start BY <1>1 DEF Start
<1>2. CASE Configure BY <1>2 DEF Configure
<1>3. CASE RefuseConfiguration BY <1>3 DEF RefuseConfiguration, Refuse
<1>4. CASE CheckPath BY <1>4 DEF CheckPath, Recognised, Acceptable
<1>5. CASE RefusePath BY <1>5 DEF RefusePath, Refuse
<1>6. CASE Link
  <2>1. Min(planned) \in planned
    BY <1>6, MinIsMember DEF Link
  <2> QED BY <1>6, <2>1 DEF Link
<1>7. CASE Unlink
  <2>1. Max(created) \in created
    BY <1>7, MaxIsMember DEF Unlink
  <2> QED BY <1>7, <2>1 DEF Unlink
<1>8. CASE RolledBack BY <1>8 DEF RolledBack, Refuse
<1>9. CASE ExecHandler BY <1>9 DEF ExecHandler
<1>10. CASE LinkFails BY <1>10 DEF LinkFails
<1>11. CASE UnlinkFails
  <2>1. Max(created) \in created
    BY <1>11, MaxIsMember DEF UnlinkFails
  <2>2. faults' \in 0 .. MaxFaults
    BY <1>11 DEF UnlinkFails
  <2> QED BY <1>11, <2>1, <2>2 DEF UnlinkFails
<1>12. CASE Restart BY <1>12 DEF Restart
<1>13. CASE Crash BY <1>13 DEF Crash
<1>14. ASSUME NEW a \in Assets, Materialise(a) PROVE TypeOK'
  BY <1>14 DEF Materialise
<1>15. ASSUME NEW a \in Assets, Evict(a) PROVE TypeOK'
  BY <1>15 DEF Evict
<1>16. CASE UNCHANGED vars BY <1>16 DEF vars
<1> QED
  BY <1>1, <1>2, <1>3, <1>4, <1>5, <1>6, <1>7, <1>8, <1>9, <1>10, <1>11, <1>12,
     <1>13, <1>14, <1>15, <1>16 DEF Next, Bootstrap

\* The types hold for every manifest and every image; what is still to be linked
\* has no link, and what this start created is still there.
THEOREM TypeCorrect == Spec => []TypeOK
BY InitTyping, StepTyping, PTL DEF Spec

-----------------------------------------------------------------------------
(* What a handler serves.                                                  *)

\* What makes ServesPinned inductive: a path the checking loop has passed is linked
\* or will be, its file was right and any change since is on record; the
\* configuration was looked at before.
Checked(p) ==
  /\ link[p] = "pinned" \/ p \in planned
  /\ p \in Assets => snapshot[p] = "right" \/ p \in changed

Checking ==
  /\ pc = "identity" => at = 1
  /\ pc \in {"checking", "linking", "serving"} => identity /\ config # "wrong"
  /\ pc = "checking" => \A p \in Paths : p < at => Checked(p)
  /\ pc \in {"linking", "serving"} => \A p \in Paths : Checked(p)
  /\ pc = "serving" => planned = {} /\ names = Assets

LEMMA InitChecking == Init => Checking
  BY DEF Init, Checking

\* Every step preserves it.
LEMMA StepChecking == TypeOK /\ Checking /\ [Next]_vars => Checking'
<1> SUFFICES ASSUME TypeOK, Checking, [Next]_vars PROVE Checking'
  OBVIOUS
<1> USE DEF TypeOK, Assets, Paths, Alias, Checking, Checked
<1>1. CASE Start BY <1>1 DEF Start
<1>2. CASE Configure BY <1>2 DEF Configure
<1>3. CASE RefuseConfiguration BY <1>3 DEF RefuseConfiguration, Refuse
<1>4. CASE CheckPath BY <1>4 DEF CheckPath, Recognised, Acceptable
<1>5. CASE RefusePath BY <1>5 DEF RefusePath, Refuse
<1>6. CASE Link
  <2>1. Min(planned) \in planned
    BY <1>6, MinIsMember DEF Link
  <2> QED BY <1>6, <2>1 DEF Link
<1>7. CASE Unlink BY <1>7 DEF Unlink
<1>8. CASE RolledBack BY <1>8 DEF RolledBack, Refuse
<1>9. CASE ExecHandler BY <1>9 DEF ExecHandler
<1>10. CASE LinkFails BY <1>10 DEF LinkFails
<1>11. CASE UnlinkFails BY <1>11 DEF UnlinkFails
<1>12. CASE Restart BY <1>12 DEF Restart
<1>13. CASE Crash BY <1>13 DEF Crash
<1>14. ASSUME NEW a \in Assets, Materialise(a) PROVE Checking'
  BY <1>14 DEF Materialise
<1>15. ASSUME NEW a \in Assets, Evict(a) PROVE Checking'
  BY <1>15 DEF Evict
<1>16. CASE UNCHANGED vars BY <1>16 DEF vars
<1> QED
  BY <1>1, <1>2, <1>3, <1>4, <1>5, <1>6, <1>7, <1>8, <1>9, <1>10, <1>11, <1>12,
     <1>13, <1>14, <1>15, <1>16 DEF Next, Bootstrap

\* A handler only ever runs, and is only ever admitted to, with every model path
\* linked to the pinned revision and every file checked.
THEOREM PinnedIsServed == Spec => []ServesPinned
<1>1. TypeOK /\ Checking => ServesPinned
  BY DEF TypeOK, Checking, Checked, ServesPinned, Paths, Assets
<1> QED BY <1>1, InitTyping, StepTyping, InitChecking, StepChecking, PTL DEF Spec

-----------------------------------------------------------------------------
(* What a start leaves behind.                                             *)

\* What makes LeavesNoTrace inductive: a path this start changed was free before and
\* is among those it created, or could not be removed again; nothing is created
\* before the loop over `planned`, and nothing removed before the rollback.
Tracing ==
  /\ \A p \in Paths : image[p] = "foreign" => link[p] = "foreign"
  /\ pc \in Running \cup {"exited"} =>
       \A p \in Paths : link[p] # before[p] => p \in created \cup stuck
  /\ \A p \in created : before[p] = "missing"
  /\ pc \in {"identity", "checking", "exited"} => created = {}
  /\ pc \in {"identity", "checking", "linking"} => stuck = {}

LEMMA InitTracing == Init => Tracing
  BY DEF Init, Tracing

\* Every step preserves it.
LEMMA StepTracing == TypeOK /\ Tracing /\ [Next]_vars => Tracing'
<1> SUFFICES ASSUME TypeOK, Tracing, [Next]_vars PROVE Tracing'
  OBVIOUS
<1> USE DEF TypeOK, Assets, Paths, Alias, Tracing
<1>1. CASE Start BY <1>1 DEF Start
<1>2. CASE Configure BY <1>2 DEF Configure
<1>3. CASE RefuseConfiguration BY <1>3 DEF RefuseConfiguration, Refuse
<1>4. CASE CheckPath BY <1>4 DEF CheckPath, Recognised, Acceptable
<1>5. CASE RefusePath BY <1>5 DEF RefusePath, Refuse
<1>6. CASE Link
  <2>1. Min(planned) \in planned
    BY <1>6, MinIsMember DEF Link
  <2> QED BY <1>6, <2>1 DEF Link
<1>7. CASE Unlink
  <2>1. Max(created) \in created
    BY <1>7, MaxIsMember DEF Unlink
  <2> QED BY <1>7, <2>1 DEF Unlink
<1>8. CASE RolledBack BY <1>8 DEF RolledBack, Refuse
<1>9. CASE ExecHandler BY <1>9 DEF ExecHandler
<1>10. CASE LinkFails BY <1>10 DEF LinkFails
<1>11. CASE UnlinkFails
  <2>1. Max(created) \in created
    BY <1>11, MaxIsMember DEF UnlinkFails
  <2> QED BY <1>11, <2>1 DEF UnlinkFails
<1>12. CASE Restart BY <1>12 DEF Restart
<1>13. CASE Crash BY <1>13 DEF Crash
<1>14. ASSUME NEW a \in Assets, Materialise(a) PROVE Tracing'
  BY <1>14 DEF Materialise
<1>15. ASSUME NEW a \in Assets, Evict(a) PROVE Tracing'
  BY <1>15 DEF Evict
<1>16. CASE UNCHANGED vars BY <1>16 DEF vars
<1> QED
  BY <1>1, <1>2, <1>3, <1>4, <1>5, <1>6, <1>7, <1>8, <1>9, <1>10, <1>11, <1>12,
     <1>13, <1>14, <1>15, <1>16 DEF Next, Bootstrap

\* No start replaces what it did not link, and one that fails leaves the links as it
\* found them, but for those it could not remove.
THEOREM NoTraceIsLeft == Spec => []LeavesNoTrace
<1>1. Tracing => LeavesNoTrace
  BY DEF Tracing, LeavesNoTrace
<1> QED BY <1>1, InitTyping, StepTyping, InitTracing, StepTracing, PTL DEF Spec
=============================================================================

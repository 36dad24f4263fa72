-------------------------- MODULE PlanLedgerProofs --------------------------
(***************************************************************************)
(* What every reader of a record that behaves as PlanLedger may rely on.   *)
(***************************************************************************)
EXTENDS PlanLedger, FiniteSetTheorems, TLAPS

\* The inductive invariant: it is a conjunction of the two below it.
LedgerInv == phase \in [Nodes -> Phase] /\ LaunchedOnFinished /\ ActiveBounded

LEMMA LedgerInit == Init => LedgerInv
<1> SUFFICES ASSUME Init PROVE LedgerInv
  OBVIOUS
<1>1. phase \in [Nodes -> Phase] /\ LaunchedOnFinished
  BY DEF Init, Phase, LaunchedOnFinished
<1>2. {n \in Nodes : phase[n] = "active"} = {}
  BY DEF Init
<1>3. ActiveBounded
  BY <1>2, FS_EmptySet, ParallelismAssumption DEF ActiveBounded
<1> QED
  BY <1>1, <1>3 DEF LedgerInv

LEMMA LedgerNext == LedgerInv /\ [Next]_vars => LedgerInv'
<1> SUFFICES ASSUME LedgerInv, [Next]_vars PROVE LedgerInv'
  OBVIOUS
<1>1. CASE UNCHANGED vars
  BY <1>1 DEF vars, LedgerInv, LaunchedOnFinished, ActiveBounded
<1>2. CASE Advance
  <2>1. phase' \in [Nodes -> Phase] /\ ActiveBounded'
    BY <1>2 DEF Advance, ActiveBounded
  <2>2. ASSUME NEW n \in Nodes, phase'[n] \in {"active", "done"}, NEW d \in Deps[n]
        PROVE  phase'[d] \in {"done", "dead"}
    <3>1. d \in Nodes
      BY PlanAssumption
    <3>2. CASE phase[n] = "waiting"
      BY <1>2, <2>2, <3>2 DEF Advance, Forward
    <3>3. CASE phase[n] \in {"active", "done"}
      <4>1. phase[d] \in {"done", "dead"}
        BY <3>3 DEF LedgerInv, LaunchedOnFinished
      <4> QED
        BY <1>2, <3>1, <4>1 DEF Advance, Forward
    <3>4. phase[n] \in {"waiting", "active", "done"}
      BY <1>2, <2>2 DEF LedgerInv, Advance, Forward, Phase
    <3> QED
      BY <3>2, <3>3, <3>4
  <2> QED
    BY <2>1, <2>2 DEF LedgerInv, LaunchedOnFinished
<1>3. CASE Forget
  <2>1. phase' \in [Nodes -> Phase] /\ LaunchedOnFinished'
    BY <1>3, PlanAssumption DEF Forget, LedgerInv, LaunchedOnFinished, Phase
  <2> DEFINE A == {n \in Nodes : phase[n] = "active"}
             B == {n \in Nodes : phase'[n] = "active"}
  <2>2. B \subseteq A
    BY <1>3 DEF Forget
  <2>3. IsFiniteSet(A)
    BY FS_Subset, PlanAssumption
  <2>4. Cardinality(B) <= Cardinality(A) /\ Cardinality(A) \in Nat /\ Cardinality(B) \in Nat
    BY <2>2, <2>3, FS_Subset, FS_CardinalityType
  <2>5. ActiveBounded'
    BY <2>4, ParallelismAssumption DEF ActiveBounded, LedgerInv
  <2> QED
    BY <2>1, <2>5 DEF LedgerInv
<1> QED
  BY <1>1, <1>2, <1>3 DEF Next

\* Whatever is done to the record, no node is ever recorded as launched upon a
\* failed or unfinished dependency, and the active ones stay within the bound.
THEOREM LedgerSafe == Spec => [](LaunchedOnFinished /\ ActiveBounded)
<1>1. LedgerInv => LaunchedOnFinished /\ ActiveBounded
  BY DEF LedgerInv
<1> QED
  BY LedgerInit, LedgerNext, <1>1, PTL DEF Spec
=============================================================================

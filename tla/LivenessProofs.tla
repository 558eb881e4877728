--------------------------- MODULE LivenessProofs ---------------------------
(***************************************************************************)
(* calcInOut computes exactly the live registers, for every function and    *)
(* every finite set of registers.  The sets lag behind the equations        *)
(* (InBehind, OutBehind), so a sweep only adds; what it adds is live; and a *)
(* sweep that adds nothing has found a solution, which no live register     *)
(* can be missing from.                                                     *)
(***************************************************************************)
EXTENDS Liveness, FiniteSetTheorems, TLAPS

Nexts(b) == UNION {liveIn[n] : n \in fun.nexts[b]}

Solved(b) == CalcIn(b) \subseteq liveIn[b] /\ Nexts(b) \subseteq liveOut[b]

LiveType ==
  /\ fun \in Funcs
  /\ TypeOK

Behind ==
  \A b \in Block : liveIn[b] \subseteq CalcIn(b) /\ liveOut[b] \subseteq Nexts(b)

SweptSolved ==
  /\ ~stopped /\ ~changed => \A b \in Block : b > cur => Solved(b)
  /\ stopped => \A b \in Block : Solved(b)

LiveInv == LiveType /\ Behind /\ NeverTooLive /\ SweptSolved

LEMMA FunFacts ==
  ASSUME LiveType, NEW b \in Block
  PROVE  /\ fun.nexts[b] \subseteq Block
         /\ fun.use[b] \subseteq Reg
         /\ liveIn[b] \subseteq Reg /\ liveOut[b] \subseteq Reg
BY FuncsAssumption DEF LiveType, TypeOK

\* Live registers satisfy the equations the sweeps solve, one way.
LEMMA LiveEquation ==
  ASSUME LiveType, NEW b \in Block
  PROVE  fun.use[b] \cup (LiveAfter(b) \ fun.def[b]) \subseteq LiveAt(b)
<1> SUFFICES ASSUME NEW r \in Reg, NEW S \in SUBSET Block, ReadClosed(r, S),
                    r \in fun.use[b] \/ (r \in LiveAfter(b) /\ r \notin fun.def[b])
             PROVE  b \in S
  BY FunFacts DEF LiveAt, LiveAfter
<1>1. CASE r \in fun.use[b]
  BY <1>1 DEF ReadClosed
<1>2. CASE r \in LiveAfter(b) /\ r \notin fun.def[b]
  <2>1. PICK n \in fun.nexts[b] : r \in LiveAt(n)
    BY <1>2 DEF LiveAfter
  <2>2. n \in S
    BY <2>1 DEF LiveAt
  <2> QED
    BY <1>2, <2>1, <2>2 DEF ReadClosed
<1> QED
  BY <1>1, <1>2

\* A live register is in every solution.
LEMMA SolutionHasLive ==
  ASSUME LiveType, \A b \in Block : Solved(b), NEW b \in Block
  PROVE  LiveAt(b) \subseteq liveIn[b]
<1> SUFFICES ASSUME NEW r \in LiveAt(b) PROVE r \in liveIn[b]
  OBVIOUS
<1> DEFINE S == {x \in Block : r \in liveIn[x]}
<1>1. ReadClosed(r, S)
  <2> SUFFICES ASSUME NEW x \in Block,
                      r \in fun.use[x] \/ (r \notin fun.def[x] /\ fun.nexts[x] \cap S # {})
               PROVE  x \in S
    BY DEF ReadClosed
  <2>1. ASSUME r \notin fun.def[x], NEW n \in fun.nexts[x] \cap S
        PROVE  r \in CalcIn(x)
    <3>1. r \in liveOut[x]
      BY <2>1 DEF Solved, Nexts
    <3> QED
      BY <2>1, <3>1 DEF CalcIn
  <2>2. r \in CalcIn(x)
    BY <2>1 DEF CalcIn
  <2> QED
    BY <2>2 DEF Solved
<1> QED
  BY <1>1 DEF LiveAt

-----------------------------------------------------------------------------
LEMMA LiveInit == Init => LiveInv
<1> SUFFICES ASSUME Init PROVE LiveInv
  OBVIOUS
<1>1. LiveType
  <2>1. N \in 0..N
    BY NAssumption
  <2>2. /\ liveIn \in [Block -> SUBSET Reg] /\ liveOut \in [Block -> SUBSET Reg]
        /\ fun \in Funcs /\ cur = N /\ changed = FALSE /\ stopped = FALSE
    BY DEF Init
  <2> QED
    BY <2>1, <2>2 DEF LiveType, TypeOK
<1>2. Behind /\ NeverTooLive
  BY DEF Init, Behind, NeverTooLive
<1>3. SweptSolved
  <2>1. \A b \in Block : ~(b > N)
    BY NAssumption DEF Block
  <2> QED
    BY <2>1 DEF Init, SweptSolved
<1> QED
  BY <1>1, <1>2, <1>3 DEF LiveInv

\* A sweep step: the sets of block cur grow to what their equations say.
LEMMA SweepGrows ==
  ASSUME LiveInv, SweepBlock
  PROVE  /\ cur \in Block
         /\ liveIn' \in [Block -> SUBSET Reg] /\ liveOut' \in [Block -> SUBSET Reg]
         /\ liveIn'[cur] = CalcIn(cur)
         /\ liveOut'[cur] = CalcOut(cur, liveIn')
         /\ \A b \in Block \ {cur} : liveIn'[b] = liveIn[b] /\ liveOut'[b] = liveOut[b]
         /\ \A b \in Block : liveIn[b] \subseteq liveIn'[b] /\ liveOut[b] \subseteq liveOut'[b]
<1>1. cur \in Block /\ fun \in Funcs
  BY NAssumption DEF LiveInv, LiveType, TypeOK, SweepBlock, Block
<1>2. liveIn \in [Block -> SUBSET Reg] /\ liveOut \in [Block -> SUBSET Reg]
  BY DEF LiveInv, LiveType, TypeOK
<1>3. CalcIn(cur) \subseteq Reg
  BY <1>1, FunFacts DEF CalcIn, LiveInv
<1>4. /\ liveIn' \in [Block -> SUBSET Reg] /\ liveIn'[cur] = CalcIn(cur)
      /\ \A b \in Block \ {cur} : liveIn'[b] = liveIn[b]
  BY <1>1, <1>2, <1>3 DEF SweepBlock
<1>5. CalcOut(cur, liveIn') \subseteq Reg
  BY <1>1, <1>2, <1>4, FunFacts DEF CalcOut, LiveInv
<1>6. /\ liveOut' \in [Block -> SUBSET Reg] /\ liveOut'[cur] = CalcOut(cur, liveIn')
      /\ \A b \in Block \ {cur} : liveOut'[b] = liveOut[b]
  BY <1>1, <1>2, <1>5 DEF SweepBlock
<1>7. liveIn[cur] \subseteq liveIn'[cur]
  BY <1>1, <1>4 DEF LiveInv, Behind
<1>8. liveOut[cur] \subseteq liveOut'[cur]
  BY <1>6 DEF CalcOut
<1> QED
  BY <1>1, <1>4, <1>6, <1>7, <1>8

\* Equal sizes of sets that only grow: the sets are equal.
LEMMA SameSize ==
  ASSUME NEW A, NEW B, NEW C, NEW D, IsFiniteSet(B), IsFiniteSet(D),
         A \subseteq B, C \subseteq D,
         Cardinality(A) + Cardinality(C) = Cardinality(B) + Cardinality(D)
  PROVE  A = B /\ C = D
<1>1. /\ IsFiniteSet(A) /\ Cardinality(A) <= Cardinality(B)
      /\ Cardinality(A) = Cardinality(B) => A = B
  BY FS_Subset
<1>2. /\ IsFiniteSet(C) /\ Cardinality(C) <= Cardinality(D)
      /\ Cardinality(C) = Cardinality(D) => C = D
  BY FS_Subset
<1>3. /\ Cardinality(A) \in Nat /\ Cardinality(B) \in Nat
      /\ Cardinality(C) \in Nat /\ Cardinality(D) \in Nat
  BY <1>1, <1>2, FS_CardinalityType
<1> QED
  BY <1>1, <1>2, <1>3

LEMMA SweepStep ==
  ASSUME LiveInv, SweepBlock
  PROVE  LiveInv'
<1>1. /\ cur \in Block
      /\ liveIn' \in [Block -> SUBSET Reg] /\ liveOut' \in [Block -> SUBSET Reg]
      /\ liveIn'[cur] = CalcIn(cur)
      /\ liveOut'[cur] = CalcOut(cur, liveIn')
      /\ \A b \in Block \ {cur} : liveIn'[b] = liveIn[b] /\ liveOut'[b] = liveOut[b]
      /\ \A b \in Block : liveIn[b] \subseteq liveIn'[b] /\ liveOut[b] \subseteq liveOut'[b]
  BY SweepGrows
<1>2. fun' = fun /\ stopped' = stopped /\ ~stopped /\ cur' = cur - 1 /\ LiveType
  BY DEF SweepBlock, LiveInv
<1>3. LiveType'
  <2>1. changed' \in BOOLEAN
    BY DEF SweepBlock, LiveInv, LiveType, TypeOK
  <2>2. cur' \in 0..N /\ fun' \in Funcs /\ stopped' \in BOOLEAN
    BY <1>1, <1>2, NAssumption DEF Block, LiveType, TypeOK
  <2> QED
    BY <1>1, <2>1, <2>2 DEF LiveType, TypeOK
<1>4. \A b \in Block : Nexts(b) \subseteq Nexts(b)'
  BY <1>1, <1>2, FunFacts DEF Nexts
<1>5. Behind'
  <2> SUFFICES ASSUME NEW b \in Block
               PROVE  liveIn'[b] \subseteq CalcIn(b)' /\ liveOut'[b] \subseteq Nexts(b)'
    BY DEF Behind
  <2>1. liveIn[b] \subseteq CalcIn(b) /\ liveOut[b] \subseteq Nexts(b)
    BY DEF LiveInv, Behind
  <2>2. CalcIn(b) \subseteq CalcIn(b)'
    BY <1>1, <1>2 DEF CalcIn
  <2>3. liveIn'[b] \subseteq CalcIn(b)'
    BY <1>1, <2>1, <2>2
  <2>4. CalcOut(b, liveIn') \subseteq Nexts(b)'
    BY <1>2, <1>4, <2>1 DEF CalcOut, Nexts
  <2>5. liveOut'[b] \subseteq Nexts(b)'
    BY <1>1, <1>4, <2>1, <2>4
  <2> QED
    BY <2>3, <2>5
<1>6. NeverTooLive'
  <2>1. \A b \in Block : LiveAt(b)' = LiveAt(b) /\ LiveAfter(b)' = LiveAfter(b)
    BY <1>2 DEF LiveAt, LiveAfter, ReadClosed
  <2>2. \A b \in Block : liveIn[b] \subseteq LiveAt(b) /\ liveOut[b] \subseteq LiveAfter(b)
    BY DEF LiveInv, NeverTooLive
  <2>3. CalcIn(cur) \subseteq LiveAt(cur)
    BY <1>1, <1>2, <2>2, LiveEquation DEF CalcIn
  <2>4. \A b \in Block : liveIn'[b] \subseteq LiveAt(b)
    BY <1>1, <2>2, <2>3
  <2>5. CalcOut(cur, liveIn') \subseteq LiveAfter(cur)
    BY <1>1, <1>2, <2>2, <2>4, FunFacts DEF CalcOut, LiveAfter
  <2>6. \A b \in Block : liveOut'[b] \subseteq LiveAfter(b)
    BY <1>1, <2>2, <2>5
  <2> QED
    BY <2>1, <2>4, <2>6 DEF NeverTooLive
<1>7. SweptSolved'
  <2> SUFFICES ASSUME ~changed', NEW b \in Block, b > cur' PROVE Solved(b)'
    BY <1>2 DEF SweptSolved
  <2>1. /\ ~changed
        /\ Cardinality(liveIn[cur]) + Cardinality(liveOut[cur])
             = Cardinality(liveIn'[cur]) + Cardinality(liveOut'[cur])
    BY DEF SweepBlock, SizeOfInOut, LiveInv, LiveType, TypeOK
  <2>2. IsFiniteSet(liveIn'[cur]) /\ IsFiniteSet(liveOut'[cur])
    BY <1>1, RegAssumption, FS_Subset
  <2>3. liveIn[cur] = liveIn'[cur] /\ liveOut[cur] = liveOut'[cur]
    BY <1>1, <2>1, <2>2, SameSize
  <2>4. liveIn' = liveIn /\ liveOut' = liveOut
    <3>1. liveIn \in [Block -> SUBSET Reg] /\ liveOut \in [Block -> SUBSET Reg]
      BY <1>2 DEF LiveType, TypeOK
    <3>2. liveIn' = [liveIn EXCEPT ![cur] = liveIn[cur]]
      BY <1>1, <2>3 DEF SweepBlock
    <3>3. liveOut' = [liveOut EXCEPT ![cur] = liveOut[cur]]
      BY <1>1, <2>3 DEF SweepBlock
    <3> QED
      BY <3>1, <3>2, <3>3
  <2>5. Solved(b)' = Solved(b)
    BY <1>2, <2>4 DEF Solved, CalcIn, Nexts
  <2>6. Solved(cur)
    BY <1>1, <1>2, <2>4 DEF Solved, CalcOut, Nexts
  <2>7. b > cur \/ b = cur
    BY <1>1, <1>2 DEF Block
  <2> QED
    BY <1>2, <2>1, <2>5, <2>6, <2>7 DEF LiveInv, SweptSolved
<1> QED
  BY <1>3, <1>5, <1>6, <1>7 DEF LiveInv

\* The steps between sweeps leave the sets alone.
LEMMA SetsKept ==
  ASSUME LiveInv, UNCHANGED <<fun, liveIn, liveOut>>
  PROVE  /\ Behind' /\ NeverTooLive'
         /\ \A b \in Block : Solved(b)' = Solved(b)
<1>1. \A b \in Block : CalcIn(b)' = CalcIn(b) /\ Nexts(b)' = Nexts(b)
  BY DEF CalcIn, Nexts
<1>2. \A b \in Block : LiveAt(b)' = LiveAt(b) /\ LiveAfter(b)' = LiveAfter(b)
  BY DEF LiveAt, LiveAfter, ReadClosed
<1> QED
  BY <1>1, <1>2 DEF LiveInv, Behind, NeverTooLive, Solved

LEMMA LiveStep == LiveInv /\ [Next]_vars => LiveInv'
<1> SUFFICES ASSUME LiveInv, [Next]_vars PROVE LiveInv'
  OBVIOUS
<1>1. CASE SweepBlock
  BY <1>1, SweepStep
<1>2. CASE SweepEnd
  <2>1. UNCHANGED <<fun, liveIn, liveOut>>
    BY <1>2 DEF SweepEnd
  <2>2. LiveType'
    <3>1. /\ fun \in Funcs /\ cur \in 0..N /\ changed \in BOOLEAN /\ stopped \in BOOLEAN
          /\ liveIn \in [Block -> SUBSET Reg] /\ liveOut \in [Block -> SUBSET Reg]
      BY DEF LiveInv, LiveType, TypeOK
    <3>2. cur' = cur \/ cur' = N
      BY <1>2 DEF SweepEnd
    <3>3. cur' \in 0..N
      BY <3>1, <3>2, NAssumption
    <3>4. changed' \in BOOLEAN /\ stopped' \in BOOLEAN
      BY <1>2, <3>1 DEF SweepEnd
    <3> QED
      BY <2>1, <3>1, <3>3, <3>4 DEF LiveType, TypeOK
  <2>3. SweptSolved'
    <3>1. CASE changed
      <4>1. \A b \in Block : ~(b > cur')
        BY <1>2, <3>1, NAssumption DEF SweepEnd, Block
      <4> QED
        BY <1>2, <3>1, <4>1 DEF SweepEnd, SweptSolved
    <3>2. CASE ~changed
      <4>1. \A b \in Block : b > cur
        BY <1>2 DEF SweepEnd, Block
      <4>2. \A b \in Block : Solved(b)
        BY <1>2, <3>2, <4>1 DEF SweepEnd, LiveInv, SweptSolved
      <4> QED
        BY <2>1, <4>2, SetsKept DEF SweptSolved
    <3> QED
      BY <3>1, <3>2
  <2> QED
    BY <2>1, <2>2, <2>3, SetsKept DEF LiveInv
<1>3. CASE UNCHANGED vars
  <2>1. UNCHANGED <<fun, liveIn, liveOut, cur, changed, stopped>>
    BY <1>3 DEF vars
  <2> QED
    BY <2>1, SetsKept DEF LiveInv, LiveType, TypeOK, SweptSolved
<1>4. CASE Done
  BY <1>3, <1>4 DEF Done
<1> QED
  BY <1>1, <1>2, <1>3, <1>4 DEF Next

LEMMA LiveInvariant == Spec => []LiveInv
BY LiveInit, LiveStep, PTL DEF Spec

-----------------------------------------------------------------------------
(***************************************************************************)
(* The variables of calcInOut keep their types.                             *)
(***************************************************************************)
THEOREM TypeCorrect == Spec => []TypeOK
<1>1. LiveInv => TypeOK
  BY DEF LiveInv, LiveType
<1> QED
  BY <1>1, LiveInvariant, PTL

(***************************************************************************)
(* At no point does calcInOut hold a register for live that is not.         *)
(***************************************************************************)
THEOREM LiveOnlyIfRead == Spec => []NeverTooLive
<1>1. LiveInv => NeverTooLive
  BY DEF LiveInv
<1> QED
  BY <1>1, LiveInvariant, PTL

(***************************************************************************)
(* When calcInOut stops, _liveIn and _liveOut are exactly the registers     *)
(* live at the borders of each block.                                       *)
(***************************************************************************)
THEOREM LivenessExact == Spec => []LiveExact
<1>1. LiveInv => LiveExact
  <2> SUFFICES ASSUME LiveInv, stopped, NEW b \in Block
               PROVE  liveIn[b] = LiveAt(b) /\ liveOut[b] = LiveAfter(b)
    BY DEF LiveExact
  <2>1. LiveType /\ \A x \in Block : Solved(x)
    BY DEF LiveInv, SweptSolved
  <2>2. \A x \in Block : LiveAt(x) = liveIn[x]
    BY <2>1, SolutionHasLive DEF LiveInv, NeverTooLive
  <2>3. LiveAfter(b) \subseteq liveOut[b]
    BY <2>1, <2>2, FunFacts DEF LiveAfter, Solved, Nexts
  <2> QED
    BY <2>2, <2>3 DEF LiveInv, NeverTooLive
<1> QED
  BY <1>1, LiveInvariant, PTL

(***************************************************************************)
(* Every step of calcInOut only adds to the sets, so that comparing sizes   *)
(* does compare sets.                                                       *)
(***************************************************************************)
THEOREM LiveSetsGrow == Spec => OnlyGrows
<1>1. LiveInv /\ [Next]_vars =>
        [\A b \in Block : liveIn[b] \subseteq liveIn'[b] /\ liveOut[b] \subseteq liveOut'[b]]_vars
  <2> SUFFICES ASSUME LiveInv, Next, NEW b \in Block
               PROVE  liveIn[b] \subseteq liveIn'[b] /\ liveOut[b] \subseteq liveOut'[b]
    OBVIOUS
  <2>1. CASE SweepBlock
    BY <2>1, SweepGrows
  <2>2. CASE SweepEnd \/ Done
    BY <2>2 DEF SweepEnd, Done, vars
  <2> QED
    BY <2>1, <2>2 DEF Next
<1> QED
  BY <1>1, LiveInvariant, PTL DEF Spec, OnlyGrows
=============================================================================

--------------------------- MODULE CodeRunProofs ---------------------------
(***************************************************************************)
(* For any code, registers and orders of the hash tables: ReduceMove and    *)
(* FuncRegAlloc leave every operand where the instruction looks for it.     *)
(* A certificate says of every point of the code which place has the value  *)
(* of which register; each pass hands one on to the next.                   *)
(***************************************************************************)
EXTENDS CodeRun, FlowGraphProofs, SequenceTheorems

-----------------------------------------------------------------------------
(* Going through a sequence of sequences. *)

\* FlattenSeq puts one behind the other.
LEMMA Flattened ==
  ASSUME NEW T, NEW n \in Nat, NEW q \in [1..n -> Seq(T)], n # 0
  PROVE  \E flat \in [1..n -> Seq(T)] :
           /\ flat[1] = q[1] /\ FlattenSeq(q) = flat[n]
           /\ \A i \in 2..n : flat[i] = flat[i - 1] \o q[i]
<1> DEFINE M == Seq(T)
           step == [x \in (1..(n - 1)) \X M |-> x[2] \o q[x[1] + 1]]
           Is(f) == f = [i \in 1..n |-> IF i = 1 THEN q[1] ELSE f[i - 1] \o q[i]]
<1>1. step \in [(1..(n - 1)) \X M -> M]
  <2>1. \A x \in (1..(n - 1)) \X M : x[1] + 1 \in 1..n /\ x[2] \in M
    OBVIOUS
  <2>2. \A x \in (1..(n - 1)) \X M : x[2] \o q[x[1] + 1] \in M
    BY <2>1, ConcatProperties
  <2> QED
    BY <2>2
<1>2. n - 1 \in Nat /\ (n - 1) + 1 = n /\ q[1] \in M
  OBVIOUS
<1>3. PICK m : Computes(m, n - 1, M, q[1], step)
  <2> HIDE DEF step
  <2> QED
    BY <1>1, <1>2, StepByStep
<1>4. m \in [1..n -> M] /\ m[1] = q[1]
  BY <1>2, <1>3 DEF Computes
<1>5. ASSUME NEW i \in 2..n PROVE m[i] = m[i - 1] \o q[i]
  <2>1. i - 1 \in 1..(n - 1) /\ (i - 1) + 1 = i /\ m[i - 1] \in M
    BY <1>4
  <2>2. m[i] = step[<<i - 1, m[i - 1]>>]
    BY <1>3, <2>1 DEF Computes
  <2> QED
    BY <2>1, <2>2
<1>6. \A i \in 1..n : i = 1 \/ i \in 2..n
  OBVIOUS
<1>7. \A i \in 1..n : m[i] = IF i = 1 THEN q[1] ELSE m[i - 1] \o q[i]
  BY <1>4, <1>5, <1>6
<1>8. Is(m)
  BY <1>4, <1>7
<1>9. \E f : Is(f)
  BY <1>8
<1>10. Len(q) = n
  OBVIOUS
<1>11. PICK g : Is(g) /\ FlattenSeq(q) = g[n]
  <2> DEFINE g == CHOOSE f : f = [i \in 1..Len(q) |-> IF i = 1 THEN q[i] ELSE f[i - 1] \o q[i]]
  <2>1. FlattenSeq(q) = g[n]
    BY <1>10 DEF FlattenSeq
  <2>2. \A f : f = [i \in 1..Len(q) |-> IF i = 1 THEN q[i] ELSE f[i - 1] \o q[i]] <=> Is(f)
    <3>1. \A f : [i \in 1..Len(q) |-> IF i = 1 THEN q[i] ELSE f[i - 1] \o q[i]]
               = [i \in 1..n |-> IF i = 1 THEN q[1] ELSE f[i - 1] \o q[i]]
      BY <1>10
    <3> QED
      BY <3>1
  <2>3. g = [i \in 1..Len(q) |-> IF i = 1 THEN q[i] ELSE g[i - 1] \o q[i]]
    BY <1>9, <2>2
  <2>4. Is(g)
    BY <2>2, <2>3
  <2> QED
    BY <2>1, <2>4
<1> HIDE DEF step
<1>12. g[1] = q[1] /\ \A i \in 2..n : g[i] = g[i - 1] \o q[i]
  <2>1. \A i \in 1..n : g[i] = IF i = 1 THEN q[1] ELSE g[i - 1] \o q[i]
    BY <1>11
  <2>2. 1 \in 1..n /\ \A i \in 2..n : i \in 1..n /\ i # 1
    OBVIOUS
  <2> QED
    BY <2>1, <2>2
<1>13. \A i \in 1..n : g[i] = m[i]
  <2> DEFINE S == {i \in 1..n : g[i] = m[i]}
  <2>1. 1 \in S
    BY <1>4, <1>12
  <2>2. ASSUME NEW i \in 1..(n - 1), i \in S PROVE i + 1 \in S
    <3>1. i + 1 \in 2..n /\ (i + 1) - 1 = i /\ i + 1 \in 1..n
      OBVIOUS
    <3>2. g[i + 1] = g[i] \o q[i + 1] /\ m[i + 1] = m[i] \o q[i + 1]
      BY <1>5, <1>12, <3>1
    <3> QED
      BY <2>2, <3>1, <3>2
  <2> HIDE DEF S
  <2>3. \A i \in 1..((n - 1) + 1) : i \in S
    BY <1>2, <2>1, <2>2, UpTo
  <2> QED
    BY <1>2, <2>3 DEF S
<1>14. FlattenSeq(q) = m[n]
  BY <1>11, <1>13
<1> QED
  BY <1>4, <1>5, <1>14

-----------------------------------------------------------------------------
(***************************************************************************)
(* Certificates.  A point of the code is given pairs of a place, register   *)
(* or spill slot, and a register of the original code whose value is there. *)
(* Settled is a place at the end of a block: nothing has come since what    *)
(* wrote iRegs[1].                                                          *)
(***************************************************************************)
InReg(r)  == <<"reg", r>>
InSlot(n) == <<"slot", n>>
Settled == <<"settled", 0>>
Place == {InReg(r) : r \in Regs} \cup {InSlot(n) : n \in Nat} \cup {Settled}
Pairs == Place \X Regs
a0 == iRegs[1]

LEMMA PlaceFacts ==
  /\ \A r, s : InReg(r) = InReg(s) => r = s
  /\ \A r, s : InSlot(r) = InSlot(s) => r = s
  /\ \A r, n : InReg(r) # InSlot(n) /\ InReg(r) # Settled /\ InSlot(n) # Settled
  /\ \A p, u : <<p, u>> \in Pairs <=> p \in Place /\ u \in Regs
  /\ \A r : InReg(r) \in Place <=> r \in Regs
  /\ \A n : InSlot(n) \in Place <=> n \in Nat
  /\ Settled \in Place
  /\ \A x \in Pairs : x = <<x[1], x[2]>> /\ x[1] \in Place /\ x[2] \in Regs
  /\ \A p \in Place : \/ \E r \in Regs : p = InReg(r)
                      \/ \E n \in Nat : p = InSlot(n)
                      \/ p = Settled
<1>1. \A r, n : InReg(r) # InSlot(n) /\ InReg(r) # Settled /\ InSlot(n) # Settled
  BY DEF InReg, InSlot, Settled
<1>2. /\ \A r, s : InReg(r) = InReg(s) => r = s
      /\ \A r, s : InSlot(r) = InSlot(s) => r = s
  BY DEF InReg, InSlot
<1>3. /\ \A r : InReg(r) \in Place <=> r \in Regs
      /\ \A n : InSlot(n) \in Place <=> n \in Nat
      /\ Settled \in Place
  BY <1>1, <1>2 DEF Place
<1>4. /\ \A p, u : <<p, u>> \in Pairs <=> p \in Place /\ u \in Regs
      /\ \A x \in Pairs : x = <<x[1], x[2]>> /\ x[1] \in Place /\ x[2] \in Regs
  BY DEF Pairs
<1>5. \A p \in Place : \/ \E r \in Regs : p = InReg(r)
                       \/ \E n \in Nat : p = InSlot(n)
                       \/ p = Settled
  BY DEF Place
<1> QED
  BY <1>1, <1>2, <1>3, <1>4, <1>5

LEMMA RegFacts ==
  /\ N \in Nat \ {0} /\ MaxReg \in Nat
  /\ VReg \subseteq Nat /\ VReg \cap MReg = {} /\ MReg \cap Nat = {}
  /\ VReg \subseteq Regs /\ MReg \subseteq Regs
  /\ a0 \in MReg /\ a0 \notin VReg
  /\ Range(iRegs) \subseteq MReg
  /\ iCallerRegs \in Seq(MReg)
<1>1. /\ N \in Nat \ {0} /\ MaxReg \in Nat /\ MReg \cap Nat = {}
      /\ iRegs \in Seq(MReg) /\ iRegs # <<>> /\ iCallerRegs \in Seq(Range(iRegs))
  BY RegsAssumption
<1>2. VReg \subseteq Nat /\ VReg \cap MReg = {}
  BY <1>1 DEF VReg
<1>3. Range(iRegs) \subseteq MReg
  BY DEF MReg
<1>4. a0 \in MReg
  <2>1. 1 \in DOMAIN iRegs
    BY <1>1
  <2> QED
    BY <1>1, <2>1 DEF a0
<1>5. iCallerRegs \in Seq(MReg)
  BY <1>1, <1>3
<1> QED
  BY <1>1, <1>2, <1>3, <1>4, <1>5 DEF Regs

\* After i, place p still has the value of u, which i may have moved.
StillIn(i, A, p, u) ==
  \/ <<p, u>> \in A /\ u \notin Range(i.def)
  \/ i.op \in {"mv", "erased"} /\ <<p, i.use[1]>> \in A /\ u \in Range(i.def)

\* What i puts in its k-th destination is the value of u.
PutsIn(i, A, k, u) ==
  \/ i.op = "loadFrom" /\ <<InSlot(i.imm), u>> \in A
  \/ i.op = "mv" /\ StillIn(i, A, InReg(i.src[1]), u)
  \/ i.op \notin {"loadFrom", "mv"} /\ u = i.def[k]

Saves(i, p) == i.op = "storeTo" /\ p = InSlot(i.imm)
Spared(i, p) == p # Settled /\ (\A k \in DOMAIN i.dst : p # InReg(i.dst[k])) /\ ~Saves(i, p)

Leaves(i, A, p, u) ==
  \/ \E k \in DOMAIN i.dst : p = InReg(i.dst[k]) /\ PutsIn(i, A, k, u)
  \/ Saves(i, p) /\ <<InReg(i.src[1]), u>> \in A
  \/ Spared(i, p) /\ StillIn(i, A, p, u)
  \/ p = Settled /\ (a0 \in Writes(i) \/ (i.op = "erased" /\ <<p, u>> \in A))

Carries(i, A, B) == \A p, u : <<p, u>> \in B => Leaves(i, A, p, u)

\* Every operand is in A.
Finds(i, A) ==
  i.op # "erased" =>
    \A k \in DOMAIN i.use : k \in DOMAIN i.src /\ <<InReg(i.src[k]), i.use[k]>> \in A

Annotates(is, m) ==
  /\ m \in [1..(Len(is) + 1) -> SUBSET Pairs]
  /\ \A k \in 1..Len(is) : Carries(is[k], m[k], m[k + 1]) /\ Finds(is[k], m[k])

\* Run from A, the instructions end in C.
Links(is, A, C) == \E m : Annotates(is, m) /\ m[1] \subseteq A /\ C \subseteq m[Len(is) + 1]

LEMMA LinksNone ==
  ASSUME NEW A, NEW C \in SUBSET Pairs, C \subseteq A
  PROVE  Links(<<>>, A, C)
<1> DEFINE m == [k \in 1..1 |-> C]
<1>1. Len(<<>>) = 0 /\ 0 + 1 = 1
  OBVIOUS
<1>2. m \in [1..1 -> SUBSET Pairs] /\ m[1] = C
  OBVIOUS
<1>3. \A k \in 1..0 : FALSE
  OBVIOUS
<1> HIDE DEF m
<1>4. Annotates(<<>>, m)
  BY <1>1, <1>2, <1>3 DEF Annotates
<1> QED
  BY <1>1, <1>2, <1>4 DEF Links

LEMMA LinksOne ==
  ASSUME NEW T, NEW i \in T, NEW A \in SUBSET Pairs, NEW C \in SUBSET Pairs,
         Carries(i, A, C), Finds(i, A)
  PROVE  Links(<<i>>, A, C)
<1> DEFINE m == [k \in 1..2 |-> IF k = 1 THEN A ELSE C]
<1>1. Len(<<i>>) = 1 /\ 1 + 1 = 2 /\ <<i>>[1] = i
  OBVIOUS
<1>2. m \in [1..2 -> SUBSET Pairs] /\ m[1] = A /\ m[2] = C
  OBVIOUS
<1>3. \A k \in 1..1 : k = 1
  OBVIOUS
<1> HIDE DEF m
<1>4. Annotates(<<i>>, m)
  BY <1>1, <1>2, <1>3 DEF Annotates
<1> QED
  BY <1>1, <1>2, <1>4 DEF Links

LEMMA LinksJoined ==
  ASSUME NEW T, NEW s \in Seq(T), NEW t \in Seq(T), NEW A, NEW B, NEW C,
         Links(s, A, B), Links(t, B, C)
  PROVE  Links(s \o t, A, C)
<1>1. PICK m : Annotates(s, m) /\ m[1] \subseteq A /\ B \subseteq m[Len(s) + 1]
  BY DEF Links
<1>2. PICK n : Annotates(t, n) /\ n[1] \subseteq B /\ C \subseteq n[Len(t) + 1]
  BY DEF Links
<1> DEFINE a == Len(s)
           c == Len(t)
           j == [k \in 1..(a + c + 1) |-> IF k <= a THEN m[k] ELSE n[k - a]]
<1>3. a \in Nat /\ c \in Nat
  OBVIOUS
<1>4. /\ Len(s \o t) = a + c
      /\ \A k \in 1..(a + c) : (s \o t)[k] = IF k <= a THEN s[k] ELSE t[k - a]
  BY ConcatProperties
<1>5. m \in [1..(a + 1) -> SUBSET Pairs] /\ n \in [1..(c + 1) -> SUBSET Pairs]
  BY <1>1, <1>2 DEF Annotates
<1>6. /\ \A k \in 1..a : Carries(s[k], m[k], m[k + 1]) /\ Finds(s[k], m[k])
      /\ \A k \in 1..c : Carries(t[k], n[k], n[k + 1]) /\ Finds(t[k], n[k])
  BY <1>1, <1>2 DEF Annotates
<1>7. n[1] \subseteq m[a + 1]
  BY <1>1, <1>2
<1> HIDE DEF a, c
<1>8. j \in [1..(a + c + 1) -> SUBSET Pairs]
  <2>1. ASSUME NEW k \in 1..(a + c + 1)
        PROVE  (k <= a => k \in 1..(a + 1)) /\ (~(k <= a) => k - a \in 1..(c + 1))
    BY <1>3
  <2> QED
    BY <1>5, <2>1
<1>9. \A k \in 1..(a + 1) : k \in 1..(a + c + 1) /\ j[k] \subseteq m[k] /\ (k <= a => j[k] = m[k])
  <2>1. ASSUME NEW k \in 1..(a + 1)
        PROVE  k \in 1..(a + c + 1) /\ (k <= a \/ (k = a + 1 /\ k - a = 1 /\ ~(k <= a)))
    BY <1>3
  <2> QED
    BY <1>7, <2>1
<1>10. \A k \in 1..(c + 1) : a + k \in 1..(a + c + 1) /\ j[a + k] = n[k]
  <2>1. ASSUME NEW k \in 1..(c + 1)
        PROVE a + k \in 1..(a + c + 1) /\ ~(a + k <= a) /\ (a + k) - a = k
    BY <1>3
  <2> QED
    BY <2>1
<1>11. ASSUME NEW k \in 1..(a + c)
       PROVE  Carries((s \o t)[k], j[k], j[k + 1]) /\ Finds((s \o t)[k], j[k])
  <2>1. CASE k <= a
    <3>1. k \in 1..a /\ k \in 1..(a + 1) /\ k + 1 \in 1..(a + 1)
      BY <1>3, <2>1
    <3>2. j[k] = m[k] /\ j[k + 1] \subseteq m[k + 1] /\ (s \o t)[k] = s[k]
      BY <1>4, <1>9, <2>1, <3>1
    <3> HIDE DEF j
    <3> QED
      BY <1>6, <3>1, <3>2 DEF Carries
  <2>2. CASE ~(k <= a)
    <3>1. /\ k - a \in 1..c /\ k - a \in 1..(c + 1) /\ (k - a) + 1 \in 1..(c + 1)
          /\ a + (k - a) = k /\ a + ((k - a) + 1) = k + 1
      BY <1>3, <2>2
    <3>2. j[k] = n[k - a] /\ j[k + 1] = n[(k - a) + 1]
      BY <1>10, <3>1
    <3>3. (s \o t)[k] = t[k - a]
      BY <1>4, <2>2
    <3> HIDE DEF j
    <3> QED
      BY <1>6, <3>1, <3>2, <3>3
  <2> QED
    BY <2>1, <2>2
<1>12. j[1] \subseteq A /\ C \subseteq j[(a + c) + 1]
  <2>1. 1 \in 1..(a + 1) /\ c + 1 \in 1..(c + 1) /\ a + (c + 1) = (a + c) + 1
    BY <1>3
  <2>2. j[1] \subseteq m[1] /\ j[(a + c) + 1] = n[c + 1]
    BY <1>9, <1>10, <2>1
  <2> HIDE DEF j
  <2> QED
    BY <1>1, <1>2, <2>2 DEF c
<1> HIDE DEF j
<1>13. Annotates(s \o t, j)
  BY <1>4, <1>8, <1>11 DEF Annotates
<1> QED
  BY <1>4, <1>12, <1>13 DEF Links

LEMMA LinksFlat ==
  ASSUME NEW T, NEW n \in Nat, NEW q \in [1..n -> Seq(T)], NEW P \in [1..(n + 1) -> SUBSET Pairs],
         \A k \in 1..n : Links(q[k], P[k], P[k + 1])
  PROVE  FlattenSeq(q) \in Seq(T) /\ Links(FlattenSeq(q), P[1], P[n + 1])
<1>1. CASE n = 0
  <2>1. q = <<>> /\ Len(q) = 0
    BY <1>1
  <2>2. FlattenSeq(q) = <<>>
    BY <2>1 DEF FlattenSeq
  <2>3. P[1] \in SUBSET Pairs /\ n + 1 = 1
    BY <1>1
  <2> QED
    BY <2>2, <2>3, LinksNone
<1>2. CASE n # 0
  <2>1. PICK flat \in [1..n -> Seq(T)] :
           /\ flat[1] = q[1] /\ FlattenSeq(q) = flat[n]
           /\ \A i \in 2..n : flat[i] = flat[i - 1] \o q[i]
    <3> HIDE DEF FlattenSeq
    <3>1. \A X : \A q0 \in [1..n -> Seq(X)] :  n # 0 => \E flat \in [1..n -> Seq(X)] :
           /\ flat[1] = q0[1] /\ FlattenSeq(q0) = flat[n]
           /\ \A i \in 2..n : flat[i] = flat[i - 1] \o q0[i]
      BY  Flattened, Zenon
    <3> QED
      BY <3>1, <1>2
  <2> DEFINE S == {i \in 1..n : Links(flat[i], P[1], P[i + 1])}
  <2>2. 1 \in S
    BY <1>2, <2>1
  <2>3. ASSUME NEW i \in 1..(n - 1), i \in S PROVE i + 1 \in S
    <3>1. i + 1 \in 2..n /\ (i + 1) - 1 = i /\ i + 1 \in 1..n /\ i \in 1..n
      BY <1>2
    <3>2. flat[i + 1] = flat[i] \o q[i + 1]
      BY <2>1, <3>1
    <3>3. flat[i] \in Seq(T) /\ q[i + 1] \in Seq(T)
      BY <2>1, <3>1
    <3>4. Links(flat[i], P[1], P[i + 1]) /\ Links(q[i + 1], P[i + 1], P[(i + 1) + 1])
      BY <2>3, <3>1
    <3>5. Links(flat[i] \o q[i + 1], P[1], P[(i + 1) + 1])
      BY <3>3, <3>4, LinksJoined
    <3> QED
      BY <3>1, <3>2, <3>5
  <2> HIDE DEF S
  <2>4. n - 1 \in Nat /\ (n - 1) + 1 = n /\ n \in 1..n
    BY <1>2
  <2>5. \A i \in 1..((n - 1) + 1) : i \in S
    BY <2>2, <2>3, <2>4, UpTo
  <2> QED
    BY <2>1, <2>4, <2>5 DEF S
<1> QED
  BY <1>1, <1>2

-----------------------------------------------------------------------------
(* Instructions. *)

LEMMA IsSeq ==
  ASSUME NEW S, NEW n \in Nat, NEW f, DOMAIN f = 1..n, f = [k \in DOMAIN f |-> f[k]],
         \A k \in 1..n : f[k] \in S
  PROVE  f \in Seq(S) /\ Len(f) = n
<1>1. f \in [1..n -> S]
  OBVIOUS
<1> QED
  BY <1>1

Ops == {"li", "lea", "op", "mv", "store", "jump", "call", "erased", "loadFrom", "storeTo"}
Instr == [op : Ops, def : Seq(Regs), use : Seq(Regs),
         dst : Seq(Regs), src : Seq(Regs), imm : Int]

\* What the passes rely on in an instruction.
Shaped(i) ==
  /\ IF i.op = "erased" THEN i.dst = <<>> /\ i.src = <<>> ELSE Len(i.use) <= Len(i.src)
  /\ i.op \in {"mv", "storeTo"} => Len(i.src) = 1
  /\ IF i.op = "call" THEN i.dst \in Seq(MReg) /\ i.src \in Seq(MReg)
                      ELSE Len(i.dst) <= 1 /\ Len(i.src) <= 2
  /\ i.op \in {"loadFrom", "storeTo"} => i.imm \in Nat

(***************************************************************************)
(* Of i and A, j and X are a copy in other places: what i reads in A, j     *)
(* finds in X, and every place that j is to leave with a value has one that *)
(* i leaves with it, written or spared like it.                             *)
(***************************************************************************)
Copies(j, X, i, A) ==
  /\ j.op = i.op /\ j.def = i.def /\ j.use = i.use
  /\ DOMAIN j.dst = DOMAIN i.dst /\ DOMAIN j.src = DOMAIN i.src
  /\ i.op \in {"loadFrom", "storeTo"} => j.imm = i.imm
  /\ \A k \in DOMAIN i.src : \A u :
       <<InReg(i.src[k]), u>> \in A => <<InReg(j.src[k]), u>> \in X
  /\ i.op = "loadFrom" => \A u : <<InSlot(i.imm), u>> \in A => <<InSlot(i.imm), u>> \in X

Follows(j, X, p, i, A, q) ==
  \/ \E k \in DOMAIN i.dst : /\ q = InReg(i.dst[k])
                             /\ \A n \in DOMAIN i.dst : i.dst[n] = i.dst[k] => p = InReg(j.dst[n])
  \/ Saves(i, q) /\ p = q
  \/ Spared(i, q) /\ Spared(j, p) /\ \A u : <<q, u>> \in A => <<p, u>> \in X
  \/ /\ q = Settled /\ p = Settled
     /\ a0 \in Writes(i) => a0 \in Writes(j)
     /\ i.op = "erased" => \A u : <<q, u>> \in A => <<p, u>> \in X

LEMMA StillInMoved ==
  ASSUME NEW i, NEW j, NEW A, NEW X, NEW p, NEW q, j.op = i.op, j.def = i.def, j.use = i.use,
         \A u : <<q, u>> \in A => <<p, u>> \in X
  PROVE  \A u : StillIn(i, A, q, u) => StillIn(j, X, p, u)
BY DEF StillIn

LEMMA Simulates ==
  ASSUME NEW i, NEW j, NEW A, NEW B, NEW X, NEW Y,
         Shaped(i), i \in Instr, Carries(i, A, B), Copies(j, X, i, A),
         \A p, u : <<p, u>> \in Y => \E q : <<q, u>> \in B /\ Follows(j, X, p, i, A, q)
  PROVE  Carries(j, X, Y)
<1> SUFFICES ASSUME NEW p, NEW u, <<p, u>> \in Y PROVE Leaves(j, X, p, u)
  BY DEF Carries
<1>1. PICK q : <<q, u>> \in B /\ Follows(j, X, p, i, A, q)
  OBVIOUS
<1>2. Leaves(i, A, q, u)
  BY <1>1 DEF Carries
<1>3. j.op = i.op /\ j.def = i.def /\ j.use = i.use
  BY DEF Copies
<1>4. i.op \in {"mv", "storeTo"} => 1 \in DOMAIN i.src
  BY DEF Shaped, Instr
<1>5. \A k : PutsIn(i, A, k, u) => PutsIn(j, X, k, u)
  <2>1. CASE i.op = "mv"
    <3>1. \A w : <<InReg(i.src[1]), w>> \in A => <<InReg(j.src[1]), w>> \in X
      BY <1>4, <2>1 DEF Copies
    <3>2. StillIn(i, A, InReg(i.src[1]), u) => StillIn(j, X, InReg(j.src[1]), u)
      BY <1>3, <3>1, StillInMoved
    <3> QED
      BY <1>3, <2>1, <3>2 DEF PutsIn
  <2>2. CASE i.op # "mv"
    BY <1>3, <2>2 DEF PutsIn, Copies
  <2> QED
    BY <2>1, <2>2
<1>6. CASE \E k \in DOMAIN i.dst : /\ q = InReg(i.dst[k])
             /\ \A n \in DOMAIN i.dst : i.dst[n] = i.dst[k] => p = InReg(j.dst[n])
  <2>1. PICK k \in DOMAIN i.dst : /\ q = InReg(i.dst[k])
             /\ \A n \in DOMAIN i.dst : i.dst[n] = i.dst[k] => p = InReg(j.dst[n])
    BY <1>6
  <2>2. PICK n \in DOMAIN i.dst : q = InReg(i.dst[n]) /\ PutsIn(i, A, n, u)
    BY <1>2, <2>1, PlaceFacts DEF Leaves, Saves, Spared
  <2>3. p = InReg(j.dst[n]) /\ PutsIn(j, X, n, u) /\ n \in DOMAIN j.dst
    BY <1>5, <2>1, <2>2, PlaceFacts DEF Copies
  <2> QED
    BY <2>3 DEF Leaves
<1>7. CASE Saves(i, q) /\ p = q
  <2>1. <<InReg(i.src[1]), u>> \in A
    BY <1>2, <1>7, PlaceFacts DEF Leaves, Saves, Spared
  <2>2. <<InReg(j.src[1]), u>> \in X /\ Saves(j, p)
    BY <1>4, <1>7, <2>1 DEF Copies, Saves
  <2> QED
    BY <2>2 DEF Leaves
<1>8. CASE Spared(i, q) /\ Spared(j, p) /\ \A w : <<q, w>> \in A => <<p, w>> \in X
  <2>1. StillIn(i, A, q, u)
    BY <1>2, <1>8 DEF Leaves, Spared
  <2>2. StillIn(j, X, p, u)
    BY <1>3, <1>8, <2>1, StillInMoved
  <2> QED
    BY <1>8, <2>2 DEF Leaves
<1>9. CASE /\ q = Settled /\ p = Settled
           /\ a0 \in Writes(i) => a0 \in Writes(j)
           /\ i.op = "erased" => \A w : <<q, w>> \in A => <<p, w>> \in X
  <2>1. a0 \in Writes(i) \/ (i.op = "erased" /\ <<q, u>> \in A)
    BY <1>2, <1>9, PlaceFacts DEF Leaves, Saves, Spared
  <2> QED
    BY <1>3, <1>9, <2>1 DEF Leaves
<1> QED
  BY <1>1, <1>6, <1>7, <1>8, <1>9 DEF Follows

LEMMA FindsCopy ==
  ASSUME NEW i, NEW j, NEW A, NEW X, Copies(j, X, i, A), Finds(i, A)
  PROVE  Finds(j, X)
BY DEF Copies, Finds

LEMMA LoadFromCarries ==
  ASSUME NEW d \in Regs, NEW slot \in Nat, NEW A, NEW B,
         \A p, u : <<p, u>> \in B =>
           /\ p # Settled
           /\ IF p = InReg(d) THEN <<InSlot(slot), u>> \in A ELSE <<p, u>> \in A
  PROVE  Carries(LoadFrom(d, slot), A, B) /\ Finds(LoadFrom(d, slot), A)
<1> DEFINE i == LoadFrom(d, slot)
<1>1. i.op = "loadFrom" /\ i.dst = <<d>> /\ i.def = <<>> /\ i.use = <<>> /\ i.imm = slot
  BY DEF LoadFrom, Make
<1>2. DOMAIN i.dst = {1} /\ i.dst[1] = d /\ DOMAIN i.use = {} /\ Range(i.def) = {}
  BY <1>1 DEF Range
<1> HIDE DEF i
<1>3. Finds(i, A)
  BY <1>2 DEF Finds
<1>4. ASSUME NEW p, NEW u, <<p, u>> \in B PROVE Leaves(i, A, p, u)
  <2>1. CASE p = InReg(d)
    BY <1>1, <1>2, <1>4, <2>1 DEF Leaves, PutsIn
  <2>2. CASE p # InReg(d)
    <3>1. StillIn(i, A, p, u)
      BY <1>2, <1>4, <2>2 DEF StillIn
    <3>2. Spared(i, p)
      BY <1>1, <1>2, <1>4, <2>2 DEF Spared, Saves
    <3> QED
      BY <3>1, <3>2 DEF Leaves
  <2> QED
    BY <2>1, <2>2
<1> QED
  BY <1>3, <1>4 DEF Carries, i

LEMMA StoreToCarries ==
  ASSUME NEW s \in Regs, NEW slot \in Nat, NEW A, NEW B,
         \A p, u : <<p, u>> \in B =>
           /\ p # Settled
           /\ IF p = InSlot(slot) THEN <<InReg(s), u>> \in A ELSE <<p, u>> \in A
  PROVE  Carries(StoreTo(s, slot), A, B) /\ Finds(StoreTo(s, slot), A)
<1> DEFINE i == StoreTo(s, slot)
<1>1. /\ i.op = "storeTo" /\ i.dst = <<>> /\ i.def = <<>> /\ i.use = <<>> /\ i.imm = slot
      /\ i.src = <<s>>
  BY DEF StoreTo, Make
<1>2. DOMAIN i.dst = {} /\ i.src[1] = s /\ DOMAIN i.use = {} /\ Range(i.def) = {}
  BY <1>1 DEF Range
<1> HIDE DEF i
<1>3. Finds(i, A)
  BY <1>2 DEF Finds
<1>4. ASSUME NEW p, NEW u, <<p, u>> \in B PROVE Leaves(i, A, p, u)
  <2>1. CASE p = InSlot(slot)
    BY <1>1, <1>2, <1>4, <2>1 DEF Leaves, Saves
  <2>2. CASE p # InSlot(slot)
    <3>1. StillIn(i, A, p, u)
      BY <1>2, <1>4, <2>2 DEF StillIn
    <3>2. Spared(i, p)
      BY <1>1, <1>2, <1>4, <2>2 DEF Spared, Saves
    <3> QED
      BY <3>1, <3>2 DEF Leaves
  <2> QED
    BY <2>1, <2>2
<1> QED
  BY <1>3, <1>4 DEF Carries, i

-----------------------------------------------------------------------------
(* Spilling. *)

\* Parts of SpillInst.
SpillSrc(i, v, n) == IF i.op = "jump" THEN i.src ELSE Renamed(i.src, v, n)
SpillDst(i, v, n) == IF i.op \in {"op", "mv", "lea"} THEN Renamed(i.dst, v, n + 2) ELSE i.dst
SpillLoads(i, v, slot, n) ==
  [k \in DOMAIN i.src |->
     IF i.src[k] = v THEN <<LoadFrom(SpillSrc(i, v, n)[k], slot)>> ELSE <<>>]
SpillMain(i, v, slot, n) ==
  [i EXCEPT !.src = SpillSrc(i, v, n), !.dst = SpillDst(i, v, n),
            !.imm = IF i.op = "lea" /\ v \in Writes(i) THEN slot ELSE @]
SpillSaves(i, v, slot, n) ==
  IF v \in Writes(i) THEN <<StoreTo(SpillDst(i, v, n)[1], slot)>> ELSE <<>>

LEMMA SpillParts ==
  ASSUME NEW i, NEW v, NEW slot, NEW n
  PROVE  SpillInst(i, v, slot, n)
           = FlattenSeq(SpillLoads(i, v, slot, n)) \o <<SpillMain(i, v, slot, n)>>
               \o SpillSaves(i, v, slot, n)
<1> HIDE DEF FlattenSeq
<1> QED
  BY DEF SpillInst, SpillSrc, SpillDst, SpillLoads, SpillMain, SpillSaves

\* What spilling v makes of the registers of i: v, or a fresh one in its place.
InPlaceOf(v, first, last, r) == r = v \/ (r \in VReg /\ r >= first /\ r <= last)

SpillForms(i, v, n, first, src, dst, j) ==
  /\ src \in Seq(Regs) /\ dst \in Seq(Regs)
  /\ Len(src) = Len(i.src) /\ Len(dst) = Len(i.dst)
  /\ DOMAIN src = DOMAIN i.src /\ DOMAIN dst = DOMAIN i.dst
  /\ \A k \in DOMAIN i.src :
       IF i.src[k] = v THEN InPlaceOf(v, first, n + 2, src[k]) ELSE src[k] = i.src[k]
  /\ \A k \in DOMAIN i.dst :
       IF i.dst[k] = v THEN InPlaceOf(v, first, n + 2, dst[k]) ELSE dst[k] = i.dst[k]
  /\ j \in Instr /\ Shaped(j)
  /\ j.op = i.op /\ j.def = i.def /\ j.use = i.use /\ j.src = src /\ j.dst = dst
  /\ i.op # "lea" => j.imm = i.imm

LEMMA SpillRegs ==
  ASSUME NEW i \in Instr, Shaped(i), NEW v \in VReg, NEW slot \in Nat, NEW n \in Int,
         NEW first \in Nat \ {0},
         v \in Writes(i) \cup Reads(i) => n >= first /\ n + 2 <= MaxReg
  PROVE  SpillForms(i, v, n, first, SpillSrc(i, v, n), SpillDst(i, v, n), SpillMain(i, v, slot, n))
<1> DEFINE src == SpillSrc(i, v, n)
           dst == SpillDst(i, v, n)
           j   == SpillMain(i, v, slot, n)
<1>1. i.src \in Seq(Regs) /\ i.dst \in Seq(Regs) /\ i.imm \in Int
  BY DEF Instr
<1>2. /\ \A k \in DOMAIN i.src : i.src[k] = v => i.op # "call" /\ Len(i.src) <= 2
      /\ \A k \in DOMAIN i.dst : i.dst[k] = v => i.op # "call" /\ Len(i.dst) <= 1
  <2>1. ASSUME i.op = "call" PROVE /\ \A k \in DOMAIN i.src : i.src[k] \in MReg
                                   /\ \A k \in DOMAIN i.dst : i.dst[k] \in MReg
    BY <2>1 DEF Shaped
  <2> QED
    BY <2>1, RegFacts DEF Shaped
<1>3. ASSUME NEW k \in DOMAIN i.src, i.src[k] = v
      PROVE  n + k - 1 \in VReg /\ n + k - 1 >= first /\ n + k - 1 <= n + 2
  <2>1. v \in Reads(i)
    BY <1>3 DEF Reads, Range
  <2>2. k = 1 \/ k = 2
    BY <1>1, <1>2, <1>3
  <2>3. n >= first /\ n + 2 <= MaxReg
    BY <2>1
  <2>4. n >= 1
    BY <2>3
  <2> QED
    BY <2>2, <2>3, <2>4, RegFacts DEF VReg
<1>4. ASSUME NEW k \in DOMAIN i.dst, i.dst[k] = v
      PROVE  (n + 2) + k - 1 \in VReg /\ (n + 2) + k - 1 >= first /\ (n + 2) + k - 1 <= n + 2
  <2>1. v \in Writes(i)
    BY <1>4 DEF Writes, Range
  <2>2. k = 1
    BY <1>1, <1>2, <1>4
  <2> QED
    BY <2>1, <2>2, RegFacts DEF VReg
<1>5. /\ src \in Seq(Regs) /\ Len(src) = Len(i.src) /\ DOMAIN src = DOMAIN i.src
      /\ \A k \in DOMAIN i.src :
           IF i.src[k] = v THEN InPlaceOf(v, first, n + 2, src[k]) ELSE src[k] = i.src[k]
  <2>1. CASE i.op = "jump"
    BY <1>1, <2>1 DEF SpillSrc, InPlaceOf
  <2>2. CASE i.op # "jump"
    <3>1. src = [k \in DOMAIN i.src |-> IF i.src[k] = v THEN n + k - 1 ELSE i.src[k]]
      BY <2>2 DEF SpillSrc, Renamed
    <3>2. \A k \in DOMAIN i.src : src[k] \in Regs
      BY <1>1, <1>3, <3>1, RegFacts
    <3>3. DOMAIN i.src = 1..Len(i.src) /\ Len(i.src) \in Nat
      BY <1>1
    <3>4. DOMAIN src = 1..Len(i.src) /\ src = [k \in DOMAIN src |-> src[k]]
      BY <3>1, <3>3
    <3> HIDE DEF src
    <3>5. src \in Seq(Regs) /\ Len(src) = Len(i.src) /\ DOMAIN src = DOMAIN i.src
      BY <3>2, <3>3, <3>4, IsSeq
    <3> QED
      BY <1>3, <3>1, <3>5 DEF InPlaceOf
  <2> QED
    BY <2>1, <2>2
<1>6. /\ dst \in Seq(Regs) /\ Len(dst) = Len(i.dst) /\ DOMAIN dst = DOMAIN i.dst
      /\ \A k \in DOMAIN i.dst :
           IF i.dst[k] = v THEN InPlaceOf(v, first, n + 2, dst[k]) ELSE dst[k] = i.dst[k]
  <2>1. CASE i.op \notin {"op", "mv", "lea"}
    BY <1>1, <2>1 DEF SpillDst, InPlaceOf
  <2>2. CASE i.op \in {"op", "mv", "lea"}
    <3>1. dst = [k \in DOMAIN i.dst |-> IF i.dst[k] = v THEN (n + 2) + k - 1 ELSE i.dst[k]]
      BY <2>2 DEF SpillDst, Renamed
    <3>2. \A k \in DOMAIN i.dst : dst[k] \in Regs
      BY <1>1, <1>4, <3>1, RegFacts
    <3>3. DOMAIN i.dst = 1..Len(i.dst) /\ Len(i.dst) \in Nat
      BY <1>1
    <3>4. DOMAIN dst = 1..Len(i.dst) /\ dst = [k \in DOMAIN dst |-> dst[k]]
      BY <3>1, <3>3
    <3> HIDE DEF dst
    <3>5. dst \in Seq(Regs) /\ Len(dst) = Len(i.dst) /\ DOMAIN dst = DOMAIN i.dst
      BY <3>2, <3>3, <3>4, IsSeq
    <3> QED
      BY <1>4, <3>1, <3>5 DEF InPlaceOf
  <2> QED
    BY <2>1, <2>2
<1> HIDE DEF src, dst
<1>7. /\ j \in Instr
      /\ j.op = i.op /\ j.def = i.def /\ j.use = i.use /\ j.src = src /\ j.dst = dst
      /\ i.op # "lea" => j.imm = i.imm
  <2>1. j = [i EXCEPT !.src = src, !.dst = dst,
                      !.imm = IF i.op = "lea" /\ v \in Writes(i) THEN slot ELSE @]
    BY DEF SpillMain, src, dst
  <2> HIDE DEF j
  <2> DEFINE m == IF i.op = "lea" /\ v \in Writes(i) THEN slot ELSE i.imm
  <2>2. m \in Int /\ (i.op # "lea" => m = i.imm)
    BY <1>1
  <2>3. j = [op |-> i.op, def |-> i.def, use |-> i.use, dst |-> dst, src |-> src, imm |-> m]
    BY <2>1 DEF Instr
  <2> HIDE DEF m
  <2>4. i.op \in Ops /\ i.def \in Seq(Regs) /\ i.use \in Seq(Regs)
    BY DEF Instr
  <2> QED
    BY <1>5, <1>6, <2>2, <2>3, <2>4 DEF Instr
<1> HIDE DEF j
<1>8. Shaped(j)
  <2>1. CASE i.op = "erased"
    <3>1. i.src = <<>> /\ i.dst = <<>>
      BY <2>1 DEF Shaped
    <3>2. j.src = <<>> /\ j.dst = <<>>
      BY <1>5, <1>6, <1>7, <3>1
    <3> QED
      BY <1>7, <2>1, <3>2 DEF Shaped
  <2>2. CASE i.op = "call"
    <3>1. \A k \in DOMAIN i.src : src[k] = i.src[k]
      BY <1>2, <1>5, <2>2
    <3>2. \A k \in DOMAIN i.dst : dst[k] = i.dst[k]
      BY <1>2, <1>6, <2>2
    <3>3. i.src \in Seq(MReg) /\ i.dst \in Seq(MReg) /\ Len(i.use) <= Len(i.src)
      BY <2>2 DEF Shaped
    <3>4. src = i.src /\ dst = i.dst
      BY <1>5, <1>6, <3>1, <3>2, <3>3
    <3> QED
      BY <1>7, <2>2, <3>3, <3>4 DEF Shaped
  <2>3. CASE i.op \notin {"erased", "call"}
    BY <1>5, <1>6, <1>7, <2>3 DEF Shaped
  <2> QED
    BY <2>1, <2>2, <2>3
<1> QED
  BY <1>5, <1>6, <1>7, <1>8 DEF src, dst, j, SpillForms

\* Where the values are when v lives in the slot: no register from the first
\* fresh one on has any.
Moved(A, v, slot, first) ==
  {x \in Pairs :
     \/ x[1] = InSlot(slot) /\ <<InReg(v), x[2]>> \in A
     \/ x \in A /\ x[1] \notin {InReg(v), InSlot(slot)} /\ \A r \in VReg : r >= first => x[1] # InReg(r)}

LEMMA MovedFacts ==
  ASSUME NEW A \in SUBSET Pairs, NEW v \in VReg, NEW slot \in Nat, NEW first
  PROVE  /\ Moved(A, v, slot, first) \in SUBSET Pairs
         /\ \A p, u : <<p, u>> \in Moved(A, v, slot, first) <=>
              \/ p = InSlot(slot) /\ <<InReg(v), u>> \in A
              \/ /\ <<p, u>> \in A /\ p # InReg(v) /\ p # InSlot(slot)
                 /\ \A r \in VReg : r >= first => p # InReg(r)
<1>1. ASSUME NEW p, NEW u, <<InReg(v), u>> \in A PROVE <<InSlot(slot), u>> \in Pairs
  BY <1>1, PlaceFacts
<1> QED
  BY <1>1 DEF Moved

LEMMA SpillLinks ==
  ASSUME NEW i \in Instr, Shaped(i), NEW v \in VReg, NEW slot \in Nat, NEW n \in Int,
         NEW first \in Nat \ {0},
         v \in Writes(i) \cup Reads(i) => n >= first /\ n + 2 <= MaxReg,
         \A r \in VReg \cap (Writes(i) \cup Reads(i)) : r < first,
         i.op \in {"loadFrom", "storeTo"} => i.imm # slot,
         NEW A \in SUBSET Pairs, NEW B \in SUBSET Pairs, Carries(i, A, B), Finds(i, A)
  PROVE  /\ SpillInst(i, v, slot, n) \in Seq(Instr)
         /\ Links(SpillInst(i, v, slot, n), Moved(A, v, slot, first), Moved(B, v, slot, first))
<1> DEFINE src == SpillSrc(i, v, n)
           dst == SpillDst(i, v, n)
           j   == SpillMain(i, v, slot, n)
           l   == Len(i.src)
           q   == SpillLoads(i, v, slot, n)
           A1  == Moved(A, v, slot, first)
           B1  == Moved(B, v, slot, first)
           P   == [k \in 1..(l + 1) |->
                     {x \in Pairs :
                        \/ x \in A1 /\ (x[1] = Settled => \A m \in 1..(k - 1) : i.src[m] # v)
                        \/ \E m \in 1..(k - 1) : /\ i.src[m] = v /\ x[1] = InReg(src[m])
                                                 /\ <<InReg(v), x[2]>> \in A}]
           Y   == {x \in Pairs :
                     IF v \in Writes(i)
                     THEN \/ x \in B1 /\ x[1] # InSlot(slot)
                          \/ x[1] = InReg(dst[1]) /\ <<InReg(v), x[2]>> \in B
                     ELSE x \in B1}
<1>2. l \in Nat /\ DOMAIN i.src = 1..l /\ i.src \in Seq(Regs) /\ i.dst \in Seq(Regs)
  BY DEF Instr
<1>3. q = [k \in 1..l |-> IF i.src[k] = v THEN <<LoadFrom(src[k], slot)>> ELSE <<>>]
  BY <1>2 DEF SpillLoads
<1>4. \A r \in Regs : LoadFrom(r, slot) \in Instr /\ StoreTo(r, slot) \in Instr
  <2> SUFFICES ASSUME NEW r \in Regs PROVE LoadFrom(r, slot) \in Instr /\ StoreTo(r, slot) \in Instr
    OBVIOUS
  <2>1. <<>> \in Seq(Regs) /\ <<r>> \in Seq(Regs) /\ slot \in Int
    OBVIOUS
  <2>2. LoadFrom(r, slot) = [op |-> "loadFrom", def |-> <<>>, use |-> <<>>,
                             dst |-> <<r>>, src |-> <<>>, imm |-> slot]
    BY DEF LoadFrom, Make
  <2>3. StoreTo(r, slot) = [op |-> "storeTo", def |-> <<>>, use |-> <<>>,
                            dst |-> <<>>, src |-> <<r>>, imm |-> slot]
    BY DEF StoreTo, Make
  <2> QED
    <3>1. \A o \in Ops, d \in Seq(Regs), e \in Seq(Regs) :
            [op |-> o, def |-> <<>>, use |-> <<>>, dst |-> d, src |-> e, imm |-> slot] \in Instr
      BY <2>1 DEF Instr
    <3>2. "loadFrom" \in Ops /\ "storeTo" \in Ops
      BY DEF Ops
    <3>3. [op |-> "loadFrom", def |-> <<>>, use |-> <<>>,
                             dst |-> <<r>>, src |-> <<>>, imm |-> slot] \in Instr
      BY <2>1, <3>1, <3>2
    <3>4. [op |-> "storeTo", def |-> <<>>, use |-> <<>>,
                            dst |-> <<>>, src |-> <<r>>, imm |-> slot] \in Instr
      BY <2>1, <3>1, <3>2
    <3> QED
      BY <2>2, <2>3, <3>3, <3>4
<1>5. /\ A1 \in SUBSET Pairs
      /\ \A p, u : <<p, u>> \in A1 <=>
              \/ p = InSlot(slot) /\ <<InReg(v), u>> \in A
              \/ /\ <<p, u>> \in A /\ p # InReg(v) /\ p # InSlot(slot)
                 /\ \A r \in VReg : r >= first => p # InReg(r)
  BY MovedFacts
<1>6. /\ B1 \in SUBSET Pairs
      /\ \A p, u : <<p, u>> \in B1 <=>
              \/ p = InSlot(slot) /\ <<InReg(v), u>> \in B
              \/ /\ <<p, u>> \in B /\ p # InReg(v) /\ p # InSlot(slot)
                 /\ \A r \in VReg : r >= first => p # InReg(r)
  BY MovedFacts
<1> HIDE DEF l, q, A1, B1
<1>1. /\ src \in Seq(Regs) /\ dst \in Seq(Regs)
      /\ Len(src) = l /\ Len(dst) = Len(i.dst)
      /\ DOMAIN src = DOMAIN i.src /\ DOMAIN dst = DOMAIN i.dst
      /\ \A k \in DOMAIN i.src :
           IF i.src[k] = v THEN src[k] = v \/ (src[k] \in VReg /\ src[k] >= first)
                           ELSE src[k] = i.src[k]
      /\ \A k \in DOMAIN i.dst :
           IF i.dst[k] = v THEN dst[k] = v \/ (dst[k] \in VReg /\ dst[k] >= first)
                           ELSE dst[k] = i.dst[k]
      /\ j \in Instr /\ Shaped(j)
      /\ j.op = i.op /\ j.def = i.def /\ j.use = i.use /\ j.src = src /\ j.dst = dst
      /\ i.op # "lea" => j.imm = i.imm
  <2>1. SpillForms(i, v, n, first, src, dst, j)
    BY SpillRegs
  <2> HIDE DEF src, dst, j
  <2> QED
    BY <2>1 DEF SpillForms, InPlaceOf, l
<1> HIDE DEF src, dst, j
<1>7. q \in [1..l -> Seq(Instr)]
  <2>1. ASSUME NEW k \in 1..l PROVE q[k] \in Seq(Instr)
    <3>1. src[k] \in Regs
      BY <1>1, <1>2
    <3>2. <<>> \in Seq(Instr) /\ <<LoadFrom(src[k], slot)>> \in Seq(Instr)
      BY <1>4, <3>1
    <3> QED
      BY <1>3, <3>2
  <2> QED
    BY <1>3, <2>1
<1>8. /\ P \in [1..(l + 1) -> SUBSET Pairs]
      /\ \A k \in 1..(l + 1) : \A p, u : <<p, u>> \in P[k] <=>
           \/ <<p, u>> \in A1 /\ (p = Settled => \A m \in 1..(k - 1) : i.src[m] # v)
           \/ \E m \in 1..(k - 1) : i.src[m] = v /\ p = InReg(src[m]) /\ <<InReg(v), u>> \in A
  <2>1. P \in [1..(l + 1) -> SUBSET Pairs]
    OBVIOUS
  <2>2. ASSUME NEW k \in 1..(l + 1), NEW p, NEW u, NEW m \in 1..(k - 1), p = InReg(src[m]), <<InReg(v), u>> \in A
        PROVE  <<p, u>> \in Pairs
    <3>1. m \in DOMAIN src
      BY <1>1, <1>2, <2>2
    <3>2. src[m] \in Regs /\ u \in Regs
      BY <1>1, <2>2, <3>1, PlaceFacts
    <3> QED
      BY <2>2, <3>2, PlaceFacts
  <2>3. ASSUME NEW p, NEW u, <<p, u>> \in A1 PROVE <<p, u>> \in Pairs
    BY <1>5, <2>3
  <2>4. \A p, u : <<p, u>>[1] = p /\ <<p, u>>[2] = u
    OBVIOUS
  <2> QED
    BY <2>1, <2>2, <2>3, <2>4
<1>9. /\ Y \in SUBSET Pairs
      /\ \A p, u : <<p, u>> \in Y <=>
           IF v \in Writes(i)
           THEN \/ <<p, u>> \in B1 /\ p # InSlot(slot)
                \/ <<p, u>> \in Pairs /\ p = InReg(dst[1]) /\ <<InReg(v), u>> \in B
           ELSE <<p, u>> \in B1
  BY <1>6
<1> HIDE DEF P, Y
<1>10. ASSUME NEW k \in 1..l
       PROVE  Links(q[k], P[k], P[k + 1])
  <2>1. k \in 1..(l + 1) /\ k + 1 \in 1..(l + 1)
    BY <1>2
  <2>2. \A m : m \in 1..((k + 1) - 1) <=> (m \in 1..(k - 1) \/ m = k)
    BY <1>2
  <2>5. \A p, u : <<p, u>> \in P[k] <=>
           \/ <<p, u>> \in A1 /\ (p = Settled => \A m \in 1..(k - 1) : i.src[m] # v)
           \/ \E m \in 1..(k - 1) : i.src[m] = v /\ p = InReg(src[m]) /\ <<InReg(v), u>> \in A
    BY <1>8, <2>1
  <2>6. ASSUME NEW p, NEW u, <<p, u>> \in P[k + 1]
        PROVE  /\ p = Settled => i.src[k] # v
               /\ \/ <<p, u>> \in P[k]
                  \/ i.src[k] = v /\ p = InReg(src[k]) /\ <<InReg(v), u>> \in A
    <3>1. \/ <<p, u>> \in A1 /\ (p = Settled => \A m \in 1..((k + 1) - 1) : i.src[m] # v)
          \/ \E m \in 1..((k + 1) - 1) : i.src[m] = v /\ p = InReg(src[m]) /\ <<InReg(v), u>> \in A
      BY <1>8, <2>1, <2>6
    <3>2. CASE <<p, u>> \in A1 /\ (p = Settled => \A m \in 1..((k + 1) - 1) : i.src[m] # v)
      BY <2>2, <2>5, <3>2
    <3>3. CASE \E m \in 1..((k + 1) - 1) : i.src[m] = v /\ p = InReg(src[m]) /\ <<InReg(v), u>> \in A
      <4>1. p # Settled
        BY <3>3, PlaceFacts
      <4> QED
        BY <2>2, <2>5, <3>3, <4>1
    <3> QED
      BY <3>1, <3>2, <3>3
  <2>3. CASE i.src[k] # v
    <3>1. P[k + 1] \subseteq P[k]
      <4>1. ASSUME NEW x \in P[k + 1] PROVE x \in P[k]
        <5>1. x \in Pairs /\ x = <<x[1], x[2]>>
          BY <1>8, <2>1, PlaceFacts
        <5> QED
          BY <2>3, <2>6, <5>1
      <4> QED
        BY <4>1
    <3>2. q[k] = <<>>
      BY <1>3, <2>3
    <3>3. P[k + 1] \in SUBSET Pairs
      BY <1>8, <2>1
    <3> QED
      BY <3>1, <3>2, <3>3, LinksNone
  <2>4. CASE i.src[k] = v
    <3>1. src[k] \in Regs /\ (src[k] = v \/ (src[k] \in VReg /\ src[k] >= first))
      BY <1>1, <1>2, <2>4
    <3>2. \A u : <<InReg(src[k]), u>> \notin A1
      BY <1>5, <3>1, PlaceFacts
    <3>3. ASSUME NEW p, NEW u, <<p, u>> \in P[k + 1]
          PROVE  /\ p # Settled
                 /\ IF p = InReg(src[k]) THEN <<InSlot(slot), u>> \in P[k] ELSE <<p, u>> \in P[k]
      <4>1. p # Settled
        BY <2>4, <2>6, <3>3
      <4>2. CASE p = InReg(src[k])
        <5>1. <<InReg(v), u>> \in A
          BY <2>5, <2>6, <3>2, <3>3, <4>2
        <5>2. <<InSlot(slot), u>> \in A1
          BY <1>5, <5>1
        <5>3. InSlot(slot) # Settled
          BY PlaceFacts
        <5> QED
          BY <2>5, <4>1, <4>2, <5>2, <5>3
      <4>3. CASE p # InReg(src[k])
        BY <2>6, <3>3, <4>1, <4>3
      <4> QED
        BY <4>1, <4>2, <4>3
    <3>4. Carries(LoadFrom(src[k], slot), P[k], P[k + 1]) /\ Finds(LoadFrom(src[k], slot), P[k])
      BY <3>1, <3>3, LoadFromCarries
    <3>5. q[k] = <<LoadFrom(src[k], slot)>>
      BY <1>3, <2>4
    <3>6. P[k] \in SUBSET Pairs /\ P[k + 1] \in SUBSET Pairs
      BY <1>8, <2>1
    <3> QED
      BY <1>4, <3>1, <3>4, <3>5, <3>6, LinksOne
  <2> QED
    BY <2>3, <2>4
<1> DEFINE X == P[l + 1]
<1>11. FlattenSeq(q) \in Seq(Instr) /\ Links(FlattenSeq(q), A1, X)
  <2>1. FlattenSeq(q) \in Seq(Instr) /\ Links(FlattenSeq(q), P[1], P[l + 1])
    <3> HIDE DEF FlattenSeq
    <3>1. P \in [1..(l + 1) -> SUBSET Pairs]
      BY <1>8
    <3> QED
      BY <1>2, <1>7, <1>10, <3>1, LinksFlat
  <2>2. P[1] = A1
    <3>1. 1 \in 1..(l + 1) /\ \A m : m \notin 1..(1 - 1)
      BY <1>2
    <3>2. \A p, u : <<p, u>> \in P[1] <=> <<p, u>> \in A1
      BY <1>8, <3>1
    <3>3. P[1] \in SUBSET Pairs
      BY <1>8, <3>1
    <3>4. \A x \in Pairs : x \in P[1] <=> x \in A1
      BY <3>2, PlaceFacts
    <3> QED
      BY <1>5, <3>3, <3>4
  <2> HIDE DEF FlattenSeq
  <2> QED
    BY <2>1, <2>2
<1>12. \A p, u : <<p, u>> \in X <=>
         \/ <<p, u>> \in A1 /\ (p = Settled => \A m \in 1..l : i.src[m] # v)
         \/ \E m \in 1..l : i.src[m] = v /\ p = InReg(src[m]) /\ <<InReg(v), u>> \in A
  <2>1. l + 1 \in 1..(l + 1) /\ (l + 1) - 1 = l
    BY <1>2
  <2> QED
    BY <1>8, <2>1
<1>13. X \in SUBSET Pairs
  <2>1. l + 1 \in 1..(l + 1)
    BY <1>2
  <2> QED
    BY <1>8, <2>1
<1> HIDE DEF X
<1>14. Copies(j, X, i, A)
  <2>1. ASSUME NEW k \in DOMAIN i.src, NEW u, <<InReg(i.src[k]), u>> \in A
        PROVE  <<InReg(src[k]), u>> \in X
    <3>1. CASE i.src[k] = v
      BY <1>2, <1>12, <2>1, <3>1
    <3>2. CASE i.src[k] # v
      <4>1. \A r \in VReg : r >= first => i.src[k] # r
        <5>1. i.src[k] \in Reads(i)
          BY <1>2 DEF Reads, Range
        <5>2. \A r \in VReg : r >= first => ~(r < first)
          BY RegFacts
        <5> QED
          BY <5>1, <5>2
      <4>2. /\ InReg(i.src[k]) # InReg(v) /\ InReg(i.src[k]) # InSlot(slot)
            /\ InReg(i.src[k]) # Settled
            /\ \A r \in VReg : r >= first => InReg(i.src[k]) # InReg(r)
        BY <3>2, <4>1, PlaceFacts
      <4>3. <<InReg(i.src[k]), u>> \in A1
        BY <1>5, <2>1, <4>2
      <4> QED
        BY <1>1, <1>12, <3>2, <4>2, <4>3
    <3> QED
      BY <3>1, <3>2
  <2>2. ASSUME i.op = "loadFrom", NEW u, <<InSlot(i.imm), u>> \in A
        PROVE  <<InSlot(i.imm), u>> \in X
    <3>1. /\ InSlot(i.imm) # InReg(v) /\ InSlot(i.imm) # InSlot(slot) /\ InSlot(i.imm) # Settled
          /\ \A r : InSlot(i.imm) # InReg(r)
      BY <2>2, PlaceFacts
    <3>2. <<InSlot(i.imm), u>> \in A1
      BY <1>5, <2>2, <3>1
    <3> QED
      BY <1>12, <3>1, <3>2
  <2> QED
    BY <1>1, <2>1, <2>2 DEF Copies
<1>15. ASSUME NEW p, NEW u, <<p, u>> \in Y
       PROVE  \E w : <<w, u>> \in B /\ Follows(j, X, p, i, A, w)
  <2>1. CASE v \in Writes(i) /\ p = InReg(dst[1]) /\ <<InReg(v), u>> \in B
    <3>1. PICK k \in DOMAIN i.dst : i.dst[k] = v
      BY <2>1 DEF Writes, Range
    <3>2. Len(i.dst) <= 1 /\ DOMAIN i.dst = {1}
      <4>1. i.op # "call"
        <5>1. i.op = "call" => i.dst[k] \in MReg
          BY DEF Shaped
        <5> QED
          BY <3>1, <5>1, RegFacts
      <4> QED
        BY <1>2, <3>1, <4>1 DEF Shaped
    <3>3. Follows(j, X, p, i, A, InReg(v))
      BY <1>1, <2>1, <3>1, <3>2 DEF Follows
    <3> QED
      BY <2>1, <3>3
  <2>2. CASE v \notin Writes(i) /\ p = InSlot(slot) /\ <<InReg(v), u>> \in B
    <3>1. \A k \in DOMAIN i.dst : i.dst[k] # v
      BY <2>2 DEF Writes, Range
    <3>2. Spared(i, InReg(v))
      BY <3>1, PlaceFacts DEF Spared, Saves
    <3>3. Spared(j, p)
      BY <1>1, <2>2, PlaceFacts DEF Spared, Saves
    <3>4. \A w : <<InReg(v), w>> \in A => <<p, w>> \in X
      BY <1>5, <1>12, <2>2, PlaceFacts
    <3> QED
      BY <2>2, <3>2, <3>3, <3>4 DEF Follows
  <2>3. CASE /\ <<p, u>> \in B /\ p # InReg(v) /\ p # InSlot(slot)
             /\ \A r \in VReg : r >= first => p # InReg(r)
    <3>1. \A w : <<p, w>> \in A => <<p, w>> \in A1
      BY <1>5, <2>3
    <3>2. CASE \E k \in DOMAIN i.dst : p = InReg(i.dst[k])
      <4>1. \A k \in DOMAIN i.dst : p = InReg(i.dst[k]) => p = InReg(j.dst[k])
        BY <1>1, <2>3
      <4> QED
        BY <2>3, <3>2, <4>1 DEF Follows
    <3>3. CASE Saves(i, p)
      BY <2>3, <3>3 DEF Follows
    <3>4. CASE Spared(i, p)
      <4>1. Spared(j, p)
        <5>1. \A k \in DOMAIN i.dst : p # InReg(j.dst[k])
          BY <1>1, <2>3, <3>4 DEF Spared
        <5> QED
          BY <1>1, <3>4, <5>1 DEF Spared, Saves
      <4>2. \A w : <<p, w>> \in A => <<p, w>> \in X
        BY <1>12, <3>1, <3>4 DEF Spared
      <4> QED
        BY <2>3, <3>4, <4>1, <4>2 DEF Follows
    <3>5. CASE p = Settled
      <4>1. a0 \in Writes(i) => a0 \in Writes(j)
        <5>1. ASSUME NEW k \in DOMAIN i.dst, i.dst[k] = a0 PROVE a0 \in Writes(j)
          <6>1. dst[k] = a0 /\ k \in DOMAIN j.dst
            BY <1>1, <5>1, RegFacts
          <6> QED
            BY <1>1, <6>1 DEF Writes, Range
        <5> QED
          BY <5>1 DEF Writes, Range
      <4>2. ASSUME i.op = "erased", NEW w, <<p, w>> \in A PROVE <<p, w>> \in X
        <5>1. i.src = <<>>
          BY <4>2 DEF Shaped
        <5>2. \A m \in 1..l : FALSE
          BY <1>2, <5>1
        <5> QED
          BY <1>12, <3>1, <4>2, <5>2
      <4> QED
        BY <2>3, <3>5, <4>1, <4>2 DEF Follows
    <3> QED
      BY <3>2, <3>3, <3>4, <3>5 DEF Spared
  <2> QED
    BY <1>6, <1>9, <1>15, <2>1, <2>2, <2>3
<1>16. Links(<<j>>, X, Y)
  <2>1. Carries(j, X, Y)
    BY <1>14, <1>15, Simulates
  <2>2. Finds(j, X)
    BY <1>14, FindsCopy
  <2> QED
    BY <1>1, <1>9, <1>13, <2>1, <2>2, LinksOne
<1> DEFINE saves == SpillSaves(i, v, slot, n)
<1>17. saves \in Seq(Instr) /\ Links(saves, Y, B1)
  <2>1. CASE v \notin Writes(i)
    <3>1. saves = <<>>
      BY <2>1 DEF SpillSaves
    <3>2. B1 \subseteq Y
      <4>1. \A x \in B1 : x = <<x[1], x[2]>>
        BY <1>6, PlaceFacts
      <4> QED
        BY <1>9, <2>1, <4>1
    <3> QED
      BY <1>6, <3>1, <3>2, LinksNone
  <2>2. CASE v \in Writes(i)
    <3>1. saves = <<StoreTo(dst[1], slot)>>
      BY <2>2 DEF SpillSaves, dst
    <3>2. PICK k \in DOMAIN i.dst : i.dst[k] = v
      BY <2>2 DEF Writes, Range
    <3>3. i.op # "call" /\ i.op # "erased" /\ DOMAIN i.dst = {1}
      <4>1. i.op = "call" => i.dst[k] \in MReg
        BY DEF Shaped
      <4>2. i.op # "call"
        BY <3>2, <4>1, RegFacts
      <4>3. i.op # "erased"
        BY <3>2 DEF Shaped
      <4> QED
        BY <1>2, <3>2, <4>2, <4>3 DEF Shaped
    <3>4. dst[1] \in Regs /\ i.dst[1] = v
      BY <1>1, <3>2, <3>3
    <3>5. ASSUME NEW p, NEW u, <<p, u>> \in B1
          PROVE  /\ p # Settled
                 /\ IF p = InSlot(slot) THEN <<InReg(dst[1]), u>> \in Y ELSE <<p, u>> \in Y
      <4>1. p # Settled
        <5>1. ASSUME p = Settled PROVE FALSE
          <6>1. <<p, u>> \in B
            BY <1>6, <3>5, <5>1, PlaceFacts
          <6>2. Leaves(i, A, p, u)
            BY <6>1 DEF Carries
          <6>3. a0 \in Writes(i)
            BY <3>3, <5>1, <6>2, PlaceFacts DEF Leaves, Saves, Spared
          <6> QED
            BY <3>3, <3>4, <6>3, RegFacts DEF Writes, Range
        <5> QED
          BY <5>1
      <4>2. CASE p = InSlot(slot)
        <5>1. <<InReg(v), u>> \in B
          BY <1>6, <3>5, <4>2
        <5>2. <<InReg(dst[1]), u>> \in Pairs
          BY <3>4, <5>1, PlaceFacts
        <5> QED
          BY <1>9, <2>2, <4>1, <4>2, <5>1, <5>2
      <4>3. CASE p # InSlot(slot)
        BY <1>9, <2>2, <3>5, <4>1, <4>3
      <4> QED
        BY <4>1, <4>2, <4>3
    <3>6. Carries(StoreTo(dst[1], slot), Y, B1) /\ Finds(StoreTo(dst[1], slot), Y)
      BY <3>4, <3>5, StoreToCarries
    <3>7. StoreTo(dst[1], slot) \in Instr
      BY <1>4, <3>4
    <3> QED
      BY <1>6, <1>9, <3>1, <3>6, <3>7, LinksOne
  <2> QED
    BY <2>1, <2>2
<1> HIDE DEF saves
<1> QED
  <2> HIDE DEF FlattenSeq
  <2>1. <<j>> \in Seq(Instr)
    BY <1>1
  <2> DEFINE loads == FlattenSeq(q)
  <2>2. loads \in Seq(Instr) /\ Links(loads, A1, X)
    BY <1>11
  <2> HIDE DEF loads
  <2>3. Links(loads \o <<j>>, A1, Y) /\ loads \o <<j>> \in Seq(Instr)
    BY <1>16, <2>1, <2>2, LinksJoined, ConcatProperties
  <2>5. Links(loads \o <<j>> \o saves, A1, B1) /\ loads \o <<j>> \o saves \in Seq(Instr)
    BY <1>17, <2>3, LinksJoined, ConcatProperties
  <2>4. SpillInst(i, v, slot, n) = FlattenSeq(q) \o <<j>> \o saves
    BY SpillParts DEF q, j, saves
  <2> QED
    BY <2>4, <2>5 DEF A1, B1, loads

-----------------------------------------------------------------------------
(* The code as a whole. *)

(***************************************************************************)
(* Every function that returns a result does so at once: an exit block ends *)
(* with the move to iRegs[1].  ReduceMove computes the result into iRegs[1] *)
(* in the first place when it can, and erases the move.  So the instruction *)
(* that computes it must be the one before (or the call before its move out *)
(* of iRegs[1]), for what comes in between could be given iRegs[1]; and an  *)
(* argument that is the result must not be in iRegs[1] already, for its move *)
(* is erased too.  Run code_run_wrong shows the first go wrong.             *)
(***************************************************************************)
Echo(is, k) ==
  /\ is[k].op = "mv" /\ is[k].src = <<a0>>
  /\ k - 1 \in DOMAIN is /\ is[k - 1].op # "mv" /\ a0 \in Writes(is[k - 1])

Directly(is, k) ==
  /\ is[k].src # is[k].dst
  /\ is[k].src[1] \in VReg \ fn.phis =>
       \A j \in DOMAIN is : j < k /\ is[j].dst = is[k].src =>
         j = k - 1 /\ (is[j].op # "mv" \/ Echo(is, j))

ReturnsAtOnce ==
  fn.returns => \A b \in Block : fn.nexts[b] = {} =>
    \E k \in DOMAIN fn.code[b] :
      /\ k = Len(fn.code[b]) /\ \E r \in Regs : fn.code[b][k] = MV(a0, r)
      /\ fn.opt # "O0" => Directly(fn.code[b], k)

Returning(b) == fn.returns /\ ReturnsAtOnce /\ fn.nexts[b] = {}

\* m says of each point of the code c what is where; done: after ReduceMove.
Certifies(m, c, done) ==
  /\ \A b \in Block : Annotates(c[b], m[b])
  /\ \A x \in m[1][1] : \E r \in MReg : x = <<InReg(r), r>>
  /\ \A b \in Block : \A d \in fn.nexts[b] : m[d][1] \subseteq m[b][Len(c[b]) + 1]
  /\ \A b \in Block : Returning(b) =>
       /\ <<InReg(a0), a0>> \in m[b][Len(c[b]) + 1]
       /\ done => <<Settled, a0>> \in m[b][Len(c[b]) + 1]

\* Instructions with registers below next and spill slots below size, none of
\* those in free.
Fits(next, size, free) ==
  {i \in Instr :
     /\ Shaped(i)
     /\ \A r \in VReg \cap (Writes(i) \cup Reads(i)) : r < next
     /\ i.op \in {"loadFrom", "storeTo"} => i.imm \in 0..(size - 1) /\ i.imm \notin free}

LEMMA FlatSeq ==
  ASSUME NEW T, NEW n \in Nat, NEW q \in [1..n -> Seq(T)]
  PROVE  FlattenSeq(q) \in Seq(T)
<1>1. CASE n = 0
  <2>1. q = <<>> /\ Len(q) = 0
    BY <1>1
  <2> QED
    BY <2>1 DEF FlattenSeq
<1>2. CASE n # 0
  <2> HIDE DEF FlattenSeq
  <2>1. \A X : \A q0 \in [1..n -> Seq(X)] :  n # 0 => \E flat \in [1..n -> Seq(X)] :
           /\ flat[1] = q0[1] /\ FlattenSeq(q0) = flat[n]
           /\ \A i \in 2..n : flat[i] = flat[i - 1] \o q0[i]
    BY  Flattened, Zenon
  <2>2. PICK flat \in [1..n -> Seq(T)] : FlattenSeq(q) = flat[n]
    BY <1>2, <2>1
  <2>3. flat[n] \in Seq(T)
    BY <1>2
  <2> QED
    BY <2>2, <2>3
<1> QED
  BY <1>1, <1>2

LEMMA SpillFits ==
  ASSUME NEW next \in Nat \ {0}, NEW size, NEW free, NEW i \in Fits(next, size, free),
         NEW v \in VReg, NEW slot \in Nat, slot \in 0..(size - 1), NEW n \in Int,
         NEW next2 \in Nat, next <= next2, next2 <= MaxReg + 1, NEW free2,
         free2 \subseteq free, slot \notin free2,
         v \in Writes(i) \cup Reads(i) => n >= next /\ n + 2 < next2
  PROVE  SpillInst(i, v, slot, n) \in Seq(Fits(next2, size, free2))
<1> DEFINE src == SpillSrc(i, v, n)
           dst == SpillDst(i, v, n)
           j   == SpillMain(i, v, slot, n)
           q   == SpillLoads(i, v, slot, n)
           saves == SpillSaves(i, v, slot, n)
           T == Fits(next2, size, free2)
<1>1. /\ i \in Instr /\ Shaped(i)
      /\ \A r \in VReg \cap (Writes(i) \cup Reads(i)) : r < next
      /\ i.op \in {"loadFrom", "storeTo"} => i.imm \in 0..(size - 1) /\ i.imm \notin free
  BY DEF Fits
<1>2. SpillForms(i, v, n, next, src, dst, j)
  <2>1. v \in Writes(i) \cup Reads(i) => n >= next /\ n + 2 <= MaxReg
    BY RegFacts
  <2> QED
    BY <1>1, <2>1, SpillRegs
<1>3. /\ Len(i.src) \in Nat /\ DOMAIN i.src = 1..Len(i.src)
      /\ i.src \in Seq(Regs) /\ i.dst \in Seq(Regs)
  BY <1>1 DEF Instr
<1> HIDE DEF src, dst, j, q, saves
<1>4. \A r \in VReg : r \in Nat /\ r # a0 /\ r \notin MReg
  BY RegFacts
<1>5. v \in Writes(i) \cup Reads(i) => v < next
  BY <1>1
<1>6. ASSUME NEW k \in DOMAIN i.src
      PROVE  src[k] \in Regs /\ (src[k] \in VReg => src[k] < next2)
  <2>1. i.src[k] \in Reads(i)
    BY <1>3 DEF Reads, Range
  <2>2. i.src[k] \in VReg => i.src[k] < next
    BY <1>1, <2>1
  <2>3. src[k] \in Regs
    BY <1>2 DEF SpillForms
  <2>4. CASE i.src[k] # v
    <3>1. src[k] = i.src[k]
      BY <1>2, <2>4 DEF SpillForms
    <3> QED
      BY <1>4, <2>2, <2>3, <3>1
  <2>5. CASE i.src[k] = v
    <3>1. src[k] = v \/ (src[k] \in VReg /\ src[k] <= n + 2)
      BY <1>2, <2>5 DEF SpillForms, InPlaceOf
    <3> QED
      BY <1>4, <1>5, <2>1, <2>3, <2>5, <3>1
  <2> QED
    BY <2>4, <2>5
<1>7. ASSUME NEW k \in DOMAIN i.dst
      PROVE  dst[k] \in Regs /\ (dst[k] \in VReg => dst[k] < next2)
  <2>1. i.dst[k] \in Writes(i)
    BY <1>3 DEF Writes, Range
  <2>2. i.dst[k] \in VReg => i.dst[k] < next
    BY <1>1, <2>1
  <2>3. dst[k] \in Regs
    BY <1>2 DEF SpillForms
  <2>4. CASE i.dst[k] # v
    <3>1. dst[k] = i.dst[k]
      BY <1>2, <2>4 DEF SpillForms
    <3> QED
      BY <1>4, <2>2, <2>3, <3>1
  <2>5. CASE i.dst[k] = v
    <3>1. dst[k] = v \/ (dst[k] \in VReg /\ dst[k] <= n + 2)
      BY <1>2, <2>5 DEF SpillForms, InPlaceOf
    <3> QED
      BY <1>4, <1>5, <2>1, <2>3, <2>5, <3>1
  <2> QED
    BY <2>4, <2>5
<1>8. ASSUME NEW r \in Regs, r \in VReg => r < next2
      PROVE  LoadFrom(r, slot) \in T /\ StoreTo(r, slot) \in T
  <2>1. <<>> \in Seq(Regs) /\ <<r>> \in Seq(Regs) /\ slot \in Int
    OBVIOUS
  <2>2. LoadFrom(r, slot) = [op |-> "loadFrom", def |-> <<>>, use |-> <<>>,
                             dst |-> <<r>>, src |-> <<>>, imm |-> slot]
    BY DEF LoadFrom, Make
  <2>3. StoreTo(r, slot) = [op |-> "storeTo", def |-> <<>>, use |-> <<>>,
                            dst |-> <<>>, src |-> <<r>>, imm |-> slot]
    BY DEF StoreTo, Make
  <2>4. \A o \in Ops, d \in Seq(Regs), e \in Seq(Regs) :
          [op |-> o, def |-> <<>>, use |-> <<>>, dst |-> d, src |-> e, imm |-> slot] \in Instr
    BY <2>1 DEF Instr
  <2>5. "loadFrom" \in Ops /\ "storeTo" \in Ops
    BY DEF Ops
  <2>6. LoadFrom(r, slot) \in Instr /\ StoreTo(r, slot) \in Instr
    <3>1. [op |-> "loadFrom", def |-> <<>>, use |-> <<>>,
                             dst |-> <<r>>, src |-> <<>>, imm |-> slot] \in Instr
      BY <2>1, <2>4, <2>5
    <3>2. [op |-> "storeTo", def |-> <<>>, use |-> <<>>,
                            dst |-> <<>>, src |-> <<r>>, imm |-> slot] \in Instr
      BY <2>1, <2>4, <2>5
    <3> QED
      BY <2>2, <2>3, <3>1, <3>2
  <2>7. Shaped(LoadFrom(r, slot)) /\ Shaped(StoreTo(r, slot))
    BY <2>2, <2>3 DEF Shaped
  <2>8. /\ Writes(LoadFrom(r, slot)) = {r} /\ Reads(LoadFrom(r, slot)) = {}
        /\ Writes(StoreTo(r, slot)) = {} /\ Reads(StoreTo(r, slot)) = {r}
    BY <2>2, <2>3 DEF Writes, Reads, Range
  <2>9. LoadFrom(r, slot).imm = slot /\ StoreTo(r, slot).imm = slot
    BY <2>2, <2>3
  <2> QED
    BY <1>8, <2>6, <2>7, <2>8, <2>9 DEF Fits
<1>9. FlattenSeq(q) \in Seq(T)
  <2>1. q = [k \in 1..Len(i.src) |-> IF i.src[k] = v THEN <<LoadFrom(src[k], slot)>> ELSE <<>>]
    BY <1>3 DEF SpillLoads, q, src
  <2>2. ASSUME NEW k \in 1..Len(i.src) PROVE q[k] \in Seq(T)
    <3>1. <<>> \in Seq(T) /\ <<LoadFrom(src[k], slot)>> \in Seq(T)
      BY <1>3, <1>6, <1>8
    <3> QED
      BY <2>1, <3>1
  <2>3. q \in [1..Len(i.src) -> Seq(T)]
    BY <2>1, <2>2
  <2> HIDE DEF FlattenSeq
  <2> QED
    BY <1>3, <2>3, FlatSeq
<1>10. j \in T
  <2>1. /\ j \in Instr /\ Shaped(j) /\ j.op = i.op /\ j.src = src /\ j.dst = dst
        /\ DOMAIN src = DOMAIN i.src /\ DOMAIN dst = DOMAIN i.dst
        /\ i.op # "lea" => j.imm = i.imm
    BY <1>2 DEF SpillForms
  <2>2. \A r \in VReg \cap (Writes(j) \cup Reads(j)) : r < next2
    BY <1>6, <1>7, <2>1 DEF Writes, Reads, Range
  <2>3. j.op \in {"loadFrom", "storeTo"} => j.imm \in 0..(size - 1) /\ j.imm \notin free2
    BY <1>1, <2>1
  <2> QED
    BY <2>1, <2>2, <2>3 DEF Fits
<1>11. saves \in Seq(T)
  <2>1. CASE v \in Writes(i)
    <3>1. PICK k \in DOMAIN i.dst : i.dst[k] = v
      BY <2>1 DEF Writes, Range
    <3>2. 1 \in DOMAIN i.dst
      BY <1>3, <3>1
    <3>3. StoreTo(dst[1], slot) \in T
      BY <1>7, <1>8, <3>2
    <3>4. saves = <<StoreTo(dst[1], slot)>>
      BY <2>1 DEF saves, SpillSaves, dst
    <3> QED
      BY <3>3, <3>4
  <2>2. CASE v \notin Writes(i)
    BY <2>2 DEF saves, SpillSaves
  <2> QED
    BY <2>1, <2>2
<1> HIDE DEF T
<1>12. FlattenSeq(q) \o <<j>> \o saves \in Seq(T)
  <2> DEFINE loads == FlattenSeq(q)
  <2>1. loads \in Seq(T)
    BY <1>9
  <2> HIDE DEF loads
  <2>2. loads \o <<j>> \o saves \in Seq(T)
    BY <1>10, <1>11, <2>1, ConcatProperties
  <2> HIDE DEF FlattenSeq
  <2> QED
    BY <2>2 DEF loads
<1> HIDE DEF FlattenSeq
<1> QED
  BY <1>12, SpillParts DEF q, j, saves, T

-----------------------------------------------------------------------------
(* Rewrite. *)

\* How many instructions name v: all that are named up to one are among them.
LEMMA NamedCount ==
  ASSUME NEW T, code \in [Block -> Seq(T)], NEW v
  PROVE  LET all == Cardinality(Named(v, N, Len(code[N]))) IN
         /\ all \in Nat
         /\ \A b \in Block : \A k \in DOMAIN code[b] :
              /\ Cardinality(Named(v, b, k)) \in 0..all
              /\ v \in Writes(code[b][k]) \cup Reads(code[b][k]) => Cardinality(Named(v, b, k)) >= 1
<1> DEFINE L == Named(v, N, Len(code[N]))
           Of(c) == {<<c, j>> : j \in {j \in DOMAIN code[c] :
                        /\ c = N => j <= Len(code[N])
                        /\ v \in Writes(code[c][j]) \cup Reads(code[c][j])}}
<1>1. \A b \in Block : /\ code[b] \in Seq(T) /\ Len(code[b]) \in Nat
                       /\ DOMAIN code[b] = 1..Len(code[b])
  OBVIOUS
<1>2. N \in Nat \ {0} /\ N \in Block /\ Block = 1..N
  BY RegFacts DEF Block
<1>3. IsFiniteSet(L)
  <2>1. ASSUME NEW c \in Block PROVE IsFiniteSet(Of(c))
    <3> DEFINE D == 1..Len(code[c])
               M == {c} \X D
    <3>1. IsFiniteSet(D)
      BY <1>1, FS_Interval
    <3>2. IsFiniteSet(M)
      <4>1. IsFiniteSet({c})
        BY FS_Singleton
      <4> HIDE DEF D
      <4> QED
        BY <3>1, <4>1, FS_Product
    <3>3. Of(c) \subseteq M
      BY <1>1
    <3> QED
      BY <3>2, <3>3, FS_Subset
  <2>2. IsFiniteSet({Of(c) : c \in Block})
    <3> DEFINE F == [c \in Block |-> Of(c)]
    <3> HIDE DEF Of
    <3>1. IsFiniteSet(Block)
      BY <1>2, FS_Interval
    <3>2. F \in Surjection(Block, {Of(c) : c \in Block})
      BY DEF Surjection
    <3> QED
      BY <3>1, <3>2, FS_Surjection
  <2>3. L = UNION {Of(c) : c \in Block}
    BY <1>2 DEF Named
  <2> HIDE DEF L, Of
  <2>4. \A S \in {Of(c) : c \in Block} : IsFiniteSet(S)
    BY <2>1
  <2> QED
    BY <2>2, <2>3, <2>4, FS_UNION
<1>4. ASSUME NEW b \in Block, NEW k \in DOMAIN code[b]
      PROVE  Named(v, b, k) \subseteq L
  <2>1. \A c \in 1..b : c \in 1..N /\ \A j \in DOMAIN code[c] : c = N => j <= Len(code[N])
    BY <1>1, <1>2
  <2> QED
    BY <2>1 DEF Named
<1>5. ASSUME NEW b \in Block, NEW k \in DOMAIN code[b],
             v \in Writes(code[b][k]) \cup Reads(code[b][k])
      PROVE  <<b, k>> \in Named(v, b, k)
  <2>1. b \in 1..b /\ k <= k
    BY <1>1, <1>2
  <2> QED
    BY <1>5, <2>1 DEF Named
<1> HIDE DEF L
<1>6. Cardinality(L) \in Nat
  BY <1>3, FS_CardinalityType
<1>7. ASSUME NEW b \in Block, NEW k \in DOMAIN code[b]
      PROVE  /\ Cardinality(Named(v, b, k)) \in 0..Cardinality(L)
             /\ v \in Writes(code[b][k]) \cup Reads(code[b][k]) => Cardinality(Named(v, b, k)) >= 1
  <2>1. IsFiniteSet(Named(v, b, k)) /\ Cardinality(Named(v, b, k)) <= Cardinality(L)
    BY <1>3, <1>4, FS_Subset
  <2>2. Cardinality(Named(v, b, k)) \in Nat
    BY <2>1, FS_CardinalityType
  <2>3. Named(v, b, k) # {} => Cardinality(Named(v, b, k)) # 0
    BY <2>1, FS_EmptySet
  <2>4. Cardinality(Named(v, b, k)) \in 0..Cardinality(L)
    BY <1>6, <2>1, <2>2
  <2>5. ASSUME v \in Writes(code[b][k]) \cup Reads(code[b][k]) PROVE Cardinality(Named(v, b, k)) >= 1
    <3>1. Named(v, b, k) # {}
      BY <1>5, <2>5
    <3> QED
      BY <2>2, <2>3, <3>1
  <2> QED
    BY <2>4, <2>5
<1> QED
  BY <1>6, <1>7 DEF L

Taken == {spilled[v] : v \in DOMAIN spilled}

\* What is known of the code in every state.
CodeInv ==
  /\ fn \in Functions
  /\ nextId \in 1..(MaxReg + 1)
  /\ slots \in 0..MaxSlots
  /\ DOMAIN spilled \subseteq VReg
  /\ \A v \in DOMAIN spilled : spilled[v] \in 0..(slots - 1)
  /\ \A u, v \in DOMAIN spilled : spilled[u] = spilled[v] => u = v
  /\ code \in [Block -> Seq(Fits(nextId, slots, Taken))]

\* The code of a function and what follows its blocks.
LEMMA FnFacts ==
  ASSUME fn \in Functions
  PROVE  /\ fn.nexts \in [Block -> SUBSET Block]
         /\ \A b \in Block : \A d \in fn.nexts[b] : d \in Block
         /\ 1 \in Block /\ N \in Block
<1>1. 1 \in Block /\ N \in Block
  BY RegFacts DEF Block
<1>2. fn.nexts \in [Block -> SUBSET Block]
  BY FunctionsAssumption
<1> QED
  BY <1>1, <1>2

LEMMA RewriteCode ==
  ASSUME CodeInv, NEW v \in DOMAIN spilled, Rewrite(v)
  PROVE  /\ CodeInv'
         /\ \A m, done : Certifies(m, code, done) => \E m2 : Certifies(m2, code', done)
<1> DEFINE slot == spilled[v]
           n(b, k) == nextId + 3 * (Cardinality(Named(v, b, k)) - 1)
           all == Cardinality(Named(v, N, Len(code[N])))
           q(b) == [k \in 1..Len(code[b]) |-> SpillInst(code[b][k], v, slot, n(b, k))]
           T == Fits(nextId, slots, Taken)
           T2 == Fits(nextId', slots, Taken')
<1>1. /\ code \in [Block -> Seq(T)] /\ v \in VReg /\ slot \in 0..(slots - 1) /\ slot \in Nat
      /\ nextId \in Nat \ {0} /\ slots \in Nat /\ fn \in Functions
  BY SlotsAssumption, RegFacts DEF CodeInv
<1>2. /\ all \in Nat
      /\ \A b \in Block : \A k \in DOMAIN code[b] :
           /\ Cardinality(Named(v, b, k)) \in 0..all
           /\ v \in Writes(code[b][k]) \cup Reads(code[b][k]) => Cardinality(Named(v, b, k)) >= 1
  BY <1>1, NamedCount
<1>3. \A b \in Block : /\ code[b] \in Seq(T) /\ Len(code[b]) \in Nat
                       /\ DOMAIN code[b] = 1..Len(code[b])
                       /\ \A k \in 1..Len(code[b]) : code[b][k] \in T
  <2> HIDE DEF T
  <2> QED
    BY <1>1
<1>4. /\ code' = [b \in Block |-> FlattenSeq(q(b))]
      /\ nextId' = nextId + 3 * all /\ nextId' <= MaxReg + 1
      /\ spilled' = [u \in DOMAIN spilled \ {v} |-> spilled[u]]
      /\ fn' = fn /\ slots' = slots
  <2> HIDE DEF FlattenSeq
  <2>1. code' = [b \in Block |-> FlattenSeq([k \in DOMAIN code[b] |->
                SpillInst(code[b][k], v, slot, n(b, k))])]
    BY DEF Rewrite
  <2>2. \A b \in Block : [k \in DOMAIN code[b] |-> SpillInst(code[b][k], v, slot, n(b, k))] = q(b)
    BY <1>3
  <2> HIDE DEF q
  <2>3. code' = [b \in Block |-> FlattenSeq(q(b))]
    BY <2>1, <2>2
  <2> QED
    BY <2>3 DEF Rewrite
<1>5. nextId' \in Nat /\ nextId <= nextId' /\ nextId' \in 1..(MaxReg + 1)
  <2> HIDE DEF all
  <2> QED
    BY <1>1, <1>2, <1>4, RegFacts
<1>6. Taken' \subseteq Taken /\ slot \notin Taken'
  <2>1. Taken' = {spilled[u] : u \in DOMAIN spilled \ {v}}
    BY <1>4 DEF Taken
  <2>2. \A u \in DOMAIN spilled \ {v} : spilled[u] # slot
    BY DEF CodeInv
  <2> QED
    BY <2>1, <2>2 DEF Taken
<1>7. ASSUME NEW b \in Block, NEW k \in 1..Len(code[b])
      PROVE  /\ n(b, k) \in Int
             /\ v \in Writes(code[b][k]) \cup Reads(code[b][k]) =>
                  n(b, k) >= nextId /\ n(b, k) + 2 < nextId' /\ n(b, k) + 2 <= MaxReg
  <2> DEFINE c == Cardinality(Named(v, b, k))
  <2>1. c \in 0..all /\ (v \in Writes(code[b][k]) \cup Reads(code[b][k]) => c >= 1)
    BY <1>2, <1>3
  <2>2. n(b, k) = nextId + 3 * (c - 1)
    OBVIOUS
  <2> HIDE DEF c, n, all
  <2> QED
    BY <1>1, <1>2, <1>4, <2>1, <2>2, RegFacts
<1>8. ASSUME NEW b \in Block
      PROVE  q(b) \in [1..Len(code[b]) -> Seq(T2)]
  <2>1. ASSUME NEW k \in 1..Len(code[b])
        PROVE  SpillInst(code[b][k], v, slot, n(b, k)) \in Seq(T2)
    <3>1. code[b][k] \in Fits(nextId, slots, Taken)
      BY <1>3
    <3> HIDE DEF slot, n
    <3> QED
      BY <1>1, <1>4, <1>5, <1>6, <1>7, <3>1, SpillFits
  <2> HIDE DEF T2
  <2> QED
    BY <2>1
<1>9. CodeInv'
  <2>1. code' \in [Block -> Seq(T2)]
    <3> HIDE DEF FlattenSeq, q, T2
    <3>1. \A b \in Block : FlattenSeq(q(b)) \in Seq(T2)
      BY <1>3, <1>8, FlatSeq
    <3> QED
      BY <1>4, <3>1
  <2>2. /\ DOMAIN spilled' \subseteq VReg
        /\ \A u \in DOMAIN spilled' : spilled'[u] \in 0..(slots' - 1)
        /\ \A u, w \in DOMAIN spilled' : spilled'[u] = spilled'[w] => u = w
    BY <1>4 DEF CodeInv
  <2> QED
    BY <1>1, <1>4, <1>5, <2>1, <2>2 DEF CodeInv
<1>10. ASSUME NEW m, NEW done, Certifies(m, code, done)
       PROVE  \E m2 : Certifies(m2, code', done)
  <2> DEFINE F(A) == Moved(A, v, slot, nextId)
             end(b) == Len(code[b]) + 1
  <2>1. ASSUME NEW b \in Block
        PROVE  Links(code'[b], F(m[b][1]), F(m[b][end(b)]))
    <3> DEFINE l == Len(code[b])
               P == [k \in 1..(l + 1) |-> F(m[b][k])]
    <3>1. /\ m[b] \in [1..(l + 1) -> SUBSET Pairs]
          /\ \A k \in 1..l : Carries(code[b][k], m[b][k], m[b][k + 1]) /\ Finds(code[b][k], m[b][k])
      BY <1>10 DEF Certifies, Annotates
    <3>2. \A k \in 1..(l + 1) : m[b][k] \in SUBSET Pairs /\ F(m[b][k]) \in SUBSET Pairs
      BY <1>1, <3>1, MovedFacts
    <3>3. P \in [1..(l + 1) -> SUBSET Pairs] /\ \A k \in 1..(l + 1) : P[k] = F(m[b][k])
      BY <3>2
    <3>4. ASSUME NEW k \in 1..l
          PROVE  Links(q(b)[k], P[k], P[k + 1])
      <4>1. k \in 1..(l + 1) /\ k + 1 \in 1..(l + 1)
        BY <1>3
      <4> DEFINE i == code[b][k]
                 A == m[b][k]
                 B == m[b][k + 1]
                 x == n(b, k)
      <4>2. /\ i \in Instr /\ Shaped(i) /\ \A r \in VReg \cap (Writes(i) \cup Reads(i)) : r < nextId
            /\ i.op \in {"loadFrom", "storeTo"} => i.imm # slot
        <5>1. i \in T
          BY <1>3
        <5>2. slot \in Taken
          BY DEF Taken
        <5> QED
          BY <5>1, <5>2 DEF Fits
      <4>3. A \in SUBSET Pairs /\ B \in SUBSET Pairs /\ Carries(i, A, B) /\ Finds(i, A)
        BY <3>1, <3>2, <4>1
      <4>4. x \in Int /\ (v \in Writes(i) \cup Reads(i) => x >= nextId /\ x + 2 <= MaxReg)
        BY <1>7
      <4>5. q(b)[k] = SpillInst(i, v, slot, x)
        OBVIOUS
      <4>6. P[k] = Moved(A, v, slot, nextId) /\ P[k + 1] = Moved(B, v, slot, nextId)
        BY <3>3, <4>1
      <4> HIDE DEF i, A, B, x, P, q, slot
      <4>7. Links(SpillInst(i, v, slot, x), Moved(A, v, slot, nextId), Moved(B, v, slot, nextId))
        BY <1>1, <4>2, <4>3, <4>4, SpillLinks
      <4> QED
        BY <4>5, <4>6, <4>7
    <3>5. l \in Nat /\ 1 \in 1..(l + 1) /\ l + 1 \in 1..(l + 1)
      BY <1>3
    <3>6. code'[b] = FlattenSeq(q(b))
      <4> HIDE DEF FlattenSeq, q
      <4> QED
        BY <1>4
    <3>7. P[1] = F(m[b][1]) /\ P[l + 1] = F(m[b][end(b)])
      BY <3>3, <3>5
    <3>8. q(b) \in [1..l -> Seq(T2)]
      BY <1>8
    <3> HIDE DEF FlattenSeq, P, q, l, T2, F
    <3>9. Links(FlattenSeq(q(b)), P[1], P[l + 1])
      BY <3>3, <3>4, <3>5, <3>8, LinksFlat
    <3> QED
      BY <3>6, <3>7, <3>9
  <2> DEFINE Good(b, x) == /\ Annotates(code'[b], x) /\ x[1] \subseteq F(m[b][1])
                           /\ F(m[b][end(b)]) \subseteq x[Len(code'[b]) + 1]
             m2 == [b \in Block |-> CHOOSE x : Good(b, x)]
  <2>2. \A b \in Block : Good(b, m2[b])
    <3>1. \A b \in Block : \E x : Good(b, x)
      BY <2>1 DEF Links
    <3> HIDE DEF Good
    <3> QED
      BY <3>1
  <2> HIDE DEF m2
  <2>3. \A b \in Block : /\ m[b][1] \in SUBSET Pairs /\ m[b][end(b)] \in SUBSET Pairs
    <3> SUFFICES ASSUME NEW b \in Block
                 PROVE  m[b][1] \in SUBSET Pairs /\ m[b][end(b)] \in SUBSET Pairs
      OBVIOUS
    <3>1. 1 \in 1..(Len(code[b]) + 1) /\ Len(code[b]) + 1 \in 1..(Len(code[b]) + 1)
      BY <1>3
    <3> QED
      BY <1>10, <3>1 DEF Certifies, Annotates
  <2>4. \A b \in Block : Annotates(code'[b], m2[b])
    BY <2>2
  <2>5. ASSUME NEW x \in m2[1][1] PROVE \E r \in MReg : x = <<InReg(r), r>>
    <3>1. x \in F(m[1][1]) /\ m[1][1] \in SUBSET Pairs
      BY <1>1, <2>2, <2>3, FnFacts
    <3>2. x \in Pairs /\ x = <<x[1], x[2]>>
      BY <1>1, <3>1, MovedFacts, PlaceFacts
    <3>3. <<InReg(v), x[2]>> \notin m[1][1]
      <4>1. ASSUME NEW r \in MReg, <<InReg(v), x[2]>> = <<InReg(r), r>> PROVE FALSE
        <5>1. InReg(v) = InReg(r)
          BY <4>1
        <5> QED
          BY <1>1, <5>1, PlaceFacts, RegFacts
      <4> QED
        BY <1>10, <4>1 DEF Certifies
    <3>4. x \in m[1][1]
      BY <3>1, <3>2, <3>3 DEF Moved
    <3> QED
      BY <1>10, <3>4 DEF Certifies
  <2>6. ASSUME NEW b \in Block, NEW d \in fn.nexts[b]
        PROVE  m2[d][1] \subseteq m2[b][Len(code'[b]) + 1]
    <3>1. d \in Block
      BY <1>1, FnFacts
    <3>2. m[d][1] \subseteq m[b][end(b)]
      BY <1>10 DEF Certifies
    <3>3. F(m[d][1]) \subseteq F(m[b][end(b)])
      BY <3>2 DEF Moved
    <3> QED
      BY <2>2, <3>1, <3>3
  <2>7. ASSUME NEW b \in Block, NEW p \in {InReg(a0), Settled}, <<p, a0>> \in m[b][end(b)]
        PROVE  <<p, a0>> \in m2[b][Len(code'[b]) + 1]
    <3>1. p # InReg(v) /\ p # InSlot(slot) /\ \A r \in VReg : p # InReg(r)
      BY <1>1, PlaceFacts, RegFacts
    <3>2. <<p, a0>> \in F(m[b][end(b)])
      <4> HIDE DEF end
      <4> QED
        BY <1>1, <2>3, <2>7, <3>1, MovedFacts
    <3> QED
      BY <2>2, <3>2
  <2>8. ASSUME NEW b \in Block, Returning(b)
        PROVE  /\ <<InReg(a0), a0>> \in m2[b][Len(code'[b]) + 1]
               /\ done => <<Settled, a0>> \in m2[b][Len(code'[b]) + 1]
    BY <1>10, <2>7, <2>8 DEF Certifies
  <2> QED
    BY <1>4, <2>4, <2>5, <2>6, <2>8 DEF Certifies
<1> QED
  BY <1>9, <1>10

-----------------------------------------------------------------------------
(* Assign. *)

Col(r) == IF r \in DOMAIN map THEN map[r] ELSE r

Recoloured(i) == [i EXCEPT !.dst = Coloured(@), !.src = Coloured(@)]

\* What of A is left when only the registers of live have their places, and
\* iRegs[1] when it is settled.
Image(A, live) ==
  {x \in Pairs :
     \/ x \in A /\ \A r \in Regs : x[1] # InReg(r)
     \/ \E r \in Regs : /\ r \in live \/ (r = a0 /\ \E w : <<Settled, w>> \in A)
                        /\ x[1] = InReg(Col(r)) /\ <<InReg(r), x[2]>> \in A}

ColourTypes ==
  /\ DOMAIN map \subseteq VReg
  /\ \A v \in DOMAIN map : map[v] \in Range(iRegs)

LEMMA ColFacts ==
  ASSUME ColourTypes
  PROVE  /\ \A r \in Regs : Col(r) \in Regs
         /\ \A r \in MReg : Col(r) = r
         /\ \A r \in DOMAIN map : Col(r) \in MReg
         /\ \A i \in Instr :
              /\ Recoloured(i) \in Instr
              /\ Recoloured(i).op = i.op /\ Recoloured(i).def = i.def /\ Recoloured(i).use = i.use
              /\ Recoloured(i).imm = i.imm
              /\ DOMAIN Recoloured(i).dst = DOMAIN i.dst /\ DOMAIN Recoloured(i).src = DOMAIN i.src
              /\ Len(Recoloured(i).dst) = Len(i.dst) /\ Len(Recoloured(i).src) = Len(i.src)
              /\ \A k \in DOMAIN i.dst : Recoloured(i).dst[k] = Col(i.dst[k])
              /\ \A k \in DOMAIN i.src : Recoloured(i).src[k] = Col(i.src[k])
<1>1. \A r \in DOMAIN map : Col(r) \in MReg
  BY RegFacts DEF ColourTypes, Col
<1>2. \A r \in MReg : Col(r) = r
  BY RegFacts DEF ColourTypes, Col
<1>3. \A r \in Regs : Col(r) \in Regs
  BY <1>1, RegFacts DEF Col
<1>4. ASSUME NEW s \in Seq(Regs)
      PROVE  /\ Coloured(s) \in Seq(Regs) /\ DOMAIN Coloured(s) = DOMAIN s /\ Len(Coloured(s)) = Len(s)
             /\ \A k \in DOMAIN s : Coloured(s)[k] = Col(s[k])
  <2>1. Coloured(s) = [k \in DOMAIN s |-> Col(s[k])]
    BY DEF Coloured, Col
  <2>2. DOMAIN s = 1..Len(s) /\ Len(s) \in Nat /\ \A k \in DOMAIN s : s[k] \in Regs
    OBVIOUS
  <2>3. /\ DOMAIN Coloured(s) = 1..Len(s) /\ \A k \in DOMAIN s : Coloured(s)[k] = Col(s[k])
        /\ Coloured(s) = [k \in DOMAIN Coloured(s) |-> Coloured(s)[k]]
    BY <2>1, <2>2
  <2>4. \A k \in 1..Len(s) : Coloured(s)[k] \in Regs
    BY <1>3, <2>2, <2>3
  <2> HIDE DEF Coloured
  <2>5. Coloured(s) \in Seq(Regs) /\ Len(Coloured(s)) = Len(s)
    BY <2>2, <2>3, <2>4, IsSeq
  <2> QED
    BY <2>2, <2>3, <2>5
<1>5. ASSUME NEW i \in Instr
      PROVE  /\ Recoloured(i) \in Instr
             /\ Recoloured(i).op = i.op /\ Recoloured(i).def = i.def /\ Recoloured(i).use = i.use
             /\ Recoloured(i).imm = i.imm
             /\ Recoloured(i).dst = Coloured(i.dst) /\ Recoloured(i).src = Coloured(i.src)
             /\ i.dst \in Seq(Regs) /\ i.src \in Seq(Regs)
  <2>1. i.dst \in Seq(Regs) /\ i.src \in Seq(Regs)
    BY DEF Instr
  <2>2. Coloured(i.dst) \in Seq(Regs) /\ Coloured(i.src) \in Seq(Regs)
    BY <1>4, <2>1
  <2>3. Recoloured(i) = [op |-> i.op, def |-> i.def, use |-> i.use,
                         dst |-> Coloured(i.dst), src |-> Coloured(i.src), imm |-> i.imm]
    <3> DEFINE d == Coloured(i.dst)
               e == Coloured(i.src)
    <3>1. Recoloured(i) = [i EXCEPT !.dst = d, !.src = e]
      BY DEF Recoloured
    <3> HIDE DEF d, e
    <3>2. Recoloured(i) = [op |-> i.op, def |-> i.def, use |-> i.use, dst |-> d, src |-> e, imm |-> i.imm]
      BY <3>1 DEF Instr
    <3> QED
      BY <3>2 DEF d, e
  <2>4. i.op \in Ops /\ i.def \in Seq(Regs) /\ i.use \in Seq(Regs) /\ i.imm \in Int
    BY DEF Instr
  <2>5. Recoloured(i) \in Instr
    BY <2>2, <2>3, <2>4 DEF Instr
  <2> QED
    BY <2>1, <2>3, <2>5
<1> QED
  BY <1>1, <1>2, <1>3, <1>4, <1>5

LEMMA ImageFacts ==
  ASSUME ColourTypes, NEW A \in SUBSET Pairs, NEW live
  PROVE  /\ Image(A, live) \in SUBSET Pairs
         /\ \A p, u : <<p, u>> \in Image(A, live) <=>
              \/ <<p, u>> \in A /\ \A r \in Regs : p # InReg(r)
              \/ \E r \in Regs : /\ r \in live \/ (r = a0 /\ \E w : <<Settled, w>> \in A)
                                 /\ p = InReg(Col(r)) /\ <<InReg(r), u>> \in A
<1>1. ASSUME NEW r \in Regs, NEW u, <<InReg(r), u>> \in A
      PROVE  <<InReg(Col(r)), u>> \in Pairs
  <2>1. u \in Regs /\ Col(r) \in Regs
    BY <1>1, PlaceFacts, ColFacts
  <2> QED
    BY <2>1, PlaceFacts
<1> QED
  BY <1>1 DEF Image

LEMMA AssignInst ==
  ASSUME ColourTypes, NEW i \in Instr, Shaped(i), NEW A \in SUBSET Pairs, NEW B \in SUBSET Pairs,
         Carries(i, A, B), Finds(i, A), NEW before, NEW after \in SUBSET Regs,
         before = (after \ Writes(i)) \cup Reads(i),
         \A r, s \in after \cup Writes(i) \cup Reads(i) : r # s => Col(r) # Col(s)
  PROVE  /\ Carries(Recoloured(i), Image(A, before), Image(B, after))
         /\ Finds(Recoloured(i), Image(A, before))
<1> DEFINE j == Recoloured(i)
           X == Image(A, before)
           Y == Image(B, after)
<1>1. /\ j \in Instr /\ j.op = i.op /\ j.def = i.def /\ j.use = i.use /\ j.imm = i.imm
      /\ DOMAIN j.dst = DOMAIN i.dst /\ DOMAIN j.src = DOMAIN i.src
      /\ \A k \in DOMAIN i.dst : j.dst[k] = Col(i.dst[k])
      /\ \A k \in DOMAIN i.src : j.src[k] = Col(i.src[k])
  BY ColFacts
<1>2. \A p, u : <<p, u>> \in X <=>
        \/ <<p, u>> \in A /\ \A r \in Regs : p # InReg(r)
        \/ \E r \in Regs : /\ r \in before \/ (r = a0 /\ \E w : <<Settled, w>> \in A)
                           /\ p = InReg(Col(r)) /\ <<InReg(r), u>> \in A
  BY ImageFacts
<1>3. \A p, u : <<p, u>> \in Y <=>
        \/ <<p, u>> \in B /\ \A r \in Regs : p # InReg(r)
        \/ \E r \in Regs : /\ r \in after \/ (r = a0 /\ \E w : <<Settled, w>> \in B)
                           /\ p = InReg(Col(r)) /\ <<InReg(r), u>> \in B
  BY ImageFacts
<1>4. /\ \A k \in DOMAIN i.dst : i.dst[k] \in Writes(i) /\ i.dst[k] \in Regs
      /\ \A k \in DOMAIN i.src : i.src[k] \in Reads(i) /\ i.src[k] \in Regs
      /\ \A r \in Writes(i) : \E k \in DOMAIN i.dst : i.dst[k] = r
  BY DEF Instr, Writes, Reads, Range
<1> HIDE DEF j, X, Y
<1>5. Copies(j, X, i, A)
  <2>1. ASSUME NEW k \in DOMAIN i.src, NEW u, <<InReg(i.src[k]), u>> \in A
        PROVE  <<InReg(j.src[k]), u>> \in X
    BY <1>1, <1>2, <1>4, <2>1
  <2>2. ASSUME NEW u, <<InSlot(i.imm), u>> \in A PROVE <<InSlot(i.imm), u>> \in X
    <3>1. \A r \in Regs : InSlot(i.imm) # InReg(r)
      BY PlaceFacts
    <3> QED
      BY <1>2, <2>2, <3>1
  <2> QED
    BY <1>1, <2>1, <2>2 DEF Copies
<1>6. ASSUME NEW p, NEW u, <<p, u>> \in Y
      PROVE  \E q : <<q, u>> \in B /\ Follows(j, X, p, i, A, q)
  <2>1. CASE <<p, u>> \in B /\ \A r \in Regs : p # InReg(r)
    <3>1. \A w : <<p, w>> \in A => <<p, w>> \in X
      BY <1>2, <2>1
    <3>2. \A k \in DOMAIN i.dst : p # InReg(i.dst[k]) /\ p # InReg(j.dst[k])
      BY <1>1, <1>4, <2>1, ColFacts
    <3>3. CASE Saves(i, p)
      BY <2>1, <3>3 DEF Follows
    <3>4. CASE p = Settled
      <4>1. ASSUME a0 \in Writes(i) PROVE a0 \in Writes(j)
        <5>1. PICK k \in DOMAIN i.dst : i.dst[k] = a0
          BY <1>4, <4>1
        <5>2. j.dst[k] = a0 /\ k \in DOMAIN j.dst
          BY <1>1, <5>1, ColFacts, RegFacts
        <5> QED
          BY <5>2 DEF Writes, Range
      <4> QED
        BY <2>1, <3>1, <3>4, <4>1 DEF Follows
    <3>5. CASE ~Saves(i, p) /\ p # Settled
      <4>1. Spared(i, p) /\ Spared(j, p)
        BY <1>1, <3>2, <3>5 DEF Spared, Saves
      <4> QED
        BY <2>1, <3>1, <4>1 DEF Follows
    <3> QED
      BY <3>3, <3>4, <3>5
  <2>2. ASSUME NEW r \in Regs, r \in after \/ (r = a0 /\ \E w : <<Settled, w>> \in B),
               p = InReg(Col(r)), <<InReg(r), u>> \in B
        PROVE  Follows(j, X, p, i, A, InReg(r))
    <3>1. CASE r \in Writes(i)
      <4>1. PICK k \in DOMAIN i.dst : i.dst[k] = r
        BY <1>4, <3>1
      <4>2. \A n \in DOMAIN i.dst : i.dst[n] = i.dst[k] => p = InReg(j.dst[n])
        BY <1>1, <2>2, <4>1
      <4> QED
        BY <4>1, <4>2 DEF Follows
    <3>2. CASE r \notin Writes(i)
      <4>1. Spared(i, InReg(r))
        BY <1>4, <3>2, PlaceFacts DEF Spared, Saves
      <4>2. /\ \A k \in DOMAIN i.dst : Col(i.dst[k]) # Col(r)
            /\ r \in before \/ (r = a0 /\ \E w : <<Settled, w>> \in A)
        <5>1. CASE r \in after
          BY <1>4, <3>2, <5>1
        <5>2. CASE r = a0 /\ \E w : <<Settled, w>> \in B
          <6>1. PICK w : <<Settled, w>> \in B
            BY <5>2
          <6>2. Leaves(i, A, Settled, w)
            BY <6>1 DEF Carries
          <6>3. i.op = "erased" /\ <<Settled, w>> \in A
            BY <3>2, <5>2, <6>2, PlaceFacts DEF Leaves, Saves, Spared
          <6>4. DOMAIN i.dst = {}
            BY <6>3 DEF Shaped
          <6> QED
            BY <5>2, <6>3, <6>4
        <5> QED
          BY <2>2, <5>1, <5>2
      <4>3. Spared(j, p)
        BY <1>1, <2>2, <4>2, PlaceFacts DEF Spared, Saves
      <4>4. \A w : <<InReg(r), w>> \in A => <<p, w>> \in X
        BY <1>2, <2>2, <4>2
      <4> QED
        BY <4>1, <4>3, <4>4 DEF Follows
    <3> QED
      BY <3>1, <3>2
  <2> QED
    BY <1>3, <1>6, <2>1, <2>2
<1>7. Carries(j, X, Y)
  BY <1>5, <1>6, Simulates
<1>8. Finds(j, X)
  BY <1>5, FindsCopy
<1> QED
  BY <1>7, <1>8 DEF j, X, Y

\* f[k] is live before instruction k + 1 of is, given what is live at the end.
LivesIn(is, out, f) ==
  /\ f \in [0..Len(is) -> SUBSET Regs] /\ f[Len(is)] = out
  /\ \A k \in 1..Len(is) : f[k - 1] = (f[k] \ Writes(is[k])) \cup Reads(is[k])

LEMMA LiveBetween ==
  ASSUME NEW b \in Block, code[b] \in Seq(Instr), liveOut[b] \in SUBSET Regs
  PROVE  \E f : /\ LivesIn(code[b], liveOut[b], f)
                /\ \A k \in DOMAIN code[b] :
                     f[k] \cup Writes(code[b][k]) \cup Reads(code[b][k]) \in LiveAtInst(b)
<1> DEFINE is == code[b]
           n == Len(code[b])
           M == SUBSET Regs
           step == [x \in (1..n) \X M |->
                      (x[2] \ Writes(is[n + 1 - x[1]])) \cup Reads(is[n + 1 - x[1]])]
           Is(f) == f = [k \in 0..n |-> IF k = n THEN liveOut[b]
                                        ELSE (f[k + 1] \ Writes(is[k + 1])) \cup Reads(is[k + 1])]
<1>1. n \in Nat /\ DOMAIN is = 1..n /\ \A k \in 1..n : is[k] \in Instr
  OBVIOUS
<1>2. \A k \in 1..n : Reads(is[k]) \subseteq Regs
  <2>1. \A i \in Instr : Reads(i) \subseteq Regs
    BY DEF Instr, Reads, Range
  <2> HIDE DEF is, n
  <2> QED
    BY <1>1, <2>1
<1> HIDE DEF n, is
<1>3. step \in [(1..n) \X M -> M]
  <2>1. ASSUME NEW x \in (1..n) \X M
        PROVE  (x[2] \ Writes(is[n + 1 - x[1]])) \cup Reads(is[n + 1 - x[1]]) \in M
    <3>1. n + 1 - x[1] \in 1..n /\ x[2] \in M
      BY <1>1
    <3> QED
      BY <1>2, <3>1
  <2> QED
    BY <2>1
<1>4. PICK m : Computes(m, n, M, liveOut[b], step)
  <2> HIDE DEF step
  <2> QED
    BY <1>1, <1>3, StepByStep
<1> DEFINE g == [k \in 0..n |-> m[n + 1 - k]]
<1>5. /\ m \in [1..(n + 1) -> M] /\ m[1] = liveOut[b]
      /\ \A i \in 1..n : m[i + 1] = step[<<i, m[i]>>]
  BY <1>4 DEF Computes
<1>6. g \in [0..n -> M] /\ g[n] = liveOut[b]
  <2>1. \A k \in 0..n : n + 1 - k \in 1..(n + 1)
    BY <1>1
  <2>2. n \in 0..n /\ n + 1 - n = 1
    BY <1>1
  <2> QED
    BY <1>5, <2>1, <2>2
<1>7. ASSUME NEW k \in 0..n, k # n
      PROVE  g[k] = (g[k + 1] \ Writes(is[k + 1])) \cup Reads(is[k + 1])
  <2>1. /\ n - k \in 1..n /\ (n - k) + 1 = n + 1 - k /\ n + 1 - (n - k) = k + 1
        /\ k + 1 \in 0..n /\ n + 1 - (k + 1) = n - k /\ n - k \in 1..(n + 1)
    BY <1>1, <1>7
  <2>2. m[n + 1 - k] = step[<<n - k, m[n - k]>>]
    BY <1>5, <2>1
  <2>3. m[n - k] \in M
    BY <1>5, <2>1
  <2>4. m[n + 1 - k] = (m[n - k] \ Writes(is[k + 1])) \cup Reads(is[k + 1])
    BY <2>1, <2>2, <2>3
  <2>5. g[k] = m[n + 1 - k] /\ g[k + 1] = m[n - k]
    BY <2>1
  <2> QED
    BY <2>4, <2>5
<1>8. Is(g)
  <2>1. g = [k \in 0..n |-> g[k]]
    OBVIOUS
  <2>2. \A k \in 0..n : g[k] = IF k = n THEN liveOut[b]
                               ELSE (g[k + 1] \ Writes(is[k + 1])) \cup Reads(is[k + 1])
    BY <1>6, <1>7
  <2> HIDE DEF g
  <2> QED
    BY <2>1, <2>2
<1> HIDE DEF g
<1>9. \E f : Is(f)
  BY <1>8
<1>10. PICK f : /\ Is(f)
                /\ LiveAtInst(b) = {f[k] \cup Writes(is[k]) \cup Reads(is[k]) : k \in DOMAIN is}
  <2> DEFINE f == CHOOSE f : Is(f)
  <2>1. Is(f)
    <3> HIDE DEF Is
    <3> QED
      BY <1>9
  <2>2. LiveAtInst(b) = {f[k] \cup Writes(is[k]) \cup Reads(is[k]) : k \in DOMAIN is}
    BY DEF LiveAtInst, is, n
  <2> HIDE DEF f, Is
  <2> QED
    BY <2>1, <2>2
<1>11. /\ DOMAIN f = 0..n
       /\ \A k \in 0..n : f[k] = IF k = n THEN liveOut[b]
                               ELSE (f[k + 1] \ Writes(is[k + 1])) \cup Reads(is[k + 1])
  BY <1>10
<1>12. \A k \in 0..n : g[k] = IF k = n THEN liveOut[b]
                               ELSE (g[k + 1] \ Writes(is[k + 1])) \cup Reads(is[k + 1])
  BY <1>8
<1>13. \A k \in 0..n : f[k] = g[k]
  <2> DEFINE S == {i \in 1..(n + 1) : f[n + 1 - i] = g[n + 1 - i]}
  <2>1. 1 \in S
    <3>1. n + 1 - 1 = n /\ n \in 0..n /\ 1 \in 1..(n + 1)
      BY <1>1
    <3> QED
      BY <1>11, <1>12, <3>1
  <2>2. ASSUME NEW i \in 1..n, i \in S PROVE i + 1 \in S
    <3>1. /\ n + 1 - (i + 1) \in 0..n /\ n + 1 - (i + 1) # n
          /\ (n + 1 - (i + 1)) + 1 = n + 1 - i /\ i + 1 \in 1..(n + 1)
      BY <1>1
    <3>2. f[n + 1 - i] = g[n + 1 - i]
      BY <2>2
    <3>3. f[n + 1 - (i + 1)] = g[n + 1 - (i + 1)]
      BY <1>11, <1>12, <3>1, <3>2
    <3> QED
      BY <3>1, <3>3
  <2> HIDE DEF S
  <2>3. \A i \in 1..(n + 1) : i \in S
    BY <1>1, <2>1, <2>2, UpTo
  <2>4. \A k \in 0..n : n + 1 - k \in 1..(n + 1) /\ n + 1 - (n + 1 - k) = k
    BY <1>1
  <2> QED
    BY <2>3, <2>4 DEF S
<1>14. f \in [0..n -> M]
  <2>1. f = [k \in 0..n |-> f[k]]
    BY <1>10
  <2> HIDE DEF Is
  <2> QED
    BY <1>6, <1>13, <2>1
<1>15. \A k \in 1..n : f[k - 1] = (f[k] \ Writes(is[k])) \cup Reads(is[k])
  <2>1. \A k \in 1..n : k - 1 \in 0..n /\ k - 1 # n /\ (k - 1) + 1 = k
    BY <1>1
  <2> QED
    BY <1>11, <2>1
<1>16. LivesIn(is, liveOut[b], f)
  <2>1. n \in 0..n
    BY <1>1
  <2> QED
    BY <1>11, <1>14, <1>15, <2>1 DEF LivesIn, is, n
<1> QED
  BY <1>10, <1>16 DEF is

\* What is live at the start of a block is read in it first or live after it.
LEMMA LiveAtStart ==
  ASSUME NEW is \in Seq(Instr), NEW out, NEW f, LivesIn(is, out, f)
  PROVE  f[0] \subseteq UseOf(is) \cup (out \ DefOf(is))
<1> DEFINE n == Len(is)
<1>1. n \in Nat /\ DOMAIN is = 1..n
  OBVIOUS
<1>2. /\ f \in [0..n -> SUBSET Regs] /\ f[n] = out
      /\ \A k \in 1..n : f[k - 1] = (f[k] \ Writes(is[k])) \cup Reads(is[k])
  BY DEF LivesIn
<1> HIDE DEF n
<1> SUFFICES ASSUME NEW r \in f[0], r \notin UseOf(is)
             PROVE  r \in out /\ r \notin DefOf(is)
  OBVIOUS
<1>3. r \in Regs
  BY <1>1, <1>2
<1> DEFINE S == {i \in 1..(n + 1) : r \in f[i - 1] /\ \A j \in 1..(i - 1) : r \notin Writes(is[j])}
<1>4. 1 \in S
  BY <1>1
<1>5. ASSUME NEW i \in 1..n, i \in S PROVE i + 1 \in S
  <2>1. r \in f[i - 1] /\ \A j \in 1..(i - 1) : r \notin Writes(is[j])
    BY <1>5
  <2>2. r \notin Reads(is[i])
    BY <1>1, <1>3, <2>1 DEF UseOf
  <2>3. r \in f[i] /\ r \notin Writes(is[i])
    BY <1>2, <2>1, <2>2
  <2>4. (i + 1) - 1 = i /\ i + 1 \in 1..(n + 1) /\ \A j \in 1..i : j \in 1..(i - 1) \/ j = i
    BY <1>1
  <2> QED
    BY <2>1, <2>3, <2>4
<1> HIDE DEF S
<1>6. \A i \in 1..(n + 1) : i \in S
  BY <1>1, <1>4, <1>5, UpTo
<1>7. n + 1 \in S /\ (n + 1) - 1 = n
  BY <1>1, <1>6
<1>8. r \in f[n] /\ \A j \in 1..n : r \notin Writes(is[j])
  BY <1>7 DEF S
<1> QED
  BY <1>1, <1>2, <1>8 DEF DefOf

\* What is live together has machine registers of its own.
LEMMA LivesApart ==
  ASSUME ColourTypes, ColoursApart, conflict = CalcConflictMap, VRegsOf(conflict) \subseteq DOMAIN map,
         NEW b \in Block, NEW L \in LiveAtInst(b), L \subseteq Regs
  PROVE  /\ \A r \in L : Col(r) \in MReg
         /\ \A r, s \in L : r # s => Col(r) # Col(s)
<1>1. \A r, s \in L : r \in DOMAIN conflict /\ (r # s => s \in conflict[r])
  <2>1. PICK lives : /\ lives = UNION {LiveAtInst(x) : x \in Block}
                     /\ conflict = [r \in UNION lives |-> (UNION {s \in lives : r \in s}) \ {r}]
    BY DEF CalcConflictMap
  <2>2. L \in lives
    BY <2>1
  <2>3. DOMAIN conflict = UNION lives
        /\ \A r \in UNION lives : conflict[r] = (UNION {s \in lives : r \in s}) \ {r}
    BY <2>1
  <2> QED
    BY <2>2, <2>3
<1>2. \A r \in L : r \in DOMAIN map \/ r \in MReg
  BY <1>1 DEF VRegsOf, Regs
<1>3. \A r \in L : Col(r) \in MReg
  BY <1>2, ColFacts
<1>4. ASSUME NEW r \in L, NEW s \in L, r # s, r \in DOMAIN map PROVE Col(r) # Col(s)
  <2>1. map[r] \notin conflict[r] /\ \A u \in DOMAIN map \cap conflict[r] : map[u] # map[r]
    BY <1>1, <1>4 DEF ColoursApart
  <2>2. s \in conflict[r]
    BY <1>1, <1>4
  <2> QED
    BY <1>4, <2>1, <2>2 DEF Col
<1>5. ASSUME NEW r \in L, NEW s \in L, r # s PROVE Col(r) # Col(s)
  <2>1. CASE r \in DOMAIN map \/ s \in DOMAIN map
    BY <1>4, <1>5, <2>1
  <2>2. CASE r \notin DOMAIN map /\ s \notin DOMAIN map
    BY <1>5, <2>2 DEF Col
  <2> QED
    BY <2>1, <2>2
<1> QED
  BY <1>3, <1>5

LEMMA ColFits ==
  ASSUME ColourTypes, NEW next, NEW size, NEW free, NEW i \in Fits(next, size, free)
  PROVE  /\ Recoloured(i) \in Fits(next, size, free)
         /\ \A r \in Writes(Recoloured(i)) \cup Reads(Recoloured(i)) :
              \E s \in Writes(i) \cup Reads(i) : r = Col(s)
<1> DEFINE j == Recoloured(i)
<1>1. i \in Instr /\ Shaped(i) /\ \A r \in VReg \cap (Writes(i) \cup Reads(i)) : r < next
  BY DEF Fits
<1>2. /\ j \in Instr /\ j.op = i.op /\ j.def = i.def /\ j.use = i.use /\ j.imm = i.imm
      /\ DOMAIN j.dst = DOMAIN i.dst /\ DOMAIN j.src = DOMAIN i.src
      /\ Len(j.dst) = Len(i.dst) /\ Len(j.src) = Len(i.src)
      /\ \A k \in DOMAIN i.dst : j.dst[k] = Col(i.dst[k])
      /\ \A k \in DOMAIN i.src : j.src[k] = Col(i.src[k])
  BY <1>1, ColFacts
<1>3. /\ i.dst \in Seq(Regs) /\ i.src \in Seq(Regs) /\ j.dst \in Seq(Regs) /\ j.src \in Seq(Regs)
  BY <1>1, <1>2 DEF Instr
<1> HIDE DEF j
<1>4. ASSUME NEW r \in Writes(j) \cup Reads(j)
      PROVE  \E s \in Writes(i) \cup Reads(i) : r = Col(s)
  <2>1. CASE r \in Writes(j)
    BY <1>2, <2>1 DEF Writes, Range
  <2>2. CASE r \in Reads(j)
    BY <1>2, <2>2 DEF Reads, Range
  <2> QED
    BY <1>4, <2>1, <2>2
<1>5. Writes(i) \cup Reads(i) \subseteq Regs
  BY <1>3 DEF Writes, Reads, Range
<1>6. \A r \in VReg \cap (Writes(j) \cup Reads(j)) : r < next
  <2> SUFFICES ASSUME NEW r \in VReg \cap (Writes(j) \cup Reads(j)) PROVE r < next
    OBVIOUS
  <2>1. PICK s \in Writes(i) \cup Reads(i) : r = Col(s)
    BY <1>4
  <2>2. s \notin DOMAIN map
    BY <2>1, ColFacts, RegFacts
  <2> QED
    BY <1>1, <2>1, <2>2 DEF Col
<1>7. ASSUME NEW s \in Seq(Regs), NEW t \in Seq(Regs), Len(t) = Len(s), DOMAIN t = DOMAIN s,
             \A k \in DOMAIN s : t[k] = Col(s[k]), s \in Seq(MReg)
      PROVE  t \in Seq(MReg)
  <2>1. /\ Len(s) \in Nat /\ DOMAIN s = 1..Len(s) /\ \A k \in 1..Len(s) : s[k] \in MReg
        /\ t = [k \in DOMAIN t |-> t[k]]
    BY <1>7
  <2>2. \A k \in 1..Len(s) : t[k] \in MReg
    BY <1>7, <2>1, ColFacts
  <2> QED
    BY <1>7, <2>1, <2>2, IsSeq
<1>8. i.op = "call" => j.dst \in Seq(MReg) /\ j.src \in Seq(MReg)
  BY <1>1, <1>2, <1>3, <1>7 DEF Shaped
<1>9. i.op = "erased" => j.dst = <<>> /\ j.src = <<>>
  <2>1. i.op = "erased" => Len(j.dst) = 0 /\ Len(j.src) = 0
    BY <1>1, <1>2 DEF Shaped
  <2> QED
    BY <1>3, <2>1
<1>10. Shaped(j)
  BY <1>1, <1>2, <1>8, <1>9 DEF Shaped
<1>11. i.op \in {"loadFrom", "storeTo"} => j.imm \in 0..(size - 1) /\ j.imm \notin free
  BY <1>2 DEF Fits
<1>12. j \in Fits(next, size, free)
  BY <1>2, <1>6, <1>10, <1>11 DEF Fits
<1> QED
  BY <1>4, <1>12 DEF j

\* The live sets calcInOut ends with.
FlowSolved ==
  /\ liveOut \in [Block -> SUBSET Regs]
  /\ \A b \in Block : \A d \in fn.nexts[b] :
       UseOf(code[d]) \cup (liveOut[d] \ DefOf(code[d])) \subseteq liveOut[b]

(***************************************************************************)
(* The registers of the machine take the place of those of the code.        *)
(***************************************************************************)
LEMMA AssignCode ==
  ASSUME CodeInv, ColourTypes, ColoursApart, conflict = CalcConflictMap,
         VRegsOf(conflict) \subseteq DOMAIN map, FlowSolved, Assign
  PROVE  /\ CodeInv'
         /\ \A b \in Block : \A k \in DOMAIN code'[b] :
              Writes(code'[b][k]) \cup Reads(code'[b][k]) \subseteq MReg
         /\ \A m : Certifies(m, code, TRUE) => \E m2 : Certifies(m2, code', TRUE)
<1> DEFINE T == Fits(nextId, slots, Taken)
           L(b) == Len(code[b])
           Good(b, f) == /\ LivesIn(code[b], liveOut[b], f)
                         /\ \A k \in DOMAIN code[b] :
                              f[k] \cup Writes(code[b][k]) \cup Reads(code[b][k]) \in LiveAtInst(b)
           F == [b \in Block |-> CHOOSE f : Good(b, f)]
<1>1. /\ code \in [Block -> Seq(T)] /\ fn \in Functions
      /\ \A i \in T : i \in Instr /\ Shaped(i)
  BY DEF CodeInv, Fits
<1>2. \A b \in Block : /\ code[b] \in Seq(T) /\ code[b] \in Seq(Instr)
                       /\ L(b) \in Nat /\ DOMAIN code[b] = 1..L(b)
                       /\ \A k \in 1..L(b) : code[b][k] \in T /\ code[b][k] \in Instr /\ Shaped(code[b][k])
  BY <1>1
<1>3. \A b \in Block : liveOut[b] \in SUBSET Regs
  BY DEF FlowSolved
<1>4. \A b \in Block : Good(b, F[b])
  <2> SUFFICES ASSUME NEW b \in Block PROVE Good(b, F[b])
    OBVIOUS
  <2>1. \E f : Good(b, f)
    BY <1>2, <1>3, LiveBetween
  <2> HIDE DEF Good
  <2> QED
    BY <2>1
<1> HIDE DEF F
<1>5. ASSUME NEW b \in Block
      PROVE  /\ F[b] \in [0..L(b) -> SUBSET Regs] /\ F[b][L(b)] = liveOut[b]
             /\ \A k \in 1..L(b) : F[b][k - 1] = (F[b][k] \ Writes(code[b][k])) \cup Reads(code[b][k])
             /\ \A k \in 1..L(b) :
                  F[b][k] \cup Writes(code[b][k]) \cup Reads(code[b][k]) \in LiveAtInst(b)
             /\ F[b][0] \subseteq UseOf(code[b]) \cup (liveOut[b] \ DefOf(code[b]))
  <2>1. F[b][0] \subseteq UseOf(code[b]) \cup (liveOut[b] \ DefOf(code[b]))
    BY <1>2, <1>4, LiveAtStart
  <2> QED
    BY <1>2, <1>4, <2>1 DEF LivesIn
<1>6. ASSUME NEW b \in Block
      PROVE  /\ code'[b] \in Seq(T) /\ Len(code'[b]) = L(b) /\ DOMAIN code'[b] = 1..L(b)
             /\ \A k \in 1..L(b) : code'[b][k] = Recoloured(code[b][k])
  <2>1. code'[b] = [k \in DOMAIN code[b] |-> Recoloured(code[b][k])]
    BY DEF Assign, Recoloured
  <2>2. /\ DOMAIN code'[b] = 1..L(b) /\ \A k \in 1..L(b) : code'[b][k] = Recoloured(code[b][k])
        /\ code'[b] = [k \in DOMAIN code'[b] |-> code'[b][k]]
    BY <1>2, <2>1
  <2>3. \A k \in 1..L(b) : code'[b][k] \in T
    BY <1>2, <2>2, ColFits
  <2>4. code'[b] \in Seq(T) /\ Len(code'[b]) = L(b)
    BY <1>2, <2>2, <2>3, IsSeq
  <2> QED
    BY <2>2, <2>4
<1>7. CodeInv'
  <2>1. code' \in [Block -> Seq(T)]
    BY <1>6 DEF Assign
  <2>2. UNCHANGED <<fn, nextId, slots, spilled>>
    BY DEF Assign, colourVars
  <2>3. Fits(nextId, slots, Taken)' = T
    BY <2>2 DEF Fits, Taken
  <2> QED
    BY <2>1, <2>2, <2>3 DEF CodeInv
<1>8. ASSUME NEW b \in Block, NEW k \in 1..L(b)
      PROVE  /\ Writes(code'[b][k]) \cup Reads(code'[b][k]) \subseteq MReg
             /\ \A r, s \in F[b][k] \cup Writes(code[b][k]) \cup Reads(code[b][k]) :
                  r # s => Col(r) # Col(s)
  <2> DEFINE S == F[b][k] \cup Writes(code[b][k]) \cup Reads(code[b][k])
  <2>1. S \subseteq Regs /\ S \in LiveAtInst(b)
    <3>1. F[b][k] \subseteq Regs
      BY <1>2, <1>5
    <3>2. \A i \in Instr : Writes(i) \cup Reads(i) \subseteq Regs
      BY DEF Instr, Writes, Reads, Range
    <3> QED
      BY <1>2, <1>5, <3>1, <3>2
  <2>2. /\ \A r \in S : Col(r) \in MReg
        /\ \A r, s \in S : r # s => Col(r) # Col(s)
    <3> HIDE DEF S
    <3> QED
      BY <2>1, LivesApart
  <2>3. Writes(code'[b][k]) \cup Reads(code'[b][k]) \subseteq MReg
    BY <1>2, <1>6, <2>2, ColFits
  <2> QED
    BY <2>2, <2>3
<1>9. ASSUME NEW m, Certifies(m, code, TRUE) PROVE \E m2 : Certifies(m2, code', TRUE)
  <2> DEFINE P(b) == [k \in 1..(L(b) + 1) |-> Image(m[b][k], F[b][k - 1])]
             m2 == [b \in Block |-> P(b)]
  <2>1. ASSUME NEW b \in Block
        PROVE  /\ m[b] \in [1..(L(b) + 1) -> SUBSET Pairs]
               /\ \A k \in 1..L(b) : /\ Carries(code[b][k], m[b][k], m[b][k + 1])
                                     /\ Finds(code[b][k], m[b][k])
    BY <1>9 DEF Certifies, Annotates
  <2>2. ASSUME NEW b \in Block
        PROVE  /\ DOMAIN m2[b] = 1..(L(b) + 1) /\ m2[b] = [k \in DOMAIN m2[b] |-> m2[b][k]]
               /\ \A k \in 1..(L(b) + 1) : m2[b][k] = Image(m[b][k], F[b][k - 1])
    OBVIOUS
  <2> HIDE DEF m2
  <2>3. ASSUME NEW b \in Block
        PROVE  /\ 1 \in 1..(L(b) + 1) /\ L(b) + 1 \in 1..(L(b) + 1)
               /\ 1 - 1 = 0 /\ (L(b) + 1) - 1 = L(b)
               /\ \A k \in 1..L(b) : k \in 1..(L(b) + 1) /\ k + 1 \in 1..(L(b) + 1) /\ (k + 1) - 1 = k
                                     /\ k \in 0..L(b)
    BY <1>2
  <2>8. ASSUME NEW b \in Block
        PROVE  /\ m2[b][1] = Image(m[b][1], F[b][0])
               /\ m2[b][L(b) + 1] = Image(m[b][L(b) + 1], F[b][L(b)])
               /\ \A k \in 1..L(b) : /\ m2[b][k] = Image(m[b][k], F[b][k - 1])
                                     /\ m2[b][k + 1] = Image(m[b][k + 1], F[b][k])
    <3>1. \A k, n : k \in 1..(L(b) + 1) /\ k - 1 = n => m2[b][k] = Image(m[b][k], F[b][n])
      BY <2>2
    <3> QED
      BY <2>3, <3>1
  <2>4. ASSUME NEW b \in Block PROVE Annotates(code'[b], m2[b])
    <3>1. ASSUME NEW k \in 1..(L(b) + 1) PROVE m2[b][k] \in SUBSET Pairs
      <4>1. m[b][k] \in SUBSET Pairs /\ m2[b][k] = Image(m[b][k], F[b][k - 1])
        BY <2>1, <2>2
      <4> QED
        BY <4>1 DEF Image
    <3>2. m2[b] \in [1..(L(b) + 1) -> SUBSET Pairs]
      BY <2>2, <3>1
    <3>3. ASSUME NEW k \in 1..L(b)
          PROVE  Carries(code'[b][k], m2[b][k], m2[b][k + 1]) /\ Finds(code'[b][k], m2[b][k])
      <4> DEFINE i == code[b][k]
                 A == m[b][k]
                 B == m[b][k + 1]
                 be == F[b][k - 1]
                 af == F[b][k]
      <4>1. i \in Instr /\ Shaped(i)
        BY <1>2
      <4>2. A \in SUBSET Pairs /\ B \in SUBSET Pairs /\ Carries(i, A, B) /\ Finds(i, A)
        BY <2>1, <2>3
      <4>3. af \in SUBSET Regs /\ be = (af \ Writes(i)) \cup Reads(i)
        BY <1>5, <2>3
      <4>4. \A r, s \in af \cup Writes(i) \cup Reads(i) : r # s => Col(r) # Col(s)
        BY <1>8
      <4>5. /\ m2[b][k] = Image(A, be) /\ m2[b][k + 1] = Image(B, af)
            /\ code'[b][k] = Recoloured(i)
        BY <1>6, <2>8
      <4> HIDE DEF i, A, B, be, af
      <4> QED
        BY <4>1, <4>2, <4>3, <4>4, <4>5, AssignInst
    <3> QED
      BY <1>6, <3>2, <3>3 DEF Annotates
  <2>5. \A x \in m2[1][1] : \E r \in MReg : x = <<InReg(r), r>>
    <3> SUFFICES ASSUME NEW x \in m2[1][1] PROVE \E r \in MReg : x = <<InReg(r), r>>
      OBVIOUS
    <3>1. 1 \in Block /\ m2[1][1] = Image(m[1][1], F[1][0]) /\ m[1][1] \in SUBSET Pairs
      BY <1>1, <2>1, <2>3, <2>8, FnFacts
    <3>2. \A y \in m[1][1] : \E r \in MReg : y = <<InReg(r), r>>
      BY <1>9 DEF Certifies
    <3>3. m2[1][1] \in SUBSET Pairs
      BY <3>1, ImageFacts
    <3>4. x = <<x[1], x[2]>>
      BY <3>3, PlaceFacts
    <3>5. CASE <<x[1], x[2]>> \in m[1][1] /\ \A r \in Regs : x[1] # InReg(r)
      <4>1. PICK r \in MReg : <<x[1], x[2]>> = <<InReg(r), r>>
        BY <3>2, <3>5
      <4> QED
        BY <3>5, <4>1, RegFacts
    <3>6. ASSUME NEW r \in Regs, x[1] = InReg(Col(r)), <<InReg(r), x[2]>> \in m[1][1]
          PROVE  \E s \in MReg : x = <<InReg(s), s>>
      <4>1. PICK s \in MReg : <<InReg(r), x[2]>> = <<InReg(s), s>>
        BY <3>2, <3>6
      <4>2. r = s /\ x[2] = s
        BY <4>1, PlaceFacts
      <4>3. Col(s) = s
        BY ColFacts
      <4> QED
        BY <3>4, <3>6, <4>2, <4>3
    <3>7. <<x[1], x[2]>> \in Image(m[1][1], F[1][0])
      BY <3>1, <3>4
    <3>8. \A A \in SUBSET Pairs : \A live, p, u : <<p, u>> \in Image(A, live) =>
             \/ <<p, u>> \in A /\ \A r \in Regs : p # InReg(r)
             \/ \E r \in Regs : p = InReg(Col(r)) /\ <<InReg(r), u>> \in A
      BY ImageFacts
    <3>9. \/ <<x[1], x[2]>> \in m[1][1] /\ \A r \in Regs : x[1] # InReg(r)
          \/ \E r \in Regs : x[1] = InReg(Col(r)) /\ <<InReg(r), x[2]>> \in m[1][1]
      <4> DEFINE A == m[1][1]
                 la == F[1][0]
                 z == x[1]
                 u == x[2]
      <4>1. A \in SUBSET Pairs /\ <<z, u>> \in Image(A, la)
        BY <3>1, <3>7
      <4> HIDE DEF A, la, z, u
      <4>2. \/ <<z, u>> \in A /\ \A r \in Regs : z # InReg(r)
            \/ \E r \in Regs : z = InReg(Col(r)) /\ <<InReg(r), u>> \in A
        BY <3>8, <4>1
      <4> QED
        BY <4>2 DEF A, la, z, u
    <3> QED
      BY <3>5, <3>6, <3>9
  <2>6. ASSUME NEW b \in Block, NEW d \in fn.nexts[b]
        PROVE  m2[d][1] \subseteq m2[b][Len(code'[b]) + 1]
    <3>1. d \in Block
      BY <1>1, FnFacts
    <3> DEFINE A == m[d][1]
               B == m[b][L(b) + 1]
               la == F[d][0]
               lb == F[b][L(b)]
    <3>2. A \subseteq B /\ A \in SUBSET Pairs /\ B \in SUBSET Pairs
      BY <1>9, <2>1, <2>3, <3>1 DEF Certifies
    <3>3. la \subseteq lb
      BY <1>5, <3>1 DEF FlowSolved
    <3>4. m2[d][1] = Image(A, la) /\ m2[b][L(b) + 1] = Image(B, lb)
      BY <2>8, <3>1
    <3>5. Image(A, la) \subseteq Image(B, lb)
      <4> HIDE DEF A, B, la, lb
      <4> QED
        BY <3>2, <3>3 DEF Image
    <3> QED
      BY <1>6, <3>4, <3>5
  <2>7. ASSUME NEW b \in Block, Returning(b)
        PROVE  /\ <<InReg(a0), a0>> \in m2[b][Len(code'[b]) + 1]
               /\ <<Settled, a0>> \in m2[b][Len(code'[b]) + 1]
    <3> DEFINE A == m[b][L(b) + 1]
               la == F[b][L(b)]
    <3>1. <<InReg(a0), a0>> \in A /\ <<Settled, a0>> \in A
      BY <1>9, <2>7 DEF Certifies
    <3>2. A \in SUBSET Pairs /\ m2[b][Len(code'[b]) + 1] = Image(A, la)
      BY <1>6, <2>1, <2>3, <2>8
    <3>3. a0 \in Regs /\ Col(a0) = a0
      BY RegFacts, ColFacts
    <3> HIDE DEF A, la
    <3>4. <<InReg(a0), a0>> \in Image(A, la)
      BY <3>1, <3>2, <3>3, ImageFacts
    <3>5. \A r \in Regs : Settled # InReg(r)
      BY PlaceFacts
    <3>6. <<Settled, a0>> \in Image(A, la)
      BY <3>1, <3>2, <3>5, ImageFacts
    <3> QED
      BY <3>2, <3>4, <3>6
  <2> QED
    BY <2>4, <2>5, <2>6, <2>7 DEF Certifies
<1>10. \A b \in Block : \A k \in DOMAIN code'[b] :
          Writes(code'[b][k]) \cup Reads(code'[b][k]) \subseteq MReg
  BY <1>6, <1>8
<1>11. \A m : Certifies(m, code, TRUE) => \E m2 : Certifies(m2, code', TRUE)
  BY <1>9
<1> QED
  BY <1>7, <1>10, <1>11

-----------------------------------------------------------------------------
(* The code runs. *)

\* No register with the address of a local was spilled, as run
\* code_run_wrong spills one.
AddressesKept ==
  \A b \in Block : \A k \in DOMAIN code[b] : code[b][k].op = "lea" => code[b][k].imm = -1

Held(A) ==
  /\ \A r \in MReg : \A u : <<InReg(r), u>> \in A => u \in holds[r]
  /\ \A n \in Slot : \A u : <<InSlot(n), u>> \in A => u \in holds[n]

RunInv ==
  /\ at \in Block \X (Nat \ {0}) /\ at[2] <= Len(code[at[1]]) + 1
  /\ DOMAIN holds = MReg \cup Slot
  /\ \A b \in Block : \A k \in DOMAIN code[b] : Writes(code[b][k]) \cup Reads(code[b][k]) \subseteq MReg
  /\ \E m : Certifies(m, code, TRUE) /\ (AddressesKept => Held(m[at[1]][at[2]]))

LEMMA RunFacts ==
  ASSUME CodeInv, NEW b \in Block
  PROVE  /\ Len(code[b]) \in Nat /\ DOMAIN code[b] = 1..Len(code[b])
         /\ \A k \in 1..Len(code[b]) :
              /\ code[b][k] \in Instr /\ Shaped(code[b][k])
              /\ code[b][k].op \in {"loadFrom", "storeTo"} => code[b][k].imm \in Slot
  <1> DEFINE T == Fits(nextId, slots, Taken)
  <1>1. code[b] \in Seq(T) /\ slots \in 0..MaxSlots
    BY DEF CodeInv
  <1>2. \A i \in T : /\ i \in Instr /\ Shaped(i)
                     /\ i.op \in {"loadFrom", "storeTo"} => i.imm \in 0..(slots - 1)
    BY DEF Fits
  <1>3. 0..(slots - 1) \subseteq Slot
    BY <1>1, SlotsAssumption DEF Slot
  <1> HIDE DEF T
  <1> QED
    BY <1>1, <1>2, <1>3

LEMMA RenewedHas ==
  ASSUME NEW A, NEW l \in DOMAIN holds, NEW p, NEW u, Current \in Instr, StillIn(Current, A, p, u),
         \A w : <<p, w>> \in A => w \in holds[l]
  PROVE  u \in Renewed[l]
<1> DEFINE i == Current
           kept == [x \in DOMAIN holds |-> holds[x] \ Range(i.def)]
<1>1. /\ \A x \in DOMAIN holds : kept[x] = holds[x] \ Range(i.def)
      /\ Renewed = IF i.op \notin {"mv", "erased"} THEN kept
                   ELSE [x \in DOMAIN holds |->
                           IF i.use[1] \in holds[x] THEN holds[x] \cup Range(i.def) ELSE kept[x]]
  BY DEF Renewed
<1> HIDE DEF kept, i
<1>2. Renewed[l] = IF i.op \notin {"mv", "erased"} THEN holds[l] \ Range(i.def)
                   ELSE IF i.use[1] \in holds[l] THEN holds[l] \cup Range(i.def)
                                                 ELSE holds[l] \ Range(i.def)
  BY <1>1
<1>3. \/ u \in holds[l] /\ u \notin Range(i.def)
      \/ i.op \in {"mv", "erased"} /\ i.use[1] \in holds[l] /\ u \in Range(i.def)
  BY DEF StillIn, i
<1> QED
  BY <1>2, <1>3

(***************************************************************************)
(* An instruction leaves in the machine what its certificate says.          *)
(***************************************************************************)
LEMMA ExecuteHolds ==
  ASSUME CodeInv, RunInv, phase = "run", Execute
  PROVE  RunInv'
<1> DEFINE b == at[1]
           k == at[2]
           i == Current
<1>1. /\ b \in Block /\ k \in 1..Len(code[b]) /\ Len(code[b]) \in Nat
      /\ i = code[b][k] /\ DOMAIN code[b] = 1..Len(code[b])
      /\ at = <<b, k>> /\ at' = <<b, k + 1>>
  <2>1. b \in Block /\ k \in Nat \ {0} /\ k <= Len(code[b]) /\ at = <<b, k>>
    BY DEF RunInv, Execute, Running
  <2>2. at' = <<b, k + 1>>
    BY <2>1 DEF Execute
  <2> QED
    BY <2>1, <2>2, RunFacts DEF Current
<1>2. UNCHANGED <<fn, code>>
  BY DEF Execute
<1>3. /\ i \in Instr /\ Shaped(i)
      /\ i.op \in {"loadFrom", "storeTo"} => i.imm \in Slot
  BY <1>1, RunFacts
<1>4. PICK m : Certifies(m, code, TRUE) /\ (AddressesKept => Held(m[b][k]))
  BY DEF RunInv
<1> DEFINE A == m[b][k]
           B == m[b][k + 1]
<1>5. Carries(i, A, B)
  BY <1>1, <1>4 DEF Certifies, Annotates
<1>6. /\ \A r \in Writes(i) \cup Reads(i) : r \in MReg
      /\ DOMAIN holds = MReg \cup Slot
      /\ \A r \in MReg, n \in Slot : r # n
  BY <1>1, SlotsAssumption, RegFacts DEF RunInv, Slot
<1>7. /\ \A n \in DOMAIN i.dst : i.dst[n] \in Writes(i)
      /\ \A n \in DOMAIN i.src : i.src[n] \in Reads(i)
      /\ i.op \in {"mv", "storeTo"} => 1 \in DOMAIN i.src
  <2>1. i.src \in Seq(Regs)
    BY <1>3 DEF Instr
  <2> QED
    BY <1>3, <2>1 DEF Shaped, Writes, Reads, Range
<1>8. /\ DOMAIN holds' = DOMAIN holds
      /\ \A l \in DOMAIN holds :
           holds'[l] = IF i.op = "storeTo" /\ l = i.imm THEN holds[i.src[1]]
                       ELSE IF l \in Writes(i)
                       THEN UNION {Result(n) : n \in {n \in DOMAIN i.dst : i.dst[n] = l}}
                       ELSE Renewed[l]
  BY DEF Execute
<1>9. AddressesKept' = AddressesKept
  BY <1>2 DEF AddressesKept
<1>10. ASSUME AddressesKept
       PROVE  /\ \A r \in MReg : \A u : <<InReg(r), u>> \in B => u \in holds'[r]
              /\ \A n \in Slot : \A u : <<InSlot(n), u>> \in B => u \in holds'[n]
  <2>1. /\ \A r \in MReg : \A u : <<InReg(r), u>> \in A => u \in holds[r]
        /\ \A n \in Slot : \A u : <<InSlot(n), u>> \in A => u \in holds[n]
    BY <1>4, <1>10 DEF Held
  <2>2. i.op = "lea" => i.imm = -1
    BY <1>1, <1>10 DEF AddressesKept
  <2>3. ASSUME NEW n \in DOMAIN i.dst, NEW u, PutsIn(i, A, n, u) PROVE u \in Result(n)
    <3>1. CASE i.op = "loadFrom"
      <4>1. u \in holds[i.imm]
        BY <1>3, <2>1, <2>3, <3>1 DEF PutsIn
      <4> QED
        BY <3>1, <4>1 DEF Result
    <3>2. CASE i.op = "mv"
      <4>1. i.src[1] \in MReg /\ StillIn(i, A, InReg(i.src[1]), u)
        BY <1>6, <1>7, <2>3, <3>2 DEF PutsIn
      <4>2. u \in Renewed[i.src[1]]
        BY <1>3, <1>6, <2>1, <4>1, RenewedHas
      <4> QED
        BY <3>2, <4>2 DEF Result
    <3>3. CASE i.op \notin {"loadFrom", "mv"}
      <4>1. u = i.def[n]
        BY <2>3, <3>3 DEF PutsIn
      <4> QED
        BY <2>2, <3>3, <4>1 DEF Result
    <3> QED
      BY <3>1, <3>2, <3>3
  <2>4. ASSUME NEW r \in MReg, NEW u, <<InReg(r), u>> \in B PROVE u \in holds'[r]
    <3>1. Leaves(i, A, InReg(r), u)
      BY <1>5, <2>4 DEF Carries
    <3>2. ~(i.op = "storeTo" /\ r = i.imm)
      BY <1>3, <1>6
    <3>3. CASE \E n \in DOMAIN i.dst : InReg(r) = InReg(i.dst[n]) /\ PutsIn(i, A, n, u)
      <4>1. PICK n \in DOMAIN i.dst : r = i.dst[n] /\ PutsIn(i, A, n, u)
        BY <3>3, PlaceFacts
      <4>2. u \in Result(n) /\ r \in Writes(i) /\ n \in {x \in DOMAIN i.dst : i.dst[x] = r}
        BY <1>7, <2>3, <4>1
      <4>3. holds'[r] = UNION {Result(x) : x \in {x \in DOMAIN i.dst : i.dst[x] = r}}
        BY <1>6, <1>8, <3>2, <4>2
      <4> HIDE DEF i
      <4> QED
        BY <4>2, <4>3
    <3>4. CASE Spared(i, InReg(r)) /\ StillIn(i, A, InReg(r), u)
      <4>1. r \notin Writes(i)
        BY <3>4 DEF Spared, Writes, Range
      <4>2. u \in Renewed[r]
        BY <1>3, <1>6, <2>1, <3>4, RenewedHas
      <4> QED
        BY <1>6, <1>8, <3>2, <4>1, <4>2
    <3> QED
      BY <3>1, <3>3, <3>4, PlaceFacts DEF Leaves, Saves
  <2>5. ASSUME NEW n \in Slot, NEW u, <<InSlot(n), u>> \in B PROVE u \in holds'[n]
    <3>1. Leaves(i, A, InSlot(n), u)
      BY <1>5, <2>5 DEF Carries
    <3>2. CASE Saves(i, InSlot(n)) /\ <<InReg(i.src[1]), u>> \in A
      <4>1. i.op = "storeTo" /\ n = i.imm
        BY <3>2, PlaceFacts DEF Saves
      <4>2. i.src[1] \in MReg
        BY <1>6, <1>7, <4>1
      <4> QED
        BY <1>6, <1>8, <2>1, <3>2, <4>1, <4>2
    <3>3. CASE Spared(i, InSlot(n)) /\ StillIn(i, A, InSlot(n), u)
      <4>1. ~(i.op = "storeTo" /\ n = i.imm) /\ n \notin Writes(i)
        BY <1>6, <3>3 DEF Spared, Saves
      <4>2. u \in Renewed[n]
        BY <1>3, <1>6, <2>1, <3>3, RenewedHas
      <4> QED
        BY <1>6, <1>8, <4>1, <4>2
    <3> QED
      BY <3>1, <3>2, <3>3, PlaceFacts DEF Leaves
  <2> QED
    BY <2>4, <2>5
<1>11. Certifies(m, code, TRUE)'
  BY <1>2, <1>4 DEF Certifies, Returning, ReturnsAtOnce, Directly, Echo
<1>14. AddressesKept' => Held(m[at[1]][at[2]])'
  <2>1. m[at'[1]][at'[2]] = B
    BY <1>1
  <2> QED
    BY <1>9, <1>10, <2>1 DEF Held, Slot
<1>12. at' \in Block \X (Nat \ {0}) /\ at'[2] <= Len(code'[at'[1]]) + 1
  BY <1>1, <1>2
<1>13. /\ DOMAIN holds' = MReg \cup Slot
       /\ \A x \in Block : \A n \in DOMAIN code'[x] :
            Writes(code'[x][n]) \cup Reads(code'[x][n]) \subseteq MReg
  BY <1>2, <1>8 DEF RunInv
<1> QED
  BY <1>11, <1>12, <1>13, <1>14 DEF RunInv, Slot

\* A branch takes the machine to where what is needed is less.
LEMMA BranchHolds ==
  ASSUME CodeInv, RunInv, NEW c \in Block, Branch(c)
  PROVE  RunInv'
<1>1. UNCHANGED <<fn, code, holds>> /\ at' = <<c, 1>> /\ c \in fn.nexts[at[1]]
  BY DEF Branch
<1>2. at[1] \in Block /\ at[2] \in Nat /\ Len(code[at[1]]) \in Nat /\ Len(code[c]) \in Nat
  BY RunFacts DEF RunInv
<1>3. at[2] = Len(code[at[1]]) + 1
  BY <1>2 DEF RunInv, Branch
<1>4. PICK m : Certifies(m, code, TRUE) /\ (AddressesKept => Held(m[at[1]][at[2]]))
  BY DEF RunInv
<1>5. m[c][1] \subseteq m[at[1]][at[2]]
  BY <1>1, <1>2, <1>3, <1>4 DEF Certifies
<1>6. AddressesKept' => Held(m[c][1])'
  <2>1. AddressesKept' = AddressesKept
    BY <1>1 DEF AddressesKept
  <2> QED
    BY <1>1, <1>4, <1>5, <2>1 DEF Held, Slot
<1>7. Certifies(m, code, TRUE)'
  BY <1>1, <1>4 DEF Certifies, Returning, ReturnsAtOnce, Directly, Echo
<1>8. at' \in Block \X (Nat \ {0}) /\ at'[2] <= Len(code'[at'[1]]) + 1
  BY <1>1, <1>2
<1> QED
  BY <1>1, <1>6, <1>7, <1>8 DEF RunInv, Slot

\* What the certificate says of an operand is what the machine finds.
OperandsFound ==
  Running /\ Current.op # "erased" =>
    \A k \in DOMAIN Current.use : /\ Current.src[k] \in DOMAIN holds
                                  /\ Current.use[k] \in holds[Current.src[k]]

LEMMA RunFinds ==
  ASSUME CodeInv, phase = "run" => RunInv, AddressesKept
  PROVE  OperandsFound /\ (ReturnsAtOnce => ReturnSurvives)
<1> SUFFICES ASSUME phase = "run" PROVE OperandsFound /\ (ReturnsAtOnce => ReturnSurvives)
  BY DEF OperandsFound, ReturnSurvives, Running, Ended
<1> DEFINE b == at[1]
           k == at[2]
<1>1. PICK m : Certifies(m, code, TRUE) /\ Held(m[b][k])
  BY DEF RunInv
<1>2. b \in Block /\ k \in Nat \ {0} /\ k <= Len(code[b]) + 1 /\ Len(code[b]) \in Nat
      /\ DOMAIN holds = MReg \cup Slot
  BY RunFacts DEF RunInv
<1>3. OperandsFound
  <2> SUFFICES ASSUME Running, Current.op # "erased", NEW n \in DOMAIN Current.use
               PROVE  /\ Current.src[n] \in DOMAIN holds
                      /\ Current.use[n] \in holds[Current.src[n]]
    BY DEF OperandsFound
  <2>1. k \in 1..Len(code[b]) /\ Current = code[b][k] /\ k \in DOMAIN code[b]
    BY <1>2, RunFacts DEF Running, Current
  <2>2. Finds(Current, m[b][k])
    BY <1>1, <1>2, <2>1 DEF Certifies, Annotates
  <2>3. n \in DOMAIN Current.src /\ <<InReg(Current.src[n]), Current.use[n]>> \in m[b][k]
    BY <2>2 DEF Finds
  <2>4. Current.src[n] \in MReg
    BY <1>2, <2>1, <2>3 DEF RunInv, Reads, Range
  <2> QED
    BY <1>1, <1>2, <2>3, <2>4 DEF Held
<1>4. ASSUME ReturnsAtOnce, Ended, fn.returns PROVE iRegs[1] \in holds[iRegs[1]]
  <2>1. Returning(b) /\ k = Len(code[b]) + 1
    BY <1>2, <1>4 DEF Returning, Ended
  <2>2. <<InReg(a0), a0>> \in m[b][k]
    BY <1>1, <1>2, <2>1 DEF Certifies
  <2> QED
    BY <1>1, <2>2, RegFacts DEF Held, a0
<1> QED
  BY <1>3, <1>4 DEF ReturnSurvives

-----------------------------------------------------------------------------
(* calcInOut, as LivenessProofs knows it. *)

AllInfos == [nexts : [Block -> SUBSET Block], use : [Block -> SUBSET Regs], def : [Block -> SUBSET Regs]]

LP == INSTANCE LivenessProofs WITH Reg <- Regs, Funcs <- AllInfos, fun <- infos

InfosOfCode ==
  [nexts |-> fn.nexts, use |-> [b \in Block |-> BlockUse(b)], def |-> [b \in Block |-> BlockDef(b)]]

LEMMA LiveAssumptions ==
  LP!NAssumption /\ LP!RegAssumption /\ LP!FuncsAssumption
<1>1. LP!NAssumption
  BY RegFacts DEF LP!NAssumption
<1>2. IsFiniteSet(Regs)
  <2>1. IsFiniteSet(VReg)
    BY RegFacts, FS_Interval DEF VReg
  <2>2. IsFiniteSet(Range(iRegs))
    <3> DEFINE n == Len(iRegs)
    <3>1. n \in Nat /\ DOMAIN iRegs = 1..n
      BY RegsAssumption
    <3>2. IsFiniteSet(1..n)
      BY <3>1, FS_Interval
    <3>3. iRegs \in [1..n -> Range(iRegs)] /\ \A r \in Range(iRegs) : \E k \in 1..n : iRegs[k] = r
      <4>1. iRegs = [k \in 1..n |-> iRegs[k]]
        BY RegsAssumption
      <4> QED
        BY <3>1, <4>1 DEF Range
    <3>4. iRegs \in Surjection(1..n, Range(iRegs))
      BY <3>3 DEF Surjection
    <3> QED
      BY <3>2, <3>4, FS_Surjection
  <2>3. IsFiniteSet({zero})
    BY FS_Singleton
  <2>4. IsFiniteSet(MReg)
    BY <2>2, <2>3, FS_Union DEF MReg
  <2> QED
    BY <2>1, <2>4, FS_Union DEF Regs
<1>3. LP!RegAssumption
  BY <1>2 DEF LP!RegAssumption, IsFiniteSet, LP!IsFiniteSet
<1>4. LP!FuncsAssumption
  BY DEF LP!FuncsAssumption, AllInfos, LP!Block, Block
<1> QED
  BY <1>1, <1>3, <1>4

LEMMA InfosType ==
  ASSUME CodeInv
  PROVE  InfosOfCode \in AllInfos
<1>1. fn.nexts \in [Block -> SUBSET Block]
  BY FnFacts DEF CodeInv
<1>2. ASSUME NEW b \in Block PROVE BlockUse(b) \subseteq Regs /\ BlockDef(b) \subseteq Regs
  <2>1. \A k \in DOMAIN code[b] : code[b][k] \in Instr
    BY <1>2, RunFacts
  <2>2. \A i \in Instr : Writes(i) \subseteq Regs
    BY DEF Instr, Writes, Range
  <2> QED
    BY <2>1, <2>2 DEF BlockUse, BlockDef, UseOf, DefOf
<1> QED
  BY <1>1, <1>2 DEF InfosOfCode, AllInfos

LEMMA LiveStarts ==
  ASSUME CodeInv, StartRound
  PROVE  LP!LiveInv' /\ infos' = InfosOfCode'
<1>1. infos' = InfosOfCode /\ UNCHANGED <<fn, code>>
  BY DEF StartRound, InfosOfCode
<1>2. infos' = InfosOfCode'
  BY <1>1 DEF InfosOfCode, BlockUse, BlockDef
<1>3. infos' \in AllInfos
  BY <1>1, InfosType
<1>4. /\ liveIn' = [b \in Block |-> {}] /\ liveOut' = [b \in Block |-> {}]
      /\ cur' = N /\ changed' = FALSE /\ stopped' = FALSE
  BY DEF StartRound
<1>5. LP!Init'
  BY <1>3, <1>4 DEF LP!Init, LP!Block, Block
<1>6. LP!Init' => LP!LiveInv'
  BY LP!LiveInit, LiveAssumptions, PTL
<1> QED
  BY <1>2, <1>5, <1>6

LEMMA LiveSweeps ==
  ASSUME LP!LiveInv, Live!SweepBlock \/ Live!SweepEnd
  PROVE  LP!LiveInv'
<1>1. \A S : Live!Cardinality(S) = LP!Cardinality(S)
  BY DEF Live!Cardinality, LP!Cardinality
<1>2. LP!SweepBlock \/ LP!SweepEnd
  <2>1. /\ \A b : Live!CalcIn(b) = LP!CalcIn(b)
        /\ \A b, ins : Live!CalcOut(b, ins) = LP!CalcOut(b, ins)
        /\ \A in, out, b : Live!SizeOfInOut(in, out, b) = LP!SizeOfInOut(in, out, b)
    BY <1>1 DEF Live!CalcIn, LP!CalcIn, Live!CalcOut, LP!CalcOut, Live!SizeOfInOut, LP!SizeOfInOut
  <2>2. CASE Live!SweepBlock
    BY <2>1, <2>2 DEF Live!SweepBlock, LP!SweepBlock
  <2>3. CASE Live!SweepEnd
    BY <2>3 DEF Live!SweepEnd, LP!SweepEnd
  <2> QED
    BY <2>2, <2>3
<1> QED
  BY <1>2, LP!LiveStep, LiveAssumptions DEF LP!Next

-----------------------------------------------------------------------------
(***************************************************************************)
(* solveSpill never gives one colour to two registers in conflict.  It      *)
(* looks at the neighbours of the register it colours and at no one         *)
(* else's, so that is only true because the conflicts go both ways and stay *)
(* so while registers are spilled out of the map.                           *)
(***************************************************************************)

\* conflictMap relates registers of the map, both ways, and none to itself.
BothWays ==
  \A r \in DOMAIN conflict : \A s \in conflict[r] :
    s \in DOMAIN conflict /\ s # r /\ r \in conflict[s]

ColourInv == BothWays /\ ColoursApart

\* What lives together is in conflict both ways.
LEMMA TogetherBothWays ==
  ASSUME NEW lives, NEW F, F = [r \in UNION lives |-> (UNION {l \in lives : r \in l}) \ {r}]
  PROVE  \A r \in DOMAIN F : \A s \in F[r] : s \in DOMAIN F /\ s # r /\ r \in F[s]
<1> DEFINE With(r) == UNION {l \in lives : r \in l}
<1>1. DOMAIN F = UNION lives /\ \A r \in UNION lives : F[r] = With(r) \ {r}
  OBVIOUS
<1>2. \A r, s : s \in With(r) <=> \E l \in lives : r \in l /\ s \in l
  OBVIOUS
<1> HIDE DEF With
<1>3. SUFFICES ASSUME NEW r \in UNION lives, NEW s \in With(r), s # r
               PROVE  s \in UNION lives /\ r \in With(s)
  BY <1>1
<1>4. PICK l \in lives : r \in l /\ s \in l
  BY <1>2, <1>3
<1> QED BY <1>2, <1>4

LEMMA StartKeeps ==
  ASSUME StartColouring
  PROVE  ColourInv'
<1>1. conflict' = CalcConflictMap /\ map' = <<>>
  BY DEF StartColouring
<1>2. BothWays'
  <2>1. PICK lives :
          CalcConflictMap = [r \in UNION lives |-> (UNION {l \in lives : r \in l}) \ {r}]
    BY DEF CalcConflictMap
  <2>2. \A r \in DOMAIN conflict' : \A s \in conflict'[r] :
          s \in DOMAIN conflict' /\ s # r /\ r \in conflict'[s]
    <3>1. conflict' = [r \in UNION lives |-> (UNION {l \in lives : r \in l}) \ {r}]
      BY <1>1, <2>1
    <3> HIDE DEF CalcConflictMap
    <3> QED BY <3>1, TogetherBothWays
  <2> QED BY <2>2 DEF BothWays
<1>3. ColoursApart'
  BY <1>1 DEF ColoursApart
<1> QED BY <1>2, <1>3 DEF ColourInv

\* The colour is not one a neighbour has or is.
LEMMA ColourKeeps ==
  ASSUME ColourInv, NEW v \in todo, NEW k \in DOMAIN iRegs, Colour(v, k)
  PROVE  ColourInv'
<1>1. conflict' = conflict /\ k \in Free(v)
  BY DEF Colour
<1>2. map' = [u \in DOMAIN map \cup {v} |-> IF u = v THEN iRegs[k] ELSE map[u]]
  BY DEF Colour
<1>3. BothWays'
  BY <1>1 DEF ColourInv, BothWays
<1>4. iRegs[k] \in MReg
  BY DEF MReg, Range
<1>5. iRegs[k] \notin conflict[v]
  BY <1>1, <1>4 DEF Free, UsedRegs
<1>6. \A u \in conflict[v] \cap DOMAIN map : map[u] # iRegs[k]
  BY <1>1 DEF Free, UsedRegs
<1>7. ASSUME NEW w \in DOMAIN map' \cap DOMAIN conflict'
      PROVE  /\ map'[w] \notin conflict'[w]
             /\ \A u \in DOMAIN map' \cap conflict'[w] : map'[u] # map'[w]
  <2>1. CASE w = v
    <3>1. map'[w] = iRegs[k]
      BY <1>2, <2>1
    <3>2. ASSUME NEW u \in DOMAIN map' \cap conflict'[w]
          PROVE  map'[u] # map'[w]
      <4>1. u # v /\ u \in conflict[v]
        BY <1>1, <1>7, <2>1 DEF ColourInv, BothWays
      <4>2. u \in DOMAIN map /\ map'[u] = map[u]
        BY <1>2, <4>1
      <4> QED BY <1>6, <3>1, <4>1, <4>2
    <3> QED BY <1>1, <1>5, <2>1, <3>1, <3>2
  <2>2. CASE w # v
    <3>1. w \in DOMAIN map \cap DOMAIN conflict /\ map'[w] = map[w]
      BY <1>1, <1>2, <1>7, <2>2
    <3>2. map[w] \notin conflict[w] /\ \A u \in DOMAIN map \cap conflict[w] : map[u] # map[w]
      BY <3>1 DEF ColourInv, ColoursApart
    <3>3. ASSUME NEW u \in DOMAIN map' \cap conflict'[w]
          PROVE  map'[u] # map'[w]
      <4>1. u \in conflict[w]
        BY <1>1
      <4>2. CASE u = v
        <5>1. w \in conflict[v]
          BY <3>1, <4>1, <4>2 DEF ColourInv, BothWays
        <5>2. map'[u] = iRegs[k]
          BY <1>2, <4>2
        <5> QED BY <1>6, <3>1, <5>1, <5>2
      <4>3. CASE u # v
        <5>1. u \in DOMAIN map /\ map'[u] = map[u]
          BY <1>2, <4>3
        <5> QED BY <3>1, <3>2, <4>1, <5>1
      <4> QED BY <4>2, <4>3
    <3> QED BY <1>1, <3>1, <3>2, <3>3
  <2> QED BY <2>1, <2>2
<1> QED BY <1>3, <1>7 DEF ColourInv, ColoursApart

\* A register spilled leaves the others in conflict as they were.
LEMMA SpillKeeps ==
  ASSUME ColourInv, NEW v, NEW t, Spill(v, t)
  PROVE  ColourInv'
<1>1. conflict' = [r \in DOMAIN conflict \ {t} |-> conflict[r] \ {t}] /\ map' = map
  BY DEF Spill
<1>2. BothWays'
  BY <1>1 DEF ColourInv, BothWays
<1>3. ColoursApart'
  BY <1>1 DEF ColourInv, ColoursApart
<1> QED BY <1>2, <1>3 DEF ColourInv

LEMMA RestKeeps ==
  ASSUME ColourInv, UNCHANGED <<conflict, map>>
  PROVE  ColourInv'
BY DEF ColourInv, BothWays, ColoursApart

-----------------------------------------------------------------------------
(* The steps of FuncRegAlloc. *)

AllocInv ==
  /\ ColourTypes /\ allocated \subseteq VReg /\ todo \subseteq VReg
  /\ phase \in {"lifespans", "colour", "assign"} => infos = InfosOfCode /\ LP!LiveInv
  /\ phase \in {"colour", "assign"} => stopped
  /\ phase \in {"colour", "assign"} /\ spilled = <<>> =>
       conflict = CalcConflictMap /\ VRegsOf(conflict) \subseteq todo \cup DOMAIN map
  /\ phase = "assign" => spilled = <<>> /\ todo = {}

LEMMA LiveFlows ==
  ASSUME LP!LiveInv, infos = InfosOfCode, stopped, fn \in Functions
  PROVE  FlowSolved
<1>1. \A b \in Block : LP!CalcIn(b) \subseteq liveIn[b] /\ LP!Nexts(b) \subseteq liveOut[b]
  BY DEF LP!LiveInv, LP!SweptSolved, LP!Solved, LP!Block, Block
<1>2. liveOut \in [Block -> SUBSET Regs]
  BY DEF LP!LiveInv, LP!LiveType, LP!TypeOK, LP!Block, Block
<1>3. \A b \in Block : /\ LP!CalcIn(b) = UseOf(code[b]) \cup (liveOut[b] \ DefOf(code[b]))
                       /\ LP!Nexts(b) = UNION {liveIn[d] : d \in fn.nexts[b]}
  BY DEF LP!CalcIn, LP!Nexts, InfosOfCode, BlockUse, BlockDef
<1>4. ASSUME NEW b \in Block, NEW d \in fn.nexts[b]
      PROVE  UseOf(code[d]) \cup (liveOut[d] \ DefOf(code[d])) \subseteq liveOut[b]
  <2>1. d \in Block
    BY FnFacts
  <2>2. liveIn[d] \subseteq liveOut[b]
    BY <1>1, <1>3
  <2> QED
    BY <1>1, <1>3, <2>1, <2>2
<1> QED
  BY <1>2, <1>4 DEF FlowSolved

LEMMA SlotBelow ==
  ASSUME NEW s \in Nat, NEW t \in Nat, t >= s, NEW n \in 0..(s - 1)
  PROVE  n \in 0..(t - 1) /\ n # s
OBVIOUS

\* CodeInv when the code is left alone.
LEMMA CodeKept ==
  ASSUME CodeInv, UNCHANGED <<fn, code, nextId>>,
         DOMAIN spilled' \subseteq VReg, slots' \in slots..MaxSlots,
         \A v \in DOMAIN spilled' : spilled'[v] \in 0..(slots' - 1),
         \A u, v \in DOMAIN spilled' : spilled'[u] = spilled'[v] => u = v,
         Taken' \subseteq Taken \cup {slots}
  PROVE  CodeInv'
<1>1. slots \in Nat /\ slots' \in 0..MaxSlots
  BY SlotsAssumption DEF CodeInv
<1>2. \A i \in Fits(nextId, slots, Taken) : i \in Fits(nextId, slots, Taken)'
  <2> SUFFICES ASSUME NEW i \in Fits(nextId, slots, Taken) PROVE i \in Fits(nextId, slots, Taken)'
    OBVIOUS
  <2>1. i.op \in {"loadFrom", "storeTo"} => i.imm \in 0..(slots' - 1) /\ i.imm \notin Taken'
    <3>1. i.op \in {"loadFrom", "storeTo"} => i.imm \in 0..(slots - 1) /\ i.imm \notin Taken
      BY DEF Fits
    <3>2. slots' >= slots /\ slots' \in Nat
      BY <1>1
    <3>3. \A n \in 0..(slots - 1) : n \in 0..(slots' - 1) /\ n # slots
      BY <1>1, <3>2, SlotBelow
    <3> QED
      BY <3>1, <3>3
  <2> QED
    BY <2>1 DEF Fits
<1>3. code' \in [Block -> Seq(Fits(nextId, slots, Taken)')]
  <2> DEFINE T == Fits(nextId, slots, Taken)
             U == Fits(nextId, slots, Taken)'
  <2>1. code \in [Block -> Seq(T)] /\ T \subseteq U /\ code' = code
    BY <1>2 DEF CodeInv
  <2> HIDE DEF T, U
  <2>2. code \in [Block -> Seq(U)]
    BY <2>1
  <2> QED
    BY <2>1, <2>2 DEF U
<1> QED
  BY <1>1, <1>3 DEF CodeInv

LEMMA CertifiesSame ==
  ASSUME fn' = fn
  PROVE  \A m, done : Certifies(m, code, done)' <=> Certifies(m, code', done)
BY DEF Certifies, Returning, ReturnsAtOnce, Directly, Echo

LEMMA ConflictSame ==
  ASSUME UNCHANGED <<code, liveOut>>
  PROVE  CalcConflictMap' = CalcConflictMap
BY DEF CalcConflictMap, LiveAtInst

LEMMA InfosSame ==
  ASSUME UNCHANGED <<fn, code, liveVars>>
  PROVE  InfosOfCode' = InfosOfCode /\ (LP!LiveInv' <=> LP!LiveInv)
BY DEF InfosOfCode, BlockUse, BlockDef, liveVars, LP!LiveInv, LP!LiveType, LP!TypeOK, LP!Behind,
       LP!NeverTooLive, LP!SweptSolved, LP!Solved, LP!CalcIn, LP!Nexts, LP!LiveAt, LP!LiveAfter,
       LP!ReadClosed

\* What every step of FuncRegAlloc keeps.
AllocKeeps ==
  /\ CodeInv' /\ ColourInv' /\ AllocInv' /\ fn' = fn
  /\ \A m : Certifies(m, code, TRUE) => \E m2 : Certifies(m2, code', TRUE)
  /\ phase' = "run" => \A b \in Block : \A k \in DOMAIN code'[b] :
       Writes(code'[b][k]) \cup Reads(code'[b][k]) \subseteq MReg

LEMMA SpilledSame ==
  ASSUME CodeInv, UNCHANGED <<fn, code, nextId, spilled, slots>>
  PROVE  CodeInv'
<1>1. slots' \in slots..MaxSlots
  BY SlotsAssumption DEF CodeInv
<1>2. Taken' \subseteq Taken \cup {slots}
  BY DEF Taken
<1> QED
  BY <1>1, <1>2, CodeKept DEF CodeInv

LEMMA StartRoundStep ==
  ASSUME CodeInv, ColourInv, AllocInv, StartRound
  PROVE  AllocKeeps
<1>1. UNCHANGED <<fn, order, code, colourVars, nextId>> /\ phase' = "lifespans"
  BY DEF StartRound
<1>2. CodeInv' /\ ColourInv'
  BY <1>1, SpilledSame, RestKeeps DEF colourVars
<1>3. LP!LiveInv' /\ infos' = InfosOfCode'
  BY LiveStarts
<1>4. AllocInv'
  BY <1>1, <1>3 DEF AllocInv, ColourTypes, colourVars
<1> QED
  BY <1>1, <1>2, <1>4 DEF AllocKeeps

LEMMA CalcInOutStep ==
  ASSUME CodeInv, ColourInv, AllocInv, CalcInOut
  PROVE  AllocKeeps
<1>1. UNCHANGED <<fn, order, code, phase, colourVars, nextId>> /\ phase = "lifespans"
  BY DEF CalcInOut
<1>2. CodeInv' /\ ColourInv'
  BY <1>1, SpilledSame, RestKeeps DEF colourVars
<1>3. LP!LiveInv'
  BY <1>1, LiveSweeps DEF AllocInv, CalcInOut
<1>4. infos' = infos
  BY DEF CalcInOut, Live!SweepBlock, Live!SweepEnd
<1>5. infos' = InfosOfCode'
  BY <1>1, <1>4 DEF AllocInv, InfosOfCode, BlockUse, BlockDef
<1>6. AllocInv'
  BY <1>1, <1>3, <1>5 DEF AllocInv, ColourTypes, colourVars
<1> QED
  BY <1>1, <1>2, <1>6 DEF AllocKeeps

LEMMA StartColouringStep ==
  ASSUME CodeInv, ColourInv, AllocInv, StartColouring
  PROVE  AllocKeeps
<1>1. /\ UNCHANGED <<fn, order, code, liveVars, slots, nextId>>
      /\ phase = "lifespans" /\ stopped /\ phase' = "colour"
      /\ conflict' = CalcConflictMap /\ todo' = VRegsOf(conflict')
      /\ allocated' = {} /\ map' = <<>> /\ spilled' = <<>>
  BY DEF StartColouring
<1>2. CodeInv'
  <2>1. slots' \in slots..MaxSlots
    BY <1>1, SlotsAssumption DEF CodeInv
  <2>2. DOMAIN spilled' = {}
    BY <1>1
  <2>3. Taken' = {}
    BY <2>2 DEF Taken
  <2> QED
    BY <1>1, <2>1, <2>2, <2>3, CodeKept
<1>3. ColourInv'
  BY StartKeeps
<1>4. infos' = InfosOfCode' /\ LP!LiveInv'
  BY <1>1, InfosSame DEF AllocInv, liveVars
<1>5. CalcConflictMap' = CalcConflictMap
  BY <1>1, ConflictSame DEF liveVars
<1>6. AllocInv'
  BY <1>1, <1>4, <1>5 DEF AllocInv, ColourTypes, VRegsOf, liveVars
<1> QED
  BY <1>1, <1>2, <1>3, <1>6 DEF AllocKeeps

LEMMA ColourStep ==
  ASSUME CodeInv, ColourInv, AllocInv, NEW v \in todo, NEW k \in DOMAIN iRegs, Colour(v, k)
  PROVE  AllocKeeps
<1>1. /\ UNCHANGED <<fn, order, code, phase, liveVars, conflict, spilled, slots, nextId>>
      /\ phase = "colour"
      /\ map' = [u \in DOMAIN map \cup {v} |-> IF u = v THEN iRegs[k] ELSE map[u]]
      /\ allocated' = allocated \cup {v} /\ todo' = todo \ {v}
  BY DEF Colour
<1>2. CodeInv' /\ ColourInv'
  BY <1>1, SpilledSame, ColourKeeps
<1>3. infos' = InfosOfCode' /\ LP!LiveInv'
  BY <1>1, InfosSame DEF AllocInv, liveVars
<1>4. CalcConflictMap' = CalcConflictMap
  BY <1>1, ConflictSame DEF liveVars
<1>5. v \in VReg /\ iRegs[k] \in Range(iRegs)
  BY DEF AllocInv, Range
<1>6. /\ DOMAIN map' = DOMAIN map \cup {v}
      /\ \A u \in DOMAIN map' : map'[u] \in Range(iRegs)
      /\ DOMAIN map' \subseteq VReg
  BY <1>1, <1>5 DEF AllocInv, ColourTypes
<1>7. stopped' = stopped
  BY <1>1 DEF liveVars
<1>8. ColourTypes'
  BY <1>6 DEF ColourTypes
<1>9. allocated' \subseteq VReg /\ todo' \subseteq VReg
  BY <1>1, <1>5 DEF AllocInv
<1>10. spilled' = <<>> => conflict' = CalcConflictMap' /\ VRegsOf(conflict)' \subseteq todo' \cup DOMAIN map'
  BY <1>1, <1>4, <1>6 DEF AllocInv, VRegsOf
<1>11. AllocInv'
  BY <1>1, <1>3, <1>7, <1>8, <1>9, <1>10 DEF AllocInv
<1> QED
  BY <1>1, <1>2, <1>11 DEF AllocKeeps

LEMMA SpillStep ==
  ASSUME CodeInv, ColourInv, AllocInv, NEW v \in todo, NEW t \in allocated \cup {v}, Spill(v, t)
  PROVE  AllocKeeps
<1>1. /\ UNCHANGED <<fn, order, code, phase, liveVars, map, nextId>>
      /\ phase = "colour" /\ slots < MaxSlots /\ slots' = slots + 1
      /\ spilled' = [u \in DOMAIN spilled \cup {t} |-> IF u = t THEN slots ELSE spilled[u]]
      /\ allocated' = (allocated \cup {v}) \ {t}
      /\ conflict' = [r \in DOMAIN conflict \ {t} |-> conflict[r] \ {t}]
      /\ todo' = VRegsOf(conflict')
  BY DEF Spill
<1>2. t \in VReg /\ v \in VReg
  BY DEF AllocInv
<1>3. slots \in Nat /\ slots' \in slots..MaxSlots
  BY <1>1, SlotsAssumption DEF CodeInv
<1>4. /\ DOMAIN spilled' = DOMAIN spilled \cup {t} /\ spilled'[t] = slots
      /\ \A u \in DOMAIN spilled' : u # t => u \in DOMAIN spilled /\ spilled'[u] = spilled[u]
  BY <1>1
<1>5. \A u \in DOMAIN spilled : spilled[u] \in 0..(slots - 1) /\ spilled[u] \in 0..(slots' - 1) /\ spilled[u] # slots
  <2>1. slots' \in Nat /\ slots' >= slots
    BY <1>1, <1>3
  <2> QED
    BY <1>3, <2>1, SlotBelow DEF CodeInv
<1>6. slots \in 0..(slots' - 1)
  BY <1>1, <1>3
<1>7. CodeInv'
  <2>1. DOMAIN spilled' \subseteq VReg
    BY <1>2, <1>4 DEF CodeInv
  <2>2. \A u \in DOMAIN spilled' : spilled'[u] \in 0..(slots' - 1)
    BY <1>4, <1>5, <1>6
  <2>3. \A u, w \in DOMAIN spilled' : spilled'[u] = spilled'[w] => u = w
    <3> SUFFICES ASSUME NEW u \in DOMAIN spilled', NEW w \in DOMAIN spilled', spilled'[u] = spilled'[w]
                 PROVE  u = w
      OBVIOUS
    <3>1. CASE u = t \/ w = t
      BY <1>4, <1>5, <3>1
    <3>2. CASE u # t /\ w # t
      BY <1>4, <3>2 DEF CodeInv
    <3> QED
      BY <3>1, <3>2
  <2>4. Taken' \subseteq Taken \cup {slots}
    BY <1>4 DEF Taken
  <2> QED
    BY <1>1, <1>3, <2>1, <2>2, <2>3, <2>4, CodeKept
<1>8. ColourInv'
  BY SpillKeeps
<1>9. infos' = InfosOfCode' /\ LP!LiveInv'
  BY <1>1, InfosSame DEF AllocInv, liveVars
<1>10. spilled' # <<>>
  BY <1>4
<1>11. ColourTypes' /\ stopped'
  BY <1>1 DEF AllocInv, ColourTypes, liveVars
<1>12. allocated' \subseteq VReg /\ todo' \subseteq VReg
  BY <1>1, <1>2 DEF AllocInv, VRegsOf
<1>13. AllocInv'
  BY <1>1, <1>9, <1>10, <1>11, <1>12 DEF AllocInv
<1> QED
  BY <1>1, <1>7, <1>8, <1>13 DEF AllocKeeps

LEMMA EndRoundStep ==
  ASSUME CodeInv, ColourInv, AllocInv, EndRound
  PROVE  AllocKeeps
<1>1. /\ UNCHANGED <<fn, order, code, liveVars, colourVars, nextId>>
      /\ phase = "colour" /\ todo = {}
      /\ phase' = IF spilled = <<>> THEN "assign" ELSE "rewrite"
  BY DEF EndRound
<1>2. CodeInv' /\ ColourInv'
  BY <1>1, SpilledSame, RestKeeps DEF colourVars
<1>3. infos' = InfosOfCode' /\ LP!LiveInv'
  BY <1>1, InfosSame DEF AllocInv, liveVars
<1>4. CalcConflictMap' = CalcConflictMap
  BY <1>1, ConflictSame DEF liveVars
<1>5. AllocInv'
  BY <1>1, <1>3, <1>4 DEF AllocInv, ColourTypes, VRegsOf, colourVars, liveVars
<1>6. phase' # "run"
  BY <1>1
<1> QED
  BY <1>1, <1>2, <1>5, <1>6 DEF AllocKeeps

LEMMA RewriteStep ==
  ASSUME CodeInv, ColourInv, AllocInv, NEW v \in DOMAIN spilled, Rewrite(v)
  PROVE  AllocKeeps
<1>1. /\ UNCHANGED <<fn, order, liveVars, conflict, todo, allocated, map, slots>>
      /\ phase' \in {"round", "rewrite"}
  BY DEF Rewrite
<1>2. CodeInv' /\ \A m : Certifies(m, code, TRUE) => \E m2 : Certifies(m2, code', TRUE)
  BY RewriteCode
<1>3. ColourInv'
  BY <1>1, RestKeeps
<1>4. AllocInv'
  BY <1>1 DEF AllocInv, ColourTypes
<1> QED
  BY <1>1, <1>2, <1>3, <1>4 DEF AllocKeeps

LEMMA AssignStep ==
  ASSUME CodeInv, ColourInv, AllocInv, Assign
  PROVE  AllocKeeps
<1>1. UNCHANGED <<fn, order, liveVars, colourVars, nextId>> /\ phase = "assign" /\ phase' = "run"
  BY DEF Assign
<1>2. FlowSolved
  BY <1>1, LiveFlows DEF AllocInv, CodeInv
<1>3. /\ ColourTypes /\ ColoursApart /\ conflict = CalcConflictMap
      /\ VRegsOf(conflict) \subseteq DOMAIN map
  BY <1>1 DEF AllocInv, ColourInv
<1>4. /\ CodeInv'
      /\ \A b \in Block : \A k \in DOMAIN code'[b] :
           Writes(code'[b][k]) \cup Reads(code'[b][k]) \subseteq MReg
      /\ \A m : Certifies(m, code, TRUE) => \E m2 : Certifies(m2, code', TRUE)
  BY <1>2, <1>3, AssignCode
<1>5. ColourInv'
  BY <1>1, RestKeeps DEF colourVars
<1>6. AllocInv'
  BY <1>1 DEF AllocInv, ColourTypes, colourVars
<1> QED
  BY <1>1, <1>4, <1>5, <1>6 DEF AllocKeeps

LEMMA AllocStep ==
  ASSUME CodeInv, ColourInv, AllocInv, Alloc
  PROVE  AllocKeeps /\ phase # "run"
<1>1. CASE StartRound
  BY <1>1, StartRoundStep DEF StartRound
<1>2. CASE CalcInOut
  BY <1>2, CalcInOutStep DEF CalcInOut
<1>3. CASE StartColouring
  BY <1>3, StartColouringStep DEF StartColouring
<1>4. CASE EndRound
  BY <1>4, EndRoundStep DEF EndRound
<1>5. CASE Assign
  BY <1>5, AssignStep DEF Assign
<1>6. CASE \E v \in todo, k \in DOMAIN iRegs : Colour(v, k)
  BY <1>6, ColourStep DEF Colour
<1>7. CASE \E v \in todo : \E t \in allocated \cup {v} : Spill(v, t)
  BY <1>7, SpillStep DEF Spill
<1>8. CASE \E v \in DOMAIN spilled : Rewrite(v)
  BY <1>8, RewriteStep DEF Rewrite
<1> QED
  BY <1>1, <1>2, <1>3, <1>4, <1>5, <1>6, <1>7, <1>8 DEF Alloc

-----------------------------------------------------------------------------
(* The code of GenerateMIR. *)

LEMMA GeneratedFacts ==
  ASSUME NEW i, Generated(i)
  PROVE  /\ i \in Instr /\ Shaped(i)
         /\ i.def = i.dst /\ i.use = i.src
         /\ i.op \notin {"loadFrom", "storeTo", "erased"}
         /\ i.op = "mv" => Len(i.dst) = 1 /\ Len(i.src) = 1
<1>1. i.dst \in Seq(Regs) /\ i.src \in Seq(Regs)
  BY DEF Generated
<1>2. ASSUME NEW op \in Ops \ {"loadFrom", "storeTo", "erased"}, NEW dst, NEW src, NEW imm \in Int,
             i = Make(op, dst, src, imm), op = "mv" => Len(dst) = 1 /\ Len(src) = 1,
             IF op = "call" THEN dst \in Seq(MReg) /\ src \in Seq(MReg) ELSE Len(dst) <= 1 /\ Len(src) <= 2
      PROVE  /\ i \in Instr /\ Shaped(i)
             /\ i.def = i.dst /\ i.use = i.src
             /\ i.op \notin {"loadFrom", "storeTo", "erased"}
             /\ i.op = "mv" => Len(i.dst) = 1 /\ Len(i.src) = 1
  <2>1. i = [op |-> op, def |-> dst, use |-> src, dst |-> dst, src |-> src, imm |-> imm]
    BY <1>2 DEF Make
  <2>2. /\ i.op = op /\ i.def = dst /\ i.use = src /\ i.dst = dst /\ i.src = src /\ i.imm = imm
    BY <2>1
  <2>3. i \in Instr
    BY <1>1, <2>1, <2>2 DEF Instr
  <2>4. Len(src) <= Len(src)
    <3>1. src \in Seq(Regs)
      BY <1>1, <2>2
    <3> QED
      BY <3>1
  <2>5. Shaped(i)
    BY <1>2, <2>2, <2>4 DEF Shaped
  <2> QED
    BY <1>2, <2>2, <2>3, <2>5
<1>3. CASE Len(i.dst) = 1 /\ i \in {LI(i.dst[1]), LEA(i.dst[1])}
  <2>1. Len(<<i.dst[1]>>) <= 1 /\ Len(<<>>) <= 2
    OBVIOUS
  <2>2. CASE i = Make("li", <<i.dst[1]>>, <<>>, 0)
    <3>1. "li" \in Ops \ {"loadFrom", "storeTo", "erased"} /\ "li" \notin {"call", "mv"} /\ 0 \in Int
      BY DEF Ops
    <3> QED
      BY <1>2, <2>1, <2>2, <3>1
  <2>3. CASE i = Make("lea", <<i.dst[1]>>, <<>>, -1)
    <3>1. "lea" \in Ops \ {"loadFrom", "storeTo", "erased"} /\ "lea" \notin {"call", "mv"} /\ -1 \in Int
      BY DEF Ops
    <3> QED
      BY <1>2, <2>1, <2>3, <3>1
  <2> QED
    BY <1>3, <2>2, <2>3 DEF LI, LEA
<1>4. CASE Len(i.dst) = 1 /\ Len(i.src) <= 2 /\ i = Op(i.dst[1], i.src)
  <2>1. "op" \in Ops \ {"loadFrom", "storeTo", "erased"} /\ "op" \notin {"call", "mv"}
        /\ Len(<<i.dst[1]>>) <= 1
    BY DEF Ops
  <2> QED
    BY <1>2, <1>4, <2>1 DEF Op
<1>5. CASE Len(i.dst) = 1 /\ Len(i.src) = 1 /\ i = MV(i.dst[1], i.src[1])
  <2>1. "mv" \in Ops \ {"loadFrom", "storeTo", "erased"} /\ "mv" # "call"
        /\ Len(<<i.dst[1]>>) = 1 /\ Len(<<i.src[1]>>) = 1 /\ 0 \in Int
    BY DEF Ops
  <2>2. i = Make("mv", <<i.dst[1]>>, <<i.src[1]>>, 0)
    BY <1>5 DEF MV
  <2> DEFINE dst == <<i.dst[1]>>
             src == <<i.src[1]>>
  <2>3. Len(dst) = 1 /\ Len(src) = 1 /\ Len(dst) <= 1 /\ Len(src) <= 2
    OBVIOUS
  <2>4. i = Make("mv", dst, src, 0)
    BY <2>2
  <2> HIDE DEF dst, src
  <2> QED
    BY <1>2, <2>1, <2>3, <2>4
<1>6. CASE Len(i.src) <= 2 /\ i = Store(i.src)
  <2>1. "store" \in Ops \ {"loadFrom", "storeTo", "erased"} /\ "store" \notin {"call", "mv"}
        /\ Len(<<>>) <= 1
    BY DEF Ops
  <2> QED
    BY <1>2, <1>6, <2>1 DEF Store
<1>7. CASE Len(i.src) = 2 /\ i = JumpEQ(i.src[1])
  <2>1. "jump" \in Ops \ {"loadFrom", "storeTo", "erased"} /\ "jump" \notin {"call", "mv"}
        /\ Len(<<>>) <= 1 /\ Len(<<i.src[1], zero>>) <= 2 /\ 0 \in Int
    BY DEF Ops
  <2> QED
    BY <1>2, <1>7, <2>1 DEF JumpEQ
<1>8. CASE \E n \in 0..Len(iCallerRegs) : i = Call(n)
  <2>1. PICK n \in 0..Len(iCallerRegs) : i = Call(n)
    BY <1>8
  <2>2. iCallerRegs \in Seq(MReg)
    BY RegFacts
  <2>3. SubSeq(iCallerRegs, 1, n) \in Seq(MReg)
    BY <2>2
  <2>4. "call" \in Ops \ {"loadFrom", "storeTo", "erased"} /\ "call" # "mv" /\ 0 \in Int
    BY DEF Ops
  <2> QED
    BY <1>2, <2>1, <2>2, <2>3, <2>4 DEF Call
<1> QED
  BY <1>3, <1>4, <1>5, <1>6, <1>7, <1>8 DEF Generated

\* Every register of R where it was made to be.
InPlace(R) == {<<InReg(r), r>> : r \in R}

LEMMA InPlaceFacts ==
  ASSUME NEW R \in SUBSET Regs
  PROVE  /\ InPlace(R) \in SUBSET Pairs
         /\ \A p, u : <<p, u>> \in InPlace(R) <=> u \in R /\ p = InReg(u)
<1>1. \A r \in R : <<InReg(r), r>> \in Pairs
  BY PlaceFacts
<1> QED
  BY <1>1 DEF InPlace

\* An instruction as it was made puts what it writes where it was made to be.
LEMMA GeneratedCarries ==
  ASSUME NEW i, Generated(i), NEW R \in SUBSET Regs, Reads(i) \subseteq R
  PROVE  /\ Carries(i, InPlace(R), InPlace(R \cup Writes(i)))
         /\ Finds(i, InPlace(R))
<1> DEFINE A == InPlace(R)
           B == InPlace(R \cup Writes(i))
<1>1. /\ i \in Instr /\ Shaped(i) /\ i.def = i.dst /\ i.use = i.src
      /\ i.op \notin {"loadFrom", "storeTo", "erased"}
      /\ i.op = "mv" => Len(i.dst) = 1 /\ Len(i.src) = 1
  BY GeneratedFacts
<1>2. i.dst \in Seq(Regs) /\ i.src \in Seq(Regs)
  BY <1>1 DEF Instr
<1>3. Writes(i) \subseteq Regs /\ Writes(i) = Range(i.def)
      /\ \A k \in DOMAIN i.src : i.src[k] \in Reads(i)
  BY <1>1, <1>2 DEF Writes, Reads, Range
<1>4. \A p, u : <<p, u>> \in A <=> u \in R /\ p = InReg(u)
  BY InPlaceFacts
<1>5. \A p, u : <<p, u>> \in B <=> u \in R \cup Writes(i) /\ p = InReg(u)
  BY <1>3, InPlaceFacts
<1> HIDE DEF A, B
<1>6. Finds(i, A)
  BY <1>1, <1>3, <1>4 DEF Finds
<1>7. ASSUME NEW p, NEW u, <<p, u>> \in B PROVE Leaves(i, A, p, u)
  <2>1. u \in R \cup Writes(i) /\ p = InReg(u)
    BY <1>5, <1>7
  <2>2. CASE u \in Writes(i)
    <3>1. PICK k \in DOMAIN i.dst : u = i.dst[k] /\ u = i.def[k]
      BY <1>1, <2>2 DEF Writes, Range
    <3>2. CASE i.op = "mv"
      <4>1. 1 \in DOMAIN i.src
        BY <1>1, <1>2, <3>2
      <4>2. <<InReg(i.src[1]), i.use[1]>> \in A
        BY <1>1, <1>3, <1>4, <4>1
      <4>3. StillIn(i, A, InReg(i.src[1]), u)
        BY <1>3, <2>2, <3>2, <4>2 DEF StillIn
      <4> QED
        BY <2>1, <3>1, <3>2, <4>3 DEF Leaves, PutsIn
    <3>3. CASE i.op # "mv"
      BY <1>1, <2>1, <3>1, <3>3 DEF Leaves, PutsIn
    <3> QED
      BY <3>2, <3>3
  <2>3. CASE u \notin Writes(i)
    <3>1. <<p, u>> \in A /\ u \notin Range(i.def)
      BY <1>3, <1>4, <2>1, <2>3
    <3>2. Spared(i, p)
      BY <1>1, <2>1, <2>3, PlaceFacts DEF Spared, Saves, Writes, Range
    <3> QED
      BY <3>1, <3>2 DEF Leaves, StillIn
  <2> QED
    BY <2>2, <2>3
<1> QED
  BY <1>6, <1>7 DEF Carries, A, B

Unsettled(m) == \A b \in Block : \A k \in DOMAIN m[b] : \A u : <<Settled, u>> \notin m[b][k]

(***************************************************************************)
(* The code of GenerateMIR has every register where it was made to be, from *)
(* where it is written to the blocks that may still read it.                *)
(***************************************************************************)
LEMMA StartCertified ==
  ASSUME fn \in Functions, code = fn.code
  PROVE  /\ code \in [Block -> Seq(Fits(fn.nextId, 0, {}))]
         /\ \E m : Certifies(m, code, FALSE) /\ Unsettled(m)
<1> DEFINE L(b) == Len(code[b])
           T == Fits(fn.nextId, 0, {})
<1>1. ASSUME NEW b \in Block
      PROVE  /\ L(b) \in Nat /\ DOMAIN code[b] = 1..L(b)
             /\ \A k \in 1..L(b) : Generated(code[b][k])
             /\ code[b] = [k \in DOMAIN code[b] |-> code[b][k]]
  BY FunctionsAssumption
<1>2. ASSUME NEW b \in Block, NEW k \in 1..L(b)
      PROVE  /\ code[b][k] \in Instr /\ Shaped(code[b][k])
             /\ Writes(code[b][k]) \subseteq Regs /\ Reads(code[b][k]) \subseteq Regs
             /\ VReg \cap (Writes(code[b][k]) \cup Reads(code[b][k])) \subseteq NamedIn(fn)
             /\ code[b][k] \in T
  <2>1. /\ code[b][k] \in Instr /\ Shaped(code[b][k])
        /\ code[b][k].op \notin {"loadFrom", "storeTo", "erased"}
    BY <1>1, GeneratedFacts
  <2>2. \A i \in Instr : Writes(i) \subseteq Regs /\ Reads(i) \subseteq Regs
    BY DEF Instr, Writes, Reads, Range
  <2>3. VReg \cap (Writes(code[b][k]) \cup Reads(code[b][k])) \subseteq NamedIn(fn)
    <3>1. code[b][k] \in Range(fn.code[b])
      BY <1>1 DEF Range
    <3> QED
      BY <3>1 DEF NamedIn
  <2>4. \A v \in NamedIn(fn) : v < fn.nextId
    BY FunctionsAssumption
  <2>5. code[b][k] \in T
    BY <2>1, <2>3, <2>4 DEF Fits
  <2> QED
    BY <2>1, <2>2, <2>3, <2>5
<1>3. code \in [Block -> Seq(T)]
  <2>1. ASSUME NEW b \in Block PROVE code[b] \in Seq(T)
    BY <1>1, <1>2, IsSeq
  <2>2. code = [b \in Block |-> code[b]]
    BY FunctionsAssumption
  <2> QED
    BY <2>1, <2>2
<1> DEFINE Ahead(v, S) == \A b \in Block :
             v \in UseOf(code[b]) \/ (v \notin DefOf(code[b]) /\ fn.nexts[b] \cap S # {}) => b \in S
           S == [v \in NamedIn(fn) |-> CHOOSE X \in SUBSET (Block \ {1}) : Ahead(v, X)]
<1>4. ASSUME NEW v \in NamedIn(fn) PROVE S[v] \in SUBSET (Block \ {1}) /\ Ahead(v, S[v])
  <2>1. WrittenFirst(fn, v)
    BY FunctionsAssumption
  <2>2. \E X \in SUBSET (Block \ {1}) : Ahead(v, X)
    BY <2>1 DEF WrittenFirst
  <2> HIDE DEF Ahead
  <2> QED
    BY <2>2
<1> HIDE DEF S
<1> DEFINE Start(b) == MReg \cup {v \in NamedIn(fn) : b \in S[v]}
           R(b, k) == Start(b) \cup UNION {Writes(code[b][j]) : j \in 1..(k - 1)}
           m == [b \in Block |-> [k \in 1..(L(b) + 1) |-> InPlace(R(b, k))]]
<1>5. ASSUME NEW b \in Block
      PROVE  /\ \A k \in 1..(L(b) + 1) : R(b, k) \subseteq Regs
             /\ R(b, 1) = Start(b) /\ R(b, L(b) + 1) = Start(b) \cup DefOf(code[b])
             /\ \A k \in 1..L(b) : R(b, k + 1) = R(b, k) \cup Writes(code[b][k])
  <2>1. Start(b) \subseteq Regs
    BY RegFacts DEF NamedIn
  <2>2. ASSUME NEW k \in 1..(L(b) + 1) PROVE R(b, k) \subseteq Regs
    <3>1. \A j \in 1..(k - 1) : j \in 1..L(b)
      BY <1>1
    <3> QED
      BY <1>2, <2>1, <3>1
  <2>3. 1..(1 - 1) = {} /\ 1..((L(b) + 1) - 1) = DOMAIN code[b]
    BY <1>1
  <2>4. ASSUME NEW k \in 1..L(b) PROVE R(b, k + 1) = R(b, k) \cup Writes(code[b][k])
    <3>1. 1..((k + 1) - 1) = 1..(k - 1) \cup {k}
      BY <1>1
    <3> QED
      BY <3>1
  <2> QED
    BY <2>2, <2>3, <2>4 DEF DefOf
<1>6. ASSUME NEW b \in Block, NEW k \in 1..L(b) PROVE Reads(code[b][k]) \subseteq R(b, k)
  <2> SUFFICES ASSUME NEW r \in Reads(code[b][k]), r \notin MReg,
                      \A j \in 1..(k - 1) : r \notin Writes(code[b][j])
               PROVE  r \in NamedIn(fn) /\ b \in S[r]
    OBVIOUS
  <2>1. r \in Regs /\ r \in VReg /\ r \in NamedIn(fn)
    BY <1>2 DEF Regs
  <2>2. r \in UseOf(code[b])
    BY <1>1, <2>1 DEF UseOf
  <2> QED
    BY <1>4, <2>1, <2>2
<1>7. ASSUME NEW b \in Block, NEW d \in fn.nexts[b]
      PROVE  d \in Block /\ R(d, 1) \subseteq R(b, L(b) + 1)
  <2>1. d \in Block
    BY FnFacts
  <2>2. ASSUME NEW v \in NamedIn(fn), d \in S[v] PROVE v \in R(b, L(b) + 1)
    <3>1. v \in DefOf(code[b]) \/ b \in S[v]
      BY <1>4, <2>2
    <3> QED
      BY <1>5, <3>1
  <2>3. MReg \subseteq R(b, L(b) + 1)
    OBVIOUS
  <2>4. R(d, 1) = Start(d)
    BY <1>5, <2>1
  <2> HIDE DEF R
  <2> QED
    BY <2>1, <2>2, <2>3, <2>4
<1>8. ASSUME NEW b \in Block
      PROVE  /\ m[b] \in [1..(L(b) + 1) -> SUBSET Pairs]
             /\ \A k \in 1..(L(b) + 1) : m[b][k] = InPlace(R(b, k))
             /\ 1 \in 1..(L(b) + 1) /\ L(b) + 1 \in 1..(L(b) + 1)
  <2>1. \A k \in 1..(L(b) + 1) : InPlace(R(b, k)) \in SUBSET Pairs
    BY <1>5, InPlaceFacts
  <2> HIDE DEF R
  <2> QED
    BY <1>1, <2>1
<1> HIDE DEF R, m
<1>9. ASSUME NEW b \in Block PROVE Annotates(code[b], m[b])
  <2>1. ASSUME NEW k \in 1..L(b)
        PROVE  Carries(code[b][k], m[b][k], m[b][k + 1]) /\ Finds(code[b][k], m[b][k])
    <3>1. k \in 1..(L(b) + 1) /\ k + 1 \in 1..(L(b) + 1)
      BY <1>1
    <3>2. /\ m[b][k] = InPlace(R(b, k))
          /\ m[b][k + 1] = InPlace(R(b, k) \cup Writes(code[b][k]))
      BY <1>5, <1>8, <3>1
    <3>3. /\ Generated(code[b][k]) /\ R(b, k) \in SUBSET Regs
          /\ Reads(code[b][k]) \subseteq R(b, k)
      BY <1>1, <1>5, <1>6, <3>1
    <3>4. /\ Carries(code[b][k], InPlace(R(b, k)), InPlace(R(b, k) \cup Writes(code[b][k])))
          /\ Finds(code[b][k], InPlace(R(b, k)))
      BY <3>3, GeneratedCarries
    <3> QED
      BY <3>2, <3>4
  <2> QED
    BY <1>8, <2>1 DEF Annotates
<1>10. ASSUME NEW x \in m[1][1] PROVE \E r \in MReg : x = <<InReg(r), r>>
  <2>1. 1 \in Block
    BY FnFacts
  <2>2. m[1][1] = InPlace(MReg)
    <3>1. Start(1) = MReg
      BY <1>4
    <3>2. R(1, 1) = Start(1)
      BY <1>5, <2>1
    <3>3. m[1][1] = InPlace(R(1, 1))
      BY <1>8, <2>1
    <3> QED
      BY <3>1, <3>2, <3>3
  <2> QED
    BY <2>2 DEF InPlace
<1>11. ASSUME NEW b \in Block, NEW d \in fn.nexts[b] PROVE m[d][1] \subseteq m[b][L(b) + 1]
  BY <1>7, <1>8 DEF InPlace
<1>12. ASSUME NEW b \in Block PROVE <<InReg(a0), a0>> \in m[b][L(b) + 1]
  <2>1. a0 \in R(b, L(b) + 1)
    BY <1>5, RegFacts
  <2> QED
    BY <1>8, <2>1 DEF InPlace
<1>13. Unsettled(m)
  <2> SUFFICES ASSUME NEW b \in Block, NEW k \in DOMAIN m[b], NEW u PROVE <<Settled, u>> \notin m[b][k]
    BY DEF Unsettled
  <2>1. k \in 1..(L(b) + 1)
    BY <1>8
  <2>2. R(b, k) \in SUBSET Regs /\ m[b][k] = InPlace(R(b, k))
    BY <1>5, <1>8, <2>1
  <2>3. Settled # InReg(u)
    BY PlaceFacts
  <2> QED
    BY <2>2, <2>3, InPlaceFacts
<1> QED
  BY <1>3, <1>9, <1>10, <1>11, <1>12, <1>13 DEF Certifies

-----------------------------------------------------------------------------
(* ReduceMove. *)

\* More is known before: no less is after.
LEMMA LeavesMore ==
  ASSUME NEW i, NEW A, NEW B, A \subseteq B, NEW p, NEW u, Leaves(i, A, p, u)
  PROVE  Leaves(i, B, p, u)
BY DEF Leaves, PutsIn, StillIn

\* Instruction K writes iRegs[1], and nothing comes after it.
WritesLast(is, K) ==
  /\ K \in DOMAIN is /\ a0 \in Writes(is[K])
  /\ \A j \in DOMAIN is : j > K => is[j].op = "erased"

LEMMA Settles ==
  ASSUME NEW is \in Seq(Instr), NEW m, Annotates(is, m), NEW K, WritesLast(is, K)
  PROVE  \E n : /\ Annotates(is, n) /\ n[1] = m[1]
                /\ m[Len(is) + 1] \cup {<<Settled, a0>>} \subseteq n[Len(is) + 1]
<1> DEFINE L == Len(is)
           n == [k \in 1..(L + 1) |-> IF k > K THEN m[k] \cup {<<Settled, a0>>} ELSE m[k]]
<1>1. /\ L \in Nat /\ DOMAIN is = 1..L /\ K \in 1..L
      /\ m \in [1..(L + 1) -> SUBSET Pairs]
  BY DEF WritesLast, Annotates
<1>2. <<Settled, a0>> \in Pairs
  BY PlaceFacts, RegFacts
<1>3. n \in [1..(L + 1) -> SUBSET Pairs]
  BY <1>1, <1>2
<1>4. \A k \in 1..(L + 1) : n[k] = IF k > K THEN m[k] \cup {<<Settled, a0>>} ELSE m[k]
  OBVIOUS
<1> HIDE DEF n
<1>5. ASSUME NEW k \in 1..L PROVE Carries(is[k], n[k], n[k + 1]) /\ Finds(is[k], n[k])
  <2>1. k \in 1..(L + 1) /\ k + 1 \in 1..(L + 1) /\ (k + 1 > K <=> k > K \/ k = K)
    BY <1>1
  <2>2. Carries(is[k], m[k], m[k + 1]) /\ Finds(is[k], m[k])
    BY DEF Annotates
  <2>3. m[k] \subseteq n[k]
    BY <1>4, <2>1
  <2>4. Finds(is[k], n[k])
    BY <2>2, <2>3 DEF Finds
  <2>5. ASSUME NEW p, NEW u, <<p, u>> \in n[k + 1] PROVE Leaves(is[k], n[k], p, u)
    <3>1. CASE <<p, u>> \in m[k + 1]
      <4>1. Leaves(is[k], m[k], p, u)
        BY <2>2, <3>1 DEF Carries
      <4> QED
        BY <2>3, <4>1, LeavesMore
    <3>2. CASE <<p, u>> \notin m[k + 1]
      <4>1. k + 1 > K /\ p = Settled /\ u = a0
        <5>1. n[k + 1] = IF k + 1 > K THEN m[k + 1] \cup {<<Settled, a0>>} ELSE m[k + 1]
          BY <1>4, <2>1
        <5>2. k + 1 > K /\ <<p, u>> = <<Settled, a0>>
          BY <2>5, <3>2, <5>1
        <5> QED
          BY <5>2
      <4>2. CASE k = K
        BY <4>1, <4>2 DEF Leaves, WritesLast
      <4>3. CASE k > K
        <5>1. is[k].op = "erased"
          BY <1>1, <4>3 DEF WritesLast
        <5>2. <<p, u>> \in n[k]
          BY <1>4, <2>1, <4>1, <4>3
        <5> QED
          BY <4>1, <5>1, <5>2 DEF Leaves
      <4> QED
        BY <2>1, <4>1, <4>2, <4>3
    <3> QED
      BY <3>1, <3>2
  <2> QED
    BY <2>4, <2>5 DEF Carries
<1>6. n[1] = m[1] /\ m[L + 1] \cup {<<Settled, a0>>} \subseteq n[L + 1]
  <2>1. 1 \in 1..(L + 1) /\ ~(1 > K) /\ L + 1 \in 1..(L + 1) /\ L + 1 > K
    BY <1>1
  <2> QED
    BY <1>4, <2>1
<1>7. Annotates(is, n)
  BY <1>3, <1>5 DEF Annotates
<1> QED
  BY <1>6, <1>7

\* When the sweeps end, iRegs[1] is settled at the end of every exit.
LEMMA AllSettle ==
  ASSUME fn \in Functions, \A b \in Block : code[b] \in Seq(Instr), NEW m, Certifies(m, code, FALSE),
         \A b \in Block : Returning(b) => \E K : WritesLast(code[b], K)
  PROVE  \E m2 : Certifies(m2, code, TRUE)
<1> DEFINE L(b) == Len(code[b])
           Good(b, n) == /\ Annotates(code[b], n) /\ n[1] = m[b][1]
                         /\ m[b][L(b) + 1] \subseteq n[L(b) + 1]
                         /\ Returning(b) => <<Settled, a0>> \in n[L(b) + 1]
           m2 == [b \in Block |-> CHOOSE n : Good(b, n)]
<1>1. ASSUME NEW b \in Block PROVE Good(b, m2[b])
  <2>1. \E n : Good(b, n)
    <3>1. Annotates(code[b], m[b])
      BY DEF Certifies
    <3>2. CASE ~Returning(b)
      BY <3>1, <3>2
    <3>3. CASE Returning(b)
      <4>1. PICK K : WritesLast(code[b], K)
        BY <3>3
      <4>2. \E n : /\ Annotates(code[b], n) /\ n[1] = m[b][1]
                   /\ m[b][Len(code[b]) + 1] \cup {<<Settled, a0>>} \subseteq n[Len(code[b]) + 1]
        BY <3>1, <4>1, Settles
      <4> QED
        BY <4>2
    <3> QED
      BY <3>2, <3>3
  <2> HIDE DEF Good
  <2> QED
    BY <2>1
<1> HIDE DEF m2
<1>2. ASSUME NEW b \in Block, NEW d \in fn.nexts[b] PROVE m2[d][1] \subseteq m2[b][L(b) + 1]
  <2>1. d \in Block /\ m[d][1] \subseteq m[b][L(b) + 1]
    BY FnFacts DEF Certifies
  <2> QED
    BY <1>1, <2>1
<1>3. \A x \in m2[1][1] : \E r \in MReg : x = <<InReg(r), r>>
  BY <1>1, FnFacts DEF Certifies
<1>4. \A b \in Block : Returning(b) => <<InReg(a0), a0>> \in m2[b][L(b) + 1]
  BY <1>1 DEF Certifies
<1>5. Certifies(m2, code, TRUE)
  BY <1>1, <1>2, <1>3, <1>4 DEF Certifies
<1> QED
  BY <1>5

\* Instruction K will still write iRegs[1] last, or that before it will, once
\* the moves are gone that only repeat it.
Staying(is, K) ==
  \/ is[K].op # "mv"
  \/ K = Len(is) /\ is[K].dst = <<a0>> /\ Directly(is, K)
  \/ Echo(is, K) /\ is[K].dst = <<a0>>

\* What is known while ReduceMove runs.
ReduceInv ==
  /\ cursor \in Block \X (Nat \ {0})
  /\ \A b \in Block : \A k \in DOMAIN code[b] : code[b][k].op = "mv" => Len(code[b][k].dst) = 1
  /\ \A v \in VReg \ fn.phis : \A b, c \in Block : \A j \in DOMAIN code[b], k \in DOMAIN code[c] :
       v \in Writes(code[b][j]) /\ v \in Writes(code[c][k]) => b = c /\ j = k
  /\ \E m : Certifies(m, code, FALSE) /\ Unsettled(m)
  /\ \A b \in Block : Returning(b) => \E K : WritesLast(code[b], K) /\ Staying(code[b], K)

LEMMA ErasedFacts ==
  ASSUME NEW next, NEW size, NEW free, NEW i \in Fits(next, size, free)
  PROVE  /\ Erased(i) \in Fits(next, size, free)
         /\ Erased(i).op = "erased" /\ Erased(i).def = i.def /\ Erased(i).use = i.use
         /\ Erased(i).dst = <<>> /\ Erased(i).src = <<>>
<1> DEFINE e == Erased(i)
<1>1. i \in Instr /\ Shaped(i)
  BY DEF Fits
<1>2. e = [op |-> "erased", def |-> i.def, use |-> i.use, dst |-> <<>>, src |-> <<>>, imm |-> i.imm]
  <2> DEFINE o == "erased"
             t == <<>>
  <2>1. e = [i EXCEPT !.op = o, !.dst = t, !.src = t]
    BY DEF Erased
  <2> HIDE DEF e, o, t
  <2>2. e = [op |-> o, def |-> i.def, use |-> i.use, dst |-> t, src |-> t, imm |-> i.imm]
    BY <1>1, <2>1 DEF Instr
  <2> QED
    BY <2>2 DEF o, t
<1>3. /\ e.op = "erased" /\ e.def = i.def /\ e.use = i.use /\ e.dst = <<>> /\ e.src = <<>>
  BY <1>2
<1>4. e \in Instr
  <2>1. /\ "erased" \in Ops /\ i.def \in Seq(Regs) /\ i.use \in Seq(Regs) /\ i.imm \in Int
        /\ <<>> \in Seq(Regs)
    BY <1>1 DEF Instr, Ops
  <2> QED
    BY <1>2, <2>1 DEF Instr
<1> HIDE DEF e
<1>5. Writes(e) = {} /\ Reads(e) = {}
  BY <1>3 DEF Writes, Reads, Range
<1>6. Shaped(e)
  BY <1>3 DEF Shaped
<1> QED
  BY <1>3, <1>4, <1>5, <1>6 DEF Fits, e

\* X and Y keep of A and B, before and after a move, what d takes over from s.
Keeps(A, B, X, Y, s, d) ==
  /\ \A p, u : <<p, u>> \in Y => p # Settled /\ <<p, u>> \in B
  /\ \A w : <<InReg(s), w>> \in A => <<InReg(d), w>> \in X
  /\ \A p, u, w : <<p, u>> \in Y /\ p # InReg(d) /\ <<p, w>> \in A => <<p, w>> \in X

\* A move that is gone carries that on.
LEMMA ErasedCarries ==
  ASSUME NEW i, NEW e, NEW s, NEW d, i.op = "mv", i.src = <<s>>, i.dst = <<d>>,
         e.op = "erased", e.def = i.def, e.use = i.use, e.dst = <<>>,
         NEW A, NEW B, NEW X, NEW Y, Carries(i, A, B),
         Keeps(A, B, X, Y, s, d)
  PROVE  Carries(e, X, Y) /\ Finds(e, X)
<1>1. ASSUME NEW p, NEW u, <<p, u>> \in Y PROVE Leaves(e, X, p, u)
  <2>1. Leaves(i, A, p, u) /\ p # Settled
    BY <1>1 DEF Carries, Keeps
  <2>2. Spared(e, p)
    BY <2>1 DEF Spared, Saves
  <2>3. CASE \E k \in DOMAIN i.dst : p = InReg(i.dst[k]) /\ PutsIn(i, A, k, u)
    <3>1. p = InReg(d) /\ StillIn(i, A, InReg(s), u)
      BY <2>3 DEF PutsIn
    <3>2. StillIn(e, X, p, u)
      BY <3>1 DEF StillIn, Keeps
    <3> QED
      BY <2>2, <3>2 DEF Leaves
  <2>4. CASE Spared(i, p) /\ StillIn(i, A, p, u)
    <3>1. p # InReg(d)
      BY <2>4 DEF Spared
    <3>2. StillIn(e, X, p, u)
      BY <1>1, <2>4, <3>1 DEF StillIn, Keeps
    <3> QED
      BY <2>2, <3>2 DEF Leaves
  <2> QED
    BY <2>1, <2>3, <2>4 DEF Leaves, Saves
<1> QED
  BY <1>1 DEF Carries, Finds

\* A sequence of the same length, each of whose elements is in T.
LEMMA SeqChanged ==
  ASSUME NEW T, NEW s \in Seq(T), NEW t, DOMAIN t = DOMAIN s, t = [k \in DOMAIN t |-> t[k]],
         \A k \in DOMAIN s : t[k] \in T
  PROVE  t \in Seq(T) /\ Len(t) = Len(s)
<1>1. Len(s) \in Nat /\ DOMAIN s = 1..Len(s)
  OBVIOUS
<1> QED
  BY <1>1, IsSeq

\* Where the sweep is.
LEMMA AtInst ==
  ASSUME CodeInv, ReduceInv, InBlock
  PROVE  /\ cursor[1] \in Block /\ cursor[2] \in DOMAIN code[cursor[1]]
         /\ cursor[2] \in 1..Len(code[cursor[1]])
         /\ cursor = <<cursor[1], cursor[2]>>
         /\ Inst \in Fits(nextId, slots, Taken)
         /\ Inst.op = "mv" => /\ Inst.src = <<Inst.src[1]>> /\ Inst.dst = <<Inst.dst[1]>>
                              /\ Inst.src[1] \in Regs /\ Inst.dst[1] \in Regs
<1>1. cursor \in Block \X (Nat \ {0}) /\ cursor[2] <= Len(code[cursor[1]])
  BY DEF ReduceInv, InBlock
<1>2. code[cursor[1]] \in Seq(Fits(nextId, slots, Taken))
  BY <1>1 DEF CodeInv
<1>3. /\ cursor[1] \in Block /\ cursor[2] \in DOMAIN code[cursor[1]]
      /\ cursor[2] \in 1..Len(code[cursor[1]]) /\ cursor = <<cursor[1], cursor[2]>>
  BY <1>1, <1>2
<1>4. Inst \in Fits(nextId, slots, Taken)
  BY <1>2, <1>3 DEF Inst
<1>5. /\ Inst.src \in Seq(Regs) /\ Inst.dst \in Seq(Regs)
      /\ Inst.op = "mv" => Len(Inst.src) = 1 /\ Len(Inst.dst) = 1
  <2>1. Inst.op = "mv" => Len(Inst.dst) = 1
    BY <1>3 DEF ReduceInv, Inst
  <2> QED
    BY <1>4, <2>1 DEF Fits, Instr, Shaped
<1>6. \A t \in Seq(Regs) : Len(t) = 1 => t = <<t[1]>> /\ t[1] \in Regs
  OBVIOUS
<1> QED
  BY <1>3, <1>4, <1>5, <1>6

\* What stays of the writes of iRegs[1] when move c is erased, and when j
\* takes over its destination.
LEMMA StayErased ==
  ASSUME NEW n \in Nat, NEW is, NEW is2, DOMAIN is = 1..n, DOMAIN is2 = 1..n,
         Len(is) = n, Len(is2) = n, NEW c \in 1..n,
         \A k \in 1..n : k # c => is2[k] = is[k],
         is2[c].op = "erased", is2[c].dst = <<>>,
         is[c].op = "mv", is[c].src = is[c].dst,
         \A k \in 1..n : is[k].op = "mv" => is[k].src # <<>>,
         NEW K, WritesLast(is, K), Staying(is, K)
  PROVE  \E J : WritesLast(is2, J) /\ Staying(is2, J)
<1>1. K \in 1..n /\ a0 \in Writes(is[K]) /\ \A x \in 1..n : x > K => is[x].op = "erased"
  BY DEF WritesLast
<1>2. c <= K
  BY <1>1
<1>3. CASE c = K
  <2>1. Echo(is, K)
    <3>1. ~Directly(is, K)
      BY <1>3 DEF Directly
    <3> QED
      BY <1>3, <3>1 DEF Staying
  <2>2. K - 1 \in 1..n /\ is[K - 1].op # "mv" /\ a0 \in Writes(is[K - 1])
    BY <2>1 DEF Echo
  <2>3. is2[K - 1] = is[K - 1]
    BY <1>1, <1>3, <2>2
  <2>4. \A x \in 1..n : x > K - 1 => is2[x].op = "erased"
    <3> SUFFICES ASSUME NEW x \in 1..n, x > K - 1 PROVE is2[x].op = "erased"
      OBVIOUS
    <3>1. x = K \/ x > K
      BY <1>1
    <3> QED
      BY <1>1, <1>3, <3>1
  <2> QED
    BY <2>2, <2>3, <2>4 DEF WritesLast, Staying
<1>4. CASE c < K
  <2>1. is2[K] = is[K] /\ \A x \in 1..n : x > K => is2[x].op = "erased"
    BY <1>1, <1>4
  <2>2. WritesLast(is2, K)
    BY <1>1, <2>1 DEF WritesLast
  <2>3. ASSUME NEW x \in 1..n, x # c, Echo(is, x) PROVE Echo(is2, x)
    <3>1. x - 1 \in 1..n /\ x - 1 # c
      BY <2>3 DEF Echo
    <3> QED
      BY <2>3, <3>1 DEF Echo
  <2>4. Directly(is, K) /\ is[K].op = "mv" => Directly(is2, K)
    <3> SUFFICES ASSUME Directly(is, K), is[K].op = "mv", is[K].src[1] \in VReg \ fn.phis,
                        NEW x \in 1..n, x < K, is2[x].dst = is[K].src
                 PROVE  x = K - 1 /\ (is2[x].op # "mv" \/ Echo(is2, x))
      BY <2>1 DEF Directly
    <3>1. x # c
      BY <1>1
    <3>2. x = K - 1 /\ (is[x].op # "mv" \/ Echo(is, x))
      BY <3>1 DEF Directly
    <3> QED
      BY <2>3, <3>1, <3>2
  <2>5. Staying(is2, K)
    BY <1>1, <1>4, <2>1, <2>3, <2>4 DEF Staying
  <2> QED
    BY <2>2, <2>5
<1> QED
  BY <1>1, <1>2, <1>3, <1>4

\* ReduceMove makes is2 of is: j is computed into d, and move c goes.
Redirects(is, is2, n, j, c, s, d) ==
  /\ n \in Nat /\ n = Len(is) /\ n = Len(is2) /\ DOMAIN is = 1..n /\ DOMAIN is2 = 1..n
  /\ j \in 1..n /\ c \in 1..n /\ j < c
  /\ \A k \in 1..n : k # c /\ k # j => is2[k] = is[k]
  /\ s \in VReg \ fn.phis /\ d \in Regs /\ s # d
  /\ is[c].op = "mv" /\ is[c].src = <<s>> /\ is[c].dst = <<d>> /\ is[j].dst = <<s>>
  /\ is2[c] = Erased(is[c]) /\ is2[c].op = "erased" /\ is2[c].dst = <<>>
  /\ is2[j] = [is[j] EXCEPT !.dst = <<d>>]
  /\ is2[j].dst = <<d>> /\ is2[j].op = is[j].op /\ is2[j].src = is[j].src
  /\ \A k \in (j + 1)..(c - 1) : ~Blocks(is[k], d)
  /\ \A k \in 1..n : (s \in Reads(is[k]) => k = c) /\ (s \in Writes(is[k]) => k = j)

\* A move has a source.
LEMMA MoveSource ==
  ASSUME NEW next, NEW size, NEW free, NEW i \in Fits(next, size, free), i.op = "mv"
  PROVE  i.src # <<>>
<1>1. Len(i.src) = 1
  BY DEF Fits, Shaped
<1> QED
  BY <1>1

LEMMA StayReduced ==
  ASSUME NEW n, NEW is, NEW is2, NEW c, NEW j, NEW s, NEW d, Redirects(is, is2, n, j, c, s, d),
         \A k \in 1..n : is[k].op = "mv" => is[k].src # <<>>,
         NEW K, WritesLast(is, K), Staying(is, K)
  PROVE  \E J : WritesLast(is2, J) /\ Staying(is2, J)
<1>0. /\ n \in Nat /\ DOMAIN is = 1..n /\ DOMAIN is2 = 1..n
      /\ Len(is) = n /\ Len(is2) = n /\ c \in 1..n /\ j \in 1..n /\ j < c
      /\ \A k \in 1..n : k # c /\ k # j => is2[k] = is[k]
      /\ is2[c].op = "erased" /\ is2[c].dst = <<>> /\ s \in VReg \ fn.phis
      /\ is[c].op = "mv" /\ is[c].src = <<s>> /\ is[c].dst = <<d>>
      /\ is[j].dst = <<s>> /\ is2[j].dst = <<d>> /\ is2[j].op = is[j].op /\ is2[j].src = is[j].src
  BY DEF Redirects
<1> USE <1>0
<1>1. K \in 1..n /\ a0 \in Writes(is[K]) /\ \A x \in 1..n : x > K => is[x].op = "erased"
  BY DEF WritesLast
<1>2. c <= K
  BY <1>1
<1>3. s # a0 /\ a0 \notin Writes(is[j])
  BY RegFacts DEF Writes, Range
<1>4. ~Echo(is, c)
  BY <1>3 DEF Echo
<1>5. CASE c = K
  <2>1. K = n /\ d = a0 /\ Directly(is, K)
    BY <1>4, <1>5 DEF Staying
  <2>2. j = K - 1 /\ (is[j].op # "mv" \/ Echo(is, j))
    BY <1>5, <2>1 DEF Directly
  <2>3. a0 \in Writes(is2[j])
    BY <2>1 DEF Writes, Range
  <2>4. \A x \in 1..n : x > j => is2[x].op = "erased"
    <3> SUFFICES ASSUME NEW x \in 1..n, x > j PROVE x = c
      OBVIOUS
    <3> QED
      BY <1>5, <2>1, <2>2
  <2>5. ASSUME Echo(is, j) PROVE Echo(is2, j)
    <3>1. j - 1 \in 1..n /\ j - 1 # c /\ j - 1 # j
      BY <2>5 DEF Echo
    <3> QED
      BY <2>5, <3>1 DEF Echo
  <2> QED
    BY <2>1, <2>2, <2>3, <2>4, <2>5 DEF WritesLast, Staying
<1>6. CASE c < K
  <2>1. is2[K] = is[K] /\ \A x \in 1..n : x > K => is2[x].op = "erased"
    <3>1. K # j /\ K # c /\ \A x \in 1..n : x > K => x # j /\ x # c
      BY <1>1, <1>6
    <3> QED
      BY <1>1, <3>1
  <2>2. WritesLast(is2, K)
    BY <1>1, <2>1 DEF WritesLast
  <2>3. ASSUME NEW x \in 1..n, x # c, x # j, Echo(is, x) PROVE Echo(is2, x)
    <3>1. x - 1 \in 1..n /\ x - 1 # c /\ x - 1 # j
      BY <1>3, <2>3 DEF Echo
    <3> QED
      BY <2>3, <3>1 DEF Echo
  <2>4. Directly(is, K) /\ is[K].op = "mv" => Directly(is2, K)
    <3> SUFFICES ASSUME Directly(is, K), is[K].op = "mv", is[K].src[1] \in VReg \ fn.phis,
                        NEW x \in 1..n, x < K, is2[x].dst = is[K].src
                 PROVE  x = K - 1 /\ (is2[x].op # "mv" \/ Echo(is2, x))
      BY <2>1 DEF Directly
    <3>1. x # c
      BY <1>1
    <3>2. x # j
      BY <1>4, <1>6 DEF Directly
    <3>3. x = K - 1 /\ (is[x].op # "mv" \/ Echo(is, x))
      BY <3>1, <3>2 DEF Directly
    <3> QED
      BY <2>3, <3>1, <3>2, <3>3
  <2>5. Staying(is2, K)
    BY <1>1, <1>6, <2>1, <2>3, <2>4 DEF Staying
  <2> QED
    BY <2>2, <2>5
<1> QED
  BY <1>1, <1>2, <1>5, <1>6

LEMMA ReturnSame ==
  ASSUME fn' = fn
  PROVE  /\ \A b : Returning(b)' <=> Returning(b)
         /\ \A b, K : (WritesLast(code[b], K) /\ Staying(code[b], K))'
                         <=> WritesLast(code'[b], K) /\ Staying(code'[b], K)
<1>1. \A b : Returning(b)' <=> Returning(b)
  BY DEF Returning, ReturnsAtOnce, Directly, Echo
<1>2. \A b, K : WritesLast(code[b], K)' <=> WritesLast(code'[b], K)
  BY DEF WritesLast
<1>3. \A b, K : Staying(code[b], K)' <=> Staying(code'[b], K)
  BY DEF Staying, Directly, Echo
<1> QED
  BY <1>1, <1>2, <1>3

LEMMA EraseStep ==
  ASSUME CodeInv, ReduceInv, EraseSelfMove, UNCHANGED <<nextId, slots, spilled>>
  PROVE  CodeInv' /\ ReduceInv'
<1> DEFINE T == Fits(nextId, slots, Taken)
<1>1. PICK b0 \in Block, c \in Nat \ {0} : cursor = <<b0, c>>
  BY DEF ReduceInv
<1>2. /\ c \in DOMAIN code[b0] /\ Inst = code[b0][c] /\ Inst \in T /\ cursor' = <<b0, c + 1>>
      /\ Inst.op = "mv" /\ Inst.src = Inst.dst /\ Inst.dst = <<Inst.dst[1]>>
      /\ fn' = fn /\ code' = [code EXCEPT ![b0][c] = Erased(@)]
  <2>1. InBlock /\ Inst.op = "mv" /\ Inst.src = Inst.dst
    BY DEF EraseSelfMove
  <2> QED
    BY <1>1, <2>1, AtInst DEF Inst, EraseSelfMove, Step
<1> DEFINE e == Erased(Inst)
<1>3. e \in T /\ e.op = "erased" /\ e.def = Inst.def /\ e.use = Inst.use /\ e.dst = <<>> /\ e.src = <<>>
  BY <1>2, ErasedFacts
<1>4. /\ DOMAIN code' = Block /\ code' = [b \in DOMAIN code' |-> code'[b]]
      /\ \A b \in Block \ {b0} : code'[b] = code[b]
      /\ DOMAIN code'[b0] = DOMAIN code[b0] /\ code'[b0] = [k \in DOMAIN code'[b0] |-> code'[b0][k]]
      /\ code'[b0][c] = e /\ \A k \in DOMAIN code[b0] : k # c => code'[b0][k] = code[b0][k]
  <2>1. code \in [Block -> Seq(T)]
    BY DEF CodeInv
  <2> HIDE DEF T
  <2> QED
    BY <1>2, <2>1
<1> HIDE DEF e
<1>5. ASSUME NEW b \in Block
      PROVE  /\ code[b] \in Seq(T) /\ code'[b] \in Seq(T) /\ Len(code'[b]) = Len(code[b])
             /\ DOMAIN code'[b] = DOMAIN code[b]
             /\ Len(code[b]) \in Nat /\ DOMAIN code[b] = 1..Len(code[b])
             /\ \A k \in DOMAIN code[b] : <<b, k>> # <<b0, c>> => code'[b][k] = code[b][k]
  <2>1. code[b] \in Seq(T)
    BY DEF CodeInv
  <2> HIDE DEF T
  <2>2. CASE b # b0
    BY <1>4, <2>1, <2>2
  <2>3. CASE b = b0
    <3>1. \A k \in DOMAIN code[b] : code'[b][k] \in T
      BY <1>3, <1>4, <2>1, <2>3
    <3>2. code'[b] \in Seq(T) /\ Len(code'[b]) = Len(code[b])
      BY <1>4, <2>1, <2>3, <3>1, SeqChanged
    <3> QED
      BY <1>4, <2>1, <2>3, <3>2
  <2> QED
    BY <2>2, <2>3
<1>6. CodeInv'
  <2>1. code' \in [Block -> Seq(T)]
    BY <1>4, <1>5
  <2>2. T' = T
    BY DEF Fits, Taken
  <2> QED
    BY <1>2, <2>1, <2>2 DEF CodeInv
<1>7. \A b \in Block : \A k \in DOMAIN code'[b] :
        /\ code'[b][k].op = "mv" => <<b, k>> # <<b0, c>>
        /\ Writes(code'[b][k]) \subseteq Writes(code[b][k])
  <2>1. Writes(e) = {}
    BY <1>3 DEF Writes, Range
  <2> QED
    BY <1>3, <1>4, <1>5, <2>1
<1>8. PICK m : Certifies(m, code, FALSE) /\ Unsettled(m)
  BY DEF ReduceInv
<1>9. ASSUME NEW b \in Block PROVE Annotates(code'[b], m[b])
  <2>1. Annotates(code[b], m[b])
    BY <1>8 DEF Certifies
  <2>2. CASE b # b0
    BY <1>4, <2>1, <2>2
  <2>3. CASE b = b0
    <3>1. /\ c \in 1..Len(code[b]) /\ c + 1 \in 1..(Len(code[b]) + 1)
          /\ m[b] \in [1..(Len(code[b]) + 1) -> SUBSET Pairs]
      BY <1>2, <1>5, <2>1, <2>3 DEF Annotates
    <3>2. Carries(Inst, m[b][c], m[b][c + 1])
      BY <1>2, <2>1, <2>3, <3>1 DEF Annotates
    <3>3. \A p, u : <<p, u>> \in m[b][c + 1] => p # Settled
      BY <1>8, <3>1 DEF Unsettled
    <3>4. Carries(e, m[b][c], m[b][c + 1]) /\ Finds(e, m[b][c])
      <4> DEFINE A == m[b][c]
                 B == m[b][c + 1]
                 s == Inst.dst[1]
      <4>1. Inst.src = <<s>> /\ Inst.dst = <<s>> /\ Inst.op = "mv"
        BY <1>2
      <4>2. Carries(Inst, A, B)
        BY <3>2
      <4>3. Keeps(A, B, A, B, s, s)
        BY <3>3 DEF Keeps
      <4> HIDE DEF A, B, s
      <4>4. Carries(e, A, B) /\ Finds(e, A)
        BY <1>3, <4>1, <4>2, <4>3, ErasedCarries
      <4> QED
        BY <4>4 DEF A, B
    <3>5. \A k \in 1..Len(code[b]) : Carries(code'[b][k], m[b][k], m[b][k + 1]) /\ Finds(code'[b][k], m[b][k])
      BY <1>4, <1>5, <2>1, <2>3, <3>4 DEF Annotates
    <3> QED
      BY <1>5, <3>1, <3>5 DEF Annotates
  <2> QED
    BY <2>2, <2>3
<1>10. Certifies(m, code', FALSE)
  BY <1>5, <1>8, <1>9 DEF Certifies
<1>11. Certifies(m, code, FALSE)'
  BY <1>2, <1>10, CertifiesSame
<1>12. ASSUME NEW b \in Block, Returning(b)
       PROVE  \E J : WritesLast(code'[b], J) /\ Staying(code'[b], J)
  <2>1. PICK K : WritesLast(code[b], K) /\ Staying(code[b], K)
    BY <1>12 DEF ReduceInv
  <2>2. CASE b # b0
    BY <1>4, <2>1, <2>2
  <2>3. CASE b = b0
    <3>1. \A i \in T : i.op = "mv" => i.src # <<>>
      <4>1. \A i \in T : i.op = "mv" => Len(i.src) = 1
        BY DEF Fits, Shaped
      <4>2. Len(<<>>) = 0
        OBVIOUS
      <4> HIDE DEF T
      <4> QED
        BY <4>1, <4>2
    <3>2. \A k \in DOMAIN code[b] : code[b][k].op = "mv" => code[b][k].src # <<>>
      <4> HIDE DEF T
      <4> QED
        BY <1>5, <3>1
    <3> DEFINE is == code[b]
               is2 == code'[b]
               n == Len(code[b])
    <3>3. /\ n \in Nat /\ DOMAIN is = 1..n /\ DOMAIN is2 = 1..n /\ Len(is) = n /\ Len(is2) = n
          /\ c \in 1..n /\ \A k \in 1..n : k # c => is2[k] = is[k]
          /\ is2[c].op = "erased" /\ is2[c].dst = <<>>
          /\ is[c].op = "mv" /\ is[c].src = is[c].dst
          /\ \A k \in 1..n : is[k].op = "mv" => is[k].src # <<>>
      BY <1>2, <1>3, <1>4, <1>5, <2>3, <3>2
    <3>4. WritesLast(is, K) /\ Staying(is, K)
      BY <2>1
    <3> HIDE DEF is, is2, n
    <3>5. \E J : WritesLast(is2, J) /\ Staying(is2, J)
      BY <3>3, <3>4, StayErased
    <3> QED
      BY <3>5 DEF is2
  <2> QED
    BY <2>2, <2>3
<1>13. ReduceInv'
  <2>1. cursor' \in Block \X (Nat \ {0})
    BY <1>2
  <2>2. \A b \in Block : \A k \in DOMAIN code'[b] : code'[b][k].op = "mv" => Len(code'[b][k].dst) = 1
    BY <1>5, <1>7 DEF ReduceInv
  <2>3. \A v \in VReg \ fn'.phis : \A b, x \in Block : \A j \in DOMAIN code'[b], k \in DOMAIN code'[x] :
          v \in Writes(code'[b][j]) /\ v \in Writes(code'[x][k]) => b = x /\ j = k
    <3>1. \A b \in Block : \A k \in DOMAIN code'[b] :
            k \in DOMAIN code[b] /\ \A v : v \in Writes(code'[b][k]) => v \in Writes(code[b][k])
      BY <1>5, <1>7
    <3>2. \A v \in VReg \ fn.phis : \A b, x \in Block : \A j \in DOMAIN code[b], k \in DOMAIN code[x] :
            v \in Writes(code[b][j]) /\ v \in Writes(code[x][k]) => b = x /\ j = k
      BY DEF ReduceInv
    <3> SUFFICES ASSUME NEW v \in VReg \ fn.phis, NEW b \in Block, NEW x \in Block,
                        NEW j \in DOMAIN code'[b], NEW k \in DOMAIN code'[x],
                        v \in Writes(code'[b][j]), v \in Writes(code'[x][k])
                 PROVE  b = x /\ j = k
      BY <1>2
    <3>3. /\ j \in DOMAIN code[b] /\ v \in Writes(code[b][j])
          /\ k \in DOMAIN code[x] /\ v \in Writes(code[x][k])
      BY <3>1
    <3> QED
      BY <3>2, <3>3
  <2>4. Unsettled(m)'
    BY <1>8 DEF Unsettled
  <2>5. \A b \in Block : Returning(b)' => \E K : (WritesLast(code[b], K) /\ Staying(code[b], K))'
    BY <1>2, <1>12, ReturnSame
  <2> QED
    BY <1>11, <2>1, <2>2, <2>3, <2>4, <2>5 DEF ReduceInv
<1> QED
  BY <1>6, <1>13

\* Without place s, and with place d taking over from it.
Drop(A, s) == {x \in A : x[1] # InReg(s)}
Swap(A, s, d) ==
  {x \in Pairs : \/ x \in A /\ x[1] # InReg(s) /\ x[1] # InReg(d)
                 \/ x[1] = InReg(d) /\ <<InReg(s), x[2]>> \in A}

LEMMA DropFacts ==
  ASSUME NEW A \in SUBSET Pairs, NEW s
  PROVE  /\ Drop(A, s) \in SUBSET Pairs
         /\ \A p, u : <<p, u>> \in Drop(A, s) <=> <<p, u>> \in A /\ p # InReg(s)
BY DEF Drop

LEMMA SwapFacts ==
  ASSUME NEW A \in SUBSET Pairs, NEW s, NEW d \in Regs
  PROVE  /\ Swap(A, s, d) \in SUBSET Pairs
         /\ \A p, u : <<p, u>> \in Swap(A, s, d) <=>
              \/ <<p, u>> \in A /\ p # InReg(s) /\ p # InReg(d)
              \/ p = InReg(d) /\ <<InReg(s), u>> \in A
<1>1. \A u : <<InReg(s), u>> \in A => <<InReg(d), u>> \in Pairs
  BY PlaceFacts
<1> QED
  BY <1>1 DEF Swap

\* The places a move's instruction leaves alone.
LEMMA DropCarries ==
  ASSUME NEW i \in Instr, Shaped(i), NEW s, s \notin Reads(i) \cup Writes(i),
         NEW A \in SUBSET Pairs, NEW B \in SUBSET Pairs, Carries(i, A, B), Finds(i, A),
         \A p, u : <<p, u>> \in B => p # Settled
  PROVE  Carries(i, Drop(A, s), Drop(B, s)) /\ Finds(i, Drop(A, s))
<1> DEFINE X == Drop(A, s)
           Y == Drop(B, s)
<1>1. /\ \A p, u : <<p, u>> \in X <=> <<p, u>> \in A /\ p # InReg(s)
      /\ \A p, u : <<p, u>> \in Y <=> <<p, u>> \in B /\ p # InReg(s)
  BY DropFacts
<1>2. /\ \A k \in DOMAIN i.src : InReg(i.src[k]) # InReg(s)
      /\ \A k \in DOMAIN i.dst : InReg(i.dst[k]) # InReg(s)
  BY PlaceFacts DEF Reads, Writes, Range
<1>3. \A n : InSlot(n) # InReg(s)
  BY PlaceFacts
<1> HIDE DEF X, Y
<1>4. Copies(i, X, i, A)
  BY <1>1, <1>2, <1>3 DEF Copies
<1>5. ASSUME NEW p, NEW u, <<p, u>> \in Y
      PROVE  \E q : <<q, u>> \in B /\ Follows(i, X, p, i, A, q)
  <2>1. <<p, u>> \in B /\ p # InReg(s) /\ p # Settled
    BY <1>1, <1>5
  <2>2. \A w : <<p, w>> \in A => <<p, w>> \in X
    BY <1>1, <2>1
  <2>3. \/ \E k \in DOMAIN i.dst : p = InReg(i.dst[k])
        \/ Saves(i, p)
        \/ Spared(i, p)
    BY <2>1 DEF Spared
  <2>4. \A k, n \in DOMAIN i.dst : i.dst[n] = i.dst[k] /\ p = InReg(i.dst[k]) => p = InReg(i.dst[n])
    OBVIOUS
  <2>5. Follows(i, X, p, i, A, p)
    BY <2>2, <2>3, <2>4 DEF Follows
  <2> QED
    BY <2>1, <2>5
<1>6. Carries(i, X, Y)
  BY <1>4, <1>5, Simulates
<1>7. Finds(i, X)
  BY <1>4, FindsCopy
<1> QED
  BY <1>6, <1>7 DEF X, Y

LEMMA SwapCarries ==
  ASSUME NEW i \in Instr, Shaped(i), NEW s \in Regs, NEW d \in Regs,
         s \notin Reads(i) \cup Writes(i), d \notin Reads(i) \cup Writes(i),
         NEW A \in SUBSET Pairs, NEW B \in SUBSET Pairs, Carries(i, A, B), Finds(i, A),
         \A p, u : <<p, u>> \in B => p # Settled
  PROVE  Carries(i, Swap(A, s, d), Swap(B, s, d)) /\ Finds(i, Swap(A, s, d))
<1> DEFINE X == Swap(A, s, d)
           Y == Swap(B, s, d)
<1>1. /\ \A p, u : <<p, u>> \in X <=> \/ <<p, u>> \in A /\ p # InReg(s) /\ p # InReg(d)
                                      \/ p = InReg(d) /\ <<InReg(s), u>> \in A
      /\ \A p, u : <<p, u>> \in Y <=> \/ <<p, u>> \in B /\ p # InReg(s) /\ p # InReg(d)
                                      \/ p = InReg(d) /\ <<InReg(s), u>> \in B
  BY SwapFacts
<1>2. /\ \A k \in DOMAIN i.src : InReg(i.src[k]) # InReg(s) /\ InReg(i.src[k]) # InReg(d)
      /\ \A k \in DOMAIN i.dst : InReg(i.dst[k]) # InReg(s) /\ InReg(i.dst[k]) # InReg(d)
  BY PlaceFacts DEF Reads, Writes, Range
<1>3. \A n : InSlot(n) # InReg(s) /\ InSlot(n) # InReg(d)
  BY PlaceFacts
<1> HIDE DEF X, Y
<1>4. Copies(i, X, i, A)
  BY <1>1, <1>2, <1>3 DEF Copies
<1>5. ASSUME NEW p, NEW u, <<p, u>> \in Y
      PROVE  \E q : <<q, u>> \in B /\ Follows(i, X, p, i, A, q)
  <2>1. CASE <<p, u>> \in B /\ p # InReg(s) /\ p # InReg(d)
    <3>1. p # Settled
      BY <2>1
    <3>2. \A w : <<p, w>> \in A => <<p, w>> \in X
      BY <1>1, <2>1
    <3>3. \/ \E k \in DOMAIN i.dst : p = InReg(i.dst[k])
          \/ Saves(i, p)
          \/ Spared(i, p)
      BY <3>1 DEF Spared
    <3>4. \A k, n \in DOMAIN i.dst : i.dst[n] = i.dst[k] /\ p = InReg(i.dst[k]) => p = InReg(i.dst[n])
      OBVIOUS
    <3>5. Follows(i, X, p, i, A, p)
      BY <3>2, <3>3, <3>4 DEF Follows
    <3> QED
      BY <2>1, <3>5
  <2>2. CASE p = InReg(d) /\ <<InReg(s), u>> \in B
    <3>1. Spared(i, InReg(s)) /\ Spared(i, p)
      BY <1>2, <2>2, PlaceFacts DEF Spared, Saves
    <3>2. \A w : <<InReg(s), w>> \in A => <<p, w>> \in X
      BY <1>1, <2>2
    <3>3. Follows(i, X, p, i, A, InReg(s))
      BY <3>1, <3>2 DEF Follows
    <3> QED
      BY <2>2, <3>3
  <2> QED
    BY <1>1, <1>5, <2>1, <2>2
<1>6. Carries(i, X, Y)
  BY <1>4, <1>5, Simulates
<1>7. Finds(i, X)
  BY <1>4, FindsCopy
<1> QED
  BY <1>6, <1>7 DEF X, Y

LEMMA SourceCarries ==
  ASSUME NEW i \in Instr, Shaped(i), NEW s \in Regs, NEW d \in Regs, s \notin Reads(i),
         i.dst = <<s>>, NEW j, j.op = i.op, j.def = i.def, j.use = i.use, j.src = i.src,
         j.imm = i.imm, j.dst = <<d>>,
         NEW A \in SUBSET Pairs, NEW B \in SUBSET Pairs, Carries(i, A, B), Finds(i, A),
         \A p, u : <<p, u>> \in B => p # Settled
  PROVE  Carries(j, Drop(A, s), Swap(B, s, d)) /\ Finds(j, Drop(A, s))
<1> DEFINE X == Drop(A, s)
           Y == Swap(B, s, d)
<1>1. /\ \A p, u : <<p, u>> \in X <=> <<p, u>> \in A /\ p # InReg(s)
      /\ \A p, u : <<p, u>> \in Y <=> \/ <<p, u>> \in B /\ p # InReg(s) /\ p # InReg(d)
                                      \/ p = InReg(d) /\ <<InReg(s), u>> \in B
  BY DropFacts, SwapFacts
<1>2. \A k \in DOMAIN i.src : InReg(i.src[k]) # InReg(s)
  BY PlaceFacts DEF Reads, Range
<1>3. \A n : InSlot(n) # InReg(s)
  BY PlaceFacts
<1>4. DOMAIN i.dst = {1} /\ DOMAIN j.dst = {1} /\ i.dst[1] = s /\ j.dst[1] = d
  OBVIOUS
<1> HIDE DEF X, Y
<1>5. Copies(j, X, i, A)
  BY <1>1, <1>2, <1>3, <1>4 DEF Copies
<1>6. ASSUME NEW p, NEW u, <<p, u>> \in Y
      PROVE  \E q : <<q, u>> \in B /\ Follows(j, X, p, i, A, q)
  <2>1. CASE <<p, u>> \in B /\ p # InReg(s) /\ p # InReg(d)
    <3>1. p # Settled
      BY <2>1
    <3>2. \A w : <<p, w>> \in A => <<p, w>> \in X
      BY <1>1, <2>1
    <3>3. Saves(i, p) \/ (Spared(i, p) /\ Spared(j, p))
      BY <1>4, <2>1, <3>1 DEF Spared, Saves
    <3>4. Follows(j, X, p, i, A, p)
      BY <3>2, <3>3 DEF Follows
    <3> QED
      BY <2>1, <3>4
  <2>2. CASE p = InReg(d) /\ <<InReg(s), u>> \in B
    <3>1. Follows(j, X, p, i, A, InReg(s))
      BY <1>4, <2>2 DEF Follows
    <3> QED
      BY <2>2, <3>1
  <2> QED
    BY <1>1, <1>6, <2>1, <2>2
<1>7. Carries(j, X, Y)
  BY <1>5, <1>6, Simulates
<1>8. Finds(j, X)
  BY <1>5, FindsCopy
<1> QED
  BY <1>7, <1>8 DEF X, Y

LEMMA RedirectedFacts ==
  ASSUME NEW next, NEW size, NEW free, NEW i \in Fits(next, size, free), NEW s \in VReg, i.dst = <<s>>,
         NEW d \in Regs, d \in VReg => d < next
  PROVE  LET j == [i EXCEPT !.dst = <<d>>] IN
         /\ j \in Fits(next, size, free)
         /\ j.op = i.op /\ j.def = i.def /\ j.use = i.use /\ j.src = i.src /\ j.imm = i.imm
         /\ j.dst = <<d>>
<1> DEFINE t == <<d>>
           j == [i EXCEPT !.dst = t]
<1>1. i \in Instr /\ Shaped(i)
  BY DEF Fits
<1>2. t \in Seq(Regs) /\ Len(t) = 1 /\ Range(t) = {d}
  BY DEF Range
<1>3. t = <<d>>
  OBVIOUS
<1> HIDE DEF t
<1>4. /\ j \in Instr /\ j.op = i.op /\ j.def = i.def /\ j.use = i.use /\ j.src = i.src /\ j.imm = i.imm
      /\ j.dst = t
  BY <1>1, <1>2 DEF Instr
<1>5. Writes(j) = {d} /\ Reads(j) = Reads(i)
  BY <1>2, <1>4 DEF Writes, Reads
<1>6. i.op \notin {"call", "erased"}
  <2>1. i.dst # <<>>
    OBVIOUS
  <2>2. i.dst \notin Seq(MReg)
    <3>1. 1 \in DOMAIN i.dst /\ i.dst[1] = s
      OBVIOUS
    <3>2. s \notin MReg
      BY RegFacts
    <3> QED
      BY <3>1, <3>2
  <2> QED
    BY <1>1, <2>1, <2>2 DEF Shaped
<1>7. Shaped(j)
  BY <1>1, <1>2, <1>4, <1>6 DEF Shaped
<1>8. j \in Fits(next, size, free)
  <2> HIDE DEF j
  <2> QED
    BY <1>4, <1>5, <1>7 DEF Fits
<1> QED
  BY <1>3, <1>4, <1>8

LEMMA StayUnsettled ==
  ASSUME NEW A \in SUBSET Pairs, NEW s, NEW d \in Regs, NEW u, <<Settled, u>> \notin A
  PROVE  <<Settled, u>> \notin Drop(A, s) /\ <<Settled, u>> \notin Swap(A, s, d)
<1>1. Settled # InReg(d)
  BY PlaceFacts
<1> QED
  BY <1>1, SwapFacts, DropFacts

\* The move is gone: what s had is in d before it, and after it.
LEMMA MoveCarries ==
  ASSUME NEW i, NEW e, NEW s \in Regs, NEW d \in Regs, i.op = "mv", i.src = <<s>>, i.dst = <<d>>,
         e.op = "erased", e.def = i.def, e.use = i.use, e.dst = <<>>,
         NEW A \in SUBSET Pairs, NEW B \in SUBSET Pairs, Carries(i, A, B),
         \A p, u : <<p, u>> \in B => p # Settled
  PROVE  Carries(e, Swap(A, s, d), Drop(B, s)) /\ Finds(e, Swap(A, s, d))
<1> DEFINE X == Swap(A, s, d)
           Y == Drop(B, s)
<1>1. /\ \A p, u : <<p, u>> \in X <=> \/ <<p, u>> \in A /\ p # InReg(s) /\ p # InReg(d)
                                      \/ p = InReg(d) /\ <<InReg(s), u>> \in A
      /\ \A p, u : <<p, u>> \in Y <=> <<p, u>> \in B /\ p # InReg(s)
  BY DropFacts, SwapFacts
<1> HIDE DEF X, Y
<1>2. Keeps(A, B, X, Y, s, d)
  BY <1>1 DEF Keeps
<1>3. Carries(e, X, Y) /\ Finds(e, X)
  BY <1>2, ErasedCarries
<1> QED
  BY <1>3 DEF X, Y

\* No point of q says that iRegs[1] is settled.
Open(q) == \A k \in DOMAIN q : \A u : <<Settled, u>> \notin q[k]

\* q2 annotates the n instructions is2 as q did, s left out at either end.
Omits(q2, is2, n, q, s) ==
  /\ Annotates(is2, q2) /\ Open(q2)
  /\ q2[1] = Drop(q[1], s) /\ q2[n + 1] = Drop(q[n + 1], s)

\* Code that never names s, with s left out.
LEMMA DroppedAnnotates ==
  ASSUME NEW next, NEW size, NEW free, NEW is \in Seq(Fits(next, size, free)),
         NEW s, \A k \in DOMAIN is : s \notin Reads(is[k]) \cup Writes(is[k]),
         NEW q, Annotates(is, q), Open(q)
  PROVE  \E q2 : Omits(q2, is, Len(is), q, s)
<1>0. \A k \in DOMAIN q : \A u : <<Settled, u>> \notin q[k]
  BY DEF Open
<1> USE <1>0
<1> DEFINE n == Len(is)
           q2 == [k \in 1..(n + 1) |-> Drop(q[k], s)]
           T == Fits(next, size, free)
<1>1. /\ n \in Nat /\ DOMAIN is = 1..n /\ \A k \in 1..n : is[k] \in T
      /\ q \in [1..(n + 1) -> SUBSET Pairs]
      /\ \A k \in 1..n : Carries(is[k], q[k], q[k + 1]) /\ Finds(is[k], q[k])
  <2>1. is \in Seq(T)
    OBVIOUS
  <2> HIDE DEF T
  <2> QED
    BY <2>1 DEF Annotates
<1>2. \A i \in T : i \in Instr /\ Shaped(i)
  BY DEF Fits
<1>3. q2 \in [1..(n + 1) -> SUBSET Pairs]
  <2>1. \A k \in 1..(n + 1) : Drop(q[k], s) \in SUBSET Pairs
    BY <1>1, DropFacts
  <2> QED
    BY <2>1
<1>4. \A k \in 1..(n + 1) : q2[k] = Drop(q[k], s)
  OBVIOUS
<1>5. 1 \in 1..(n + 1) /\ n + 1 \in 1..(n + 1) /\ \A k \in 1..n : k \in 1..(n + 1) /\ k + 1 \in 1..(n + 1)
  BY <1>1
<1> HIDE DEF q2, n, T
<1>6. ASSUME NEW k \in 1..n PROVE Carries(is[k], q2[k], q2[k + 1]) /\ Finds(is[k], q2[k])
  <2> DEFINE A == q[k]
             B == q[k + 1]
  <2>1. /\ A \in SUBSET Pairs /\ B \in SUBSET Pairs /\ Carries(is[k], A, B) /\ Finds(is[k], A)
        /\ is[k] \in Instr /\ Shaped(is[k]) /\ s \notin Reads(is[k]) \cup Writes(is[k])
    BY <1>1, <1>2, <1>5
  <2>2. \A p, u : <<p, u>> \in B => p # Settled
    BY <1>1, <1>5
  <2>3. q2[k] = Drop(A, s) /\ q2[k + 1] = Drop(B, s)
    BY <1>4, <1>5
  <2> HIDE DEF A, B
  <2> QED
    BY <2>1, <2>2, <2>3, DropCarries
<1>7. Annotates(is, q2)
  BY <1>3, <1>6 DEF Annotates, n
<1>8. \A k \in DOMAIN q2 : \A u : <<Settled, u>> \notin q2[k]
  BY <1>1, <1>3, <1>4 DEF Drop
<1>9. q2[1] = Drop(q[1], s) /\ q2[n + 1] = Drop(q[n + 1], s)
  BY <1>4, <1>5
<1> QED
  BY <1>7, <1>8, <1>9 DEF n, Omits, Open

\* The block of the move: from j to c, place d has what s had.
LEMMA ReducedAnnotates ==
  ASSUME NEW next, NEW size, NEW free, NEW is \in Seq(Fits(next, size, free)),
         NEW is2, NEW n, NEW j, NEW c, NEW s, NEW d, Redirects(is, is2, n, j, c, s, d),
         d \in VReg => d < next,
         NEW q, Annotates(is, q), Open(q)
  PROVE  \E q2 : Omits(q2, is2, n, q, s)
<1>0. /\ n \in Nat /\ n = Len(is) /\ Len(is2) = n /\ j \in 1..n /\ c \in 1..n /\ j < c
      /\ \A k \in 1..n : k # c /\ k # j => is2[k] = is[k]
      /\ s \in VReg /\ d \in Regs /\ s # d
      /\ is[c].op = "mv" /\ is[c].src = <<s>> /\ is[c].dst = <<d>> /\ is[j].dst = <<s>>
      /\ is2[c] = Erased(is[c]) /\ is2[j] = [is[j] EXCEPT !.dst = <<d>>]
      /\ \A k \in (j + 1)..(c - 1) : ~Blocks(is[k], d)
      /\ \A k \in 1..n : s \in Reads(is[k]) => k = c
      /\ \A k \in 1..n : s \in Writes(is[k]) => k = j
      /\ \A k \in DOMAIN q : \A u : <<Settled, u>> \notin q[k]
  BY DEF Redirects, Open
<1> USE <1>0
<1> DEFINE q2 == [k \in 1..(n + 1) |-> IF j < k /\ k <= c THEN Swap(q[k], s, d) ELSE Drop(q[k], s)]
           T == Fits(next, size, free)
<1>1. /\ n \in Nat /\ DOMAIN is = 1..n /\ \A k \in 1..n : is[k] \in T
      /\ q \in [1..(n + 1) -> SUBSET Pairs]
      /\ \A k \in 1..n : Carries(is[k], q[k], q[k + 1]) /\ Finds(is[k], q[k])
  <2>1. is \in Seq(T)
    OBVIOUS
  <2> HIDE DEF T
  <2> QED
    BY <2>1 DEF Annotates
<1>2. \A i \in T : i \in Instr /\ Shaped(i)
  BY DEF Fits
<1>3. q2 \in [1..(n + 1) -> SUBSET Pairs]
  <2>1. \A k \in 1..(n + 1) : Drop(q[k], s) \in SUBSET Pairs /\ Swap(q[k], s, d) \in SUBSET Pairs
    BY <1>1, DropFacts, SwapFacts
  <2> QED
    BY <2>1
<1>4. \A k \in 1..(n + 1) : q2[k] = IF j < k /\ k <= c THEN Swap(q[k], s, d) ELSE Drop(q[k], s)
  OBVIOUS
<1>5. 1 \in 1..(n + 1) /\ n + 1 \in 1..(n + 1) /\ \A k \in 1..n : k \in 1..(n + 1) /\ k + 1 \in 1..(n + 1)
  BY <1>1
<1> HIDE DEF q2, T
<1>6. ASSUME NEW k \in 1..n PROVE Carries(is2[k], q2[k], q2[k + 1]) /\ Finds(is2[k], q2[k])
  <2> DEFINE A == q[k]
             B == q[k + 1]
  <2>1. /\ A \in SUBSET Pairs /\ B \in SUBSET Pairs /\ Carries(is[k], A, B) /\ Finds(is[k], A)
        /\ is[k] \in T /\ is[k] \in Instr /\ Shaped(is[k])
    BY <1>1, <1>2, <1>5
  <2>2. \A p, u : <<p, u>> \in B => p # Settled
    BY <1>1, <1>5
  <2>3. /\ q2[k] = IF j < k /\ k <= c THEN Swap(A, s, d) ELSE Drop(A, s)
        /\ q2[k + 1] = IF j < k + 1 /\ k + 1 <= c THEN Swap(B, s, d) ELSE Drop(B, s)
    BY <1>4, <1>5
  <2> HIDE DEF A, B
  <2>4. CASE k < j \/ k > c
    <3>1. q2[k] = Drop(A, s) /\ q2[k + 1] = Drop(B, s) /\ is2[k] = is[k] /\ k # c /\ k # j
      BY <2>3, <2>4
    <3>2. s \notin Reads(is[k]) \cup Writes(is[k])
      BY <3>1
    <3> DEFINE i0 == is[k]
    <3>3. i0 \in Instr /\ Shaped(i0) /\ Carries(i0, A, B) /\ Finds(i0, A) /\ s \notin Reads(i0) \cup Writes(i0)
      BY <2>1, <3>2
    <3> HIDE DEF i0
    <3>4. Carries(i0, Drop(A, s), Drop(B, s)) /\ Finds(i0, Drop(A, s))
      BY <2>1, <2>2, <3>3, DropCarries
    <3> QED
      BY <3>1, <3>4 DEF i0
  <2>5. CASE k = j
    <3>1. q2[k] = Drop(A, s) /\ q2[k + 1] = Swap(B, s, d) /\ k # c
      BY <2>3, <2>5
    <3>2. s \notin Reads(is[k]) /\ s \in Regs
      BY <3>1 DEF Regs
    <3> DEFINE i2 == is2[k]
    <3>3. /\ i2.op = is[k].op /\ i2.def = is[k].def /\ i2.use = is[k].use /\ i2.src = is[k].src
          /\ i2.imm = is[k].imm /\ i2.dst = <<d>>
      <4>1. is[k] \in Fits(next, size, free)
        BY <2>1 DEF T
      <4> DEFINE i0 == is[k]
      <4>2. i2 = [i0 EXCEPT !.dst = <<d>>] /\ i0.dst = <<s>> /\ i0 \in Fits(next, size, free)
        BY <2>5, <4>1
      <4> HIDE DEF i0, i2
      <4>3. /\ i2.op = i0.op /\ i2.def = i0.def /\ i2.use = i0.use /\ i2.src = i0.src
            /\ i2.imm = i0.imm /\ i2.dst = <<d>>
        BY <4>2, RedirectedFacts
      <4> QED
        BY <4>3 DEF i0
    <3> HIDE DEF i2
    <3>4. Carries(i2, Drop(A, s), Swap(B, s, d)) /\ Finds(i2, Drop(A, s))
      BY <2>1, <2>2, <2>5, <3>2, <3>3, SourceCarries
    <3> QED
      BY <3>1, <3>4 DEF i2
  <2>6. CASE j < k /\ k < c
    <3>1. q2[k] = Swap(A, s, d) /\ q2[k + 1] = Swap(B, s, d) /\ is2[k] = is[k] /\ k # c /\ k # j
      BY <2>3, <2>6
    <3>2. s \notin Reads(is[k]) \cup Writes(is[k]) /\ s \in Regs
      BY <3>1 DEF Regs
    <3>3. k \in (j + 1)..(c - 1)
      BY <2>6
    <3>4. d \notin Reads(is[k]) \cup Writes(is[k])
      BY <3>3 DEF Blocks
    <3> DEFINE i0 == is[k]
    <3>5. /\ i0 \in Instr /\ Shaped(i0) /\ Carries(i0, A, B) /\ Finds(i0, A)
          /\ s \notin Reads(i0) \cup Writes(i0) /\ d \notin Reads(i0) \cup Writes(i0)
      BY <2>1, <3>2, <3>4
    <3> HIDE DEF i0
    <3>6. Carries(i0, Swap(A, s, d), Swap(B, s, d)) /\ Finds(i0, Swap(A, s, d))
      BY <2>1, <2>2, <3>2, <3>5, SwapCarries
    <3> QED
      BY <3>1, <3>6 DEF i0
  <2>7. CASE k = c
    <3>1. q2[k] = Swap(A, s, d) /\ q2[k + 1] = Drop(B, s)
      BY <2>3, <2>7
    <3> DEFINE i2 == is2[k]
    <3>2. /\ i2.op = "erased" /\ i2.def = is[k].def /\ i2.use = is[k].use /\ i2.dst = <<>>
      <4>1. is[k] \in Fits(next, size, free)
        BY <2>1 DEF T
      <4> QED
        BY <2>7, <4>1, ErasedFacts
    <3> HIDE DEF i2
    <3>5. is[k].op = "mv" /\ is[k].src = <<s>> /\ is[k].dst = <<d>>
      BY <2>7
    <3> DEFINE i0 == is[k]
    <3>6. /\ i0.op = "mv" /\ i0.src = <<s>> /\ i0.dst = <<d>> /\ Carries(i0, A, B)
          /\ i2.op = "erased" /\ i2.def = i0.def /\ i2.use = i0.use /\ i2.dst = <<>>
      BY <2>1, <3>2, <3>5
    <3> HIDE DEF i0
    <3>7. s \in Regs
      BY DEF Regs
    <3>8. Carries(i2, Swap(A, s, d), Drop(B, s)) /\ Finds(i2, Swap(A, s, d))
      BY <2>1, <2>2, <3>6, <3>7, MoveCarries
    <3> QED
      BY <3>1, <3>8 DEF i2
  <2> QED
    BY <2>4, <2>5, <2>6, <2>7
<1>7. Annotates(is2, q2)
  BY <1>3, <1>6 DEF Annotates
<1>8. \A k \in DOMAIN q2 : \A u : <<Settled, u>> \notin q2[k]
  <2> SUFFICES ASSUME NEW k \in 1..(n + 1), NEW u PROVE <<Settled, u>> \notin q2[k]
    BY <1>3
  <2>1. q[k] \in SUBSET Pairs /\ <<Settled, u>> \notin q[k]
    BY <1>1
  <2>2. <<Settled, u>> \notin Drop(q[k], s) /\ <<Settled, u>> \notin Swap(q[k], s, d)
    BY <2>1, StayUnsettled
  <2> QED
    BY <1>4, <2>2
<1>9. q2[1] = Drop(q[1], s) /\ q2[n + 1] = Drop(q[n + 1], s)
  <2>1. ~(j < 1) /\ ~(n + 1 <= c)
    BY <1>1
  <2> QED
    BY <1>4, <1>5, <2>1
<1> QED
  BY <1>7, <1>8, <1>9 DEF Omits, Open

LEMMA ReduceStep ==
  ASSUME CodeInv, ReduceInv, NEW j \in 1..(cursor[2] - 1), Reduce(j), UNCHANGED <<nextId, slots, spilled>>
  PROVE  CodeInv' /\ ReduceInv'
<1> DEFINE T == Fits(nextId, slots, Taken)
<1>1. PICK b0 \in Block, c \in Nat \ {0} : cursor = <<b0, c>>
  BY DEF ReduceInv
<1> DEFINE s == Inst.src[1]
           d == Inst.dst[1]
           is == code[b0]
           n == Len(is)
<1>2. InBlock /\ CanReduce(j) /\ Inst.op = "mv"
  BY DEF Reduce, CanReduce
<1>3. /\ c \in DOMAIN is /\ Inst = is[c] /\ Inst \in T /\ cursor' = <<b0, c + 1>>
      /\ Inst.src = <<s>> /\ Inst.dst = <<d>> /\ s \in Regs /\ d \in Regs
  BY <1>1, <1>2, AtInst DEF Inst, Reduce, Step
<1>4. /\ s \in VReg \ fn.phis /\ s # d /\ is[j].dst = <<s>>
      /\ \A k \in (j + 1)..(c - 1) : ~Blocks(is[k], d)
      /\ \A b \in Block : \A k \in DOMAIN code[b] : s \in Reads(code[b][k]) => b = b0 /\ k = c
  <2>1. cursor[1] = b0 /\ cursor[2] = c
    BY <1>1
  <2>2. ReadOnlyHere(s)
    BY <1>2 DEF CanReduce
  <2>3. \A b \in Block : \A k \in DOMAIN code[b] : s \in Reads(code[b][k]) => b = b0 /\ k = c
    BY <1>1, <2>2 DEF ReadOnlyHere
  <2>4. Inst.src # Inst.dst
    BY <1>2 DEF CanReduce
  <2>5. s # d
    BY <1>3, <2>4
  <2> QED
    BY <1>2, <1>3, <2>1, <2>3, <2>5 DEF CanReduce
<1>5. is \in Seq(T) /\ n \in Nat /\ DOMAIN is = 1..n /\ c \in 1..n /\ j \in 1..n /\ j < c
  <2>1. is \in Seq(T)
    BY DEF CodeInv
  <2>2. cursor[2] = c
    BY <1>1
  <2> HIDE DEF T
  <2> QED
    BY <1>3, <2>1, <2>2
<1>6. d \in VReg => d < nextId
  <2>1. d \in Writes(Inst)
    BY <1>3 DEF Writes, Range
  <2> QED
    BY <1>3, <2>1 DEF Fits
<1> DEFINE e == Erased(is[c])
           r == [is[j] EXCEPT !.dst = <<d>>]
<1>7. e \in T /\ e.op = "erased" /\ e.dst = <<>>
  BY <1>3, ErasedFacts
<1>8. r \in T /\ r.op = is[j].op /\ r.src = is[j].src /\ r.dst = <<d>>
  <2>1. is[j] \in T
    <3> HIDE DEF T
    <3> QED
      BY <1>5
  <2> DEFINE i0 == is[j]
             next == nextId
             size == slots
             free == Taken
  <2>2. i0 \in Fits(next, size, free) /\ i0.dst = <<s>> /\ s \in VReg /\ d \in Regs /\ (d \in VReg => d < next)
    BY <1>3, <1>4, <1>6, <2>1
  <2> HIDE DEF i0, s, d, is, next, size, free
  <2>3. /\ [i0 EXCEPT !.dst = <<d>>] \in Fits(next, size, free)
        /\ [i0 EXCEPT !.dst = <<d>>].op = i0.op /\ [i0 EXCEPT !.dst = <<d>>].src = i0.src
        /\ [i0 EXCEPT !.dst = <<d>>].dst = <<d>>
    BY <2>2, RedirectedFacts
  <2> QED
    BY <2>3 DEF i0, next, size, free
<1>9. /\ DOMAIN code' = Block /\ code' = [b \in DOMAIN code' |-> code'[b]]
      /\ \A b \in Block \ {b0} : code'[b] = code[b]
      /\ DOMAIN code'[b0] = DOMAIN is /\ code'[b0] = [k \in DOMAIN code'[b0] |-> code'[b0][k]]
      /\ code'[b0][c] = e /\ code'[b0][j] = r
      /\ \A k \in DOMAIN is : k # c /\ k # j => code'[b0][k] = is[k]
      /\ fn' = fn
  <2>1. code \in [Block -> Seq(T)]
    BY DEF CodeInv
  <2> DEFINE t == <<d>>
  <2>2. code' = [code EXCEPT ![b0][j].dst = t, ![b0][c] = e]
    <3>1. Inst.dst = t /\ cursor[1] = b0 /\ cursor[2] = c /\ Erased(Inst) = e
      BY <1>1, <1>3
    <3> HIDE DEF t, s, d, n, e
    <3> QED
      BY <3>1 DEF Reduce
  <2>3. fn' = fn
    BY DEF Reduce
  <2> HIDE DEF T
  <2> DEFINE w == [is EXCEPT ![j].dst = t, ![c] = e]
  <2>4. code' = [code EXCEPT ![b0] = w]
    <3>1. b0 \in DOMAIN code
      BY <2>1
    <3> HIDE DEF e, t
    <3> QED
      BY <2>2, <3>1
  <2>5. /\ w[c] = e /\ w[j] = [is[j] EXCEPT !.dst = t] /\ DOMAIN w = DOMAIN is
        /\ w = [k \in DOMAIN w |-> w[k]]
        /\ \A k \in DOMAIN is : k # c /\ k # j => w[k] = is[k]
    <3> DEFINE i1 == [is[j] EXCEPT !.dst = t]
               w1 == [is EXCEPT ![j] = i1]
    <3>1. w = [w1 EXCEPT ![c] = e]
      OBVIOUS
    <3>2. j \in DOMAIN is /\ c \in DOMAIN is /\ c # j
      BY <1>5
    <3> HIDE DEF e, t, is, n, i1, w
    <3>3. w1[j] = i1 /\ DOMAIN w1 = DOMAIN is /\ \A k \in DOMAIN is : k # j => w1[k] = is[k]
      BY <3>2
    <3> HIDE DEF w1
    <3>4. /\ w[c] = e /\ w[j] = i1 /\ DOMAIN w = DOMAIN is /\ w = [k \in DOMAIN w |-> w[k]]
          /\ \A k \in DOMAIN is : k # c /\ k # j => w[k] = is[k]
      BY <3>1, <3>2, <3>3
    <3> QED
      BY <3>4 DEF i1
  <2> HIDE DEF w
  <2>6. code'[b0] = w
    BY <2>1, <2>4
  <2>7. code'[b0][c] = e /\ code'[b0][j] = [is[j] EXCEPT !.dst = t]
    BY <2>5, <2>6
  <2>8. \A k \in DOMAIN is : k # c /\ k # j => code'[b0][k] = is[k]
    BY <2>5, <2>6
  <2>9. DOMAIN code'[b0] = DOMAIN is /\ code'[b0] = [k \in DOMAIN code'[b0] |-> code'[b0][k]]
    BY <2>5, <2>6
  <2>10. /\ DOMAIN code' = Block /\ code' = [b \in DOMAIN code' |-> code'[b]]
         /\ \A b \in Block \ {b0} : code'[b] = code[b]
    BY <2>1, <2>4
  <2> QED
    BY <2>3, <2>7, <2>8, <2>9, <2>10
<1> HIDE DEF e, r
<1>10. ASSUME NEW b \in Block
       PROVE  /\ code[b] \in Seq(T) /\ code'[b] \in Seq(T) /\ Len(code'[b]) = Len(code[b])
              /\ DOMAIN code'[b] = DOMAIN code[b]
              /\ Len(code[b]) \in Nat /\ DOMAIN code[b] = 1..Len(code[b])
  <2>1. code[b] \in Seq(T)
    BY DEF CodeInv
  <2> HIDE DEF T
  <2>2. CASE b # b0
    BY <1>9, <2>1, <2>2
  <2>3. CASE b = b0
    <3>1. \A k \in DOMAIN code[b] : code'[b][k] \in T
      BY <1>7, <1>8, <1>9, <2>1, <2>3
    <3>2. code'[b] \in Seq(T) /\ Len(code'[b]) = Len(code[b])
      BY <1>9, <2>1, <2>3, <3>1, SeqChanged
    <3> QED
      BY <1>9, <2>1, <2>3, <3>2
  <2> QED
    BY <2>2, <2>3
<1>11. CodeInv'
  <2>1. code' \in [Block -> Seq(T)]
    BY <1>9, <1>10
  <2>2. T' = T
    BY DEF Fits, Taken
  <2> QED
    BY <1>9, <2>1, <2>2 DEF CodeInv
<1>12. ASSUME NEW b \in Block, NEW k \in DOMAIN code[b]
       PROVE  \/ <<b, k>> = <<b0, c>> /\ code'[b][k] = e
              \/ <<b, k>> = <<b0, j>> /\ code'[b][k] = r
              \/ <<b, k>> # <<b0, c>> /\ <<b, k>> # <<b0, j>> /\ code'[b][k] = code[b][k]
  BY <1>9
<1>13. \A b, x \in Block : \A k \in DOMAIN code[b], y \in DOMAIN code[x] : \A v \in VReg \ fn.phis :
         v \in Writes(code[b][k]) /\ v \in Writes(code[x][y]) => b = x /\ k = y
  BY DEF ReduceInv
<1>14. d \in Writes(code[b0][c]) /\ s \in Writes(code[b0][j]) /\ Writes(r) = {d} /\ Writes(e) = {}
  BY <1>3, <1>4, <1>7, <1>8 DEF Writes, Range
<1>15. \A b \in Block : \A k \in DOMAIN code[b] : s \in Writes(code[b][k]) => b = b0 /\ k = j
  BY <1>4, <1>5, <1>13, <1>14
<1>16. Redirects(is, code'[b0], n, j, c, s, d)
  <2> DEFINE is2 == code'[b0]
  <2>1. /\ n \in Nat /\ n = Len(is) /\ n = Len(is2) /\ DOMAIN is = 1..n /\ DOMAIN is2 = 1..n
        /\ j \in 1..n /\ c \in 1..n /\ j < c
        /\ \A k \in 1..n : k # c /\ k # j => is2[k] = is[k]
        /\ s \in VReg \ fn.phis /\ d \in Regs /\ s # d
    BY <1>3, <1>4, <1>5, <1>9, <1>10
  <2>2. /\ is[c].op = "mv" /\ is[c].src = <<s>> /\ is[c].dst = <<d>> /\ is[j].dst = <<s>>
        /\ is2[c].op = "erased" /\ is2[c].dst = <<>>
        /\ is2[j].dst = <<d>> /\ is2[j].op = is[j].op /\ is2[j].src = is[j].src
    BY <1>2, <1>3, <1>4, <1>7, <1>8, <1>9
  <2>3. is2[c] = Erased(is[c]) /\ is2[j] = [is[j] EXCEPT !.dst = <<d>>]
    BY <1>9 DEF e, r
  <2>4. \A k \in 1..n : (s \in Reads(is[k]) => k = c) /\ (s \in Writes(is[k]) => k = j)
    BY <1>4, <1>5, <1>15
  <2> HIDE DEF is, is2, n, s, d
  <2> QED
    BY <1>4, <2>1, <2>2, <2>3, <2>4 DEF Redirects, is2
<1>17. PICK m : Certifies(m, code, FALSE) /\ Unsettled(m)
  BY DEF ReduceInv
<1> DEFINE Good(b, q) == Omits(q, code'[b], Len(code[b]), m[b], s)
           m2 == [b \in Block |-> CHOOSE q : Good(b, q)]
<1> HIDE DEF s, d
<1>18. ASSUME NEW b \in Block PROVE Good(b, m2[b])
  <2>1. Annotates(code[b], m[b]) /\ Open(m[b])
    BY <1>17 DEF Certifies, Unsettled, Open
  <2> DEFINE next == nextId
             size == slots
             free == Taken
             q == m[b]
  <2>2. CASE b # b0
    <3>1. code'[b] = code[b] /\ code[b] \in Seq(Fits(next, size, free))
      BY <1>9, <1>10, <2>2
    <3>2. \A k \in DOMAIN code[b] : s \notin Reads(code[b][k]) \cup Writes(code[b][k])
      BY <1>4, <1>15, <2>2
    <3> DEFINE is1 == code[b]
    <3>3. /\ is1 \in Seq(Fits(next, size, free)) /\ Annotates(is1, q)
          /\ \A k \in DOMAIN is1 : s \notin Reads(is1[k]) \cup Writes(is1[k])
          /\ Open(q)
      BY <2>1, <3>1, <3>2
    <3> HIDE DEF is1, next, size, free, q
    <3>4. \E q2 : Omits(q2, is1, Len(is1), q, s)
      BY <3>3, DroppedAnnotates
    <3>5. \E q2 : Good(b, q2)
      BY <3>1, <3>4 DEF is1, q
    <3> HIDE DEF Good
    <3> QED
      BY <3>5
  <2>3. CASE b = b0
    <3> DEFINE is2 == code'[b0]
    <3>1. is \in Seq(Fits(next, size, free)) /\ (d \in VReg => d < next)
      BY <1>5, <1>6
    <3>2. Redirects(is, is2, n, j, c, s, d)
      BY <1>16
    <3>3. Annotates(is, q) /\ Open(q)
      BY <2>1, <2>3
    <3> HIDE DEF is, is2, n, next, size, free, q
    <3>4. \E q2 : Omits(q2, is2, n, q, s)
      BY <3>1, <3>2, <3>3, ReducedAnnotates
    <3>5. \E q2 : Good(b, q2)
      BY <2>3, <3>4 DEF is, is2, n, q
    <3> HIDE DEF Good
    <3> QED
      BY <3>5
  <2> QED
    BY <2>2, <2>3
<1>19. PICK m3 : \A b \in Block : Good(b, m3[b])
  <2> HIDE DEF Good, m2
  <2> QED
    BY <1>18
<1>20. ASSUME NEW b \in Block
        PROVE  /\ Annotates(code'[b], m3[b]) /\ m3[b][1] = Drop(m[b][1], s)
               /\ m3[b][Len(code[b]) + 1] = Drop(m[b][Len(code[b]) + 1], s)
               /\ \A k \in DOMAIN m3[b] : \A u : <<Settled, u>> \notin m3[b][k]
  BY <1>19 DEF Omits, Open
<1> HIDE DEF m2
<1>21. Certifies(m3, code', FALSE)
  <2>1. ASSUME NEW b \in Block, NEW x \in fn.nexts[b]
        PROVE  m3[x][1] \subseteq m3[b][Len(code'[b]) + 1]
    <3>1. x \in Block /\ m[x][1] \subseteq m[b][Len(code[b]) + 1]
      BY <1>11, <1>17, FnFacts DEF Certifies, CodeInv
    <3>2. m3[x][1] = Drop(m[x][1], s) /\ m3[b][Len(code[b]) + 1] = Drop(m[b][Len(code[b]) + 1], s)
      BY <1>20, <3>1
    <3> QED
      BY <1>10, <3>1, <3>2 DEF Drop
  <2>2. \A x \in m3[1][1] : \E y \in MReg : x = <<InReg(y), y>>
    <3>1. m3[1][1] = Drop(m[1][1], s)
      BY <1>20, FnFacts DEF CodeInv
    <3>2. \A x \in m[1][1] : \E y \in MReg : x = <<InReg(y), y>>
      BY <1>17 DEF Certifies
    <3> QED
      BY <3>1, <3>2 DEF Drop
  <2>3. \A b \in Block : Returning(b) => <<InReg(a0), a0>> \in m3[b][Len(code'[b]) + 1]
    <3>1. s # a0
      BY <1>4, RegFacts
    <3>2. InReg(a0) # InReg(s)
      BY <3>1, PlaceFacts
    <3> SUFFICES ASSUME NEW b \in Block, Returning(b)
                 PROVE  <<InReg(a0), a0>> \in m3[b][Len(code'[b]) + 1]
      OBVIOUS
    <3>3. <<InReg(a0), a0>> \in m[b][Len(code[b]) + 1]
      BY <1>17 DEF Certifies
    <3>4. m3[b][Len(code[b]) + 1] = Drop(m[b][Len(code[b]) + 1], s)
      BY <1>20
    <3> QED
      BY <1>10, <3>2, <3>3, <3>4 DEF Drop
  <2> QED
    BY <1>20, <2>1, <2>2, <2>3 DEF Certifies
<1>22. Certifies(m3, code, FALSE)'
  BY <1>9, <1>21, CertifiesSame
<1>23. Unsettled(m3)'
  BY <1>20 DEF Unsettled
<1>24. ASSUME NEW b \in Block, Returning(b)
       PROVE  \E J : WritesLast(code'[b], J) /\ Staying(code'[b], J)
  <2>1. PICK K : WritesLast(code[b], K) /\ Staying(code[b], K)
    BY <1>24 DEF ReduceInv
  <2>2. CASE b # b0
    BY <1>9, <2>1, <2>2
  <2>3. CASE b = b0
    <3>2. \A k \in 1..n : is[k].op = "mv" => is[k].src # <<>>
      <4>1. \A k \in 1..n : is[k] \in T
        <5> HIDE DEF T
        <5> QED
          BY <1>5
      <4> QED
        BY <4>1, MoveSource
    <3> DEFINE is2 == code'[b0]
    <3>3. Redirects(is, is2, n, j, c, s, d)
      BY <1>16
    <3>4. WritesLast(is, K) /\ Staying(is, K)
      BY <2>1, <2>3
    <3> HIDE DEF is, is2, n
    <3>5. \E J : WritesLast(is2, J) /\ Staying(is2, J)
      BY <3>2, <3>3, <3>4, StayReduced
    <3> QED
      BY <2>3, <3>5 DEF is2
  <2> QED
    BY <2>2, <2>3
<1>25. ReduceInv'
  <2>1. cursor' \in Block \X (Nat \ {0})
    BY <1>3
  <2>2. \A b \in Block : \A k \in DOMAIN code'[b] : code'[b][k].op = "mv" => Len(code'[b][k].dst) = 1
    <3>1. \A b \in Block : \A k \in DOMAIN code[b] : code[b][k].op = "mv" => Len(code[b][k].dst) = 1
      BY DEF ReduceInv
    <3>2. Len(r.dst) = 1 /\ e.op # "mv"
      BY <1>7, <1>8
    <3> SUFFICES ASSUME NEW b \in Block, NEW k \in DOMAIN code'[b], code'[b][k].op = "mv"
                 PROVE  Len(code'[b][k].dst) = 1
      OBVIOUS
    <3>3. k \in DOMAIN code[b]
      BY <1>10
    <3> QED
      BY <1>12, <3>1, <3>2, <3>3
  <2>3. \A v \in VReg \ fn'.phis : \A b, x \in Block : \A k \in DOMAIN code'[b], y \in DOMAIN code'[x] :
          v \in Writes(code'[b][k]) /\ v \in Writes(code'[x][y]) => b = x /\ k = y
    <3>1. ASSUME NEW b \in Block, NEW k \in DOMAIN code[b], NEW v \in VReg \ fn.phis,
                 v \in Writes(code'[b][k])
          PROVE  IF v = d THEN b = b0 /\ k = j ELSE v \in Writes(code[b][k])
      <4>1. CASE <<b, k>> = <<b0, j>>
        BY <1>5, <1>12, <1>14, <3>1, <4>1
      <4>2. CASE <<b, k>> # <<b0, j>>
        <5>1. <<b, k>> # <<b0, c>> /\ v \in Writes(code[b][k])
          BY <1>12, <1>14, <3>1, <4>2
        <5>2. v # d
          BY <1>5, <1>13, <1>14, <5>1
        <5> QED
          BY <5>1, <5>2
      <4> QED
        BY <4>1, <4>2
    <3> SUFFICES ASSUME NEW v \in VReg \ fn.phis, NEW b \in Block, NEW x \in Block,
                        NEW k \in DOMAIN code'[b], NEW y \in DOMAIN code'[x],
                        v \in Writes(code'[b][k]), v \in Writes(code'[x][y])
                 PROVE  b = x /\ k = y
      BY <1>9
    <3>2. k \in DOMAIN code[b] /\ y \in DOMAIN code[x]
      BY <1>10
    <3> QED
      BY <1>13, <3>1, <3>2
  <2>4. \A b \in Block : Returning(b)' => \E K : (WritesLast(code[b], K) /\ Staying(code[b], K))'
    BY <1>9, <1>24, ReturnSame
  <2> QED
    BY <1>22, <1>23, <2>1, <2>2, <2>3, <2>4 DEF ReduceInv
<1> QED
  BY <1>11, <1>25

LEMMA CursorMoves ==
  ASSUME CodeInv, ReduceInv, UNCHANGED <<fn, code, nextId, slots, spilled>>,
         cursor' \in Block \X (Nat \ {0})
  PROVE  CodeInv' /\ ReduceInv'
<1>1. CodeInv'
  BY SpilledSame
<1>2. PICK m : Certifies(m, code, FALSE) /\ Unsettled(m)
  BY DEF ReduceInv
<1>3. Certifies(m, code, FALSE)' /\ Unsettled(m)'
  BY <1>2, CertifiesSame DEF Unsettled
<1>4. \A b \in Block : Returning(b)' => \E K : (WritesLast(code[b], K) /\ Staying(code[b], K))'
  BY ReturnSame DEF ReduceInv
<1>5. \A v \in VReg \ fn'.phis : \A b, c \in Block : \A j \in DOMAIN code'[b], k \in DOMAIN code'[c] :
        v \in Writes(code'[b][j]) /\ v \in Writes(code'[c][k]) => b = c /\ j = k
  BY DEF ReduceInv
<1>6. \A b \in Block : \A k \in DOMAIN code'[b] : code'[b][k].op = "mv" => Len(code'[b][k].dst) = 1
  BY DEF ReduceInv
<1> QED
  BY <1>1, <1>3, <1>4, <1>5, <1>6 DEF ReduceInv

LEMMA SettlesAtEnd ==
  ASSUME CodeInv, ReduceInv
  PROVE  \E m : Certifies(m, code, TRUE)
<1>1. \A b \in Block : code[b] \in Seq(Instr)
  <2>1. Fits(nextId, slots, Taken) \subseteq Instr
    BY DEF Fits
  <2> QED
    BY <2>1 DEF CodeInv
<1>2. PICK m : Certifies(m, code, FALSE)
  BY DEF ReduceInv
<1>3. \A b \in Block : Returning(b) => \E K : WritesLast(code[b], K)
  BY DEF ReduceInv
<1> QED
  BY <1>1, <1>2, <1>3, AllSettle DEF CodeInv

LEMMA LowerStep ==
  ASSUME CodeInv, ReduceInv, Lower, UNCHANGED <<nextId, slots, spilled>>
  PROVE  CodeInv' /\ ReduceInv' /\ fn' = fn /\ ~reduced
<1>1. cursor \in Block \X (Nat \ {0})
  BY DEF ReduceInv
<1>2. CASE EraseSelfMove
  BY <1>2, EraseStep DEF EraseSelfMove, InBlock
<1>3. CASE \E j \in 1..(cursor[2] - 1) : Reduce(j)
  BY <1>3, ReduceStep DEF Reduce, InBlock
<1>4. CASE Keep
  <2>1. cursor' \in Block \X (Nat \ {0})
    BY <1>1, <1>4 DEF Keep, Step
  <2> QED
    BY <1>4, <2>1, CursorMoves DEF Keep, InBlock
<1>5. CASE NextBlock
  <2>1. cursor' \in Block \X (Nat \ {0})
    <3>1. CASE cursor[1] < N
      BY <1>1, <1>5, <3>1, RegFacts DEF NextBlock, Block
    <3>2. CASE ~(cursor[1] < N)
      BY <1>5, <3>2, RegFacts DEF NextBlock, Block
    <3> QED
      BY <3>1, <3>2
  <2> QED
    BY <1>5, <2>1, CursorMoves DEF NextBlock
<1> QED
  BY <1>2, <1>3, <1>4, <1>5 DEF Lower

-----------------------------------------------------------------------------
(* The whole run. *)

\* Before the code runs a machine register holds its own value, a slot none.
Fresh == [l \in MReg \cup Slot |-> IF l \in MReg THEN {l} ELSE {}]

RunsInv ==
  /\ CodeInv /\ ColourInv /\ AllocInv
  /\ ~reduced => phase = "round" /\ ReduceInv
  /\ reduced /\ phase # "run" => \E m : Certifies(m, code, TRUE)
  /\ phase = "run" => reduced /\ RunInv
  /\ phase # "run" => at = <<1, 1>> /\ holds = Fresh

\* An exit that returns a result ends with the move to iRegs[1].
LEMMA StartReturns ==
  ASSUME fn \in Functions, code = fn.code, NEW b \in Block, Returning(b)
  PROVE  \E K : WritesLast(code[b], K) /\ (fn.opt # "O0" => Staying(code[b], K))
<1>1. PICK k \in DOMAIN code[b] :
        /\ k = Len(code[b]) /\ \E r \in Regs : code[b][k] = MV(a0, r)
        /\ fn.opt # "O0" => Directly(code[b], k)
  BY DEF Returning, ReturnsAtOnce
<1>2. PICK r \in Regs : code[b][k] = MV(a0, r)
  BY <1>1
<1>3. code[b][k].op = "mv" /\ code[b][k].dst = <<a0>> /\ code[b][k].src = <<r>>
  BY <1>2 DEF MV, Make
<1>4. code[b][k].src[1] = r /\ a0 \in Writes(code[b][k])
  BY <1>3 DEF Writes, Range
<1>5. DOMAIN code[b] = 1..Len(code[b]) /\ Len(code[b]) \in Nat
  BY FunctionsAssumption
<1>6. WritesLast(code[b], k)
  BY <1>1, <1>4, <1>5 DEF WritesLast
<1>7. fn.opt # "O0" => Staying(code[b], k)
  BY <1>1, <1>3, <1>4 DEF Staying
<1> QED
  BY <1>6, <1>7

LEMMA StartReduces ==
  ASSUME fn \in Functions, code = fn.code, fn.opt # "O0", cursor = <<1, 1>>
  PROVE  ReduceInv
<1>1. cursor \in Block \X (Nat \ {0})
  BY FnFacts
<1>2. ASSUME NEW b \in Block, NEW k \in DOMAIN code[b]
      PROVE  /\ code[b][k].op = "mv" => Len(code[b][k].dst) = 1
             /\ VReg \cap Writes(code[b][k]) \subseteq NamedIn(fn)
  <2>1. Generated(code[b][k])
    BY FunctionsAssumption
  <2>2. VReg \cap Writes(code[b][k]) \subseteq NamedIn(fn)
    <3>1. code[b][k] \in Range(fn.code[b])
      BY DEF Range
    <3> QED
      BY <3>1 DEF NamedIn
  <2> QED
    BY <2>1, <2>2, GeneratedFacts
<1>3. \A v \in VReg \ fn.phis : \A b, c \in Block : \A j \in DOMAIN code[b], k \in DOMAIN code[c] :
        v \in Writes(code[b][j]) /\ v \in Writes(code[c][k]) => b = c /\ j = k
  <2> SUFFICES ASSUME NEW v \in VReg \ fn.phis, NEW b \in Block, NEW c \in Block,
                      NEW j \in DOMAIN code[b], NEW k \in DOMAIN code[c],
                      v \in Writes(code[b][j]), v \in Writes(code[c][k])
               PROVE  b = c /\ j = k
    OBVIOUS
  <2>1. v \in NamedIn(fn)
    BY <1>2
  <2>2. WrittenOnce(fn, v)
    BY <2>1, FunctionsAssumption
  <2> QED
    BY <2>2 DEF WrittenOnce
<1>4. \E m : Certifies(m, code, FALSE) /\ Unsettled(m)
  BY StartCertified
<1>5. \A b \in Block : Returning(b) => \E K : WritesLast(code[b], K) /\ Staying(code[b], K)
  BY StartReturns
<1> QED
  BY <1>1, <1>2, <1>3, <1>4, <1>5 DEF ReduceInv

LEMMA StartInv ==
  ASSUME Init
  PROVE  RunsInv
<1>1. /\ fn \in Functions /\ code = fn.code /\ cursor = <<1, 1>> /\ (reduced <=> fn.opt = "O0")
      /\ phase = "round" /\ conflict = <<>> /\ map = <<>> /\ spilled = <<>> /\ slots = 0
      /\ todo = {} /\ allocated = {} /\ nextId = fn.nextId
      /\ at = <<1, 1>> /\ holds = Fresh
  BY DEF Init, ReduceInit, AllocInit, Fresh
<1>2. Taken = {} /\ DOMAIN spilled = {} /\ DOMAIN map = {} /\ DOMAIN conflict = {}
  BY <1>1 DEF Taken
<1>3. fn.nextId \in 1..(MaxReg + 1)
  BY <1>1, FunctionsAssumption
<1>4. code \in [Block -> Seq(Fits(fn.nextId, 0, {}))]
  BY <1>1, StartCertified
<1>5. CodeInv
  BY <1>1, <1>2, <1>3, <1>4, SlotsAssumption DEF CodeInv
<1>6. ColourInv
  BY <1>2 DEF ColourInv, BothWays, ColoursApart
<1>7. AllocInv
  BY <1>1, <1>2 DEF AllocInv, ColourTypes
<1>8. ~reduced => ReduceInv
  BY <1>1, StartReduces
<1>9. reduced => \E m : Certifies(m, code, TRUE)
  <2>1. \A b \in Block : code[b] \in Seq(Instr)
    <3>1. Fits(fn.nextId, 0, {}) \subseteq Instr
      BY DEF Fits
    <3> QED
      BY <1>4, <3>1
  <2>2. \A b \in Block : Returning(b) => \E K : WritesLast(code[b], K)
    BY <1>1, StartReturns
  <2>3. PICK m : Certifies(m, code, FALSE)
    BY <1>1, StartCertified
  <2> QED
    BY <1>1, <2>1, <2>2, <2>3, AllSettle
<1> QED
  BY <1>1, <1>5, <1>6, <1>7, <1>8, <1>9 DEF RunsInv

LEMMA LowerKeeps ==
  ASSUME RunsInv, Lower, UNCHANGED <<allocVars, runVars>>
  PROVE  RunsInv'
<1>1. ~reduced /\ (reduced' => code' = code)
  <2>1. EraseSelfMove => ~reduced /\ ~reduced'
    BY DEF EraseSelfMove, InBlock
  <2>2. \A j : Reduce(j) => ~reduced /\ ~reduced'
    BY DEF Reduce, InBlock
  <2>3. Keep \/ NextBlock => ~reduced /\ code' = code
    BY DEF Keep, NextBlock, InBlock
  <2> QED
    BY <2>1, <2>2, <2>3 DEF Lower
<1>2. CodeInv /\ ReduceInv /\ ColourInv /\ AllocInv /\ phase = "round"
  BY <1>1 DEF RunsInv
<1>3. /\ UNCHANGED <<nextId, slots, spilled, conflict, map, phase, allocated, todo, at, holds>>
  BY DEF allocVars, colourVars, runVars
<1>4. CodeInv' /\ ReduceInv' /\ fn' = fn
  BY <1>2, <1>3, LowerStep
<1>5. ColourInv'
  BY <1>2, <1>3, RestKeeps
<1>6. AllocInv'
  BY <1>2, <1>3 DEF AllocInv, ColourTypes
<1>7. reduced' => \E m : Certifies(m, code, TRUE)'
  <2> SUFFICES ASSUME reduced' PROVE \E m : Certifies(m, code, TRUE)'
    OBVIOUS
  <2>1. PICK m : Certifies(m, code, TRUE)
    BY <1>2, SettlesAtEnd
  <2>2. Certifies(m, code, TRUE)'
    BY <1>1, <1>4, <2>1, CertifiesSame
  <2> QED
    BY <2>2
<1>8. at' = <<1, 1>> /\ holds' = Fresh'
  BY <1>2, <1>3 DEF RunsInv, Fresh, Slot
<1> QED
  BY <1>2, <1>3, <1>4, <1>5, <1>6, <1>7, <1>8 DEF RunsInv

\* What the caller left in the machine registers is all that the code needs.
LEMMA RunStarts ==
  ASSUME CodeInv', at' = <<1, 1>>, holds' = Fresh, NEW m, Certifies(m, code, TRUE)',
         \A b \in Block : \A k \in DOMAIN code'[b] :
           Writes(code'[b][k]) \cup Reads(code'[b][k]) \subseteq MReg
  PROVE  RunInv'
<1>1. 1 \in Block
  BY RegFacts DEF Block
<1>2. code'[1] \in Seq(Fits(nextId, slots, Taken)')
  BY <1>1 DEF CodeInv
<1>3. Len(code'[1]) \in Nat
  BY <1>2
<1>4. \A x \in m[1][1] : \E r \in MReg : x = <<InReg(r), r>>
  BY DEF Certifies
<1>5. /\ DOMAIN holds' = MReg \cup Slot
      /\ \A r \in MReg : holds'[r] = {r}
  BY DEF Fresh
<1>6. Held(m[1][1])'
  <2>1. ASSUME NEW r \in MReg, NEW u, <<InReg(r), u>> \in m[1][1] PROVE u \in holds'[r]
    <3>1. PICK s \in MReg : <<InReg(r), u>> = <<InReg(s), s>>
      BY <1>4, <2>1
    <3>2. InReg(r) = InReg(s) /\ u = s
      BY <3>1
    <3>3. r = s
      BY <3>2, PlaceFacts
    <3> QED
      BY <1>5, <3>2, <3>3
  <2>2. ASSUME NEW n \in Slot, NEW u, <<InSlot(n), u>> \in m[1][1] PROVE FALSE
    <3>1. PICK s \in MReg : <<InSlot(n), u>> = <<InReg(s), s>>
      BY <1>4, <2>2
    <3>2. InSlot(n) = InReg(s)
      BY <3>1
    <3> QED
      BY <3>2, PlaceFacts
  <2> QED
    BY <2>1, <2>2 DEF Held
<1>7. at'[1] = 1 /\ at'[2] = 1
  OBVIOUS
<1>8. (Held(m[at[1]][at[2]]))'
  BY <1>6, <1>7 DEF Held
<1>9. at' \in Block \X (Nat \ {0}) /\ at'[2] <= Len(code'[at'[1]]) + 1
  BY <1>1, <1>3, <1>7
<1> QED
  BY <1>5, <1>8, <1>9 DEF RunInv, Slot

LEMMA AllocKeepsAll ==
  ASSUME RunsInv, reduced, Alloc, UNCHANGED <<reduceVars, runVars>>
  PROVE  RunsInv'
<1>1. AllocKeeps /\ phase # "run"
  BY AllocStep DEF RunsInv
<1>2. PICK m : Certifies(m, code, TRUE)
  BY <1>1 DEF RunsInv
<1>3. PICK m2 : Certifies(m2, code', TRUE)
  BY <1>1, <1>2 DEF AllocKeeps
<1>4. Certifies(m2, code, TRUE)'
  BY <1>1, <1>3, CertifiesSame DEF AllocKeeps
<1>5. reduced' /\ at' = <<1, 1>> /\ holds' = Fresh /\ Fresh' = Fresh
  BY <1>1 DEF RunsInv, reduceVars, runVars, Fresh, Slot
<1>6. phase' = "run" => RunInv'
  BY <1>1, <1>4, <1>5, RunStarts DEF AllocKeeps
<1> QED
  BY <1>1, <1>4, <1>5, <1>6 DEF RunsInv, AllocKeeps

LEMMA RunKeeps ==
  ASSUME RunsInv, UNCHANGED <<fn, code, reduceVars, allocVars>>, phase = "run" => RunInv',
         phase # "run" => UNCHANGED runVars
  PROVE  RunsInv'
<1>1. UNCHANGED <<nextId, slots, spilled, conflict, map, phase, allocated, todo, stopped, infos,
                  liveVars, reduced, cursor>>
  BY DEF allocVars, colourVars, reduceVars, liveVars
<1>2. CodeInv'
  BY <1>1, SpilledSame DEF RunsInv
<1>3. ColourInv'
  BY <1>1, RestKeeps DEF RunsInv
<1>4. AllocInv'
  <2>1. AllocInv /\ InfosOfCode' = InfosOfCode /\ (LP!LiveInv' <=> LP!LiveInv)
    BY <1>1, InfosSame DEF RunsInv
  <2>2. CalcConflictMap' = CalcConflictMap
    BY <1>1, ConflictSame DEF liveVars
  <2>3. ColourTypes' = ColourTypes
    BY <1>1 DEF ColourTypes
  <2> QED
    BY <1>1, <2>1, <2>2, <2>3 DEF AllocInv, VRegsOf
<1>5. ~reduced => ReduceInv'
  <2> SUFFICES ASSUME ~reduced PROVE ReduceInv'
    OBVIOUS
  <2>1. CodeInv /\ ReduceInv
    BY DEF RunsInv
  <2>2. cursor' \in Block \X (Nat \ {0})
    BY <1>1, <2>1 DEF ReduceInv
  <2> QED
    BY <1>1, <2>1, <2>2, CursorMoves
<1>6. reduced /\ phase # "run" => \E m : Certifies(m, code, TRUE)'
  <2> SUFFICES ASSUME reduced, phase # "run" PROVE \E m : Certifies(m, code, TRUE)'
    OBVIOUS
  <2>1. PICK m : Certifies(m, code, TRUE)
    BY DEF RunsInv
  <2>2. Certifies(m, code, TRUE)'
    BY <2>1, CertifiesSame
  <2> QED
    BY <2>2
<1>7. phase # "run" => at' = <<1, 1>> /\ holds' = Fresh'
  BY DEF RunsInv, runVars, Fresh, Slot
<1> QED
  BY <1>1, <1>2, <1>3, <1>4, <1>5, <1>6, <1>7 DEF RunsInv

LEMMA NextKeeps ==
  ASSUME RunsInv, [Next]_vars
  PROVE  RunsInv'
<1>1. CASE Lower /\ UNCHANGED <<allocVars, runVars>>
  BY <1>1, LowerKeeps
<1>2. CASE reduced /\ Alloc /\ UNCHANGED <<reduceVars, runVars>>
  BY <1>2, AllocKeepsAll
<1>3. CASE Execute
  <2>1. phase = "run" /\ UNCHANGED <<fn, code, reduceVars, allocVars>>
    BY <1>3 DEF Execute, Running
  <2>2. RunInv'
    BY <1>3, <2>1, ExecuteHolds DEF RunsInv
  <2> QED
    BY <2>1, <2>2, RunKeeps
<1>4. CASE \E c \in Block : Branch(c)
  <2>1. phase = "run" /\ UNCHANGED <<fn, code, reduceVars, allocVars>>
    BY <1>4 DEF Branch
  <2>2. RunInv'
    BY <1>4, <2>1, BranchHolds DEF RunsInv
  <2> QED
    BY <2>1, <2>2, RunKeeps
<1>5. CASE UNCHANGED vars
  <2>1. UNCHANGED <<fn, code, reduceVars, allocVars, runVars>>
    BY <1>5 DEF vars
  <2>2. phase = "run" => RunInv'
    <3>1. RunInv' = RunInv
      <4>1. UNCHANGED <<fn, code, at, holds>>
        BY <2>1 DEF runVars
      <4>2. \A m : Certifies(m, code, TRUE)' = Certifies(m, code, TRUE)
        BY <4>1 DEF Certifies, Returning, ReturnsAtOnce, Directly, Echo
      <4>3. AddressesKept' = AddressesKept /\ \A m : (Held(m[at[1]][at[2]]))' = Held(m[at[1]][at[2]])
        BY <4>1 DEF AddressesKept, Held, Slot
      <4> QED
        BY <4>1, <4>2, <4>3 DEF RunInv, Slot
    <3> QED
      BY <3>1 DEF RunsInv
  <2> QED
    BY <2>1, <2>2, RunKeeps
<1> QED
  BY <1>1, <1>2, <1>3, <1>4, <1>5 DEF Next, Compile

(***************************************************************************)
(* Every operand is where the instruction looks for it, and the result      *)
(* where the caller looks for it.  The hypotheses leave out the two ways in *)
(* which run code_run_wrong shows it fail: a spilled register that had the  *)
(* address of a local, and a result that is computed into iRegs[1] before   *)
(* the instructions that end the function.                                  *)
(***************************************************************************)
THEOREM ValuesSurvive == Spec => [](AddressesKept /\ ReturnsAtOnce => OperandsSurvive)
<1>1. Init => RunsInv
  BY StartInv
<1>2. RunsInv /\ [Next]_vars => RunsInv'
  BY NextKeeps
<1>3. RunsInv => (AddressesKept /\ ReturnsAtOnce => OperandsSurvive)
  BY RunFinds DEF RunsInv, OperandsSurvive, OperandsFound
<1> QED
  BY <1>1, <1>2, <1>3, PTL DEF Spec

(***************************************************************************)
(* What the instructions read needs no such care with the result: whatever  *)
(* ReduceMove computes into iRegs[1] too early, only the caller misses it.  *)
(***************************************************************************)
THEOREM OperandsAreFound == Spec => [](AddressesKept => OperandsFound)
<1>1. Init => RunsInv
  BY StartInv
<1>2. RunsInv /\ [Next]_vars => RunsInv'
  BY NextKeeps
<1>3. RunsInv => (AddressesKept => OperandsFound)
  BY RunFinds DEF RunsInv
<1> QED
  BY <1>1, <1>2, <1>3, PTL DEF Spec

(***************************************************************************)
(* calcConflictMap and solveSpill: two registers in conflict never have one *)
(* colour, though the map is what spills have left of it and the colours    *)
(* are those of several passes.                                             *)
(***************************************************************************)
THEOREM ConflictsColouredApart == Spec => []ColoursApart
<1>1. Init => RunsInv
  BY StartInv
<1>2. RunsInv /\ [Next]_vars => RunsInv'
  BY NextKeeps
<1>3. RunsInv => ColoursApart
  BY DEF RunsInv, ColourInv
<1> QED
  BY <1>1, <1>2, <1>3, PTL DEF Spec

-----------------------------------------------------------------------------
(* Functions without local arrays. *)

NoAddresses(c) == \A b \in Block : \A k \in DOMAIN c[b] : c[b][k].op # "lea"

\* No pass makes an address where there was none.
LEMMA SpillsNoAddress ==
  ASSUME NEW i \in Instr, i.op # "lea", NEW v, NEW slot, NEW n
  PROVE  \E S : SpillInst(i, v, slot, n) \in Seq(S) /\ \A x \in S : x.op # "lea"
<1> DEFINE q == SpillLoads(i, v, slot, n)
           j == SpillMain(i, v, slot, n)
           saves == SpillSaves(i, v, slot, n)
           S == {LoadFrom(SpillSrc(i, v, n)[k], slot) : k \in DOMAIN i.src}
                  \cup {j} \cup {StoreTo(SpillDst(i, v, n)[1], slot)}
<1>1. Len(i.src) \in Nat /\ DOMAIN i.src = 1..Len(i.src)
  BY DEF Instr
<1>2. FlattenSeq(q) \in Seq(S)
  <2>1. q \in [1..Len(i.src) -> Seq(S)]
    <3> DEFINE load(k) == LoadFrom(SpillSrc(i, v, n)[k], slot)
    <3>1. \A k \in DOMAIN i.src : load(k) \in S
      OBVIOUS
    <3>2. q = [k \in DOMAIN i.src |-> IF i.src[k] = v THEN <<load(k)>> ELSE <<>>]
      BY DEF SpillLoads
    <3> HIDE DEF load, S, q
    <3>3. \A k \in DOMAIN i.src : <<load(k)>> \in Seq(S)
      BY <3>1
    <3> QED
      BY <1>1, <3>2, <3>3
  <2> HIDE DEF q, S, FlattenSeq
  <2> QED
    BY <1>1, <2>1, FlatSeq
<1>3. <<j>> \in Seq(S) /\ saves \in Seq(S)
  <2> HIDE DEF j
  <2> QED
    BY DEF SpillSaves
<1>4. \A x \in S : x.op # "lea"
  <2>1. j.op = i.op
    <3> DEFINE s == SpillSrc(i, v, n)
               d == SpillDst(i, v, n)
               m == IF i.op = "lea" /\ v \in Writes(i) THEN slot ELSE i.imm
    <3>1. j = [i EXCEPT !.src = s, !.dst = d, !.imm = m]
      BY DEF SpillMain
    <3> HIDE DEF s, d, m, j
    <3> QED
      BY <3>1 DEF Instr
  <2>2. \A r : LoadFrom(r, slot).op = "loadFrom" /\ StoreTo(r, slot).op = "storeTo"
    BY DEF LoadFrom, StoreTo, Make
  <2> HIDE DEF j
  <2> QED
    BY <2>1, <2>2
<1>5. SpillInst(i, v, slot, n) \in Seq(S)
  <2> DEFINE loads == FlattenSeq(q)
  <2>1. loads \in Seq(S)
    BY <1>2
  <2> HIDE DEF loads, S, j, saves
  <2>2. loads \o <<j>> \o saves \in Seq(S)
    BY <1>3, <2>1, ConcatProperties
  <2> HIDE DEF FlattenSeq, q
  <2>3. SpillInst(i, v, slot, n) = FlattenSeq(q) \o <<j>> \o saves
    BY SpillParts DEF q, j, saves
  <2> QED
    BY <2>2, <2>3 DEF loads
<1> HIDE DEF S
<1> QED
  BY <1>4, <1>5

LEMMA RewritesNoAddress ==
  ASSUME CodeInv, NoAddresses(code), NEW v \in DOMAIN spilled, Rewrite(v)
  PROVE  NoAddresses(code')
<1> DEFINE s(b, k) == SpillInst(code[b][k], v, spilled[v],
                                nextId + 3 * (Cardinality(Named(v, b, k)) - 1))
           q(b) == [k \in DOMAIN code[b] |-> s(b, k)]
<1>1. code' = [b \in Block |-> FlattenSeq(q(b))]
  BY DEF Rewrite
<1> HIDE DEF FlattenSeq
<1>2. ASSUME NEW b \in Block
      PROVE  \A k \in DOMAIN code'[b] : code'[b][k].op # "lea"
  <2>1. /\ Len(code[b]) \in Nat /\ DOMAIN code[b] = 1..Len(code[b])
        /\ \A k \in 1..Len(code[b]) : code[b][k] \in Instr
    BY RunFacts
  <2> DEFINE S == UNION {Range(s(b, k)) : k \in 1..Len(code[b])}
  <2>2. ASSUME NEW k \in 1..Len(code[b])
        PROVE  s(b, k) \in Seq(S) /\ \A x \in Range(s(b, k)) : x.op # "lea"
    <3>1. code[b][k] \in Instr /\ code[b][k].op # "lea"
      BY <2>1 DEF NoAddresses
    <3> DEFINE t == s(b, k)
    <3>2. PICK W : t \in Seq(W) /\ \A x \in W : x.op # "lea"
      BY <3>1, SpillsNoAddress
    <3>3. Range(t) \subseteq S
      OBVIOUS
    <3> HIDE DEF s, t, S
    <3>4. t \in Seq(S)
      BY <3>2, <3>3 DEF Range
    <3>5. \A x \in Range(t) : x.op # "lea"
      BY <3>2 DEF Range
    <3> QED
      BY <3>4, <3>5 DEF t
  <2>3. \A x \in S : x.op # "lea"
    <3> HIDE DEF s
    <3> QED
      BY <2>2
  <2>4. q(b) \in [1..Len(code[b]) -> Seq(S)]
    <3> HIDE DEF s, S
    <3> QED
      BY <2>1, <2>2
  <2> HIDE DEF S, q, s
  <2>5. FlattenSeq(q(b)) \in Seq(S)
    BY <2>1, <2>4, FlatSeq
  <2>6. code'[b] \in Seq(S)
    BY <1>1, <2>5
  <2> QED
    BY <2>3, <2>6
<1> QED
  BY <1>2 DEF NoAddresses

LEMMA NoAddressMade ==
  ASSUME RunsInv, NoAddresses(code), [Next]_vars
  PROVE  NoAddresses(code')
<1>1. CodeInv /\ (~reduced => ReduceInv)
  BY DEF RunsInv
<1>2. /\ DOMAIN code = Block
      /\ \A b \in Block : /\ Len(code[b]) \in Nat /\ DOMAIN code[b] = 1..Len(code[b])
                           /\ \A k \in 1..Len(code[b]) :
                                code[b][k] \in Instr /\ code[b][k].op # "lea"
  BY <1>1, RunFacts DEF NoAddresses, CodeInv
<1>3. CASE UNCHANGED code
  BY <1>3 DEF NoAddresses
<1>4. CASE EraseSelfMove
  <2> DEFINE b0 == cursor[1]
             c == cursor[2]
             e == Erased(code[b0][c])
  <2>1. ~reduced /\ b0 \in Block /\ c \in 1..Len(code[b0]) /\ code' = [code EXCEPT ![b0][c] = e]
    BY <1>1, <1>4, AtInst DEF EraseSelfMove, InBlock
  <2>2. e.op = "erased"
    BY <1>2, <2>1 DEF Erased, Instr
  <2> HIDE DEF e, b0, c
  <2> QED
    BY <1>2, <2>1, <2>2 DEF NoAddresses
<1>5. ASSUME NEW j \in 1..(cursor[2] - 1), Reduce(j)
      PROVE  NoAddresses(code')
  <2> DEFINE b0 == cursor[1]
             c == cursor[2]
             e == Erased(Inst)
             d == Inst.dst
             r == [code[b0][j] EXCEPT !.dst = d]
  <2>1. ~reduced /\ b0 \in Block /\ c \in 1..Len(code[b0]) /\ j \in 1..Len(code[b0])
    BY <1>1, <1>2, <1>5, AtInst DEF Reduce, InBlock
  <2>2. code' = [code EXCEPT ![b0][j].dst = d, ![b0][c] = e]
    BY <1>5 DEF Reduce
  <2>3. e.op = "erased"
    BY <1>2, <2>1 DEF Erased, Inst, Instr
  <2>4. r.op # "lea"
    <3> HIDE DEF d
    <3> QED
      BY <1>2, <2>1 DEF Instr
  <2>5. \A b \in Block : /\ DOMAIN code'[b] = DOMAIN code[b]
                         /\ \A k \in DOMAIN code[b] : code'[b][k] \in {code[b][k], e, r}
    <3> DEFINE is == [code[b0] EXCEPT ![j].dst = d]
    <3>1. code' = [code EXCEPT ![b0] = [is EXCEPT ![c] = e]]
      BY <1>2, <2>1, <2>2
    <3>2. is = [code[b0] EXCEPT ![j] = r]
      BY <2>1
    <3> HIDE DEF e, d, b0, c, r, is
    <3> QED
      BY <1>2, <2>1, <3>1, <3>2
  <2> HIDE DEF e, r, b0, c, d
  <2> QED
    BY <1>2, <2>3, <2>4, <2>5 DEF NoAddresses
<1>6. CASE \E v \in DOMAIN spilled : Rewrite(v)
  BY <1>1, <1>6, RewritesNoAddress DEF NoAddresses
<1>7. CASE Assign
  <2>1. ASSUME NEW b \in Block
        PROVE  /\ DOMAIN code'[b] = DOMAIN code[b]
               /\ \A k \in DOMAIN code[b] :
                    code'[b][k] = [code[b][k] EXCEPT !.dst = Coloured(@), !.src = Coloured(@)]
    BY <1>7 DEF Assign
  <2>2. ASSUME NEW b \in Block, NEW k \in DOMAIN code[b] PROVE code'[b][k].op = code[b][k].op
    <3> DEFINE d == Coloured(code[b][k].dst)
               s == Coloured(code[b][k].src)
    <3>1. code'[b][k] = [code[b][k] EXCEPT !.dst = d, !.src = s]
      BY <2>1
    <3> HIDE DEF d, s
    <3> QED
      BY <1>2, <3>1 DEF Instr
  <2> QED
    <3> SUFFICES ASSUME NEW b \in Block, NEW k \in DOMAIN code'[b] PROVE code'[b][k].op # "lea"
      BY DEF NoAddresses
    <3>1. k \in DOMAIN code[b]
      BY <2>1
    <3> QED
      BY <1>2, <2>2, <3>1
<1>8. CASE Lower
  <2>1. Keep \/ NextBlock => UNCHANGED code
    BY DEF Keep, NextBlock
  <2> QED
    BY <1>3, <1>4, <1>5, <1>8, <2>1 DEF Lower
<1>9. CASE Alloc
  <2>1. StartRound \/ CalcInOut \/ StartColouring \/ EndRound => UNCHANGED code
    BY DEF StartRound, CalcInOut, StartColouring, EndRound
  <2>2. \A v, k : Colour(v, k) => UNCHANGED code
    BY DEF Colour
  <2>3. \A v, t : Spill(v, t) => UNCHANGED code
    BY DEF Spill
  <2> QED
    BY <1>3, <1>6, <1>7, <1>9, <2>1, <2>2, <2>3 DEF Alloc
<1>10. CASE Execute \/ (\E c \in Block : Branch(c)) \/ UNCHANGED vars
  BY <1>3, <1>10 DEF Execute, Branch, vars
<1> QED
  BY <1>8, <1>9, <1>10 DEF Next, Compile

LEMMA FnSame ==
  ASSUME [Next]_vars
  PROVE  fn' = fn
<1>1. Lower => fn' = fn
  BY DEF Lower, EraseSelfMove, Reduce, Keep, NextBlock
<1>2. Alloc => fn' = fn
  <2>1. StartRound \/ CalcInOut \/ StartColouring \/ EndRound \/ Assign => fn' = fn
    BY DEF StartRound, CalcInOut, StartColouring, EndRound, Assign
  <2>2. \A v, k : Colour(v, k) \/ Spill(v, k) => fn' = fn
    BY DEF Colour, Spill
  <2>3. \A v : Rewrite(v) => fn' = fn
    BY DEF Rewrite
  <2> QED
    BY <2>1, <2>2, <2>3 DEF Alloc
<1>3. Execute \/ (\E c \in Block : Branch(c)) \/ UNCHANGED vars => fn' = fn
  BY DEF Execute, Branch, vars
<1> QED
  BY <1>1, <1>2, <1>3 DEF Next, Compile

(***************************************************************************)
(* A function without local arrays that returns its result at once, or      *)
(* returns none, loses no value whatever is coalesced, spilled and          *)
(* coloured.                                                                *)
(***************************************************************************)
THEOREM NothingIsLost ==
  Spec => [](NoAddresses(fn.code) /\ ReturnsAtOnce => OperandsSurvive)
<1> DEFINE Kept == NoAddresses(fn.code) => NoAddresses(code)
<1>1. Init => RunsInv /\ Kept
  BY StartInv DEF Init
<1>2. RunsInv /\ Kept /\ [Next]_vars => RunsInv' /\ Kept'
  <2> SUFFICES ASSUME RunsInv, Kept, [Next]_vars PROVE RunsInv' /\ Kept'
    OBVIOUS
  <2>1. RunsInv'
    BY NextKeeps
  <2>2. fn' = fn
    BY FnSame
  <2>3. NoAddresses(fn.code)' = NoAddresses(fn.code) /\ NoAddresses(code)' = NoAddresses(code')
    BY <2>2 DEF NoAddresses
  <2> QED
    BY <2>1, <2>3, NoAddressMade
<1>3. RunsInv /\ Kept => (NoAddresses(fn.code) /\ ReturnsAtOnce => OperandsSurvive)
  <2>1. NoAddresses(code) => AddressesKept
    BY DEF NoAddresses, AddressesKept
  <2> QED
    BY <2>1, RunFinds DEF RunsInv, OperandsSurvive, OperandsFound
<1> QED
  BY <1>1, <1>2, <1>3, PTL DEF Spec
=============================================================================

--------------------------- MODULE Mem2RegProofs ---------------------------
(***************************************************************************)
(* For every function whose blocks the entry all reaches, that Mem2Reg      *)
(* leaves it in static single assignment form with the values its loads     *)
(* read: a phi has an operand for each edge into its block, a value is      *)
(* defined on every path to its uses, and what replaced a load is what the  *)
(* variable would have held.  Then that the moves GenerateMIR makes of the  *)
(* phis keep this in registers.                                             *)
(***************************************************************************)
EXTENDS PhiMoves, FlowGraphProofs, SequenceTheorems

-----------------------------------------------------------------------------
(* The function the pass is given. *)

doms == Dom[fn.next]
End(b) == Len(Code(b)) + 1

Given ==
  /\ fn \in Functions
  /\ domTree = [b \in Block |-> {c \in Block : IsImmDom(doms, b, c)}]
  /\ domFrontier = [b \in Block |-> Frontier(Succ, doms, b)]

LEMMA Blocks == N \in Nat /\ IsFiniteSet(Block) /\ Entry \in Block
<1>1. N \in Nat \ {0} /\ 1 \in Int /\ N \in Int
  BY NAssumption
<1>2. IsFiniteSet(1..N)
  BY <1>1, FS_Interval
<1> QED
  BY <1>1, <1>2 DEF Block, Entry

LEMMA CodeOK ==
  ASSUME fn \in Functions, NEW b \in Block
  PROVE /\ Len(Code(b)) \in Nat /\ DOMAIN Code(b) = 1..Len(Code(b))
        /\ End(b) \in Nat /\ End(b) >= 1 /\ End(b) = Len(Code(b)) + 1
        /\ \A i \in 1..Len(Code(b)) :
             /\ Code(b)[i].op \in {"store", "load", "copy"}
             /\ Code(b)[i].var \in Var /\ Code(b)[i].from \in Var
             /\ Code(b)[i].op = "load" => Code(b)[i].var = Code(b)[i].from
<1> DEFINE I == {Store(v) : v \in Var} \cup {Load(v) : v \in Var} \cup {Copy(v, u) : v, u \in Var}
<1>1. Code(b) \in Seq(I)
  BY FunctionsAssumption DEF Code
<1>2. \A o \in I : /\ o.op \in {"store", "load", "copy"} /\ o.var \in Var /\ o.from \in Var
                   /\ o.op = "load" => o.var = o.from
  BY DEF Store, Load, Copy
<1> HIDE DEF I
<1>3. Len(Code(b)) \in Nat /\ DOMAIN Code(b) = 1..Len(Code(b))
  BY <1>1
<1>4. \A i \in 1..Len(Code(b)) : Code(b)[i] \in I
  BY <1>1
<1> QED
  BY <1>2, <1>3, <1>4 DEF End

LEMMA GraphOK ==
  ASSUME fn \in Functions
  PROVE /\ DOMAIN Succ = Block /\ \A b \in Block : Succ[b] \subseteq Block
        /\ Preds(Succ, Entry) = {}
        /\ doms = DomSets(Succ, Entry)
        /\ DomOrder(Block, Entry, doms)
<1>1. fn.next \in [Block -> Seq(Block)] /\ fn.next \in DOMAIN Dom
  BY FunctionsAssumption DEF Dom
<1>2. Preds(Succ, Entry) = {} /\ Reachable(Succ, Entry) = Block
  BY <1>1, FunctionsAssumption DEF Succ
<1>3. DOMAIN Succ = Block
  BY DEF Succ, SuccOf
<1>4. ASSUME NEW b \in Block PROVE Succ[b] \subseteq Block
  <2>1. fn.next[b] \in Seq(Block)
    BY <1>1
  <2>2. \A i \in DOMAIN fn.next[b] : fn.next[b][i] \in Block
    BY <2>1
  <2>3. Succ[b] = Range(fn.next[b])
    BY DEF Succ, SuccOf
  <2> QED
    BY <2>2, <2>3 DEF Range
<1>5. doms = DomSets(Succ, Entry)
  BY <1>1 DEF doms, Dom, Succ
<1>6. DomOrder(Block, Entry, doms)
  BY <1>2, <1>3, <1>4, <1>5, Blocks, DominatorsOrdered
<1> QED
  BY <1>2, <1>3, <1>4, <1>5, <1>6

-----------------------------------------------------------------------------
(* The values of the variables along a block. *)

Values == {Zero} \cup {Def(b, i) : b \in Block, i \in Nat} \cup {Phi(p) : p \in Place}
Stacks == [Var -> Seq(Values)]
Holding == [Var -> Values]

Tops(m) == [v \in Var |-> Top(m, v)]

LEMMA TopOK ==
  ASSUME NEW m \in Stacks, NEW v \in Var
  PROVE /\ Top(m, v) \in Values
        /\ Len(m[v]) \in Nat
        /\ Top(m, v) = IF Len(m[v]) = 0 THEN Zero ELSE m[v][Len(m[v])]
<1>1. m[v] \in Seq(Values) /\ Len(m[v]) \in Nat
  BY DEF Stacks
<1>2. CASE m[v] = <<>>
  <2>1. Top(m, v) = Zero /\ Len(m[v]) = 0
    BY <1>2 DEF Top
  <2> QED
    BY <1>1, <2>1 DEF Values
<1>3. CASE m[v] # <<>>
  <2>1. Len(m[v]) # 0
    BY <1>1, <1>3
  <2>2. Top(m, v) = m[v][Len(m[v])]
    BY <1>3 DEF Top, Last
  <2>3. m[v][Len(m[v])] \in Values
    BY <1>1, <2>1
  <2> QED
    BY <1>1, <2>1, <2>2, <2>3
<1> QED
  BY <1>2, <1>3

LEMMA PushOK ==
  ASSUME NEW m \in Stacks, NEW v \in Var, NEW x \in Values
  PROVE /\ Push(m, v, x) \in Stacks
        /\ Tops(Push(m, v, x)) = [Tops(m) EXCEPT ![v] = x]
        /\ \A w \in Var :
             /\ Len(m[w]) \in Nat /\ Len(Push(m, v, x)[w]) \in Nat
             /\ Len(m[w]) <= Len(Push(m, v, x)[w])
             /\ \A j \in 1..Len(m[w]) : Push(m, v, x)[w][j] = m[w][j]
<1> DEFINE p == Push(m, v, x)
<1>1. p = [m EXCEPT ![v] = Append(m[v], x)]
  BY DEF Push
<1>2. m[v] \in Seq(Values) /\ Append(m[v], x) \in Seq(Values)
  BY DEF Stacks
<1>3. p \in Stacks
  BY <1>1, <1>2 DEF Stacks
<1>4. p[v] = Append(m[v], x) /\ \A w \in Var \ {v} : p[w] = m[w]
  BY <1>1 DEF Stacks
<1>5. /\ Len(p[v]) = Len(m[v]) + 1 /\ p[v][Len(m[v]) + 1] = x
      /\ \A j \in 1..Len(m[v]) : p[v][j] = m[v][j]
      /\ Len(m[v]) \in Nat
  BY <1>2, <1>4
<1> HIDE DEF p
<1>6. Top(p, v) = x
  <2>1. Len(p[v]) # 0
    BY <1>5
  <2> QED
    BY <1>3, <1>5, <2>1, TopOK
<1>7. \A w \in Var \ {v} : Top(p, w) = Top(m, w)
  BY <1>4 DEF Top
<1>8. Tops(p) = [Tops(m) EXCEPT ![v] = x]
  BY <1>6, <1>7 DEF Tops
<1>9. ASSUME NEW w \in Var
      PROVE /\ Len(m[w]) \in Nat /\ Len(p[w]) \in Nat
            /\ Len(m[w]) <= Len(p[w])
            /\ \A j \in 1..Len(m[w]) : p[w][j] = m[w][j]
  <2>1. Len(m[w]) \in Nat
    BY TopOK
  <2>2. CASE w = v
    BY <1>5, <2>2
  <2>3. CASE w # v
    BY <1>4, <2>1, <2>3
  <2> QED
    BY <2>2, <2>3
<1> QED
  BY <1>3, <1>8, <1>9 DEF p

\* replaceMap after an instruction, and what the variables hold then.
MapAfter(b, i, m) ==
  CASE Code(b)[i].op = "store" -> Push(m, Code(b)[i].var, Def(b, i))
    [] Code(b)[i].op = "copy"  -> Push(m, Code(b)[i].var, Top(m, Code(b)[i].from))
    [] Code(b)[i].op = "load"  -> m
HeldAfter(b, i, h) ==
  CASE Code(b)[i].op = "store" -> [h EXCEPT ![Code(b)[i].var] = Def(b, i)]
    [] Code(b)[i].op = "copy"  -> [h EXCEPT ![Code(b)[i].var] = h[Code(b)[i].from]]
    [] Code(b)[i].op = "load"  -> h
MapFirst(b) ==
  [v \in Var |-> replaceMap[v] \o (IF <<b, v>> \in phis THEN <<Phi(<<b, v>>)>> ELSE <<>>)]

LEMMA AfterOK ==
  ASSUME fn \in Functions, NEW b \in Block, NEW i \in 1..Len(Code(b)), NEW m \in Stacks
  PROVE /\ MapAfter(b, i, m) \in Stacks
        /\ Tops(MapAfter(b, i, m)) = HeldAfter(b, i, Tops(m))
        /\ \A w \in Var :
             /\ Len(m[w]) \in Nat /\ Len(MapAfter(b, i, m)[w]) \in Nat
             /\ Len(m[w]) <= Len(MapAfter(b, i, m)[w])
             /\ \A j \in 1..Len(m[w]) : MapAfter(b, i, m)[w][j] = m[w][j]
<1> DEFINE o == Code(b)[i]
<1>1. /\ o.op \in {"store", "load", "copy"} /\ o.var \in Var /\ o.from \in Var
      /\ Len(Code(b)) \in Nat
  BY CodeOK
<1>2. \A w \in Var : Top(m, w) \in Values /\ Len(m[w]) \in Nat /\ Tops(m)[w] = Top(m, w)
  BY TopOK DEF Tops
<1>3. Def(b, i) \in Values
  BY <1>1 DEF Values
<1>4. CASE o.op = "store"
  <2>1. /\ MapAfter(b, i, m) = Push(m, o.var, Def(b, i))
        /\ HeldAfter(b, i, Tops(m)) = [Tops(m) EXCEPT ![o.var] = Def(b, i)]
    BY <1>4 DEF MapAfter, HeldAfter
  <2> DEFINE v == o.var
             x == Def(b, i)
  <2>2. v \in Var /\ x \in Values
    BY <1>1, <1>3
  <2> HIDE DEF v, x
  <2>3. /\ Push(m, v, x) \in Stacks
        /\ Tops(Push(m, v, x)) = [Tops(m) EXCEPT ![v] = x]
        /\ \A w \in Var :
             /\ Len(m[w]) \in Nat /\ Len(Push(m, v, x)[w]) \in Nat
             /\ Len(m[w]) <= Len(Push(m, v, x)[w])
             /\ \A j \in 1..Len(m[w]) : Push(m, v, x)[w][j] = m[w][j]
    BY <2>2, PushOK
  <2> QED
    BY <2>1, <2>3 DEF v, x
<1>5. CASE o.op = "copy"
  <2>1. /\ MapAfter(b, i, m) = Push(m, o.var, Top(m, o.from))
        /\ HeldAfter(b, i, Tops(m)) = [Tops(m) EXCEPT ![o.var] = Tops(m)[o.from]]
    BY <1>5 DEF MapAfter, HeldAfter
  <2> DEFINE v == o.var
             x == Top(m, o.from)
  <2>2. v \in Var /\ x \in Values /\ x = Tops(m)[o.from]
    BY <1>1, <1>2
  <2> HIDE DEF v, x
  <2>3. /\ Push(m, v, x) \in Stacks
        /\ Tops(Push(m, v, x)) = [Tops(m) EXCEPT ![v] = x]
        /\ \A w \in Var :
             /\ Len(m[w]) \in Nat /\ Len(Push(m, v, x)[w]) \in Nat
             /\ Len(m[w]) <= Len(Push(m, v, x)[w])
             /\ \A j \in 1..Len(m[w]) : Push(m, v, x)[w][j] = m[w][j]
    BY <2>2, PushOK
  <2> QED
    BY <2>1, <2>2, <2>3 DEF v, x
<1>6. CASE o.op = "load"
  <2>1. MapAfter(b, i, m) = m /\ HeldAfter(b, i, Tops(m)) = Tops(m)
    BY <1>6 DEF MapAfter, HeldAfter
  <2> QED
    BY <1>2, <2>1
<1> QED
  BY <1>1, <1>4, <1>5, <1>6

LEMMA FirstOK ==
  ASSUME replaceMap \in Stacks, NEW b \in Block
  PROVE /\ MapFirst(b) \in Stacks
        /\ \A v \in Var :
             /\ Top(MapFirst(b), v) =
                  IF <<b, v>> \in phis THEN Phi(<<b, v>>) ELSE Top(replaceMap, v)
             /\ Len(replaceMap[v]) \in Nat /\ Len(MapFirst(b)[v]) \in Nat
             /\ Len(replaceMap[v]) <= Len(MapFirst(b)[v])
             /\ \A j \in 1..Len(replaceMap[v]) : MapFirst(b)[v][j] = replaceMap[v][j]
<1> DEFINE f == MapFirst(b)
<1>1. ASSUME NEW v \in Var, <<b, v>> \in phis
      PROVE /\ f[v] \in Seq(Values) /\ Len(f[v]) = Len(replaceMap[v]) + 1
            /\ f[v][Len(replaceMap[v]) + 1] = Phi(<<b, v>>)
            /\ Len(replaceMap[v]) \in Nat
            /\ \A j \in 1..Len(replaceMap[v]) : f[v][j] = replaceMap[v][j]
  <2>1. f[v] = replaceMap[v] \o <<Phi(<<b, v>>)>>
    BY <1>1 DEF MapFirst
  <2>2. Phi(<<b, v>>) \in Values
    BY DEF Values, Place
  <2>3. replaceMap[v] \in Seq(Values)
    BY DEF Stacks
  <2> HIDE DEF f
  <2> QED
    BY <2>1, <2>2, <2>3
<1>2. ASSUME NEW v \in Var, <<b, v>> \notin phis PROVE f[v] = replaceMap[v]
  <2>1. f[v] = replaceMap[v] \o <<>>
    BY <1>2 DEF MapFirst
  <2>2. replaceMap[v] \in Seq(Values)
    BY DEF Stacks
  <2> QED
    BY <2>1, <2>2
<1>3. f \in Stacks
  <2>1. f = [v \in Var |-> f[v]]
    BY DEF MapFirst
  <2>2. \A v \in Var : f[v] \in Seq(Values)
    BY <1>1, <1>2 DEF Stacks
  <2> HIDE DEF f
  <2> QED
    BY <2>1, <2>2 DEF Stacks
<1> HIDE DEF f
<1>4. ASSUME NEW v \in Var
      PROVE /\ Top(f, v) = IF <<b, v>> \in phis THEN Phi(<<b, v>>) ELSE Top(replaceMap, v)
            /\ Len(replaceMap[v]) \in Nat /\ Len(f[v]) \in Nat
            /\ Len(replaceMap[v]) <= Len(f[v])
            /\ \A j \in 1..Len(replaceMap[v]) : f[v][j] = replaceMap[v][j]
  <2>1. Len(replaceMap[v]) \in Nat
    BY TopOK
  <2>2. CASE <<b, v>> \in phis
    <3>1. /\ Len(f[v]) = Len(replaceMap[v]) + 1
          /\ f[v][Len(replaceMap[v]) + 1] = Phi(<<b, v>>)
          /\ \A j \in 1..Len(replaceMap[v]) : f[v][j] = replaceMap[v][j]
      BY <1>1, <2>2
    <3>2. Top(f, v) = f[v][Len(f[v])]
      BY <1>3, <2>1, <3>1, TopOK
    <3> QED
      BY <2>1, <2>2, <3>1, <3>2
  <2>3. CASE <<b, v>> \notin phis
    BY <1>2, <2>1, <2>3 DEF Top
  <2> QED
    BY <2>2, <2>3
<1> QED
  BY <1>3, <1>4 DEF f

LEMMA MapOf ==
  ASSUME fn \in Functions, replaceMap \in Stacks, NEW b \in Block
  PROVE /\ MapAt(b) \in [1..End(b) -> Stacks]
        /\ MapAt(b)[1] = MapFirst(b)
        /\ \A i \in 1..Len(Code(b)) : MapAt(b)[i + 1] = MapAfter(b, i, MapAt(b)[i])
<1> DEFINE n == Len(Code(b))
           step == [x \in (1..n) \X Stacks |-> MapAfter(b, x[1], x[2])]
<1>1. n \in Nat /\ End(b) = n + 1
  BY CodeOK
<1>2. step \in [(1..n) \X Stacks -> Stacks]
  BY AfterOK
<1>3. MapFirst(b) \in Stacks
  BY FirstOK
<1>4. PICK m : Computes(m, n, Stacks, MapFirst(b), step)
  <2> HIDE DEF n, step
  <2> QED
    BY <1>1, <1>2, <1>3, StepByStep
<1>5. ASSUME NEW i \in 1..n PROVE m[i + 1] = MapAfter(b, i, m[i])
  <2>1. m[i] \in Stacks /\ m[i + 1] = step[<<i, m[i]>>]
    <3> HIDE DEF n, step
    <3>1. i \in 1..(n + 1)
      BY <1>1
    <3> QED
      BY <1>4, <3>1 DEF Computes
  <2>2. <<i, m[i]>> \in (1..n) \X Stacks
    BY <2>1
  <2> QED
    BY <2>1, <2>2
<1>6. ASSUME NEW i \in 1..(n + 1), i # 1
      PROVE m[i] = LET o == Code(b)[i - 1] IN
                   CASE o.op = "store" -> Push(m[i - 1], o.var, Def(b, i - 1))
                     [] o.op = "copy"  -> Push(m[i - 1], o.var, Top(m[i - 1], o.from))
                     [] o.op = "load"  -> m[i - 1]
  <2>1. i - 1 \in 1..n /\ (i - 1) + 1 = i
    BY <1>1, <1>6
  <2>2. m[i] = MapAfter(b, i - 1, m[i - 1])
    BY <1>5, <2>1
  <2> QED
    BY <2>2 DEF MapAfter
<1>7. m = [i \in 1..(Len(Code(b)) + 1) |->
             IF i = 1
             THEN [v \in Var |-> replaceMap[v] \o
                                   (IF <<b, v>> \in phis THEN <<Phi(<<b, v>>)>> ELSE <<>>)]
             ELSE LET o == Code(b)[i - 1] IN
                  CASE o.op = "store" -> Push(m[i - 1], o.var, Def(b, i - 1))
                    [] o.op = "copy"  -> Push(m[i - 1], o.var, Top(m[i - 1], o.from))
                    [] o.op = "load"  -> m[i - 1]]
  BY <1>4, <1>6 DEF MapFirst, Computes
<1>8. MapAt(b) = [i \in 1..(Len(Code(b)) + 1) |->
             IF i = 1
             THEN [v \in Var |-> replaceMap[v] \o
                                   (IF <<b, v>> \in phis THEN <<Phi(<<b, v>>)>> ELSE <<>>)]
             ELSE LET o == Code(b)[i - 1] IN
                  CASE o.op = "store" -> Push(MapAt(b)[i - 1], o.var, Def(b, i - 1))
                    [] o.op = "copy"  -> Push(MapAt(b)[i - 1], o.var, Top(MapAt(b)[i - 1], o.from))
                    [] o.op = "load"  -> MapAt(b)[i - 1]]
  BY <1>7, Zenon DEF MapAt
<1> DEFINE g == MapAt(b)
<1>9. g[1] = MapFirst(b)
  <2>1. 1 \in 1..(Len(Code(b)) + 1)
    BY <1>1
  <2> QED
    BY <1>8, <2>1 DEF MapFirst
<1>10. ASSUME NEW i \in 1..n PROVE g[i + 1] = MapAfter(b, i, g[i])
  <2>1. i + 1 \in 1..(Len(Code(b)) + 1) /\ i + 1 # 1 /\ (i + 1) - 1 = i
    BY <1>1
  <2>2. g[i + 1] = LET o == Code(b)[(i + 1) - 1] IN
                  CASE o.op = "store" -> Push(g[(i + 1) - 1], o.var, Def(b, (i + 1) - 1))
                    [] o.op = "copy"  -> Push(g[(i + 1) - 1], o.var, Top(g[(i + 1) - 1], o.from))
                    [] o.op = "load"  -> g[(i + 1) - 1]
    BY <1>8, <2>1
  <2> QED
    BY <2>1, <2>2 DEF MapAfter
<1>11. \A i \in 1..(n + 1) : g[i] \in Stacks
  <2> DEFINE S == {i \in 1..(n + 1) : g[i] \in Stacks}
  <2>1. 1 \in S
    BY <1>1, <1>3, <1>9
  <2>2. \A i \in 1..n : i \in S => i + 1 \in S
    <3> TAKE i \in 1..n
    <3> HAVE i \in S
    <3>1. g[i + 1] \in Stacks
      BY <1>10, AfterOK
    <3>2. i + 1 \in 1..(n + 1)
      BY <1>1
    <3> QED
      BY <3>1, <3>2
  <2>3. \A i \in 1..(n + 1) : i \in S
    <3> HIDE DEF S, n
    <3> QED
      BY <1>1, <2>1, <2>2, UpTo
  <2> QED
    BY <2>3
<1>12. DOMAIN g = 1..(n + 1) /\ g = [i \in 1..(n + 1) |-> g[i]]
  BY <1>8
<1>13. g \in [1..(n + 1) -> Stacks]
  <2> HIDE DEF g
  <2> QED
    BY <1>11, <1>12
<1> QED
  BY <1>1, <1>9, <1>10, <1>13

Held(b) == [i \in 1..End(b) |-> Tops(MapAt(b)[i])]

LEMMA HeldOf ==
  ASSUME fn \in Functions, replaceMap \in Stacks, NEW b \in Block
  PROVE /\ Held(b) \in [1..End(b) -> Holding]
        /\ \A i \in 1..End(b) : Held(b)[i] = Tops(MapAt(b)[i]) /\ MapAt(b)[i] \in Stacks
        /\ \A v \in Var : Held(b)[1][v] =
             IF <<b, v>> \in phis THEN Phi(<<b, v>>) ELSE Top(replaceMap, v)
        /\ \A i \in 1..Len(Code(b)) : Held(b)[i + 1] = HeldAfter(b, i, Held(b)[i])
<1> DEFINE n == Len(Code(b))
           g == MapAt(b)
<1>1. n \in Nat /\ End(b) = n + 1 /\ 1 \in 1..End(b)
  BY CodeOK
<1>2. /\ g \in [1..End(b) -> Stacks] /\ g[1] = MapFirst(b)
      /\ \A i \in 1..n : g[i + 1] = MapAfter(b, i, g[i])
  BY MapOf
<1>3. \A i \in 1..End(b) : Held(b)[i] = Tops(g[i]) /\ g[i] \in Stacks
  BY <1>2 DEF Held
<1>4. \A m \in Stacks : Tops(m) \in Holding
  BY TopOK DEF Tops, Holding
<1>5. Held(b) \in [1..End(b) -> Holding]
  BY <1>3, <1>4 DEF Held
<1>6. ASSUME NEW v \in Var
      PROVE Held(b)[1][v] = IF <<b, v>> \in phis THEN Phi(<<b, v>>) ELSE Top(replaceMap, v)
  <2>1. Held(b)[1] = Tops(MapFirst(b))
    BY <1>1, <1>2, <1>3
  <2>2. Tops(MapFirst(b))[v] = Top(MapFirst(b), v)
    BY DEF Tops
  <2> QED
    BY <2>1, <2>2, FirstOK
<1>7. ASSUME NEW i \in 1..n PROVE Held(b)[i + 1] = HeldAfter(b, i, Held(b)[i])
  <2>1. i \in 1..End(b) /\ i + 1 \in 1..End(b)
    BY <1>1
  <2>2. g[i] \in Stacks /\ Held(b)[i] = Tops(g[i])
    BY <1>3, <2>1
  <2>3. Held(b)[i + 1] = Tops(MapAfter(b, i, g[i]))
    BY <1>2, <1>3, <2>1
  <2> QED
    BY <2>2, <2>3, AfterOK
<1> QED
  BY <1>3, <1>5, <1>6, <1>7

\* What a block pushes lies on top of what its callers pushed.
LEMMA MapGrows ==
  ASSUME fn \in Functions, replaceMap \in Stacks, NEW b \in Block, NEW v \in Var
  PROVE /\ Len(replaceMap[v]) \in Nat /\ Len(MapAt(b)[End(b)][v]) \in Nat
        /\ Len(replaceMap[v]) <= Len(MapAt(b)[End(b)][v])
        /\ \A j \in 1..Len(replaceMap[v]) : MapAt(b)[End(b)][v][j] = replaceMap[v][j]
<1> DEFINE n == Len(Code(b))
           g == MapAt(b)
           l == Len(replaceMap[v])
           S == {i \in 1..(n + 1) : /\ Len(g[i][v]) \in Nat /\ l <= Len(g[i][v])
                                    /\ \A j \in 1..l : g[i][v][j] = replaceMap[v][j]}
<1>1. n \in Nat /\ End(b) = n + 1
  BY CodeOK
<1>2. /\ g \in [1..End(b) -> Stacks] /\ g[1] = MapFirst(b)
      /\ \A i \in 1..n : g[i + 1] = MapAfter(b, i, g[i])
  BY MapOf
<1>3. l \in Nat
  BY TopOK
<1>4. 1 \in S
  <2>1. /\ Len(MapFirst(b)[v]) \in Nat /\ l <= Len(MapFirst(b)[v])
        /\ \A j \in 1..l : MapFirst(b)[v][j] = replaceMap[v][j]
    BY FirstOK
  <2> QED
    BY <1>1, <1>2, <2>1
<1>5. ASSUME NEW i \in 1..n, i \in S PROVE i + 1 \in S
  <2>1. i \in 1..End(b) /\ g[i] \in Stacks
    BY <1>1, <1>2
  <2> DEFINE m == g[i]
             k == MapAfter(b, i, m)
  <2>2. /\ Len(m[v]) \in Nat /\ Len(k[v]) \in Nat /\ Len(m[v]) <= Len(k[v])
        /\ \A j \in 1..Len(m[v]) : k[v][j] = m[v][j]
    BY <2>1, AfterOK
  <2>3. l <= Len(m[v]) /\ \A j \in 1..l : m[v][j] = replaceMap[v][j]
    BY <1>5
  <2>4. g[i + 1] = k /\ i + 1 \in 1..(n + 1)
    BY <1>1, <1>2
  <2> HIDE DEF m, k, l
  <2>5. /\ Len(k[v]) \in Nat /\ l <= Len(k[v])
        /\ \A j \in 1..l : k[v][j] = replaceMap[v][j]
    BY <1>3, <2>2, <2>3
  <2> QED
    BY <2>4, <2>5
<1>6. \A i \in 1..(n + 1) : i \in S
  <2> HIDE DEF S, n
  <2> QED
    BY <1>1, <1>4, <1>5, UpTo
<1>7. n + 1 \in S
  BY <1>1, <1>6
<1> QED
  BY <1>1, <1>3, <1>7

-----------------------------------------------------------------------------
(***************************************************************************)
(* What renaming computes: val[b][i][v], the value of v before instruction  *)
(* i of block b, with phis at P.                                            *)
(***************************************************************************)
Flows(P, val, b) ==
  /\ val[b] \in [1..End(b) -> Holding]
  /\ \A v \in Var : <<b, v>> \in P => val[b][1][v] = Phi(<<b, v>>)
  /\ \A v \in Var : <<b, v>> \notin P =>
       IF b = Entry THEN val[b][1][v] = Zero
       ELSE \A d \in Block : b \in domTree[d] => val[b][1][v] = val[d][End(d)][v]
  /\ \A i \in 1..Len(Code(b)) : val[b][i + 1] = HeldAfter(b, i, val[b][i])

\* x is defined on every path to instruction i of block b.
Defined(P, b, i, x) ==
  \/ x = Zero
  \/ \E c \in doms[b] : \E j \in 1..Len(Code(c)) : x = Def(c, j) /\ (c = b => j < i)
  \/ \E q \in P : x = Phi(q) /\ q[1] \in doms[b]

Solved(P, V, val) ==
  /\ DOMAIN val = Block
  /\ \A b \in V :
       /\ Flows(P, val, b)
       /\ \A i \in 1..End(b), v \in Var : Defined(P, b, i, val[b][i][v])

LEMMA DefinedLater ==
  ASSUME NEW P, NEW b, NEW i \in Nat, NEW k \in Nat, i <= k, NEW x, Defined(P, b, i, x),
         fn \in Functions, b \in Block
  PROVE Defined(P, b, k, x)
<1>1. \A c \in doms[b] : \A j \in 1..Len(Code(c)) : j \in Nat
  BY GraphOK, CodeOK DEF DomOrder
<1> QED
  BY <1>1 DEF Defined

LEMMA DefinedAlong ==
  ASSUME fn \in Functions, NEW b \in Block, NEW P, NEW val, Flows(P, val, b),
         \A v \in Var : Defined(P, b, 1, val[b][1][v])
  PROVE \A i \in 1..End(b), v \in Var : Defined(P, b, i, val[b][i][v])
<1> DEFINE n == Len(Code(b))
           S == {i \in 1..(n + 1) : \A v \in Var : Defined(P, b, i, val[b][i][v])}
<1>1. n \in Nat /\ End(b) = n + 1
  BY CodeOK
<1>2. 1 \in S
  BY <1>1
<1>3. ASSUME NEW i \in 1..n, i \in S PROVE i + 1 \in S
  <2>1. /\ Code(b)[i].op \in {"store", "load", "copy"}
        /\ Code(b)[i].var \in Var /\ Code(b)[i].from \in Var
    BY CodeOK
  <2>2. i \in Nat /\ i + 1 \in Nat /\ i <= i + 1 /\ i < i + 1 /\ i + 1 \in 1..(n + 1) /\ i \in 1..End(b)
    BY <1>1
  <2>3. val[b][i] \in Holding /\ val[b][i + 1] = HeldAfter(b, i, val[b][i])
    BY <2>2 DEF Flows
  <2>4. \A v \in Var : Defined(P, b, i + 1, val[b][i][v])
    BY <1>3, <2>2, DefinedLater
  <2>5. Defined(P, b, i + 1, Def(b, i))
    <3>1. b \in doms[b]
      BY GraphOK DEF DomOrder
    <3> QED
      BY <2>2, <3>1 DEF Defined
  <2>6. ASSUME NEW v \in Var PROVE Defined(P, b, i + 1, val[b][i + 1][v])
    <3>1. \/ val[b][i + 1][v] = Def(b, i)
          \/ \E u \in Var : val[b][i + 1][v] = val[b][i][u]
      BY <2>1, <2>3 DEF HeldAfter, Holding
    <3> QED
      BY <2>4, <2>5, <3>1
  <2> QED
    BY <2>2, <2>6
<1>4. \A i \in 1..(n + 1) : i \in S
  <2> HIDE DEF S, n
  <2> QED
    BY <1>1, <1>2, <1>3, UpTo
<1> QED
  BY <1>1, <1>4

\* What is defined at the end of the immediate dominator is at the start.
LEMMA DefinedBelow ==
  ASSUME Given, NEW P, NEW d \in Block, NEW b \in domTree[d], NEW x, Defined(P, d, End(d), x)
  PROVE Defined(P, b, 1, x)
<1>1. b \in Block /\ IsImmDom(doms, d, b)
  BY DEF Given
<1>2. DomOrder(Block, Entry, doms)
  BY GraphOK DEF Given
<1>3. d # b /\ doms[b] \ {b} = doms[d]
  BY <1>1, <1>2, Blocks, ImmDomFacts
<1>4. b \notin doms[d] /\ doms[d] \subseteq doms[b]
  BY <1>3
<1> QED
  BY <1>4 DEF Defined

-----------------------------------------------------------------------------
(* The dominator tree, and how far replace has come on its way down it. *)

LEMMA TreeOK ==
  ASSUME Given, NEW b \in Block, NEW c \in domTree[b]
  PROVE /\ c \in Block /\ c # Entry /\ c # b /\ IsImmDom(doms, b, c)
        /\ b \in doms[c] /\ doms[c] \ {c} = doms[b] /\ c \notin doms[b]
        /\ \A d \in Block : c \in domTree[d] => d = b
<1>1. c \in Block /\ IsImmDom(doms, b, c)
  BY DEF Given
<1>2. DomOrder(Block, Entry, doms)
  BY GraphOK DEF Given
<1>3. /\ c # Entry /\ b # c /\ doms[c] \ {c} = doms[b]
      /\ \A d : IsImmDom(doms, d, c) => d = b
  BY <1>1, <1>2, Blocks, ImmDomFacts
<1>4. b \in doms[c]
  BY <1>1 DEF IsImmDom
<1>5. \A d \in Block : c \in domTree[d] => IsImmDom(doms, d, c)
  BY DEF Given
<1> QED
  BY <1>1, <1>3, <1>4, <1>5

LEMMA SiblingsApart ==
  ASSUME Given, NEW b \in Block, NEW c \in domTree[b], NEW d \in domTree[b], c \in doms[d]
  PROVE c = d
<1>1. ASSUME c # d PROVE FALSE
  <2>1. c \in doms[b]
    BY <1>1, TreeOK
  <2> QED
    BY <2>1, TreeOK
<1> QED
  BY <1>1

Frame == [block : Block, rest : SUBSET Block, counter : [Var -> Nat]]
Frames == Seq(Frame)
Without(cs, n, c) == [cs EXCEPT ![n].rest = @ \ {c}]

\* The activations of replace go down the tree from the entry.
Stack(cs) ==
  /\ cs \in Frames /\ Len(cs) > 0 /\ cs[1].block = Entry
  /\ \A i \in 1..Len(cs) : cs[i].rest \subseteq domTree[cs[i].block]
  /\ \A i \in 1..(Len(cs) - 1) : cs[i + 1].block \in domTree[cs[i].block] \ cs[i].rest

\* Blocks that are still to be entered: below a child that waits its turn.
Pending(cs) == {b \in Block : \E i \in 1..Len(cs) : \E c \in cs[i].rest : c \in doms[b]}
Visited == Block \ Pending(calls)

LEMMA StackOK ==
  ASSUME Given, NEW cs, Stack(cs)
  PROVE /\ Len(cs) \in Nat /\ Len(cs) >= 1 /\ DOMAIN cs = 1..Len(cs)
        /\ \A i \in 1..Len(cs) : /\ cs[i].block \in Block /\ cs[i].rest \subseteq Block
                                 /\ cs[i].counter \in [Var -> Nat]
                                 /\ cs[i].rest \subseteq domTree[cs[i].block]
        /\ \A j \in 1..Len(cs) : \A i \in 1..j : cs[i].block \in doms[cs[j].block]
<1> DEFINE n == Len(cs)
<1>1. cs \in Seq(Frame) /\ n > 0
  BY DEF Stack, Frames
<1>2. n \in Nat /\ DOMAIN cs = 1..n /\ \A i \in 1..n : cs[i] \in Frame
  BY <1>1
<1>3. \A i \in 1..n : /\ cs[i].block \in Block /\ cs[i].rest \subseteq Block
                      /\ cs[i].counter \in [Var -> Nat]
                      /\ cs[i].rest \subseteq domTree[cs[i].block]
  BY <1>2 DEF Stack, Frame
<1> DEFINE m == n - 1
           S == {j \in 1..(m + 1) : \A i \in 1..j : cs[i].block \in doms[cs[j].block]}
<1>4. m \in Nat /\ m + 1 = n
  BY <1>1, <1>2
<1>5. DomOrder(Block, Entry, doms)
  BY GraphOK DEF Given
<1>6. 1 \in S
  <2>1. cs[1].block \in doms[cs[1].block]
    BY <1>3, <1>4, <1>5 DEF DomOrder
  <2> QED
    BY <1>4, <2>1
<1>7. ASSUME NEW j \in 1..m, j \in S PROVE j + 1 \in S
  <2>1. j \in 1..n /\ j + 1 \in 1..n /\ j \in 1..(n - 1)
    BY <1>4
  <2>2. cs[j + 1].block \in domTree[cs[j].block]
    BY <2>1 DEF Stack
  <2>3. doms[cs[j + 1].block] \ {cs[j + 1].block} = doms[cs[j].block]
    BY <1>3, <2>1, <2>2, TreeOK
  <2>4. cs[j + 1].block \in doms[cs[j + 1].block]
    BY <1>3, <1>5, <2>1 DEF DomOrder
  <2>5. ASSUME NEW i \in 1..(j + 1) PROVE cs[i].block \in doms[cs[j + 1].block]
    <3>1. CASE i = j + 1
      BY <2>4, <3>1
    <3>2. CASE i # j + 1
      <4>1. i \in 1..j
        BY <2>1, <3>2
      <4> QED
        BY <1>7, <2>3, <4>1
    <3> QED
      BY <3>1, <3>2
  <2> QED
    BY <1>4, <2>1, <2>5
<1>8. \A j \in 1..(m + 1) : j \in S
  <2> HIDE DEF S, m
  <2> QED
    BY <1>4, <1>6, <1>7, UpTo
<1> QED
  BY <1>1, <1>2, <1>3, <1>4, <1>8

\* Of two children that wait, neither lies below the other.
LEMMA WaitingApart ==
  ASSUME Given, NEW cs, Stack(cs), NEW i \in 1..Len(cs), NEW j \in 1..Len(cs),
         NEW c \in cs[i].rest, NEW d \in cs[j].rest, c \in doms[d]
  PROVE c = d /\ i = j
<1>1. DomOrder(Block, Entry, doms)
  BY GraphOK DEF Given
<1>2. Len(cs) \in Nat
  BY StackOK
<1>3. ASSUME NEW k \in 1..Len(cs), NEW e \in cs[k].rest
      PROVE cs[k].block \in Block /\ e \in domTree[cs[k].block] /\ e \in Block
  BY StackOK
<1>4. ASSUME NEW k \in 1..Len(cs), NEW l \in 1..Len(cs), k < l,
             NEW e \in cs[k].rest, NEW f \in cs[l].rest, e \in doms[f]
      PROVE FALSE
  <2> DEFINE s == cs[k + 1].block
  <2>1. k \in 1..(Len(cs) - 1) /\ k + 1 \in 1..Len(cs) /\ k + 1 \in 1..l
    BY <1>2, <1>4
  <2>2. s \in domTree[cs[k].block] /\ s # e /\ s \in Block
    BY <2>1, StackOK DEF Stack
  <2>3. s \in doms[cs[l].block]
    BY <2>1, StackOK
  <2>4. cs[l].block \in doms[f]
    BY <1>3, TreeOK
  <2>5. s \in doms[f]
    BY <1>1, <1>3, <2>3, <2>4 DEF DomOrder
  <2>6. e \in doms[s] \/ s \in doms[e]
    BY <1>1, <1>3, <1>4, <2>5 DEF DomOrder
  <2> HIDE DEF s
  <2> QED
    BY <1>3, <2>2, <2>6, SiblingsApart
<1>5. CASE i = j
  BY <1>3, <1>5, SiblingsApart
<1>6. CASE i < j
  BY <1>4, <1>6
<1>7. CASE j < i
  <2>1. c # d
    <3>1. ASSUME c = d PROVE FALSE
      <4>1. d \in doms[c]
        BY <3>1
      <4> QED
        BY <1>4, <1>7, <4>1
    <3> QED
      BY <3>1
  <2>2. c \in doms[cs[j].block]
    BY <1>3, <2>1, TreeOK
  <2>3. cs[j].block \in doms[cs[i].block]
    <3>1. j \in 1..i
      BY <1>2, <1>7
    <3> QED
      BY <3>1, StackOK
  <2>4. c \in doms[cs[i].block]
    BY <1>1, <1>3, <2>2, <2>3 DEF DomOrder
  <2> QED
    BY <1>3, <2>4, TreeOK
<1> QED
  BY <1>2, <1>5, <1>6, <1>7

\* One more activation, of which the one below it has one child less to enter.
Grown(new, cs, n, c, top) ==
  /\ new \in Frames /\ Len(new) = n + 1 /\ new[n + 1] = top
  /\ \A i \in 1..n : /\ new[i].block = cs[i].block /\ new[i].counter = cs[i].counter
                     /\ new[i].rest = IF i = n THEN cs[i].rest \ {c} ELSE cs[i].rest

LEMMA Pushed ==
  ASSUME NEW cs \in Frames, NEW n \in Nat, n = Len(cs), n >= 1, NEW c, NEW top \in Frame
  PROVE  Grown(Append(Without(cs, n, c), top), cs, n, c, top)
<1> DEFINE new == Append(Without(cs, n, c), top)
           mid == [cs EXCEPT ![n].rest = @ \ {c}]
           one == [cs[n] EXCEPT !.rest = @ \ {c}]
<1>1. DOMAIN cs = 1..n /\ n \in 1..n /\ \A i \in 1..n : cs[i] \in Frame
  BY DEF Frames
<1>2. /\ one \in Frame /\ one.block = cs[n].block /\ one.counter = cs[n].counter
      /\ one.rest = cs[n].rest \ {c}
  BY <1>1 DEF Frame
<1>3. mid = [cs EXCEPT ![n] = one]
  BY <1>1
<1> HIDE DEF one, mid
<1>4. mid \in Seq(Frame) /\ Len(mid) = n
  BY <1>2, <1>3 DEF Frames
<1>5. \A i \in 1..n : mid[i] = IF i = n THEN one ELSE cs[i]
  BY <1>1, <1>3
<1>6. new = Append(mid, top)
  BY DEF mid, Without
<1> HIDE DEF new
<1>7. /\ new \in Seq(Frame) /\ Len(new) = n + 1 /\ new[n + 1] = top
      /\ \A i \in 1..n : new[i] = mid[i]
  <2>1. /\ Append(mid, top) \in Seq(Frame) /\ Len(Append(mid, top)) = Len(mid) + 1
        /\ \A i \in 1..Len(mid) : Append(mid, top)[i] = mid[i]
        /\ Append(mid, top)[Len(mid) + 1] = top
    BY <1>4, AppendProperties
  <2> QED
    BY <1>4, <1>6, <2>1
<1>8. Grown(new, cs, n, c, top)
  BY <1>2, <1>5, <1>7 DEF Frames, Grown
<1> QED
  BY <1>8 DEF new

\* A block is entered once: what replace enters next waits till then.
LEMMA PendingAfter ==
  ASSUME Given, NEW cs, Stack(cs), NEW n \in Nat, n = Len(cs), NEW c \in cs[n].rest,
         NEW top, top.block = c, top.rest = domTree[c], NEW new, Grown(new, cs, n, c, top)
  PROVE /\ Stack(new)
        /\ c \in Pending(cs) /\ Pending(new) = Pending(cs) \ {c}
<1>1. /\ n >= 1 /\ n \in 1..n
      /\ \A i \in 1..n : /\ cs[i].block \in Block /\ cs[i].rest \subseteq Block
                         /\ cs[i].rest \subseteq domTree[cs[i].block]
  BY StackOK
<1>2. c \in Block /\ c \in domTree[cs[n].block] /\ domTree[c] \subseteq Block
  BY <1>1 DEF Given
<1>3. DomOrder(Block, Entry, doms)
  BY GraphOK DEF Given
<1>7. /\ new \in Frames /\ Len(new) = n + 1
      /\ \A i \in 1..(n - 1) : cs[i + 1].block \in domTree[cs[i].block] \ cs[i].rest
  BY DEF Stack, Grown
<1>8. \A i \in 1..n : /\ new[i].block = cs[i].block
                      /\ new[i].rest = IF i = n THEN cs[i].rest \ {c} ELSE cs[i].rest
  BY DEF Grown
<1>9. new[n + 1].block = c /\ new[n + 1].rest = domTree[c]
  BY DEF Grown
<1>10. Stack(new)
  <2>1. new[1].block = Entry /\ Len(new) > 0
    <3>1. 1 \in 1..n
      BY <1>1
    <3>2. cs[1].block = Entry
      BY DEF Stack
    <3>3. new[1].block = cs[1].block
      BY <1>8, <3>1
    <3> QED
      BY <1>7, <3>2, <3>3
  <2>2. ASSUME NEW i \in 1..Len(new) PROVE new[i].rest \subseteq domTree[new[i].block]
    <3>1. CASE i = n + 1
      BY <1>9, <3>1
    <3>2. CASE i # n + 1
      <4>1. i \in 1..n
        BY <1>1, <1>7, <3>2
      <4> QED
        BY <1>1, <1>8, <4>1
    <3> QED
      BY <3>1, <3>2
  <2>3. ASSUME NEW i \in 1..(Len(new) - 1)
        PROVE new[i + 1].block \in domTree[new[i].block] \ new[i].rest
    <3>1. i \in 1..n
      BY <1>1, <1>7
    <3>2. CASE i = n
      BY <1>2, <1>8, <1>9, <3>1, <3>2
    <3>3. CASE i # n
      <4>1. i \in 1..(n - 1) /\ i + 1 \in 1..n
        BY <1>1, <3>1, <3>3
      <4>2. cs[i + 1].block \in domTree[cs[i].block] \ cs[i].rest
        BY <1>7, <4>1
      <4> QED
        BY <1>8, <3>1, <3>3, <4>1, <4>2
    <3> QED
      BY <3>2, <3>3
  <2> QED
    BY <1>7, <2>1, <2>2, <2>3 DEF Stack
<1>11. c \in Pending(cs)
  BY <1>1, <1>2, <1>3 DEF Pending, DomOrder
<1>12. ASSUME NEW b \in Pending(new) PROVE b \in Pending(cs) /\ b # c
  <2>1. PICK i \in 1..(n + 1) : \E e \in new[i].rest : e \in doms[b]
    BY <1>7 DEF Pending
  <2>2. PICK e \in new[i].rest : e \in doms[b]
    BY <2>1
  <2>3. b \in Block
    BY DEF Pending
  <2>4. CASE i = n + 1
    <3>1. e \in domTree[c] /\ c \in doms[e] /\ e \notin doms[c]
      BY <1>2, <1>9, <2>4, TreeOK
    <3>2. c \in doms[b]
      BY <1>2, <1>3, <2>2, <2>3, <3>1 DEF DomOrder
    <3> QED
      BY <1>1, <2>2, <2>3, <3>1, <3>2 DEF Pending
  <2>5. CASE i # n + 1
    <3>1. i \in 1..n
      BY <1>1, <2>5
    <3>2. e \in cs[i].rest /\ ~(i = n /\ e = c)
      BY <1>8, <2>2, <3>1
    <3>3. b # c
      <4>1. ASSUME b = c PROVE FALSE
        <5>1. e = c /\ i = n
          BY <1>1, <2>2, <3>1, <3>2, <4>1, WaitingApart
        <5> QED
          BY <3>2, <5>1
      <4> QED
        BY <4>1
    <3> QED
      BY <2>2, <2>3, <3>1, <3>2, <3>3 DEF Pending
  <2> QED
    BY <2>4, <2>5
<1>13. ASSUME NEW b \in Pending(cs), b # c PROVE b \in Pending(new)
  <2>1. PICK i \in 1..n : \E e \in cs[i].rest : e \in doms[b]
    BY DEF Pending
  <2>2. PICK e \in cs[i].rest : e \in doms[b]
    BY <2>1
  <2>3. b \in Block /\ i \in 1..Len(new) /\ n + 1 \in 1..Len(new)
    BY <1>1, <1>7 DEF Pending
  <2>4. CASE ~(i = n /\ e = c)
    <3>1. e \in new[i].rest
      BY <1>8, <2>2, <2>4
    <3> QED
      BY <2>2, <2>3, <3>1 DEF Pending
  <2>5. CASE i = n /\ e = c
    <3>1. c \in doms[b] \ {b}
      BY <1>13, <2>2, <2>5
    <3>2. \E d \in doms[b] : IsImmDom(doms, c, d)
      <4>1. CASE IsImmDom(doms, c, b)
        <5>1. b \in doms[b]
          BY <1>3, <2>3 DEF DomOrder
        <5> QED
          BY <4>1, <5>1
      <4>2. CASE ~IsImmDom(doms, c, b)
        BY <1>3, <2>3, <3>1, <4>2, Blocks, NoGap
      <4> QED
        BY <4>1, <4>2
    <3>3. PICK d \in doms[b] : IsImmDom(doms, c, d)
      BY <3>2
    <3>4. d \in Block /\ d \in domTree[c]
      BY <1>2, <1>3, <2>3, <3>3 DEF Given, DomOrder
    <3> QED
      BY <1>9, <2>3, <3>4 DEF Pending
  <2> QED
    BY <2>4, <2>5
<1> QED
  BY <1>10, <1>11, <1>12, <1>13

-----------------------------------------------------------------------------
(***************************************************************************)
(* insertPhi: phis end up where the stores of a variable some block reads   *)
(* before it stores meet.                                                   *)
(***************************************************************************)
Sets(b, v) == \E i \in DOMAIN Code(b) : Stores(Code(b)[i]) /\ Code(b)[i].var = v

Placed(P) ==
  /\ P \subseteq (Block \ {Entry}) \X Globals
  /\ \A b \in Block, v \in Globals :
       Sets(b, v) \/ <<b, v>> \in P => \A d \in domFrontier[b] : <<d, v>> \in P

NoneYet ==
  /\ calls = <<>> /\ loaded = <<>>
  /\ incoming = [p \in Place |-> {}]
  /\ replaceMap = [v \in Var |-> <<>>]

Placing ==
  /\ phis \subseteq (Block \ {Entry}) \X Globals /\ workList \subseteq Block \X Globals
  /\ \A b \in Block, v \in Globals :
       Sets(b, v) \/ <<b, v>> \in phis =>
         <<b, v>> \in workList \/ \A d \in domFrontier[b] : <<d, v>> \in phis
  /\ NoneYet

LEMMA FrontiersOK ==
  ASSUME Given, NEW b \in Block, NEW d \in domFrontier[b]
  PROVE  d \in Block \ {Entry}
<1>1. domFrontier[b] = Frontier(Succ, doms, b)
  BY DEF Given
<1>2. DOMAIN Succ = Block /\ Preds(Succ, Entry) = {}
  BY GraphOK DEF Given
<1> QED
  BY <1>1, <1>2 DEF Frontier

LEMMA PlacingInit == Init => Given /\ Placing
<1> SUFFICES ASSUME Init PROVE Given /\ Placing
  OBVIOUS
<1>1. Given
  BY DEF Init, Given, doms
<1>2. \A b \in Block, v \in Globals : Sets(b, v) => <<b, v>> \in workList
  BY DEF Init, Sets
<1>3. workList \subseteq Block \X Globals /\ phis = {} /\ NoneYet
  BY DEF Init, NoneYet
<1> QED
  BY <1>1, <1>2, <1>3 DEF Placing

LEMMA GivenStays ==
  ASSUME Given, given' = given
  PROVE  Given' /\ Succ' = Succ /\ Globals' = Globals /\ doms' = doms
         /\ \A b : Code(b)' = Code(b) /\ End(b)' = End(b)
<1>1. fn' = fn /\ domTree' = domTree /\ domFrontier' = domFrontier
  BY DEF given
<1>2. Succ' = Succ /\ Globals' = Globals /\ doms' = doms
  BY <1>1 DEF Succ, Globals, Code, doms
<1>3. \A b : Code(b)' = Code(b) /\ End(b)' = End(b)
  BY <1>1 DEF Code, End
<1>4. Given'
  BY <1>1, <1>2 DEF Given
<1> QED
  BY <1>2, <1>3, <1>4

LEMMA InsertStep ==
  ASSUME Given, Placing, NEW b \in Block, NEW v \in Var, InsertPhi(b, v)
  PROVE  Placing'
<1> DEFINE new == {<<d, v>> : d \in domFrontier[b]} \ phis
<1>1. /\ <<b, v>> \in workList /\ given' = given
      /\ phis' = phis \cup new /\ workList' = (workList \ {<<b, v>>}) \cup new
  BY DEF InsertPhi
<1>2. NoneYet'
  BY DEF InsertPhi, Placing, NoneYet
<1>3. v \in Globals
  BY <1>1 DEF Placing
<1>4. new \subseteq (Block \ {Entry}) \X Globals
  BY <1>3, FrontiersOK
<1>5. Globals' = Globals /\ domFrontier' = domFrontier /\ \A a, w : Sets(a, w)' = Sets(a, w)
  BY <1>1, GivenStays DEF given, Sets, Code
<1>6. ASSUME NEW a \in Block, NEW w \in Globals, Sets(a, w) \/ <<a, w>> \in phis'
      PROVE <<a, w>> \in workList' \/ \A d \in domFrontier[a] : <<d, w>> \in phis'
  <2>1. CASE a = b /\ w = v
    BY <1>1, <2>1
  <2>2. CASE <<a, w>> \in new
    BY <1>1, <2>2
  <2>3. CASE ~(a = b /\ w = v) /\ <<a, w>> \notin new
    <3>1. <<a, w>> \in workList \/ \A d \in domFrontier[a] : <<d, w>> \in phis
      BY <1>1, <1>6, <2>3 DEF Placing
    <3>2. <<a, w>> # <<b, v>>
      BY <2>3
    <3> HIDE DEF new
    <3> QED
      BY <1>1, <3>1, <3>2
  <2> QED
    BY <2>1, <2>2, <2>3
<1> HIDE DEF new
<1>7. phis' \subseteq (Block \ {Entry}) \X Globals /\ workList' \subseteq Block \X Globals
  BY <1>1, <1>4 DEF Placing
<1> QED
  BY <1>2, <1>5, <1>6, <1>7 DEF Placing

-----------------------------------------------------------------------------
(* replace: the values it finds are those of the equations of Flows. *)

Sites(V) == {s \in V \X Nat : s[2] \in DOMAIN Code(s[1]) /\ Code(s[1])[s[2]].op = "load"}

LoadedOf(V, val) == [s \in Sites(V) |-> val[s[1]][s[2]][Code(s[1])[s[2]].from]]
OperandsOf(V, val, p) == {<<b, val[b][End(b)][p[2]]>> : b \in V \cap Preds(Succ, p[1])}
IncomingOf(P, V, val) == [p \in Place |-> IF p \in P THEN OperandsOf(V, val, p) ELSE {}]
Results(P, V, val) == loaded = LoadedOf(V, val) /\ incoming = IncomingOf(P, V, val)

With(val, b) == [val EXCEPT ![b] = Held(b)]
Pushes(b) == [v \in Var |-> Len(MapAt(b)[End(b)][v]) - Len(replaceMap[v])]

\* replace enters b, whose parent has been entered before.
Enters(b, V, val) ==
  /\ replaceMap \in Stacks
  /\ V \subseteq Block /\ b \in Block \ V
  /\ \A c \in V : \A d \in Block : c \in domTree[d] => d \in V
  /\ \A v \in Var : IF b = Entry THEN Top(replaceMap, v) = Zero
                    ELSE \A d \in Block : b \in domTree[d] =>
                           d \in V /\ Top(replaceMap, v) = val[d][End(d)][v]

LEMMA EnterSolved ==
  ASSUME Given, NEW V, NEW val, NEW b, Enters(b, V, val), Solved(phis, V, val)
  PROVE  Solved(phis, V \cup {b}, With(val, b))
<1> DEFINE new == With(val, b)
<1>1. b \in Block /\ b \notin V /\ V \subseteq Block /\ replaceMap \in Stacks /\ fn \in Functions
  BY DEF Enters, Given
<1>2. DOMAIN new = Block /\ new[b] = Held(b) /\ \A c \in Block \ {b} : new[c] = val[c]
  BY <1>1 DEF Solved, With
<1> HIDE DEF new
<1>3. ASSUME NEW c \in V
      PROVE /\ Flows(phis, new, c)
            /\ \A i \in 1..End(c), v \in Var : Defined(phis, c, i, new[c][i][v])
  <2>1. new[c] = val[c] /\ c \in Block
    BY <1>1, <1>2
  <2>2. \A d \in Block : c \in domTree[d] => new[d] = val[d]
    BY <1>1, <1>2 DEF Enters
  <2>3. Flows(phis, val, c) /\ \A i \in 1..End(c), v \in Var : Defined(phis, c, i, val[c][i][v])
    BY DEF Solved
  <2> QED
    BY <2>1, <2>2, <2>3 DEF Flows
<1>4. /\ Held(b) \in [1..End(b) -> Holding]
      /\ \A v \in Var : Held(b)[1][v] =
           IF <<b, v>> \in phis THEN Phi(<<b, v>>) ELSE Top(replaceMap, v)
      /\ \A i \in 1..Len(Code(b)) : Held(b)[i + 1] = HeldAfter(b, i, Held(b)[i])
  BY <1>1, HeldOf
<1>5. ASSUME b # Entry, NEW d \in Block, b \in domTree[d], NEW v \in Var
      PROVE  d \in V /\ Top(replaceMap, v) = new[d][End(d)][v]
  <2>1. d \in V /\ Top(replaceMap, v) = val[d][End(d)][v]
    BY <1>5 DEF Enters
  <2> QED
    BY <1>1, <1>2, <2>1
<1>6. Flows(phis, new, b)
  <2>1. ASSUME NEW v \in Var, <<b, v>> \notin phis
        PROVE IF b = Entry THEN new[b][1][v] = Zero
              ELSE \A d \in Block : b \in domTree[d] => new[b][1][v] = new[d][End(d)][v]
    <3>1. new[b][1][v] = Top(replaceMap, v)
      BY <1>2, <1>4, <2>1
    <3>2. b = Entry => Top(replaceMap, v) = Zero
      BY DEF Enters
    <3> QED
      BY <1>5, <3>1, <3>2
  <2> QED
    BY <1>2, <1>4, <2>1 DEF Flows
<1>7. ASSUME NEW v \in Var PROVE Defined(phis, b, 1, new[b][1][v])
  <2>1. CASE <<b, v>> \in phis
    <3>1. new[b][1][v] = Phi(<<b, v>>)
      BY <1>2, <1>4, <2>1
    <3>2. b \in doms[b]
      BY <1>1, GraphOK DEF DomOrder
    <3>3. <<b, v>>[1] \in doms[b]
      BY <3>2
    <3> QED
      BY <2>1, <3>1, <3>3 DEF Defined
  <2>2. CASE <<b, v>> \notin phis /\ b = Entry
    <3>1. new[b][1][v] = Zero
      BY <1>6, <2>2 DEF Flows
    <3> QED
      BY <3>1 DEF Defined
  <2>3. CASE <<b, v>> \notin phis /\ b # Entry
    <3>1. PICK d \in Block : IsImmDom(doms, d, b)
      BY <1>1, <2>3, GraphOK, Blocks, ImmDomExists
    <3>2. b \in domTree[d]
      BY <1>1, <3>1 DEF Given
    <3>3. d \in V /\ new[b][1][v] = new[d][End(d)][v]
      BY <1>5, <1>6, <2>3, <3>2 DEF Flows
    <3>4. End(d) \in 1..End(d)
      BY <1>1, CodeOK
    <3>5. Defined(phis, d, End(d), new[d][End(d)][v])
      BY <1>3, <3>3, <3>4
    <3> QED
      BY <3>2, <3>3, <3>5, DefinedBelow
  <2> QED
    BY <2>1, <2>2, <2>3
<1>8. \A i \in 1..End(b), v \in Var : Defined(phis, b, i, new[b][i][v])
  BY <1>1, <1>6, <1>7, DefinedAlong
<1>9. Solved(phis, V \cup {b}, new)
  BY <1>2, <1>3, <1>6, <1>8 DEF Solved
<1> QED
  BY <1>9 DEF new

LEMMA EnterResults ==
  ASSUME Given, NEW V, NEW val, NEW b, Enters(b, V, val), Solved(phis, V, val),
         Results(phis, V, val), NEW callers, Enter(b, callers), given' = given
  PROVE  /\ loaded' = LoadedOf(V \cup {b}, With(val, b))
         /\ incoming' = IncomingOf(phis, V \cup {b}, With(val, b))
<1> DEFINE new == With(val, b)
           W == V \cup {b}
           sites == {s \in {b} \X DOMAIN Code(b) : Code(b)[s[2]].op = "load"}
<1>1. b \in Block /\ b \notin V /\ V \subseteq Block /\ replaceMap \in Stacks /\ fn \in Functions
  BY DEF Enters, Given
<1>2. DOMAIN new = Block /\ new[b] = Held(b) /\ \A c \in V : new[c] = val[c]
  BY <1>1 DEF Solved, With
<1>3. /\ DOMAIN Code(b) = 1..Len(Code(b)) /\ End(b) = Len(Code(b)) + 1 /\ Len(Code(b)) \in Nat
      /\ \A i \in DOMAIN Code(b) : Code(b)[i].from \in Var /\ i \in 1..End(b)
  BY <1>1, CodeOK
<1>4. \A i \in 1..End(b) : Held(b)[i] = Tops(MapAt(b)[i])
  BY <1>1, HeldOf
<1> HIDE DEF new
<1>5. ASSUME NEW i \in 1..End(b), NEW v \in Var PROVE Top(MapAt(b)[i], v) = new[b][i][v]
  <2>1. Tops(MapAt(b)[i])[v] = Top(MapAt(b)[i], v)
    BY DEF Tops
  <2> QED
    BY <1>2, <1>4, <2>1
<1>6. loaded' = LoadedOf(W, new)
  <2>1. loaded' = [s \in DOMAIN loaded \cup sites |->
                     IF s \in sites THEN Top(MapAt(b)[s[2]], Code(b)[s[2]].from) ELSE loaded[s]]
    BY DEF Enter
  <2>2. loaded = LoadedOf(V, val)
    BY DEF Results
  <2>3. DOMAIN loaded = Sites(V)
    BY <2>2 DEF LoadedOf
  <2>4. Sites(V) \cup sites = Sites(W)
    BY <1>1, <1>3 DEF Sites
  <2>5. ASSUME NEW s \in sites
        PROVE Top(MapAt(b)[s[2]], Code(b)[s[2]].from) = new[s[1]][s[2]][Code(s[1])[s[2]].from]
    <3>1. s[1] = b /\ s[2] \in DOMAIN Code(b)
      OBVIOUS
    <3> QED
      BY <1>3, <1>5, <3>1
  <2>6. ASSUME NEW s \in Sites(V)
        PROVE s \notin sites /\ loaded[s] = new[s[1]][s[2]][Code(s[1])[s[2]].from]
    <3>1. s[1] \in V
      BY DEF Sites
    <3>2. loaded[s] = val[s[1]][s[2]][Code(s[1])[s[2]].from]
      BY <2>2 DEF LoadedOf
    <3> QED
      BY <1>1, <1>2, <3>1, <3>2
  <2> HIDE DEF sites, W
  <2>7. loaded' = [s \in Sites(W) |-> new[s[1]][s[2]][Code(s[1])[s[2]].from]]
    BY <2>1, <2>3, <2>4, <2>5, <2>6
  <2> QED
    BY <2>7 DEF LoadedOf
<1>7. incoming' = IncomingOf(phis, W, new)
  <2> DEFINE op(p) == <<b, Top(MapAt(b)[Len(Code(b)) + 1], p[2])>>
  <2>1. incoming' = [p \in Place |->
                       IF p \in phis /\ p[1] \in NextBlocks(b)
                       THEN incoming[p] \cup {op(p)} ELSE incoming[p]]
    BY DEF Enter
  <2>2. incoming = IncomingOf(phis, V, val)
    BY DEF Results
  <2>3. ASSUME NEW p \in Place, p \in phis
        PROVE OperandsOf(W, new, p) =
                IF p[1] \in NextBlocks(b) THEN OperandsOf(V, val, p) \cup {op(p)}
                ELSE OperandsOf(V, val, p)
    <3>1. p[1] \in NextBlocks(b) <=> b \in Preds(Succ, p[1])
      BY <1>1, GraphOK DEF NextBlocks, Preds
    <3>2. op(p) = <<b, new[b][End(b)][p[2]]>>
      <4>1. p[2] \in Var /\ End(b) \in 1..End(b)
        BY <1>3 DEF Place
      <4> QED
        BY <1>3, <1>5, <4>1
    <3> HIDE DEF op
    <3> QED
      BY <1>2, <3>1, <3>2 DEF OperandsOf
  <2>4. \A p \in Place : incoming[p] = IF p \in phis THEN OperandsOf(V, val, p) ELSE {}
    BY <2>2 DEF IncomingOf
  <2> HIDE DEF W, op
  <2>5. incoming' = [p \in Place |-> IF p \in phis THEN OperandsOf(W, new, p) ELSE {}]
    BY <2>1, <2>3, <2>4
  <2> QED
    BY <2>5 DEF IncomingOf
<1> QED
  BY <1>6, <1>7 DEF new, W

-----------------------------------------------------------------------------
(***************************************************************************)
(* What each activation pushed is there till it ends: h[i][v] values of v   *)
(* lie on the stack at the end of the i-th block on the way down, the last  *)
(* of them the one that v holds there.                                      *)
(***************************************************************************)
Heights(cs, map, val, h) ==
  /\ h \in [0..Len(cs) -> [Var -> Nat]]
  /\ \A v \in Var : h[0][v] = 0 /\ h[Len(cs)][v] = Len(map[v])
  /\ \A i \in 1..Len(cs), v \in Var :
       /\ h[i][v] = h[i - 1][v] + cs[i].counter[v]
       /\ \A j \in 0..i : h[j][v] <= h[i][v]
       /\ val[cs[i].block][End(cs[i].block)][v] = IF h[i][v] = 0 THEN Zero ELSE map[v][h[i][v]]

LEMMA EnterHeights ==
  ASSUME Given, NEW V, NEW val, NEW b, Enters(b, V, val), Solved(phis, V, val),
         NEW n \in Nat, NEW cs, Len(cs) = n, NEW h, Heights(cs, replaceMap, val, h),
         \A i \in 1..n : cs[i].block \in V,
         NEW new, Len(new) = n + 1,
         \A i \in 1..n : new[i].block = cs[i].block /\ new[i].counter = cs[i].counter,
         new[n + 1].block = b,
         new[n + 1].counter = Pushes(b)
  PROVE  \E g : Heights(new, MapAt(b)[End(b)], With(val, b), g)
<1> DEFINE after == MapAt(b)[End(b)]
           nv == With(val, b)
           g == [i \in 0..(n + 1) |-> IF i = n + 1 THEN [v \in Var |-> Len(after[v])] ELSE h[i]]
<1>1. b \in Block /\ b \notin V /\ V \subseteq Block /\ replaceMap \in Stacks /\ fn \in Functions
  BY DEF Enters, Given
<1>2. nv[b] = Held(b) /\ \A c \in V : nv[c] = val[c]
  BY <1>1 DEF Solved, With
<1>3. End(b) \in 1..End(b) /\ after \in Stacks /\ Held(b)[End(b)] = Tops(after)
  BY <1>1, CodeOK, HeldOf
<1>4. \A v \in Var :
        /\ Len(replaceMap[v]) \in Nat /\ Len(after[v]) \in Nat
        /\ Len(replaceMap[v]) <= Len(after[v])
        /\ \A j \in 1..Len(replaceMap[v]) : after[v][j] = replaceMap[v][j]
  BY <1>1, MapGrows
<1>5. /\ h \in [0..n -> [Var -> Nat]]
      /\ \A v \in Var : h[0][v] = 0 /\ h[n][v] = Len(replaceMap[v])
      /\ \A i \in 1..n, v \in Var :
           /\ h[i][v] = h[i - 1][v] + cs[i].counter[v]
           /\ \A j \in 0..i : h[j][v] <= h[i][v]
           /\ val[cs[i].block][End(cs[i].block)][v] =
                IF h[i][v] = 0 THEN Zero ELSE replaceMap[v][h[i][v]]
  BY DEF Heights
<1>6. \A v \in Var : \A j \in 0..n : h[j][v] \in Nat /\ h[j][v] <= Len(replaceMap[v])
  <2> TAKE v \in Var
  <2> TAKE j \in 0..n
  <2>1. h[j][v] \in Nat
    BY <1>5
  <2>2. CASE n = 0
    BY <1>5, <2>1, <2>2
  <2>3. CASE n # 0
    <3>1. n \in 1..n
      BY <2>3
    <3>2. h[j][v] <= h[n][v]
      BY <1>5, <3>1
    <3> QED
      BY <1>5, <2>1, <3>2
  <2> QED
    BY <2>2, <2>3
<1>7. \A v \in Var : Top(after, v) = IF Len(after[v]) = 0 THEN Zero ELSE after[v][Len(after[v])]
  BY <1>3, TopOK
<1> HIDE DEF after, nv
<1>8. /\ g \in [0..(n + 1) -> [Var -> Nat]]
      /\ \A i \in 0..n : i \in 0..(n + 1) /\ i # n + 1 /\ g[i] = h[i]
      /\ n + 1 \in 0..(n + 1) /\ \A v \in Var : g[n + 1][v] = Len(after[v])
  <2>1. [v \in Var |-> Len(after[v])] \in [Var -> Nat]
    BY <1>4
  <2>2. \A i \in 0..(n + 1) : i # n + 1 => i \in 0..n
    OBVIOUS
  <2>3. g \in [0..(n + 1) -> [Var -> Nat]]
    BY <1>5, <2>1, <2>2
  <2> QED
    BY <2>3
<1> HIDE DEF g
<1>9. \A v \in Var : g[0][v] = 0
  <2>1. 0 \in 0..n
    OBVIOUS
  <2> QED
    BY <1>5, <1>8, <2>1
<1>10. ASSUME NEW i \in 1..n, NEW v \in Var
       PROVE /\ g[i][v] = g[i - 1][v] + new[i].counter[v]
             /\ \A j \in 0..i : g[j][v] <= g[i][v]
             /\ nv[new[i].block][End(new[i].block)][v] =
                  IF g[i][v] = 0 THEN Zero ELSE after[v][g[i][v]]
  <2>1. i \in 0..n /\ i - 1 \in 0..n /\ \A j \in 0..i : j \in 0..n
    OBVIOUS
  <2>2. g[i] = h[i] /\ g[i - 1] = h[i - 1] /\ \A j \in 0..i : g[j] = h[j]
    BY <1>8, <2>1
  <2>3. new[i].block = cs[i].block /\ new[i].counter = cs[i].counter /\ cs[i].block \in V
    OBVIOUS
  <2>4. nv[cs[i].block] = val[cs[i].block]
    BY <1>2, <2>3
  <2>5. h[i][v] \in Nat /\ h[i][v] <= Len(replaceMap[v])
    BY <1>6, <2>1
  <2>6. h[i][v] # 0 => after[v][h[i][v]] = replaceMap[v][h[i][v]]
    <3> DEFINE k == h[i][v]
    <3>1. ASSUME k # 0 PROVE k \in 1..Len(replaceMap[v])
      <4> HIDE DEF k
      <4> QED
        BY <1>4, <2>5, <3>1 DEF k
    <3> HIDE DEF k
    <3>2. k # 0 => after[v][k] = replaceMap[v][k]
      BY <1>4, <3>1
    <3> QED
      BY <3>2 DEF k
  <2>7. h[i][v] = h[i - 1][v] + cs[i].counter[v] /\ \A j \in 0..i : h[j][v] <= h[i][v]
    BY <1>5
  <2>8. val[cs[i].block][End(cs[i].block)][v] = IF h[i][v] = 0 THEN Zero ELSE replaceMap[v][h[i][v]]
    BY <1>5
  <2>9. g[i][v] = g[i - 1][v] + new[i].counter[v] /\ \A j \in 0..i : g[j][v] <= g[i][v]
    BY <2>2, <2>3, <2>7
  <2>10. nv[new[i].block][End(new[i].block)][v] = IF g[i][v] = 0 THEN Zero ELSE after[v][g[i][v]]
    BY <2>2, <2>3, <2>4, <2>6, <2>8
  <2> QED
    BY <2>9, <2>10
<1>11. ASSUME NEW v \in Var
       PROVE /\ g[n + 1][v] = g[n][v] + new[n + 1].counter[v]
             /\ \A j \in 0..(n + 1) : g[j][v] <= g[n + 1][v]
             /\ nv[new[n + 1].block][End(new[n + 1].block)][v] =
                  IF g[n + 1][v] = 0 THEN Zero ELSE after[v][g[n + 1][v]]
  <2>1. n \in 0..n /\ g[n] = h[n] /\ g[n + 1][v] = Len(after[v])
    BY <1>8
  <2>2. new[n + 1].counter[v] = Len(after[v]) - Len(replaceMap[v])
    BY DEF after, Pushes
  <2>3. Len(replaceMap[v]) \in Nat /\ Len(after[v]) \in Nat /\ Len(replaceMap[v]) <= Len(after[v])
    BY <1>4
  <2>4. g[n + 1][v] = g[n][v] + new[n + 1].counter[v]
    <3> DEFINE a == Len(after[v])
               l == Len(replaceMap[v])
    <3>1. g[n][v] = l
      BY <1>5, <2>1
    <3>2. l \in Nat /\ a \in Nat /\ g[n + 1][v] = a /\ new[n + 1].counter[v] = a - l
      BY <2>1, <2>2, <2>3
    <3> HIDE DEF a, l
    <3>3. a = l + (a - l)
      BY <3>2
    <3> QED
      BY <3>1, <3>2, <3>3
  <2>5. ASSUME NEW j \in 0..(n + 1) PROVE g[j][v] <= g[n + 1][v]
    <3>1. CASE j = n + 1
      BY <2>1, <2>3, <3>1
    <3>2. CASE j # n + 1
      <4>1. j \in 0..n
        BY <3>2
      <4>2. g[j][v] \in Nat /\ g[j][v] <= Len(replaceMap[v])
        BY <1>6, <1>8, <4>1
      <4> QED
        BY <2>1, <2>3, <4>2
    <3> QED
      BY <3>1, <3>2
  <2>6. nv[b][End(b)][v] = IF g[n + 1][v] = 0 THEN Zero ELSE after[v][g[n + 1][v]]
    <3>1. nv[b][End(b)][v] = Top(after, v)
      BY <1>2, <1>3 DEF Tops
    <3> QED
      BY <1>7, <2>1, <3>1
  <2> QED
    BY <2>4, <2>5, <2>6
<1>12. ASSUME NEW i \in 1..(n + 1), NEW v \in Var
       PROVE /\ g[i][v] = g[i - 1][v] + new[i].counter[v]
             /\ \A j \in 0..i : g[j][v] <= g[i][v]
             /\ nv[new[i].block][End(new[i].block)][v] =
                  IF g[i][v] = 0 THEN Zero ELSE after[v][g[i][v]]
  <2>1. CASE i = n + 1
    <3>1. (n + 1) - 1 = n
      OBVIOUS
    <3> QED
      BY <1>11, <2>1, <3>1
  <2>2. CASE i # n + 1
    <3>1. i \in 1..n
      BY <2>2
    <3> QED
      BY <1>10, <3>1
  <2> QED
    BY <2>1, <2>2
<1>13. Heights(new, after, nv, g)
  BY <1>8, <1>9, <1>12 DEF Heights
<1> QED
  BY <1>13 DEF after, nv

Popped(map, counter) == [v \in Var |-> SubSeq(map[v], 1, Len(map[v]) - counter[v])]

LEMMA LeaveHeights ==
  ASSUME NEW n \in Nat, n >= 1, NEW cs, Len(cs) = n, NEW map \in Stacks, NEW val, NEW h,
         Heights(cs, map, val, h), \A i \in 1..n : cs[i].counter \in [Var -> Nat],
         NEW new, Len(new) = n - 1, \A i \in 1..(n - 1) : new[i] = cs[i],
         NEW left, left = Popped(map, cs[n].counter)
  PROVE  left \in Stacks /\ \E g : Heights(new, left, val, g)
<1> DEFINE g == [i \in 0..(n - 1) |-> h[i]]
<1>1. /\ h \in [0..n -> [Var -> Nat]]
      /\ \A v \in Var : h[0][v] = 0 /\ h[n][v] = Len(map[v])
      /\ \A i \in 1..n, v \in Var :
           /\ h[i][v] = h[i - 1][v] + cs[i].counter[v]
           /\ \A j \in 0..i : h[j][v] <= h[i][v]
           /\ val[cs[i].block][End(cs[i].block)][v] = IF h[i][v] = 0 THEN Zero ELSE map[v][h[i][v]]
  BY DEF Heights
<1>2. n - 1 \in Nat /\ n \in 1..n /\ n - 1 \in 0..n /\ n - 1 \in 0..(n - 1) /\ 0 \in 0..(n - 1)
      /\ \A i \in 0..(n - 1) : i \in 0..n
  OBVIOUS
<1>3. g \in [0..(n - 1) -> [Var -> Nat]] /\ \A i \in 0..(n - 1) : g[i] = h[i]
  BY <1>1, <1>2
<1> HIDE DEF g
<1>4. ASSUME NEW v \in Var
      PROVE /\ left[v] \in Seq(Values) /\ Len(left[v]) = h[n - 1][v]
            /\ \A k \in 1..h[n - 1][v] : left[v][k] = map[v][k]
  <2> DEFINE k == h[n - 1][v]
             l == Len(map[v])
             c == cs[n].counter[v]
  <2>1. l = k + c /\ k \in Nat /\ c \in Nat /\ l \in Nat
    <3>1. h[n][v] = h[n - 1][v] + cs[n].counter[v] /\ h[n][v] = Len(map[v])
      BY <1>1, <1>2
    <3>2. h[n - 1][v] \in Nat /\ h[n][v] \in Nat /\ cs[n].counter[v] \in Nat
      BY <1>1, <1>2
    <3> QED
      BY <3>1, <3>2
  <2>2. left[v] = SubSeq(map[v], 1, l - c)
    BY DEF Popped
  <2>3. map[v] \in Seq(Values)
    BY DEF Stacks
  <2> HIDE DEF k, c
  <2>4. l - c = k
    BY <2>1
  <2>5. left[v] = SubSeq(map[v], 1, k)
    BY <2>2, <2>4
  <2>6. k <= l
    BY <2>1
  <2> DEFINE s == map[v]
  <2>7. s \in Seq(Values) /\ k <= Len(s) /\ k \in Nat
    BY <2>1, <2>3, <2>6
  <2> HIDE DEF s
  <2>8. SubSeq(s, 1, k) \in Seq(Values) /\ Len(SubSeq(s, 1, k)) = k
        /\ \A j \in 1..k : SubSeq(s, 1, k)[j] = s[j]
    BY <2>7
  <2> QED
    BY <2>5, <2>8 DEF s, k
<1>5. left \in Stacks
  BY <1>4 DEF Stacks, Popped
<1>6. ASSUME NEW v \in Var PROVE g[0][v] = 0 /\ g[n - 1][v] = Len(left[v])
  BY <1>1, <1>2, <1>3, <1>4
<1>7. ASSUME NEW i \in 1..(n - 1), NEW v \in Var
      PROVE /\ g[i][v] = g[i - 1][v] + new[i].counter[v]
            /\ \A j \in 0..i : g[j][v] <= g[i][v]
            /\ val[new[i].block][End(new[i].block)][v] =
                 IF g[i][v] = 0 THEN Zero ELSE left[v][g[i][v]]
  <2>1. i \in 1..n /\ i \in 0..(n - 1) /\ i - 1 \in 0..(n - 1) /\ \A j \in 0..i : j \in 0..(n - 1)
    OBVIOUS
  <2>2. g[i] = h[i] /\ g[i - 1] = h[i - 1] /\ \A j \in 0..i : g[j] = h[j]
    BY <1>3, <2>1
  <2>3. new[i] = cs[i]
    OBVIOUS
  <2>4. h[i][v] # 0 => left[v][h[i][v]] = map[v][h[i][v]]
    <3>1. h[i][v] \in Nat /\ h[n - 1][v] \in Nat
      BY <1>1, <1>2, <2>1
    <3>2. h[i][v] <= h[n - 1][v]
      <4>1. n - 1 \in 1..n /\ i \in 0..(n - 1)
        BY <2>1
      <4> QED
        BY <1>1, <4>1
    <3>3. ASSUME h[i][v] # 0 PROVE h[i][v] \in 1..h[n - 1][v]
      BY <3>1, <3>2, <3>3
    <3> QED
      BY <1>4, <3>3
  <2>5. h[i][v] = h[i - 1][v] + cs[i].counter[v] /\ \A j \in 0..i : h[j][v] <= h[i][v]
    BY <1>1, <2>1
  <2>6. val[cs[i].block][End(cs[i].block)][v] = IF h[i][v] = 0 THEN Zero ELSE map[v][h[i][v]]
    BY <1>1, <2>1
  <2>7. g[i][v] = g[i - 1][v] + new[i].counter[v] /\ \A j \in 0..i : g[j][v] <= g[i][v]
    BY <2>2, <2>3, <2>5
  <2>8. val[new[i].block][End(new[i].block)][v] = IF g[i][v] = 0 THEN Zero ELSE left[v][g[i][v]]
    BY <2>2, <2>3, <2>4, <2>6
  <2> QED
    BY <2>7, <2>8
<1>8. Heights(new, left, val, g)
  <2> DEFINE m == n - 1
  <2>1. Len(new) = m /\ g \in [0..m -> [Var -> Nat]]
    BY <1>3
  <2>2. \A v \in Var : g[0][v] = 0 /\ g[m][v] = Len(left[v])
    BY <1>6
  <2>3. \A i \in 1..m, v \in Var :
          /\ g[i][v] = g[i - 1][v] + new[i].counter[v]
          /\ \A j \in 0..i : g[j][v] <= g[i][v]
          /\ val[new[i].block][End(new[i].block)][v] =
               IF g[i][v] = 0 THEN Zero ELSE left[v][g[i][v]]
    BY <1>7
  <2> HIDE DEF m
  <2> QED
    BY <2>1, <2>2, <2>3 DEF Heights
<1> QED
  BY <1>5, <1>8

-----------------------------------------------------------------------------
(***************************************************************************)
(* The invariant of replace.  cs, map and P are calls, replaceMap and phis; *)
(* V are the blocks entered, val the values found in them.                  *)
(***************************************************************************)
Down(cs, map, P, V, val, h) ==
  /\ Stack(cs) /\ map \in Stacks /\ Placed(P)
  /\ V = Block \ Pending(cs)
  /\ Solved(P, V, val)
  /\ Heights(cs, map, val, h)

Renaming ==
  \E cs, map, P, V, val, h :
    /\ Down(cs, map, P, V, val, h)
    /\ calls = cs /\ replaceMap = map /\ phis = P
    /\ loaded = LoadedOf(V, val) /\ incoming = IncomingOf(P, V, val)

\* None of this looks at more of the state than what the pass is given.
LEMMA SolvedStays ==
  ASSUME given' = given, NEW P, NEW V, NEW val
  PROVE  Solved(P, V, val)' <=> Solved(P, V, val)
<1>1. fn' = fn /\ domTree' = domTree /\ domFrontier' = domFrontier
  BY DEF given
<1>2. \A b : Flows(P, val, b)' <=> Flows(P, val, b)
  BY <1>1 DEF Flows, HeldAfter, End, Code
<1>3. \A b, i, x : Defined(P, b, i, x)' <=> Defined(P, b, i, x)
  BY <1>1 DEF Defined, Code, doms
<1>4. \A b : End(b)' = End(b)
  BY <1>1 DEF End, Code
<1> QED
  BY <1>2, <1>3, <1>4 DEF Solved

LEMMA PlacedStays ==
  ASSUME given' = given, NEW P
  PROVE  Placed(P)' <=> Placed(P)
<1>1. fn' = fn /\ domTree' = domTree /\ domFrontier' = domFrontier
  BY DEF given
<1> QED
  BY <1>1 DEF Placed, Globals, Sets, Code

LEMMA ResultsStay ==
  ASSUME given' = given, NEW P, NEW V, NEW val
  PROVE  LoadedOf(V, val)' = LoadedOf(V, val) /\ IncomingOf(P, V, val)' = IncomingOf(P, V, val)
<1>1. fn' = fn
  BY DEF given
<1>2. Sites(V)' = Sites(V) /\ Succ' = Succ /\ \A b : Code(b)' = Code(b) /\ End(b)' = End(b)
  BY <1>1 DEF Sites, Code, End, Succ
<1>3. LoadedOf(V, val)' = LoadedOf(V, val)
  BY <1>2 DEF LoadedOf
<1>4. \A p : OperandsOf(V, val, p)' = OperandsOf(V, val, p)
  BY <1>2 DEF OperandsOf
<1> QED
  BY <1>3, <1>4 DEF IncomingOf

LEMMA DownStays ==
  ASSUME given' = given, NEW cs, NEW map, NEW P, NEW V, NEW val, NEW h
  PROVE  Down(cs, map, P, V, val, h)' <=> Down(cs, map, P, V, val, h)
<1>1. fn' = fn /\ domTree' = domTree
  BY DEF given
<1>2. Stack(cs)' <=> Stack(cs)
  BY <1>1 DEF Stack
<1>3. Pending(cs)' = Pending(cs)
  BY <1>1 DEF Pending, doms
<1>4. Heights(cs, map, val, h)' <=> Heights(cs, map, val, h)
  BY <1>1 DEF Heights, End, Code
<1> QED
  BY <1>2, <1>3, <1>4, SolvedStays, PlacedStays DEF Down

\* The blocks on the way down have been entered, and what is above them.
LEMMA OnTheWay ==
  ASSUME Given, NEW cs, Stack(cs)
  PROVE  /\ \A i \in 1..Len(cs) : cs[i].block \in Block \ Pending(cs)
         /\ \A b \in Block \ Pending(cs), d \in Block : b \in domTree[d] => d \notin Pending(cs)
<1>1. DomOrder(Block, Entry, doms)
  BY GraphOK DEF Given
<1>2. /\ Len(cs) \in Nat
      /\ \A i \in 1..Len(cs) : /\ cs[i].block \in Block /\ cs[i].rest \subseteq Block
                               /\ cs[i].rest \subseteq domTree[cs[i].block]
      /\ \A j \in 1..Len(cs) : \A i \in 1..j : cs[i].block \in doms[cs[j].block]
  BY StackOK
<1>3. ASSUME NEW i \in 1..Len(cs), NEW j \in 1..Len(cs), NEW e \in cs[j].rest, e \in doms[cs[i].block]
      PROVE  FALSE
  <2>1. e \in domTree[cs[j].block] /\ cs[j].block \in Block /\ cs[i].block \in Block /\ e \in Block
    BY <1>2
  <2>2. CASE i <= j
    <3>1. i \in 1..j
      BY <1>2, <2>2
    <3>2. cs[i].block \in doms[cs[j].block]
      BY <1>2, <3>1
    <3>3. e \in doms[cs[j].block]
      BY <1>1, <1>3, <2>1, <3>2 DEF DomOrder
    <3> QED
      BY <2>1, <3>3, TreeOK
  <2>3. CASE j < i
    <3>1. j \in 1..(Len(cs) - 1) /\ j + 1 \in 1..i /\ j + 1 \in 1..Len(cs)
      BY <1>2, <2>3
    <3> DEFINE s == cs[j + 1].block
    <3>2. s \in domTree[cs[j].block] /\ s \notin cs[j].rest
      BY <3>1 DEF Stack
    <3>3. s \in doms[cs[i].block] /\ s \in Block
      BY <1>2, <3>1
    <3> HIDE DEF s
    <3>4. e \in doms[s] \/ s \in doms[e]
      BY <1>1, <1>3, <2>1, <3>3 DEF DomOrder
    <3>5. e = s
      BY <2>1, <3>2, <3>4, SiblingsApart
    <3> QED
      BY <3>2, <3>5
  <2> QED
    BY <1>2, <2>2, <2>3
<1>4. \A i \in 1..Len(cs) : cs[i].block \in Block \ Pending(cs)
  BY <1>2, <1>3 DEF Pending
<1>5. ASSUME NEW b \in Block \ Pending(cs), NEW d \in Block, b \in domTree[d], d \in Pending(cs)
      PROVE  FALSE
  <2>1. PICK i \in 1..Len(cs) : \E c \in cs[i].rest : c \in doms[d]
    BY <1>5 DEF Pending
  <2>2. d \in doms[b]
    BY <1>5, TreeOK
  <2>3. \E c \in cs[i].rest : c \in doms[b]
    BY <1>1, <2>1, <2>2 DEF DomOrder
  <2> QED
    BY <2>3 DEF Pending
<1> QED
  BY <1>4, <1>5

\* What is on the stack above the entered block's parent is what holds there.
LEMMA Entered ==
  ASSUME Given, given' = given, phis' = phis, Placed(phis),
         NEW V, NEW val, NEW b, Enters(b, V, val), Solved(phis, V, val), Results(phis, V, val),
         NEW n \in Nat, NEW cs, Len(cs) = n, NEW h, Heights(cs, replaceMap, val, h),
         \A i \in 1..n : cs[i].block \in V,
         NEW callers, Enter(b, callers),
         NEW new, new = calls', Stack(new), Block \ Pending(new) = V \cup {b}, Len(new) = n + 1,
         \A i \in 1..n : new[i].block = cs[i].block /\ new[i].counter = cs[i].counter,
         new[n + 1].block = b,
         new[n + 1].counter = Pushes(b)
  PROVE  Renaming'
<1> DEFINE W == V \cup {b}
           nv == With(val, b)
<1>1. Solved(phis, W, nv)
  BY EnterSolved
<1>2. loaded' = LoadedOf(W, nv) /\ incoming' = IncomingOf(phis, W, nv)
  BY EnterResults
<1>3. PICK g : Heights(new, MapAt(b)[End(b)], nv, g)
  BY EnterHeights
<1>4. replaceMap' = MapAt(b)[End(b)] /\ MapAt(b)[End(b)] \in Stacks
  <2>1. b \in Block /\ replaceMap \in Stacks /\ fn \in Functions
    BY DEF Given, Enters
  <2>2. End(b) = Len(Code(b)) + 1 /\ End(b) \in 1..End(b)
    BY <2>1, CodeOK
  <2>3. replaceMap' = MapAt(b)[End(b)]
    BY <2>2 DEF Enter
  <2> QED
    BY <2>1, <2>2, <2>3, HeldOf
<1> HIDE DEF nv, W
<1>5. Down(new, MapAt(b)[End(b)], phis, W, nv, g)
  BY <1>1, <1>3, <1>4 DEF Down, W
<1>6. PICK map, P : map = MapAt(b)[End(b)] /\ P = phis
  OBVIOUS
<1>7. PICK X, y : X = W /\ y = nv
  OBVIOUS
<1>8. Down(new, map, P, X, y, g)
  BY <1>5, <1>6, <1>7
<1>9. Down(new, map, P, X, y, g)'
  BY <1>8, DownStays
<1>10. loaded' = LoadedOf(X, y)' /\ incoming' = IncomingOf(P, X, y)'
  BY <1>2, <1>6, <1>7, ResultsStay
<1>11. calls' = new /\ replaceMap' = map /\ phis' = P
  BY <1>4, <1>6
<1> QED
  BY <1>9, <1>10, <1>11 DEF Renaming

LEMMA PushesOK ==
  ASSUME Given, replaceMap \in Stacks, NEW b \in Block, NEW R \in SUBSET Block
  PROVE  [block |-> b, rest |-> R, counter |-> Pushes(b)] \in Frame
<1>1. ASSUME NEW v \in Var
      PROVE Len(MapAt(b)[End(b)][v]) - Len(replaceMap[v]) \in Nat
  <2>1. /\ Len(replaceMap[v]) \in Nat /\ Len(MapAt(b)[End(b)][v]) \in Nat
        /\ Len(replaceMap[v]) <= Len(MapAt(b)[End(b)][v])
    BY MapGrows DEF Given
  <2> QED
    BY <2>1
<1>2. Pushes(b) \in [Var -> Nat]
  BY <1>1 DEF Pushes
<1> QED
  BY <1>2 DEF Frame

LEMMA EnterCalls ==
  ASSUME Given, NEW b \in Block, NEW callers, Enter(b, callers)
  PROVE  calls' = Append(callers, [block |-> b, rest |-> domTree[b], counter |-> Pushes(b)])
<1>1. End(b) = Len(Code(b)) + 1
  BY DEF End
<1> QED
  BY <1>1 DEF Enter, Pushes

LEMMA StartStep ==
  ASSUME Given, Placing, StartRename
  PROVE  Renaming'
<1>1. /\ given' = given /\ phis' = phis /\ workList = {}
      /\ Enter(Entry, <<>>) /\ NoneYet
  BY DEF StartRename, Placing, given
<1>2. Placed(phis)
  BY <1>1 DEF Placing, Placed
<1>3. Entry \in Block /\ DomOrder(Block, Entry, doms) /\ fn \in Functions
  BY Blocks, GraphOK DEF Given
<1>4. replaceMap \in Stacks /\ \A v \in Var : replaceMap[v] = <<>> /\ Len(replaceMap[v]) = 0
  BY <1>1 DEF NoneYet, Stacks
<1> DEFINE val == [b \in Block |-> Zero]
           h == [i \in 0..0 |-> [v \in Var |-> 0]]
           none == {}
           cs == <<>>
<1>5. Enters(Entry, none, val)
  BY <1>3, <1>4 DEF Enters, Top
<1>6. Solved(phis, none, val)
  BY DEF Solved
<1>7. Results(phis, none, val)
  <2>1. Sites(none) = {}
    BY DEF Sites
  <2>2. loaded = LoadedOf(none, val)
    BY <1>1, <2>1 DEF NoneYet, LoadedOf
  <2>3. \A p \in Place : OperandsOf(none, val, p) = {}
    BY DEF OperandsOf
  <2>4. incoming = IncomingOf(phis, none, val)
    BY <1>1, <2>3 DEF NoneYet, IncomingOf
  <2> QED
    BY <2>2, <2>4 DEF Results
<1>8. Len(cs) = 0 /\ Heights(cs, replaceMap, val, h)
  BY <1>4 DEF Heights
<1> DEFINE top == [block |-> Entry, rest |-> domTree[Entry], counter |-> Pushes(Entry)]
<1>9. domTree[Entry] \subseteq Block
  BY <1>3 DEF Given
<1>10. top \in Frame
  BY <1>3, <1>4, <1>9, PushesOK
<1>11. calls' = Append(<<>>, top)
  BY <1>1, <1>3, EnterCalls
<1> HIDE DEF top
<1>12. PICK new : new = <<top>>
  OBVIOUS
<1>13. new = calls' /\ new \in Frames /\ Len(new) = 1 /\ new[1] = top
  BY <1>10, <1>11, <1>12 DEF Frames
<1>14. new[1].block = Entry /\ new[1].rest = domTree[Entry] /\ new[1].counter = Pushes(Entry)
  BY <1>13 DEF top
<1>15. Stack(new)
  BY <1>13, <1>14 DEF Stack
<1>16. Block \ Pending(new) = none \cup {Entry}
  <2>1. ASSUME NEW b \in Block, b # Entry PROVE b \in Pending(new)
    <3>1. Entry \in doms[b] \ {b}
      BY <1>3, <2>1 DEF DomOrder
    <3>2. \E d \in doms[b] : IsImmDom(doms, Entry, d)
      <4>1. CASE IsImmDom(doms, Entry, b)
        BY <1>3, <4>1 DEF DomOrder
      <4>2. CASE ~IsImmDom(doms, Entry, b)
        BY <1>3, <3>1, <4>2, Blocks, NoGap
      <4> QED
        BY <4>1, <4>2
    <3>3. PICK d \in doms[b] : IsImmDom(doms, Entry, d)
      BY <3>2
    <3>4. d \in Block /\ d \in domTree[Entry]
      BY <1>3, <3>3 DEF Given, DomOrder
    <3> QED
      BY <1>13, <1>14, <3>4 DEF Pending
  <2>2. ASSUME Entry \in Pending(new) PROVE FALSE
    <3>1. PICK c \in domTree[Entry] : c \in doms[Entry]
      BY <1>13, <1>14, <2>2 DEF Pending
    <3> QED
      BY <1>3, <3>1, TreeOK
  <2> QED
    BY <1>3, <2>1, <2>2
<1>19. PICK n \in Nat : n = 0
  OBVIOUS
<1>17. /\ Len(cs) = n /\ Len(new) = n + 1 /\ new[n + 1].block = Entry
       /\ new[n + 1].counter = Pushes(Entry)
       /\ \A i \in 1..n : /\ cs[i].block \in none
                          /\ new[i].block = cs[i].block /\ new[i].counter = cs[i].counter
  BY <1>8, <1>13, <1>14, <1>19
<1> HIDE DEF val, h, none, cs
<1>18. Enter(Entry, <<>>)
  BY <1>1
<1> QED
  BY <1>1, <1>2, <1>5, <1>6, <1>7, <1>8, <1>13, <1>15, <1>16, <1>17, <1>18, Entered

LEMMA RecurseStep ==
  ASSUME Given, Renaming, NEW c \in Block, Recurse(c)
  PROVE  Renaming'
<1>1. PICK cs, map, P, V, val, h :
        /\ Down(cs, map, P, V, val, h)
        /\ calls = cs /\ replaceMap = map /\ phis = P
        /\ loaded = LoadedOf(V, val) /\ incoming = IncomingOf(P, V, val)
  BY DEF Renaming
<1>2. /\ Stack(cs) /\ replaceMap \in Stacks /\ Placed(phis)
      /\ V = Block \ Pending(cs) /\ Solved(phis, V, val)
      /\ Heights(cs, replaceMap, val, h) /\ Results(phis, V, val)
  BY <1>1 DEF Down, Results
<1>3. PICK n \in Nat : n = Len(cs)
  BY <1>2, StackOK
<1>4. /\ n \in Nat /\ n >= 1 /\ n \in 1..n
      /\ \A i \in 1..n : cs[i].block \in Block /\ cs[i].rest \subseteq domTree[cs[i].block]
  BY <1>2, <1>3, StackOK
<1> DEFINE callers == Without(cs, n, c)
           top == [block |-> c, rest |-> domTree[c], counter |-> Pushes(c)]
<1>5. /\ given' = given /\ phis' = phis
      /\ c \in cs[n].rest /\ Enter(c, callers)
  BY <1>1, <1>3 DEF Recurse, Last, given, Without
<1>6. top \in Frame
  <2>1. domTree[c] \in SUBSET Block
    BY DEF Given
  <2> QED
    BY <1>2, <2>1, PushesOK
<1>7. PICK new : new = calls'
  OBVIOUS
<1>8. new = Append(callers, top)
  BY <1>5, <1>7, EnterCalls
<1>9. cs \in Frames
  BY <1>2 DEF Stack
<1>10. Grown(new, cs, n, c, top)
  <2> HIDE DEF top
  <2> QED
    BY <1>3, <1>4, <1>6, <1>8, <1>9, Pushed
<1>11. new[n + 1].block = c /\ new[n + 1].counter = Pushes(c)
  BY <1>10 DEF Grown
<1>21. top.block = c /\ top.rest = domTree[c]
  OBVIOUS
<1> HIDE DEF callers, top
<1>12. Stack(new) /\ c \in Pending(cs) /\ Pending(new) = Pending(cs) \ {c}
  BY <1>2, <1>3, <1>4, <1>5, <1>10, <1>21, PendingAfter
<1>13. Block \ Pending(new) = V \cup {c} /\ c \notin V /\ V \subseteq Block
  BY <1>2, <1>12
<1>14. /\ \A i \in 1..n : cs[i].block \in V
       /\ \A b \in V : \A d \in Block : b \in domTree[d] => d \in V
  BY <1>2, <1>3, OnTheWay
<1> DEFINE d == cs[n].block
<1>15. d \in Block /\ d \in V /\ c \in domTree[d]
  BY <1>4, <1>5, <1>14
<1>16. ASSUME NEW v \in Var PROVE Top(replaceMap, v) = val[d][End(d)][v]
  <2>1. Top(replaceMap, v) = IF Len(replaceMap[v]) = 0 THEN Zero ELSE replaceMap[v][Len(replaceMap[v])]
    BY <1>2, TopOK
  <2>2. h[n][v] = Len(replaceMap[v])
    BY <1>2, <1>3 DEF Heights
  <2>3. val[d][End(d)][v] = IF h[n][v] = 0 THEN Zero ELSE replaceMap[v][h[n][v]]
    BY <1>2, <1>3, <1>4 DEF Heights
  <2> QED
    BY <2>1, <2>2, <2>3
<1> HIDE DEF d
<1>17. c # Entry /\ \A e \in Block : c \in domTree[e] => e = d
  BY <1>15, TreeOK
<1>18. Enters(c, V, val)
  BY <1>2, <1>13, <1>14, <1>15, <1>16, <1>17 DEF Enters
<1>19. \A i \in 1..n : new[i].block = cs[i].block /\ new[i].counter = cs[i].counter
  BY <1>10 DEF Grown
<1>20. Len(new) = n + 1
  BY <1>10 DEF Grown
<1> QED
  BY <1>2, <1>3, <1>4, <1>5, <1>7, <1>11, <1>12, <1>13, <1>14, <1>18, <1>19, <1>20, Entered

-----------------------------------------------------------------------------
(***************************************************************************)
(* After replace: P had phis, clearPhi keeps those of them that are used.   *)
(***************************************************************************)
Whole(P, val) ==
  /\ Placed(P) /\ Solved(P, Block, val)
  /\ loaded = LoadedOf(Block, val) /\ incoming = IncomingOf(P, Block, val)

KeptUsed(P) == phis \subseteq P /\ \A p \in P : IsUsed(p) => p \in phis

Kept(x) == x.kind = "phi" => <<x.at, x.name>> \in phis

\* v holds what the source program gave it.
Written(v) ==
  \/ v \in Globals
  \/ \E j \in 1..(at[2] - 1) : Stores(Code(at[1])[j]) /\ Code(at[1])[j].var = v

Claim(val) ==
  /\ DOMAIN mem = Var /\ DOMAIN env = Place
  /\ at = <<at[1], at[2]>> /\ at[1] \in Block /\ at[2] \in 1..End(at[1])
  /\ \A v \in Var :
       Written(v) /\ Kept(val[at[1]][at[2]][v]) => Eval(val[at[1]][at[2]][v]) = mem[v]

Renamed == \E P, val : Whole(P, val) /\ KeptUsed(P) /\ (pc = "done" => Claim(val))

LEMMA WholeStays ==
  ASSUME given' = given, loaded' = loaded, incoming' = incoming, NEW P, NEW val, Whole(P, val)
  PROVE  Whole(P, val)'
<1>1. Placed(P)' /\ loaded' = LoadedOf(Block, val)' /\ incoming' = IncomingOf(P, Block, val)'
  BY PlacedStays, ResultsStay DEF Whole
<1>2. Solved(P, Block, val)'
  BY SolvedStays DEF Whole
<1> QED
  BY <1>1, <1>2 DEF Whole

LEMMA LeaveStep ==
  ASSUME Given, Renaming, pc = "rename", Leave
  PROVE  IF pc' = "rename" THEN Renaming' ELSE pc' = "unused" /\ Renamed'
<1>1. PICK cs, map, P, V, val, h :
        /\ Down(cs, map, P, V, val, h)
        /\ calls = cs /\ replaceMap = map /\ phis = P
        /\ loaded = LoadedOf(V, val) /\ incoming = IncomingOf(P, V, val)
  BY DEF Renaming
<1>2. /\ Stack(cs) /\ map \in Stacks /\ Placed(P)
      /\ V = Block \ Pending(cs) /\ Solved(P, V, val) /\ Heights(cs, map, val, h)
  BY <1>1 DEF Down
<1>3. PICK n \in Nat : n = Len(cs)
  BY <1>2, StackOK
<1>4. /\ n >= 1 /\ n \in 1..n
      /\ \A i \in 1..n : cs[i].counter \in [Var -> Nat]
  BY <1>2, <1>3, StackOK
<1>5. /\ given' = given /\ phis' = P /\ loaded' = loaded /\ incoming' = incoming
      /\ cs[n].rest = {} /\ calls' = Front(cs)
      /\ replaceMap' = Popped(map, cs[n].counter)
      /\ pc' = IF n = 1 THEN "unused" ELSE "rename"
  BY <1>1, <1>3 DEF Leave, Last, given, Popped
<1>6. loaded' = LoadedOf(V, val)' /\ incoming' = IncomingOf(P, V, val)'
  BY <1>1, <1>5, ResultsStay
<1>7. CASE n = 1
  <2>1. Pending(cs) = {}
    BY <1>3, <1>5, <1>7 DEF Pending
  <2>2. V = Block
    BY <1>2, <2>1
  <2>3. Whole(P, val)
    BY <1>1, <1>2, <2>2 DEF Whole
  <2>4. Whole(P, val)'
    BY <1>5, <2>3, WholeStays
  <2>5. KeptUsed(P)'
    BY <1>5 DEF KeptUsed
  <2>6. pc' = "unused"
    BY <1>5, <1>7
  <2> QED
    BY <2>4, <2>5, <2>6 DEF Renamed
<1>8. CASE n # 1
  <2>1. PICK new : new = Front(cs)
    OBVIOUS
  <2>2. /\ new \in Frames /\ Len(new) = n - 1
        /\ \A i \in 1..(n - 1) : new[i] = cs[i]
    <3>1. cs \in Seq(Frame) /\ n - 1 \in Nat /\ n - 1 <= Len(cs)
      BY <1>2, <1>3, <1>4 DEF Stack, Frames
    <3>2. new = SubSeq(cs, 1, n - 1)
      BY <1>3, <2>1 DEF Front
    <3> DEFINE m == n - 1
    <3> HIDE DEF m
    <3>3. m \in Nat /\ m <= Len(cs) /\ new = SubSeq(cs, 1, m)
      BY <3>1, <3>2 DEF m
    <3>4. new \in Seq(Frame) /\ Len(new) = m /\ \A i \in 1..m : new[i] = cs[i]
      BY <3>1, <3>3
    <3> QED
      BY <3>4 DEF m, Frames
  <2>3. Stack(new)
    <3>1. 1 \in 1..(n - 1) /\ Len(new) > 0
      BY <1>4, <1>8, <2>2
    <3>2. new[1].block = Entry
      BY <1>2, <2>2, <3>1 DEF Stack
    <3>3. ASSUME NEW i \in 1..(n - 1) PROVE new[i].rest \subseteq domTree[new[i].block]
      <4>1. i \in 1..n
        OBVIOUS
      <4> QED
        BY <1>2, <1>3, <2>2, <4>1 DEF Stack
    <3>4. ASSUME NEW i \in 1..((n - 1) - 1)
          PROVE new[i + 1].block \in domTree[new[i].block] \ new[i].rest
      <4>1. i \in 1..(n - 1) /\ i + 1 \in 1..(n - 1)
        OBVIOUS
      <4>2. new[i] = cs[i] /\ new[i + 1] = cs[i + 1]
        BY <2>2, <4>1
      <4>3. cs[i + 1].block \in domTree[cs[i].block] \ cs[i].rest
        BY <1>2, <1>3, <4>1 DEF Stack
      <4> QED
        BY <4>2, <4>3
    <3>5. Len(new) = n - 1
      BY <2>2
    <3> QED
      BY <2>2, <3>1, <3>2, <3>3, <3>4, <3>5 DEF Stack
  <2>4. Pending(new) = Pending(cs)
    <3>1. \A i \in 1..(n - 1) : i \in 1..n /\ new[i].rest = cs[i].rest
      BY <2>2
    <3>2. \A i \in 1..n : i = n \/ i \in 1..(n - 1)
      OBVIOUS
    <3>3. ASSUME NEW b \in Block
          PROVE (\E i \in 1..(n - 1) : \E c \in new[i].rest : c \in doms[b])
                <=> \E i \in 1..n : \E c \in cs[i].rest : c \in doms[b]
      BY <1>5, <3>1, <3>2
    <3> QED
      BY <1>3, <2>2, <3>3 DEF Pending
  <2>5. PICK left : left = replaceMap'
    OBVIOUS
  <2>6. left \in Stacks /\ \E g : Heights(new, left, val, g)
    BY <1>2, <1>3, <1>4, <1>5, <2>2, <2>5, LeaveHeights
  <2>7. PICK g : Heights(new, left, val, g)
    BY <2>6
  <2>8. Down(new, left, P, V, val, g)
    BY <1>2, <2>3, <2>4, <2>6, <2>7 DEF Down
  <2>9. Down(new, left, P, V, val, g)'
    BY <1>5, <2>8, DownStays
  <2>10. calls' = new /\ replaceMap' = left /\ phis' = P /\ pc' = "rename"
    BY <1>5, <1>8, <2>1, <2>5
  <2> QED
    BY <1>6, <2>9, <2>10 DEF Renaming
<1> QED
  BY <1>7, <1>8

-----------------------------------------------------------------------------
(* clearPhi. *)

AtStart ==
  /\ at = <<Entry, 1>>
  /\ mem = [v \in Var |-> Latest(Zero)] /\ env = [p \in Place |-> Latest(Zero)]

LEMMA StartClaim ==
  ASSUME Given, AtStart, NEW P, NEW val, Whole(P, val)
  PROVE  Claim(val)
<1>1. Entry \in Block /\ 1 \in 1..End(Entry)
  BY Blocks, CodeOK DEF Given
<1>2. at = <<at[1], at[2]>> /\ at[1] = Entry /\ at[2] = 1
  BY DEF AtStart
<1>3. ASSUME NEW v \in Var PROVE Eval(val[Entry][1][v]) = mem[v]
  <2>1. <<Entry, v>> \notin P
    BY DEF Whole, Placed
  <2>2. Flows(P, val, Entry)
    BY <1>1 DEF Whole, Solved
  <2>3. val[Entry][1][v] = Zero
    BY <2>1, <2>2 DEF Flows
  <2>4. Eval(Zero) = Latest(Zero)
    BY DEF Eval, Zero
  <2> QED
    BY <2>3, <2>4 DEF AtStart
<1> QED
  BY <1>1, <1>2, <1>3 DEF Claim, AtStart

LEMMA EraseStep ==
  ASSUME Given, Renamed, EraseUnused
  PROVE  Renamed'
<1>1. /\ given' = given /\ loaded' = loaded /\ incoming' = incoming
      /\ phis' = {p \in phis : IsUsed(p)} /\ pc' = "selfMerge"
  BY DEF EraseUnused, given
<1>2. PICK P, val : Whole(P, val) /\ KeptUsed(P)
  BY DEF Renamed
<1>3. Whole(P, val)'
  BY <1>1, <1>2, WholeStays
<1>4. \A p : IsUsed(p)' <=> IsUsed(p)
  BY <1>1 DEF IsUsed
<1>5. KeptUsed(P)'
  BY <1>1, <1>2, <1>4 DEF KeptUsed
<1> QED
  BY <1>1, <1>3, <1>5 DEF Renamed

LEMMA MergeStep ==
  ASSUME Given, Renamed, AtStart, MergeSelves \/ CrashInMerge, UNCHANGED runVars
  PROVE  Renamed' /\ AtStart'
<1>1. /\ given' = given /\ loaded' = loaded /\ incoming' = incoming
      /\ phis' = phis
  BY DEF MergeSelves, CrashInMerge, given
<1>2. PICK P, val : Whole(P, val) /\ KeptUsed(P)
  BY DEF Renamed
<1>3. Whole(P, val)'
  BY <1>1, <1>2, WholeStays
<1>4. \A p : IsUsed(p)' <=> IsUsed(p)
  BY <1>1 DEF IsUsed
<1>5. KeptUsed(P)'
  BY <1>1, <1>2, <1>4 DEF KeptUsed
<1>6. AtStart'
  BY DEF AtStart, runVars
<1>7. Claim(val)'
  <2>1. Claim(val)
    BY <1>2, StartClaim
  <2>2. at' = at /\ mem' = mem /\ env' = env
    BY DEF runVars
  <2>3. \A v : Written(v)' <=> Written(v)
    BY <1>1, <2>2, GivenStays DEF Written
  <2>4. \A x : (Kept(x)' <=> Kept(x)) /\ Eval(x)' = Eval(x)
    BY <1>1, <2>2 DEF Kept, Eval
  <2>5. \A b : End(b)' = End(b)
    BY <1>1, GivenStays
  <2> QED
    BY <2>1, <2>2, <2>3, <2>4, <2>5 DEF Claim
<1> QED
  BY <1>3, <1>5, <1>6, <1>7 DEF Renamed

-----------------------------------------------------------------------------
(* The promoted function beside the one with loads and stores. *)

LEMMA AgeOK ==
  ASSUME NEW D, NEW f, DOMAIN f = D, NEW new
  PROVE  /\ DOMAIN Age(f, new) = D
         /\ \A k \in D : Age(f, new)[k] = IF f[k] = Latest(new) THEN Earlier(new) ELSE f[k]
BY DEF Age

\* What holds a value here was not defined by this instruction.
LEMMA NotYet ==
  ASSUME NEW P, NEW b, NEW i \in Nat, NEW x, Defined(P, b, i, x)
  PROVE  x # Def(b, i)
<1>1. Def(b, i) # Zero /\ \A q : Def(b, i) # Phi(q)
  BY DEF Def, Zero, Phi
<1>2. \A c : \A j : Def(b, i) = Def(c, j) => c = b /\ j = i
  BY DEF Def
<1> QED
  BY <1>1, <1>2 DEF Defined

LEMMA ExecuteStep ==
  ASSUME Given, Renamed, pc = "done", Execute
  PROVE  Renamed'
<1>1. /\ given' = given /\ loaded' = loaded /\ incoming' = incoming
      /\ phis' = phis /\ pc' = "done"
  BY DEF Execute, vars, given
<1>2. PICK P, val : Whole(P, val) /\ KeptUsed(P) /\ Claim(val)
  BY DEF Renamed
<1>3. Whole(P, val)'
  BY <1>1, <1>2, WholeStays
<1>4. \A p : IsUsed(p)' <=> IsUsed(p)
  BY <1>1 DEF IsUsed
<1>5. KeptUsed(P)'
  BY <1>1, <1>2, <1>4 DEF KeptUsed
<1> DEFINE o == Instr
<1>6. PICK b, i : b = at[1] /\ i = at[2]
  OBVIOUS
<1>7. b \in Block /\ i \in 1..Len(Code(b)) /\ at' = <<b, i + 1>> /\ Len(Code(b)) \in Nat
      /\ End(b) = Len(Code(b)) + 1
  <2>1. at[1] \in Block /\ at[2] \in 1..End(at[1])
    BY <1>2 DEF Claim
  <2>2. Len(Code(b)) \in Nat /\ End(b) = Len(Code(b)) + 1
    BY <1>6, <2>1, CodeOK DEF Given
  <2>3. i <= Len(Code(b))
    BY <1>6 DEF Execute, Running
  <2>4. at' = <<b, i + 1>>
    BY <1>6 DEF Execute
  <2> QED
    BY <1>6, <2>1, <2>2, <2>3, <2>4
<1>8. i \in 1..End(b) /\ i + 1 \in 1..End(b) /\ i \in Nat
  BY <1>7
<1>9. o = Code(b)[i] /\ o.op \in {"store", "load", "copy"} /\ o.var \in Var /\ o.from \in Var
  BY <1>6, <1>7, CodeOK DEF Given, Instr
<1> HIDE DEF o
<1> DEFINE y(v) == val[b][i][v]
           z(v) == val[b][i + 1][v]
<1>10. /\ val[b][i] \in Holding /\ val[b][i + 1] = HeldAfter(b, i, val[b][i])
       /\ \A v \in Var : y(v) # Def(b, i)
  <2>1. Flows(P, val, b) /\ \A v \in Var : Defined(P, b, i, val[b][i][v])
    BY <1>2, <1>7, <1>8 DEF Whole, Solved
  <2> QED
    BY <1>7, <1>8, <2>1, NotYet DEF Flows
<1>11. /\ DOMAIN mem = Var /\ DOMAIN env = Place
       /\ \A v \in Var : Written(v) /\ Kept(y(v)) => Eval(y(v)) = mem[v]
  BY <1>2, <1>6 DEF Claim
<1>12. \A v \in Var : Written(v)' <=> Written(v) \/ (Stores(o) /\ o.var = v)
  <2>1. \A v : Written(v)' <=>
          v \in Globals \/ \E j \in 1..((i + 1) - 1) : Stores(Code(b)[j]) /\ Code(b)[j].var = v
    BY <1>1, <1>7, GivenStays DEF Written
  <2>2. \A v : Written(v) <=>
          v \in Globals \/ \E j \in 1..(i - 1) : Stores(Code(b)[j]) /\ Code(b)[j].var = v
    BY <1>6 DEF Written
  <2>3. \A j : j \in 1..((i + 1) - 1) <=> j \in 1..(i - 1) \/ j = i
    BY <1>8, <1>7
  <2> QED
    BY <1>9, <2>1, <2>2, <2>3
<1>13. \A x : Kept(x)' <=> Kept(x)
  BY <1>1 DEF Kept
<1> HIDE DEF y, z
<1>14. CASE o.op = "store"
  <2> DEFINE new == Def(b, i)
  <2>1. mem' = [Age(mem, new) EXCEPT ![o.var] = Latest(new)] /\ env' = Age(env, new)
    BY <1>6, <1>14 DEF Execute, o
  <2>2. \A v \in Var : z(v) = IF v = o.var THEN new ELSE y(v)
    BY <1>9, <1>10, <1>14 DEF HeldAfter, Holding, y, z
  <2>3. Latest(new) # Earlier(new) /\ \A x : Latest(x) = Latest(new) => x = new
    BY DEF Latest, Earlier
  <2>4. new.kind = "def"
    BY DEF Def
  <2> HIDE DEF new
  <2>5. /\ DOMAIN mem' = Var /\ DOMAIN env' = Place
        /\ \A v \in Var : mem'[v] = IF v = o.var THEN Latest(new)
                                    ELSE IF mem[v] = Latest(new) THEN Earlier(new) ELSE mem[v]
        /\ \A p \in Place : env'[p] = IF env[p] = Latest(new) THEN Earlier(new) ELSE env[p]
    BY <1>11, <2>1, AgeOK
  <2>6. ASSUME NEW v \in Var, Written(v)', Kept(z(v))'
        PROVE  Eval(z(v))' = mem'[v]
    <3>1. CASE v = o.var
      <4>1. z(v) = new /\ mem'[v] = Latest(new)
        BY <2>2, <2>5, <3>1
      <4>2. Eval(new)' = Latest(new)
        BY <2>4 DEF Eval
      <4> QED
        BY <4>1, <4>2
    <3>2. CASE v # o.var
      <4>1. z(v) = y(v) /\ Written(v) /\ Kept(y(v))
        BY <1>12, <1>13, <2>2, <2>6, <3>2
      <4>2. Eval(y(v)) = mem[v]
        BY <1>11, <4>1
      <4>3. CASE y(v).kind = "phi"
        <5> DEFINE p == <<y(v).at, y(v).name>>
        <5>1. p \in phis
          BY <4>1, <4>3 DEF Kept
        <5>2. p \in Place
          <6>1. phis \subseteq P /\ P \subseteq Place
            BY <1>2 DEF KeptUsed, Whole, Placed, Place, Globals
          <6> QED
            BY <5>1, <6>1
        <5>3. Eval(y(v)) = env[p] /\ Eval(y(v))' = env'[p]
          BY <4>3 DEF Eval
        <5> QED
          BY <2>5, <3>2, <4>1, <4>2, <5>2, <5>3
      <4>4. CASE y(v).kind # "phi"
        <5>1. Eval(y(v)) = Latest(y(v)) /\ Eval(y(v))' = Latest(y(v))
          BY <4>4 DEF Eval
        <5>2. y(v) # new
          BY <1>10 DEF new, y
        <5> QED
          BY <2>3, <2>5, <3>2, <4>1, <4>2, <5>1, <5>2
      <4> QED
        BY <4>3, <4>4
    <3> QED
      BY <3>1, <3>2
  <2>7. Claim(val)'
    <3>1. at' = <<at'[1], at'[2]>> /\ at'[1] = b /\ at'[2] = i + 1 /\ End(b)' = End(b)
      BY <1>1, <1>7, GivenStays
    <3>2. \A v \in Var : Written(v)' /\ Kept(val[b][i + 1][v])' => Eval(val[b][i + 1][v])' = mem'[v]
      BY <2>6 DEF z
    <3> QED
      BY <1>7, <1>8, <2>5, <3>1, <3>2 DEF Claim
  <2> QED
    BY <1>3, <1>5, <2>7 DEF Renamed
<1>15. CASE o.op \in {"copy", "load"}
  <2>1. env' = env /\ mem' = IF o.op = "copy" THEN [mem EXCEPT ![o.var] = mem[o.from]] ELSE mem
    BY <1>15 DEF Execute, o
  <2>2. \A v \in Var : z(v) = IF o.op = "copy" /\ v = o.var THEN y(o.from) ELSE y(v)
    BY <1>9, <1>10, <1>15 DEF HeldAfter, Holding, y, z
  <2>3. /\ DOMAIN mem' = Var /\ DOMAIN env' = Place
        /\ \A v \in Var : mem'[v] = IF o.op = "copy" /\ v = o.var THEN mem[o.from] ELSE mem[v]
    BY <1>9, <1>11, <2>1
  <2>4. \A x : Eval(x)' = Eval(x)
    BY <2>1 DEF Eval
  <2>5. Written(o.from)
    <3>1. DOMAIN Code(b) = 1..Len(Code(b)) /\ Loads(o)
      BY <1>7, <1>15, CodeOK DEF Given, Loads
    <3>2. ASSUME \A j \in 1..(i - 1) : ~(Stores(Code(b)[j]) /\ Code(b)[j].var = o.from)
          PROVE o.from \in Globals
      BY <1>7, <1>9, <3>1, <3>2 DEF Globals
    <3> QED
      BY <1>6, <3>2 DEF Written
  <2>6. ASSUME NEW v \in Var, Written(v)', Kept(z(v))'
        PROVE  Eval(z(v))' = mem'[v]
    <3>1. CASE o.op = "copy" /\ v = o.var
      <4>1. z(v) = y(o.from) /\ mem'[v] = mem[o.from] /\ Kept(y(o.from))
        BY <1>13, <2>2, <2>3, <2>6, <3>1
      <4> QED
        BY <1>9, <1>11, <2>4, <2>5, <4>1
    <3>2. CASE ~(o.op = "copy" /\ v = o.var)
      <4>1. z(v) = y(v) /\ mem'[v] = mem[v] /\ Kept(y(v))
        BY <1>13, <2>2, <2>3, <2>6, <3>2
      <4>2. Written(v)
        BY <1>12, <1>15, <2>6, <3>2 DEF Stores
      <4> QED
        BY <1>11, <2>4, <4>1, <4>2
    <3> QED
      BY <3>1, <3>2
  <2>7. Claim(val)'
    <3>1. at' = <<at'[1], at'[2]>> /\ at'[1] = b /\ at'[2] = i + 1 /\ End(b)' = End(b)
      BY <1>1, <1>7, GivenStays
    <3>2. \A v \in Var : Written(v)' /\ Kept(val[b][i + 1][v])' => Eval(val[b][i + 1][v])' = mem'[v]
      BY <2>6 DEF z
    <3> QED
      BY <1>7, <1>8, <2>3, <3>1, <3>2 DEF Claim
  <2> QED
    BY <1>3, <1>5, <2>7 DEF Renamed
<1> QED
  BY <1>9, <1>14, <1>15

\* A strict dominator of a block dominates what branches to the block.
LEMMA DominatesBefore ==
  ASSUME Given, NEW c \in Block, NEW b \in Preds(Succ, c), NEW d \in doms[c] \ {c}
  PROVE  b \in Block /\ c # Entry /\ d \in doms[b]
<1>1. /\ DOMAIN Succ = Block /\ \A x \in Block : Succ[x] \subseteq Block
      /\ doms = DomSets(Succ, Entry) /\ DomOrder(Block, Entry, doms)
      /\ Preds(Succ, Entry) = {} /\ Entry \in Block
  BY GraphOK, Blocks DEF Given
<1>2. b \in Block /\ c # Entry /\ d \in Block
  BY <1>1 DEF Preds, DomOrder
<1>3. \A x \in Block : d \in doms[x] <=> x \notin Region(Succ, Entry, d) \/ x = d
  <2>1. \A x \in Block : doms[x] = Dominators(Succ, Entry, x)
    BY <1>1 DEF DomSets
  <2>2. \A x \in Block : d \in doms[x] <=> Dominates(Succ, Entry, d, x)
    BY <1>1, <1>2, <2>1 DEF Dominators
  <2> QED
    BY <1>1, <2>2, DominatesRegion
<1>4. Region(Succ, Entry, d) \in Avoiding(Succ, Entry, d)
  BY <1>1, RegionAvoids
<1>5. ASSUME b \in Region(Succ, Entry, d), b # d PROVE FALSE
  <2>1. Succ[b] \subseteq Region(Succ, Entry, d)
    BY <1>4, <1>5 DEF Avoiding
  <2>2. c \in Region(Succ, Entry, d)
    BY <2>1 DEF Preds
  <2> QED
    BY <1>3, <2>2
<1> QED
  BY <1>2, <1>3, <1>5

\* Where a block neither stores v nor has a phi of v, v is the same at its end.
LEMMA Unchanged ==
  ASSUME Given, NEW P, NEW val, NEW b \in Block, Flows(P, val, b), NEW v \in Var, ~Sets(b, v)
  PROVE  val[b][End(b)][v] = val[b][1][v]
<1> DEFINE n == Len(Code(b))
           S == {i \in 1..(n + 1) : val[b][i][v] = val[b][1][v]}
<1>1. n \in Nat /\ End(b) = n + 1 /\ DOMAIN Code(b) = 1..n
  BY CodeOK DEF Given
<1>2. 1 \in S
  BY <1>1
<1>3. ASSUME NEW i \in 1..n, i \in S PROVE i + 1 \in S
  <2>1. /\ Code(b)[i].op \in {"store", "load", "copy"}
        /\ Code(b)[i].var \in Var /\ Code(b)[i].from \in Var
    BY CodeOK DEF Given
  <2>2. ~(Stores(Code(b)[i]) /\ Code(b)[i].var = v)
    BY <1>1 DEF Sets
  <2>3. i \in 1..End(b) /\ i + 1 \in 1..(n + 1)
    BY <1>1
  <2>4. val[b][i] \in Holding /\ val[b][i + 1] = HeldAfter(b, i, val[b][i])
    BY <2>3 DEF Flows
  <2>5. val[b][i + 1][v] = val[b][i][v]
    BY <2>1, <2>2, <2>4 DEF HeldAfter, Holding, Stores
  <2> QED
    BY <1>3, <2>3, <2>5
<1>4. \A i \in 1..(n + 1) : i \in S
  <2> HIDE DEF S, n
  <2> QED
    BY <1>1, <1>2, <1>3, UpTo
<1>5. n + 1 \in S
  BY <1>1, <1>4
<1> QED
  BY <1>1, <1>5

(***************************************************************************)
(* Between the immediate dominator d of a block c and a block b that        *)
(* branches to c nothing of v happens if c has no phi of v: whatever block  *)
(* there stores v or has a phi of it has c in its frontier.                 *)
(***************************************************************************)
LEMMA SameBelow ==
  ASSUME Given, NEW P, NEW val, Whole(P, val), NEW c \in Block, NEW b \in Preds(Succ, c),
         NEW d \in Block, c \in domTree[d], NEW v \in Globals, <<c, v>> \notin P
  PROVE  val[b][End(b)][v] = val[d][End(d)][v]
<1>1. /\ DOMAIN Succ = Block /\ DomOrder(Block, Entry, doms) /\ v \in Var
  BY GraphOK DEF Given, Globals
<1>2. d # c /\ d \in doms[c] /\ doms[c] \ {c} = doms[d]
  BY TreeOK
<1>3. b \in Block /\ d \in doms[b]
  BY <1>2, DominatesBefore
<1> DEFINE Bad == {y \in doms[b] : d \in doms[y] /\ val[y][End(y)][v] # val[d][End(d)][v]}
<1>4. ASSUME Bad # {} PROVE FALSE
  <2> DEFINE depth == [y \in Bad |-> Depth(doms, y)]
  <2>1. \A y \in Bad : depth[y] \in Nat /\ y \in Block
    <3> TAKE y \in Bad
    <3>1. y \in Block
      BY <1>1, <1>3 DEF DomOrder
    <3>2. Depth(doms, y) \in Nat
      BY <1>1, <3>1, Blocks, DepthLess
    <3> QED
      BY <3>1, <3>2
  <2>2. PICK y \in Bad : \A x \in Bad : depth[y] <= depth[x]
    <3> HIDE DEF Bad, depth
    <3> QED
      BY <1>4, <2>1, LeastBy
  <2>3. y \in Block /\ y \in doms[b] /\ d \in doms[y] /\ y # d
    BY <2>1
  <2>4. y \notin doms[c] \ {c}
    BY <1>1, <1>2, <2>3 DEF DomOrder
  <2>5. c \in domFrontier[y]
    <3>1. domFrontier[y] = Frontier(Succ, doms, y)
      BY <2>3 DEF Given
    <3> QED
      BY <1>1, <2>3, <2>4, <3>1 DEF Frontier
  <2>6. ~Sets(y, v) /\ <<y, v>> \notin P
    BY <2>3, <2>5 DEF Whole, Placed
  <2>7. Flows(P, val, y)
    BY <2>3 DEF Whole, Solved
  <2>8. val[y][End(y)][v] = val[y][1][v]
    BY <1>1, <2>3, <2>6, <2>7, Unchanged
  <2>9. y # Entry
    BY <1>1, <2>3 DEF DomOrder
  <2>10. PICK e \in Block : IsImmDom(doms, e, y)
    BY <1>1, <2>3, <2>9, Blocks, ImmDomExists
  <2>11. y \in domTree[e]
    BY <2>3, <2>10 DEF Given
  <2>12. val[y][1][v] = val[e][End(e)][v]
    BY <1>1, <2>6, <2>7, <2>9, <2>11 DEF Flows
  <2>13. e \in doms[y] \ {y} /\ doms[y] \ {y} = doms[e]
    BY <2>11, TreeOK, <2>10 DEF IsImmDom
  <2>14. d \in doms[e] /\ e \in doms[b]
    BY <1>1, <1>3, <2>3, <2>13 DEF DomOrder
  <2>15. e \in Bad
    BY <2>2, <2>8, <2>12, <2>14
  <2>16. depth[y] <= depth[e] /\ depth[y] = Depth(doms, y) /\ depth[e] = Depth(doms, e)
    BY <2>2, <2>15
  <2>17. Depth(doms, e) < Depth(doms, y) /\ Depth(doms, e) \in Nat /\ Depth(doms, y) \in Nat
    BY <1>1, <2>3, <2>13, Blocks, DepthLess
  <2> HIDE DEF depth
  <2> QED
    BY <2>16, <2>17
<1>5. b \in doms[b]
  BY <1>1, <1>3 DEF DomOrder
<1> QED
  BY <1>3, <1>4, <1>5

\* The operand of a phi for an edge is what the variable holds at its start.
LEMMA OperandOf ==
  ASSUME Given, NEW P, NEW val, Whole(P, val), NEW p \in P, NEW b \in Preds(Succ, p[1])
  PROVE  /\ Operand(p, b) = val[b][End(b)][p[2]]
         /\ p \in Place /\ <<b, val[b][End(b)][p[2]]>> \in incoming[p]
<1>1. p \in Place
  BY DEF Whole, Placed, Place, Globals
<1>2. b \in Block
  BY GraphOK DEF Given, Preds
<1>3. incoming[p] = {<<a, val[a][End(a)][p[2]]>> : a \in Block \cap Preds(Succ, p[1])}
  BY <1>1 DEF Whole, IncomingOf, OperandsOf
<1> DEFINE e == <<b, val[b][End(b)][p[2]]>>
<1>4. e \in incoming[p] /\ \A f \in incoming[p] : f[1] = b => f = e
  BY <1>2, <1>3
<1>5. (CHOOSE f \in incoming[p] : f[1] = b) = e
  <2>1. e[1] = b
    OBVIOUS
  <2> HIDE DEF e
  <2> QED
    BY <1>4, <2>1
<1> QED
  BY <1>1, <1>4, <1>5 DEF Operand

LEMMA BranchStep ==
  ASSUME Given, Renamed, pc = "done", NEW c \in Block, Branch(c)
  PROVE  Renamed'
<1>1. /\ given' = given /\ loaded' = loaded /\ incoming' = incoming
      /\ phis' = phis /\ pc' = "done" /\ mem' = mem
  BY DEF Branch, vars, given
<1>2. PICK P, val : Whole(P, val) /\ KeptUsed(P) /\ Claim(val)
  BY DEF Renamed
<1>3. Whole(P, val)'
  BY <1>1, <1>2, WholeStays
<1>4. \A p : IsUsed(p)' <=> IsUsed(p)
  BY <1>1 DEF IsUsed
<1>5. KeptUsed(P)'
  BY <1>1, <1>2, <1>4 DEF KeptUsed
<1>6. PICK b : b = at[1]
  OBVIOUS
<1>7. b \in Block /\ at[2] = End(b) /\ at' = <<c, 1>> /\ b \in Preds(Succ, c)
  <2>1. at[1] \in Block /\ at[2] \in 1..End(at[1])
    BY <1>2 DEF Claim
  <2>2. Len(Code(b)) \in Nat /\ End(b) = Len(Code(b)) + 1
    BY <1>6, <2>1, CodeOK DEF Given
  <2>3. at[2] > Len(Code(b)) /\ c \in Succ[b] /\ at' = <<c, 1>>
    BY <1>6 DEF Branch
  <2>4. DOMAIN Succ = Block
    BY GraphOK DEF Given
  <2> QED
    BY <1>6, <2>1, <2>2, <2>3, <2>4 DEF Preds
<1>8. /\ DOMAIN mem = Var /\ DOMAIN env = Place
      /\ \A v \in Var : Written(v) /\ Kept(val[b][End(b)][v]) => Eval(val[b][End(b)][v]) = mem[v]
  BY <1>2, <1>6, <1>7 DEF Claim
<1>9. env' = [p \in Place |-> IF p \in phis /\ p[1] = c THEN Eval(Operand(p, b)) ELSE env[p]]
  BY <1>6 DEF Branch
<1>10. phis \subseteq P /\ P \subseteq Place /\ \A v \in Globals : v \in Var /\ Written(v)
  BY <1>2 DEF KeptUsed, Whole, Placed, Place, Globals, Written
<1>11. ASSUME NEW v \in Var, Written(v)' PROVE v \in Globals
  <2>1. Written(v)' <=> v \in Globals
                        \/ \E j \in 1..(1 - 1) : Stores(Code(c)[j]) /\ Code(c)[j].var = v
    BY <1>1, <1>7, GivenStays DEF Written
  <2> QED
    BY <1>11, <2>1
<1>12. \A x : Kept(x)' <=> Kept(x)
  BY <1>1 DEF Kept
<1>13. /\ c # Entry /\ \E d \in Block : c \in domTree[d]
  <2>1. c # Entry
    BY <1>7, GraphOK DEF Given
  <2>2. \E d \in Block : IsImmDom(doms, d, c)
    BY <2>1, GraphOK, Blocks, ImmDomExists DEF Given
  <2> QED
    BY <2>1, <2>2 DEF Given
<1>14. Flows(P, val, c)
  BY <1>2 DEF Whole, Solved
<1>15. ASSUME NEW v \in Var, Written(v)', Kept(val[c][1][v])'
       PROVE  Eval(val[c][1][v])' = mem'[v]
  <2>1. v \in Globals /\ Kept(val[c][1][v])
    BY <1>11, <1>12, <1>15
  <2>2. CASE <<c, v>> \in P
    <3> DEFINE p == <<c, v>>
               y == val[b][End(b)][v]
    <3>1. val[c][1][v] = Phi(p)
      BY <1>14, <2>2 DEF Flows
    <3>2. p \in phis
      <4>1. Phi(p).kind = "phi" /\ <<Phi(p).at, Phi(p).name>> = p
        BY DEF Phi
      <4> QED
        BY <2>1, <3>1, <4>1 DEF Kept
    <3>3. p \in P /\ p[1] = c /\ p[2] = v
      BY <2>2
    <3>4. Operand(p, b) = y /\ p \in Place /\ <<b, y>> \in incoming[p]
      <4> HIDE DEF p
      <4>1. b \in Preds(Succ, p[1])
        BY <1>7, <3>3
      <4> QED
        BY <1>2, <3>3, <4>1, OperandOf
    <3>5. env'[p] = Eval(y)
      <4> HIDE DEF p, y
      <4> QED
        BY <1>9, <3>2, <3>3, <3>4
    <3>6. Eval(Phi(p))' = env'[p]
      BY DEF Eval, Phi
    <3>7. Kept(y)
      <4>1. CASE y.kind = "phi"
        <5>1. Defined(P, b, End(b), y)
          <6>1. End(b) \in 1..End(b)
            BY <1>7, CodeOK DEF Given
          <6> QED
            BY <1>2, <1>7, <6>1 DEF Whole, Solved
        <5> HIDE DEF y
        <5>2. PICK q \in P : y = Phi(q)
          BY <4>1, <5>1 DEF Defined, Zero, Def
        <5>3. IsUsed(q)
          <6>1. <<b, y>>[2] = Phi(q)
            BY <5>2
          <6> QED
            BY <3>4, <6>1 DEF IsUsed
        <5>4. q \in phis
          BY <1>2, <5>3 DEF KeptUsed
        <5>5. <<y.at, y.name>> = q
          <6>1. q \in Block \X Var
            BY <1>10 DEF Place
          <6>2. y.at = q[1] /\ y.name = q[2]
            BY <5>2 DEF Phi
          <6> QED
            BY <6>1, <6>2
        <5> QED
          BY <5>4, <5>5 DEF Kept
      <4>2. CASE y.kind # "phi"
        BY <4>2 DEF Kept
      <4> QED
        BY <4>1, <4>2
    <3>8. Eval(y) = mem[v]
      BY <1>8, <1>10, <2>1, <3>7
    <3>9. Eval(val[c][1][v])' = Eval(Phi(p))'
      BY <3>1
    <3> QED
      BY <1>1, <3>5, <3>6, <3>8, <3>9
  <2>3. CASE <<c, v>> \notin P
    <3>1. PICK d \in Block : c \in domTree[d]
      BY <1>13
    <3>6. PICK x : x = val[d][End(d)][v]
      OBVIOUS
    <3>2. val[c][1][v] = x
      BY <1>13, <1>14, <2>3, <3>1, <3>6 DEF Flows
    <3>3. val[b][End(b)][v] = x
      BY <1>2, <1>7, <2>1, <2>3, <3>1, <3>6, SameBelow
    <3>4. Kept(x) /\ Eval(x) = mem[v]
      BY <1>8, <1>10, <2>1, <3>2, <3>3
    <3>5. Eval(x)' = Eval(x)
      <4>1. CASE x.kind = "phi"
        <5>1. Defined(P, d, End(d), x)
          <6>1. End(d) \in 1..End(d)
            BY CodeOK DEF Given
          <6> QED
            BY <1>2, <3>6, <6>1 DEF Whole, Solved
        <5>2. PICK q \in P : x = Phi(q) /\ q[1] \in doms[d]
          BY <4>1, <5>1 DEF Defined, Zero, Def
        <5>3. q[1] # c
          BY <3>1, <5>2, TreeOK
        <5>4. <<x.at, x.name>> = q /\ q \in Place
          <6>1. q \in Block \X Var
            BY <1>10 DEF Place
          <6>2. x.at = q[1] /\ x.name = q[2]
            BY <5>2 DEF Phi
          <6> QED
            BY <6>1, <6>2 DEF Place
        <5>5. env'[q] = env[q]
          BY <1>9, <5>3, <5>4
        <5>6. Eval(x) = env[q] /\ Eval(x)' = env'[q]
          BY <4>1, <5>4 DEF Eval
        <5> QED
          BY <5>5, <5>6
      <4>2. CASE x.kind # "phi"
        BY <4>2 DEF Eval
      <4> QED
        BY <4>1, <4>2
    <3> QED
      BY <1>1, <3>2, <3>4, <3>5
  <2> QED
    BY <2>2, <2>3
<1>16. Claim(val)'
  <2>1. at' = <<at'[1], at'[2]>> /\ at'[1] = c /\ at'[2] = 1 /\ End(c)' = End(c)
    BY <1>1, <1>7, GivenStays
  <2>2. 1 \in 1..End(c)
    BY CodeOK DEF Given
  <2>3. DOMAIN mem' = Var /\ DOMAIN env' = Place
    BY <1>1, <1>8, <1>9
  <2> QED
    BY <1>15, <2>1, <2>2, <2>3 DEF Claim
<1> QED
  BY <1>3, <1>5, <1>16 DEF Renamed

-----------------------------------------------------------------------------
(* The invariant. *)

IInv ==
  /\ Given
  /\ pc \in {"insert", "rename", "unused", "selfMerge", "done", "crashed"}
  /\ pc = "insert" => Placing
  /\ pc = "rename" => Renaming
  /\ pc \notin {"insert", "rename"} => Renamed
  /\ pc # "done" => AtStart

LEMMA PlacingStays ==
  ASSUME UNCHANGED vars
  PROVE  Placing' <=> Placing
<1>1. fn' = fn /\ domFrontier' = domFrontier /\ calls' = calls /\ loaded' = loaded
      /\ incoming' = incoming /\ replaceMap' = replaceMap /\ phis' = phis /\ workList' = workList
  BY DEF vars, given
<1>2. Globals' = Globals /\ \A b, v : Sets(b, v)' <=> Sets(b, v)
  BY <1>1 DEF Globals, Sets, Code
<1> QED
  BY <1>1, <1>2 DEF Placing, NoneYet

LEMMA Idle ==
  ASSUME IInv, UNCHANGED <<vars, runVars>>
  PROVE  IInv'
<1>1. /\ given' = given /\ pc' = pc /\ calls' = calls /\ loaded' = loaded
      /\ incoming' = incoming /\ replaceMap' = replaceMap /\ phis' = phis
      /\ at' = at /\ mem' = mem /\ env' = env
  BY DEF vars, given, runVars
<1>2. Given'
  BY <1>1, GivenStays DEF IInv
<1>3. Placing' <=> Placing
  BY PlacingStays
<1>4. Renaming => Renaming'
  BY <1>1, DownStays, ResultsStay DEF Renaming
<1>5. Renamed => Renamed'
  <2>1. ASSUME NEW P, NEW val, Whole(P, val), KeptUsed(P), pc = "done" => Claim(val)
        PROVE  Whole(P, val)' /\ KeptUsed(P)' /\ (pc' = "done" => Claim(val)')
    <3>1. Whole(P, val)'
      BY <1>1, <2>1, WholeStays
    <3>2. KeptUsed(P)'
      BY <1>1, <2>1 DEF KeptUsed, IsUsed
    <3>3. \A v : Written(v)' <=> Written(v)
      BY <1>1, GivenStays DEF IInv, Written
    <3>4. \A x : (Kept(x)' <=> Kept(x)) /\ Eval(x)' = Eval(x)
      BY <1>1 DEF Kept, Eval
    <3>5. \A b : End(b)' = End(b)
      BY <1>1, GivenStays DEF IInv
    <3>6. Claim(val) => Claim(val)'
      BY <1>1, <3>3, <3>4, <3>5 DEF Claim
    <3> QED
      BY <1>1, <2>1, <3>1, <3>2, <3>6
  <2> QED
    BY <2>1 DEF Renamed
<1>6. AtStart' <=> AtStart
  BY <1>1 DEF AtStart
<1> QED
  BY <1>1, <1>2, <1>3, <1>4, <1>5, <1>6 DEF IInv

LEMMA InvInit == RunInit => IInv
<1> SUFFICES ASSUME RunInit PROVE IInv
  OBVIOUS
<1>1. Given /\ Placing
  BY PlacingInit DEF RunInit
<1>2. pc = "insert" /\ AtStart
  BY DEF RunInit, Init, AtStart
<1> QED
  BY <1>1, <1>2 DEF IInv

LEMMA InvStep == IInv /\ [Next]_<<vars, runVars>> => IInv'
<1> SUFFICES ASSUME IInv, [Next]_<<vars, runVars>> PROVE IInv'
  OBVIOUS
<1>1. Given
  BY DEF IInv
<1>2. ASSUME UNCHANGED runVars, pc # "done" PROVE AtStart /\ AtStart'
  BY <1>2 DEF IInv, AtStart, runVars
<1>3. ASSUME NEW b \in Block, NEW v \in Var, InsertPhi(b, v), UNCHANGED runVars PROVE IInv'
  <2>1. given' = given /\ pc = "insert" /\ pc' = "insert"
    BY <1>3 DEF InsertPhi, given
  <2>2. Placing'
    BY <1>1, <1>3, <2>1, InsertStep DEF IInv
  <2> QED
    BY <1>1, <1>2, <1>3, <2>1, <2>2, GivenStays DEF IInv
<1>4. CASE StartRename /\ UNCHANGED runVars
  <2>1. given' = given /\ pc = "insert" /\ pc' = "rename"
    BY <1>4 DEF StartRename, given
  <2>2. Renaming'
    BY <1>1, <1>4, <2>1, StartStep DEF IInv
  <2> QED
    BY <1>1, <1>2, <1>4, <2>1, <2>2, GivenStays DEF IInv
<1>5. ASSUME NEW c \in Block, Recurse(c), UNCHANGED runVars PROVE IInv'
  <2>1. given' = given /\ pc = "rename" /\ pc' = "rename"
    BY <1>5 DEF Recurse, given
  <2>2. Renaming'
    BY <1>1, <1>5, <2>1, RecurseStep DEF IInv
  <2> QED
    BY <1>1, <1>2, <1>5, <2>1, <2>2, GivenStays DEF IInv
<1>6. CASE Leave /\ UNCHANGED runVars
  <2>1. given' = given /\ pc = "rename"
    BY <1>6 DEF Leave, given
  <2>2. IF pc' = "rename" THEN Renaming' ELSE pc' = "unused" /\ Renamed'
    BY <1>1, <1>6, <2>1, LeaveStep DEF IInv
  <2> QED
    BY <1>1, <1>2, <1>6, <2>1, <2>2, GivenStays DEF IInv
<1>7. CASE EraseUnused /\ UNCHANGED runVars
  <2>1. given' = given /\ pc = "unused" /\ pc' = "selfMerge"
    BY <1>7 DEF EraseUnused, given
  <2>2. Renamed'
    BY <1>1, <1>7, <2>1, EraseStep DEF IInv
  <2> QED
    BY <1>1, <1>2, <1>7, <2>1, <2>2, GivenStays DEF IInv
<1>8. CASE (MergeSelves \/ CrashInMerge) /\ UNCHANGED runVars
  <2>1. given' = given /\ pc = "selfMerge" /\ pc' \in {"unused", "done", "crashed"}
    BY <1>8 DEF MergeSelves, CrashInMerge, given
  <2>2. Renamed' /\ AtStart'
    BY <1>1, <1>2, <1>8, <2>1, MergeStep DEF IInv
  <2> QED
    BY <1>1, <2>1, <2>2, GivenStays DEF IInv
<1>9. CASE Execute
  <2>1. given' = given /\ pc = "done" /\ pc' = "done"
    BY <1>9 DEF Execute, Running, vars, given
  <2>2. Renamed'
    BY <1>1, <1>9, <2>1, ExecuteStep DEF IInv
  <2> QED
    BY <1>1, <2>1, <2>2, GivenStays DEF IInv
<1>10. ASSUME NEW c \in Block, Branch(c) PROVE IInv'
  <2>1. given' = given /\ pc = "done" /\ pc' = "done"
    BY <1>10 DEF Branch, vars, given
  <2>2. Renamed'
    BY <1>1, <1>10, <2>1, BranchStep DEF IInv
  <2> QED
    BY <1>1, <2>1, <2>2, GivenStays DEF IInv
<1>11. CASE UNCHANGED <<vars, runVars>>
  BY <1>11, Idle
<1> QED
  BY <1>3, <1>4, <1>5, <1>6, <1>7, <1>8, <1>9, <1>10, <1>11 DEF Next, Pass

LEMMA Invariant == Spec => []IInv
<1> QED
  BY InvInit, InvStep, PTL DEF Spec

(***************************************************************************)
(* A phi has one operand for each edge into its block.                      *)
(***************************************************************************)
THEOREM OneOperandPerEdge == Spec => []PhiPerEdge
<1>1. IInv => PhiPerEdge
  <2> SUFFICES ASSUME IInv, pc \notin {"insert", "rename"}, NEW p \in phis
               PROVE  /\ {e[1] : e \in incoming[p]} = Preds(Succ, p[1])
                      /\ Cardinality(incoming[p]) = Cardinality(Preds(Succ, p[1]))
    BY DEF PhiPerEdge
  <2>1. PICK P, val : Whole(P, val) /\ KeptUsed(P)
    BY DEF IInv, Renamed
  <2>2. p \in P /\ p \in Place
    BY <2>1 DEF KeptUsed, Whole, Placed, Place, Globals
  <2> DEFINE A == Preds(Succ, p[1])
             f == [b \in A |-> <<b, val[b][End(b)][p[2]]>>]
  <2>3. A \subseteq Block /\ IsFiniteSet(A)
    <3>1. A \subseteq Block
      BY GraphOK DEF IInv, Given, Preds
    <3> QED
      BY <3>1, Blocks, FS_Subset
  <2>4. incoming[p] = {<<b, val[b][End(b)][p[2]]>> : b \in Block \cap A}
    BY <2>1, <2>2 DEF Whole, IncomingOf, OperandsOf
  <2> HIDE DEF A
  <2>5. incoming[p] = {f[b] : b \in A} /\ \A b \in A : f[b][1] = b
    BY <2>3, <2>4
  <2> HIDE DEF f
  <2>6. {e[1] : e \in incoming[p]} = A
    <3>1. \A b \in A : f[b] \in incoming[p] /\ f[b][1] = b
      BY <2>5
    <3>2. \A e \in incoming[p] : e[1] \in A
      BY <2>5
    <3> QED
      BY <3>1, <3>2
  <2>7. Cardinality(incoming[p]) = Cardinality(A)
    <3>1. f \in Bijection(A, incoming[p])
      <4>1. \A b \in A : f[b] \in incoming[p]
        BY <2>5
      <4>2. f \in [A -> incoming[p]]
        BY <4>1 DEF f
      <4>3. f \in Injection(A, incoming[p])
        BY <2>5, <4>2 DEF Injection, IsInjective
      <4>4. f \in Surjection(A, incoming[p])
        BY <2>5, <4>2 DEF Surjection
      <4> QED
        BY <4>3, <4>4 DEF Bijection
    <3>2. ExistsBijection(A, incoming[p])
      BY <3>1 DEF ExistsBijection
    <3> QED
      BY <2>3, <3>2, FS_Bijection
  <2> QED
    BY <2>6, <2>7 DEF A
<1> QED
  BY <1>1, Invariant, PTL

(***************************************************************************)
(* Every use, by an instruction or by an operand of a phi, is dominated by  *)
(* the definition of its value, and the phis that are used are there.       *)
(***************************************************************************)
THEOREM UsesAreDominated == Spec => []DefsDominateUses
<1>1. IInv => DefsDominateUses
  <2> SUFFICES ASSUME IInv, pc = "selfMerge"
               PROVE  /\ \A s \in DOMAIN loaded :
                           /\ DefinedAt(loaded[s], s[1])
                           /\ loaded[s].kind = "def" /\ loaded[s].at = s[1] => loaded[s].name < s[2]
                      /\ \A p \in phis : \A e \in incoming[p] : DefinedAt(e[2], e[1])
    BY DEF DefsDominateUses
  <2>1. PICK P, val : Whole(P, val) /\ KeptUsed(P)
    BY DEF IInv, Renamed
  <2>2. Given /\ \A b \in Block : doms[b] = Dom[fn.next][b]
    BY DEF IInv, doms
  <2>3. ASSUME NEW b \in Block, NEW i \in 1..End(b), NEW v \in Var,
               \A q \in P : val[b][i][v] = Phi(q) => IsUsed(q)
        PROVE  /\ DefinedAt(val[b][i][v], b)
               /\ val[b][i][v].kind = "def" /\ val[b][i][v].at = b => val[b][i][v].name < i
    <3> DEFINE x == val[b][i][v]
    <3>1. Defined(P, b, i, x)
      BY <2>1 DEF Whole, Solved
    <3>2. \A q \in P : x = Phi(q) => q \in phis
      BY <2>1, <2>3 DEF KeptUsed
    <3> HIDE DEF x
    <3>3. ASSUME x = Zero PROVE DefinedAt(x, b)
      BY <3>3 DEF DefinedAt, Zero
    <3>4. ASSUME NEW c \in doms[b], NEW j \in 1..Len(Code(c)), x = Def(c, j), c = b => j < i
          PROVE DefinedAt(x, b) /\ (x.kind = "def" /\ x.at = b => x.name < i)
      BY <2>2, <3>4 DEF DefinedAt, Def
    <3>5. ASSUME NEW q \in P, x = Phi(q), q[1] \in doms[b]
          PROVE DefinedAt(x, b) /\ x.kind # "def"
      <4>1. q \in Block \X Var
        BY <2>1 DEF Whole, Placed, Globals
      <4>2. x.at = q[1] /\ x.name = q[2] /\ x.kind = "phi"
        BY <3>5 DEF Phi
      <4>3. <<x.at, x.name>> = q
        BY <4>1, <4>2
      <4> QED
        BY <2>2, <3>2, <3>5, <4>2, <4>3 DEF DefinedAt
    <3>6. DefinedAt(x, b) /\ (x.kind = "def" /\ x.at = b => x.name < i)
      <4>1. CASE x = Zero
        <5>1. x.kind # "def"
          BY <4>1 DEF Zero
        <5> QED
          BY <3>3, <4>1, <5>1
      <4> QED
        BY <3>1, <3>4, <3>5, <4>1 DEF Defined
    <3> QED
      BY <3>6 DEF x
  <2>4. ASSUME NEW s \in DOMAIN loaded
        PROVE  /\ DefinedAt(loaded[s], s[1])
               /\ loaded[s].kind = "def" /\ loaded[s].at = s[1] => loaded[s].name < s[2]
    <3> DEFINE b == s[1]
               i == s[2]
               v == Code(b)[i].from
    <3>1. s \in Sites(Block) /\ loaded[s] = val[b][i][v]
      BY <2>1 DEF Whole, LoadedOf
    <3>2. b \in Block /\ i \in DOMAIN Code(b)
      BY <3>1 DEF Sites
    <3>3. i \in 1..End(b) /\ v \in Var
      BY <2>2, <3>2, CodeOK DEF Given
    <3>4. \A q \in P : val[b][i][v] = Phi(q) => IsUsed(q)
      BY <3>1 DEF IsUsed
    <3> HIDE DEF b, i, v
    <3>5. /\ DefinedAt(val[b][i][v], b)
          /\ val[b][i][v].kind = "def" /\ val[b][i][v].at = b => val[b][i][v].name < i
      BY <2>3, <3>2, <3>3, <3>4
    <3> QED
      BY <3>1, <3>5 DEF b, i
  <2>5. ASSUME NEW p \in phis, NEW e \in incoming[p]
        PROVE  DefinedAt(e[2], e[1])
    <3>1. p \in P /\ p \in Place /\ p[2] \in Var
      BY <2>1 DEF KeptUsed, Whole, Placed, Place, Globals
    <3>2. PICK b \in Block : e = <<b, val[b][End(b)][p[2]]>>
      BY <2>1, <3>1 DEF Whole, IncomingOf, OperandsOf
    <3>3. End(b) \in 1..End(b)
      BY <2>2, CodeOK DEF Given
    <3>4. e[1] = b /\ e[2] = val[b][End(b)][p[2]]
      BY <3>2
    <3>5. \A q \in P : val[b][End(b)][p[2]] = Phi(q) => IsUsed(q)
      BY <3>1, <3>4 DEF IsUsed
    <3>6. DefinedAt(val[b][End(b)][p[2]], b)
      BY <2>3, <3>1, <3>3, <3>5
    <3> QED
      BY <3>4, <3>6
  <2> QED
    BY <2>4, <2>5
<1> QED
  BY <1>1, Invariant, PTL

(***************************************************************************)
(* What replaced a load is what the variable would have held there, on      *)
(* every path through the function and however often it goes round a loop.  *)
(***************************************************************************)
THEOREM LoadsReadTheirVariables == Spec => []LoadsSeeLastStore
<1>1. IInv => LoadsSeeLastStore
  <2> SUFFICES ASSUME IInv, Running, Instr.op = "load"
               PROVE  Eval(loaded[at]) = mem[Instr.var]
    BY DEF LoadsSeeLastStore
  <2>1. PICK P, val : Whole(P, val) /\ KeptUsed(P) /\ Claim(val)
    BY DEF IInv, Renamed, Running
  <2>2. Given
    BY DEF IInv
  <2> DEFINE b == at[1]
             i == at[2]
             v == Instr.var
  <2>3. b \in Block /\ i \in 1..End(b) /\ i <= Len(Code(b))
    BY <2>1 DEF Claim, Running
  <2>4. /\ Len(Code(b)) \in Nat /\ DOMAIN Code(b) = 1..Len(Code(b)) /\ i \in 1..Len(Code(b))
        /\ v \in Var /\ v = Code(b)[i].from /\ Code(b)[i].op = "load"
    <3>1. Len(Code(b)) \in Nat /\ DOMAIN Code(b) = 1..Len(Code(b)) /\ End(b) = Len(Code(b)) + 1
      BY <2>2, <2>3, CodeOK DEF Given
    <3>2. i \in 1..Len(Code(b))
      BY <2>3, <3>1
    <3> QED
      BY <2>2, <2>3, <3>1, <3>2, CodeOK DEF Given, Instr
  <2>5. at = <<b, i>> /\ at \in Sites(Block)
    <3>1. at = <<b, i>>
      BY <2>1 DEF Claim
    <3> QED
      BY <2>3, <2>4, <3>1 DEF Sites
  <2>6. loaded[at] = val[b][i][v]
    BY <2>1, <2>4, <2>5 DEF Whole, LoadedOf
  <2>7. Written(v)
    <3>1. ASSUME \A j \in 1..(i - 1) : ~(Stores(Code(b)[j]) /\ Code(b)[j].var = v)
          PROVE v \in Globals
      BY <2>3, <2>4, <3>1 DEF Globals, Loads
    <3> QED
      BY <3>1 DEF Written
  <2>8. Kept(val[b][i][v])
    <3> DEFINE x == val[b][i][v]
    <3>1. Defined(P, b, i, x)
      BY <2>1, <2>3, <2>4 DEF Whole, Solved
    <3>2. loaded[at] = x /\ at \in DOMAIN loaded
      BY <2>1, <2>5, <2>6 DEF Whole, LoadedOf
    <3> HIDE DEF x
    <3>3. ASSUME x.kind = "phi" PROVE Kept(x)
      <4>1. PICK q \in P : x = Phi(q)
        BY <3>1, <3>3 DEF Defined, Zero, Def
      <4>2. q \in phis
        BY <2>1, <3>2, <4>1 DEF KeptUsed, IsUsed
      <4>3. <<x.at, x.name>> = q
        <5>1. q \in Block \X Var
          BY <2>1 DEF Whole, Placed, Globals
        <5>2. x.at = q[1] /\ x.name = q[2]
          BY <4>1 DEF Phi
        <5> QED
          BY <5>1, <5>2
      <4> QED
        BY <4>2, <4>3 DEF Kept
    <3>4. ASSUME x.kind # "phi" PROVE Kept(x)
      BY <3>4 DEF Kept
    <3>5. Kept(x)
      BY <3>3, <3>4
    <3> QED
      BY <3>5 DEF x
  <2> QED
    BY <2>1, <2>4, <2>6, <2>7, <2>8 DEF Claim
<1> QED
  BY <1>1, Invariant, PTL

-----------------------------------------------------------------------------
(* The moves that phis become. *)

LEMMA MovesRun == [MovesNext]_<<vars, runVars, moveVars>> => [Next]_<<vars, runVars>>
<1>1. \A c : MovesBranch(c) => Branch(c)
  BY Zenon DEF MovesBranch
<1>2. MovesExecute => Execute
  BY DEF MovesExecute
<1>3. Lower => UNCHANGED <<vars, runVars>>
  BY DEF Lower
<1> QED
  BY <1>1, <1>2, <1>3 DEF MovesNext, Next, Ended

LEMMA MovesRunIt == MovesSpec => Spec
<1>1. MovesInit => RunInit
  BY DEF MovesInit
<1> QED
  BY <1>1, MovesRun, PTL DEF MovesSpec, Spec

(***************************************************************************)
(* What PhiMoves adds, the moves phis become, watches the pass and the run: *)
(* all of this holds of the function that is lowered.                       *)
(***************************************************************************)
THEOREM LoweredFunctionIsRight ==
  MovesSpec => [](PhiPerEdge /\ DefsDominateUses /\ LoadsSeeLastStore)
<1> QED
  BY MovesRunIt, OneOperandPerEdge, UsesAreDominated, LoadsReadTheirVariables, PTL

\* Every phi has its turn among the moves of a block.
Lists(o, S) ==
  /\ Len(o) \in Nat /\ \A k \in 1..Len(o) : o[k] \in S
  /\ \A p \in S : \E k \in 1..Len(o) : o[k] = p
Listed == Lists(order, phis)

\* Registers hold what the phis hold that the way to b came by.
Agree(b) ==
  /\ \A q \in phis : q[1] \in doms[b] => reg[q] = env[q]
  /\ \A m \in DOMAIN saved :
       LET src == Operand(m[1], m[2]) IN
       src.at \in doms[b] => saved[m] = env[<<src.at, src.name>>]

InRegisters ==
  /\ DOMAIN reg = Place /\ reg = [p \in Place |-> reg[p]]
  /\ ~lowered => AtStart /\ reg = [p \in Place |-> Latest(Zero)]
  /\ lowered =>
       /\ pc = "done" /\ Listed
       /\ DOMAIN saved = {m \in Moves : Protected(m[1], m[2])}
       /\ Agree(at[1])

\* A source that is a phi is one of those left, above the move.
LEMMA SourceOf ==
  ASSUME IInv, pc = "done", NEW p \in phis, NEW b \in Preds(Succ, p[1]),
         Operand(p, b).kind = "phi"
  PROVE  /\ p \in Place /\ b \in Block
         /\ \E q \in phis : /\ q \in Place /\ q[1] \in doms[b]
                            /\ Operand(p, b).at = q[1] /\ Operand(p, b).name = q[2]
                            /\ <<Operand(p, b).at, Operand(p, b).name>> = q
<1>1. PICK P, val : Whole(P, val) /\ KeptUsed(P)
  BY DEF IInv, Renamed
<1>2. p \in P /\ Given
  BY <1>1 DEF KeptUsed, IInv
<1>3. PICK x : x = val[b][End(b)][p[2]]
  OBVIOUS
<1>4. Operand(p, b) = x /\ p \in Place /\ <<b, x>> \in incoming[p]
  BY <1>1, <1>2, <1>3, OperandOf
<1>5. b \in Block /\ p[2] \in Var /\ End(b) \in 1..End(b)
  BY <1>2, <1>4, GraphOK, CodeOK DEF Given, Preds, Place
<1>6. Defined(P, b, End(b), x)
  BY <1>1, <1>3, <1>5 DEF Whole, Solved
<1>7. PICK q \in P : x = Phi(q) /\ q[1] \in doms[b]
  BY <1>4, <1>6 DEF Defined, Zero, Def
<1>8. q \in phis
  <2>1. <<b, x>>[2] = Phi(q)
    BY <1>7
  <2>2. IsUsed(q)
    BY <1>4, <2>1 DEF IsUsed
  <2> QED
    BY <1>1, <2>2 DEF KeptUsed
<1>9. q \in Block \X Var
  BY <1>1 DEF Whole, Placed, Globals
<1>10. x.at = q[1] /\ x.name = q[2] /\ <<x.at, x.name>> = q
  BY <1>7, <1>9 DEF Phi
<1> QED
  BY <1>4, <1>5, <1>7, <1>8, <1>9, <1>10 DEF Place

\* Taking back a branch to a dominator is all that the block does.
LEMMA BackBranch ==
  ASSUME fn \in Functions, NEW b \in Block, NEW c \in Succ[b], c \in doms[b]
  PROVE  Succ[b] = {c} /\ c <= b
<1>1. Succ[b] = Range(fn.next[b]) /\ Succ[b] = SuccOf(fn.next)[b]
  BY DEF Succ, SuccOf
<1>2. c \in SuccOf(fn.next)[b] \cap Dom[fn.next][b]
  BY <1>1 DEF doms
<1>3. fn.next[b] = <<c>> /\ c <= b
  BY <1>2, LayoutAssumption
<1>4. Range(<<c>>) = {c}
  BY DEF Range
<1> QED
  BY <1>1, <1>3, <1>4

\* A move reads a register no move of the same block has written.
LEMMA NotOverwritten ==
  ASSUME IInv, pc = "done", DOMAIN saved = {m \in Moves : Protected(m[1], m[2])},
         NEW p \in phis, NEW b \in Block, <<p, b>> \in Moves, <<p, b>> \notin DOMAIN saved,
         Operand(p, b).kind = "phi"
  PROVE  /\ <<Operand(p, b).at, Operand(p, b).name>> \in phis
         /\ <<Operand(p, b).at, Operand(p, b).name>> \in Place
         /\ <<<<Operand(p, b).at, Operand(p, b).name>>, b>> \notin Moves
<1>1. b \in Preds(Succ, p[1])
  BY DEF Moves
<1>2. PICK q \in phis : /\ q \in Place /\ q[1] \in doms[b] /\ Operand(p, b).at = q[1]
                        /\ <<Operand(p, b).at, Operand(p, b).name>> = q
  BY <1>1, SourceOf
<1>3. ASSUME <<q, b>> \in Moves PROVE FALSE
  <2>1. b \in Preds(Succ, q[1]) /\ q[1] \in Succ[b]
    BY <1>3 DEF Moves, Preds
  <2>2. q[1] <= b
    BY <1>2, <2>1, BackBranch DEF IInv, Given
  <2>3. PICK P, val : Whole(P, val) /\ KeptUsed(P)
    BY DEF IInv, Renamed
  <2>4. \E e \in incoming[q] : e[1] = b
    <3>1. q \in P
      BY <2>3 DEF KeptUsed
    <3>2. <<b, val[b][End(b)][q[2]]>> \in incoming[q]
      BY <2>1, <2>3, <3>1, OperandOf DEF IInv
    <3> QED
      BY <3>2
  <2>5. Protected(p, b)
    BY <1>2, <2>2, <2>4 DEF Protected
  <2> QED
    BY <2>5
<1> QED
  BY <1>2, <1>3

\* The registers as the moves of b leave them, in whatever order they come.
Moved(b) == [p \in Place |-> IF p \in phis /\ <<p, b>> \in Moves THEN Source(reg, p, b) ELSE reg[p]]

LEMMA MovesAtOnce ==
  ASSUME IInv, pc = "done", Listed, DOMAIN reg = Place, reg = [p \in Place |-> reg[p]],
         DOMAIN saved = {m \in Moves : Protected(m[1], m[2])}, NEW b \in Block
  PROVE  MovedAt(b)[Len(order) + 1] = Moved(b)
<1> DEFINE n == Len(order)
           X == {reg[p] : p \in Place} \cup {saved[m] : m \in DOMAIN saved}
                \cup {Latest(Operand(p, b)) : p \in Place}
           M == [Place -> X]
           step == [x \in (1..n) \X M |-> Move(x[2], order[x[1]], b)]
<1>1. n \in Nat /\ phis \subseteq Place
  <2>1. PICK P, val : Whole(P, val) /\ KeptUsed(P)
    BY DEF IInv, Renamed
  <2> QED
    BY <2>1 DEF KeptUsed, Whole, Placed, Place, Globals, Listed, Lists
<1>2. ASSUME NEW r \in M, NEW p \in phis PROVE Move(r, p, b) \in M
  <2>1. ASSUME <<p, b>> \in Moves PROVE Source(r, p, b) \in X
    <3>1. CASE <<p, b>> \in DOMAIN saved
      BY <3>1 DEF Source
    <3>2. CASE <<p, b>> \notin DOMAIN saved /\ Operand(p, b).kind = "phi"
      <4>1. <<Operand(p, b).at, Operand(p, b).name>> \in Place
        BY <2>1, <3>2, NotOverwritten
      <4>2. r[<<Operand(p, b).at, Operand(p, b).name>>] \in X
        <5> HIDE DEF X
        <5> QED
          BY <4>1
      <4> QED
        BY <3>2, <4>2 DEF Source
    <3>3. CASE <<p, b>> \notin DOMAIN saved /\ Operand(p, b).kind # "phi"
      BY <1>1, <3>3 DEF Source
    <3> QED
      BY <3>1, <3>2, <3>3
  <2> HIDE DEF X
  <2> QED
    BY <2>1 DEF Move
<1>3. \A k \in 1..n : order[k] \in phis
  BY DEF Listed, Lists
<1>4. step \in [(1..n) \X M -> M]
  <2>1. \A x \in (1..n) \X M : Move(x[2], order[x[1]], b) \in M
    <3> HIDE DEF M, n
    <3> QED
      BY <1>2, <1>3
  <2> HIDE DEF M, n
  <2> QED
    BY <2>1
<1>5. reg \in M
  <2>1. \A p \in Place : reg[p] \in X
    OBVIOUS
  <2> HIDE DEF X
  <2> QED
    BY <2>1
<1>6. PICK m : Computes(m, n, M, reg, step)
  <2> HIDE DEF n, step, M
  <2> QED
    BY <1>1, <1>4, <1>5, StepByStep
<1>7. ASSUME NEW i \in 1..n PROVE m[i] \in M /\ m[i + 1] = Move(m[i], order[i], b)
  <2>1. m[i] \in M /\ m[i + 1] = step[<<i, m[i]>>]
    <3> HIDE DEF n, step, M
    <3>1. i \in 1..(n + 1)
      BY <1>1
    <3> QED
      BY <1>6, <3>1 DEF Computes
  <2>2. <<i, m[i]>> \in (1..n) \X M
    BY <2>1
  <2> HIDE DEF M, n
  <2> QED
    BY <2>1, <2>2 DEF step
<1>8. \A k \in 1..(n + 1) : m[k] = IF k = 1 THEN reg ELSE Move(m[k - 1], order[k - 1], b)
  <2> TAKE k \in 1..(n + 1)
  <2>1. CASE k = 1
    BY <1>6, <2>1 DEF Computes
  <2>2. CASE k # 1
    <3>1. k - 1 \in 1..n /\ (k - 1) + 1 = k
      BY <1>1, <2>2
    <3> HIDE DEF n, M, step
    <3> QED
      BY <1>7, <2>2, <3>1
  <2> QED
    BY <2>1, <2>2
<1>9. m = [k \in 1..(Len(order) + 1) |->
             IF k = 1 THEN reg ELSE Move(m[k - 1], order[k - 1], b)]
  BY <1>6, <1>8 DEF Computes
<1>10. MovedAt(b) = [k \in 1..(Len(order) + 1) |->
             IF k = 1 THEN reg ELSE Move(MovedAt(b)[k - 1], order[k - 1], b)]
  BY <1>9, Zenon DEF MovedAt
<1> DEFINE g == MovedAt(b)
<1>11. g[1] = reg
  <2>1. 1 \in 1..(n + 1)
    BY <1>1
  <2> QED
    BY <1>10, <2>1
<1>12. ASSUME NEW i \in 1..n PROVE g[i + 1] = Move(g[i], order[i], b)
  <2>1. i + 1 \in 1..(n + 1) /\ i + 1 # 1 /\ (i + 1) - 1 = i
    BY <1>1
  <2>2. g[i + 1] = Move(g[(i + 1) - 1], order[(i + 1) - 1], b)
    BY <1>10, <2>1
  <2> QED
    BY <2>1, <2>2
<1> DEFINE Had(k, p) == \E j \in 1..(k - 1) : order[j] = p
           S == {k \in 1..(n + 1) :
                   g[k] = [p \in Place |-> IF p \in phis /\ <<p, b>> \in Moves /\ Had(k, p)
                                           THEN Source(reg, p, b) ELSE reg[p]]}
<1> HIDE DEF g
<1>13. 1 \in S
  <2>1. \A p : ~Had(1, p)
    OBVIOUS
  <2>2. 1 \in 1..(n + 1)
    BY <1>1
  <2> HIDE DEF Had
  <2> QED
    BY <1>11, <2>1, <2>2
<1>14. ASSUME NEW i \in 1..n, i \in S PROVE i + 1 \in S
  <2>1. PICK p : p = order[i]
    OBVIOUS
  <2>2. p \in phis /\ p \in Place /\ i + 1 \in 1..(n + 1)
    BY <1>1, <1>3, <2>1
  <2>3. \A q : Had(i + 1, q) <=> Had(i, q) \/ q = p
    BY <1>1, <2>1
  <2>4. g[i + 1] = Move(g[i], p, b)
    BY <1>12, <2>1
  <2>5. g[i] = [q \in Place |-> IF q \in phis /\ <<q, b>> \in Moves /\ Had(i, q)
                                THEN Source(reg, q, b) ELSE reg[q]]
    BY <1>14
  <2> HIDE DEF Had
  <2>6. ASSUME <<p, b>> \in Moves PROVE Source(g[i], p, b) = Source(reg, p, b)
    <3>1. CASE <<p, b>> \in DOMAIN saved
      BY <3>1 DEF Source
    <3>2. CASE <<p, b>> \notin DOMAIN saved /\ Operand(p, b).kind = "phi"
      <4>1. PICK q : q = <<Operand(p, b).at, Operand(p, b).name>>
        OBVIOUS
      <4>2. q \in Place /\ <<q, b>> \notin Moves
        BY <2>2, <2>6, <3>2, <4>1, NotOverwritten
      <4>3. g[i][q] = reg[q]
        BY <2>5, <4>2
      <4> QED
        BY <3>2, <4>1, <4>3 DEF Source
    <3>3. CASE <<p, b>> \notin DOMAIN saved /\ Operand(p, b).kind # "phi"
      BY <3>3 DEF Source
    <3> QED
      BY <3>1, <3>2, <3>3
  <2>7. g[i + 1] = [q \in Place |-> IF q \in phis /\ <<q, b>> \in Moves /\ Had(i + 1, q)
                                    THEN Source(reg, q, b) ELSE reg[q]]
    <3>1. CASE <<p, b>> \in Moves
      <4>1. g[i + 1] = [g[i] EXCEPT ![p] = Source(reg, p, b)]
        BY <2>4, <2>6, <3>1 DEF Move
      <4>2. \A q \in Place : g[i + 1][q] = IF q \in phis /\ <<q, b>> \in Moves /\ Had(i + 1, q)
                                           THEN Source(reg, q, b) ELSE reg[q]
        BY <2>2, <2>3, <2>5, <3>1, <4>1
      <4>3. g[i + 1] = [q \in Place |-> g[i + 1][q]]
        BY <2>5, <4>1
      <4> QED
        BY <4>2, <4>3
    <3>2. CASE <<p, b>> \notin Moves
      <4>1. g[i + 1] = g[i]
        BY <2>4, <3>2 DEF Move
      <4>2. \A q \in Place : (<<q, b>> \in Moves /\ Had(i + 1, q)) <=> (<<q, b>> \in Moves /\ Had(i, q))
        BY <2>3, <3>2
      <4> QED
        BY <2>5, <4>1, <4>2
    <3> QED
      BY <3>1, <3>2
  <2> HIDE DEF g
  <2> QED
    BY <2>2, <2>7
<1>15. n + 1 \in S
  <2>1. \A k \in 1..(n + 1) : k \in S
    <3> HIDE DEF S, n
    <3> QED
      BY <1>1, <1>13, <1>14, UpTo
  <2> HIDE DEF S, n
  <2>2. n + 1 \in 1..(n + 1)
    BY <1>1
  <2> QED
    BY <2>1, <2>2
<1>16. \A p \in phis : Had(n + 1, p)
  BY <1>1 DEF Listed, Lists
<1> HIDE DEF Had
<1>17. g[n + 1] = Moved(b)
  BY <1>15, <1>16 DEF Moved
<1> QED
  BY <1>17 DEF g

LEMMA SavedFromPhi ==
  ASSUME IInv, pc = "done", NEW m \in Moves, Protected(m[1], m[2])
  PROVE  \E q \in phis : /\ q \in Place /\ q[1] \in doms[m[2]] /\ Operand(m[1], m[2]).at = q[1]
                         /\ <<Operand(m[1], m[2]).at, Operand(m[1], m[2]).name>> = q
<1>1. m[1] \in phis /\ m[2] \in Preds(Succ, m[1][1]) /\ Operand(m[1], m[2]).kind = "phi"
  BY DEF Moves, Protected
<1> QED
  BY <1>1, SourceOf

LEMMA EachListed ==
  ASSUME NEW S, IsFiniteSet(S), NEW o \in SetToSeqs(S)
  PROVE  Lists(o, S) /\ Len(o) = Cardinality(S) /\ DOMAIN o = 1..Len(o)
<1> DEFINE n == Cardinality(S)
           D == 1..n
<1>1. n \in Nat /\ IsFiniteSet(D) /\ Cardinality(D) = n
  <2>1. n \in Nat
    BY FS_CardinalityType
  <2>2. 1 \in Int /\ n \in Int
    BY <2>1
  <2>3. IsFiniteSet(1..n) /\ Cardinality(1..n) = IF 1 > n THEN 0 ELSE n - 1 + 1
    <3> HIDE DEF n
    <3> QED
      BY <2>2, FS_Interval
  <2> HIDE DEF n
  <2> QED
    BY <2>1, <2>3
<1>2. o \in [D -> S] /\ \A i, j \in D : i # j => o[i] # o[j]
  BY DEF SetToSeqs
<1> HIDE DEF n
<1>3. o \in Injection(D, S)
  BY <1>2 DEF Injection, IsInjective
<1>4. o \in Surjection(D, S)
  BY <1>1, <1>3, FS_Injection DEF n
<1>5. Len(o) = n /\ o \in Seq(S)
  BY <1>1, <1>2
<1> QED
  BY <1>1, <1>2, <1>4, <1>5 DEF Lists, Surjection, n

LEMMA FinitelyMany == \A S \in SUBSET Place : IsFiniteSet(S)
<1>1. IsFiniteSet(Place)
  BY Blocks, VarAssumption, FS_Product DEF Place
<1> QED
  BY <1>1, FS_Subset

LEMMA LowerStep ==
  ASSUME IInv, InRegisters, Lower
  PROVE  InRegisters'
<1>1. /\ given' = given /\ pc = "done" /\ pc' = "done" /\ phis' = phis /\ incoming' = incoming
      /\ at' = at /\ env' = env /\ reg' = reg /\ lowered' /\ ~lowered
      /\ saved' = [m \in {m \in Moves : Protected(m[1], m[2])} |-> Latest(Zero)]
      /\ order' \in SetToSeqs(phis)
  BY DEF Lower, vars, runVars
<1>2. phis \subseteq Place
  <2>1. PICK P, val : Whole(P, val) /\ KeptUsed(P)
    BY <1>1 DEF IInv, Renamed
  <2> QED
    BY <2>1 DEF KeptUsed, Whole, Placed, Place, Globals
<1>3. IsFiniteSet(phis')
  BY <1>1, <1>2, FinitelyMany
<1>4. Listed'
  <2>1. order' \in SetToSeqs(phis')
    BY <1>1
  <2>2. Lists(order', phis')
    BY <1>3, <2>1, EachListed
  <2> QED
    BY <2>2 DEF Listed
<1>5. /\ env = [p \in Place |-> Latest(Zero)] /\ reg = [p \in Place |-> Latest(Zero)]
      /\ DOMAIN reg = Place /\ reg = [p \in Place |-> reg[p]]
  BY <1>1 DEF InRegisters, AtStart
<1>6. /\ Succ' = Succ /\ doms' = doms /\ Moves' = Moves
      /\ \A p, b : Operand(p, b)' = Operand(p, b) /\ (Protected(p, b)' <=> Protected(p, b))
  BY <1>1 DEF given, Succ, doms, Moves, Operand, Protected
<1>7. DOMAIN saved' = {m \in Moves : Protected(m[1], m[2])}' /\ DOMAIN saved' = {m \in Moves : Protected(m[1], m[2])}
  BY <1>1, <1>6
<1>8. Agree(at[1])'
  <2>1. \A q \in phis : reg[q] = env[q]
    BY <1>2, <1>5
  <2>2. ASSUME NEW m \in DOMAIN saved'
        PROVE  saved'[m] = env[<<Operand(m[1], m[2]).at, Operand(m[1], m[2]).name>>]
    <3>1. m \in Moves /\ Protected(m[1], m[2]) /\ saved'[m] = Latest(Zero)
      BY <1>1, <2>2
    <3>2. <<Operand(m[1], m[2]).at, Operand(m[1], m[2]).name>> \in Place
      BY <1>1, <3>1, SavedFromPhi
    <3> QED
      BY <1>5, <3>1, <3>2
  <2> QED
    BY <1>1, <1>6, <2>1, <2>2 DEF Agree
<1> QED
  BY <1>1, <1>4, <1>5, <1>7, <1>8 DEF InRegisters

LEMMA MovesExecuteStep ==
  ASSUME IInv, InRegisters, MovesExecute
  PROVE  InRegisters'
<1>1. /\ given' = given /\ pc = "done" /\ pc' = "done" /\ phis' = phis /\ incoming' = incoming
      /\ at'[1] = at[1] /\ lowered' /\ lowered /\ order' = order
  BY DEF MovesExecute, Execute, Running, vars
<1>2. phis \subseteq Place /\ DOMAIN env = Place
  <2>1. PICK P, val : Whole(P, val) /\ KeptUsed(P) /\ Claim(val)
    BY <1>1 DEF IInv, Renamed
  <2> QED
    BY <2>1 DEF KeptUsed, Whole, Placed, Place, Globals, Claim
<1>3. /\ DOMAIN reg = Place /\ reg = [p \in Place |-> reg[p]] /\ Listed /\ Agree(at[1])
      /\ DOMAIN saved = {m \in Moves : Protected(m[1], m[2])}
  BY <1>1 DEF InRegisters
<1>4. /\ Succ' = Succ /\ doms' = doms /\ Moves' = Moves /\ (Listed' <=> Listed)
      /\ \A p, b : Operand(p, b)' = Operand(p, b) /\ (Protected(p, b)' <=> Protected(p, b))
  BY <1>1 DEF given, Succ, doms, Moves, Operand, Protected, Listed, Lists
<1>5. ASSUME NEW m \in DOMAIN saved
      PROVE  <<Operand(m[1], m[2]).at, Operand(m[1], m[2]).name>> \in Place
  BY <1>1, <1>3, <1>5, SavedFromPhi
<1>6. CASE Instr.op = "store"
  <2>1. PICK new : new = Def(at[1], at[2])
    OBVIOUS
  <2>2. env' = Age(env, new) /\ reg' = Age(reg, new) /\ saved' = Age(saved, new)
    BY <1>6, <2>1 DEF MovesExecute, Execute
  <2>3. /\ DOMAIN reg' = Place /\ reg' = [p \in Place |-> reg'[p]] /\ DOMAIN saved' = DOMAIN saved
    BY <1>3, <2>2 DEF Age
  <2>4. /\ \A p \in Place : /\ env'[p] = IF env[p] = Latest(new) THEN Earlier(new) ELSE env[p]
                            /\ reg'[p] = IF reg[p] = Latest(new) THEN Earlier(new) ELSE reg[p]
        /\ \A m \in DOMAIN saved :
             saved'[m] = IF saved[m] = Latest(new) THEN Earlier(new) ELSE saved[m]
    BY <1>2, <1>3, <2>2 DEF Age
  <2>5. Agree(at[1])'
    <3>1. ASSUME NEW q \in phis, q[1] \in doms[at[1]] PROVE reg'[q] = env'[q]
      <4>1. reg[q] = env[q] /\ q \in Place
        BY <1>2, <1>3, <3>1 DEF Agree
      <4> QED
        BY <2>4, <4>1
    <3>2. ASSUME NEW m \in DOMAIN saved, Operand(m[1], m[2]).at \in doms[at[1]]
          PROVE  saved'[m] = env'[<<Operand(m[1], m[2]).at, Operand(m[1], m[2]).name>>]
      <4>1. PICK q : q = <<Operand(m[1], m[2]).at, Operand(m[1], m[2]).name>>
        OBVIOUS
      <4>2. saved[m] = env[q] /\ q \in Place
        BY <1>3, <1>5, <3>2, <4>1 DEF Agree
      <4>3. saved'[m] = env'[q]
        BY <2>4, <4>2
      <4> QED
        BY <4>1, <4>3
    <3> QED
      BY <1>1, <1>4, <2>3, <3>1, <3>2 DEF Agree
  <2> QED
    BY <1>1, <1>3, <1>4, <2>3, <2>5 DEF InRegisters
<1>7. CASE Instr.op # "store"
  <2>1. Instr.op \in {"load", "copy"}
    <3>1. PICK P, val : Claim(val)
      BY <1>1 DEF IInv, Renamed
    <3>2. at[1] \in Block /\ at[2] \in 1..End(at[1]) /\ at[2] <= Len(Code(at[1]))
      BY <3>1 DEF Claim, MovesExecute, Execute, Running
    <3>3. Len(Code(at[1])) \in Nat
      BY <3>2, CodeOK DEF IInv, Given
    <3>4. at[2] \in 1..Len(Code(at[1]))
      BY <3>2, <3>3 DEF End
    <3> QED
      BY <1>7, <3>2, <3>4, CodeOK DEF IInv, Given, Instr
  <2>2. env' = env /\ reg' = reg /\ saved' = saved
    BY <1>7, <2>1 DEF MovesExecute, Execute
  <2>3. Agree(at[1])'
    BY <1>1, <1>3, <1>4, <2>2 DEF Agree
  <2> QED
    BY <1>1, <1>3, <1>4, <2>2, <2>3 DEF InRegisters
<1> QED
  BY <1>6, <1>7

LEMMA MovesBranchStep ==
  ASSUME IInv, InRegisters, NEW c \in Block, MovesBranch(c)
  PROVE  InRegisters'
<1>1. PICK b : b = at[1]
  OBVIOUS
<1>2. Branch(c) /\ lowered /\ lowered' = lowered /\ order' = order
  BY Zenon DEF MovesBranch
<1>3. /\ given' = given /\ pc = "done" /\ pc' = "done" /\ phis' = phis /\ incoming' = incoming
      /\ at'[1] = c /\ c \in Succ[b]
      /\ env' = [p \in Place |-> IF p \in phis /\ p[1] = c THEN Eval(Operand(p, b)) ELSE env[p]]
  BY <1>1, <1>2 DEF Branch, vars
<1>4. phis \subseteq Place /\ b \in Block /\ Given
  <2>1. PICK P, val : Whole(P, val) /\ KeptUsed(P) /\ Claim(val)
    BY <1>3 DEF IInv, Renamed
  <2> QED
    BY <1>1, <2>1 DEF KeptUsed, Whole, Placed, Place, Globals, Claim, IInv
<1>5. /\ DOMAIN reg = Place /\ reg = [p \in Place |-> reg[p]] /\ Listed /\ Agree(b)
      /\ DOMAIN saved = {m \in Moves : Protected(m[1], m[2])}
  BY <1>1, <1>2 DEF InRegisters
<1>6. /\ Succ' = Succ /\ doms' = doms /\ Moves' = Moves /\ (Listed' <=> Listed)
      /\ \A p, d : Operand(p, d)' = Operand(p, d) /\ (Protected(p, d)' <=> Protected(p, d))
  BY <1>2, <1>3 DEF given, Succ, doms, Moves, Operand, Protected, Listed, Lists
<1>7. reg' = Moved(b)
  <2>1. reg' = MovedAt(b)[Len(order) + 1]
    BY <1>1 DEF MovesBranch
  <2> QED
    BY <1>3, <1>4, <1>5, <2>1, MovesAtOnce
<1>8. /\ DOMAIN saved' = DOMAIN saved
      /\ \A m \in DOMAIN saved :
           saved'[m] = IF Operand(m[1], m[2]).at = c
                       THEN reg'[<<Operand(m[1], m[2]).at, Operand(m[1], m[2]).name>>]
                       ELSE saved[m]
  BY DEF MovesBranch
<1>9. DOMAIN Succ = Block /\ \A d \in doms[c] : d = c \/ d \in doms[b]
  <2>1. DOMAIN Succ = Block
    BY <1>4, GraphOK DEF Given
  <2>2. b \in Preds(Succ, c)
    BY <1>3, <1>4, <2>1 DEF Preds
  <2> QED
    BY <1>4, <2>1, <2>2, DominatesBefore
<1>10. ASSUME NEW q \in phis, q[1] = c PROVE reg'[q] = env'[q]
  <2>1. b \in Preds(Succ, q[1]) /\ <<q, b>> \in Moves /\ q \in Place
    BY <1>3, <1>4, <1>9, <1>10 DEF Preds, Moves
  <2>2. reg'[q] = Source(reg, q, b) /\ env'[q] = Eval(Operand(q, b))
    BY <1>3, <1>7, <1>10, <2>1 DEF Moved
  <2>3. CASE Operand(q, b).kind = "phi"
    <3>1. PICK r \in phis : /\ r[1] \in doms[b] /\ Operand(q, b).at = r[1]
                            /\ <<Operand(q, b).at, Operand(q, b).name>> = r
      BY <1>3, <2>1, <2>3, SourceOf
    <3>2. Eval(Operand(q, b)) = env[r] /\ reg[r] = env[r]
      BY <1>5, <2>3, <3>1 DEF Eval, Agree
    <3>3. CASE <<q, b>> \in DOMAIN saved
      <4>1. <<q, b>>[1] = q /\ <<q, b>>[2] = b
        OBVIOUS
      <4>2. saved[<<q, b>>] = env[<<Operand(q, b).at, Operand(q, b).name>>]
        BY <1>5, <3>1, <3>3, <4>1 DEF Agree
      <4> QED
        BY <2>2, <3>1, <3>2, <3>3, <4>2 DEF Source
    <3>4. CASE <<q, b>> \notin DOMAIN saved
      <4>1. Source(reg, q, b) = reg[r]
        BY <2>3, <3>1, <3>4 DEF Source
      <4> QED
        BY <2>2, <3>2, <4>1
    <3> QED
      BY <3>3, <3>4
  <2>4. CASE Operand(q, b).kind # "phi"
    <3>1. <<q, b>> \notin DOMAIN saved
      BY <1>5, <2>4 DEF Protected
    <3> QED
      BY <2>2, <2>4, <3>1 DEF Source, Eval
  <2> QED
    BY <2>3, <2>4
<1>11. ASSUME NEW q \in phis, q[1] \in doms[c], q[1] # c PROVE reg'[q] = env'[q]
  <2>1. q \in Place /\ q[1] \in doms[b] /\ env'[q] = env[q] /\ reg[q] = env[q]
    BY <1>3, <1>4, <1>5, <1>9, <1>11 DEF Agree
  <2>2. <<q, b>> \notin Moves
    <3>1. ASSUME <<q, b>> \in Moves PROVE FALSE
      <4>1. q[1] \in Succ[b]
        BY <3>1 DEF Moves, Preds
      <4>2. Succ[b] = {q[1]}
        BY <1>4, <2>1, <4>1, BackBranch DEF Given
      <4> QED
        BY <1>3, <1>11, <4>2
    <3> QED
      BY <3>1
  <2> QED
    BY <1>7, <2>1, <2>2 DEF Moved
<1>12. Agree(c)'
  <2>1. \A q \in phis : q[1] \in doms[c] => reg'[q] = env'[q]
    BY <1>10, <1>11
  <2>2. ASSUME NEW m \in DOMAIN saved, Operand(m[1], m[2]).at \in doms[c]
        PROVE  saved'[m] = env'[<<Operand(m[1], m[2]).at, Operand(m[1], m[2]).name>>]
    <3>1. PICK q \in phis : /\ q \in Place /\ Operand(m[1], m[2]).at = q[1]
                            /\ <<Operand(m[1], m[2]).at, Operand(m[1], m[2]).name>> = q
      BY <1>3, <1>5, SavedFromPhi
    <3>2. CASE q[1] = c
      BY <1>8, <1>10, <3>1, <3>2
    <3>3. CASE q[1] # c
      <4>1. Operand(m[1], m[2]).at \in doms[b]
        BY <1>9, <2>2, <3>1, <3>3
      <4>2. saved[m] = env[q]
        BY <1>5, <3>1, <4>1 DEF Agree
      <4>3. saved'[m] = saved[m] /\ env'[q] = env[q]
        BY <1>3, <1>8, <3>1, <3>3
      <4> QED
        BY <3>1, <4>2, <4>3
    <3> QED
      BY <3>2, <3>3
  <2> QED
    BY <1>3, <1>6, <1>8, <2>1, <2>2 DEF Agree
<1>13. DOMAIN reg' = Place /\ reg' = [p \in Place |-> reg'[p]]
  BY <1>7 DEF Moved
<1>14. Agree(at[1])'
  BY <1>3, <1>12 DEF Agree
<1> QED
  BY <1>2, <1>3, <1>5, <1>6, <1>8, <1>13, <1>14 DEF InRegisters

LEMMA MovesInvInit == MovesInit => IInv /\ InRegisters
<1> SUFFICES ASSUME MovesInit PROVE IInv /\ InRegisters
  OBVIOUS
<1>1. IInv
  BY InvInit DEF MovesInit
<1>2. AtStart /\ ~lowered /\ reg = [p \in Place |-> Latest(Zero)]
  BY DEF MovesInit, RunInit, AtStart
<1> QED
  BY <1>1, <1>2 DEF InRegisters

LEMMA MovesIdle ==
  ASSUME InRegisters, UNCHANGED <<vars, runVars, moveVars>>
  PROVE  InRegisters'
<1>1. /\ given' = given /\ pc' = pc /\ phis' = phis /\ incoming' = incoming
      /\ at' = at /\ mem' = mem /\ env' = env
      /\ lowered' = lowered /\ order' = order /\ reg' = reg /\ saved' = saved
  BY DEF vars, runVars, moveVars
<1>2. /\ Succ' = Succ /\ doms' = doms /\ Moves' = Moves /\ (Listed' <=> Listed)
      /\ \A p, d : Operand(p, d)' = Operand(p, d) /\ (Protected(p, d)' <=> Protected(p, d))
  BY <1>1 DEF given, Succ, doms, Moves, Operand, Protected, Listed, Lists
<1>3. (AtStart' <=> AtStart) /\ (Agree(at[1])' <=> Agree(at[1]))
  BY <1>1, <1>2 DEF AtStart, Agree
<1> QED
  BY <1>1, <1>2, <1>3 DEF InRegisters

LEMMA MovesInvStep ==
  IInv /\ InRegisters /\ [MovesNext]_<<vars, runVars, moveVars>> => IInv' /\ InRegisters'
<1> SUFFICES ASSUME IInv, InRegisters, [MovesNext]_<<vars, runVars, moveVars>>
             PROVE  IInv' /\ InRegisters'
  OBVIOUS
<1>1. IInv'
  BY InvStep, MovesRun
<1> SUFFICES InRegisters'
  BY <1>1
<1>2. CASE Pass /\ UNCHANGED <<runVars, moveVars>>
  <2>1. pc # "done"
    BY <1>2 DEF Pass, InsertPhi, StartRename, Recurse, Leave, EraseUnused, MergeSelves, CrashInMerge
  <2>2. ~lowered /\ ~lowered' /\ reg' = reg
    BY <1>2, <2>1 DEF InRegisters, moveVars
  <2>3. AtStart' <=> AtStart
    BY <1>2 DEF AtStart, runVars
  <2>4. AtStart /\ reg = [p \in Place |-> Latest(Zero)]
    BY <2>2 DEF InRegisters
  <2>5. reg' = [p \in Place |-> Latest(Zero)]
    BY <2>2, <2>4
  <2>6. DOMAIN reg' = Place /\ reg' = [p \in Place |-> reg'[p]]
    BY <2>5
  <2> QED
    BY <2>2, <2>3, <2>4, <2>5, <2>6 DEF InRegisters
<1>3. CASE Lower
  BY <1>3, LowerStep
<1>4. CASE MovesExecute
  BY <1>4, MovesExecuteStep
<1>5. ASSUME NEW c \in Block, MovesBranch(c) PROVE InRegisters'
  BY <1>5, MovesBranchStep
<1>6. CASE UNCHANGED <<vars, runVars, moveVars>>
  BY <1>6, MovesIdle
<1> QED
  BY <1>2, <1>3, <1>4, <1>5, <1>6 DEF MovesNext, Ended

(***************************************************************************)
(* Out of single assignment form again: run one by one, in any order of a   *)
(* block's phis and on both sides of a branch, the moves leave in the       *)
(* register of a phi what the variable of the source held, wherever an      *)
(* instruction reads it.                                                    *)
(***************************************************************************)
THEOREM MovesKeepVariables == MovesSpec => []RegistersHoldVariables
<1>1. IInv /\ InRegisters /\ LoadsSeeLastStore => RegistersHoldVariables
  <2> SUFFICES ASSUME IInv, InRegisters, LoadsSeeLastStore, lowered, Running, Instr.op = "load",
                      NEW x, x = loaded[at], x.kind = "phi"
               PROVE  reg[<<x.at, x.name>>] = env[<<x.at, x.name>>]
    BY DEF RegistersHoldVariables, LoadsSeeLastStore, Eval
  <2>1. PICK P, val : Whole(P, val) /\ KeptUsed(P) /\ Claim(val)
    BY DEF IInv, Renamed, Running
  <2>2. at \in Sites(Block) /\ at[1] \in Block /\ at[2] \in 1..End(at[1]) /\ Code(at[1])[at[2]].from \in Var
    <3>1. at = <<at[1], at[2]>> /\ at[1] \in Block /\ at[2] \in 1..End(at[1]) /\ at[2] <= Len(Code(at[1]))
      BY <2>1 DEF Claim, Running
    <3>2. Len(Code(at[1])) \in Nat /\ DOMAIN Code(at[1]) = 1..Len(Code(at[1]))
      BY <3>1, CodeOK DEF IInv, Given
    <3>3. at[2] \in 1..Len(Code(at[1])) /\ at[2] \in Nat
      BY <3>1, <3>2 DEF End
    <3>4. Code(at[1])[at[2]].from \in Var
      BY <3>1, <3>3, CodeOK DEF IInv, Given
    <3> QED
      BY <3>1, <3>2, <3>3, <3>4 DEF Sites, Instr
  <2>3. x = val[at[1]][at[2]][Code(at[1])[at[2]].from]
    BY <2>1, <2>2 DEF Whole, LoadedOf
  <2>4. Defined(P, at[1], at[2], x)
    BY <2>1, <2>2, <2>3 DEF Whole, Solved
  <2>5. PICK q \in P : x = Phi(q) /\ q[1] \in doms[at[1]]
    <3>1. \A c, j : x # Zero /\ x # Def(c, j)
      BY DEF Zero, Def
    <3> QED
      BY <2>4, <3>1 DEF Defined
  <2>6. at \in DOMAIN loaded
    BY <2>1, <2>2 DEF Whole, LoadedOf
  <2>7. q \in phis
    BY <2>1, <2>5, <2>6 DEF KeptUsed, IsUsed
  <2>8. <<x.at, x.name>> = q
    <3>1. q \in Block \X Var
      BY <2>1 DEF Whole, Placed, Globals
    <3>2. x.at = q[1] /\ x.name = q[2]
      BY <2>5 DEF Phi
    <3> QED
      BY <3>1, <3>2
  <2> QED
    BY <2>5, <2>7, <2>8 DEF InRegisters, Agree
<1>2. MovesSpec => [](IInv /\ InRegisters)
  BY MovesInvInit, MovesInvStep, PTL DEF MovesSpec
<1>3. MovesSpec => []LoadsSeeLastStore
  BY MovesRunIt, LoadsReadTheirVariables, PTL
<1> QED
  BY <1>1, <1>2, <1>3, PTL

-----------------------------------------------------------------------------
(* Types. *)

Fit == {x \in Values : ValueOK(x)}
FitStacks == [Var -> Seq(Fit)]

\* Values a run makes.
Made(f, D) == DOMAIN f = D /\ \A k \in D : ValueOK(f[k].value) /\ f[k].value.kind # "phi"

LEMMA FitOK ==
  /\ Fit \subseteq Values /\ Zero \in Fit /\ \A p \in Place : Phi(p) \in Fit
  /\ \A x \in Fit : ValueOK(x)
<1>1. ASSUME NEW p \in Place PROVE Phi(p) \in Fit
  <2>1. p \in Block \X Var
    BY DEF Place
  <2>2. Phi(p).kind = "phi" /\ <<Phi(p).at, Phi(p).name>> = p
    BY <2>1 DEF Phi
  <2> QED
    BY <2>2 DEF Fit, Values, ValueOK
<1> QED
  BY <1>1 DEF Fit, Values, ValueOK

LEMMA DefFit ==
  ASSUME fn \in Functions, NEW b \in Block, NEW i \in 1..Len(Code(b))
  PROVE  Def(b, i) \in Fit /\ ValueOK(Def(b, i)) /\ Def(b, i).kind # "phi"
<1>1. DOMAIN Code(b) = 1..Len(Code(b)) /\ Len(Code(b)) \in Nat
  BY CodeOK
<1>2. Def(b, i).kind = "def" /\ Def(b, i).at = b /\ Def(b, i).name = i
  BY DEF Def
<1>3. ValueOK(Def(b, i))
  BY <1>1, <1>2 DEF ValueOK
<1>4. Def(b, i) \in Values
  BY <1>1 DEF Values
<1> QED
  BY <1>2, <1>3, <1>4 DEF Fit

LEMMA DefinedFit ==
  ASSUME Given, NEW P \in SUBSET Place, NEW b \in Block, NEW i, NEW x, Defined(P, b, i, x)
  PROVE  x \in Fit /\ ValueOK(x)
<1>1. doms[b] \subseteq Block
  BY GraphOK DEF Given, DomOrder
<1>2. x = Zero \/ (\E c \in Block : \E j \in 1..Len(Code(c)) : x = Def(c, j)) \/ \E q \in Place : x = Phi(q)
  BY <1>1 DEF Defined
<1>3. x \in Fit
  BY <1>2, FitOK, DefFit DEF Given
<1> QED
  BY <1>3, FitOK

LEMMA PushFit ==
  ASSUME NEW m \in FitStacks, NEW v \in Var, NEW x \in Fit
  PROVE  Push(m, v, x) \in FitStacks
<1>1. m[v] \in Seq(Fit)
  BY DEF FitStacks
<1>2. Append(m[v], x) \in Seq(Fit)
  BY <1>1, AppendProperties
<1> QED
  BY <1>2 DEF Push, FitStacks

LEMMA TopFit ==
  ASSUME NEW m \in FitStacks, NEW v \in Var
  PROVE  Top(m, v) \in Fit
<1>1. m[v] \in Seq(Fit)
  BY DEF FitStacks
<1>2. CASE m[v] # <<>>
  <2>1. m[v][Len(m[v])] \in Fit
    BY <1>1, <1>2
  <2> QED
    BY <1>2, <2>1 DEF Top, Last
<1> QED
  BY <1>2, FitOK DEF Top

LEMMA StacksFit == FitStacks \subseteq Stacks
<1>1. ASSUME NEW m \in FitStacks PROVE m \in Stacks
  <2>1. ASSUME NEW v \in Var PROVE m[v] \in Seq(Values)
    <3>1. m[v] \in Seq(Fit)
      BY DEF FitStacks
    <3> QED
      BY <3>1, FitOK
  <2> QED
    BY <2>1 DEF FitStacks, Stacks
<1> QED
  BY <1>1

LEMMA MapFits ==
  ASSUME fn \in Functions, NEW b \in Block, replaceMap \in FitStacks
  PROVE  MapAt(b)[End(b)] \in FitStacks
<1> DEFINE n == Len(Code(b))
           S == {i \in 1..(n + 1) : MapAt(b)[i] \in FitStacks}
<1>1. /\ n \in Nat /\ End(b) = n + 1
      /\ \A i \in 1..n : /\ Code(b)[i].op \in {"store", "load", "copy"}
                         /\ Code(b)[i].var \in Var /\ Code(b)[i].from \in Var
  BY CodeOK
<1>2. /\ MapAt(b)[1] = MapFirst(b)
      /\ \A i \in 1..n : MapAt(b)[i + 1] = MapAfter(b, i, MapAt(b)[i])
  BY MapOf, StacksFit
<1>3. MapFirst(b) \in FitStacks
  <2>1. ASSUME NEW v \in Var PROVE MapFirst(b)[v] \in Seq(Fit)
    <3>1. replaceMap[v] \in Seq(Fit) /\ Phi(<<b, v>>) \in Fit
      BY FitOK DEF FitStacks, Place
    <3>2. PICK t : t = IF <<b, v>> \in phis THEN <<Phi(<<b, v>>)>> ELSE <<>>
      OBVIOUS
    <3>3. MapFirst(b)[v] = replaceMap[v] \o t
      BY <3>2 DEF MapFirst
    <3>4. t \in Seq(Fit)
      BY <3>1, <3>2
    <3> QED
      BY <3>1, <3>3, <3>4, ConcatProperties
  <2>2. MapFirst(b) = [v \in Var |-> MapFirst(b)[v]]
    BY DEF MapFirst
  <2> QED
    BY <2>1, <2>2 DEF FitStacks
<1>4. 1 \in S
  BY <1>1, <1>2, <1>3
<1>5. ASSUME NEW i \in 1..n, i \in S PROVE i + 1 \in S
  <2>1. PICK m \in FitStacks : m = MapAt(b)[i]
    BY <1>5
  <2>2. Def(b, i) \in Fit /\ Top(m, Code(b)[i].from) \in Fit
    BY <1>1, DefFit, TopFit
  <2>3. MapAfter(b, i, m) \in FitStacks
    BY <1>1, <2>2, PushFit DEF MapAfter
  <2>4. i + 1 \in 1..(n + 1) /\ MapAt(b)[i + 1] = MapAfter(b, i, m)
    BY <1>1, <1>2, <2>1
  <2> QED
    BY <2>3, <2>4
<1>6. \A i \in 1..(n + 1) : i \in S
  <2> HIDE DEF S, n
  <2> QED
    BY <1>1, <1>4, <1>5, UpTo
<1>7. n + 1 \in 1..(n + 1)
  BY <1>1
<1> QED
  BY <1>1, <1>6, <1>7

LEMMA PopFits ==
  ASSUME NEW m \in FitStacks, NEW counter \in [Var -> Nat]
  PROVE  Popped(m, counter) \in FitStacks
<1>1. ASSUME NEW v \in Var PROVE SubSeq(m[v], 1, Len(m[v]) - counter[v]) \in Seq(Fit)
  <2> DEFINE n == Len(m[v]) - counter[v]
  <2>1. m[v] \in Seq(Fit) /\ counter[v] \in Nat /\ Len(m[v]) \in Nat
    BY DEF FitStacks
  <2>2. n \in Int /\ 1 \in Int /\ n <= Len(m[v])
    BY <2>1
  <2> HIDE DEF n
  <2>3. \A i \in 1..n : m[v][i] \in Fit
    BY <2>1, <2>2
  <2>4. SubSeq(m[v], 1, n) \in Seq(Fit)
    BY <2>2, <2>3, SubSeqProperties
  <2> QED
    BY <2>4 DEF n
<1> QED
  BY <1>1 DEF Popped, FitStacks

\* What TypeOK says that IInv does not.
Typed ==
  /\ workList \subseteq Place /\ replaceMap \in FitStacks /\ toContinue \in BOOLEAN
  /\ pc \notin {"insert", "rename"} => calls = <<>>
  /\ Made(mem, Var) /\ Made(env, Place)

LEMMA FitStays ==
  ASSUME given' = given
  PROVE  /\ \A x : ValueOK(x)' <=> ValueOK(x)
         /\ FitStacks' = FitStacks
<1>1. fn' = fn
  BY DEF given
<1>2. \A x : ValueOK(x)' <=> ValueOK(x)
  BY <1>1 DEF ValueOK, Code
<1>3. Fit' = Fit
  BY <1>2 DEF Fit
<1> QED
  BY <1>2, <1>3 DEF FitStacks

LEMMA TypedInit == RunInit => Typed
<1> SUFFICES ASSUME RunInit PROVE Typed
  OBVIOUS
<1>1. workList \subseteq Place /\ toContinue \in BOOLEAN /\ pc = "insert"
  BY DEF RunInit, Init, Place, Globals
<1>2. replaceMap \in FitStacks
  <2>1. replaceMap = [v \in Var |-> <<>>] /\ <<>> \in Seq(Fit)
    BY DEF RunInit, Init
  <2> QED
    BY <2>1 DEF FitStacks
<1>3. ValueOK(Latest(Zero).value) /\ Latest(Zero).value.kind # "phi"
  BY DEF ValueOK, Latest, Zero
<1>4. Made(mem, Var) /\ Made(env, Place)
  BY <1>3 DEF RunInit, Made
<1> QED
  BY <1>1, <1>2, <1>4 DEF Typed

LEMMA AgeMade ==
  ASSUME NEW D, NEW f, Made(f, D), NEW x
  PROVE  Made(Age(f, x), D)
<1>1. \A k \in D : Age(f, x)[k].value = f[k].value
  <2> TAKE k \in D
  <2>1. CASE f[k] = Latest(x)
    BY <2>1 DEF Age, Made, Latest, Earlier
  <2>2. CASE f[k] # Latest(x)
    BY <2>2 DEF Age, Made
  <2> QED
    BY <2>1, <2>2
<1>2. DOMAIN Age(f, x) = D
  BY DEF Age, Made
<1> QED
  BY <1>1, <1>2 DEF Made

LEMMA RunStarted ==
  ASSUME IInv, pc = "done"
  PROVE  /\ at[1] \in Block /\ at[2] \in 1..End(at[1])
         /\ at[2] <= Len(Code(at[1])) =>
              at[2] \in 1..Len(Code(at[1])) /\ Instr.op \in {"store", "load", "copy"}
              /\ Instr.var \in Var /\ Instr.from \in Var
<1>1. PICK P, val : Claim(val)
  BY DEF IInv, Renamed
<1>2. at[1] \in Block /\ at[2] \in 1..End(at[1])
  BY <1>1 DEF Claim
<1>3. Len(Code(at[1])) \in Nat /\ End(at[1]) = Len(Code(at[1])) + 1
  BY <1>2, CodeOK DEF IInv, Given
<1>4. ASSUME at[2] <= Len(Code(at[1])) PROVE at[2] \in 1..Len(Code(at[1]))
  BY <1>2, <1>3, <1>4
<1> QED
  BY <1>2, <1>4, CodeOK DEF IInv, Given, Instr

LEMMA TypedExecute ==
  ASSUME IInv, Typed, Execute
  PROVE  Made(mem, Var)' /\ Made(env, Place)'
<1>1. given' = given /\ pc = "done" /\ at[2] <= Len(Code(at[1]))
  BY DEF Execute, Running, vars
<1>2. /\ at[1] \in Block /\ at[2] \in 1..Len(Code(at[1]))
      /\ Instr.op \in {"store", "load", "copy"} /\ Instr.var \in Var /\ Instr.from \in Var
  BY <1>1, RunStarted
<1>3. PICK new : new = Def(at[1], at[2])
  OBVIOUS
<1>4. ValueOK(new) /\ new.kind # "phi"
  BY <1>2, <1>3, DefFit DEF IInv, Given
<1>5. Made(mem, Var) /\ Made(env, Place)
  BY DEF Typed
<1>6. \A f, D : Made(f, D)' <=> Made(f', D)
  <2>1. \A x : ValueOK(x)' <=> ValueOK(x)
    BY <1>1, FitStays
  <2> QED
    BY <2>1 DEF Made
<1>7. Made(mem', Var) /\ Made(env', Place)
  <2>1. CASE Instr.op = "store"
    <3>1. mem' = [Age(mem, new) EXCEPT ![Instr.var] = Latest(new)] /\ env' = Age(env, new)
      BY <1>3, <2>1 DEF Execute
    <3>2. Made(Age(mem, new), Var) /\ Made(Age(env, new), Place)
      BY <1>5, AgeMade
    <3>3. Latest(new).value = new
      BY DEF Latest
    <3>4. DOMAIN mem' = Var /\ \A v \in Var : mem'[v] = IF v = Instr.var THEN Latest(new) ELSE Age(mem, new)[v]
      BY <1>2, <3>1, <3>2 DEF Made
    <3>5. Made(mem', Var)
      BY <1>4, <3>2, <3>3, <3>4 DEF Made
    <3> QED
      BY <3>1, <3>2, <3>5
  <2>2. CASE Instr.op = "copy"
    <3>1. mem' = [mem EXCEPT ![Instr.var] = mem[Instr.from]] /\ env' = env
      BY <2>2 DEF Execute
    <3>2. DOMAIN mem' = Var /\ \A v \in Var : mem'[v] = IF v = Instr.var THEN mem[Instr.from] ELSE mem[v]
      BY <1>2, <1>5, <3>1 DEF Made
    <3> QED
      BY <1>2, <1>5, <3>1, <3>2 DEF Made
  <2>3. CASE Instr.op = "load"
    <3>1. mem' = mem /\ env' = env
      BY <2>3 DEF Execute
    <3> QED
      BY <1>5, <3>1
  <2> QED
    BY <1>2, <2>1, <2>2, <2>3
<1> QED
  BY <1>6, <1>7

LEMMA OperandFit ==
  ASSUME Given, NEW P, NEW val, Whole(P, val), NEW p \in P, NEW b \in Preds(Succ, p[1])
  PROVE  ValueOK(Operand(p, b))
<1>1. PICK x : x = val[b][End(b)][p[2]]
  OBVIOUS
<1>2. Operand(p, b) = x /\ p \in Place
  BY <1>1, OperandOf
<1>3. b \in Block /\ p[2] \in Var /\ End(b) \in 1..End(b) /\ P \subseteq Place
  BY <1>2, GraphOK, CodeOK DEF Given, Preds, Place, Whole, Placed, Globals
<1>4. Defined(P, b, End(b), x)
  BY <1>1, <1>2, <1>3 DEF Whole, Solved
<1> QED
  BY <1>2, <1>3, <1>4, DefinedFit

LEMMA TypedBranch ==
  ASSUME IInv, Typed, NEW c \in Block, Branch(c)
  PROVE  Made(mem, Var)' /\ Made(env, Place)'
<1>1. PICK b : b = at[1]
  OBVIOUS
<1>2. /\ given' = given /\ pc = "done" /\ c \in Succ[b] /\ mem' = mem
      /\ env' = [p \in Place |-> IF p \in phis /\ p[1] = c THEN Eval(Operand(p, b)) ELSE env[p]]
  BY <1>1 DEF Branch, vars
<1>3. b \in Block /\ DOMAIN Succ = Block /\ Given
  BY <1>1, <1>2, RunStarted, GraphOK DEF IInv, Given
<1>4. PICK P, val : Whole(P, val) /\ KeptUsed(P)
  BY <1>2 DEF IInv, Renamed
<1>5. ASSUME NEW p \in phis, p[1] = c
      PROVE  ValueOK(Eval(Operand(p, b)).value) /\ Eval(Operand(p, b)).value.kind # "phi"
  <2>1. p \in P /\ p[2] \in Var /\ b \in Preds(Succ, p[1]) /\ P \subseteq Place
    BY <1>2, <1>3, <1>4, <1>5 DEF KeptUsed, Whole, Placed, Place, Globals, Preds
  <2>2. PICK x : x = Operand(p, b)
    OBVIOUS
  <2>6. ValueOK(x)
    BY <1>3, <1>4, <2>1, <2>2, OperandFit
  <2>7. CASE x.kind = "phi"
    <3>1. <<x.at, x.name>> \in Place
      BY <2>6, <2>7 DEF ValueOK, Zero
    <3> QED
      BY <2>2, <2>7, <3>1 DEF Typed, Made, Eval
  <2>8. CASE x.kind # "phi"
    BY <2>2, <2>6, <2>8 DEF Eval, Latest
  <2> QED
    BY <2>7, <2>8
<1>6. \A x : ValueOK(x)' <=> ValueOK(x)
  BY <1>2, FitStays
<1>7. Made(env', Place)
  BY <1>2, <1>5 DEF Typed, Made
<1> QED
  BY <1>2, <1>6, <1>7 DEF Typed, Made

LEMMA TypedStep == IInv /\ IInv' /\ Typed /\ [Next]_<<vars, runVars>> => Typed'
<1> SUFFICES ASSUME IInv, IInv', Typed, [Next]_<<vars, runVars>> PROVE Typed'
  OBVIOUS
<1>1. given' = given
  <2>1. CASE Pass
    BY <2>1 DEF Pass, InsertPhi, StartRename, Recurse, Leave, EraseUnused, MergeSelves,
                CrashInMerge, given
  <2>2. CASE UNCHANGED vars
    BY <2>2 DEF vars
  <2>3. Pass \/ UNCHANGED vars
    BY DEF Next, Execute, Branch
  <2> QED
    BY <2>1, <2>2, <2>3
<1>2. FitStacks' = FitStacks /\ \A x : ValueOK(x)' <=> ValueOK(x)
  BY <1>1, FitStays
<1>3. \A D : (mem' = mem => (Made(mem, D)' <=> Made(mem, D))) /\ (env' = env => (Made(env, D)' <=> Made(env, D)))
  BY <1>2 DEF Made
<1>4. ASSUME NEW b \in Block, NEW callers, Enter(b, callers) PROVE replaceMap' \in FitStacks
  <2>1. replaceMap' = MapAt(b)[End(b)]
    BY <1>4 DEF Enter, End
  <2> QED
    BY <2>1, MapFits DEF IInv, Given, Typed
<1>5. ASSUME NEW b \in Block, NEW v \in Var, InsertPhi(b, v), UNCHANGED runVars PROVE Typed'
  <2>1. workList' \subseteq Place
    BY <1>5 DEF IInv, Placing, InsertPhi, Globals, Place
  <2> QED
    BY <1>2, <1>3, <1>5, <2>1 DEF Typed, InsertPhi, runVars
<1>6. CASE StartRename /\ UNCHANGED runVars
  <2>1. replaceMap' \in FitStacks
    BY <1>4, <1>6, Blocks DEF StartRename
  <2> QED
    BY <1>2, <1>3, <1>6, <2>1 DEF Typed, StartRename, runVars
<1>7. ASSUME NEW c \in Block, Recurse(c), UNCHANGED runVars PROVE Typed'
  <2>1. replaceMap' \in FitStacks
    BY <1>4, <1>7 DEF Recurse
  <2> QED
    BY <1>2, <1>3, <1>7, <2>1 DEF Typed, Recurse, runVars
<1>8. CASE Leave /\ UNCHANGED runVars
  <2>1. PICK cs : calls = cs /\ Stack(cs)
    BY <1>8 DEF IInv, Leave, Renaming, Down
  <2>2. Len(cs) \in 1..Len(cs) /\ \A i \in 1..Len(cs) : cs[i].counter \in [Var -> Nat]
    BY <2>1, StackOK DEF IInv
  <2>3. Last(calls).counter \in [Var -> Nat]
    BY <2>1, <2>2 DEF Last
  <2>4. replaceMap' = Popped(replaceMap, Last(calls).counter)
    BY <1>8 DEF Leave, Popped
  <2>5. replaceMap' \in FitStacks
    BY <2>3, <2>4, PopFits DEF Typed
  <2>6. ASSUME Len(calls) = 1 PROVE calls' = <<>>
    <3>1. calls' = SubSeq(cs, 1, Len(cs) - 1) /\ Len(cs) - 1 = 0
      BY <1>8, <2>1, <2>6 DEF Leave, Front
    <3>2. SubSeq(cs, 1, 0) = <<>>
      BY SubSeqEmpty
    <3> QED
      BY <3>1, <3>2
  <2> QED
    BY <1>2, <1>3, <1>8, <2>5, <2>6 DEF Typed, Leave, runVars
<1>9. CASE EraseUnused /\ UNCHANGED runVars
  BY <1>2, <1>3, <1>9 DEF Typed, EraseUnused, runVars
<1>10. CASE (MergeSelves \/ CrashInMerge) /\ UNCHANGED runVars
  BY <1>2, <1>3, <1>10 DEF Typed, MergeSelves, CrashInMerge, runVars
<1>11. CASE Execute
  <2>1. Made(mem, Var)' /\ Made(env, Place)'
    BY <1>11, TypedExecute
  <2> QED
    BY <1>2, <1>11, <2>1 DEF Typed, Execute, vars
<1>12. ASSUME NEW c \in Block, Branch(c) PROVE Typed'
  <2>1. Made(mem, Var)' /\ Made(env, Place)'
    BY <1>12, TypedBranch
  <2> QED
    BY <1>2, <1>12, <2>1 DEF Typed, Branch, vars
<1>13. CASE UNCHANGED <<vars, runVars>>
  BY <1>2, <1>3, <1>13 DEF Typed, vars, runVars
<1> QED
  BY <1>5, <1>6, <1>7, <1>8, <1>9, <1>10, <1>11, <1>12, <1>13 DEF Next, Pass

LEMMA ResultsTyped ==
  ASSUME Given, NEW P \in SUBSET Place, NEW V \in SUBSET Block, NEW val, Solved(P, V, val),
         loaded = LoadedOf(V, val), incoming = IncomingOf(P, V, val)
  PROVE  /\ \A p \in Place : \A e \in incoming[p] : e[1] \in Block /\ ValueOK(e[2])
         /\ \A s \in DOMAIN loaded : Code(s[1])[s[2]].op = "load" /\ ValueOK(loaded[s])
<1>1. ASSUME NEW p \in Place, NEW e \in incoming[p] PROVE e[1] \in Block /\ ValueOK(e[2])
  <2>1. PICK b \in V : e = <<b, val[b][End(b)][p[2]]>>
    BY <1>1 DEF IncomingOf, OperandsOf
  <2>2. End(b) \in 1..End(b) /\ p[2] \in Var
    BY CodeOK DEF Given, Place
  <2>3. Defined(P, b, End(b), val[b][End(b)][p[2]])
    BY <2>2 DEF Solved
  <2>4. ValueOK(val[b][End(b)][p[2]])
    BY <2>3, DefinedFit
  <2> QED
    BY <2>1, <2>4
<1>2. ASSUME NEW s \in DOMAIN loaded
      PROVE  Code(s[1])[s[2]].op = "load" /\ ValueOK(loaded[s])
  <2>1. s \in Sites(V) /\ loaded[s] = val[s[1]][s[2]][Code(s[1])[s[2]].from]
    BY DEF LoadedOf
  <2>2. s[1] \in V /\ s[2] \in DOMAIN Code(s[1]) /\ Code(s[1])[s[2]].op = "load"
    BY <2>1 DEF Sites
  <2>3. s[2] \in 1..End(s[1]) /\ Code(s[1])[s[2]].from \in Var
    BY <2>2, CodeOK DEF Given
  <2>4. Defined(P, s[1], s[2], loaded[s])
    BY <2>1, <2>2, <2>3 DEF Solved
  <2> QED
    BY <2>2, <2>4, DefinedFit
<1> QED
  BY <1>1, <1>2

LEMMA TypesOf == IInv /\ Typed => TypeOK
<1> SUFFICES ASSUME IInv, Typed PROVE TypeOK
  OBVIOUS
<1>1. /\ phis \subseteq Place
      /\ \A p \in Place : \A e \in incoming[p] : e[1] \in Block /\ ValueOK(e[2])
      /\ \A s \in DOMAIN loaded : Code(s[1])[s[2]].op = "load" /\ ValueOK(loaded[s])
  <2>1. CASE pc = "insert"
    <3>1. phis \subseteq Place /\ incoming = [p \in Place |-> {}] /\ loaded = <<>>
      BY <2>1 DEF IInv, Placing, NoneYet, Place, Globals
    <3> QED
      BY <3>1
  <2>2. CASE pc = "rename"
    <3>1. PICK cs, map, P, V, val, h :
            /\ Down(cs, map, P, V, val, h)
            /\ calls = cs /\ replaceMap = map /\ phis = P
            /\ loaded = LoadedOf(V, val) /\ incoming = IncomingOf(P, V, val)
      BY <2>2 DEF IInv, Renaming
    <3>2. P \subseteq Place /\ V \subseteq Block /\ Solved(P, V, val)
      BY <3>1 DEF Down, Placed, Place, Globals
    <3> QED
      BY <3>1, <3>2, ResultsTyped DEF IInv
  <2>3. CASE pc \notin {"insert", "rename"}
    <3>1. PICK P, val : Whole(P, val) /\ KeptUsed(P)
      BY <2>3 DEF IInv, Renamed
    <3>2. P \subseteq Place /\ Solved(P, Block, val) /\ phis \subseteq Place
      BY <3>1 DEF Whole, Placed, Place, Globals, KeptUsed
    <3> QED
      BY <3>1, <3>2, ResultsTyped DEF IInv, Whole
  <2> QED
    BY <2>1, <2>2, <2>3
<1>2. \A v \in Var : \A i \in DOMAIN replaceMap[v] : ValueOK(replaceMap[v][i])
  <2> TAKE v \in Var
  <2>1. replaceMap[v] \in Seq(Fit)
    BY DEF Typed, FitStacks
  <2>2. \A i \in DOMAIN replaceMap[v] : replaceMap[v][i] \in Fit
    BY <2>1
  <2> QED
    BY <2>2, FitOK
<1>3. pc = "rename" <=> calls # <<>>
  <2>1. pc = "insert" => calls = <<>>
    BY DEF IInv, Placing, NoneYet
  <2>2. pc = "rename" => calls # <<>>
    <3>1. ASSUME pc = "rename" PROVE Len(calls) > 0
      BY <3>1 DEF IInv, Renaming, Down, Stack
    <3>2. Len(<<>>) = 0
      OBVIOUS
    <3> QED
      BY <3>1, <3>2
  <2> QED
    BY <2>1, <2>2 DEF Typed
<1>4. at \in Block \X Nat
  <2>1. CASE pc = "done"
    <3>1. PICK P, val : Claim(val)
      BY <2>1 DEF IInv, Renamed
    <3>2. at = <<at[1], at[2]>> /\ at[1] \in Block /\ at[2] \in 1..End(at[1])
      BY <3>1 DEF Claim
    <3>3. at[2] \in Nat
      BY <3>2, CodeOK DEF IInv, Given
    <3> QED
      BY <3>2, <3>3
  <2>2. CASE pc # "done"
    BY <2>2, Blocks DEF IInv, AtStart
  <2> QED
    BY <2>1, <2>2
<1> QED
  BY <1>1, <1>2, <1>3, <1>4 DEF TypeOK, IInv, Typed, Made

(***************************************************************************)
(* The pass and the run beside it keep to their types: every value is 0, a  *)
(* store's or a phi's, and the activations of replace are gone when it is   *)
(* done.                                                                    *)
(***************************************************************************)
THEOREM TypeCorrect == Spec => []TypeOK
<1>1. Spec => [](IInv /\ Typed)
  BY InvInit, TypedInit, InvStep, TypedStep, PTL DEF Spec
<1> QED
  BY <1>1, TypesOf, PTL

MovesTyped ==
  /\ Made(reg, Place) /\ Made(saved, DOMAIN saved)
  /\ ~lowered => DOMAIN saved = {}
  /\ lowered => order \in SetToSeqs(phis)

LEMMA MovesTypedInit == MovesInit => MovesTyped
<1> SUFFICES ASSUME MovesInit PROVE MovesTyped
  OBVIOUS
<1>1. ValueOK(Latest(Zero).value) /\ Latest(Zero).value.kind # "phi"
  BY DEF ValueOK, Latest, Zero
<1>2. ~lowered /\ DOMAIN saved = {} /\ reg = [p \in Place |-> Latest(Zero)]
  BY DEF MovesInit
<1> QED
  BY <1>1, <1>2 DEF MovesTyped, Made

LEMMA MovesTypedExecute ==
  ASSUME IInv, InRegisters, MovesTyped, MovesExecute
  PROVE  MovesTyped'
<1>1. /\ given' = given /\ pc = "done" /\ at[2] <= Len(Code(at[1])) /\ phis' = phis
      /\ lowered' = lowered /\ order' = order
  BY DEF MovesExecute, Execute, Running, vars
<1>2. \A x : ValueOK(x)' <=> ValueOK(x)
  BY <1>1, FitStays
<1>3. PICK new : new = Def(at[1], at[2])
  OBVIOUS
<1>4. Made(reg', Place) /\ Made(saved', DOMAIN saved) /\ DOMAIN saved' = DOMAIN saved
  <2>1. CASE Instr.op = "store"
    <3>1. reg' = Age(reg, new) /\ saved' = Age(saved, new)
      BY <1>3, <2>1 DEF MovesExecute
    <3>2. Made(Age(reg, new), Place) /\ Made(Age(saved, new), DOMAIN saved)
      BY AgeMade DEF MovesTyped
    <3> QED
      BY <3>1, <3>2 DEF Made
  <2>2. CASE Instr.op # "store"
    BY <2>2 DEF MovesExecute, MovesTyped
  <2> QED
    BY <2>1, <2>2
<1> QED
  BY <1>1, <1>2, <1>4 DEF MovesTyped, Made

LEMMA MovesTypedBranch ==
  ASSUME IInv, InRegisters, MovesTyped, NEW c \in Block, MovesBranch(c)
  PROVE  MovesTyped'
<1>1. PICK b : b = at[1]
  OBVIOUS
<1>2. Branch(c) /\ lowered /\ lowered' = lowered /\ order' = order
  BY Zenon DEF MovesBranch
<1>3. given' = given /\ pc = "done" /\ phis' = phis
  BY <1>2 DEF Branch, vars
<1>4. PICK P, val : Whole(P, val) /\ KeptUsed(P)
  BY <1>3 DEF IInv, Renamed
<1>5. b \in Block /\ phis \subseteq Place
  BY <1>1, <1>3, <1>4, RunStarted DEF KeptUsed, Whole, Placed, Place, Globals
<1>6. /\ DOMAIN reg = Place /\ reg = [p \in Place |-> reg[p]] /\ Listed
      /\ DOMAIN saved = {m \in Moves : Protected(m[1], m[2])}
  BY <1>2 DEF InRegisters
<1>7. reg' = Moved(b)
  <2>1. reg' = MovedAt(b)[Len(order) + 1]
    BY <1>1 DEF MovesBranch
  <2> QED
    BY <1>3, <1>5, <1>6, <2>1, MovesAtOnce
<1>8. ASSUME NEW p \in phis, <<p, b>> \in Moves
      PROVE  ValueOK(Source(reg, p, b).value) /\ Source(reg, p, b).value.kind # "phi"
  <2>1. PICK x : x = Operand(p, b)
    OBVIOUS
  <2>2. ValueOK(x)
    <3>1. p \in P /\ b \in Preds(Succ, p[1])
      BY <1>4, <1>8 DEF KeptUsed, Moves
    <3> QED
      BY <1>4, <2>1, <3>1, OperandFit DEF IInv
  <2>3. CASE <<p, b>> \in DOMAIN saved
    BY <2>3 DEF Source, MovesTyped, Made
  <2>4. CASE <<p, b>> \notin DOMAIN saved /\ x.kind = "phi"
    <3>1. <<x.at, x.name>> \in Place
      BY <2>2, <2>4 DEF ValueOK, Zero
    <3> QED
      BY <2>1, <2>4, <3>1 DEF Source, MovesTyped, Made
  <2>5. CASE <<p, b>> \notin DOMAIN saved /\ x.kind # "phi"
    <3>1. Latest(x).value = x
      BY DEF Latest
    <3> QED
      BY <2>1, <2>2, <2>5, <3>1 DEF Source
  <2> QED
    BY <2>3, <2>4, <2>5
<1>9. Made(reg', Place)
  <2>1. \A p \in Place : ValueOK(reg[p].value) /\ reg[p].value.kind # "phi"
    BY DEF MovesTyped, Made
  <2> QED
    BY <1>7, <1>8, <2>1 DEF Moved, Made
<1>10. Made(saved', DOMAIN saved) /\ DOMAIN saved' = DOMAIN saved
  <2>1. /\ DOMAIN saved' = DOMAIN saved
        /\ \A m \in DOMAIN saved :
             saved'[m] = IF Operand(m[1], m[2]).at = c
                         THEN reg'[<<Operand(m[1], m[2]).at, Operand(m[1], m[2]).name>>]
                         ELSE saved[m]
    BY DEF MovesBranch
  <2>2. ASSUME NEW m \in DOMAIN saved
        PROVE  ValueOK(saved'[m].value) /\ saved'[m].value.kind # "phi"
    <3>1. <<Operand(m[1], m[2]).at, Operand(m[1], m[2]).name>> \in Place
      BY <1>3, <1>6, SavedFromPhi
    <3>2. PICK q \in Place : q = <<Operand(m[1], m[2]).at, Operand(m[1], m[2]).name>>
      BY <3>1
    <3>3. saved'[m] = reg'[q] \/ saved'[m] = saved[m]
      BY <2>1, <3>2
    <3>4. ValueOK(reg'[q].value) /\ reg'[q].value.kind # "phi"
      BY <1>9 DEF Made
    <3>5. ValueOK(saved[m].value) /\ saved[m].value.kind # "phi"
      BY DEF MovesTyped, Made
    <3> QED
      BY <3>3, <3>4, <3>5
  <2> QED
    BY <2>1, <2>2 DEF Made
<1>11. \A x : ValueOK(x)' <=> ValueOK(x)
  BY <1>3, FitStays
<1> QED
  BY <1>2, <1>3, <1>9, <1>10, <1>11 DEF MovesTyped, Made

LEMMA MovesTypedStep ==
  IInv /\ InRegisters /\ MovesTyped /\ [MovesNext]_<<vars, runVars, moveVars>> => MovesTyped'
<1> SUFFICES ASSUME IInv, InRegisters, MovesTyped, [MovesNext]_<<vars, runVars, moveVars>>
             PROVE  MovesTyped'
  OBVIOUS
<1>1. ASSUME given' = given, reg' = reg, saved' = saved
      PROVE  Made(reg, Place)' /\ Made(saved, DOMAIN saved)'
  <2>1. \A x : ValueOK(x)' <=> ValueOK(x)
    BY <1>1, FitStays
  <2> QED
    BY <1>1, <2>1 DEF MovesTyped, Made
<1>2. CASE Pass /\ UNCHANGED <<runVars, moveVars>>
  <2>1. pc # "done" /\ given' = given
    BY <1>2 DEF Pass, InsertPhi, StartRename, Recurse, Leave, EraseUnused, MergeSelves,
                CrashInMerge, given
  <2>2. ~lowered /\ ~lowered' /\ reg' = reg /\ saved' = saved
    BY <1>2, <2>1 DEF InRegisters, moveVars
  <2> QED
    BY <1>1, <2>1, <2>2 DEF MovesTyped
<1>3. CASE Lower
  <2>1. /\ given' = given /\ reg' = reg /\ phis' = phis /\ lowered' /\ order' \in SetToSeqs(phis)
        /\ saved' = [m \in {m \in Moves : Protected(m[1], m[2])} |-> Latest(Zero)]
    BY <1>3 DEF Lower, vars
  <2>2. \A x : ValueOK(x)' <=> ValueOK(x)
    BY <2>1, FitStays
  <2>3. ValueOK(Latest(Zero).value) /\ Latest(Zero).value.kind # "phi"
    BY DEF ValueOK, Latest, Zero
  <2>4. \A m \in DOMAIN saved' : saved'[m] = Latest(Zero)
    BY <2>1
  <2>5. Made(saved, DOMAIN saved)' /\ Made(reg, Place)'
    BY <2>1, <2>2, <2>3, <2>4 DEF MovesTyped, Made
  <2> QED
    BY <2>1, <2>5 DEF MovesTyped
<1>4. CASE MovesExecute
  BY <1>4, MovesTypedExecute
<1>5. ASSUME NEW c \in Block, MovesBranch(c) PROVE MovesTyped'
  BY <1>5, MovesTypedBranch
<1>6. CASE UNCHANGED <<vars, runVars, moveVars>>
  <2>1. /\ given' = given /\ reg' = reg /\ saved' = saved /\ phis' = phis /\ lowered' = lowered
        /\ order' = order
    BY <1>6 DEF vars, moveVars
  <2> QED
    BY <1>1, <2>1 DEF MovesTyped
<1> QED
  BY <1>2, <1>3, <1>4, <1>5, <1>6 DEF MovesNext, Ended

(***************************************************************************)
(* The same for the moves: each phi is met once, copies are kept for moves  *)
(* only, and registers hold values the function computes.                   *)
(***************************************************************************)
THEOREM MovesTypeCorrect == MovesSpec => []MovesTypeOK
<1>1. MovesSpec => [](IInv /\ InRegisters /\ MovesTyped)
  BY MovesInvInit, MovesInvStep, MovesTypedInit, MovesTypedStep, PTL DEF MovesSpec
<1>2. MovesSpec => []TypeOK
  BY MovesRunIt, TypeCorrect, PTL
<1>3. TypeOK /\ InRegisters /\ MovesTyped => MovesTypeOK
  <2> SUFFICES ASSUME TypeOK, InRegisters, MovesTyped PROVE MovesTypeOK
    OBVIOUS
  <2>1. ASSUME lowered PROVE pc = "done" /\ Len(order) = Cardinality(phis) /\ Range(order) = phis
    <3>1. phis \subseteq Place /\ order \in SetToSeqs(phis) /\ pc = "done" /\ Lists(order, phis)
      BY <2>1 DEF TypeOK, InRegisters, MovesTyped, Listed
    <3>2. Len(order) = Cardinality(phis) /\ DOMAIN order = 1..Len(order)
      BY <3>1, FinitelyMany, EachListed
    <3>3. Range(order) = phis
      BY <3>1, <3>2 DEF Range, Lists
    <3> QED
      BY <3>1, <3>2, <3>3
  <2>2. DOMAIN saved \subseteq Moves
    BY DEF InRegisters, MovesTyped
  <2> QED
    BY <2>1, <2>2 DEF MovesTypeOK, MovesTyped, Made
<1> QED
  BY <1>1, <1>2, <1>3, PTL
=============================================================================

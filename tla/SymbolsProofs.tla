--------------------------- MODULE SymbolsProofs ---------------------------
(***************************************************************************)
(* For any names, any number of declarations and any depth of scopes: the   *)
(* symbol table implements Environment, and what a name stands for exists   *)
(* and has memory.                                                          *)
(***************************************************************************)
EXTENDS Symbols, SequenceTheorems, WellFoundedInduction, TLAPS

Kinds == {"global", "local", "function", "arg"}
Scope == [Names -> Nat]

-----------------------------------------------------------------------------
(* Looking a name up. *)

LEMMA SmallestExists ==
  ASSUME NEW S, S \subseteq Nat, S # {}
  PROVE \E x \in S : \A y \in S : x <= y
<1> DEFINE R == OpToRel(<, Nat)
<1>1. IsWellFoundedOn(R, Nat)
  BY NatLessThanWellFounded
<1> HIDE DEF R
<1>2. \E x \in S : \A y \in S : ~ (<<y, x>> \in R)
  BY <1>1, WFMin
<1>3. \A x, y \in Nat : y < x => <<y, x>> \in R
  BY DEF R, OpToRel
<1>4. PICK x \in S : \A y \in S : ~ (<<y, x>> \in R)
  BY <1>2
<1>5. \A y \in S : ~ (y < x)
  BY <1>3, <1>4
<1>6. \A y \in S : x <= y
  BY <1>5
<1> QED
  BY <1>6

LEMMA FirstIsSmallest ==
  ASSUME NEW S, S \subseteq Nat, S # {}
  PROVE First(S) \in S /\ \A k \in S : First(S) <= k
BY SmallestExists DEF First

\* The scopes of a table, one of them put in front or not.
Holding(t, i, n) == {j \in i..Len(t) : t[j][n] # 0}
Found(t, i, n) == IF Holding(t, i, n) = {} THEN 0 ELSE t[First(Holding(t, i, n))][n]

LEMMA LookupIsFound == ASSUME NEW i, NEW n PROVE Lookup(i, n) = Found(table, i, n)
BY DEF Lookup, Having, Found, Holding

\* A name in the first scope is found there, another in those behind it.
LEMMA FoundHere ==
  ASSUME NEW t \in Seq(Scope), NEW i \in 1..Len(t), NEW n \in Names
  PROVE Found(t, i, n) = IF t[i][n] # 0 THEN t[i][n] ELSE Found(t, i + 1, n)
<1>1. CASE t[i][n] # 0
  <2>1. i \in Holding(t, i, n) /\ Holding(t, i, n) \subseteq Nat
    BY <1>1 DEF Holding
  <2>2. First(Holding(t, i, n)) = i
    <3>1. /\ First(Holding(t, i, n)) \in Holding(t, i, n)
          /\ \A k \in Holding(t, i, n) : First(Holding(t, i, n)) <= k
      BY <2>1, FirstIsSmallest
    <3> QED
      BY <2>1, <3>1 DEF Holding
  <2> QED
    BY <1>1, <2>1, <2>2 DEF Found
<1>2. CASE t[i][n] = 0
  <2>1. Holding(t, i, n) = Holding(t, i + 1, n)
    BY <1>2 DEF Holding
  <2> QED
    BY <1>2, <2>1 DEF Found
<1> QED
  BY <1>1, <1>2

\* What stands behind the i-th scope of t stands behind the k-th of u.
LEMMA FoundElsewhere ==
  ASSUME NEW t \in Seq(Scope), NEW u \in Seq(Scope), NEW n \in Names,
         NEW i \in Nat \ {0}, NEW d \in Int, i + d \in Nat \ {0},
         Len(u) = Len(t) + d,
         \A j \in i..Len(t) : u[j + d][n] = t[j][n]
  PROVE Found(u, i + d, n) = Found(t, i, n)
<1> DEFINE H == Holding(t, i, n)
           K == Holding(u, i + d, n)
<1>0. Len(t) \in Nat /\ Len(u) \in Nat
  OBVIOUS
<1>1. H \subseteq i..Len(t) /\ K \subseteq (i + d)..Len(u)
  BY DEF Holding
<1>2. \A j \in i..Len(t) : j \in H <=> j + d \in K
  BY <1>0 DEF Holding
<1>3. \A k \in (i + d)..Len(u) : k - d \in i..Len(t) /\ k = (k - d) + d
  BY <1>0
<1>4. H = {} <=> K = {}
  BY <1>1, <1>2, <1>3
<1>5. CASE H = {}
  BY <1>4, <1>5 DEF Found
<1>6. CASE H # {}
  <2>1. H \subseteq Nat /\ K \subseteq Nat
    BY <1>0, <1>1
  <2>2. First(H) \in H /\ \A j \in H : First(H) <= j
    BY <1>6, <2>1, FirstIsSmallest
  <2>3. First(K) \in K /\ \A k \in K : First(K) <= k
    BY <1>4, <1>6, <2>1, FirstIsSmallest
  <2> HIDE DEF H, K
  <2>4. First(H) + d \in K /\ First(K) - d \in H
    BY <1>1, <1>2, <1>3, <2>2, <2>3
  <2>5. First(K) = First(H) + d
    <3>1. First(K) <= First(H) + d
      BY <2>3, <2>4
    <3>2. First(H) <= First(K) - d
      BY <2>2, <2>4
    <3>3. First(H) \in Nat /\ First(K) \in Nat
      BY <2>1, <2>2, <2>3
    <3> QED
      BY <3>1, <3>2, <3>3
  <2>6. u[First(K)][n] = t[First(H)][n]
    BY <1>1, <2>2, <2>5
  <2> QED
    BY <1>4, <1>6, <2>6 DEF Found, H, K
<1> QED
  BY <1>5, <1>6

\* A name that no scope has stands for nothing, another for an entry.
LEMMA FoundIsEntry ==
  ASSUME NEW t \in Seq(Scope), NEW i \in Nat \ {0}, NEW n \in Names
  PROVE \/ Found(t, i, n) = 0
        \/ \E j \in 1..Len(t) : Found(t, i, n) = t[j][n]
<1>1. CASE Holding(t, i, n) = {}
  BY <1>1 DEF Found
<1>2. CASE Holding(t, i, n) # {}
  <2>1. Holding(t, i, n) \subseteq Nat /\ Holding(t, i, n) \subseteq 1..Len(t)
    BY DEF Holding
  <2>2. First(Holding(t, i, n)) \in Holding(t, i, n)
    BY <1>2, <2>1, FirstIsSmallest
  <2> QED
    BY <1>2, <2>1, <2>2 DEF Found
<1> QED
  BY <1>1, <1>2

-----------------------------------------------------------------------------
(* Types, and how the table changes. *)

Places == {"decls", "params", "body"}

TypeInv ==
  /\ table \in Seq(Scope) /\ Len(table) \in 1..MaxScopes
  /\ \A i \in 1..Len(table), n \in Names : table[i][n] <= Len(kind)
  /\ kind \in Seq(Kinds) /\ Len(kind) <= MaxDecls
  /\ globals \in Scope /\ statics \in Scope
  /\ \A n \in Names : statics[n] <= Len(kind)
  /\ \A n \in Names : globals[n] # 0 => globals[n] <= Len(kind) /\ kind[globals[n]] = "global"
  /\ destroyed \subseteq 1..Len(kind) /\ allocaOf \subseteq 1..Len(kind)
  /\ place \in Places
  /\ place = "decls" => Len(table) = 1
  /\ place = "params" => Len(table) = 2

\* The visitors that put a declaration of kind k into the innermost scope.
PutInFront(n, k) ==
  /\ New <= MaxDecls /\ table[1][n] = 0
  /\ kind' = Append(kind, k)
  /\ table' = InFront(n)
  /\ place' = place

LEMMA InFrontIs ==
  ASSUME TypeInv, NEW n \in Names
  PROVE /\ InFront(n) \in Seq(Scope) /\ Len(InFront(n)) = Len(table)
        /\ InFront(n)[1] \in Scope /\ InFront(n)[1][n] = New
        /\ \A m \in Names : m # n => InFront(n)[1][m] = table[1][m]
        /\ \A i \in 2..Len(table) : InFront(n)[i] = table[i]
<1>1. New \in Nat
  BY DEF TypeInv, New
<1>2. table[1] \in Scope /\ 1 \in 1..Len(table)
  BY BoundsAssumption DEF TypeInv
<1>3. [table[1] EXCEPT ![n] = New] \in Scope
  BY <1>1, <1>2 DEF Scope
<1>4. InFront(n) = [table EXCEPT ![1] = [table[1] EXCEPT ![n] = New]]
  BY <1>2 DEF InFront, TypeInv
<1>5. InFront(n) \in Seq(Scope) /\ Len(InFront(n)) = Len(table)
  BY <1>2, <1>3, <1>4, ExceptSeq DEF TypeInv
<1>6. /\ InFront(n)[1] = [table[1] EXCEPT ![n] = New]
      /\ \A i \in 2..Len(table) : InFront(n)[i] = table[i]
  <2>1. table \in Seq(Scope)
    BY DEF TypeInv
  <2> QED
    BY <1>2, <1>4, <2>1
<1> QED
  BY <1>2, <1>3, <1>5, <1>6 DEF Scope

\* What was declared keeps its kind.
LEMMA AppendedIs ==
  ASSUME TypeInv, NEW k \in Kinds
  PROVE /\ Append(kind, k) \in Seq(Kinds) /\ Len(Append(kind, k)) = New
        /\ New \in Nat /\ New > Len(kind) /\ Append(kind, k)[New] = k
        /\ \A d \in 1..Len(kind) : Append(kind, k)[d] = kind[d]
BY DEF TypeInv, New

LEMMA PrependedIs ==
  ASSUME NEW S, NEW e \in S, NEW s \in Seq(S)
  PROVE /\ <<e>> \o s \in Seq(S) /\ Len(<<e>> \o s) = Len(s) + 1
        /\ (<<e>> \o s)[1] = e
        /\ \A i \in 2..Len(s) + 1 : (<<e>> \o s)[i] = s[i - 1]
<1>1. <<e>> \in Seq(S) /\ Len(<<e>>) = 1 /\ <<e>>[1] = e
  OBVIOUS
<1> QED
  BY <1>1, ConcatProperties

LEMMA PushedIs ==
  ASSUME TypeInv
  PROVE /\ <<Empty>> \o table \in Seq(Scope) /\ Len(<<Empty>> \o table) = Len(table) + 1
        /\ (<<Empty>> \o table)[1] = Empty
        /\ \A i \in 2..Len(table) + 1 : (<<Empty>> \o table)[i] = table[i - 1]
<1>1. Empty \in Scope
  BY DEF Empty, Scope
<1> QED
  BY <1>1, PrependedIs DEF TypeInv

LEMMA PoppedIs ==
  ASSUME TypeInv, Len(table) # 1
  PROVE /\ out \in Seq(Scope) /\ Len(out) = Len(table) - 1 /\ Len(out) >= 1
        /\ \A i \in 1..Len(out) : out[i] = table[i + 1]
<1>1. Len(table) \in Nat /\ Len(table) >= 2
  <2> DEFINE len == Len(table)
  <2>1. len \in 1..MaxScopes /\ MaxScopes \in Nat /\ len # 1
    BY BoundsAssumption DEF TypeInv
  <2> HIDE DEF len
  <2>2. len \in Nat /\ len >= 2
    BY <2>1
  <2> QED
    BY <2>2 DEF len
<1>2. table # <<>>
  BY <1>1
<1> QED
  BY <1>1, <1>2, HeadTailProperties DEF TypeInv, out

LEMMA OpenedIs ==
  ASSUME TypeInv, NEW n \in Names, FuncDef(n)
  PROVE /\ table' \in Seq(Scope) /\ Len(table') = 2 /\ table'[1] = Empty
        /\ table[1] \in Scope
        /\ table'[2][n] = New /\ \A m \in Names : m # n => table'[2][m] = table[1][m]
<1> USE DEF FuncDef
<1>1. Empty \in Scope /\ New \in Nat /\ table[1] \in Scope
  <2>1. Len(table) = 1 /\ table \in Seq(Scope) /\ kind \in Seq(Kinds)
    BY DEF TypeInv, isGlobal
  <2>2. table[1] \in Scope
    <3>1. 1 \in 1..Len(table)
      BY <2>1
    <3> QED
      BY <2>1, <3>1, ElementOfSeq
  <2>3. New \in Nat
    BY <2>1 DEF New
  <2>4. Empty \in Scope
    BY DEF Empty, Scope
  <2> QED
    BY <2>2, <2>3, <2>4
<1>2. [table[1] EXCEPT ![n] = New] \in Scope
  BY <1>1 DEF Scope
<1> QED
  BY <1>1, <1>2 DEF isGlobal, Scope

LEMMA InitType == ASSUME Init PROVE TypeInv
<1>1. Empty \in Scope
  BY DEF Empty, Scope
<1>2. <<Empty>> \in Seq(Scope) /\ Len(<<Empty>>) = 1 /\ <<Empty>>[1] = Empty
  BY <1>1
<1>3. \A n \in Names : Empty[n] = 0
  BY DEF Empty
<1> QED
  BY <1>1, <1>2, <1>3, BoundsAssumption DEF Init, TypeInv, Places

LEMMA PutType ==
  ASSUME TypeInv, NEW n \in Names, NEW k \in Kinds, PutInFront(n, k),
         \/ globals' = globals
         \/ k = "global" /\ globals' = [globals EXCEPT ![n] = New],
         statics' = statics \/ statics' = [statics EXCEPT ![n] = @ + 1],
         destroyed' \subseteq destroyed \cup {New}, allocaOf' \subseteq allocaOf \cup {New}
  PROVE TypeInv'
<1> USE DEF PutInFront
<1>1. /\ Len(kind') = New /\ kind' \in Seq(Kinds) /\ New \in Nat /\ New > Len(kind)
      /\ kind'[New] = k /\ \A d \in 1..Len(kind) : kind'[d] = kind[d]
  BY AppendedIs
<1>2. table' \in Seq(Scope) /\ Len(table') = Len(table)
  BY InFrontIs
<1>3. \A i \in 1..Len(table'), m \in Names : table'[i][m] <= Len(kind')
  <2> SUFFICES ASSUME NEW i \in 1..Len(table), NEW m \in Names
               PROVE table'[i][m] <= New
    BY <1>1, <1>2
  <2>1. table[i][m] <= Len(kind) /\ table[i][m] \in Nat /\ Len(kind) \in Nat
    BY DEF TypeInv, Scope
  <2>2. table'[i][m] = table[i][m] \/ table'[i][m] = New
    <3>1. CASE i = 1 /\ m = n
      BY <3>1, InFrontIs
    <3>2. CASE i = 1 /\ m # n
      BY <3>2, InFrontIs
    <3>3. CASE i # 1
      <4>1. i \in 2..Len(table)
        BY <3>3, BoundsAssumption DEF TypeInv
      <4> QED
        BY <4>1, InFrontIs
    <3> QED
      BY <3>1, <3>2, <3>3
  <2> QED
    BY <1>1, <2>1, <2>2
<1>4. globals' \in Scope
  BY <1>1 DEF TypeInv, Scope
<1>5. \A m \in Names : globals'[m] # 0 => globals'[m] <= Len(kind') /\ kind'[globals'[m]] = "global"
  <2> SUFFICES ASSUME NEW m \in Names, globals'[m] # 0
               PROVE globals'[m] <= New /\ kind'[globals'[m]] = "global"
    BY <1>1
  <2>1. CASE globals'[m] = globals[m]
    <3>1. globals[m] \in 1..Len(kind) /\ kind[globals[m]] = "global"
      BY <2>1 DEF TypeInv, Scope
    <3> QED
      BY <1>1, <2>1, <3>1
  <2>2. CASE globals'[m] # globals[m]
    <3>1. globals'[m] = New /\ k = "global"
      BY <2>2 DEF TypeInv, Scope
    <3> QED
      BY <1>1, <3>1
  <2> QED
    BY <2>1, <2>2
<1>6. destroyed' \subseteq 1..Len(kind') /\ allocaOf' \subseteq 1..Len(kind')
  <2>1. destroyed \subseteq 1..Len(kind) /\ allocaOf \subseteq 1..Len(kind)
    BY DEF TypeInv
  <2>2. Len(kind) \in Nat /\ Len(kind') = Len(kind) + 1 /\ New = Len(kind) + 1
    BY <1>1 DEF TypeInv, New
  <2>3. 1..Len(kind) \subseteq 1..Len(kind') /\ New \in 1..Len(kind')
    BY <2>2
  <2> QED
    BY <2>1, <2>3
<1>7. statics' \in Scope /\ \A m \in Names : statics'[m] <= Len(kind')
  <2>1. statics \in [Names -> Nat] /\ \A m \in Names : statics[m] <= Len(kind)
    BY DEF TypeInv, Scope
  <2>2. Len(kind) \in Nat /\ Len(kind') = Len(kind) + 1
    BY <1>1 DEF TypeInv, New
  <2> QED
    BY <2>1, <2>2 DEF Scope
<1> QED
  BY <1>1, <1>2, <1>3, <1>4, <1>5, <1>6, <1>7 DEF TypeInv

LEMMA NextType == ASSUME TypeInv, [Next]_vars PROVE TypeInv'
<1>1. ASSUME NEW n \in Names, GlobalDef(n) PROVE TypeInv'
  BY <1>1, PutType DEF GlobalDef, StaticDef, Declared, PutInFront, addGlobal, Kinds
<1>2. ASSUME NEW n \in Names, ConstDef(n) PROVE TypeInv'
  BY <1>2, PutType DEF ConstDef, StaticDef, Declared, PutInFront, addGlobal, Kinds
<1>3. ASSUME NEW n \in Names, LocalDef(n) PROVE TypeInv'
  BY <1>3, PutType DEF LocalDef, Declared, PutInFront, Kinds
<1>4. ASSUME NEW n \in Names, FuncFParam(n) PROVE TypeInv'
  BY <1>4, PutType DEF FuncFParam, Declared, PutInFront, Promoted, Kinds
<1>5. ASSUME NEW n \in Names, FuncDef(n) PROVE TypeInv'
  <2>1. /\ Len(kind') = New /\ kind' \in Seq(Kinds) /\ New \in Nat /\ New > Len(kind)
        /\ \A d \in 1..Len(kind) : kind'[d] = kind[d]
    BY <1>5, AppendedIs DEF FuncDef, Declared, Kinds
  <2>2. /\ table' \in Seq(Scope) /\ Len(table') = 2 /\ table'[1] = Empty
        /\ table[1] \in Scope
        /\ table'[2][n] = New /\ \A m \in Names : m # n => table'[2][m] = table[1][m]
    BY <1>5, OpenedIs
  <2>3. \A i \in 1..Len(table'), m \in Names : table'[i][m] <= Len(kind')
    <3> SUFFICES ASSUME NEW i \in 1..2, NEW m \in Names
                 PROVE table'[i][m] <= New
      BY <2>1, <2>2
    <3>1. table'[1][m] = 0
      BY <2>2 DEF Empty
    <3>2. table[1][m] <= Len(kind) /\ table[1][m] \in Nat /\ Len(kind) \in Nat
      BY <1>5, <2>2 DEF TypeInv, FuncDef, isGlobal, Scope
    <3>3. table'[2][m] = New \/ table'[2][m] = table[1][m]
      BY <2>2
    <3> QED
      BY <2>1, <3>1, <3>2, <3>3
  <2>4. globals' = globals /\ destroyed' = destroyed /\ allocaOf' = {} /\ place' = "params"
        /\ Len(kind') <= MaxDecls
    BY <1>5, <2>1 DEF FuncDef, Declared
  <2>5. \A m \in Names : globals'[m] # 0 => globals'[m] <= Len(kind') /\ kind'[globals'[m]] = "global"
    <3> SUFFICES ASSUME NEW m \in Names, globals[m] # 0
                 PROVE globals[m] <= New /\ kind'[globals[m]] = "global"
      BY <2>1, <2>4
    <3>1. globals[m] \in 1..Len(kind) /\ kind[globals[m]] = "global"
      BY DEF TypeInv, Scope
    <3> QED
      BY <2>1, <3>1
  <2>6. destroyed' \subseteq 1..Len(kind') /\ allocaOf' \subseteq 1..Len(kind')
    BY <2>1, <2>4 DEF TypeInv
  <2>7. globals' \in Scope /\ Len(table') \in 1..MaxScopes
    BY <2>2, <2>4, BoundsAssumption DEF TypeInv
  <2>8. statics' \in Scope /\ \A m \in Names : statics'[m] <= Len(kind')
    <3>1. statics' = statics /\ Len(kind) \in Nat /\ Len(kind') = Len(kind) + 1
      BY <1>5, <2>1 DEF FuncDef, New, TypeInv
    <3> QED
      BY <3>1 DEF TypeInv, Scope
  <2> QED
    BY <2>1, <2>2, <2>3, <2>4, <2>5, <2>6, <2>7, <2>8 DEF TypeInv, Places
<1>6. ASSUME Block PROVE TypeInv'
  <2>1. /\ table' \in Seq(Scope) /\ Len(table') = Len(table) + 1 /\ table'[1] = Empty
        /\ \A i \in 2..Len(table') : table'[i] = table[i - 1]
    BY <1>6, PushedIs DEF Block
  <2>2. Len(table) \in Nat /\ Len(table) >= 1 /\ Len(kind) \in Nat
    BY BoundsAssumption DEF TypeInv
  <2>3. \A i \in 1..Len(table'), m \in Names : table'[i][m] <= Len(kind)
    <3> SUFFICES ASSUME NEW i \in 1..Len(table'), NEW m \in Names
                 PROVE table'[i][m] <= Len(kind)
      OBVIOUS
    <3>1. CASE i = 1
      BY <2>1, <2>2, <3>1 DEF Empty
    <3>2. CASE i # 1
      <4>1. i - 1 \in 1..Len(table) /\ table'[i] = table[i - 1]
        BY <2>1, <2>2, <3>2
      <4> QED
        BY <4>1 DEF TypeInv
    <3> QED
      BY <3>1, <3>2
  <2>4. Len(table') \in 1..MaxScopes
    BY <1>6, <2>1, <2>2, BoundsAssumption DEF Block
  <2> QED
    BY <1>6, <2>1, <2>3, <2>4 DEF Block, TypeInv, Places
<1>7. ASSUME Leave PROVE TypeInv'
  <2>1. /\ table' \in Seq(Scope) /\ Len(table') = Len(table) - 1 /\ Len(table') >= 1
        /\ \A i \in 1..Len(table') : table'[i] = table[i + 1]
    BY <1>7, PoppedIs DEF Leave, isGlobal
  <2>2. Len(table) \in 1..MaxScopes /\ MaxScopes \in Nat
    BY BoundsAssumption DEF TypeInv
  <2>3. \A i \in 1..Len(table'), m \in Names : table'[i][m] <= Len(kind)
    BY <2>1, <2>2 DEF TypeInv
  <2>4. Len(table') \in 1..MaxScopes
    BY <2>1, <2>2
  <2> QED
    BY <1>7, <2>1, <2>3, <2>4 DEF Leave, TypeInv
<1>8. ASSUME UNCHANGED vars PROVE TypeInv'
  BY <1>8 DEF vars, TypeInv
<1> QED
  BY <1>1, <1>2, <1>3, <1>4, <1>5, <1>6, <1>7, <1>8 DEF Next

LEMMA TypeInvariant == Spec => []TypeInv
<1>1. Init => TypeInv
  BY InitType
<1>2. TypeInv /\ [Next]_vars => TypeInv'
  BY NextType
<1> QED
  BY <1>1, <1>2, PTL DEF Spec

\* Every entry of the table and of the module stands for a declaration.
THEOREM TypeCorrect == Spec => []TypeOK
<1>1. TypeInv => TypeOK
  <2> SUFFICES ASSUME TypeInv PROVE TypeOK
    OBVIOUS
  <2>1. Len(kind) \in Nat
    BY DEF TypeInv
  <2>2. \A i \in 1..Len(table) : table[i] \in [Names -> 0..Len(kind)]
    BY <2>1 DEF TypeInv, Scope
  <2>3. \A n \in Names : globals[n] # 0 => kind[globals[n]] = "global"
    BY DEF TypeInv
  <2>4. statics \in [Names -> 0..Len(kind)]
    BY <2>1 DEF TypeInv, Scope
  <2> QED
    BY <2>1, <2>2, <2>3, <2>4 DEF TypeInv, TypeOK
<1> QED
  BY <1>1, TypeInvariant, PTL

-----------------------------------------------------------------------------
(***************************************************************************)
(* Names have memory.  Every entry of the table has it, not only those that *)
(* are found now: what a scope hides is found again when the scope is left. *)
(* An argument's alloca is forgotten with the next function, so the         *)
(* outermost scope, which outlives functions, must hold none.  An object of *)
(* the module counts under its name: the first of a name finds the map      *)
(* without it, and the second takes the name's excuse from nothing else.    *)
(***************************************************************************)
HasMemory(d, n) ==
  /\ kind[d] = "global" =>
       /\ statics[n] # 0
       /\ statics[n] = 1 => globals[n] = d /\ d \notin destroyed
  /\ kind[d] = "arg" => d \in allocaOf

\* The same of an entry of the next table.
WillHaveMemory(d, n) ==
  /\ kind'[d] = "global" =>
       /\ statics'[n] # 0
       /\ statics'[n] = 1 => globals'[n] = d /\ d \notin destroyed'
  /\ kind'[d] = "arg" => d \in allocaOf'

MemInv ==
  /\ \A n \in Names : globals[n] # 0 => statics[n] # 0
  /\ \A d \in destroyed : kind[d] = "global"
  /\ \A i \in 1..Len(table), n \in Names : table[i][n] # 0 => HasMemory(table[i][n], n)
  /\ \A n \in Names : table[Len(table)][n] # 0 => kind[table[Len(table)][n]] # "arg"

\* A new object: one of the module, or one that the module does not hear of.
Hears(n, k) ==
  /\ k = "global"
  /\ addGlobal(n)
  /\ statics' = [statics EXCEPT ![n] = @ + 1]

HearsNothing(k) == k # "global" /\ UNCHANGED <<globals, destroyed, statics>>

LEMMA PutMemory ==
  ASSUME TypeInv, MemInv, NEW n \in Names, NEW k \in Kinds, PutInFront(n, k),
         Hears(n, k) \/ HearsNothing(k),
         allocaOf \subseteq allocaOf', k = "arg" => New \in allocaOf' /\ Len(table) # 1
  PROVE MemInv'
<1> USE DEF PutInFront
<1>1. /\ New \in Nat /\ New > Len(kind) /\ Len(kind) \in Nat
      /\ kind'[New] = k /\ \A d \in 1..Len(kind) : kind'[d] = kind[d]
  <2>1. Len(kind) \in Nat
    BY DEF TypeInv
  <2> QED
    BY <2>1, AppendedIs
<1>2. Len(table') = Len(table) /\ Len(table) \in Nat /\ Len(table) >= 1
  BY InFrontIs, BoundsAssumption DEF TypeInv
<1>3. \A i \in 1..Len(table), m \in Names :
        \/ i = 1 /\ m = n /\ table'[i][m] = New
        \/ ~(i = 1 /\ m = n) /\ table'[i][m] = table[i][m]
           /\ (table[i][m] # 0 => table[i][m] \in 1..Len(kind))
  <2> SUFFICES ASSUME NEW i \in 1..Len(table), NEW m \in Names
               PROVE \/ i = 1 /\ m = n /\ table'[i][m] = New
                     \/ ~(i = 1 /\ m = n) /\ table'[i][m] = table[i][m]
                        /\ (table[i][m] # 0 => table[i][m] \in 1..Len(kind))
    OBVIOUS
  <2>1. table[i][m] # 0 => table[i][m] \in 1..Len(kind)
    <3>1. table[i] \in Scope
      BY ElementOfSeq DEF TypeInv
    <3>2. table[i][m] \in Nat /\ table[i][m] <= Len(kind)
      BY <3>1 DEF TypeInv, Scope
    <3> QED
      BY <1>1, <3>2
  <2>2. CASE i = 1 /\ m = n
    BY <2>2, InFrontIs
  <2>3. CASE i = 1 /\ m # n
    BY <2>1, <2>3, InFrontIs
  <2>4. CASE i # 1
    <3>1. i \in 2..Len(table)
      BY <1>2, <2>4
    <3> QED
      BY <2>1, <2>4, <3>1, InFrontIs
  <2> QED
    BY <2>2, <2>3, <2>4
<1>4. globals \in [Names -> Nat] /\ statics \in [Names -> Nat] /\ destroyed \subseteq 1..Len(kind)
  BY DEF TypeInv, Scope
<1>5. \A i \in 1..Len(table'), m \in Names : table'[i][m] # 0 => WillHaveMemory(table'[i][m], m)
  <2> SUFFICES ASSUME NEW i \in 1..Len(table), NEW m \in Names, table'[i][m] # 0
               PROVE WillHaveMemory(table'[i][m], m)
    BY <1>2
  <2>1. CASE i = 1 /\ m = n
    <3>1. table'[i][m] = New /\ New \notin destroyed
      <4>1. table'[i][m] = New
        BY <1>3, <2>1
      <4>2. New \notin 1..Len(kind)
        BY <1>1
      <4> QED
        BY <1>4, <4>1, <4>2
    <3>2. k = "global" => /\ statics'[n] # 0
                          /\ statics'[n] = 1 => globals'[n] = New /\ New \notin destroyed'
      <4> SUFFICES ASSUME Hears(n, k)
                   PROVE /\ statics'[n] # 0
                         /\ statics'[n] = 1 => globals'[n] = New /\ New \notin destroyed'
        BY DEF HearsNothing
      <4>1. statics'[n] = statics[n] + 1
        BY <1>4 DEF Hears
      <4>2. statics'[n] = 1 => globals[n] = 0
        BY <1>4, <4>1 DEF MemInv
      <4>3. globals[n] = 0 => globals'[n] = New /\ destroyed' = destroyed
        BY <1>4 DEF Hears, addGlobal
      <4> QED
        BY <1>4, <3>1, <4>1, <4>2, <4>3
    <3>3. k = "arg" => New \in allocaOf'
      OBVIOUS
    <3> QED
      BY <1>1, <2>1, <3>1, <3>2, <3>3 DEF WillHaveMemory
  <2>2. CASE ~(i = 1 /\ m = n)
    <3> DEFINE d == table[i][m]
    <3>1. table'[i][m] = d /\ d # 0 /\ d \in 1..Len(kind)
      BY <1>3, <2>2
    <3>2. kind'[d] = kind[d] /\ d # New
      BY <1>1, <3>1
    <3>3. HasMemory(d, m)
      BY <3>1 DEF MemInv
    <3> HIDE DEF d
    <3>4. kind[d] = "global" => /\ statics'[m] # 0
                                /\ statics'[m] = 1 => globals'[m] = d /\ d \notin destroyed'
      <4> SUFFICES ASSUME kind[d] = "global", Hears(n, k)
                   PROVE /\ statics'[m] # 0
                         /\ statics'[m] = 1 => globals'[m] = d /\ d \notin destroyed'
        BY <3>3 DEF HasMemory, HearsNothing
      <4>1. statics[m] # 0 /\ (statics[m] = 1 => globals[m] = d /\ d \notin destroyed)
        BY <3>3 DEF HasMemory
      <4>2. CASE m = n
        <5>1. statics'[m] = statics[m] + 1
          BY <1>4, <4>2 DEF Hears
        <5> QED
          BY <1>4, <4>1, <5>1
      <4>3. CASE m # n
        <5>1. statics'[m] = statics[m] /\ globals'[m] = globals[m]
          BY <1>4, <4>3 DEF Hears, addGlobal
        <5>2. d \notin destroyed => d \notin destroyed'
          BY <3>2 DEF Hears, addGlobal
        <5> QED
          BY <4>1, <5>1, <5>2
      <4> QED
        BY <4>2, <4>3
    <3>5. kind[d] = "arg" => d \in allocaOf'
      BY <3>3 DEF HasMemory
    <3> QED
      BY <3>1, <3>2, <3>4, <3>5 DEF WillHaveMemory
  <2> QED
    BY <2>1, <2>2
<1>6. \A m \in Names : table'[Len(table')][m] # 0 => kind'[table'[Len(table')][m]] # "arg"
  <2> SUFFICES ASSUME NEW m \in Names, table'[Len(table)][m] # 0
               PROVE kind'[table'[Len(table)][m]] # "arg"
    BY <1>2
  <2>1. CASE Len(table) = 1 /\ m = n
    <3>1. table'[Len(table)][m] = New
      BY <1>2, <1>3, <2>1
    <3>2. k # "arg"
      BY <2>1
    <3> QED
      BY <1>1, <3>1, <3>2
  <2>2. CASE ~(Len(table) = 1 /\ m = n)
    <3>1. Len(table) \in 1..Len(table)
      BY <1>2
    <3>2. /\ table'[Len(table)][m] = table[Len(table)][m]
          /\ table[Len(table)][m] \in 1..Len(kind)
      BY <1>3, <2>2, <3>1
    <3>3. kind[table[Len(table)][m]] # "arg"
      BY <1>1, <3>2 DEF MemInv
    <3> QED
      BY <1>1, <3>2, <3>3
  <2> QED
    BY <2>1, <2>2
<1>7. \A m \in Names : globals'[m] # 0 => statics'[m] # 0
  <2> SUFFICES ASSUME NEW m \in Names, globals'[m] # 0
               PROVE statics'[m] # 0
    OBVIOUS
  <2>1. CASE HearsNothing(k)
    BY <2>1 DEF HearsNothing, MemInv
  <2>2. CASE Hears(n, k) /\ m = n
    <3>1. statics'[m] = statics[m] + 1
      BY <1>4, <2>2 DEF Hears
    <3> QED
      BY <1>4, <3>1
  <2>3. CASE Hears(n, k) /\ m # n
    <3>1. statics'[m] = statics[m] /\ globals'[m] = globals[m]
      BY <1>4, <2>3 DEF Hears, addGlobal
    <3> QED
      BY <3>1 DEF MemInv
  <2> QED
    BY <2>1, <2>2, <2>3
<1>8. \A d \in destroyed' : kind'[d] = "global"
  <2>1. destroyed' \subseteq destroyed \cup {New} /\ (New \in destroyed' => k = "global" \/ New \in destroyed)
    BY DEF Hears, HearsNothing, addGlobal
  <2>2. \A d \in destroyed : kind'[d] = "global" /\ d # New
    BY <1>1, <1>4 DEF MemInv
  <2> QED
    BY <1>1, <2>1, <2>2
<1> QED
  BY <1>5, <1>6, <1>7, <1>8 DEF MemInv, HasMemory, WillHaveMemory

\* Entries of the new table are entries of the old one, or 0.
LEMMA MovedMemory ==
  ASSUME TypeInv, MemInv, UNCHANGED <<kind, globals, destroyed, allocaOf, statics>>,
         \A i \in 1..Len(table'), n \in Names :
           \/ table'[i][n] = 0
           \/ \E j \in 1..Len(table) : table'[i][n] = table[j][n],
         \A n \in Names : table'[Len(table')][n] = table[Len(table)][n]
  PROVE MemInv'
<1>1. \A i \in 1..Len(table'), n \in Names : table'[i][n] # 0 => HasMemory(table'[i][n], n)
  BY DEF MemInv
<1>2. \A i \in 1..Len(table'), n \in Names : table'[i][n] # 0 => WillHaveMemory(table'[i][n], n)
  BY <1>1 DEF HasMemory, WillHaveMemory
<1>3. \A n \in Names : table'[Len(table')][n] # 0 => kind[table'[Len(table')][n]] # "arg"
  BY DEF MemInv
<1> QED
  BY <1>2, <1>3 DEF MemInv, HasMemory, WillHaveMemory

LEMMA NextMemory ==
  ASSUME TypeInv, MemInv, [Next]_vars
  PROVE MemInv'
<1>0. ASSUME NEW n \in Names, StaticDef(n) PROVE MemInv'
  BY <1>0, PutMemory DEF StaticDef, Declared, PutInFront, Hears, Kinds
<1>1. ASSUME NEW n \in Names, GlobalDef(n) PROVE MemInv'
  BY <1>0, <1>1 DEF GlobalDef
<1>2. ASSUME NEW n \in Names, ConstDef(n) PROVE MemInv'
  BY <1>0, <1>2 DEF ConstDef
<1>3. ASSUME NEW n \in Names, LocalDef(n) PROVE MemInv'
  BY <1>3, PutMemory DEF LocalDef, Declared, PutInFront, HearsNothing, Kinds
<1>4. ASSUME NEW n \in Names, FuncFParam(n) PROVE MemInv'
  <2>0. place = "params"
    BY <1>4 DEF FuncFParam
  <2>1. Len(table) # 1
    <3>1. Len(table) = 2
      BY <2>0 DEF TypeInv
    <3> QED
      BY <3>1
  <2>2. New \in allocaOf' /\ allocaOf \subseteq allocaOf'
    BY <1>4 DEF FuncFParam, Promoted
  <2> QED
    BY <1>4, <2>1, <2>2, PutMemory DEF FuncFParam, Declared, PutInFront, HearsNothing, Kinds
<1>5. ASSUME NEW n \in Names, FuncDef(n) PROVE MemInv'
  <2>1. /\ Len(table') = 2 /\ table'[1] = Empty /\ table[1] \in Scope
        /\ table'[2][n] = New /\ \A m \in Names : m # n => table'[2][m] = table[1][m]
    BY <1>5, OpenedIs
  <2>2. /\ Len(kind') = New /\ New \in Nat /\ New > Len(kind) /\ kind'[New] = "function"
        /\ \A d \in 1..Len(kind) : kind'[d] = kind[d]
    BY <1>5, AppendedIs DEF FuncDef, Declared, Kinds
  <2>3. /\ Len(table) = 1
        /\ globals' = globals /\ destroyed' = destroyed /\ statics' = statics
    BY <1>5 DEF FuncDef, isGlobal
  <2>4. \A m \in Names : table[1][m] # 0 =>
          /\ table[1][m] \in 1..Len(kind)
          /\ kind[table[1][m]] # "arg"
          /\ HasMemory(table[1][m], m)
    <3> SUFFICES ASSUME NEW m \in Names, table[1][m] # 0
                 PROVE /\ table[1][m] \in 1..Len(kind)
                       /\ kind[table[1][m]] # "arg"
                       /\ HasMemory(table[1][m], m)
      OBVIOUS
    <3>1. table[1][m] \in Nat /\ table[1][m] <= Len(kind) /\ Len(kind) \in Nat
      BY <2>1, <2>3 DEF TypeInv, Scope
    <3>2. kind[table[1][m]] # "arg"
      BY <2>3 DEF MemInv
    <3>3. HasMemory(table[1][m], m)
      BY <2>3 DEF MemInv
    <3> QED
      BY <3>1, <3>2, <3>3
  <2>5. \A m \in Names : table'[1][m] = 0
    BY <2>1 DEF Empty
  <2>6. \A m \in Names : table'[2][m] # 0 =>
          kind'[table'[2][m]] # "arg" /\ WillHaveMemory(table'[2][m], m)
    <3> SUFFICES ASSUME NEW m \in Names, table'[2][m] # 0
                 PROVE kind'[table'[2][m]] # "arg" /\ WillHaveMemory(table'[2][m], m)
      OBVIOUS
    <3>1. CASE m = n
      BY <2>1, <2>2, <3>1 DEF WillHaveMemory
    <3>2. CASE m # n
      <4> DEFINE d == table[1][m]
      <4>1. table'[2][m] = d /\ d \in 1..Len(kind) /\ kind[d] # "arg" /\ HasMemory(d, m)
        BY <2>1, <2>4, <3>2
      <4> HIDE DEF d
      <4>2. kind'[d] = kind[d]
        BY <2>2, <4>1
      <4> QED
        BY <2>3, <4>1, <4>2 DEF HasMemory, WillHaveMemory
    <3> QED
      BY <3>1, <3>2
  <2>7. \A i \in 1..Len(table'), m \in Names : table'[i][m] # 0 => WillHaveMemory(table'[i][m], m)
    <3> SUFFICES ASSUME NEW i \in 1..2, NEW m \in Names, table'[i][m] # 0
                 PROVE WillHaveMemory(table'[i][m], m)
      BY <2>1
    <3>1. i = 2
      BY <2>5
    <3> QED
      BY <2>6, <3>1
  <2>8. \A d \in destroyed' : kind'[d] = "global"
    BY <2>2, <2>3 DEF MemInv, TypeInv
  <2>9. \A m \in Names : globals'[m] # 0 => statics'[m] # 0
    BY <2>3 DEF MemInv
  <2> QED
    BY <2>1, <2>6, <2>7, <2>8, <2>9 DEF MemInv, HasMemory, WillHaveMemory
<1>6. ASSUME Block PROVE MemInv'
  <2>1. /\ Len(table') = Len(table) + 1 /\ table'[1] = Empty
        /\ \A i \in 2..Len(table') : table'[i] = table[i - 1]
    BY <1>6, PushedIs DEF Block
  <2>2. Len(table) \in Nat /\ Len(table) >= 1
    BY BoundsAssumption DEF TypeInv
  <2>3. \A i \in 1..Len(table'), n \in Names :
          table'[i][n] = 0 \/ \E j \in 1..Len(table) : table'[i][n] = table[j][n]
    <3> SUFFICES ASSUME NEW i \in 1..Len(table'), NEW n \in Names
                 PROVE table'[i][n] = 0 \/ \E j \in 1..Len(table) : table'[i][n] = table[j][n]
      OBVIOUS
    <3>1. CASE i = 1
      BY <2>1, <3>1 DEF Empty
    <3>2. CASE i # 1
      <4>1. i - 1 \in 1..Len(table) /\ table'[i] = table[i - 1]
        BY <2>1, <2>2, <3>2
      <4> QED
        BY <4>1
    <3> QED
      BY <3>1, <3>2
  <2>4. table'[Len(table')] = table[Len(table)]
    BY <2>1, <2>2
  <2> QED
    BY <1>6, <2>3, <2>4, MovedMemory DEF Block
<1>7. ASSUME Leave PROVE MemInv'
  <2>1. /\ Len(table') = Len(table) - 1 /\ Len(table') >= 1
        /\ \A i \in 1..Len(table') : table'[i] = table[i + 1]
    BY <1>7, PoppedIs DEF Leave, isGlobal
  <2>2. Len(table) \in Nat
    BY BoundsAssumption DEF TypeInv
  <2>3. \A i \in 1..Len(table') : i + 1 \in 1..Len(table)
    BY <2>1, <2>2
  <2>4. table'[Len(table')] = table[Len(table)]
    BY <2>1, <2>2
  <2>5. \A i \in 1..Len(table'), n \in Names :
          \E j \in 1..Len(table) : table'[i][n] = table[j][n]
    BY <2>1, <2>3
  <2> QED
    BY <1>7, <2>4, <2>5, MovedMemory DEF Leave
<1>8. ASSUME UNCHANGED vars PROVE MemInv'
  BY <1>8 DEF vars, MemInv, HasMemory
<1> QED
  BY <1>1, <1>2, <1>3, <1>4, <1>5, <1>6, <1>7, <1>8 DEF Next

LEMMA InitMemory == ASSUME Init PROVE MemInv
<1>1. table = <<Empty>> /\ Len(table) = 1 /\ table[1] = Empty
  BY DEF Init
<1>2. \A n \in Names : Empty[n] = 0
  BY DEF Empty
<1> QED
  BY <1>1, <1>2 DEF Init, MemInv, HasMemory

(***************************************************************************)
(* What a name in scope stands for exists and has memory of its own, unless *)
(* the program has given the name to two objects of the module.             *)
(***************************************************************************)
THEOREM MemoryKept == Spec => []NamesHaveMemory
<1>1. Init => MemInv
  BY InitMemory
<1>2. TypeInv /\ MemInv /\ [Next]_vars => MemInv'
  BY NextMemory
<1>3. TypeInv /\ MemInv => NamesHaveMemory
  <2> SUFFICES ASSUME TypeInv, MemInv, NEW n \in Names, getItem(n) # 0,
                      kind[getItem(n)] = "global" => statics[n] = 1
               PROVE /\ getItem(n) \notin destroyed
                     /\ kind[getItem(n)] = "global" => globals[n] = getItem(n)
                     /\ kind[getItem(n)] = "arg" => getItem(n) \in allocaOf
    BY DEF NamesHaveMemory
  <2>1. getItem(n) = Found(table, 1, n)
    BY LookupIsFound DEF getItem
  <2>2. \E j \in 1..Len(table) : getItem(n) = table[j][n]
    <3>1. table \in Seq(Scope) /\ 1 \in Nat \ {0}
      BY DEF TypeInv
    <3>2. \/ Found(table, 1, n) = 0
          \/ \E j \in 1..Len(table) : Found(table, 1, n) = table[j][n]
      BY <3>1, FoundIsEntry
    <3> QED
      BY <2>1, <3>2
  <2>3. HasMemory(getItem(n), n)
    BY <2>2 DEF MemInv
  <2>4. getItem(n) \in destroyed => kind[getItem(n)] = "global"
    BY DEF MemInv
  <2> QED
    BY <2>3, <2>4 DEF HasMemory
<1> QED
  BY <1>1, <1>2, <1>3, TypeInvariant, PTL DEF Spec

-----------------------------------------------------------------------------
(* The table implements Environment. *)

Meanings(t) == [n \in Names |-> Found(t, 1, n)]
Around(t) == [i \in 1..Len(t) - 1 |-> [n \in Names |-> Found(t, i + 1, n)]]

LEMMA MeaningNow ==
  /\ [n \in Names |-> getItem(n)] = Meanings(table)
  /\ [i \in 1..Len(table) - 1 |-> [n \in Names |-> Lookup(i + 1, n)]] = Around(table)
BY DEF Meanings, Around, getItem, Lookup, Having, Found, Holding

LEMMA FoundIsNumber ==
  ASSUME NEW t \in Seq(Scope), NEW i \in Nat \ {0}, NEW n \in Names
  PROVE Found(t, i, n) \in Nat
<1>1. \A j \in 1..Len(t) : t[j] \in Scope
  BY ElementOfSeq
<1>2. \A j \in 1..Len(t) : t[j][n] \in Nat
  BY <1>1 DEF Scope
<1> QED
  BY <1>2, FoundIsEntry

LEMMA MeaningNext ==
  /\ [n \in Names |-> getItem(n)]' = Meanings(table')
  /\ [i \in 1..Len(table) - 1 |-> [n \in Names |-> Lookup(i + 1, n)]]' = Around(table')
BY DEF Meanings, Around, getItem, Lookup, Having, Found, Holding

\* What stands around a table's first scope is a sequence.
LEMMA AroundIsSequence ==
  ASSUME NEW t \in Seq(Scope), Len(t) >= 1
  PROVE /\ Around(t) \in Seq([Names -> Nat]) /\ Len(Around(t)) = Len(t) - 1
        /\ \A i \in 1..Len(t) - 1 : Around(t)[i] = [n \in Names |-> Found(t, i + 1, n)]
<1> DEFINE m == Len(t) - 1
           F(i) == [n \in Names |-> Found(t, i + 1, n)]
<1>1. m \in Nat
  OBVIOUS
<1>2. Around(t) = [i \in 1..m |-> F(i)]
  BY DEF Around
<1>3. \A i \in 1..m : F(i) \in [Names -> Nat]
  BY FoundIsNumber
<1> HIDE DEF m, F
<1>4. Around(t) \in [1..m -> [Names -> Nat]]
  BY <1>2, <1>3
<1>5. Around(t) \in Seq([Names -> Nat])
  BY <1>1, <1>4, SeqDef
<1>6. Len(Around(t)) = m
  BY <1>1, <1>4, <1>5, LenProperties
<1>7. \A i \in 1..m : Around(t)[i] = F(i)
  BY <1>2
<1> QED
  BY <1>5, <1>6, <1>7 DEF m, F

\* A declaration in the first scope changes what its name means, and no more.
LEMMA DeclaredIn ==
  ASSUME NEW t \in Seq(Scope), NEW u \in Seq(Scope), NEW n \in Names, NEW d \in Nat \ {0},
         Len(t) >= 1, Len(u) = Len(t), u[1][n] = d,
         \A m \in Names : m # n => u[1][m] = t[1][m],
         \A i \in 2..Len(t) : u[i] = t[i]
  PROVE Meanings(u) = [Meanings(t) EXCEPT ![n] = d] /\ Around(u) = Around(t)
<1>1. Len(t) \in Nat /\ 1 \in 1..Len(t) /\ 1 \in 1..Len(u)
  OBVIOUS
<1>2. \A m \in Names, i \in Nat : i >= 2 => Found(u, i, m) = Found(t, i, m)
  <2> SUFFICES ASSUME NEW m \in Names, NEW i \in Nat, i >= 2
               PROVE Found(u, i, m) = Found(t, i, m)
    OBVIOUS
  <2>1. \A j \in i..Len(t) : j \in 2..Len(t) /\ j + 0 = j
    BY <1>1
  <2>2. \A j \in i..Len(t) : u[j + 0][m] = t[j][m]
    BY <2>1
  <2>3. i \in Nat \ {0} /\ 0 \in Int /\ i + 0 \in Nat \ {0} /\ Len(u) = Len(t) + 0
    BY <1>1
  <2>4. Found(u, i + 0, m) = Found(t, i, m)
    BY <2>2, <2>3, FoundElsewhere
  <2> QED
    BY <2>4
<1>3. Found(u, 1, n) = d
  BY <1>1, FoundHere
<1>4. \A m \in Names : m # n => Found(u, 1, m) = Found(t, 1, m)
  <2> SUFFICES ASSUME NEW m \in Names, m # n PROVE Found(u, 1, m) = Found(t, 1, m)
    OBVIOUS
  <2>1. Found(u, 2, m) = Found(t, 2, m) /\ 1 + 1 = 2
    BY <1>2
  <2> QED
    BY <1>1, <2>1, FoundHere
<1>5. Meanings(u) = [Meanings(t) EXCEPT ![n] = d]
  BY <1>3, <1>4 DEF Meanings
<1>6. \A i \in 1..Len(t) - 1 : i + 1 \in Nat /\ i + 1 >= 2
  BY <1>1
<1>7. Around(u) = Around(t)
  BY <1>2, <1>6 DEF Around
<1> QED
  BY <1>5, <1>7

\* A first scope that is empty changes what no name means.
LEMMA EnteredIn ==
  ASSUME NEW t \in Seq(Scope), NEW u \in Seq(Scope), Len(t) >= 1, Len(u) = Len(t) + 1,
         u[1] = Empty, \A i \in 2..Len(u) : u[i] = t[i - 1]
  PROVE Meanings(u) = Meanings(t) /\ Around(u) = <<Meanings(t)>> \o Around(t)
<1>1. Len(t) \in Nat /\ Len(u) \in Nat /\ 1 \in 1..Len(u)
  OBVIOUS
<1>2. \A i \in Nat \ {0}, n \in Names : Found(u, i + 1, n) = Found(t, i, n)
  <2> SUFFICES ASSUME NEW i \in Nat \ {0}, NEW n \in Names
               PROVE Found(u, i + 1, n) = Found(t, i, n)
    OBVIOUS
  <2>1. \A j \in i..Len(t) : j + 1 \in 2..Len(u) /\ (j + 1) - 1 = j
    BY <1>1
  <2>2. \A j \in i..Len(t) : u[j + 1][n] = t[j][n]
    BY <2>1
  <2>3. 1 \in Int /\ i + 1 \in Nat \ {0}
    OBVIOUS
  <2> QED
    BY <2>2, <2>3, FoundElsewhere
<1>3. \A n \in Names : Found(u, 1, n) = Found(t, 1, n)
  <2> SUFFICES ASSUME NEW n \in Names PROVE Found(u, 1, n) = Found(t, 1, n)
    OBVIOUS
  <2>1. u[1][n] = 0
    BY DEF Empty
  <2>2. Found(u, 1, n) = Found(u, 1 + 1, n)
    BY <1>1, <2>1, FoundHere
  <2> QED
    BY <1>2, <2>2
<1>4. Meanings(u) = Meanings(t)
  BY <1>3 DEF Meanings
<1> DEFINE one == <<Meanings(t)>>
           Anything == [Names -> Nat]
<1>5. Meanings(t) \in Anything
  BY FoundIsNumber DEF Meanings
<1>6. /\ one \in Seq(Anything) /\ Len(one) = 1 /\ one[1] = Meanings(t)
      /\ Around(t) \in Seq(Anything) /\ Len(Around(t)) = Len(t) - 1
      /\ \A i \in 1..Len(t) - 1 : Around(t)[i] = [n \in Names |-> Found(t, i + 1, n)]
      /\ Around(u) \in Seq(Anything) /\ Len(Around(u)) = Len(t)
      /\ \A i \in 1..Len(t) : Around(u)[i] = [n \in Names |-> Found(u, i + 1, n)]
  <2>1. Len(u) >= 1 /\ Len(u) - 1 = Len(t)
    BY <1>1
  <2>2. /\ Around(u) \in Seq(Anything) /\ Len(Around(u)) = Len(t)
        /\ \A i \in 1..Len(t) : Around(u)[i] = [n \in Names |-> Found(u, i + 1, n)]
    BY <2>1, AroundIsSequence
  <2>3. one \in Seq(Anything) /\ Len(one) = 1 /\ one[1] = Meanings(t)
    BY <1>5
  <2> QED
    BY <2>2, <2>3, AroundIsSequence
<1> HIDE DEF Anything, one
<1>7. /\ one \o Around(t) \in Seq(Anything) /\ Len(one \o Around(t)) = Len(t)
      /\ (one \o Around(t))[1] = Meanings(t)
      /\ \A i \in 2..Len(t) : (one \o Around(t))[i] = Around(t)[i - 1]
  <2>1. /\ one \o Around(t) \in Seq(Anything) /\ Len(one \o Around(t)) = Len(Around(t)) + 1
        /\ (one \o Around(t))[1] = Meanings(t)
        /\ \A i \in 2..Len(Around(t)) + 1 : (one \o Around(t))[i] = Around(t)[i - 1]
    <3> DEFINE a == Around(t)
               e == Meanings(t)
    <3>1. e \in Anything /\ a \in Seq(Anything)
      BY <1>5, <1>6
    <3> HIDE DEF a, e
    <3>2. /\ <<e>> \o a \in Seq(Anything) /\ Len(<<e>> \o a) = Len(a) + 1
          /\ (<<e>> \o a)[1] = e
          /\ \A i \in 2..Len(a) + 1 : (<<e>> \o a)[i] = a[i - 1]
      BY <3>1, PrependedIs
    <3> QED
      BY <3>2 DEF a, e, one
  <2>2. Len(Around(t)) = Len(t) - 1
    BY AroundIsSequence
  <2>3. Len(Around(t)) + 1 = Len(t)
    BY <1>1, <2>2
  <2> QED
    BY <2>1, <2>3
<1>8. \A i \in 1..Len(t) : Around(u)[i] = (one \o Around(t))[i]
  <2> SUFFICES ASSUME NEW i \in 1..Len(t) PROVE Around(u)[i] = (one \o Around(t))[i]
    OBVIOUS
  <2>1. Around(u)[i] = [n \in Names |-> Found(t, i, n)]
    <3>1. \A n \in Names : Found(u, i + 1, n) = Found(t, i, n)
      BY <1>2
    <3> QED
      BY <1>6, <3>1
  <2>2. CASE i = 1
    BY <1>7, <2>1, <2>2 DEF Meanings
  <2>3. CASE i # 1
    <3>1. i \in 2..Len(t) /\ i - 1 \in 1..Len(t) - 1 /\ (i - 1) + 1 = i
      BY <1>1, <2>3
    <3>2. Around(t)[i - 1] = [n \in Names |-> Found(t, i, n)]
      BY <1>6, <3>1
    <3> QED
      BY <1>7, <2>1, <3>1, <3>2
  <2> QED
    BY <2>2, <2>3
<1>9. Around(u) = one \o Around(t)
  <2> DEFINE v == one \o Around(t)
             w == Around(u)
  <2>1. v \in Seq(Anything) /\ w \in Seq(Anything) /\ Len(v) = Len(w)
    BY <1>6, <1>7
  <2>2. \A i \in 1..Len(w) : w[i] = v[i]
    BY <1>6, <1>8
  <2> HIDE DEF v, w
  <2>3. w = v
    BY <2>1, <2>2, SeqEqual
  <2> QED
    BY <2>3 DEF v, w
<1> QED
  BY <1>4, <1>9 DEF one

\* Without its first scope a table means what stood around that scope.
LEMMA LeftIn ==
  ASSUME NEW t \in Seq(Scope), NEW u \in Seq(Scope), Len(u) >= 1, Len(t) = Len(u) + 1,
         \A i \in 1..Len(u) : u[i] = t[i + 1]
  PROVE /\ Around(t) # <<>>
        /\ Meanings(u) = Head(Around(t)) /\ Around(u) = Tail(Around(t))
<1>1. Len(t) \in Nat /\ Len(u) \in Nat
  OBVIOUS
<1>2. \A i \in Nat \ {0}, n \in Names : Found(t, i + 1, n) = Found(u, i, n)
  <2> SUFFICES ASSUME NEW i \in Nat \ {0}, NEW n \in Names
               PROVE Found(t, i + 1, n) = Found(u, i, n)
    OBVIOUS
  <2>1. \A j \in i..Len(u) : j \in 1..Len(u)
    BY <1>1
  <2>2. \A j \in i..Len(u) : t[j + 1][n] = u[j][n]
    BY <2>1
  <2>3. 1 \in Int /\ i + 1 \in Nat \ {0}
    OBVIOUS
  <2> QED
    BY <2>2, <2>3, FoundElsewhere
<1>3. /\ Around(t) \in Seq([Names -> Nat]) /\ Len(Around(t)) = Len(u)
      /\ \A i \in 1..Len(u) : Around(t)[i] = [n \in Names |-> Found(t, i + 1, n)]
  <2>1. Len(t) >= 1 /\ Len(t) - 1 = Len(u)
    BY <1>1
  <2> QED
    BY <2>1, AroundIsSequence
<1>4. /\ Around(u) \in Seq([Names -> Nat]) /\ Len(Around(u)) = Len(u) - 1
      /\ \A i \in 1..Len(u) - 1 : Around(u)[i] = [n \in Names |-> Found(u, i + 1, n)]
  BY AroundIsSequence
<1>5. Around(t) # <<>>
  <2>1. Len(Around(t)) >= 1
    BY <1>3
  <2> QED
    BY <2>1
<1>6. /\ Head(Around(t)) = Around(t)[1]
      /\ Tail(Around(t)) \in Seq([Names -> Nat]) /\ Len(Tail(Around(t))) = Len(u) - 1
      /\ \A i \in 1..Len(Tail(Around(t))) : Tail(Around(t))[i] = Around(t)[i + 1]
  <2> DEFINE a == Around(t)
  <2>1. a \in Seq([Names -> Nat]) /\ a # <<>> /\ Len(a) = Len(u)
    BY <1>3, <1>5
  <2> HIDE DEF a
  <2>2. Head(a) = a[1]
    BY <2>1
  <2>3. /\ Tail(a) \in Seq([Names -> Nat]) /\ Len(Tail(a)) = Len(a) - 1
        /\ \A i \in 1..Len(Tail(a)) : Tail(a)[i] = a[i + 1]
    BY <2>1, HeadTailProperties
  <2> QED
    BY <2>1, <2>2, <2>3 DEF a
<1>7. Meanings(u) = Around(t)[1]
  <2>1. \A n \in Names : Found(t, 1 + 1, n) = Found(u, 1, n)
    BY <1>2
  <2>2. 1 \in 1..Len(u)
    BY <1>1
  <2>3. Around(t)[1] = [n \in Names |-> Found(t, 1 + 1, n)]
    BY <1>3, <2>2
  <2> QED
    BY <2>1, <2>3 DEF Meanings
<1>8. \A i \in 1..Len(u) - 1 : Around(u)[i] = Tail(Around(t))[i]
  <2> SUFFICES ASSUME NEW i \in 1..Len(u) - 1 PROVE Around(u)[i] = Tail(Around(t))[i]
    OBVIOUS
  <2>1. i + 1 \in 1..Len(u) /\ i + 1 \in Nat \ {0}
    BY <1>1
  <2>2. \A n \in Names : Found(t, (i + 1) + 1, n) = Found(u, i + 1, n)
    BY <1>2, <2>1
  <2>3. Tail(Around(t))[i] = [n \in Names |-> Found(t, (i + 1) + 1, n)]
    BY <1>3, <1>6, <2>1
  <2> QED
    BY <1>4, <2>2, <2>3
<1>9. Around(u) = Tail(Around(t))
  <2> DEFINE v == Tail(Around(t))
             w == Around(u)
  <2>1. v \in Seq([Names -> Nat]) /\ w \in Seq([Names -> Nat]) /\ Len(v) = Len(w)
    BY <1>4, <1>6
  <2>2. \A i \in 1..Len(w) : w[i] = v[i]
    BY <1>4, <1>8
  <2> HIDE DEF v, w
  <2>3. w = v
    BY <2>1, <2>2, SeqEqual
  <2> QED
    BY <2>3 DEF v, w
<1> QED
  BY <1>5, <1>6, <1>7, <1>9

LEMMA InitRefines == ASSUME Init PROVE Scopes!Init
<1>1. table = <<Empty>> /\ Len(table) = 1 /\ table[1] = Empty
  BY DEF Init
<1>2. \A n \in Names : Empty[n] = 0
  BY DEF Empty
<1>3. \A n \in Names : Having(1, n) = {}
  <2>1. \A j \in 1..Len(table) : table[j] = Empty
    BY <1>1
  <2> QED
    BY <1>2, <2>1 DEF Having
<1>4. [n \in Names |-> getItem(n)] = [n \in Names |-> 0]
  BY <1>3 DEF getItem, Lookup
<1>5. [i \in 1..Len(table) - 1 |-> [n \in Names |-> Lookup(i + 1, n)]] = <<>>
  BY <1>1
<1> QED
  BY <1>4, <1>5 DEF Scopes!Init

LEMMA PutRefines ==
  ASSUME TypeInv, NEW n \in Names, NEW k \in Kinds, PutInFront(n, k)
  PROVE Scopes!Next
<1>1. /\ table' \in Seq(Scope) /\ Len(table') = Len(table) /\ table'[1][n] = New
      /\ \A m \in Names : m # n => table'[1][m] = table[1][m]
      /\ \A i \in 2..Len(table) : table'[i] = table[i]
  BY InFrontIs DEF PutInFront
<1>2. New \in 1..MaxDecls /\ New \in Nat \ {0}
  BY BoundsAssumption DEF PutInFront, New, TypeInv
<1>3. Len(table) >= 1 /\ table \in Seq(Scope)
  BY BoundsAssumption DEF TypeInv
<1>4. /\ Meanings(table') = [Meanings(table) EXCEPT ![n] = New]
      /\ Around(table') = Around(table)
  BY <1>1, <1>2, <1>3, DeclaredIn
<1>5. Scopes!Declare(n, New)
  BY <1>4, MeaningNow, MeaningNext DEF Scopes!Declare
<1> QED
  BY <1>2, <1>5 DEF Scopes!Next

LEMMA NextRefines ==
  ASSUME TypeInv, [Next]_vars
  PROVE [Scopes!Next]_Scopes!vars
<1>0. Len(table) >= 1 /\ table \in Seq(Scope)
  BY BoundsAssumption DEF TypeInv
<1>1. ASSUME NEW n \in Names, GlobalDef(n) PROVE Scopes!Next
  BY <1>1, PutRefines DEF GlobalDef, StaticDef, Declared, PutInFront, Kinds
<1>2. ASSUME NEW n \in Names, ConstDef(n) PROVE Scopes!Next
  BY <1>2, PutRefines DEF ConstDef, StaticDef, Declared, PutInFront, Kinds
<1>3. ASSUME NEW n \in Names, LocalDef(n) PROVE Scopes!Next
  BY <1>3, PutRefines DEF LocalDef, Declared, PutInFront, Kinds
<1>4. ASSUME NEW n \in Names, FuncFParam(n) PROVE Scopes!Next
  BY <1>4, PutRefines DEF FuncFParam, Declared, PutInFront, Kinds
<1>5. ASSUME NEW n \in Names, FuncDef(n) PROVE Scopes!Next
  <2> DEFINE t == <<table'[2]>>
  <2>1. /\ table' \in Seq(Scope) /\ Len(table') = 2 /\ table'[1] = Empty
        /\ table'[2][n] = New /\ \A m \in Names : m # n => table'[2][m] = table[1][m]
    BY <1>5, OpenedIs
  <2>2. table'[2] \in Scope
    BY <2>1, ElementOfSeq
  <2>3. t \in Seq(Scope) /\ Len(t) = 1 /\ t[1] = table'[2]
    BY <2>2
  <2>4. Len(table) = 1 /\ New \in 1..MaxDecls /\ New \in Nat \ {0}
    BY <1>5, BoundsAssumption DEF FuncDef, Declared, New, isGlobal, TypeInv
  <2> HIDE DEF t
  <2>5. \A i \in 2..Len(table) : t[i] = table[i]
    BY <2>4
  <2>6. Meanings(t) = [Meanings(table) EXCEPT ![n] = New] /\ Around(t) = Around(table)
    BY <1>0, <2>1, <2>3, <2>4, <2>5, DeclaredIn
  <2>7. Len(table') = Len(t) + 1 /\ \A i \in 2..Len(table') : table'[i] = t[i - 1]
    BY <2>1, <2>3
  <2>8. Meanings(table') = Meanings(t) /\ Around(table') = <<Meanings(t)>> \o Around(t)
    <3>1. Len(t) >= 1
      BY <2>3
    <3> QED
      BY <2>1, <2>3, <2>7, <3>1, EnteredIn
  <2>9. Around(table) = <<>>
    BY <2>4 DEF Around
  <2>10. Around(table') = <<Meanings(table')>>
    <3>1. <<Meanings(t)>> \o <<>> = <<Meanings(t)>>
      OBVIOUS
    <3> QED
      BY <2>6, <2>8, <2>9, <3>1
  <2>11. Scopes!Open(n, New)
    BY <2>6, <2>8, <2>9, <2>10, MeaningNow, MeaningNext DEF Scopes!Open
  <2> QED
    BY <2>4, <2>11 DEF Scopes!Next
<1>6. ASSUME Block PROVE Scopes!Next
  <2>1. /\ table' \in Seq(Scope) /\ Len(table') = Len(table) + 1 /\ table'[1] = Empty
        /\ \A i \in 2..Len(table') : table'[i] = table[i - 1]
    BY <1>6, PushedIs DEF Block
  <2>2. /\ Meanings(table') = Meanings(table)
        /\ Around(table') = <<Meanings(table)>> \o Around(table)
    BY <1>0, <2>1, EnteredIn
  <2>3. Scopes!Enter
    BY <2>2, MeaningNow, MeaningNext DEF Scopes!Enter
  <2> QED
    BY <2>3 DEF Scopes!Next
<1>7. ASSUME Leave PROVE Scopes!Next
  <2>1. /\ table' \in Seq(Scope) /\ Len(table') = Len(table) - 1 /\ Len(table') >= 1
        /\ \A i \in 1..Len(table') : table'[i] = table[i + 1]
    BY <1>7, PoppedIs DEF Leave, isGlobal
  <2>2. Len(table) = Len(table') + 1
    BY <1>0, <2>1
  <2>3. /\ Around(table) # <<>>
        /\ Meanings(table') = Head(Around(table)) /\ Around(table') = Tail(Around(table))
    BY <1>0, <2>1, <2>2, LeftIn
  <2>4. Scopes!Leave
    BY <2>3, MeaningNow, MeaningNext DEF Scopes!Leave
  <2> QED
    BY <2>4 DEF Scopes!Next
<1>8. ASSUME UNCHANGED vars PROVE UNCHANGED Scopes!vars
  <2>1. table' = table
    BY <1>8 DEF vars
  <2> QED
    BY <2>1, MeaningNow, MeaningNext DEF Scopes!vars
<1> QED
  BY <1>1, <1>2, <1>3, <1>4, <1>5, <1>6, <1>7, <1>8 DEF Next

(***************************************************************************)
(* The table does what scopes promise: a scope that is entered hides        *)
(* nothing by itself, a declaration changes one name, and leaving a scope   *)
(* brings back every meaning.                                               *)
(***************************************************************************)
THEOREM ScopesKept == Spec => KeepsScopes
<1>1. Init => Scopes!Init
  BY InitRefines
<1>2. TypeInv /\ [Next]_vars => [Scopes!Next]_Scopes!vars
  BY NextRefines
<1> QED
  BY <1>1, <1>2, TypeInvariant, PTL DEF Spec, KeepsScopes, Scopes!Spec
=============================================================================

---------------------------- MODULE GlobalInit ----------------------------
(***************************************************************************)
(* How an array's initialiser becomes memory: the indices makeInitVal       *)
(* gives its values, the constant fuseConst builds of them, the words       *)
(* GlobalVariable::getInt reads back for the assembly, and the stores that  *)
(* fill a local array.                                                      *)
(*                                                                          *)
(* An initialiser is a sequence of items [val, kids]: a value that is not   *)
(* 0, or, with val = 0, the items between braces.                           *)
(***************************************************************************)
EXTENDS Naturals, Sequences, SequencesExt

Size(dims) == FoldLeft(LAMBDA a, b : a * b, 1, dims)

-----------------------------------------------------------------------------
\* The first index of an item that comes at offset.
At(dims, offset, item) ==
  IF item.val # 0 THEN offset
  ELSE ((offset + Size(Tail(dims)) - 1) \div Size(Tail(dims))) * Size(Tail(dims))

\* The first one behind it.
Behind(dims, offset, item) ==
  At(dims, offset, item) + IF item.val # 0 THEN 1 ELSE Size(Tail(dims))

\* exps: the pairs of an index and the value at it.
RECURSIVE makeInitVal(_, _, _)
makeInitVal(dims, base, items) ==
  LET offset(i) == FoldLeft(LAMBDA o, item : Behind(dims, o, item), 0,
                            SubSeq(items, 1, i - 1))
      start(i) == base + At(dims, offset(i), items[i])
  IN UNION {IF items[i].val # 0 THEN {<<start(i), items[i].val>>}
            ELSE makeInitVal(Tail(dims), start(i), items[i].kids) : i \in 1..Len(items)}

-----------------------------------------------------------------------------
\* Slips: submap as it could have gone wrong, for mutation of the checks.
submapShort(values, from, to) == {v \in values : v[1] > from /\ v[1] <= to}

\* The upper bound is one too high: what it lets in is not looked up.
submap(values, from, to) == {v \in values : v[1] >= from /\ v[1] <= to}

(***************************************************************************)
(* A constant: a number, a zero of any type, or an array of constants.      *)
(***************************************************************************)
Number(v) == [kind |-> "number", val |-> v, elems |-> <<>>]
Zero == [kind |-> "zero", val |-> 0, elems |-> <<>>]
Array(s) == [kind |-> "array", val |-> 0, elems |-> s]

RECURSIVE fuseConst(_, _, _)
fuseConst(dims, values, base) ==
  IF dims = <<>>
  THEN LET here == {v \in values : v[1] = base}
       IN Number(IF here = {} THEN 0 ELSE (CHOOSE v \in here : TRUE)[2])
  ELSE IF values = {} THEN Zero
  ELSE LET step == Size(dims) \div Head(dims)
           from(i) == base + (i - 1) * step
       IN Array([i \in 1..Head(dims) |->
            fuseConst(Tail(dims), submap(values, from(i), from(i) + step), from(i))])

(***************************************************************************)
(* The word at an index, going down the array.  The index left for the next *)
(* level is taken modulo that level's length, where its size is meant: the  *)
(* same only as long as there is one level more.                            *)
(***************************************************************************)
RECURSIVE Descend(_, _, _)
Descend(constant, dims, index) ==
  IF constant.kind = "zero" THEN 0
  ELSE IF dims = <<>> THEN constant.val
  ELSE Descend(constant.elems[index \div Size(dims) + 1], Tail(dims), index % Head(dims))

getInt(constant, dims, index) == Descend(constant, Tail(dims) \o <<1>>, index)

\* The words of a global: .space for one that is zero, else one by one.
Words(dims, items) ==
  LET constant == fuseConst(dims, makeInitVal(dims, 0, items), 0)
  IN IF constant.kind = "zero" THEN [i \in 1..Size(dims) |-> 0]
     ELSE [i \in 1..Size(dims) |-> getInt(constant, dims, i - 1)]

-----------------------------------------------------------------------------
\* The indices of the address that a local array's value is stored at.
Path(dims, index) ==
  [j \in 1..Len(dims) |-> (index \div Size(SubSeq(dims, j + 1, Len(dims)))) % dims[j]]

\* The cell an address of getelementptr instructions means.
Cell(dims, path) ==
  FoldLeft(LAMBDA a, b : a + b, 0,
           [j \in 1..Len(dims) |-> path[j] * Size(SubSeq(dims, j + 1, Len(dims)))])

\* The cells of a local array: memset, then a store for each value.
Stored(dims, items) ==
  LET exps == makeInitVal(dims, 0, items)
      at(i) == {e \in exps : Cell(dims, Path(dims, e[1])) = i - 1}
  IN [i \in 1..Size(dims) |-> IF at(i) = {} THEN 0 ELSE (CHOOSE e \in at(i) : TRUE)[2]]

-----------------------------------------------------------------------------
(***************************************************************************)
(* What an initialiser means: a braced item stands for one element of the   *)
(* array, filled with its values and zeros; a value stands for one cell.    *)
(***************************************************************************)
RECURSIVE Meaning(_, _)
Meaning(dims, items) ==
  LET given == FoldLeft(LAMBDA s, item :
                 s \o IF item.val # 0 THEN <<item.val>> ELSE Meaning(Tail(dims), item.kids),
                 <<>>, items)
  IN [i \in 1..Size(dims) |-> IF i <= Len(given) THEN given[i] ELSE 0]
=============================================================================

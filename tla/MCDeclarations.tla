-------------------------- MODULE MCDeclarations --------------------------
(***************************************************************************)
(* Three names, one of them for constants too: shadowing over three scopes  *)
(* of a function, then a second function.  Every initialiser of arrays of   *)
(* one to three dimensions in which each element is given by one value,     *)
(* left to the zeros, or braced, comes in shorter programs.                 *)
(***************************************************************************)
EXTENDS Declarations, TLC

CONSTANTS x, y, c

Alike == Permutations({x, y})

V(v) == [val |-> v, kids |-> <<>>]
B(s) == [val |-> 0, kids |-> s]

\* The values of a row that start at v: all of its length, or fewer.
Rows(v) == {<<>>, <<V(v)>>, <<V(v), V(v + 1)>>}
Row == {<<>>, <<V(1)>>, <<V(1), V(2)>>, <<V(1), V(2), V(3)>>}

Matrices ==
  UNION {{<<B(r)>>, <<B(r), B(s)>>, <<V(1), V(2), B(s)>>, <<B(r), V(3)>>,
          <<B(r), V(3), V(4)>>} : r \in Rows(1), s \in Rows(3)}
  \cup {<<>>, <<V(1)>>, <<V(1), V(2), V(3)>>, <<V(1), V(2), V(3), V(4)>>}

\* Cubes of one or two matrices.
Cubes == {<<B(m)>> : m \in Matrices} \cup {<<B(m), B(<<V(5), V(6), V(7)>>)>> : m \in Matrices}

Program(dims, items, decls) == [dims |-> dims, items |-> items, decls |-> decls]

MCPrograms ==
  {Program(<<2, 2>>, <<V(1), V(2), B(<<V(3)>>)>>, MaxDecls)}
  \cup {Program(<<3>>, r, 2) : r \in Row}
  \cup {Program(<<2, 2>>, m, 2) : m \in Matrices}
  \cup {Program(<<3, 2>>, m, 2) : m \in Matrices}
  \cup {Program(<<2, 2, 2>>, q, 2) : q \in Cubes}
=============================================================================

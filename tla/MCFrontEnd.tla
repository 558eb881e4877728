---------------------------- MODULE MCFrontEnd ----------------------------
EXTENDS SourceFlow

MCSize == 5    \* nodes of a body
MCLoopSize == 5 \* nodes of a loop's body

N0(k) == [kind |-> k, kids |-> <<>>]
NK(k, ks) == [kind |-> k, kids |-> ks]

\* Operands of `||` and `&&` as the grammar groups them: to the left.
RECURSIVE AndConds(_), OrConds(_)
AndConds(n) ==
  IF n = 1 THEN {N0("leaf")}
  ELSE {NK("and", <<l, N0("leaf")>>) : l \in IF n < 3 THEN {} ELSE AndConds(n - 2)}
OrConds(n) ==
  AndConds(n) \cup
  UNION {{NK("or", <<l, r>>) : l \in OrConds(i), r \in AndConds(n - 1 - i)}
           : i \in 1..(n - 2)}

\* Statements of n nodes, and lists of statements of n nodes in all; `break`
\* and `continue` only inside a loop.
RECURSIVE Stmts(_, _), Lists(_, _)
Stmts(n, inLoop) ==
  (IF n # 1 THEN {} ELSE {N0("simple"), N0("return")} \cup
                         (IF inLoop THEN {N0("break"), N0("continue")} ELSE {}))
  \cup {NK("block", ks) : ks \in Lists(n - 1, inLoop)}
  \cup UNION {{NK("while", <<c, s>>) : c \in OrConds(i), s \in Stmts(n - 1 - i, TRUE)}
                : i \in 1..(n - 2)}
  \cup UNION {{NK("if", <<c, s>>) : c \in OrConds(i), s \in Stmts(n - 1 - i, inLoop)}
                : i \in 1..(n - 2)}
  \cup UNION {{NK("ifelse", <<c, s, t>>) : c \in OrConds(w[1]), s \in Stmts(w[2], inLoop),
                                           t \in Stmts(n - 1 - w[1] - w[2], inLoop)}
                : w \in {w \in (1..n) \X (1..n) : w[1] + w[2] < n - 1}}
Lists(n, inLoop) ==
  IF n = 0 THEN {<<>>}
  ELSE UNION {{<<s>> \o ks : s \in Stmts(i, inLoop), ks \in Lists(n - i, inLoop)}
                : i \in 1..n}

\* Every short body, and every short loop body in a loop with code after it.
MCPrograms ==
  {NK("block", ks) : ks \in UNION {Lists(n, FALSE) : n \in 0..MCSize}}
  \cup {NK("block", <<NK("while", <<N0("leaf"), NK("block", ks)>>), N0("simple")>>)
          : ks \in Lists(MCLoopSize, TRUE)}
=============================================================================

----------------------------- MODULE EagerFolds -----------------------------
(***************************************************************************)
(* FoldLeft and FoldSet of the community modules, for steps that are whole *)
(* computations: each intermediate result is a value, bound by a           *)
(* quantifier, before the next step begins.  TLC evaluates the arguments   *)
(* of an operator when they are first used, so that FoldLeft nests all     *)
(* steps in each other and runs out of stack.                              *)
(***************************************************************************)
EXTENDS Integers, Sequences

\* FoldLeft
Each(op(_, _), base, seq) ==
  LET go[i \in 0 .. Len(seq)] ==
        IF i = 0 THEN base ELSE CHOOSE r \in {op(u, seq[i]) : u \in {go[i - 1]}} : TRUE
  IN go[Len(seq)]

\* FoldSet
EachOf(op(_, _), base, S) ==
  LET go[T \in SUBSET S] ==
        IF T = {} THEN base
        ELSE LET x == CHOOSE x \in T : TRUE
             IN CHOOSE r \in {op(x, u) : u \in {go[T \ {x}]}} : TRUE
  IN go[S]
=============================================================================

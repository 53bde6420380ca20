------------------------------- MODULE Lambda -------------------------------
(***************************************************************************)
(* Lambda.hs of PP-lamba-interpreter: lambda terms over named variables,   *)
(* substitution that renames a binder that would capture, and one step of  *)
(* reduction in normal order.  Variables are numbers, in the order in      *)
(* which genAllStr lists the names; a term is <<constructor, ...>>.  The   *)
(* macros that simplifyCtx expands beforehand are left out.                *)
(***************************************************************************)
EXTENDS Integers, Sequences, FiniteSets

Var(x) == <<"Var", x>>
App(e1, e2) == <<"App", e1, e2>>
Abs(x, e) == <<"Abs", x, e>>

Is(e, constructor) == e[1] = constructor

RECURSIVE vars(_), freeVars(_), isNormalForm(_), reduce(_, _, _), normalStep(_)
RECURSIVE reduce_Captures(_, _, _)

vars(e) ==
    CASE Is(e, "Var") -> {e[2]}
      [] Is(e, "App") -> vars(e[2]) \cup vars(e[3])
      [] Is(e, "Abs") -> {e[2]} \cup vars(e[3])

freeVars(e) ==
    CASE Is(e, "Var") -> {e[2]}
      [] Is(e, "App") -> freeVars(e[2]) \cup freeVars(e[3])
      [] Is(e, "Abs") -> freeVars(e[3]) \ {e[2]}

\* The first name that is not among those given.
newVar(names) ==
    LET unused == (1..Cardinality(names) + 1) \ names
    IN  CHOOSE z \in unused : \A w \in unused : z <= w

Redex(e) == Is(e, "App") /\ Is(e[2], "Abs")

isNormalForm(e) ==
    CASE Is(e, "Var") -> TRUE
      [] Is(e, "Abs") -> isNormalForm(e[3])
      [] Is(e, "App") -> ~Redex(e) /\ isNormalForm(e[2]) /\ isNormalForm(e[3])

reduce_Captures(x, e, e2) ==
    CASE Is(e, "Var") -> IF e[2] = x THEN e2 ELSE e
      [] Is(e, "App") -> App(reduce_Captures(x, e[2], e2), reduce_Captures(x, e[3], e2))
      [] Is(e, "Abs") -> IF e[2] = x THEN e ELSE Abs(e[2], reduce_Captures(x, e[3], e2))

\* e with e2 for the free x.  A binder that is free in e2 is renamed first, to a
\* name that neither body has (x itself may be that name).
reduce(x, e, e2) ==
    CASE Is(e, "Var") -> IF e[2] = x THEN e2 ELSE e
      [] Is(e, "App") -> App(reduce(x, e[2], e2), reduce(x, e[3], e2))
      [] Is(e, "Abs") ->
            LET y == e[2]
                z == newVar(vars(e[3]) \cup vars(e2))
            IN  CASE x = y -> e
                  [] x # y /\ y \notin freeVars(e2) -> Abs(y, reduce(x, e[3], e2))
                  [] x # y /\ y \in freeVars(e2) -> reduce(x, Abs(z, reduce(y, e[3], Var(z))), e2)

\* The left part of an application of an application is taken even where nothing
\* is left to reduce in it.
normalStep(e) ==
    CASE Is(e, "Var") -> e
      [] Is(e, "Abs") -> Abs(e[2], normalStep(e[3]))
      [] Redex(e) -> reduce(e[2][2], e[2][3], e[3])
      [] Is(e, "App") /\ Is(e[2], "App") -> App(normalStep(e[2]), e[3])
      [] OTHER -> App(e[2], normalStep(e[3]))
=============================================================================

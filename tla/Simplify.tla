------------------------------ MODULE Simplify ------------------------------
(***************************************************************************)
(* simplify, one term after the other: the interpreter's evaluation of a   *)
(* line, checked against terms without names (a bound variable is the      *)
(* number of binders between it and its own), where nothing can be         *)
(* captured.                                                               *)
(***************************************************************************)
EXTENDS Lambda

CONSTANTS
    Names,           \* the variables of the terms tried
    MaxSize          \* bound: a term that has grown past it is left alone

VARIABLE term        \* the last term of the list that simplify is making

-----------------------------------------------------------------------------
\* The reference: terms without names.
Bound(i) == <<"Bound", i>>
Lam(e) == <<"Lam", e>>

RECURSIVE Nameless(_, _), Shifted(_, _, _), Filled(_, _, _), Leftmost(_), Reducible(_), Size(_)

Nameless(e, binders) ==
    CASE Is(e, "Var") ->
            LET places == {i \in DOMAIN binders : binders[i] = e[2]}
            IN  IF places = {} THEN e ELSE Bound(CHOOSE i \in places : \A j \in places : i <= j)
      [] Is(e, "App") -> App(Nameless(e[2], binders), Nameless(e[3], binders))
      [] Is(e, "Abs") -> Lam(Nameless(e[3], <<e[2]>> \o binders))

\* The bound variables of t that point past depth binders, moved by d.
Shifted(t, depth, d) ==
    CASE Is(t, "Var") -> t
      [] Is(t, "Bound") -> IF t[2] > depth THEN Bound(t[2] + d) ELSE t
      [] Is(t, "App") -> App(Shifted(t[2], depth, d), Shifted(t[3], depth, d))
      [] Is(t, "Lam") -> Lam(Shifted(t[2], depth + 1, d))

\* The body t of an abstraction, with s in the place of its variable.
Filled(t, depth, s) ==
    CASE Is(t, "Var") -> t
      [] Is(t, "Bound") -> IF t[2] = depth THEN Shifted(s, 0, depth - 1)
                           ELSE IF t[2] > depth THEN Bound(t[2] - 1) ELSE t
      [] Is(t, "App") -> App(Filled(t[2], depth, s), Filled(t[3], depth, s))
      [] Is(t, "Lam") -> Lam(Filled(t[2], depth + 1, s))

Reducible(t) ==
    CASE t[1] \in {"Var", "Bound"} -> FALSE
      [] Is(t, "Lam") -> Reducible(t[2])
      [] Is(t, "App") -> Is(t[2], "Lam") \/ Reducible(t[2]) \/ Reducible(t[3])

\* Normal order: the leftmost of the outermost reducible applications.
Leftmost(t) ==
    CASE t[1] \in {"Var", "Bound"} -> t
      [] Is(t, "Lam") -> Lam(Leftmost(t[2]))
      [] Is(t, "App") ->
            IF Is(t[2], "Lam") THEN Filled(t[2][2], 1, t[3])
            ELSE IF Reducible(t[2]) THEN App(Leftmost(t[2]), t[3])
            ELSE App(t[2], Leftmost(t[3]))

Size(e) ==
    CASE Is(e, "Var") -> 1
      [] Is(e, "App") -> Size(e[2]) + Size(e[3])
      [] Is(e, "Abs") -> 1 + Size(e[3])

-----------------------------------------------------------------------------
\* The lines tried: every small application of an abstraction.
Larger(terms) ==
    {App(e1, e2) : e1 \in terms, e2 \in terms} \cup {Abs(a, e) : a \in Names, e \in terms}
Small == {Var(a) : a \in Names}
Medium == Small \cup Larger(Small)
Big == Medium \cup Larger(Medium)
Applications == {App(Abs(a, e), e2) : a \in Names,
                                      e \in Big \cup {Abs(b, e1) : b \in Names, e1 \in Big},
                                      e2 \in Medium}

Init == term \in Applications

\* simplify goes on until the term is in normal form.
Next == ~isNormalForm(term) /\ Size(term) <= MaxSize /\ term' = normalStep(term)

Spec == Init /\ [][Next]_term

-----------------------------------------------------------------------------
\* simplify stops exactly where nothing is left to reduce, and a step of it is the
\* normal-order step of the term without names, if it changes the term at all: no
\* substitution captures a variable, and no redex is passed over for a later one.
NormalOrderStep ==
    /\ Nameless(term', <<>>) \in {Nameless(term, <<>>), Leftmost(Nameless(term, <<>>))}
    /\ isNormalForm(term') <=> ~Reducible(Nameless(term', <<>>))
=============================================================================

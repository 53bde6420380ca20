------------------------------- MODULE Topics -------------------------------
(***************************************************************************)
(* check_topics of server.cpp: does a message of some topic go to the      *)
(* subscribers of a pattern?  Topics and patterns are sequences of levels, *)
(* what split(_, '/') makes of the strings; in a pattern "+" stands for    *)
(* one level and "*" for several.                                          *)
(***************************************************************************)
EXTENDS Integers, Sequences, SequencesExt

\* A bug: a topic that has ended matches a pattern that has not.
BothEnd_TopicEnds(t1, t2, i, j) == i > Len(t1)

BothEnd(t1, t2, i, j) == i > Len(t1) /\ j > Len(t2)

\* The first level that equals x, from level i on, or 0.
FirstEqual(t1, i, x) == SelectInSubSeq(t1, i, Len(t1), LAMBDA level : level = x)

\* starts[j] is the set of the levels of the topic t1 from which the loop, when it
\* is at level j of the pattern t2, comes to true.  A "*" that is not last takes the
\* levels up to the first that equals the pattern's next.
check_topics(t1, t2) ==
    LET starts[j \in 1 .. Len(t2)] ==
            LET GoesOn(i) == \/ BothEnd(t1, t2, i, j + 1)
                             \/ i <= Len(t1) /\ j < Len(t2) /\ i \in starts[j + 1]
                found(i) == FirstEqual(t1, i, t2[j + 1])
            IN  {i \in 1 .. Len(t1) :
                    CASE t2[j] = "*" /\ j = Len(t2) -> TRUE
                      [] t2[j] = "*" /\ j < Len(t2) ->
                             GoesOn(IF found(i) = 0 THEN Len(t1) + 1 ELSE found(i))
                      [] OTHER -> t2[j] \in {"+", t1[i]} /\ GoesOn(i + 1)}
    IN  t1 = <<>> \/ t2 = <<>> \/ 1 \in starts[1]

\* What the wildcards stand for: "+" for any one level, a last "*" for one or
\* more, another "*" for any number.  ends[j] is the set of the places of the topic
\* from which the levels of the pattern from j on match what is left.
Matches(t, p) ==
    LET ends[j \in 1 .. Len(p) + 1] ==
            {i \in 1 .. Len(t) + 1 :
                CASE j > Len(p) -> i > Len(t)
                  [] j <= Len(p) /\ p[j] = "*" ->
                         IF j = Len(p) THEN i <= Len(t) ELSE \E i2 \in i .. Len(t) + 1 : i2 \in ends[j + 1]
                  [] OTHER -> i <= Len(t) /\ p[j] \in {"+", t[i]} /\ i + 1 \in ends[j + 1]}
    IN  1 \in ends[1]
=============================================================================

-------------------------- MODULE MiniShell_proofs --------------------------
(***************************************************************************)
(* Whatever the command lines - operators nested to any depth - and        *)
(* however the processes are scheduled: every child is waited for exactly  *)
(* once, the shell gets its terminal back, and a line returns what its     *)
(* operators make of the results of its parts.                             *)
(*                                                                         *)
(* What a process has still to do is a stack, so its frames are counted    *)
(* from the bottom here: a step replaces the top frame, and the frames     *)
(* below keep their depth.  For each process that is there, some sequence  *)
(* of numbers is what it is going to have for a result at each depth; the  *)
(* last, of a child, is the status that its parent will take.              *)
(***************************************************************************)
EXTENDS MiniShell, FiniteSetTheorems, SequenceTheorems, WellFoundedInduction, TLAPS

Frames ==
    ({"parse", "&&", "||"} \X Commands) \cup ({"wait", "join", "restore"} \X Pids) \cup {<<"zero">>}

Ends == Pids \cup {Terminal, File}

Processes ==
    [state : {"none", "runs", "zombie"}, frames : Seq(Frames), result : Int, stdin : Ends,
     saved : Seq(Ends), stdout : Ends, reads : BOOLEAN, writes : Int]

ShellTypeOK ==
    /\ proc \in [Pids -> Processes]
    /\ pipe \in [Pids -> Int]
    /\ line \in Commands \cup {Prompt, Ended}

\* The frame of s at depth d, the bottom one being at depth 1.
Frame(s, d) == s[Len(s) + 1 - d]

\* The children that a stack waits for, and at which depth.
Awaits(s) ==
    {w \in Nat \X Pids : /\ w[1] \in 1 .. Len(s)
                         /\ Frame(s, w[1])[1] \in {"wait", "join", "restore"}
                         /\ Frame(s, w[1])[2] = w[2]}
Restores(s) == {d \in 1 .. Len(s) : Frame(s, d)[1] = "restore"}

\* Only who runs has something to do.
OnlyRunning == \A p \in Pids : proc[p].state # "runs" => proc[p].frames = <<>>

\* A process is there if and only if another waits for it, and one waits once.
WaitedIsThere ==
    \A p \in Pids : \A w \in Awaits(proc[p].frames) :
        w[2] # Shell /\ proc[w[2]].state # "none"
ThereIsWaited ==
    \A q \in Pids \ {Shell} : proc[q].state # "none" =>
        \E p \in Pids : \E w \in Awaits(proc[p].frames) : w[2] = q
WaitedOnce ==
    \A p, r \in Pids : \A v \in Awaits(proc[p].frames), w \in Awaits(proc[r].frames) :
        v[2] = w[2] => p = r /\ v = w
EachAwaited == WaitedIsThere /\ ThereIsWaited /\ WaitedOnce

\* Every standard input that the shell has saved will be restored, the terminal last.
SavesTerminal(shell) ==
    /\ shell.state = "runs"
    /\ Cardinality(Restores(shell.frames)) = Len(shell.saved)
    /\ IF shell.saved = <<>> THEN shell.stdin = Terminal ELSE shell.saved[1] = Terminal
TerminalIsSaved == SavesTerminal(proc[Shell])

\* Who restores has saved: also a child, which starts with what its parent had saved.
HasSaved(x) == Cardinality(Restores(x.frames)) <= Len(x.saved)
EnoughSaved == \A p \in Pids : HasSaved(proc[p])

BetweenLines == line \in {Prompt, Ended} => proc[Shell].frames = <<>>

IInv == ShellTypeOK /\ OnlyRunning /\ EachAwaited /\ TerminalIsSaved /\ EnoughSaved /\ BetweenLines

-----------------------------------------------------------------------------
(* Stacks *)

Waits == {"wait", "join", "restore"}

\* t is s with the frames fs in the place of the top one.
Replaces(t, s, fs) ==
    /\ t \in Seq(Frames)
    /\ Len(t) = Len(fs) + Len(s) - 1
    /\ \A d \in 1 .. Len(s) - 1 : Frame(t, d) = Frame(s, d)
    /\ \A i \in 1 .. Len(fs) : Frame(t, Len(t) + 1 - i) = fs[i]

\* Frames that wait for nobody, and frames of which only the last waits.
Waitless(fs) == fs \in Seq(Frames) /\ \A i \in 1 .. Len(fs) : fs[i][1] \notin Waits
WaitsLast(fs, kind, q) ==
    /\ fs \in Seq(Frames) /\ fs # <<>> /\ fs[Len(fs)] = <<kind, q>>
    /\ \A i \in 1 .. Len(fs) - 1 : fs[i][1] \notin Waits

LEMMA TopFrame ==
    ASSUME NEW s \in Seq(Frames), s # <<>>
    PROVE  /\ Len(s) \in Nat \ {0} /\ Head(s) \in Frames /\ Frame(s, Len(s)) = Head(s)
           /\ Tail(s) \in Seq(Frames) /\ Len(Tail(s)) = Len(s) - 1
           /\ \A i \in 1 .. Len(s) - 1 : Tail(s)[i] = s[i + 1]
  <1>1. Len(s) \in Nat \ {0}
    BY EmptySeq, LenProperties
  <1> QED
    BY <1>1, HeadTailProperties DEF Frame

\* A frame that waits waits for a process.
LEMMA WaitFrame ==
    ASSUME NEW f \in Frames, f[1] \in Waits
    PROVE  f[2] \in Pids
  <1> USE DEF Frames, Waits
  <1>1. CASE f \in {"parse", "&&", "||"} \X Commands
    BY <1>1
  <1>2. CASE f \in {"wait", "join", "restore"} \X Pids
    BY <1>2
  <1>3. CASE f = <<"zero">>
    BY <1>3
  <1> QED
    BY <1>1, <1>2, <1>3

LEMMA Replacing ==
    ASSUME NEW s \in Seq(Frames), s # <<>>, NEW fs \in Seq(Frames)
    PROVE  Replaces(fs \o Tail(s), s, fs)
  <1> DEFINE t == fs \o Tail(s)
  <1>1. /\ Len(s) \in Nat \ {0} /\ Tail(s) \in Seq(Frames) /\ Len(Tail(s)) = Len(s) - 1
        /\ \A i \in 1 .. Len(s) - 1 : Tail(s)[i] = s[i + 1]
    BY TopFrame
  <1>2. /\ t \in Seq(Frames) /\ Len(fs) \in Nat /\ Len(t) = Len(fs) + Len(s) - 1
        /\ \A i \in 1 .. Len(fs) + Len(Tail(s)) :
               t[i] = IF i <= Len(fs) THEN fs[i] ELSE Tail(s)[i - Len(fs)]
    BY <1>1, ConcatProperties
  <1> HIDE DEF t
  <1>3. ASSUME NEW d \in 1 .. Len(s) - 1
        PROVE  Frame(t, d) = Frame(s, d)
    <2>1. t[Len(t) + 1 - d] = Tail(s)[Len(s) - d]
      BY <1>1, <1>2
    <2> QED
      BY <2>1, <1>1 DEF Frame
  <1>4. ASSUME NEW i \in 1 .. Len(fs)
        PROVE  Frame(t, Len(t) + 1 - i) = fs[i]
    <2>1. Len(t) + 1 - (Len(t) + 1 - i) = i
      BY <1>1, <1>2
    <2> QED
      BY <2>1, <1>1, <1>2 DEF Frame
  <1> QED
    BY <1>2, <1>3, <1>4 DEF Replaces, t

\* One step may replace the top frame by others that wait for nobody,
LEMMA WaitsForNobody ==
    ASSUME NEW s \in Seq(Frames), s # <<>>, Head(s)[1] \notin Waits, NEW fs, Waitless(fs)
    PROVE  /\ Awaits(fs \o Tail(s)) = Awaits(s)
           /\ Restores(fs \o Tail(s)) = Restores(s)
  <1> DEFINE t == fs \o Tail(s)
  <1> USE DEF Waitless
  <1>1. Replaces(t, s, fs)
    BY Replacing
  <1>2. Len(s) \in Nat \ {0} /\ Frame(s, Len(s)) = Head(s) /\ Len(fs) \in Nat
    BY TopFrame, LenProperties
  <1> HIDE DEF t
  <1>3. ASSUME NEW d \in 1 .. Len(s), Frame(s, d)[1] \in Waits
        PROVE  d \in 1 .. Len(t) /\ Frame(t, d) = Frame(s, d)
    <2>1. d # Len(s)
      BY <1>2, <1>3
    <2> QED
      BY <2>1, <1>1, <1>2 DEF Replaces
  <1>4. ASSUME NEW d \in 1 .. Len(t), Frame(t, d)[1] \in Waits
        PROVE  d \in 1 .. Len(s) /\ Frame(t, d) = Frame(s, d)
    <2>1. CASE d <= Len(s) - 1
      BY <2>1, <1>1, <1>2 DEF Replaces
    <2>2. CASE d > Len(s) - 1
      <3>1. /\ Len(t) + 1 - d \in 1 .. Len(fs)
            /\ Len(t) + 1 - (Len(t) + 1 - d) = d
        BY <2>2, <1>1, <1>2 DEF Replaces
      <3>2. Frame(t, d) = fs[Len(t) + 1 - d]
        BY <3>1, <1>1 DEF Replaces
      <3> QED
        BY <3>1, <3>2, <1>4
    <2> QED
      BY <2>1, <2>2, <1>1, <1>2 DEF Replaces
  <1>5. Awaits(t) = Awaits(s)
    BY <1>3, <1>4 DEF Awaits, Waits
  <1>6. Restores(t) = Restores(s)
    BY <1>3, <1>4 DEF Restores, Waits
  <1> QED
    BY <1>5, <1>6 DEF t

\* or by frames of which the last waits for a child,
LEMMA WaitsForOneMore ==
    ASSUME NEW s \in Seq(Frames), s # <<>>, Head(s)[1] \notin Waits,
           NEW q \in Pids, NEW kind \in Waits, NEW fs, WaitsLast(fs, kind, q)
    PROVE  /\ Awaits(fs \o Tail(s)) = Awaits(s) \cup {<<Len(s), q>>}
           /\ Restores(fs \o Tail(s)) =
                  IF kind = "restore" THEN Restores(s) \cup {Len(s)} ELSE Restores(s)
           /\ Len(s) \notin Restores(s)
  <1> DEFINE t == fs \o Tail(s)
  <1> USE DEF WaitsLast
  <1>1. Replaces(t, s, fs)
    BY Replacing
  <1>2. /\ Len(s) \in Nat \ {0} /\ Frame(s, Len(s)) = Head(s) /\ Len(fs) \in Nat \ {0}
    BY TopFrame, LenProperties, EmptySeq
  <1> HIDE DEF t
  <1>3. ASSUME NEW d \in 1 .. Len(s), Frame(s, d)[1] \in Waits
        PROVE  d \in 1 .. Len(t) /\ Frame(t, d) = Frame(s, d)
    <2>1. d # Len(s)
      BY <1>2, <1>3
    <2> QED
      BY <2>1, <1>1, <1>2 DEF Replaces
  <1>4. Len(s) \in 1 .. Len(t) /\ Frame(t, Len(s)) = fs[Len(fs)]
    <2>1. Len(t) + 1 - Len(fs) = Len(s) /\ Len(s) \in 1 .. Len(t) /\ Len(fs) \in 1 .. Len(fs)
      BY <1>1, <1>2 DEF Replaces
    <2>2. Frame(t, Len(t) + 1 - Len(fs)) = fs[Len(fs)]
      BY <2>1, <1>1 DEF Replaces
    <2> QED
      BY <2>1, <2>2
  <1>5. ASSUME NEW d \in 1 .. Len(t), Frame(t, d)[1] \in Waits, d # Len(s)
        PROVE  d \in 1 .. Len(s) /\ Frame(t, d) = Frame(s, d)
    <2>1. CASE d <= Len(s) - 1
      BY <2>1, <1>1, <1>2 DEF Replaces
    <2>2. CASE d > Len(s) - 1
      <3>1. /\ Len(t) + 1 - d \in 1 .. Len(fs) - 1
            /\ Len(t) + 1 - (Len(t) + 1 - d) = d
        BY <2>2, <1>1, <1>2, <1>5 DEF Replaces
      <3>2. Len(t) + 1 - d \in 1 .. Len(fs)
        BY <3>1, <1>2
      <3>3. Frame(t, d) = fs[Len(t) + 1 - d]
        BY <3>1, <3>2, <1>1 DEF Replaces
      <3> QED
        BY <3>1, <3>3, <1>5
    <2> QED
      BY <2>1, <2>2, <1>1, <1>2 DEF Replaces
  <1>6. Awaits(t) = Awaits(s) \cup {<<Len(s), q>>}
    BY <1>2, <1>3, <1>4, <1>5 DEF Awaits, Waits
  <1>7. Restores(t) =
            IF kind = "restore" THEN Restores(s) \cup {Len(s)} ELSE Restores(s)
    BY <1>2, <1>3, <1>4, <1>5 DEF Restores, Waits
  <1>8. Len(s) \notin Restores(s)
    BY <1>2 DEF Restores, Waits
  <1> QED
    BY <1>6, <1>7, <1>8 DEF t

\* or take away the top frame, which waited.
LEMMA WaitsNoLonger ==
    ASSUME NEW s \in Seq(Frames), s # <<>>, Head(s)[1] \in Waits
    PROVE  /\ Awaits(<<>> \o Tail(s)) = Awaits(s) \ {<<Len(s), Head(s)[2]>>}
           /\ <<Len(s), Head(s)[2]>> \in Awaits(s)
           /\ Restores(<<>> \o Tail(s)) = Restores(s) \ {Len(s)}
           /\ Head(s)[1] = "restore" <=> Len(s) \in Restores(s)
  <1> DEFINE t == <<>> \o Tail(s)
  <1>1. Replaces(t, s, <<>>)
    <2>1. <<>> \in Seq(Frames)
      OBVIOUS
    <2> QED
      BY <2>1, Replacing
  <1>2. /\ Len(s) \in Nat \ {0} /\ Frame(s, Len(s)) = Head(s) /\ Head(s)[2] \in Pids
    BY TopFrame, WaitFrame
  <1> HIDE DEF t
  <1>3. /\ Len(t) = Len(s) - 1
        /\ \A d \in 1 .. Len(s) - 1 : Frame(t, d) = Frame(s, d)
    BY <1>1, <1>2 DEF Replaces
  <1>4. Awaits(t) = Awaits(s) \ {<<Len(s), Head(s)[2]>>}
    BY <1>2, <1>3 DEF Awaits, Waits
  <1>5. <<Len(s), Head(s)[2]>> \in Awaits(s)
    BY <1>2 DEF Awaits, Waits
  <1>6. Restores(t) = Restores(s) \ {Len(s)}
    BY <1>2, <1>3 DEF Restores
  <1>7. Head(s)[1] = "restore" <=> Len(s) \in Restores(s)
    BY <1>2 DEF Restores
  <1> QED
    BY <1>4, <1>5, <1>6, <1>7 DEF t

LEMMA RestoresFinite ==
    ASSUME NEW s \in Seq(Frames)
    PROVE  IsFiniteSet(Restores(s))
  <1>1. Restores(s) \subseteq 1 .. Len(s)
    BY DEF Restores
  <1>2. 1 \in Int /\ Len(s) \in Int
    BY LenProperties
  <1>3. IsFiniteSet(1 .. Len(s))
    BY <1>2, FS_Interval
  <1> QED
    BY <1>1, <1>3, FS_Subset

LEMMA WaitsForNobodyAtAll ==
    /\ Awaits(<<>>) = {} /\ Restores(<<>>) = {}
    /\ \A c \in Commands : /\ <<Parse(c)>> \in Seq(Frames)
                           /\ Awaits(<<Parse(c)>>) = {} /\ Restores(<<Parse(c)>>) = {}
  <1>1. Awaits(<<>>) = {} /\ Restores(<<>>) = {}
    BY DEF Awaits, Restores
  <1>2. ASSUME NEW c \in Commands
        PROVE  /\ <<Parse(c)>> \in Seq(Frames)
               /\ Awaits(<<Parse(c)>>) = {} /\ Restores(<<Parse(c)>>) = {}
    <2>1. Parse(c) \in Frames /\ Parse(c)[1] = "parse"
      BY DEF Parse, Frames
    <2>2. \A d \in 1 .. Len(<<Parse(c)>>) : Frame(<<Parse(c)>>, d)[1] = "parse"
      BY <2>1 DEF Frame
    <2> QED
      BY <2>1, <2>2 DEF Awaits, Restores
  <1> QED
    BY <1>1, <1>2

-----------------------------------------------------------------------------
(* Steps *)

\* A process that is about to do something has it on top of its stack.
LEMMA TopOf ==
    ASSUME ShellTypeOK, NEW p \in Pids, NEW kind, At(p, kind)
    PROVE  /\ proc[p] \in Processes /\ proc[p].state = "runs"
           /\ proc[p].frames \in Seq(Frames) /\ proc[p].frames # <<>>
           /\ Top(p) \in Frames /\ Top(p) = Head(proc[p].frames) /\ Top(p)[1] = kind
           /\ Rest(p) \in Seq(Frames) /\ Rest(p) = Tail(proc[p].frames)
           /\ Rest(p) = <<>> \o Rest(p)
  <1>1. proc[p] \in Processes /\ proc[p].frames \in Seq(Frames)
    BY DEF ShellTypeOK, Processes
  <1>2. proc[p].state = "runs" /\ proc[p].frames # <<>> /\ Top(p)[1] = kind
    BY DEF At, Runs
  <1>3. Rest(p) \in Seq(Frames) /\ Top(p) \in Frames
    BY <1>1, <1>2, TopFrame DEF Rest, Top
  <1>4. Rest(p) = <<>> \o Rest(p)
    BY <1>3
  <1> QED
    BY <1>1, <1>2, <1>3, <1>4 DEF Rest, Top

LEMMA ParsedCommand ==
    ASSUME ShellTypeOK, NEW p \in Pids, At(p, "parse") \/ At(p, "&&") \/ At(p, "||")
    PROVE  Top(p)[2] \in Commands
  <1>1. Top(p) \in Frames /\ Top(p)[1] \in {"parse", "&&", "||"}
    BY TopOf
  <1>2. Top(p) \in {"parse", "&&", "||"} \X Commands
    BY <1>1 DEF Frames
  <1> QED
    BY <1>2

LEMMA Continued ==
    ASSUME ShellTypeOK, NEW p \in Pids, NEW kind, At(p, kind),
           NEW fs \in Seq(Frames), NEW r \in Int
    PROVE  /\ Continue(p, fs, r) \in Processes
           /\ Continue(p, fs, r).frames = fs \o Tail(proc[p].frames)
           /\ Continue(p, fs, r).state = proc[p].state
           /\ Continue(p, fs, r).stdin = proc[p].stdin
           /\ Continue(p, fs, r).saved = proc[p].saved
  <1>1. /\ proc[p] \in Processes /\ Rest(p) \in Seq(Frames)
        /\ Rest(p) = Tail(proc[p].frames)
    BY TopOf
  <1>2. fs \o Rest(p) \in Seq(Frames)
    BY <1>1, ConcatProperties
  <1> QED
    BY <1>1, <1>2 DEF Continue, Processes

LEMMA FramesOf ==
    /\ Waitless(<<>>)
    /\ \A c \in Commands : Waitless(<<Parse(c)>>)
    /\ \A c, d \in Commands, op \in {"&&", "||"} : Waitless(<<Parse(c), <<op, d>> >>)
    /\ \A c, d \in Commands : Waitless(<<Parse(c), Parse(d), <<"zero">> >>)
    /\ \A q \in Pids, kind \in Waits : WaitsLast(<< <<kind, q>> >>, kind, q)
    /\ \A c \in Commands, q \in Pids, kind \in Waits :
           WaitsLast(<<Parse(c), <<kind, q>> >>, kind, q)
  <1>1. \A c \in Commands : Parse(c) \in Frames /\ Parse(c)[1] \notin Waits
    BY DEF Parse, Frames, Waits
  <1>2. \A c \in Commands, op \in {"&&", "||"} : <<op, c>> \in Frames /\ <<op, c>>[1] \notin Waits
    BY DEF Frames, Waits
  <1>3. <<"zero">> \in Frames /\ <<"zero">>[1] \notin Waits
    BY DEF Frames, Waits
  <1>4. \A q \in Pids, kind \in Waits : <<kind, q>> \in Frames
    BY DEF Frames, Waits
  <1>5. Waitless(<<>>)
    BY DEF Waitless
  <1>6. ASSUME NEW c \in Commands PROVE Waitless(<<Parse(c)>>)
    <2>1. Parse(c) \in Frames /\ Parse(c)[1] \notin Waits
      BY <1>1
    <2> DEFINE f == Parse(c)
    <2> HIDE DEF f
    <2>2. Waitless(<<f>>)
      BY <2>1 DEF Waitless, f
    <2> QED
      BY <2>2 DEF f
  <1>7. ASSUME NEW c \in Commands, NEW d \in Commands, NEW op \in {"&&", "||"}
        PROVE  Waitless(<<Parse(c), <<op, d>> >>)
    <2> DEFINE f == Parse(c)
               g == <<op, d>>
    <2>1. f \in Frames /\ f[1] \notin Waits /\ g \in Frames /\ g[1] \notin Waits
      BY <1>1, <1>2
    <2> HIDE DEF f, g
    <2>2. Waitless(<<f, g>>)
      BY <2>1 DEF Waitless
    <2> QED
      BY <2>2 DEF f, g
  <1>8. ASSUME NEW c \in Commands, NEW d \in Commands
        PROVE  Waitless(<<Parse(c), Parse(d), <<"zero">> >>)
    <2> DEFINE f == Parse(c)
               g == Parse(d)
               h == <<"zero">>
    <2>1. /\ f \in Frames /\ f[1] \notin Waits /\ g \in Frames /\ g[1] \notin Waits
          /\ h \in Frames /\ h[1] \notin Waits
      BY <1>1, <1>3
    <2> HIDE DEF f, g, h
    <2>2. Waitless(<<f, g, h>>)
      BY <2>1 DEF Waitless
    <2> QED
      BY <2>2 DEF f, g, h
  <1>9. ASSUME NEW q \in Pids, NEW kind \in Waits
        PROVE  WaitsLast(<< <<kind, q>> >>, kind, q)
    <2> DEFINE f == <<kind, q>>
    <2>1. f \in Frames
      BY <1>4
    <2> HIDE DEF f
    <2>2. <<f>> \in Seq(Frames) /\ <<f>> # <<>> /\ Len(<<f>>) = 1 /\ <<f>>[1] = f
      BY <2>1
    <2> QED
      BY <2>2 DEF WaitsLast, f
  <1>10. ASSUME NEW c \in Commands, NEW q \in Pids, NEW kind \in Waits
         PROVE  WaitsLast(<<Parse(c), <<kind, q>> >>, kind, q)
    <2> DEFINE f == Parse(c)
               g == <<kind, q>>
    <2>1. f \in Frames /\ f[1] \notin Waits /\ g \in Frames
      BY <1>1, <1>4
    <2> HIDE DEF f, g
    <2>2. /\ <<f, g>> \in Seq(Frames) /\ <<f, g>> # <<>> /\ Len(<<f, g>>) = 2
          /\ <<f, g>>[2] = g /\ <<f, g>>[1] = f
      BY <2>1
    <2>3. \A i \in 1 .. 2 - 1 : i = 1
      OBVIOUS
    <2> QED
      BY <2>1, <2>2, <2>3 DEF WaitsLast, f, g
  <1> QED
    BY <1>5, <1>6, <1>7, <1>8, <1>9, <1>10

\* A step of one process that forks and reaps nobody keeps all that is said of waits.
LEMMA GoesOnAlone ==
    ASSUME IInv, NEW p \in Pids, NEW kind, At(p, kind), kind \notin Waits,
           NEW fs, Waitless(fs), NEW r \in Int,
           proc' = [proc EXCEPT ![p] = Continue(p, fs, r)],
           UNCHANGED <<pipe, line>>
    PROVE  IInv'
  <1> USE DEF IInv
  <1> DEFINE new == Continue(p, fs, r)
  <1>1. /\ proc[p] \in Processes /\ proc[p].state = "runs"
        /\ proc[p].frames \in Seq(Frames) /\ proc[p].frames # <<>>
        /\ Head(proc[p].frames)[1] = kind
    BY TopOf
  <1>2. /\ new \in Processes /\ new.frames = fs \o Tail(proc[p].frames)
        /\ new.state = proc[p].state /\ new.stdin = proc[p].stdin /\ new.saved = proc[p].saved
    BY Continued DEF Waitless
  <1>3. /\ Awaits(new.frames) = Awaits(proc[p].frames)
        /\ Restores(new.frames) = Restores(proc[p].frames)
    BY <1>1, <1>2, WaitsForNobody
  <1> HIDE DEF new
  <1>4. /\ proc \in [Pids -> Processes] /\ proc' = [proc EXCEPT ![p] = new]
    BY DEF new, ShellTypeOK
  <1>5. \A q \in Pids : /\ Awaits(proc'[q].frames) = Awaits(proc[q].frames)
                        /\ proc'[q].state = proc[q].state
    BY <1>2, <1>3, <1>4
  <1>6. ShellTypeOK'
    BY <1>2, <1>4 DEF ShellTypeOK
  <1>7. OnlyRunning'
    BY <1>1, <1>4, <1>5 DEF OnlyRunning
  <1>8. EachAwaited'
    BY <1>5 DEF EachAwaited, WaitedIsThere, ThereIsWaited, WaitedOnce
  <1>9. Shell \in Pids
    BY MiniShellAssumption DEF Shell, Pids
  <1>10. TerminalIsSaved'
    <2>1. /\ proc'[Shell].state = proc[Shell].state
          /\ Restores(proc'[Shell].frames) = Restores(proc[Shell].frames)
          /\ proc'[Shell].stdin = proc[Shell].stdin /\ proc'[Shell].saved = proc[Shell].saved
      BY <1>2, <1>3, <1>4, <1>9
    <2> QED
      BY <2>1 DEF TerminalIsSaved, SavesTerminal
  <1>11. EnoughSaved'
    <2>1. HasSaved(proc[p]) => HasSaved(new)
      BY <1>2, <1>3 DEF HasSaved
    <2> QED
      BY <2>1, <1>4 DEF EnoughSaved
  <1>12. BetweenLines'
    BY <1>1, <1>4, <1>9 DEF BetweenLines
  <1> QED
    BY <1>6, <1>7, <1>8, <1>10, <1>11, <1>12

\* A fork: the child waits for nobody yet, the parent for one more.
LEMMA Forks ==
    ASSUME IInv, NEW p \in Pids, NEW kind, At(p, kind), kind \notin Waits,
           NEW q \in Pids, proc[q].state = "none",
           NEW child \in Processes, child.state = "runs", Awaits(child.frames) = {}, Restores(child.frames) = {},
           NEW parent \in Processes, parent.state = "runs",
           NEW wait \in Waits, NEW fs, WaitsLast(fs, wait, q),
           parent.frames = fs \o Tail(proc[p].frames),
           IF wait = "restore"
           THEN parent.saved = Append(proc[p].saved, proc[p].stdin)
           ELSE parent.saved = proc[p].saved /\ parent.stdin = proc[p].stdin,
           proc' = [proc EXCEPT ![q] = child, ![p] = parent],
           pipe' \in [Pids -> Int], line' = line
    PROVE  IInv'
  <1> USE DEF IInv
  <1> DEFINE n == Len(proc[p].frames)
  <1>1. /\ proc[p] \in Processes /\ proc[p].state = "runs"
        /\ proc[p].frames \in Seq(Frames) /\ proc[p].frames # <<>>
        /\ Head(proc[p].frames)[1] = kind
    BY TopOf
  <1>2. proc \in [Pids -> Processes]
    BY DEF ShellTypeOK
  <1>3. /\ Awaits(parent.frames) = Awaits(proc[p].frames) \cup {<<n, q>>}
        /\ Restores(parent.frames) = IF wait = "restore"
                                     THEN Restores(proc[p].frames) \cup {n}
                                     ELSE Restores(proc[p].frames)
        /\ n \notin Restores(proc[p].frames)
    <2> DEFINE s == proc[p].frames
    <2>1. s \in Seq(Frames) /\ s # <<>> /\ Head(s)[1] \notin Waits /\ n = Len(s)
      BY <1>1
    <2> HIDE DEF s, n
    <2>2. /\ Awaits(fs \o Tail(s)) = Awaits(s) \cup {<<Len(s), q>>}
          /\ Restores(fs \o Tail(s)) =
                 IF wait = "restore" THEN Restores(s) \cup {Len(s)} ELSE Restores(s)
          /\ Len(s) \notin Restores(s)
      BY <2>1, WaitsForOneMore
    <2> QED
      BY <2>1, <2>2 DEF s
  <1>4. q # p /\ proc[q].frames = <<>> /\ Awaits(proc[q].frames) = {}
    BY <1>1, WaitsForNobodyAtAll DEF OnlyRunning
  <1>5. q # Shell /\ Shell \in Pids
    BY MiniShellAssumption DEF TerminalIsSaved, SavesTerminal, Shell, Pids
  <1>6. /\ proc'[q] = child /\ proc'[p] = parent
        /\ \A r \in Pids \ {p, q} : proc'[r] = proc[r]
    BY <1>2, <1>4
  <1>7. ShellTypeOK'
    BY <1>2 DEF ShellTypeOK
  <1>8. OnlyRunning'
    BY <1>6 DEF OnlyRunning
  <1>9. /\ Awaits(proc'[p].frames) = Awaits(proc[p].frames) \cup {<<n, q>>}
        /\ \A r \in Pids \ {p} : Awaits(proc'[r].frames) = Awaits(proc[r].frames)
    BY <1>3, <1>4, <1>6
  <1> HIDE DEF n
  <1>10. \A r \in Pids : \A w \in Awaits(proc[r].frames) : w[2] # q
    BY DEF EachAwaited, WaitedIsThere
  <1>11. \A r \in Pids : proc'[r].state # "none" <=> proc[r].state # "none" \/ r = q
    BY <1>1, <1>6
  <1>12. ASSUME NEW r \in Pids, NEW w \in Awaits(proc'[r].frames)
         PROVE  \/ w \in Awaits(proc[r].frames) /\ w[2] # q
                \/ r = p /\ w = <<n, q>> /\ w[2] = q
    <2>1. <<n, q>>[2] = q
      OBVIOUS
    <2>2. CASE r = p
      <3>1. w \in Awaits(proc[p].frames) \/ w = <<n, q>>
        BY <2>2, <1>9, <1>12
      <3> QED
        BY <3>1, <2>1, <2>2, <1>10
    <2>3. CASE r # p
      <3>1. w \in Awaits(proc[r].frames)
        BY <2>3, <1>9, <1>12
      <3> QED
        BY <3>1, <1>10
    <2> QED
      BY <2>2, <2>3
  <1>13. EachAwaited'
    <2>1. \A r \in Pids : \A w \in Awaits(proc'[r].frames) :
              w[2] # Shell /\ proc'[w[2]].state # "none"
      <3> SUFFICES ASSUME NEW r \in Pids, NEW w \in Awaits(proc'[r].frames)
                   PROVE  w[2] # Shell /\ proc'[w[2]].state # "none"
        OBVIOUS
      <3>1. CASE w \in Awaits(proc[r].frames)
        <4>1. w[2] \in Pids
          BY <3>1 DEF Awaits
        <4>2. w[2] # Shell /\ proc[w[2]].state # "none"
          BY <3>1 DEF EachAwaited, WaitedIsThere
        <4> QED
          BY <4>1, <4>2, <1>11
      <3>2. CASE w[2] = q
        BY <3>2, <1>5, <1>6
      <3> QED
        BY <3>1, <3>2, <1>12
    <2>2. \A c \in Pids \ {Shell} : proc'[c].state # "none" =>
              \E r \in Pids : \E w \in Awaits(proc'[r].frames) : w[2] = c
      <3> SUFFICES ASSUME NEW c \in Pids \ {Shell}, proc'[c].state # "none"
                   PROVE  \E r \in Pids : \E w \in Awaits(proc'[r].frames) : w[2] = c
        OBVIOUS
      <3>1. CASE c = q
        <4>1. <<n, q>> \in Awaits(proc'[p].frames) /\ <<n, q>>[2] = c
          BY <3>1, <1>9
        <4> QED
          BY <4>1
      <3>2. CASE c # q
        <4>1. PICK r \in Pids : \E w \in Awaits(proc[r].frames) : w[2] = c
          BY <3>2, <1>11 DEF EachAwaited, ThereIsWaited
        <4> QED
          BY <4>1, <1>9
      <3> QED
        BY <3>1, <3>2
    <2>3. \A r, o \in Pids : \A v \in Awaits(proc'[r].frames), w \in Awaits(proc'[o].frames) :
              v[2] = w[2] => r = o /\ v = w
      <3> SUFFICES ASSUME NEW r \in Pids, NEW o \in Pids, NEW v \in Awaits(proc'[r].frames),
                          NEW w \in Awaits(proc'[o].frames), v[2] = w[2]
                   PROVE  r = o /\ v = w
        OBVIOUS
      <3>1. CASE v[2] = q
        BY <3>1, <1>12
      <3>2. CASE v[2] # q
        <4>1. v \in Awaits(proc[r].frames) /\ w \in Awaits(proc[o].frames)
          BY <3>2, <1>12
        <4> QED
          BY <4>1 DEF EachAwaited, WaitedOnce
      <3> QED
        BY <3>1, <3>2
    <2> QED
      BY <2>1, <2>2, <2>3 DEF EachAwaited, WaitedIsThere, ThereIsWaited, WaitedOnce
  <1>14. HasSaved(parent) /\ (SavesTerminal(proc[p]) => SavesTerminal(parent))
    <2>1. /\ proc[p].saved \in Seq(Ends) /\ proc[p].stdin \in Ends
          /\ Cardinality(Restores(proc[p].frames)) <= Len(proc[p].saved)
      BY <1>1 DEF EnoughSaved, HasSaved, Processes
    <2>2. /\ Len(proc[p].saved) \in Nat /\ (Len(proc[p].saved) = 0 <=> proc[p].saved = <<>>)
          /\ IsFiniteSet(Restores(proc[p].frames))
          /\ Cardinality(Restores(proc[p].frames)) \in Nat
      BY <1>1, <2>1, LenProperties, EmptySeq, RestoresFinite, FS_CardinalityType
    <2>3. CASE wait = "restore"
      <3>1. /\ parent.saved = Append(proc[p].saved, proc[p].stdin)
            /\ Restores(parent.frames) = Restores(proc[p].frames) \cup {n}
        BY <2>3, <1>3
      <3>2. Cardinality(Restores(parent.frames)) = Cardinality(Restores(proc[p].frames)) + 1
        <4> DEFINE old == Restores(proc[p].frames)
        <4>1. IsFiniteSet(old) /\ n \notin old
          BY <1>3, <2>2
        <4> HIDE DEF old
        <4>2. Cardinality(old \cup {n}) = Cardinality(old) + 1
          BY <4>1, FS_AddElement
        <4> QED
          BY <3>1, <4>2 DEF old
      <3>3. /\ parent.saved \in Seq(Ends) /\ Len(parent.saved) = Len(proc[p].saved) + 1
            /\ parent.saved[Len(proc[p].saved) + 1] = proc[p].stdin
            /\ \A i \in 1 .. Len(proc[p].saved) : parent.saved[i] = proc[p].saved[i]
        BY <3>1, <2>1, AppendProperties
      <3>4. parent.saved # <<>>
        BY <2>2, <3>3, EmptySeq
      <3>5. ASSUME SavesTerminal(proc[p]) PROVE parent.saved[1] = Terminal
        <4>1. CASE proc[p].saved = <<>>
          BY <4>1, <3>3, <3>5, <2>2 DEF SavesTerminal
        <4>2. CASE proc[p].saved # <<>>
          <5>1. 1 \in 1 .. Len(proc[p].saved)
            BY <4>2, <2>2
          <5> QED
            BY <4>2, <5>1, <3>3, <3>5 DEF SavesTerminal
        <4> QED
          BY <4>1, <4>2
      <3>6. HasSaved(parent)
        BY <3>2, <3>3, <2>1, <2>2 DEF HasSaved
      <3>7. ASSUME SavesTerminal(proc[p]) PROVE SavesTerminal(parent)
        BY <3>2, <3>3, <3>4, <3>5, <3>7 DEF SavesTerminal
      <3> QED
        BY <3>6, <3>7
    <2>4. CASE wait # "restore"
      <3>1. /\ parent.saved = proc[p].saved /\ parent.stdin = proc[p].stdin
            /\ Restores(parent.frames) = Restores(proc[p].frames)
        BY <2>4, <1>3
      <3> QED
        BY <3>1, <2>1 DEF HasSaved, SavesTerminal
    <2> QED
      BY <2>3, <2>4
  <1>15. TerminalIsSaved'
    BY <1>5, <1>6, <1>14 DEF TerminalIsSaved
  <1>16. EnoughSaved'
    <2>1. HasSaved(child)
      <3>1. child.saved \in Seq(Ends)
        BY DEF Processes
      <3>2. Cardinality(Restores(child.frames)) = 0 /\ Len(child.saved) \in Nat
        BY <3>1, FS_EmptySet, LenProperties
      <3> QED
        BY <3>2 DEF HasSaved
    <2> QED
      BY <2>1, <1>6, <1>14 DEF EnoughSaved
  <1>17. BetweenLines'
    BY <1>1, <1>5, <1>6 DEF BetweenLines
  <1> QED
    BY <1>7, <1>8, <1>13, <1>15, <1>16, <1>17

\* The end of a wait: the child leaves, with the frame that waited for it.
LEMMA Reaps ==
    ASSUME IInv, NEW p \in Pids, NEW kind \in Waits, At(p, kind), Exited(Top(p)[2]),
           NEW parent \in Processes, parent.state = "runs",
           parent.frames = <<>> \o Tail(proc[p].frames),
           IF kind = "restore"
           THEN parent.saved = Front(proc[p].saved) /\ parent.stdin = Last(proc[p].saved)
           ELSE parent.saved = proc[p].saved /\ parent.stdin = proc[p].stdin,
           proc' = [proc EXCEPT ![Top(p)[2]] = Nobody, ![p] = parent],
           UNCHANGED <<pipe, line>>
    PROVE  IInv'
  <1> USE DEF IInv
  <1> DEFINE n == Len(proc[p].frames)
             q == Top(p)[2]
  <1>1. /\ proc[p] \in Processes /\ proc[p].state = "runs"
        /\ proc[p].frames \in Seq(Frames) /\ proc[p].frames # <<>>
        /\ Head(proc[p].frames) = Top(p) /\ Top(p) \in Frames /\ Top(p)[1] = kind
    BY TopOf
  <1>2. /\ proc \in [Pids -> Processes] /\ q \in Pids
        /\ Nobody \in Processes /\ Nobody.state = "none" /\ Nobody.frames = <<>>
    <2>1. q \in Pids
      BY <1>1, WaitFrame
    <2>2. Nobody \in Processes /\ Nobody.state = "none" /\ Nobody.frames = <<>>
      BY DEF Nobody, Processes, Ends
    <2> QED
      BY <2>1, <2>2 DEF ShellTypeOK
  <1>3. /\ Awaits(parent.frames) = Awaits(proc[p].frames) \ {<<n, q>>}
        /\ <<n, q>> \in Awaits(proc[p].frames)
        /\ Restores(parent.frames) = Restores(proc[p].frames) \ {n}
        /\ kind = "restore" <=> n \in Restores(proc[p].frames)
    BY <1>1, WaitsNoLonger
  <1>4. q # p /\ proc[q].frames = <<>> /\ Awaits(proc[q].frames) = {} /\ Awaits(Nobody.frames) = {}
    BY <1>1, <1>2, WaitsForNobodyAtAll DEF OnlyRunning, Exited, Nobody
  <1> HIDE DEF n
  <1>5. q # Shell /\ Shell \in Pids
    BY <1>2, MiniShellAssumption DEF TerminalIsSaved, SavesTerminal, Shell, Pids, Exited
  <1>6. /\ proc'[q] = Nobody /\ proc'[p] = parent
        /\ \A r \in Pids \ {p, q} : proc'[r] = proc[r]
    BY <1>2, <1>4
  <1> HIDE DEF q
  <1>7. ShellTypeOK'
    BY <1>2 DEF ShellTypeOK, q
  <1>8. OnlyRunning'
    BY <1>2, <1>6 DEF OnlyRunning
  <1>9. /\ Awaits(proc'[p].frames) = Awaits(proc[p].frames) \ {<<n, q>>}
        /\ \A r \in Pids \ {p} : Awaits(proc'[r].frames) = Awaits(proc[r].frames)
    BY <1>3, <1>4, <1>6
  <1>10. ASSUME NEW r \in Pids, NEW w \in Awaits(proc'[r].frames)
         PROVE  w \in Awaits(proc[r].frames) /\ w[2] # q
    <2>1. w \in Awaits(proc[r].frames) /\ (r = p => w # <<n, q>>)
      BY <1>9, <1>10
    <2>2. <<n, q>>[2] = q
      OBVIOUS
    <2> QED
      BY <2>1, <2>2, <1>3 DEF EachAwaited, WaitedOnce
  <1>11. \A r \in Pids : proc'[r].state # "none" <=> proc[r].state # "none" /\ r # q
    BY <1>1, <1>2, <1>6
  <1>12. EachAwaited'
    <2>1. \A r \in Pids : \A w \in Awaits(proc'[r].frames) :
              w[2] # Shell /\ proc'[w[2]].state # "none"
      <3> SUFFICES ASSUME NEW r \in Pids, NEW w \in Awaits(proc'[r].frames)
                   PROVE  w[2] # Shell /\ proc'[w[2]].state # "none"
        OBVIOUS
      <3>1. w[2] \in Pids /\ w \in Awaits(proc[r].frames) /\ w[2] # q
        BY <1>10 DEF Awaits
      <3>2. w[2] # Shell /\ proc[w[2]].state # "none"
        BY <3>1 DEF EachAwaited, WaitedIsThere
      <3> QED
        BY <3>1, <3>2, <1>11
    <2>2. \A c \in Pids \ {Shell} : proc'[c].state # "none" =>
              \E r \in Pids : \E w \in Awaits(proc'[r].frames) : w[2] = c
      <3> SUFFICES ASSUME NEW c \in Pids \ {Shell}, proc'[c].state # "none"
                   PROVE  \E r \in Pids : \E w \in Awaits(proc'[r].frames) : w[2] = c
        OBVIOUS
      <3>1. c # q /\ proc[c].state # "none"
        BY <1>11
      <3>2. PICK r \in Pids : \E w \in Awaits(proc[r].frames) : w[2] = c
        BY <3>1 DEF EachAwaited, ThereIsWaited
      <3>3. PICK w \in Awaits(proc[r].frames) : w[2] = c
        BY <3>2
      <3>4. w # <<n, q>>
        BY <3>1, <3>3
      <3> QED
        BY <3>3, <3>4, <1>9
    <2>3. \A r, o \in Pids : \A v \in Awaits(proc'[r].frames), w \in Awaits(proc'[o].frames) :
              v[2] = w[2] => r = o /\ v = w
      BY <1>10 DEF EachAwaited, WaitedOnce
    <2> QED
      BY <2>1, <2>2, <2>3 DEF EachAwaited, WaitedIsThere, ThereIsWaited, WaitedOnce
  <1>13. HasSaved(parent) /\ (SavesTerminal(proc[p]) => SavesTerminal(parent))
    <2>1. /\ proc[p].saved \in Seq(Ends) /\ proc[p].stdin \in Ends
          /\ Cardinality(Restores(proc[p].frames)) <= Len(proc[p].saved)
      BY <1>1 DEF EnoughSaved, HasSaved, Processes
    <2>2. /\ Len(proc[p].saved) \in Nat /\ (Len(proc[p].saved) = 0 <=> proc[p].saved = <<>>)
          /\ IsFiniteSet(Restores(proc[p].frames))
          /\ Cardinality(Restores(proc[p].frames)) \in Nat
      BY <1>1, <2>1, LenProperties, EmptySeq, RestoresFinite, FS_CardinalityType
    <2>3. CASE kind = "restore"
      <3>1. /\ n \in Restores(proc[p].frames)
            /\ parent.saved = Front(proc[p].saved) /\ parent.stdin = Last(proc[p].saved)
        BY <2>3, <1>3
      <3>2. Cardinality(Restores(parent.frames)) = Cardinality(Restores(proc[p].frames)) - 1
        BY <3>1, <2>2, <1>3, FS_RemoveElement
      <3>3. Cardinality(Restores(proc[p].frames)) # 0
        BY <3>1, <2>2, FS_EmptySet
      <3>4. proc[p].saved # <<>> /\ Len(proc[p].saved) \in Nat \ {0}
        BY <3>3, <2>1, <2>2
      <3>5. /\ parent.saved \in Seq(Ends) /\ Len(parent.saved) = Len(proc[p].saved) - 1
            /\ \A i \in 1 .. Len(proc[p].saved) - 1 : parent.saved[i] = proc[p].saved[i]
            /\ parent.stdin = proc[p].saved[Len(proc[p].saved)]
        BY <3>1, <3>4, <2>1 DEF Front, Last
      <3>6. parent.saved = <<>> <=> Len(parent.saved) = 0
        BY <3>5, EmptySeq
      <3>7. HasSaved(parent)
        BY <3>2, <3>5, <2>1, <2>2 DEF HasSaved
      <3>8. ASSUME SavesTerminal(proc[p]) PROVE SavesTerminal(parent)
        <4>1. CASE Len(proc[p].saved) = 1
          BY <4>1, <3>2, <3>4, <3>5, <3>6, <3>8 DEF SavesTerminal
        <4>2. CASE Len(proc[p].saved) # 1
          <5>1. 1 \in 1 .. Len(proc[p].saved) - 1 /\ parent.saved # <<>>
            BY <4>2, <3>4, <3>5, <3>6
          <5> QED
            BY <5>1, <3>2, <3>4, <3>5, <3>8 DEF SavesTerminal
        <4> QED
          BY <4>1, <4>2
      <3> QED
        BY <3>7, <3>8
    <2>4. CASE kind # "restore"
      <3>1. /\ parent.saved = proc[p].saved /\ parent.stdin = proc[p].stdin
            /\ Restores(parent.frames) = Restores(proc[p].frames)
        BY <2>4, <1>3
      <3> QED
        BY <3>1, <2>1 DEF HasSaved, SavesTerminal
    <2> QED
      BY <2>3, <2>4
  <1>14. TerminalIsSaved'
    BY <1>5, <1>6, <1>13 DEF TerminalIsSaved
  <1>15. EnoughSaved'
    <2>1. HasSaved(Nobody)
      <3>1. Nobody.saved = <<>> /\ Restores(<<>>) = {} /\ Len(<<>>) = 0
        BY WaitsForNobodyAtAll DEF Nobody
      <3>2. Cardinality(Restores(Nobody.frames)) = 0
        BY <3>1, <1>2, FS_EmptySet
      <3> QED
        BY <3>1, <3>2 DEF HasSaved
    <2> QED
      BY <2>1, <1>6, <1>13 DEF EnoughSaved
  <1>16. BetweenLines'
    BY <1>1, <1>5, <1>6 DEF BetweenLines
  <1> QED
    BY <1>7, <1>8, <1>12, <1>14, <1>15, <1>16

\* A program, or a child that has done its frames, works and exits without a fork.
LEMMA WorksOn ==
    ASSUME IInv, NEW p \in Pids, Works(p), NEW new \in Processes,
           new.state \in {"runs", "zombie"}, new.frames = <<>>,
           proc' = [proc EXCEPT ![p] = new], pipe' \in [Pids -> Int], line' = line
    PROVE  IInv'
  <1> USE DEF IInv
  <1>1. proc \in [Pids -> Processes] /\ Shell \in Pids
    BY MiniShellAssumption DEF ShellTypeOK, Shell, Pids
  <1>2. p # Shell /\ proc[p].state = "runs" /\ proc[p].frames = <<>>
    BY DEF Works, Runs
  <1>3. \A q \in Pids : /\ proc'[q].frames = proc[q].frames
                        /\ proc'[q].state = "none" <=> proc[q].state = "none"
    BY <1>1, <1>2
  <1>4. ShellTypeOK'
    BY <1>1 DEF ShellTypeOK
  <1>5. OnlyRunning'
    BY <1>1, <1>2 DEF OnlyRunning
  <1>6. EachAwaited'
    BY <1>3 DEF EachAwaited, WaitedIsThere, ThereIsWaited, WaitedOnce
  <1>7. TerminalIsSaved'
    BY <1>1, <1>2 DEF TerminalIsSaved
  <1>8. EnoughSaved'
    <2>1. new.saved \in Seq(Ends)
      BY DEF Processes
    <2>2. Cardinality(Restores(new.frames)) = 0 /\ Len(new.saved) \in Nat
      BY <2>1, FS_EmptySet, WaitsForNobodyAtAll, LenProperties
    <2>3. HasSaved(new)
      BY <2>2 DEF HasSaved
    <2> QED
      BY <2>3, <1>1 DEF EnoughSaved
  <1>9. BetweenLines'
    BY <1>1, <1>3 DEF BetweenLines
  <1> QED
    BY <1>4, <1>5, <1>6, <1>7, <1>8, <1>9

-----------------------------------------------------------------------------

LEMMA RoomForOne ==
    ASSUME Room
    PROVE  NewPid \in Pids /\ proc[NewPid].state = "none"
  BY DEF Room, NewPid

LEMMA ShellInit == Init => IInv
  <1> SUFFICES ASSUME Init PROVE IInv
    OBVIOUS
  <1> DEFINE started(p) == [Nobody EXCEPT !.state = IF p = Shell THEN "runs" ELSE "none"]
  <1>1. Shell \in Pids
    BY MiniShellAssumption DEF Shell, Pids
  <1>2. \A p \in Pids : /\ started(p) \in Processes /\ started(p).frames = <<>>
                        /\ started(p).state = IF p = Shell THEN "runs" ELSE "none"
                        /\ started(p).saved = <<>> /\ started(p).stdin = Terminal
    <2>1. Nobody \in Processes
      BY DEF Nobody, Processes, Ends
    <2> QED
      BY <2>1 DEF Nobody, Processes
  <1>3. \A p \in Pids : proc[p] = started(p)
    BY DEF Init
  <1> HIDE DEF started
  <1>4. ShellTypeOK
    BY <1>2, <1>3 DEF Init, ShellTypeOK, started
  <1>5. OnlyRunning
    BY <1>2, <1>3 DEF OnlyRunning
  <1>6. EachAwaited
    BY <1>2, <1>3, WaitsForNobodyAtAll DEF EachAwaited, WaitedIsThere, ThereIsWaited, WaitedOnce
  <1>7. TerminalIsSaved
    <2>1. Cardinality(Restores(<<>>)) = 0 /\ Len(<<>>) = 0
      BY WaitsForNobodyAtAll, FS_EmptySet
    <2> QED
      BY <1>1, <1>2, <1>3, <2>1 DEF TerminalIsSaved, SavesTerminal
  <1>8. EnoughSaved
    <2>1. Cardinality(Restores(<<>>)) = 0 /\ Len(<<>>) = 0
      BY WaitsForNobodyAtAll, FS_EmptySet
    <2>2. \A p \in Pids : HasSaved(started(p))
      BY <1>2, <2>1 DEF HasSaved
    <2> QED
      BY <1>3, <2>2 DEF EnoughSaved
  <1>9. BetweenLines
    BY <1>1, <1>2, <1>3 DEF BetweenLines
  <1> QED
    BY <1>4, <1>5, <1>6, <1>7, <1>8, <1>9 DEF IInv

\* The steps that change the stack of one process alone.
LEMMA AloneStep ==
    ASSUME IInv, NEW p \in Pids,
           \/ ParseBuiltin(p) \/ RunInSequence(p) \/ Zero(p)
           \/ \E op \in {"&&", "||"} : RunFirst(p, op) \/ RunSecond(p, op)
    PROVE  IInv'
  <1> DEFINE zero == 0
  <1>0. zero \in Int
    OBVIOUS
  <1>1. ShellTypeOK /\ \A k \in {"parse", "&&", "||", "zero"} : k \notin Waits
    BY DEF IInv, Waits
  <1> HIDE DEF zero
  <1>2. CASE ParseBuiltin(p)
    <2>1. At(p, "parse") /\ Top(p)[2].op = "builtin" /\ UNCHANGED <<pipe, line>>
      BY <1>2 DEF ParseBuiltin, Parses
    <2>2. Top(p)[2].result \in Int
      BY <2>1, <1>1, ParsedCommand, CommandsAssumption
    <2>3. Waitless(<<>>)
      BY FramesOf
    <2>4. proc' = [proc EXCEPT ![p] = Continue(p, <<>>, Top(p)[2].result)]
      BY <1>2 DEF ParseBuiltin
    <2> QED
      BY <2>1, <2>2, <2>3, <2>4, <1>0, <1>1, GoesOnAlone
  <1>3. CASE RunInSequence(p)
    <2> DEFINE c == Top(p)[2]
               fs == <<Parse(c.cmd1), Parse(c.cmd2), <<"zero">> >>
    <2>1. At(p, "parse") /\ c.op = ";" /\ UNCHANGED <<pipe, line>>
      BY <1>3 DEF RunInSequence, Parses
    <2>2. c.cmd1 \in Commands /\ c.cmd2 \in Commands
      BY <2>1, <1>1, ParsedCommand, CommandsAssumption
    <2>3. Waitless(fs)
      BY <2>2, FramesOf
    <2>4. proc' = [proc EXCEPT ![p] = Continue(p, fs, zero)]
      BY <1>3 DEF RunInSequence, zero
    <2> HIDE DEF fs
    <2> QED
      BY <2>1, <2>3, <2>4, <1>0, <1>1, GoesOnAlone
  <1>4. CASE Zero(p)
    <2>1. At(p, "zero") /\ UNCHANGED <<pipe, line>>
      BY <1>4 DEF Zero, zero
    <2>2. Waitless(<<>>)
      BY FramesOf
    <2>3. proc' = [proc EXCEPT ![p] = Continue(p, <<>>, zero)]
      BY <1>4 DEF Zero, zero
    <2> QED
      BY <2>1, <2>2, <2>3, <1>0, <1>1, GoesOnAlone
  <1>5. ASSUME NEW op \in {"&&", "||"}, RunFirst(p, op)
        PROVE  IInv'
    <2> DEFINE c == Top(p)[2]
               fs == <<Parse(c.cmd1), <<op, c.cmd2>> >>
    <2>1. At(p, "parse") /\ c.op = op /\ UNCHANGED <<pipe, line>>
      BY <1>5 DEF RunFirst, Parses
    <2>2. c.cmd1 \in Commands /\ c.cmd2 \in Commands
      BY <2>1, <1>1, ParsedCommand, CommandsAssumption
    <2>3. Waitless(fs)
      BY <2>2, FramesOf
    <2>4. proc' = [proc EXCEPT ![p] = Continue(p, fs, zero)]
      BY <1>5 DEF RunFirst, zero
    <2> HIDE DEF fs
    <2> QED
      BY <2>1, <2>3, <2>4, <1>0, <1>1, GoesOnAlone
  <1>6. ASSUME NEW op \in {"&&", "||"}, RunSecond(p, op)
        PROVE  IInv'
    <2> DEFINE fs == <<Parse(Top(p)[2])>>
    <2>1. At(p, op) /\ UNCHANGED <<pipe, line>> /\ op \notin Waits
      BY <1>6, <1>1 DEF RunSecond, zero
    <2>2. Top(p)[2] \in Commands /\ proc[p].result \in Int /\ proc \in [Pids -> Processes]
      BY <2>1, <1>1, ParsedCommand DEF ShellTypeOK, Processes
    <2>3. Waitless(fs)
      BY <2>2, FramesOf
    <2>4. CASE GoesOn(op, proc[p].result)
      <3>1. proc' = [proc EXCEPT ![p] = Continue(p, fs, zero)]
        BY <2>2, <2>4, <1>6 DEF RunSecond, zero
      <3> HIDE DEF fs
      <3> QED
        BY <3>1, <2>1, <2>3, <1>0, GoesOnAlone
    <2>5. CASE ~GoesOn(op, proc[p].result)
      <3>1. proc' = [proc EXCEPT ![p] = Continue(p, <<>>, proc[p].result)]
        BY <2>2, <2>5, <1>6 DEF RunSecond, zero
      <3>2. Waitless(<<>>)
        BY FramesOf
      <3> QED
        BY <3>1, <3>2, <2>1, <2>2, GoesOnAlone
    <2> QED
      BY <2>4, <2>5
  <1> QED
    BY <1>2, <1>3, <1>4, <1>5, <1>6

LEMMA Forked ==
    ASSUME ShellTypeOK, NEW p \in Pids, proc[p].state = "runs", NEW frames \in Seq(Frames)
    PROVE  /\ Child(p, frames) \in Processes
           /\ Child(p, frames).frames = frames /\ Child(p, frames).state = "runs"
  <1>1. proc[p] \in Processes
    BY DEF ShellTypeOK
  <1>2. 0 \in Int
    OBVIOUS
  <1>3. Child(p, frames) \in Processes
    BY <1>1, <1>2 DEF Child, Processes
  <1>4. Child(p, frames).frames = frames /\ Child(p, frames).state = "runs"
    BY <1>1 DEF Child, Processes
  <1> QED
    BY <1>3, <1>4

LEMMA ForkStep ==
    ASSUME IInv, NEW p \in Pids, ParseProgram(p) \/ RunInParallel(p) \/ RunOnPipe(p)
    PROVE  IInv'
  <1> DEFINE c == Top(p)[2]
             q == NewPid
  <1>1. Room /\ At(p, "parse") /\ c.op \in {"program", "&", "|"}
    BY DEF ParseProgram, RunInParallel, RunOnPipe, Parses
  <1>2. ShellTypeOK /\ "parse" \notin Waits /\ q \in Pids /\ proc[q].state = "none"
    BY <1>1, RoomForOne DEF IInv, Waits
  <1>3. /\ proc[p] \in Processes /\ proc[p].state = "runs" /\ Rest(p) = Tail(proc[p].frames)
        /\ pipe \in [Pids -> Int]
    BY <1>1, <1>2, TopOf DEF ShellTypeOK
  <1>4. c \in Commands
    BY <1>1, <1>2, ParsedCommand
  <1>5. {"wait", "join", "restore"} = Waits
    BY DEF Waits
  <1>6. CASE ParseProgram(p)
    <2> DEFINE child == Redirected(Child(p, <<>>), c)
               fs == << <<"wait", q>> >>
               parent == Continue(p, fs, 0)
    <2>1. c.op = "program" /\ UNCHANGED <<pipe, line>>
      BY <1>6 DEF ParseProgram, Parses
    <2>2. c.reads \in BOOLEAN /\ c.writes \in Int /\ c.status \in Int
      <3>1. {c.reads, c.in, c.out} \subseteq BOOLEAN /\ c.writes \in Nat /\ c.status \in 0 .. KILLED
        BY <2>1, <1>4, CommandsAssumption
      <3> QED
        BY <3>1 DEF KILLED
    <2>3. child \in Processes /\ child.state = "runs"
          /\ Awaits(child.frames) = {} /\ Restores(child.frames) = {}
      <3> DEFINE forked == Child(p, <<>>)
      <3>1. <<>> \in Seq(Frames) /\ Awaits(<<>>) = {} /\ Restores(<<>>) = {}
        BY WaitsForNobodyAtAll
      <3>2. forked \in Processes /\ forked.frames = <<>> /\ forked.state = "runs"
        BY <3>1, <1>2, <1>3, Forked
      <3> HIDE DEF forked
      <3>3. /\ Redirected(forked, c) \in Processes
            /\ Redirected(forked, c).frames = <<>> /\ Redirected(forked, c).state = "runs"
        <4>1. /\ (IF c.in THEN File ELSE forked.stdin) \in Ends
              /\ (IF c.out THEN File ELSE forked.stdout) \in Ends
          BY <3>2 DEF Processes, Ends
        <4> QED
          BY <2>2, <3>2, <4>1 DEF Redirected, Processes
      <3> QED
        BY <3>1, <3>3 DEF forked
    <2>4. WaitsLast(fs, "wait", q) /\ fs \in Seq(Frames) /\ "wait" \in Waits
      BY <1>2, <1>5, FramesOf DEF WaitsLast
    <2>5. proc' = [proc EXCEPT ![q] = child, ![p] = parent]
      BY <1>6 DEF ParseProgram
    <2> HIDE DEF child, fs, q
    <2>6. /\ parent \in Processes /\ parent.state = "runs"
          /\ parent.frames = fs \o Tail(proc[p].frames)
          /\ parent.stdin = proc[p].stdin /\ parent.saved = proc[p].saved
      BY <2>4, <1>1, <1>2, <1>3, Continued
    <2> HIDE DEF parent
    <2>7. IF "wait" = "restore" THEN parent.saved = Append(proc[p].saved, proc[p].stdin)
          ELSE parent.saved = proc[p].saved /\ parent.stdin = proc[p].stdin
      BY <2>6
    <2> QED
      BY <1>1, <1>2, <1>3, <2>1, <2>3, <2>4, <2>5, <2>6, <2>7, Forks
  <1>7. CASE RunInParallel(p)
    <2> DEFINE child == Child(p, <<Parse(c.cmd1)>>)
               fs == <<Parse(c.cmd2), <<"join", q>> >>
               parent == Continue(p, fs, 0)
    <2>1. c.op = "&" /\ UNCHANGED <<pipe, line>>
      BY <1>7 DEF RunInParallel, Parses
    <2>2. c.cmd1 \in Commands /\ c.cmd2 \in Commands
      BY <2>1, <1>4, CommandsAssumption
    <2>3. child \in Processes /\ child.state = "runs"
          /\ Awaits(child.frames) = {} /\ Restores(child.frames) = {}
      <3>1. /\ <<Parse(c.cmd1)>> \in Seq(Frames)
            /\ Awaits(<<Parse(c.cmd1)>>) = {} /\ Restores(<<Parse(c.cmd1)>>) = {}
        BY <2>2, WaitsForNobodyAtAll
      <3> QED
        BY <3>1, <1>2, <1>3, Forked
    <2>4. WaitsLast(fs, "join", q) /\ fs \in Seq(Frames) /\ "join" \in Waits
      BY <2>2, <1>2, <1>5, FramesOf DEF WaitsLast
    <2>5. proc' = [proc EXCEPT ![q] = child, ![p] = parent]
      BY <1>7 DEF RunInParallel
    <2> HIDE DEF child, fs, q
    <2>6. /\ parent \in Processes /\ parent.state = "runs"
          /\ parent.frames = fs \o Tail(proc[p].frames)
          /\ parent.stdin = proc[p].stdin /\ parent.saved = proc[p].saved
      BY <2>4, <1>1, <1>2, <1>3, Continued
    <2> HIDE DEF parent
    <2>7. IF "join" = "restore" THEN parent.saved = Append(proc[p].saved, proc[p].stdin)
          ELSE parent.saved = proc[p].saved /\ parent.stdin = proc[p].stdin
      BY <2>6
    <2> QED
      BY <1>1, <1>2, <1>3, <2>1, <2>3, <2>4, <2>5, <2>6, <2>7, Forks
  <1>8. CASE RunOnPipe(p)
    <2> DEFINE child == [Child(p, <<Parse(c.cmd1)>>) EXCEPT !.stdout = q]
               fs == <<Parse(c.cmd2), <<"restore", q>> >>
               old == Continue(p, fs, 0)
               parent == [old EXCEPT !.saved = Append(@, old.stdin), !.stdin = q]
    <2>1. c.op = "|" /\ line' = line /\ pipe' = [pipe EXCEPT ![q] = 0]
      BY <1>8 DEF RunOnPipe, Parses
    <2>2. c.cmd1 \in Commands /\ c.cmd2 \in Commands
      BY <2>1, <1>4, CommandsAssumption
    <2>3. child \in Processes /\ child.state = "runs"
          /\ Awaits(child.frames) = {} /\ Restores(child.frames) = {}
      <3> DEFINE frames == <<Parse(c.cmd1)>>
                 forked == Child(p, frames)
      <3>1. frames \in Seq(Frames) /\ Awaits(frames) = {} /\ Restores(frames) = {}
        BY <2>2, WaitsForNobodyAtAll
      <3> HIDE DEF frames
      <3>2. forked \in Processes /\ forked.frames = frames /\ forked.state = "runs"
        BY <3>1, <1>2, <1>3, Forked
      <3> HIDE DEF forked
      <3>3. [forked EXCEPT !.stdout = q] \in Processes
        BY <3>2, <1>2 DEF Processes, Ends
      <3>4. /\ [forked EXCEPT !.stdout = q].frames = frames
            /\ [forked EXCEPT !.stdout = q].state = "runs"
        BY <3>2 DEF Processes
      <3> QED
        BY <3>1, <3>3, <3>4 DEF forked, frames
    <2>4. WaitsLast(fs, "restore", q) /\ fs \in Seq(Frames) /\ "restore" \in Waits
      BY <2>2, <1>2, <1>5, FramesOf DEF WaitsLast
    <2>5. proc' = [proc EXCEPT ![q] = child, ![p] = parent]
      BY <1>8 DEF RunOnPipe
    <2> HIDE DEF child, fs, q
    <2>6. /\ old \in Processes /\ old.state = "runs"
          /\ old.frames = fs \o Tail(proc[p].frames)
          /\ old.stdin = proc[p].stdin /\ old.saved = proc[p].saved
      BY <2>4, <1>1, <1>2, <1>3, Continued
    <2> HIDE DEF old
    <2>7. /\ parent \in Processes /\ parent.state = "runs"
          /\ parent.frames = fs \o Tail(proc[p].frames)
          /\ parent.saved = Append(proc[p].saved, proc[p].stdin)
      <3>1. q \in Ends /\ Append(old.saved, old.stdin) \in Seq(Ends)
        BY <2>6, <1>2 DEF Processes, Ends, q
      <3>2. parent \in Processes
        BY <3>1, <2>6 DEF Processes
      <3>3. /\ parent.state = old.state /\ parent.frames = old.frames
            /\ parent.saved = Append(old.saved, old.stdin)
        BY <2>6 DEF Processes
      <3> QED
        BY <3>2, <3>3, <2>6
    <2>8. pipe' \in [Pids -> Int]
      <3>1. 0 \in Int
        OBVIOUS
      <3> QED
        BY <3>1, <2>1, <1>3
    <2> HIDE DEF parent
    <2> QED
      BY <1>1, <1>2, <1>3, <2>1, <2>3, <2>4, <2>5, <2>7, <2>8, Forks
  <1> QED
    BY <1>6, <1>7, <1>8

LEMMA ReapStep ==
    ASSUME IInv, NEW p \in Pids, WaitForProgram(p) \/ Join(p) \/ Restore(p)
    PROVE  IInv'
  <1> DEFINE q == Top(p)[2]
  <1>1. ShellTypeOK /\ {"wait", "join", "restore"} = Waits /\ <<>> \in Seq(Frames)
    BY DEF IInv, Waits
  <1>2. ASSUME NEW kind \in {"wait", "join"}, NEW r \in Int, At(p, kind), Reap(p, q, r)
        PROVE  IInv'
    <2> DEFINE parent == Continue(p, <<>>, r)
    <2>1. /\ Exited(q) /\ UNCHANGED <<pipe, line>>
          /\ proc' = [proc EXCEPT ![q] = Nobody, ![p] = parent]
      BY <1>2 DEF Reap
    <2>2. /\ parent \in Processes /\ parent.state = "runs"
          /\ parent.frames = <<>> \o Tail(proc[p].frames)
          /\ parent.stdin = proc[p].stdin /\ parent.saved = proc[p].saved
      <3>1. ShellTypeOK /\ At(p, kind) /\ <<>> \in Seq(Frames)
        BY <1>1, <1>2
      <3>2. proc[p].state = "runs"
        BY <3>1, TopOf
      <3> QED
        BY <3>1, <3>2, Continued
    <2>3. kind \in Waits /\ kind # "restore"
      BY <1>1
    <2> HIDE DEF parent
    <2> QED
      BY <2>1, <2>2, <2>3, <1>2, Reaps
  <1>3. ASSUME NEW kind \in {"wait", "join", "restore"}, At(p, kind)
        PROVE  q \in Pids /\ proc[q].result \in Int /\ proc[p].result \in Int
    <2>1. q \in Pids
      BY <1>1, <1>3, TopOf, WaitFrame
    <2> QED
      BY <2>1, <1>1 DEF ShellTypeOK, Processes
  <1>4. CASE WaitForProgram(p)
    <2>1. At(p, "wait") /\ Reap(p, q, Returned(proc[q].result))
      BY <1>4 DEF WaitForProgram
    <2>2. Returned(proc[q].result) \in Int
      BY <2>1, <1>3 DEF Returned
    <2> QED
      BY <2>1, <2>2, <1>2
  <1>5. CASE Join(p)
    <2>1. At(p, "join") /\ Reap(p, q, Both(proc[p].result, proc[q].result))
      BY <1>5 DEF Join
    <2>2. Both(proc[p].result, proc[q].result) \in Int
      BY DEF Both
    <2> QED
      BY <2>1, <2>2, <1>2
  <1>6. CASE Restore(p)
    <2> DEFINE r == IF proc[p].result # 0 THEN 1 ELSE 0
               old == Continue(p, <<>>, r)
               parent == [old EXCEPT !.stdin = Last(proc[p].saved), !.saved = Front(@)]
    <2>1. /\ At(p, "restore") /\ Exited(q) /\ UNCHANGED <<pipe, line>>
          /\ proc' = [proc EXCEPT ![q] = Nobody, ![p] = parent]
      BY <1>6 DEF Restore
    <2>2. /\ old \in Processes /\ old.state = "runs"
          /\ old.frames = <<>> \o Tail(proc[p].frames) /\ old.saved = proc[p].saved
      <3>1. r \in Int /\ <<>> \in Seq(Frames) /\ proc[p].state = "runs"
        BY <2>1, <1>1, TopOf
      <3> HIDE DEF r
      <3> QED
        BY <3>1, <2>1, <1>1, Continued
    <2> HIDE DEF old
    <2>3. /\ parent.state = "runs" /\ parent.frames = <<>> \o Tail(proc[p].frames)
          /\ parent.saved = Front(proc[p].saved) /\ parent.stdin = Last(proc[p].saved)
      BY <2>2 DEF Processes
    <2>4. parent \in Processes
      <3>1. proc[p].saved \in Seq(Ends) /\ proc[p].saved # <<>>
        <4> DEFINE s == proc[p].frames
        <4>1. /\ proc[p] \in Processes /\ s \in Seq(Frames) /\ s # <<>>
              /\ Head(s)[1] = "restore" /\ HasSaved(proc[p])
          BY <2>1, <1>1, TopOf DEF IInv, EnoughSaved
        <4> HIDE DEF s
        <4>2. "restore" \in Waits
          BY DEF Waits
        <4>3. Len(s) \in Restores(s)
          BY <4>1, <4>2, WaitsNoLonger
        <4>4. IsFiniteSet(Restores(s)) /\ Cardinality(Restores(s)) \in Nat
          BY <4>1, RestoresFinite, FS_CardinalityType
        <4>5. Cardinality(Restores(s)) # 0
          BY <4>3, <4>4, FS_EmptySet
        <4>6. proc[p].saved \in Seq(Ends)
          BY <4>1 DEF Processes
        <4>7. Len(proc[p].saved) # 0
          BY <4>1, <4>4, <4>5, <4>6, LenProperties DEF HasSaved, s
        <4> QED
          BY <4>6, <4>7
      <3>2. Front(proc[p].saved) \in Seq(Ends) /\ Last(proc[p].saved) \in Ends
        BY <3>1 DEF Front, Last
      <3> QED
        BY <3>2, <2>2 DEF Processes
    <2> QED
      BY <2>1, <2>3, <2>4, <1>1, Reaps
  <1> QED
    BY <1>4, <1>5, <1>6

LEMMA WorkStep ==
    ASSUME IInv, NEW p \in Pids, Read(p) \/ Write(p) \/ Exit(p)
    PROVE  IInv'
  <1>1. Works(p) /\ proc[p].state = "runs" /\ proc[p].frames = <<>>
    BY DEF Read, Write, Exit, Works, Runs
  <1>2. proc \in [Pids -> Processes] /\ proc[p] \in Processes /\ pipe \in [Pids -> Int]
    BY DEF IInv, ShellTypeOK
  <1>3. CASE Read(p)
    <2>1. \/ pipe' = [pipe EXCEPT ![proc[p].stdin] = @ - 1] /\ UNCHANGED proc
             /\ proc[p].stdin \in Pids
          \/ proc' = [proc EXCEPT ![p].reads = FALSE] /\ UNCHANGED pipe
      BY <1>3 DEF Read, IsPipe
    <2>2. line' = line
      BY <1>3 DEF Read
    <2>3. CASE pipe' = [pipe EXCEPT ![proc[p].stdin] = @ - 1] /\ UNCHANGED proc
               /\ proc[p].stdin \in Pids
      <3>1. pipe' \in [Pids -> Int]
        BY <2>3, <1>2
      <3>2. proc' = [proc EXCEPT ![p] = proc[p]]
        BY <2>3, <1>2
      <3> QED
        BY <3>1, <3>2, <2>2, <1>1, <1>2, WorksOn
    <2>4. CASE proc' = [proc EXCEPT ![p].reads = FALSE] /\ UNCHANGED pipe
      <3> DEFINE new == [proc[p] EXCEPT !.reads = FALSE]
      <3>1. /\ new \in Processes /\ new.state = "runs" /\ new.frames = <<>>
        BY <1>1, <1>2 DEF Processes
      <3>2. proc' = [proc EXCEPT ![p] = new] /\ pipe' \in [Pids -> Int]
        BY <2>4, <1>2
      <3> HIDE DEF new
      <3> QED
        BY <3>1, <3>2, <2>2, <1>1, WorksOn
    <2> QED
      BY <2>1, <2>3, <2>4
  <1>4. CASE Write(p)
    <2> DEFINE new == [proc[p] EXCEPT !.writes = @ - 1]
    <2>1. /\ proc' = [proc EXCEPT ![p] = new] /\ line' = line
          /\ pipe' = [pipe EXCEPT ![proc[p].stdout] = @ + 1] \/ pipe' = pipe
      BY <1>2, <1>4 DEF Write
    <2>2. new \in Processes /\ new.state = "runs" /\ new.frames = <<>>
      <3>1. proc[p].writes - 1 \in Int
        BY <1>2 DEF Processes
      <3> QED
        BY <3>1, <1>1, <1>2 DEF Processes
    <2>3. pipe' \in [Pids -> Int]
      BY <2>1, <1>2
    <2> HIDE DEF new
    <2> QED
      BY <2>1, <2>2, <2>3, <1>1, WorksOn
  <1>5. CASE Exit(p)
    <2> DEFINE new == [Nobody EXCEPT !.state = "zombie", !.result = ExitCode(proc[p].result)]
    <2>1. proc' = [proc EXCEPT ![p] = new] /\ line' = line /\ pipe' \in [Pids -> Int]
      BY <1>2, <1>5 DEF Exit
    <2>2. ExitCode(proc[p].result) \in Int
      BY <1>2 DEF ExitCode, Processes
    <2>3. new \in Processes /\ new.state = "zombie" /\ new.frames = <<>>
      <3> DEFINE code == ExitCode(proc[p].result)
      <3>1. Nobody \in Processes /\ Nobody.frames = <<>>
        BY DEF Nobody, Processes, Ends
      <3> HIDE DEF code
      <3>2. [Nobody EXCEPT !.state = "zombie", !.result = code] \in Processes
        BY <2>2, <3>1 DEF Processes, code
      <3>3. /\ [Nobody EXCEPT !.state = "zombie", !.result = code].state = "zombie"
            /\ [Nobody EXCEPT !.state = "zombie", !.result = code].frames = <<>>
        BY <3>1 DEF Processes
      <3> QED
        BY <3>2, <3>3 DEF code
    <2> HIDE DEF new
    <2> QED
      BY <2>1, <2>3, <1>1, WorksOn
  <1> QED
    BY <1>3, <1>4, <1>5

\* The shell reads a line only when it has nothing left to do.
LEMMA LineStep ==
    ASSUME IInv, (\E l \in Lines : ReadLine(l)) \/ EndOfLine
    PROVE  IInv'
  <1> USE DEF IInv
  <1>1. CASE EndOfLine
    <2>1. UNCHANGED <<proc, pipe>> /\ line' \in {Prompt, Ended} /\ proc[Shell].frames = <<>>
      BY <1>1 DEF EndOfLine
    <2>2. ShellTypeOK'
      BY <2>1 DEF ShellTypeOK
    <2>3. OnlyRunning' /\ TerminalIsSaved' /\ EnoughSaved'
      BY <2>1 DEF OnlyRunning, TerminalIsSaved, EnoughSaved
    <2>4. EachAwaited'
      BY <2>1 DEF EachAwaited, WaitedIsThere, ThereIsWaited, WaitedOnce
    <2>5. BetweenLines'
      BY <2>1 DEF BetweenLines
    <2> QED
      BY <2>2, <2>3, <2>4, <2>5
  <1>2. ASSUME NEW l \in Lines, ReadLine(l)
        PROVE  IInv'
    <2> DEFINE new == [proc[Shell] EXCEPT !.frames = <<Parse(l)>>, !.result = 0]
    <2>1. /\ Shell \in Pids /\ proc \in [Pids -> Processes] /\ pipe' = pipe /\ line' = l
          /\ proc[Shell].frames = <<>> /\ SavesTerminal(proc[Shell])
      BY <1>2, MiniShellAssumption
         DEF ReadLine, ShellTypeOK, BetweenLines, TerminalIsSaved, Shell, Pids
    <2>2. l \in Commands /\ l \notin {Prompt, Ended}
      <3>1. l \in Commands
        BY CommandsAssumption
      <3>2. l.op \in {"builtin", "program", "&", "|", ";", "&&", "||"}
        BY <3>1, CommandsAssumption
      <3>3. Prompt.op = "prompt" /\ Ended.op = "ended"
        BY DEF Prompt, Ended
      <3> QED
        BY <3>1, <3>2, <3>3
    <2>3. proc' = [proc EXCEPT ![Shell] = new]
      BY <1>2, <2>1 DEF ReadLine
    <2>4. <<Parse(l)>> \in Seq(Frames) /\ Awaits(<<Parse(l)>>) = {} /\ Restores(<<Parse(l)>>) = {}
      BY <2>2, WaitsForNobodyAtAll
    <2>5. /\ new \in Processes /\ new.state = proc[Shell].state /\ new.frames = <<Parse(l)>>
          /\ new.saved = proc[Shell].saved /\ new.stdin = proc[Shell].stdin
      <3> DEFINE frames == <<Parse(l)>>
                 zero == 0
      <3>1. frames \in Seq(Frames) /\ zero \in Int /\ proc[Shell] \in Processes
        BY <2>1, <2>4
      <3> HIDE DEF frames, zero
      <3>2. [proc[Shell] EXCEPT !.frames = frames, !.result = zero] \in Processes
        BY <3>1 DEF Processes
      <3> QED
        BY <2>1, <3>2 DEF Processes, frames, zero
    <2> HIDE DEF new
    <2>6. /\ Awaits(proc[Shell].frames) = {} /\ Restores(proc[Shell].frames) = {}
          /\ Awaits(new.frames) = {} /\ Restores(new.frames) = {}
      BY <2>1, <2>4, <2>5, WaitsForNobodyAtAll
    <2>7. \A q \in Pids : /\ Awaits(proc'[q].frames) = Awaits(proc[q].frames)
                          /\ proc'[q].state = proc[q].state
      BY <2>1, <2>3, <2>5, <2>6
    <2>8. ShellTypeOK'
      BY <2>1, <2>2, <2>3, <2>5 DEF ShellTypeOK
    <2>9. OnlyRunning'
      <3>1. new.state = "runs"
        BY <2>1, <2>5 DEF SavesTerminal
      <3> QED
        BY <3>1, <2>1, <2>3 DEF OnlyRunning
    <2>10. EachAwaited'
      <3>1. WaitedIsThere'
        <4> SUFFICES ASSUME NEW q \in Pids, NEW w \in Awaits(proc'[q].frames)
                     PROVE  w[2] # Shell /\ proc'[w[2]].state # "none"
          BY DEF WaitedIsThere
        <4>1. w \in Awaits(proc[q].frames) /\ w[2] \in Pids
          BY <2>7 DEF Awaits
        <4> QED
          BY <4>1, <2>7 DEF EachAwaited, WaitedIsThere
      <3>2. ThereIsWaited'
        BY <2>7 DEF EachAwaited, ThereIsWaited
      <3>3. WaitedOnce'
        BY <2>7 DEF EachAwaited, WaitedOnce
      <3> QED
        BY <3>1, <3>2, <3>3 DEF EachAwaited
    <2>11. TerminalIsSaved'
      BY <2>1, <2>3, <2>5, <2>6 DEF TerminalIsSaved, SavesTerminal
    <2>12. EnoughSaved'
      <3>1. HasSaved(new)
        BY <2>1, <2>5, <2>6 DEF HasSaved, EnoughSaved
      <3> QED
        BY <3>1, <2>1, <2>3 DEF EnoughSaved
    <2>13. BetweenLines'
      BY <2>1, <2>2 DEF BetweenLines
    <2> QED
      BY <2>8, <2>9, <2>10, <2>11, <2>12, <2>13
  <1> QED
    BY <1>1, <1>2

LEMMA ShellStep == IInv /\ [Next]_vars => IInv'
  <1> SUFFICES ASSUME IInv, [Next]_vars
               PROVE  IInv'
    OBVIOUS
  <1>1. ASSUME NEW p \in Pids, Step(p)
        PROVE  IInv'
    BY <1>1, AloneStep, ForkStep, ReapStep, WorkStep DEF Step
  <1>2. CASE (\E l \in Lines : ReadLine(l)) \/ EndOfLine
    BY <1>2, LineStep
  <1>3. CASE UNCHANGED vars
    <2>1. UNCHANGED <<proc, pipe, line>>
      BY <1>3 DEF vars
    <2> QED
      BY <2>1 DEF IInv, ShellTypeOK, OnlyRunning, EachAwaited, WaitedIsThere, ThereIsWaited,
                  WaitedOnce, TerminalIsSaved, EnoughSaved, BetweenLines
  <1> QED
    BY <1>1, <1>2, <1>3 DEF Next

\* The shell and its children always satisfy the invariant: each part of it is needed to
\* prove the others, and it implies what the runs check of waits and of the terminal.
THEOREM ShellInvariant == Spec => []IInv
  <1>1. Init => IInv
    BY ShellInit
  <1>2. IInv /\ [Next]_vars => IInv'
    BY ShellStep
  <1> QED
    BY <1>1, <1>2, PTL DEF Spec

\* To wait at a depth is to have a frame there that waits.
LEMMA AwaitedFrame ==
    ASSUME NEW s \in Seq(Frames)
    PROVE  /\ \A f \in ToSet(s) : f[1] \in {"wait", "join", "restore"} =>
                  \E d \in 1 .. Len(s) : <<d, f[2]>> \in Awaits(s) /\ Frame(s, d) = f
           /\ \A w \in Awaits(s) : \E f \in ToSet(s) :
                  f[1] \in {"wait", "join", "restore"} /\ f[2] = w[2]
  <1>1. Len(s) \in Nat /\ ToSet(s) = {s[i] : i \in 1 .. Len(s)} /\ ToSet(s) \subseteq Frames
    BY LenProperties DEF ToSet
  <1>2. ASSUME NEW f \in ToSet(s), f[1] \in {"wait", "join", "restore"}
        PROVE  \E d \in 1 .. Len(s) : <<d, f[2]>> \in Awaits(s) /\ Frame(s, d) = f
    <2>1. PICK i \in 1 .. Len(s) : s[i] = f
      BY <1>1
    <2>2. f[2] \in Pids
      BY <1>1, <1>2, WaitFrame DEF Waits
    <2>3. Len(s) + 1 - i \in 1 .. Len(s) /\ Frame(s, Len(s) + 1 - i) = f
      <3>1. Len(s) + 1 - (Len(s) + 1 - i) = i
        BY <1>1
      <3> QED
        BY <3>1, <2>1, <1>1 DEF Frame
    <2> DEFINE d == Len(s) + 1 - i
    <2>4. d \in Nat /\ d \in 1 .. Len(s) /\ Frame(s, d) = f
      BY <2>3
    <2> HIDE DEF d
    <2>5. <<d, f[2]>> \in Awaits(s)
      BY <2>2, <2>4, <1>2 DEF Awaits
    <2> QED
      BY <2>4, <2>5
  <1>3. ASSUME NEW w \in Awaits(s)
        PROVE  \E f \in ToSet(s) : f[1] \in {"wait", "join", "restore"} /\ f[2] = w[2]
    <2>1. w[1] \in 1 .. Len(s) /\ Len(s) + 1 - w[1] \in 1 .. Len(s)
      BY <1>1 DEF Awaits
    <2>2. Frame(s, w[1]) \in ToSet(s)
      BY <2>1, <1>1 DEF Frame
    <2> QED
      BY <2>2 DEF Awaits
  <1> QED
    BY <1>2, <1>3

\* Whatever commands are nested in a line, and however its processes are scheduled and
\* killed, each child is waited for exactly once: there is no zombie nobody waits for, and
\* no wait for a child that is not there (run_in_parallel, run_on_pipe, parse_simple).
THEOREM ChildrenAreAwaited == Spec => []EveryChildIsAwaited
  <1>1. IInv => EveryChildIsAwaited
    <2> SUFFICES ASSUME IInv PROVE EveryChildIsAwaited
      OBVIOUS
    <2>1. ASSUME NEW p \in Pids, NEW f \in WaitsFor(p)
          PROVE  \E d \in 1 .. Len(proc[p].frames) :
                     <<d, f[2]>> \in Awaits(proc[p].frames) /\ Frame(proc[p].frames, d) = f
      <3>1. proc[p].frames \in Seq(Frames)
        BY DEF IInv, ShellTypeOK, Processes
      <3> QED
        BY <2>1, <3>1, AwaitedFrame DEF WaitsFor
    <2>2. ASSUME NEW p \in Pids, NEW w \in Awaits(proc[p].frames)
          PROVE  \E f \in WaitsFor(p) : f[2] = w[2]
      <3>1. proc[p].frames \in Seq(Frames)
        BY DEF IInv, ShellTypeOK, Processes
      <3> QED
        BY <2>2, <3>1, AwaitedFrame DEF WaitsFor
    <2>3. ASSUME NEW q \in Pids \ {Shell}, proc[q].state # "none"
          PROVE  \E p \in Pids : \E f \in WaitsFor(p) : f[2] = q
      <3>1. PICK p \in Pids : \E w \in Awaits(proc[p].frames) : w[2] = q
        BY <2>3 DEF IInv, EachAwaited, ThereIsWaited
      <3> QED
        BY <3>1, <2>2
    <2>4. ASSUME NEW q \in Pids \ {Shell}, NEW p \in Pids, NEW f \in WaitsFor(p), f[2] = q
          PROVE  proc[q].state # "none"
      <3>1. PICK d \in 1 .. Len(proc[p].frames) : <<d, f[2]>> \in Awaits(proc[p].frames)
        BY <2>1
      <3> QED
        BY <3>1, <2>4 DEF IInv, EachAwaited, WaitedIsThere
    <2>5. ASSUME NEW p \in Pids, NEW q \in Pids, NEW f \in WaitsFor(p), NEW g \in WaitsFor(q),
                 f[2] = g[2]
          PROVE  p = q /\ f = g
      <3>1. PICK d \in 1 .. Len(proc[p].frames) :
                <<d, f[2]>> \in Awaits(proc[p].frames) /\ Frame(proc[p].frames, d) = f
        BY <2>1
      <3>2. PICK e \in 1 .. Len(proc[q].frames) :
                <<e, g[2]>> \in Awaits(proc[q].frames) /\ Frame(proc[q].frames, e) = g
        BY <2>1
      <3>3. p = q /\ <<d, f[2]>> = <<e, g[2]>>
        BY <3>1, <3>2, <2>5 DEF IInv, EachAwaited, WaitedOnce
      <3> QED
        BY <3>1, <3>2, <3>3
    <2> QED
      BY <2>3, <2>4, <2>5 DEF EveryChildIsAwaited
  <1> QED
    BY <1>1, ShellInvariant, PTL

\* Between two lines the shell has its terminal and none of the descriptors that the pipes
\* of the line had it save, however deep these were nested (run_on_pipe).
THEOREM TerminalComesBack == Spec => []TerminalRestored
  <1>1. IInv => TerminalRestored
    <2> SUFFICES ASSUME IInv, line \in {Prompt, Ended}
                 PROVE  proc[Shell].stdin = Terminal /\ proc[Shell].saved = <<>>
      BY DEF TerminalRestored
    <2>1. Shell \in Pids /\ proc[Shell].saved \in Seq(Ends)
      BY MiniShellAssumption DEF IInv, ShellTypeOK, Processes, Shell, Pids
    <2>2. proc[Shell].frames = <<>> /\ SavesTerminal(proc[Shell])
      BY DEF IInv, BetweenLines, TerminalIsSaved
    <2>3. Restores(proc[Shell].frames) = {}
      BY <2>2, WaitsForNobodyAtAll
    <2>4. Len(proc[Shell].saved) = 0
      BY <2>2, <2>3, FS_EmptySet DEF SavesTerminal
    <2>5. proc[Shell].saved = <<>>
      BY <2>1, <2>4, EmptySeq
    <2> QED
      BY <2>2, <2>5 DEF SavesTerminal
  <1> QED
    BY <1>1, ShellInvariant, PTL

-----------------------------------------------------------------------------
(* What a line returns *)

Results == Int \ {KILLED}

\* A set of numbers has a least one.
LEMMA LeastNumber == ASSUME NEW I \in SUBSET Nat, I # {} PROVE \E x \in I : \A y \in I : x <= y
  <1> DEFINE Below == {p \in Nat \X Nat : p[1] < p[2]}
  <1>1. IsWellFoundedOn(Below, Nat)
    <2>1. OpToRel(<, Nat) = Below
      BY DEF OpToRel
    <2> QED
      BY <2>1, NatLessThanWellFounded
  <1>2. PICK x \in I : \A y \in I : <<y, x>> \notin Below
    <2> HIDE DEF Below
    <2> QED
      BY <1>1, WFMin
  <1>3. \A v, y \in I : <<y, v>> \notin Below => v <= y
    OBVIOUS
  <1> HIDE DEF Below
  <1>4. \A y \in I : x <= y
    BY <1>2, <1>3
  <1> QED
    BY <1>4

\* Values that are right for the commands that are not too deep.
RightBelow(g, n) ==
    /\ g \in [Commands -> Results]
    /\ \A c \in Commands : Depth[c] < n => g[c] = ValueBy(g, c)

LEMMA ValueOfParts ==
    ASSUME NEW c \in Commands, NEW g
    PROVE  /\ Depth[c] \in Nat
           /\ (\A d \in Commands : Depth[d] < Depth[c] => g[d] \in Results) =>
                  ValueBy(g, c) \in Results
           /\ \A h :
                  (\A d \in Commands : Depth[d] < Depth[c] => h[d] = g[d]) =>
                      ValueBy(h, c) = ValueBy(g, c)
  <1>1. Depth[c] \in Nat
    BY CommandsAssumption
  <1> DEFINE Typed == \A d \in Commands : Depth[d] < Depth[c] => g[d] \in Results
             Same(h) == \A d \in Commands : Depth[d] < Depth[c] => h[d] = g[d]
  <1>2. CASE c.op = "builtin" /\ c.result \in Results
    BY <1>1, <1>2 DEF ValueBy
  <1>3. CASE c.op = "program" /\ c.status \in 0 .. KILLED
    BY <1>1, <1>3 DEF ValueBy, Results, Returned, KILLED
  <1>4. CASE /\ c.op \in {"&", "|", ";", "&&", "||"} /\ c.cmd1 \in Commands /\ c.cmd2 \in Commands
             /\ Depth[c.cmd1] < Depth[c] /\ Depth[c.cmd2] < Depth[c]
    <2>1. ASSUME Typed PROVE ValueBy(g, c) \in Results
      <3> DEFINE v == g[c.cmd1]
                 w == g[c.cmd2]
      <3>0. 0 \in Results /\ 1 \in Results
        BY DEF Results, KILLED
      <3>1. v \in Results /\ w \in Results /\ 0 \in Results /\ 1 \in Results
        BY <1>4, <2>1, <3>0
      <3>2. CASE c.op = ";"
        BY <3>1, <3>2 DEF ValueBy
      <3>3. CASE c.op = "&"
        BY <3>1, <3>3 DEF ValueBy
      <3>4. CASE c.op = "|"
        BY <3>1, <3>4 DEF ValueBy
      <3>5. CASE c.op \in {"&&", "||"}
        BY <3>1, <3>5 DEF ValueBy
      <3> QED
        BY <1>4, <3>2, <3>3, <3>4, <3>5
    <2>2. ASSUME NEW h, Same(h)
          PROVE  ValueBy(h, c) = ValueBy(g, c)
      <3>1. h[c.cmd1] = g[c.cmd1] /\ h[c.cmd2] = g[c.cmd2]
        BY <1>4, <2>2
      <3> QED
        BY <1>4, <3>1 DEF ValueBy
    <2> QED
      BY <1>1, <2>1, <2>2
  <1> QED
    BY <1>2, <1>3, <1>4, CommandsAssumption DEF Results

LEMMA RightAgree ==
    ASSUME NEW n \in Nat, NEW g, NEW h, RightBelow(g, n), RightBelow(h, n)
    PROVE  \A c \in Commands : Depth[c] < n => g[c] = h[c]
  <1> DEFINE Apart == {c \in Commands : Depth[c] < n /\ g[c] # h[c]}
             Depths == {Depth[c] : c \in Apart}
  <1>1. SUFFICES ASSUME Depths # {} PROVE FALSE
    OBVIOUS
  <1>2. Depths \subseteq Nat
    BY CommandsAssumption
  <1> HIDE DEF Depths
  <1>3. PICK x \in Depths : \A y \in Depths : x <= y
    BY <1>1, <1>2, LeastNumber
  <1>4. PICK c \in Apart : Depth[c] = x
    BY <1>3 DEF Depths
  <1>5. ASSUME NEW d \in Commands, Depth[d] < Depth[c] PROVE g[d] = h[d]
    <2>1. Depth[d] \in Nat /\ Depth[c] \in Nat
      BY CommandsAssumption
    <2>2. d \notin Apart
      BY <1>3, <1>4, <1>5, <2>1 DEF Depths
    <2> QED
      BY <1>4, <1>5, <2>1, <2>2
  <1>6. /\ g \in [Commands -> Results] /\ h \in [Commands -> Results]
        /\ g[c] = ValueBy(g, c) /\ h[c] = ValueBy(h, c)
    BY <1>4 DEF RightBelow
  <1>7. ValueBy(g, c) = ValueBy(h, c)
    BY <1>4, <1>5, <1>6, ValueOfParts
  <1> QED
    BY <1>4, <1>6, <1>7

\* There are values for commands of any depth: if there were none, there would be a least
\* depth with none.
LEMMA RightExists == \A n \in Nat : \E g : RightBelow(g, n)
  <1> DEFINE Without == {n \in Nat : ~\E g : RightBelow(g, n)}
  <1>1. SUFFICES ASSUME Without # {} PROVE FALSE
    OBVIOUS
  <1>2. PICK n \in Without : \A m \in Without : n <= m
    BY <1>1, LeastNumber
  <1>3. RightBelow([c \in Commands |-> 0], 0)
    <2>1. \A c \in Commands : ~(Depth[c] < 0)
      <3>1. Depth \in [Commands -> Nat]
        BY CommandsAssumption
      <3> QED
        BY <3>1
    <2>2. [c \in Commands |-> 0] \in [Commands -> Results]
      <3> DEFINE zero == 0
      <3>1. zero \in Results
        BY DEF Results, KILLED
      <3> HIDE DEF zero
      <3>2. [c \in Commands |-> zero] \in [Commands -> Results]
        BY <3>1
      <3> QED
        BY <3>2 DEF zero
    <2> QED
      BY <2>1, <2>2 DEF RightBelow
  <1>4. n # 0
    BY <1>2, <1>3
  <1>5. n - 1 \in Nat /\ n - 1 \notin Without
    BY <1>2, <1>4
  <1>6. PICK g : RightBelow(g, n - 1)
    BY <1>5
  <1> DEFINE h == [c \in Commands |-> IF Depth[c] < n - 1 THEN g[c] ELSE ValueBy(g, c)]
  <1>7. g \in [Commands -> Results] /\ \A c \in Commands : Depth[c] \in Nat
    BY <1>6, CommandsAssumption DEF RightBelow
  <1>8. h \in [Commands -> Results]
    BY <1>7, ValueOfParts
  <1>9. ASSUME NEW c \in Commands, Depth[c] < n PROVE h[c] = ValueBy(h, c)
    <2>1. h[c] = ValueBy(g, c)
      BY <1>6, <1>7 DEF RightBelow
    <2>2. \A d \in Commands : Depth[d] < Depth[c] => h[d] = g[d]
      BY <1>5, <1>7, <1>9
    <2> HIDE DEF h
    <2>3. ValueBy(h, c) = ValueBy(g, c)
      BY <2>2, <1>7, <1>8, ValueOfParts
    <2> QED
      BY <2>1, <2>3
  <1>10. RightBelow(h, n)
    <2> HIDE DEF h
    <2> QED
      BY <1>8, <1>9 DEF RightBelow
  <1> QED
    BY <1>2, <1>10

\* Value is what its recursion says: commands are finite.
LEMMA ValueIsRight == /\ Value \in [Commands -> Results]
                      /\ \A c \in Commands : Value[c] = ValueBy(Value, c)
  <1> DEFINE G(n) == CHOOSE g : RightBelow(g, n)
             all == [c \in Commands |-> G(Depth[c] + 1)[c]]
  <1>1. \A c \in Commands : Depth[c] \in Nat
    BY CommandsAssumption
  <1>2. \A n \in Nat : RightBelow(G(n), n)
    BY RightExists
  <1> HIDE DEF G
  <1>3. ASSUME NEW c \in Commands
        PROVE  all[c] \in Results
    <2>1. RightBelow(G(Depth[c] + 1), Depth[c] + 1)
      BY <1>1, <1>2
    <2> QED
      BY <2>1 DEF RightBelow
  <1>4. ASSUME NEW c \in Commands
        PROVE  all[c] = ValueBy(all, c)
    <2> DEFINE n == Depth[c] + 1
               g == G(n)
    <2>1. n \in Nat /\ RightBelow(g, n) /\ Depth[c] < n
      BY <1>1, <1>2
    <2>2. ASSUME NEW d \in Commands, Depth[d] < Depth[c] PROVE all[d] = g[d]
      <3> DEFINE m == Depth[d] + 1
      <3>1. m \in Nat /\ m <= n /\ RightBelow(G(m), m) /\ Depth[d] < m
        BY <1>1, <1>2, <2>2
      <3>2. RightBelow(g, m)
        <4>1. \A e \in Commands : Depth[e] < m => Depth[e] < n
          BY <1>1, <3>1, <2>1
        <4> HIDE DEF n, g, m
        <4> QED
          BY <4>1, <2>1 DEF RightBelow
      <3>3. G(m)[d] = g[d]
        <4> HIDE DEF g, m
        <4> QED
          BY <3>1, <3>2, RightAgree
      <3> QED
        BY <3>3
    <2>3. all \in [Commands -> Results]
      BY <1>3
    <2>4. g \in [Commands -> Results] /\ g[c] = ValueBy(g, c) /\ all[c] = g[c]
      BY <2>1 DEF RightBelow
    <2> HIDE DEF all, g, n
    <2> QED
      BY <2>2, <2>3, <2>4, ValueOfParts
  <1>5. all \in [Commands -> Results] /\ all = [c \in Commands |-> ValueBy(all, c)]
    <2>1. all \in [Commands -> Results]
      BY <1>3
    <2> QED
      BY <1>4, <2>1
  <1> HIDE DEF all
  <1>6. Value = [c \in Commands |-> ValueBy(Value, c)]
    BY <1>5 DEF Value
  <1>7. \A c \in Commands : Value[c] \in Results
    <2> DEFINE Wrong == {c \in Commands : Value[c] \notin Results}
               Depths == {Depth[c] : c \in Wrong}
    <2>1. SUFFICES ASSUME Depths # {} PROVE FALSE
      OBVIOUS
    <2>2. Depths \subseteq Nat
      BY <1>1
    <2> HIDE DEF Depths
    <2>3. PICK x \in Depths : \A y \in Depths : x <= y
      BY <2>1, <2>2, LeastNumber
    <2>4. PICK c \in Wrong : Depth[c] = x
      BY <2>3 DEF Depths
    <2>5. ASSUME NEW d \in Commands, Depth[d] < Depth[c] PROVE Value[d] \in Results
      <3>1. ASSUME d \in Wrong PROVE FALSE
        <4>1. Depth[d] \in Depths
          BY <3>1 DEF Depths
        <4>2. x <= Depth[d] /\ Depth[d] \in Nat /\ x \in Nat
          BY <4>1, <2>3, <1>1, <2>2
        <4> HIDE DEF Wrong
        <4> QED
          BY <4>2, <2>4, <2>5
      <3> QED
        BY <3>1
    <2>6. Value[c] = ValueBy(Value, c)
      BY <1>6, <2>4
    <2>7. ValueBy(Value, c) \in Results
      BY <2>4, <2>5, ValueOfParts
    <2> QED
      BY <2>4, <2>6, <2>7
  <1> QED
    BY <1>6, <1>7

-----------------------------------------------------------------------------
\* What becomes of a result r when a frame is done; status has those of the children.
Effect(f, r, status) ==
    CASE f[1] = "parse" -> Value[f[2]]
      [] f[1] = "wait" -> Returned(status[f[2]])
      [] f[1] = "join" -> Both(r, status[f[2]])
      [] f[1] = "restore" -> IF r # 0 THEN 1 ELSE 0
      [] f[1] = "zero" -> 0
      [] f[1] \in {"&&", "||"} -> IF GoesOn(f[1], r) THEN Value[f[2]] ELSE r

\* e is the results that a process is going to have: e[d] when d of its frames are left.
Expects(e, s, r, status) ==
    e[Len(s)] = r /\ \A d \in 1 .. Len(s) : e[d - 1] = Effect(Frame(s, d), e[d], status)

\* A child's status, when it has ended.
Statuses(es) ==
    [q \in Pids |-> IF proc[q].state = "zombie" THEN proc[q].result ELSE ExitCode(es[q][0])]

\* All that has been forked will return what its part of the line returns.
Determined(es) ==
    /\ \A p \in Pids : proc[p].state # "none" =>
           Expects(es[p], proc[p].frames, proc[p].result, Statuses(es))
    /\ line \in Lines => es[Shell][0] = Value[line]

ResultsInv == \E es \in [Pids -> [Nat -> Int]] : Determined(es)

\* The expectations of a stack are those of the statuses that it waits for.
LEMMA ExpectsOfAwaited ==
    ASSUME NEW s \in Seq(Frames), NEW e, NEW r, NEW old, NEW new, Expects(e, s, r, old),
           \A w \in Awaits(s) : new[w[2]] = old[w[2]]
    PROVE  Expects(e, s, r, new)
  <1> SUFFICES ASSUME NEW d \in 1 .. Len(s)
               PROVE  Effect(Frame(s, d), e[d], new) = Effect(Frame(s, d), e[d], old)
    BY DEF Expects
  <1> DEFINE f == Frame(s, d)
  <1>1. f \in Frames
    <2>1. Len(s) + 1 - d \in 1 .. Len(s)
      BY LenProperties
    <2> QED
      BY <2>1 DEF Frame
  <1>2. CASE f[1] \in Waits
    <2>1. <<d, f[2]>> \in Awaits(s) /\ <<d, f[2]>>[2] = f[2]
      BY <1>1, <1>2, WaitFrame, LenProperties DEF Awaits, Waits
    <2>2. new[f[2]] = old[f[2]]
      BY <2>1
    <2> HIDE DEF f
    <2> QED
      BY <1>2, <2>2 DEF Effect, Waits
  <1>3. CASE f[1] \notin Waits
    <2> HIDE DEF f
    <2> QED
      BY <1>3 DEF Effect, Waits
  <1> QED
    BY <1>2, <1>3

\* Other frames in the place of the top one, with the same effect.
LEMMA ExpectsReplaced ==
    ASSUME NEW s \in Seq(Frames), s # <<>>, NEW fs \in Seq(Frames), NEW status,
           NEW e, NEW r, Expects(e, s, r, status), NEW g, NEW x,
           \A d \in 0 .. Len(s) - 1 : g[d] = e[d],
           g[Len(fs) + Len(s) - 1] = x,
           \A i \in 1 .. Len(fs) :
               g[Len(fs) + Len(s) - 1 - i] = Effect(fs[i], g[Len(fs) + Len(s) - i], status)
    PROVE  Expects(g, fs \o Tail(s), x, status)
  <1> DEFINE t == fs \o Tail(s)
  <1>1. Replaces(t, s, fs) /\ Len(s) \in Nat \ {0} /\ Len(fs) \in Nat
    BY Replacing, TopFrame, LenProperties
  <1> HIDE DEF t
  <1>2. Len(t) = Len(fs) + Len(s) - 1
    BY <1>1 DEF Replaces
  <1>3. ASSUME NEW d \in 1 .. Len(t) PROVE g[d - 1] = Effect(Frame(t, d), g[d], status)
    <2>1. CASE d <= Len(s) - 1
      <3>1. d \in 1 .. Len(s) - 1 /\ d \in 1 .. Len(s) /\ d \in 0 .. Len(s) - 1
            /\ d - 1 \in 0 .. Len(s) - 1
        BY <2>1, <1>1, <1>2
      <3>2. Frame(t, d) = Frame(s, d)
        BY <3>1, <1>1 DEF Replaces
      <3>3. g[d] = e[d] /\ g[d - 1] = e[d - 1]
        BY <3>1
      <3>4. e[d - 1] = Effect(Frame(s, d), e[d], status)
        BY <3>1 DEF Expects
      <3> QED
        BY <3>2, <3>3, <3>4
    <2>2. CASE d > Len(s) - 1
      <3> DEFINE i == Len(t) + 1 - d
      <3>1. /\ i \in 1 .. Len(fs) /\ Len(t) + 1 - i = d
            /\ Len(fs) + Len(s) - 1 - i = d - 1 /\ Len(fs) + Len(s) - i = d
        BY <2>2, <1>1, <1>2
      <3> HIDE DEF i
      <3>2. Frame(t, d) = fs[i]
        BY <3>1, <1>1 DEF Replaces
      <3> QED
        BY <3>1, <3>2
    <2> QED
      BY <2>1, <2>2, <1>1, <1>2
  <1> QED
    BY <1>2, <1>3 DEF Expects, t

\* fs turn a result x into y.
Does(fs, x, y, status) ==
    \E h \in [Nat -> Int] :
        /\ h[Len(fs)] = x /\ h[0] = y
        /\ \A i \in 1 .. Len(fs) : h[Len(fs) - i] = Effect(fs[i], h[Len(fs) + 1 - i], status)

\* There are expectations that lead to z.
LeadTo(z, s, r, status) == \E g \in [Nat -> Int] : Expects(g, s, r, status) /\ g[0] = z

LEMMA ExpectsNext ==
    ASSUME NEW s \in Seq(Frames), s # <<>>, NEW fs \in Seq(Frames), NEW status, NEW x,
           NEW e \in [Nat -> Int], NEW r, Expects(e, s, r, status),
           Does(fs, x, Effect(Head(s), r, status), status)
    PROVE  LeadTo(e[0], fs \o Tail(s), x, status)
  <1> DEFINE n == Len(s)
             m == Len(fs)
             y == Effect(Head(s), r, status)
  <1>1. PICK h \in [Nat -> Int] :
            /\ h[m] = x /\ h[0] = y
            /\ \A i \in 1 .. m : h[m - i] = Effect(fs[i], h[m + 1 - i], status)
    BY DEF Does
  <1>2. n \in Nat \ {0} /\ m \in Nat /\ Frame(s, n) = Head(s)
    BY TopFrame, LenProperties
  <1>3. e[n - 1] = y
    <2>1. n \in 1 .. Len(s)
      BY <1>2
    <2>2. e[n - 1] = Effect(Frame(s, n), e[n], status) /\ e[n] = r
      BY <2>1 DEF Expects
    <2> QED
      BY <2>2, <1>2
  <1> HIDE DEF n, m, y
  <1> DEFINE g == [d \in Nat |-> IF d < n THEN e[d] ELSE h[d - (n - 1)]]
  <1>4. g \in [Nat -> Int]
    BY <1>2
  <1>5. \A d \in 0 .. n - 1 : g[d] = e[d]
    BY <1>2
  <1>6. ASSUME NEW i \in 0 .. m PROVE g[m + n - 1 - i] = h[m - i]
    <2>1. CASE i = m
      BY <2>1, <1>1, <1>2, <1>3
    <2>2. CASE i # m
      <3> DEFINE d == m + n - 1 - i
      <3>1. d \in Nat /\ ~(d < n) /\ d - (n - 1) = m - i
        BY <2>2, <1>2
      <3> HIDE DEF d
      <3>2. g[d] = h[m - i]
        BY <3>1
      <3> QED
        BY <3>2 DEF d
    <2> QED
      BY <2>1, <2>2
  <1> HIDE DEF g
  <1>7. g[m + n - 1] = x
    <2>1. 0 \in 0 .. m /\ m + n - 1 - 0 = m + n - 1 /\ m - 0 = m
      BY <1>2
    <2>2. g[m + n - 1 - 0] = h[m - 0]
      BY <2>1, <1>6
    <2> QED
      BY <2>1, <2>2, <1>1
  <1>8. ASSUME NEW i \in 1 .. m PROVE g[m + n - 1 - i] = Effect(fs[i], g[m + n - i], status)
    <2>1. i \in 0 .. m /\ i - 1 \in 0 .. m /\ m + n - 1 - (i - 1) = m + n - i /\ m - (i - 1) = m + 1 - i
      BY <1>2
    <2>2. g[m + n - 1 - i] = h[m - i] /\ g[m + n - 1 - (i - 1)] = h[m - (i - 1)]
      BY <2>1, <1>6
    <2> QED
      BY <2>1, <2>2, <1>1
  <1>9. Expects(g, fs \o Tail(s), x, status)
    BY <1>5, <1>7, <1>8, ExpectsReplaced DEF n, m
  <1>10. g[0] = e[0]
    BY <1>2, <1>5
  <1> QED
    BY <1>4, <1>9, <1>10 DEF LeadTo

\* The frames of a step.
LEMMA DoesNothing == ASSUME NEW x \in Int, NEW status PROVE Does(<<>>, x, x, status)
  <1> DEFINE h == [d \in Nat |-> x]
  <1>1. h \in [Nat -> Int] /\ h[0] = x
    OBVIOUS
  <1> HIDE DEF h
  <1>2. Len(<<>>) = 0 /\ \A i \in 1 .. 0 : FALSE
    OBVIOUS
  <1> QED
    BY <1>1, <1>2 DEF Does

LEMMA DoesOne ==
    ASSUME NEW f, NEW x \in Int, NEW y \in Int, NEW status, y = Effect(f, x, status)
    PROVE  Does(<<f>>, x, y, status)
  <1> DEFINE h == [d \in Nat |-> IF d = 0 THEN y ELSE x]
  <1>1. h \in [Nat -> Int] /\ h[1] = x /\ h[0] = y
    OBVIOUS
  <1> HIDE DEF h
  <1>2. Len(<<f>>) = 1 /\ <<f>>[1] = f
    OBVIOUS
  <1>3. ASSUME NEW i \in 1 .. 1 PROVE h[1 - i] = Effect(<<f>>[i], h[1 + 1 - i], status)
    <2>1. i = 1 /\ 1 - i = 0 /\ 1 + 1 - i = 1
      OBVIOUS
    <2> QED
      BY <2>1, <1>1, <1>2
  <1> QED
    BY <1>1, <1>2, <1>3 DEF Does

LEMMA DoesTwo ==
    ASSUME NEW f, NEW g, NEW x \in Int, NEW y \in Int, NEW z \in Int, NEW status,
           z = Effect(f, x, status), y = Effect(g, z, status)
    PROVE  Does(<<f, g>>, x, y, status)
  <1> DEFINE h == [d \in Nat |-> IF d = 0 THEN y ELSE IF d = 1 THEN z ELSE x]
  <1>1. h \in [Nat -> Int] /\ h[2] = x /\ h[1] = z /\ h[0] = y
    OBVIOUS
  <1> HIDE DEF h
  <1>2. Len(<<f, g>>) = 2 /\ <<f, g>>[1] = f /\ <<f, g>>[2] = g
    OBVIOUS
  <1>3. ASSUME NEW i \in 1 .. 2 PROVE h[2 - i] = Effect(<<f, g>>[i], h[2 + 1 - i], status)
    <2>1. \/ i = 1 /\ 2 - i = 1 /\ 2 + 1 - i = 2
          \/ i = 2 /\ 2 - i = 0 /\ 2 + 1 - i = 1
      OBVIOUS
    <2> QED
      BY <2>1, <1>1, <1>2
  <1> QED
    BY <1>1, <1>2, <1>3 DEF Does

LEMMA DoesThree ==
    ASSUME NEW f, NEW g, NEW k, NEW x \in Int, NEW y \in Int, NEW z \in Int, NEW u \in Int,
           NEW status,
           z = Effect(f, x, status), u = Effect(g, z, status), y = Effect(k, u, status)
    PROVE  Does(<<f, g, k>>, x, y, status)
  <1> DEFINE h == [d \in Nat |-> IF d = 0 THEN y ELSE IF d = 1 THEN u ELSE IF d = 2 THEN z ELSE x]
  <1>1. h \in [Nat -> Int] /\ h[3] = x /\ h[2] = z /\ h[1] = u /\ h[0] = y
    OBVIOUS
  <1> HIDE DEF h
  <1>2. Len(<<f, g, k>>) = 3 /\ <<f, g, k>>[1] = f /\ <<f, g, k>>[2] = g /\ <<f, g, k>>[3] = k
    OBVIOUS
  <1>3. ASSUME NEW i \in 1 .. 3 PROVE h[3 - i] = Effect(<<f, g, k>>[i], h[3 + 1 - i], status)
    <2>1. \/ i = 1 /\ 3 - i = 2 /\ 3 + 1 - i = 3
          \/ i = 2 /\ 3 - i = 1 /\ 3 + 1 - i = 2
          \/ i = 3 /\ 3 - i = 0 /\ 3 + 1 - i = 1
      OBVIOUS
    <2> QED
      BY <2>1, <1>1, <1>2
  <1> QED
    BY <1>1, <1>2, <1>3 DEF Does

-----------------------------------------------------------------------------
Expectations == [Pids -> [Nat -> Int]]

\* What the other processes expect changes with nothing but the statuses they wait for.
LEMMA OthersExpect ==
    ASSUME IInv, NEW es \in Expectations, Determined(es), NEW r \in Pids, proc[r].state # "none",
           NEW new, \A w \in Awaits(proc[r].frames) : new[w[2]] = Statuses(es)[w[2]]
    PROVE  Expects(es[r], proc[r].frames, proc[r].result, new)
  <1>1. proc[r].frames \in Seq(Frames)
    BY DEF IInv, ShellTypeOK, Processes
  <1>2. Expects(es[r], proc[r].frames, proc[r].result, Statuses(es))
    BY DEF Determined
  <1> QED
    BY <1>1, <1>2, ExpectsOfAwaited

LEMMA AloneDetermined ==
    ASSUME IInv, NEW es \in Expectations, Determined(es),
           NEW p \in Pids, NEW kind, At(p, kind), kind \notin Waits,
           NEW fs \in Seq(Frames), NEW x \in Int,
           \A status : Does(fs, x, Effect(Top(p), proc[p].result, status), status),
           proc' = [proc EXCEPT ![p] = Continue(p, fs, x)], line' = line
    PROVE  ResultsInv'
  <1> DEFINE s == proc[p].frames
             new == Continue(p, fs, x)
             status == Statuses(es)
  <1>1. /\ proc \in [Pids -> Processes] /\ proc[p].state = "runs"
        /\ s \in Seq(Frames) /\ s # <<>> /\ Head(s) = Top(p)
    BY TopOf DEF IInv, ShellTypeOK
  <1>2. /\ new.frames = fs \o Tail(s) /\ new.state = "runs" /\ new.result = x
    BY <1>1, Continued DEF IInv, Continue, ShellTypeOK, Processes
  <1>3. es[p] \in [Nat -> Int] /\ Expects(es[p], s, proc[p].result, status)
    BY <1>1 DEF Expectations, Determined
  <1>4. proc'[p] = new /\ \A r \in Pids \ {p} : proc'[r] = proc[r]
    BY <1>1
  <1>5. Does(fs, x, Effect(Head(s), proc[p].result, status), status)
    BY <1>1
  <1> HIDE DEF s, new, status
  <1>6. PICK g \in [Nat -> Int] : Expects(g, fs \o Tail(s), x, status) /\ g[0] = es[p][0]
    <2> DEFINE e == es[p]
    <2> HIDE DEF e
    <2>1. LeadTo(e[0], fs \o Tail(s), x, status)
      BY <1>1, <1>3, <1>5, ExpectsNext DEF e
    <2> QED
      BY <2>1 DEF LeadTo, e
  <1> DEFINE es2 == [es EXCEPT ![p] = g]
  <1>7. /\ es2 \in Expectations /\ es2[p] = g /\ \A r \in Pids \ {p} : es2[r] = es[r]
    BY <1>6 DEF Expectations
  <1>8. es2[Shell][0] = es[Shell][0]
    BY <1>6, <1>7, MiniShellAssumption DEF Shell, Pids
  <1> HIDE DEF es2
  <1>9. Statuses(es2)' = status
    <2>1. \A q \in Pids : /\ proc'[q].state = "zombie" <=> proc[q].state = "zombie"
                          /\ proc[q].state = "zombie" => proc'[q].result = proc[q].result
                          /\ es2[q][0] = es[q][0]
      BY <1>1, <1>2, <1>4, <1>6, <1>7
    <2> QED
      BY <2>1 DEF Statuses, status
  <1>10. ASSUME NEW r \in Pids, proc'[r].state # "none"
         PROVE  Expects(es2[r], proc'[r].frames, proc'[r].result, status)
    <2>1. CASE r = p
      BY <2>1, <1>2, <1>4, <1>6, <1>7
    <2>2. CASE r # p
      BY <2>2, <1>4, <1>7, <1>10 DEF Determined, status
    <2> QED
      BY <2>1, <2>2
  <1>11. Determined(es2)'
    BY <1>8, <1>9, <1>10 DEF Determined
  <1> QED
    BY <1>7, <1>11 DEF ResultsInv, Expectations

LEMMA ForkDetermined ==
    ASSUME IInv, NEW es \in Expectations, Determined(es),
           NEW p \in Pids, NEW kind, At(p, kind), kind \notin Waits,
           NEW q \in Pids, proc[q].state = "none",
           NEW child, child.state = "runs",
           NEW k \in [Nat -> Int], \A status : Expects(k, child.frames, child.result, status),
           NEW parent, parent.state = "runs",
           NEW fs \in Seq(Frames), NEW x \in Int,
           parent.frames = fs \o Tail(proc[p].frames), parent.result = x,
           \A status : status[q] = ExitCode(k[0]) =>
               Does(fs, x, Effect(Top(p), proc[p].result, status), status),
           proc' = [proc EXCEPT ![q] = child, ![p] = parent], line' = line
    PROVE  ResultsInv'
  <1> DEFINE s == proc[p].frames
             old == Statuses(es)
             new == [old EXCEPT ![q] = ExitCode(k[0])]
  <1>1. /\ proc \in [Pids -> Processes] /\ proc[p].state = "runs"
        /\ s \in Seq(Frames) /\ s # <<>> /\ Head(s) = Top(p)
    BY TopOf DEF IInv, ShellTypeOK
  <1>2. /\ q # p /\ proc'[q] = child /\ proc'[p] = parent
        /\ \A r \in Pids \ {p, q} : proc'[r] = proc[r]
    BY <1>1
  <1>3. new[q] = ExitCode(k[0]) /\ \A r \in Pids \ {q} : new[r] = old[r]
    BY DEF Statuses
  <1>4. ASSUME NEW r \in Pids, proc[r].state # "none"
        PROVE  Expects(es[r], proc[r].frames, proc[r].result, new)
    <2>1. \A w \in Awaits(proc[r].frames) : w[2] \in Pids /\ w[2] # q
      BY DEF IInv, EachAwaited, WaitedIsThere, Awaits
    <2> HIDE DEF old, new
    <2>2. \A w \in Awaits(proc[r].frames) : new[w[2]] = Statuses(es)[w[2]]
      BY <2>1, <1>3 DEF old
    <2> QED
      BY <1>4, <2>2, OthersExpect
  <1>5. es[p] \in [Nat -> Int] /\ Expects(es[p], s, proc[p].result, new)
    BY <1>1, <1>4 DEF Expectations
  <1>6. Does(fs, x, Effect(Head(s), proc[p].result, new), new)
    BY <1>1, <1>3
  <1> HIDE DEF s, old, new
  <1>7. PICK g \in [Nat -> Int] : Expects(g, fs \o Tail(s), x, new) /\ g[0] = es[p][0]
    <2> DEFINE e == es[p]
    <2> HIDE DEF e
    <2>1. LeadTo(e[0], fs \o Tail(s), x, new)
      BY <1>1, <1>5, <1>6, ExpectsNext DEF e
    <2> QED
      BY <2>1 DEF LeadTo, e
  <1> DEFINE es2 == [es EXCEPT ![q] = k, ![p] = g]
  <1>8. /\ es2 \in Expectations /\ es2[p] = g /\ es2[q] = k
        /\ \A r \in Pids \ {p, q} : es2[r] = es[r]
    BY <1>2, <1>7 DEF Expectations
  <1>9. es2[Shell][0] = es[Shell][0]
    <2>1. Shell \in Pids /\ Shell # q
      BY MiniShellAssumption, SMTT(60) DEF Shell, Pids, IInv, TerminalIsSaved, SavesTerminal
    <2> QED
      BY <2>1, <1>7, <1>8
  <1> HIDE DEF es2
  <1>10. Statuses(es2)' = new
    <2>1. ASSUME NEW r \in Pids
          PROVE  new[r] = IF proc'[r].state = "zombie" THEN proc'[r].result ELSE ExitCode(es2[r][0])
      <3>1. CASE r = q
        BY <3>1, <1>2, <1>3, <1>8
      <3>2. CASE r = p
        BY <3>2, <1>1, <1>2, <1>3, <1>7, <1>8 DEF Statuses, old
      <3>3. CASE r \notin {p, q}
        BY <3>3, <1>2, <1>3, <1>8 DEF Statuses, old
      <3> QED
        BY <3>1, <3>2, <3>3
    <2>2. new = [r \in Pids |-> new[r]]
      BY DEF new, old, Statuses
    <2> QED
      BY <2>1, <2>2 DEF Statuses
  <1>11. ASSUME NEW r \in Pids, proc'[r].state # "none"
         PROVE  Expects(es2[r], proc'[r].frames, proc'[r].result, new)
    <2>1. CASE r = p
      BY <2>1, <1>2, <1>7, <1>8 DEF s
    <2>2. CASE r = q
      BY <2>2, <1>2, <1>8
    <2>3. CASE r \notin {p, q}
      BY <2>3, <1>2, <1>4, <1>8, <1>11
    <2> QED
      BY <2>1, <2>2, <2>3
  <1>12. Determined(es2)'
    BY <1>9, <1>10, <1>11 DEF Determined
  <1> QED
    BY <1>8, <1>12 DEF ResultsInv, Expectations

LEMMA ReapDetermined ==
    ASSUME IInv, IInv', NEW es \in Expectations, Determined(es),
           NEW p \in Pids, NEW kind \in Waits, At(p, kind), Exited(Top(p)[2]),
           NEW parent, parent.state = "runs", NEW x \in Int,
           parent.frames = <<>> \o Tail(proc[p].frames), parent.result = x,
           x = Effect(Top(p), proc[p].result, Statuses(es)),
           proc' = [proc EXCEPT ![Top(p)[2]] = Nobody, ![p] = parent], line' = line
    PROVE  ResultsInv'
  <1> DEFINE s == proc[p].frames
             q == Top(p)[2]
             old == Statuses(es)
  <1>1. /\ proc \in [Pids -> Processes] /\ proc[p].state = "runs"
        /\ s \in Seq(Frames) /\ s # <<>> /\ Head(s) = Top(p) /\ q \in Pids
        /\ <<>> \in Seq(Frames)
    BY TopOf, WaitFrame DEF IInv, ShellTypeOK
  <1>2. /\ q # p /\ proc'[q] = Nobody /\ proc'[p] = parent /\ Nobody.state = "none"
        /\ \A r \in Pids \ {p, q} : proc'[r] = proc[r]
    BY <1>1 DEF Exited, Nobody
  <1>3. es[p] \in [Nat -> Int] /\ Expects(es[p], s, proc[p].result, old)
    BY <1>1 DEF Expectations, Determined
  <1>4. Does(<<>>, x, Effect(Head(s), proc[p].result, old), old)
    BY <1>1, DoesNothing
  <1> HIDE DEF s, old, q
  <1>5. PICK g \in [Nat -> Int] : Expects(g, <<>> \o Tail(s), x, old) /\ g[0] = es[p][0]
    <2> DEFINE e == es[p]
    <2> HIDE DEF e
    <2>1. LeadTo(e[0], <<>> \o Tail(s), x, old)
      BY <1>1, <1>3, <1>4, ExpectsNext DEF e
    <2> QED
      BY <2>1 DEF LeadTo, e
  <1> DEFINE es2 == [es EXCEPT ![p] = g]
             new == Statuses(es2)'
  <1>6. /\ es2 \in Expectations /\ es2[p] = g /\ \A r \in Pids \ {p} : es2[r] = es[r]
    BY <1>5 DEF Expectations
  <1>7. es2[Shell][0] = es[Shell][0]
    BY <1>5, <1>6, MiniShellAssumption DEF Shell, Pids
  <1> HIDE DEF es2
  <1>8. \A r \in Pids \ {q} : new[r] = old[r]
    <2> SUFFICES ASSUME NEW r \in Pids \ {q} PROVE new[r] = old[r]
      OBVIOUS
    <2>1. /\ new[r] = IF proc'[r].state = "zombie" THEN proc'[r].result ELSE ExitCode(es2[r][0])
          /\ old[r] = IF proc[r].state = "zombie" THEN proc[r].result ELSE ExitCode(es[r][0])
      BY DEF Statuses, old
    <2>2. CASE r = p
      BY <2>1, <2>2, <1>1, <1>2, <1>5, <1>6
    <2>3. CASE r # p
      BY <2>1, <2>3, <1>2, <1>6
    <2> QED
      BY <2>2, <2>3
  <1> HIDE DEF new
  <1>9. ASSUME NEW r \in Pids, proc'[r].state # "none"
        PROVE  Expects(es2[r], proc'[r].frames, proc'[r].result, new)
    <2>1. r # q
      BY <1>2, <1>9
    <2>2. \A w \in Awaits(proc'[r].frames) : w[2] \in Pids /\ w[2] # q
      <3> SUFFICES ASSUME NEW w \in Awaits(proc'[r].frames) PROVE w[2] \in Pids /\ w[2] # q
        OBVIOUS
      <3>1. proc'[w[2]].state # "none"
        BY DEF IInv, EachAwaited, WaitedIsThere
      <3>2. w[2] \in Pids
        BY DEF Awaits
      <3> QED
        BY <3>1, <3>2, <1>2
    <2>3. proc'[r].frames \in Seq(Frames)
      BY DEF IInv, ShellTypeOK, Processes
    <2>4. Expects(es2[r], proc'[r].frames, proc'[r].result, old)
      <3>1. CASE r = p
        BY <3>1, <1>2, <1>5, <1>6 DEF s
      <3>2. CASE r # p
        BY <3>2, <2>1, <1>2, <1>6, <1>9 DEF Determined, old
      <3> QED
        BY <3>1, <3>2
    <2>5. \A w \in Awaits(proc'[r].frames) : new[w[2]] = old[w[2]]
      BY <2>2, <1>8
    <2> QED
      BY <2>3, <2>4, <2>5, ExpectsOfAwaited
  <1>10. Determined(es2)'
    BY <1>7, <1>9 DEF Determined, new
  <1> QED
    BY <1>6, <1>10 DEF ResultsInv, Expectations

\* A process that works keeps its result; when it has exited, that is its status.
LEMMA WorkDetermined ==
    ASSUME IInv, NEW es \in Expectations, Determined(es), NEW p \in Pids, Works(p),
           NEW new, proc' = [proc EXCEPT ![p] = new], line' = line, new.frames = <<>>,
           \/ new.state = "runs" /\ new.result = proc[p].result
           \/ new.state = "zombie" /\ new.result = ExitCode(proc[p].result)
    PROVE  ResultsInv'
  <1> DEFINE es2 == [es EXCEPT ![p] = [@ EXCEPT ![0] = new.result]]
             status == Statuses(es)
  <1>1. /\ proc \in [Pids -> Processes] /\ proc[p].state = "runs" /\ proc[p].frames = <<>>
        /\ p # Shell /\ Shell \in Pids /\ proc[p].result \in Int /\ new.result \in Int
    <2>1. proc \in [Pids -> Processes] /\ proc[p].state = "runs" /\ proc[p].frames = <<>> /\ p # Shell
      BY DEF Works, Runs, IInv, ShellTypeOK
    <2>2. proc[p].result \in Int
      BY <2>1 DEF Processes
    <2>3. ExitCode(proc[p].result) \in Int
      BY <2>2 DEF ExitCode
    <2>4. Shell \in Pids
      BY MiniShellAssumption DEF Shell, Pids
    <2> QED
      BY <2>1, <2>2, <2>3, <2>4
  <1>2. es[p] \in [Nat -> Int] /\ es[p][0] = proc[p].result
    <2>1. Expects(es[p], <<>>, proc[p].result, Statuses(es)) /\ Len(<<>>) = 0
      BY <1>1 DEF Determined
    <2> QED
      BY <2>1 DEF Expects, Expectations
  <1>3. /\ es2 \in Expectations /\ es2[p] \in [Nat -> Int] /\ es2[p][0] = new.result
        /\ \A r \in Pids \ {p} : es2[r] = es[r]
    BY <1>1, <1>2 DEF Expectations
  <1> HIDE DEF es2
  <1>4. proc'[p] = new /\ \A r \in Pids \ {p} : proc'[r] = proc[r]
    BY <1>1
  <1>5. Statuses(es2)' = status
    <2>1. ASSUME NEW r \in Pids
          PROVE  status[r] = IF proc'[r].state = "zombie" THEN proc'[r].result ELSE ExitCode(es2[r][0])
      <3>1. status[r] = IF proc[r].state = "zombie" THEN proc[r].result ELSE ExitCode(es[r][0])
        BY DEF Statuses
      <3>2. CASE r = p
        BY <3>1, <3>2, <1>1, <1>2, <1>3, <1>4
      <3>3. CASE r # p
        BY <3>1, <3>3, <1>3, <1>4
      <3> QED
        BY <3>2, <3>3
    <2>2. status = [r \in Pids |-> status[r]]
      BY DEF Statuses
    <2> HIDE DEF status
    <2> QED
      BY <2>1, <2>2 DEF Statuses
  <1>6. ASSUME NEW r \in Pids, proc'[r].state # "none"
        PROVE  Expects(es2[r], proc'[r].frames, proc'[r].result, status)
    <2>1. CASE r = p
      <3>1. Len(<<>>) = 0 /\ \A d \in 1 .. 0 : FALSE
        OBVIOUS
      <3> QED
        BY <2>1, <3>1, <1>3, <1>4 DEF Expects
    <2>2. CASE r # p
      BY <2>2, <1>3, <1>4, <1>6 DEF Determined
    <2> QED
      BY <2>1, <2>2
  <1> HIDE DEF status
  <1>7. Determined(es2)'
    BY <1>1, <1>3, <1>5, <1>6 DEF Determined
  <1> QED
    BY <1>3, <1>7 DEF ResultsInv, Expectations

LEMMA NoPromptIsALine == Prompt \notin Lines /\ Ended \notin Lines
  <1> SUFFICES ASSUME NEW l \in Lines PROVE l \notin {Prompt, Ended}
    OBVIOUS
  <1>1. l \in Commands
    BY CommandsAssumption
  <1>2. l.op \in {"builtin", "program", "&", "|", ";", "&&", "||"}
    BY <1>1, CommandsAssumption
  <1>3. Prompt.op = "prompt" /\ Ended.op = "ended"
    BY DEF Prompt, Ended
  <1> QED
    BY <1>1, <1>2, <1>3

LEMMA LineDetermined ==
    ASSUME IInv, NEW es \in Expectations, Determined(es),
           (\E l \in Lines : ReadLine(l)) \/ EndOfLine
    PROVE  ResultsInv'
  <1>1. CASE EndOfLine
    <2>1. proc' = proc /\ line' \notin Lines
      BY <1>1, NoPromptIsALine DEF EndOfLine
    <2>2. Determined(es)'
      BY <2>1 DEF Determined, Statuses
    <2> QED
      BY <2>2 DEF ResultsInv, Expectations
  <1>2. ASSUME NEW l \in Lines, ReadLine(l)
        PROVE  ResultsInv'
    <2> DEFINE g == [d \in Nat |-> IF d = 0 THEN Value[l] ELSE 0]
               es2 == [es EXCEPT ![Shell] = g]
               new == Statuses(es2)'
               status == Statuses(es)
    <2>1. /\ Shell \in Pids /\ proc \in [Pids -> Processes] /\ line' = l
          /\ proc'[Shell].frames = <<Parse(l)>> /\ proc'[Shell].result = 0
          /\ \A r \in Pids \ {Shell} : proc'[r] = proc[r]
      BY <1>2, MiniShellAssumption DEF ReadLine, IInv, ShellTypeOK, Processes, Shell, Pids
    <2>2. Value[l] \in Int
      BY CommandsAssumption, ValueIsRight DEF Results
    <2>3. g \in [Nat -> Int] /\ g[0] = Value[l] /\ g[1] = 0
      BY <2>2
    <2> HIDE DEF g
    <2>4. es2 \in Expectations /\ es2[Shell] = g /\ \A r \in Pids \ {Shell} : es2[r] = es[r]
      BY <2>1, <2>3 DEF Expectations
    <2> HIDE DEF es2
    <2>5. \A r \in Pids \ {Shell} : new[r] = status[r]
      BY <2>1, <2>4 DEF Statuses
    <2> HIDE DEF new, status
    <2>6. ASSUME NEW r \in Pids, proc'[r].state # "none"
          PROVE  Expects(es2[r], proc'[r].frames, proc'[r].result, new)
      <3>1. CASE r = Shell
        <4> DEFINE s == <<Parse(l)>>
        <4>1. Len(s) = 1 /\ s[1] = Parse(l) /\ \A d \in 1 .. 1 : d = 1
          OBVIOUS
        <4>2. Effect(Parse(l), 0, new) = Value[l]
          BY DEF Effect, Parse
        <4> HIDE DEF s
        <4>3. Expects(g, s, 0, new)
          BY <4>1, <4>2, <2>3 DEF Expects, Frame
        <4> QED
          BY <4>3, <3>1, <2>1, <2>4 DEF s
      <3>2. CASE r # Shell
        <4>1. proc[r].state # "none" /\ proc'[r] = proc[r] /\ es2[r] = es[r]
          BY <3>2, <2>1, <2>4, <2>6
        <4>2. \A w \in Awaits(proc[r].frames) : w[2] \in Pids /\ w[2] # Shell
          BY DEF IInv, EachAwaited, WaitedIsThere, Awaits
        <4>3. \A w \in Awaits(proc[r].frames) : new[w[2]] = Statuses(es)[w[2]]
          BY <4>2, <2>5 DEF status
        <4>4. Expects(es[r], proc[r].frames, proc[r].result, new)
          BY <4>1, <4>3, OthersExpect
        <4> QED
          BY <4>1, <4>4
      <3> QED
        BY <3>1, <3>2
    <2>7. Determined(es2)'
      BY <2>1, <2>3, <2>4, <2>6 DEF Determined, new
    <2> QED
      BY <2>4, <2>7 DEF ResultsInv, Expectations
  <1> QED
    BY <1>1, <1>2

LEMMA InitDetermined == Init => ResultsInv
  <1> SUFFICES ASSUME Init PROVE ResultsInv
    OBVIOUS
  <1> DEFINE es == [p \in Pids |-> [d \in Nat |-> 0]]
  <1>1. es \in Expectations /\ \A p \in Pids : es[p][0] = 0
    BY DEF Expectations
  <1>2. \A p \in Pids : proc[p].frames = <<>> /\ proc[p].result = 0
    BY DEF Init, Nobody
  <1>3. Len(<<>>) = 0 /\ \A d \in 1 .. 0 : FALSE
    OBVIOUS
  <1>4. line \notin Lines
    BY NoPromptIsALine DEF Init
  <1> HIDE DEF es
  <1>5. Determined(es)
    BY <1>1, <1>2, <1>3, <1>4 DEF Determined, Expects
  <1> QED
    BY <1>1, <1>5 DEF ResultsInv, Expectations

\* A command that is parsed is to return its value.
LEMMA ParseEffect ==
    ASSUME IInv, NEW p \in Pids, At(p, "parse")
    PROVE  LET c == Top(p)[2]
           IN  /\ c \in Commands /\ Value[c] \in Results
               /\ Value[c] = ValueBy(Value, c)
               /\ \A r, status : Effect(Top(p), r, status) = Value[c]
  <1>1. Top(p)[2] \in Commands /\ Top(p)[1] = "parse"
    BY TopOf, ParsedCommand DEF IInv
  <1> QED
    BY <1>1, ValueIsRight DEF Effect

LEMMA PartsOf ==
    ASSUME NEW c \in Commands, c.op \in {"&", "|", ";", "&&", "||"}
    PROVE  /\ c.cmd1 \in Commands /\ c.cmd2 \in Commands
           /\ Value[c.cmd1] \in Results /\ Value[c.cmd2] \in Results
           /\ Value[c.cmd1] \in Int /\ Value[c.cmd2] \in Int
  <1>1. c.cmd1 \in Commands /\ c.cmd2 \in Commands
    BY CommandsAssumption
  <1>2. Value[c.cmd1] \in Results /\ Value[c.cmd2] \in Results
    BY <1>1, ValueIsRight
  <1> QED
    BY <1>1, <1>2 DEF Results

LEMMA AloneStepDetermined ==
    ASSUME IInv, NEW es \in Expectations, Determined(es), NEW p \in Pids,
           \/ ParseBuiltin(p) \/ RunInSequence(p) \/ Zero(p)
           \/ \E op \in {"&&", "||"} : RunFirst(p, op) \/ RunSecond(p, op)
    PROVE  ResultsInv'
  <1> DEFINE zero == 0
             c == Top(p)[2]
             r == proc[p].result
  <1>0. zero \in Int
    OBVIOUS
  <1>1. /\ \A k \in {"parse", "&&", "||", "zero"} : k \notin Waits
        /\ ShellTypeOK /\ \A fs : Waitless(fs) => fs \in Seq(Frames)
    BY DEF IInv, Waits, Waitless
  <1> HIDE DEF zero, c, r
  <1>2. CASE ParseBuiltin(p)
    <2>1. /\ At(p, "parse") /\ c.op = "builtin" /\ line' = line
          /\ proc' = [proc EXCEPT ![p] = Continue(p, <<>>, c.result)]
      BY <1>2 DEF ParseBuiltin, Parses, c
    <2>2. c \in Commands /\ \A status : Effect(Top(p), r, status) = ValueBy(Value, c)
      BY <2>1, ParseEffect DEF c
    <2>3. c.result \in Int /\ \A status : Effect(Top(p), r, status) = c.result
      BY <2>1, <2>2, CommandsAssumption DEF ValueBy
    <2>4. \A status : Does(<<>>, c.result, Effect(Top(p), r, status), status)
      BY <2>3, DoesNothing
    <2>5. <<>> \in Seq(Frames)
      OBVIOUS
    <2> QED
      BY <2>1, <2>3, <2>4, <2>5, <1>1, AloneDetermined DEF r
  <1>3. CASE RunInSequence(p)
    <2> DEFINE f == Parse(c.cmd1)
               g == Parse(c.cmd2)
               k == <<"zero">>
               fs == <<f, g, k>>
    <2>1. /\ At(p, "parse") /\ c.op = ";" /\ line' = line
          /\ proc' = [proc EXCEPT ![p] = Continue(p, fs, zero)]
      BY <1>3 DEF RunInSequence, Parses, c, zero
    <2>2. c \in Commands /\ \A status : Effect(Top(p), r, status) = zero
      BY <2>1, ParseEffect DEF c, ValueBy, zero
    <2>3. /\ Value[c.cmd1] \in Int /\ Value[c.cmd2] \in Int
          /\ \A status : /\ Effect(f, zero, status) = Value[c.cmd1]
                         /\ Effect(g, Value[c.cmd1], status) = Value[c.cmd2]
      <3>1. c \in Commands /\ c.op \in {"&", "|", ";", "&&", "||"}
        BY <2>1, <2>2
      <3>2. Value[c.cmd1] \in Int /\ Value[c.cmd2] \in Int
        BY <3>1, PartsOf
      <3> QED
        BY <3>2 DEF Effect, Parse
    <2>4. \A status : Effect(k, Value[c.cmd2], status) = zero
      BY DEF Effect, zero
    <2>5. Waitless(fs)
      BY <2>1, <2>2, PartsOf, FramesOf
    <2> HIDE DEF f, g, k
    <2>6. \A status : Does(fs, zero, Effect(Top(p), r, status), status)
      BY <2>2, <2>3, <2>4, <1>0, DoesThree
    <2> HIDE DEF fs
    <2> QED
      BY <2>1, <2>5, <2>6, <1>0, <1>1, AloneDetermined DEF r
  <1>4. CASE Zero(p)
    <2>1. /\ At(p, "zero") /\ line' = line
          /\ proc' = [proc EXCEPT ![p] = Continue(p, <<>>, zero)]
      BY <1>4 DEF Zero, zero
    <2>2. \A status : Effect(Top(p), r, status) = zero
      <3>1. Top(p)[1] = "zero"
        BY <2>1, TopOf DEF IInv
      <3> QED
        BY <3>1 DEF Effect, zero
    <2>3. \A status : Does(<<>>, zero, Effect(Top(p), r, status), status)
      BY <2>2, <1>0, DoesNothing
    <2>4. <<>> \in Seq(Frames)
      OBVIOUS
    <2> QED
      BY <2>1, <2>3, <2>4, <1>0, <1>1, AloneDetermined DEF r
  <1>5. ASSUME NEW op \in {"&&", "||"}, RunFirst(p, op)
        PROVE  ResultsInv'
    <2> DEFINE f == Parse(c.cmd1)
               g == <<op, c.cmd2>>
               fs == <<f, g>>
               y == IF GoesOn(op, Value[c.cmd1]) THEN Value[c.cmd2] ELSE Value[c.cmd1]
    <2>1. /\ At(p, "parse") /\ c.op = op /\ line' = line
          /\ proc' = [proc EXCEPT ![p] = Continue(p, fs, zero)]
      BY <1>5 DEF RunFirst, Parses, c, zero
    <2>2. c \in Commands /\ \A status : Effect(Top(p), r, status) = y
      BY <2>1, ParseEffect DEF c, ValueBy
    <2>3. /\ Value[c.cmd1] \in Int /\ Value[c.cmd2] \in Int
          /\ \A status : Effect(f, zero, status) = Value[c.cmd1]
      <3>1. c \in Commands /\ c.op \in {"&", "|", ";", "&&", "||"}
        BY <2>1, <2>2
      <3>2. Value[c.cmd1] \in Int /\ Value[c.cmd2] \in Int
        BY <3>1, PartsOf
      <3> QED
        BY <3>2 DEF Effect, Parse
    <2>4. y \in Int /\ \A status : Effect(g, Value[c.cmd1], status) = y
      BY <2>3 DEF Effect
    <2>5. Waitless(fs)
      BY <2>1, <2>2, PartsOf, FramesOf
    <2> HIDE DEF f, g, y
    <2>6. \A status : Does(fs, zero, Effect(Top(p), r, status), status)
      BY <2>2, <2>3, <2>4, <1>0, DoesTwo
    <2> HIDE DEF fs
    <2> QED
      BY <2>1, <2>5, <2>6, <1>0, <1>1, AloneDetermined DEF r
  <1>6. ASSUME NEW op \in {"&&", "||"}, RunSecond(p, op)
        PROVE  ResultsInv'
    <2>1. /\ At(p, op) /\ line' = line /\ op \notin Waits /\ c \in Commands
          /\ r \in Int /\ proc \in [Pids -> Processes] /\ Top(p)[1] = op
      BY <1>1, <1>6, TopOf, ParsedCommand DEF RunSecond, ShellTypeOK, Processes, r, c
    <2>2. \A status : Effect(Top(p), r, status) = IF GoesOn(op, r) THEN Value[c] ELSE r
      BY <2>1 DEF Effect, c
    <2>3. CASE GoesOn(op, r)
      <3> DEFINE f == Parse(c)
                 fs == <<f>>
      <3>1. proc' = [proc EXCEPT ![p] = Continue(p, fs, zero)]
        BY <2>1, <2>3, <1>6 DEF RunSecond, r, c, zero
      <3>2. Value[c] \in Int /\ \A status : Effect(f, zero, status) = Value[c]
        BY <2>1, ValueIsRight DEF Effect, Parse, Results
      <3>3. Waitless(fs)
        BY <2>1, FramesOf
      <3> HIDE DEF f
      <3>4. \A status : Does(fs, zero, Effect(Top(p), r, status), status)
        BY <2>2, <2>3, <3>2, <1>0, DoesOne
      <3> HIDE DEF fs
      <3> QED
        BY <2>1, <3>1, <3>3, <3>4, <1>0, <1>1, AloneDetermined DEF r
    <2>4. CASE ~GoesOn(op, r)
      <3>1. proc' = [proc EXCEPT ![p] = Continue(p, <<>>, r)]
        BY <2>1, <2>4, <1>6 DEF RunSecond, r
      <3>2. \A status : Does(<<>>, r, Effect(Top(p), r, status), status)
        BY <2>1, <2>2, <2>4, DoesNothing
      <3>3. <<>> \in Seq(Frames)
        OBVIOUS
      <3> QED
        BY <2>1, <3>1, <3>2, <3>3, AloneDetermined DEF r
    <2> QED
      BY <2>3, <2>4
  <1> QED
    BY <1>2, <1>3, <1>4, <1>5, <1>6

\* A process that has nothing to do, or one command, ends with its result or value.
LEMMA ExpectsOf ==
    /\ \A x \in Int : \E k \in [Nat -> Int] :
           k[0] = x /\ \A status : Expects(k, <<>>, x, status)
    /\ \A c \in Commands : \E k \in [Nat -> Int] :
           k[0] = Value[c] /\ \A status : Expects(k, <<Parse(c)>>, 0, status)
  <1>1. ASSUME NEW x \in Int
        PROVE  \E k \in [Nat -> Int] : k[0] = x /\ \A status : Expects(k, <<>>, x, status)
    <2> DEFINE k == [d \in Nat |-> x]
    <2>1. k \in [Nat -> Int] /\ k[0] = x
      OBVIOUS
    <2> HIDE DEF k
    <2>2. Len(<<>>) = 0 /\ \A d \in 1 .. 0 : FALSE
      OBVIOUS
    <2>3. \A status : Expects(k, <<>>, x, status)
      BY <2>1, <2>2 DEF Expects
    <2> QED
      BY <2>1, <2>3
  <1>2. ASSUME NEW c \in Commands
        PROVE  \E k \in [Nat -> Int] :
                   k[0] = Value[c] /\ \A status : Expects(k, <<Parse(c)>>, 0, status)
    <2> DEFINE k == [d \in Nat |-> IF d = 0 THEN Value[c] ELSE 0]
               s == <<Parse(c)>>
    <2>1. Value[c] \in Int
      BY ValueIsRight DEF Results
    <2>2. k \in [Nat -> Int] /\ k[0] = Value[c] /\ k[1] = 0
      BY <2>1
    <2> HIDE DEF k
    <2>3. Len(s) = 1 /\ s[1] = Parse(c) /\ \A d \in 1 .. 1 : d = 1
      OBVIOUS
    <2>4. \A status : Effect(Parse(c), 0, status) = Value[c]
      BY DEF Effect, Parse
    <2> HIDE DEF s
    <2>5. \A status : Expects(k, s, 0, status)
      BY <2>2, <2>3, <2>4 DEF Expects, Frame
    <2> QED
      BY <2>2, <2>5 DEF s
  <1> QED
    BY <1>1, <1>2

LEMMA ForkStepDetermined ==
    ASSUME IInv, NEW es \in Expectations, Determined(es), NEW p \in Pids,
           ParseProgram(p) \/ RunInParallel(p) \/ RunOnPipe(p)
    PROVE  ResultsInv'
  <1> DEFINE zero == 0
             c == Top(p)[2]
             q == NewPid
             r == proc[p].result
             v == Value[c]
  <1>0. zero \in Int /\ <<>> \in Seq(Frames)
    OBVIOUS
  <1>1. /\ Room /\ At(p, "parse") /\ c.op \in {"program", "&", "|"} /\ line' = line
    BY DEF ParseProgram, RunInParallel, RunOnPipe, Parses
  <1>2. ShellTypeOK /\ "parse" \notin Waits /\ q \in Pids /\ proc[q].state = "none"
    BY <1>1, RoomForOne DEF IInv, Waits
  <1>3. c \in Commands /\ v = ValueBy(Value, c) /\ \A status : Effect(Top(p), r, status) = v
    BY <1>1, ParseEffect
  <1>4. proc[p].state = "runs" /\ proc[p] \in Processes
    BY <1>1, <1>2, TopOf DEF ShellTypeOK
  <1>5. ASSUME NEW frames \in Seq(Frames)
        PROVE  /\ Child(p, frames).frames = frames /\ Child(p, frames).state = "runs"
               /\ Child(p, frames).result = zero
    BY <1>4, <1>5 DEF Child, Processes
  <1>6. ASSUME NEW fs \in Seq(Frames)
        PROVE  /\ Continue(p, fs, zero).frames = fs \o Tail(proc[p].frames)
               /\ Continue(p, fs, zero).state = "runs" /\ Continue(p, fs, zero).result = zero
    BY <1>4, <1>6, <1>1, <1>2, TopOf DEF Continue, Processes
  <1>7. CASE ParseProgram(p)
    <2> DEFINE child == Redirected(Child(p, <<>>), c)
               f == <<"wait", q>>
               fs == <<f>>
               parent == Continue(p, fs, zero)
    <2>1. c.op = "program" /\ proc' = [proc EXCEPT ![q] = child, ![p] = parent]
      BY <1>7 DEF ParseProgram, Parses
    <2>2. c.status \in 0 .. KILLED /\ c.status \in Int /\ ExitCode(c.status) = c.status
      <3> HIDE DEF c
      <3>1. c.status \in 0 .. KILLED
        BY <2>1, <1>3, CommandsAssumption
      <3>2. c.status \in Int /\ c.status >= 0 /\ c.status <= 256
        BY <3>1 DEF KILLED
      <3> QED
        BY <3>1, <3>2 DEF ExitCode, KILLED
    <2>3. v = Returned(c.status) /\ v \in Int
      BY <2>1, <2>2, <1>3 DEF ValueBy, Returned
    <2>4. child.frames = <<>> /\ child.state = "runs" /\ child.result = c.status
      <3> DEFINE forked == Child(p, <<>>)
      <3>1. forked \in Processes /\ forked.frames = <<>> /\ forked.state = "runs"
        BY <1>0, <1>2, <1>4, Forked
      <3> HIDE DEF forked, c
      <3>2. Redirected(forked, c).result = c.status
        BY <3>1 DEF Redirected, Processes
      <3>3. Redirected(forked, c).frames = <<>> /\ Redirected(forked, c).state = "runs"
        BY <3>1 DEF Redirected, Processes
      <3> QED
        BY <3>2, <3>3 DEF forked
    <2>5. PICK k \in [Nat -> Int] : k[0] = c.status /\ \A status : Expects(k, <<>>, c.status, status)
      BY <2>2, ExpectsOf
    <2>6. \A status : Expects(k, child.frames, child.result, status)
      BY <2>4, <2>5
    <2>7. fs \in Seq(Frames)
      BY <1>2, FramesOf DEF WaitsLast, Waits
    <2>8. ASSUME NEW status, status[q] = ExitCode(k[0])
          PROVE  Does(fs, zero, Effect(Top(p), r, status), status)
      <3>1. v = Effect(f, zero, status)
        <4> HIDE DEF v, c, q
        <4> QED
          BY <2>2, <2>3, <2>5, <2>8 DEF Effect
      <3>2. Effect(Top(p), r, status) = v
        BY <1>3
      <3> HIDE DEF f, zero, v
      <3> QED
        BY <3>1, <3>2, <2>3, <1>0, DoesOne
    <2>9. /\ parent.frames = fs \o Tail(proc[p].frames)
          /\ parent.state = "runs" /\ parent.result = zero
      BY <2>7, <1>6
    <2> HIDE DEF child, fs, parent, zero, q
    <2> QED
      BY <2>1, <2>4, <2>6, <2>7, <2>8, <2>9, <1>0, <1>1, <1>2, ForkDetermined DEF r
  <1>8. CASE c.op \in {"&", "|"}
    <2> DEFINE d == Value[c.cmd1]
               e == Value[c.cmd2]
    <2>1. PICK k \in [Nat -> Int] :
              k[0] = d /\ \A status : Expects(k, <<Parse(c.cmd1)>>, 0, status)
      BY <1>3, <1>8, PartsOf, ExpectsOf
    <2>2. /\ d \in Int /\ e \in Int /\ d # KILLED
          /\ c.cmd1 \in Commands /\ c.cmd2 \in Commands
      BY <1>3, <1>8, PartsOf DEF Results
    <2>3. <<Parse(c.cmd1)>> \in Seq(Frames)
      BY <2>2, FramesOf DEF Waitless
    <2>4. ExitCode(d) # KILLED /\ ExitCode(d) \in Int
      BY <2>2 DEF ExitCode, KILLED
    <2>5. \A status : Effect(Parse(c.cmd2), zero, status) = e
      BY DEF Effect, Parse
    <2>6. CASE RunInParallel(p)
      <3> DEFINE child == Child(p, <<Parse(c.cmd1)>>)
                 f == Parse(c.cmd2)
                 g == <<"join", q>>
                 fs == <<f, g>>
                 parent == Continue(p, fs, zero)
      <3>1. c.op = "&" /\ proc' = [proc EXCEPT ![q] = child, ![p] = parent]
        BY <2>6 DEF RunInParallel, Parses
      <3>2. v = Both(e, ExitCode(d)) /\ v \in Int
        BY <3>1, <1>3, <2>4 DEF ValueBy, Both
      <3>3. child.frames = <<Parse(c.cmd1)>> /\ child.state = "runs" /\ child.result = zero
        BY <2>3, <1>5
      <3>4. \A status : Expects(k, child.frames, child.result, status)
        BY <2>1, <3>3
      <3>5. fs \in Seq(Frames)
        BY <1>2, <2>2, FramesOf DEF WaitsLast, Waits
      <3>6. ASSUME NEW status, status[q] = ExitCode(k[0])
            PROVE  Does(fs, zero, Effect(Top(p), r, status), status)
        <4>1. v = Effect(g, e, status)
          <5> HIDE DEF v, e, d, q
          <5> QED
            BY <3>2, <3>6, <2>1 DEF Effect
        <4>2. Effect(Top(p), r, status) = v /\ e = Effect(f, zero, status)
          BY <1>3, <2>5
        <4> HIDE DEF f, g, zero, v, e
        <4> QED
          BY <4>1, <4>2, <3>2, <2>2, <1>0, DoesTwo
      <3>7. /\ parent.frames = fs \o Tail(proc[p].frames)
            /\ parent.state = "runs" /\ parent.result = zero
        BY <3>5, <1>6
      <3> HIDE DEF child, fs, parent, zero, q
      <3> QED
        BY <3>1, <3>3, <3>4, <3>5, <3>6, <3>7, <1>0, <1>1, <1>2, ForkDetermined DEF r
    <2>7. CASE RunOnPipe(p)
      <3> DEFINE forked == Child(p, <<Parse(c.cmd1)>>)
                 child == [forked EXCEPT !.stdout = q]
                 f == Parse(c.cmd2)
                 g == <<"restore", q>>
                 fs == <<f, g>>
                 old == Continue(p, fs, zero)
                 parent == [old EXCEPT !.saved = Append(@, old.stdin), !.stdin = q]
      <3>1. c.op = "|" /\ proc' = [proc EXCEPT ![q] = child, ![p] = parent]
        BY <2>7 DEF RunOnPipe, Parses
      <3>2. v = (IF e # 0 THEN 1 ELSE 0) /\ v \in Int
        BY <3>1, <1>3 DEF ValueBy
      <3>3. child.frames = <<Parse(c.cmd1)>> /\ child.state = "runs" /\ child.result = zero
        <4>1. /\ forked \in Processes /\ forked.frames = <<Parse(c.cmd1)>>
              /\ forked.state = "runs" /\ forked.result = zero
          BY <2>3, <1>2, <1>4, <1>5, Forked
        <4> HIDE DEF forked
        <4> QED
          BY <4>1 DEF Processes
      <3>4. \A status : Expects(k, child.frames, child.result, status)
        BY <2>1, <3>3
      <3>5. fs \in Seq(Frames)
        BY <1>2, <2>2, FramesOf DEF WaitsLast, Waits
      <3>6. ASSUME NEW status, status[q] = ExitCode(k[0])
            PROVE  Does(fs, zero, Effect(Top(p), r, status), status)
        <4>1. v = Effect(g, e, status)
          <5> HIDE DEF v, e, d, q
          <5> QED
            BY <3>2, <3>6, <2>1 DEF Effect
        <4>2. Effect(Top(p), r, status) = v /\ e = Effect(f, zero, status)
          BY <1>3, <2>5
        <4> HIDE DEF f, g, zero, v, e
        <4> QED
          BY <4>1, <4>2, <3>2, <2>2, <1>0, DoesTwo
      <3>7. /\ parent.frames = fs \o Tail(proc[p].frames)
            /\ parent.state = "runs" /\ parent.result = zero
        <4>1. /\ old.frames = fs \o Tail(proc[p].frames)
              /\ old.state = "runs" /\ old.result = zero
          BY <3>5, <1>6
        <4>2. old \in Processes
          BY <3>5, <1>0, <1>1, <1>2, Continued
        <4> HIDE DEF old
        <4> QED
          BY <4>1, <4>2 DEF Processes
      <3> HIDE DEF child, fs, parent, zero, q
      <3> QED
        BY <3>1, <3>3, <3>4, <3>5, <3>6, <3>7, <1>0, <1>1, <1>2, ForkDetermined DEF r
    <2>8. RunInParallel(p) \/ RunOnPipe(p)
      BY <1>8 DEF ParseProgram, Parses
    <2> QED
      BY <2>6, <2>7, <2>8
  <1> QED
    BY <1>1, <1>7, <1>8 DEF ParseProgram, RunInParallel, RunOnPipe, Parses

LEMMA ReapStepDetermined ==
    ASSUME IInv, IInv', NEW es \in Expectations, Determined(es), NEW p \in Pids,
           WaitForProgram(p) \/ Join(p) \/ Restore(p)
    PROVE  ResultsInv'
  <1> DEFINE q == Top(p)[2]
             r == proc[p].result
             status == Statuses(es)
  <1>1. ShellTypeOK /\ {"wait", "join", "restore"} = Waits /\ <<>> \in Seq(Frames)
    BY DEF IInv, Waits
  <1>2. ASSUME NEW kind \in Waits, At(p, kind), Exited(q)
        PROVE  /\ q \in Pids /\ proc[q].result \in Int /\ r \in Int
               /\ status[q] = proc[q].result /\ Top(p)[1] = kind
               /\ proc[p].state = "runs" /\ proc[p] \in Processes
               /\ Rest(p) = Tail(proc[p].frames)
    <2>1. q \in Pids /\ Top(p)[1] = kind /\ proc[p].state = "runs" /\ Rest(p) = Tail(proc[p].frames)
      BY <1>1, <1>2, TopOf, WaitFrame
    <2>2. proc[q] \in Processes /\ proc[p] \in Processes
      BY <2>1, <1>1 DEF ShellTypeOK
    <2>3. status[q] = proc[q].result
      BY <2>1, <1>2 DEF Exited, Statuses
    <2> QED
      BY <2>1, <2>2, <2>3 DEF Processes
  <1>3. ASSUME NEW kind \in {"wait", "join"}, NEW x \in Int, At(p, kind), Reap(p, q, x),
               x = Effect(Top(p), r, status)
        PROVE  ResultsInv'
    <2> DEFINE parent == Continue(p, <<>>, x)
    <2>1. /\ Exited(q) /\ line' = line
          /\ proc' = [proc EXCEPT ![q] = Nobody, ![p] = parent]
      BY <1>3 DEF Reap
    <2>2. kind \in Waits
      BY <1>1
    <2>3. parent.state = "runs" /\ parent.result = x /\ parent.frames = <<>> \o Tail(proc[p].frames)
      BY <2>1, <2>2, <1>2, <1>3 DEF Continue, Processes
    <2> HIDE DEF parent
    <2> QED
      BY <2>1, <2>2, <2>3, <1>3, ReapDetermined
  <1>4. CASE WaitForProgram(p)
    <2> DEFINE x == Returned(proc[q].result)
    <2>1. At(p, "wait") /\ Reap(p, q, x)
      BY <1>4 DEF WaitForProgram
    <2>2. Exited(q) /\ "wait" \in Waits
      BY <2>1, <1>1 DEF Reap
    <2>3. x \in Int /\ x = Effect(Top(p), r, status)
      BY <2>1, <2>2, <1>2 DEF Returned, Effect
    <2> HIDE DEF x
    <2> QED
      BY <2>1, <2>3, <1>3
  <1>5. CASE Join(p)
    <2> DEFINE x == Both(r, proc[q].result)
    <2>1. At(p, "join") /\ Reap(p, q, x)
      BY <1>5 DEF Join
    <2>2. Exited(q) /\ "join" \in Waits
      BY <2>1, <1>1 DEF Reap
    <2>3. x \in Int /\ x = Effect(Top(p), r, status)
      BY <2>1, <2>2, <1>2 DEF Both, Effect
    <2> HIDE DEF x
    <2> QED
      BY <2>1, <2>3, <1>3
  <1>6. CASE Restore(p)
    <2> DEFINE x == IF r # 0 THEN 1 ELSE 0
               old == Continue(p, <<>>, x)
               parent == [old EXCEPT !.stdin = Last(proc[p].saved), !.saved = Front(@)]
    <2>1. /\ At(p, "restore") /\ Exited(q) /\ line' = line
          /\ proc' = [proc EXCEPT ![q] = Nobody, ![p] = parent]
      BY <1>6 DEF Restore
    <2>2. "restore" \in Waits /\ x \in Int
      BY <1>1
    <2>3. x = Effect(Top(p), r, status)
      BY <2>1, <2>2, <1>2 DEF Effect
    <2>4. parent.state = "runs" /\ parent.result = x /\ parent.frames = <<>> \o Tail(proc[p].frames)
      BY <2>1, <2>2, <1>2 DEF Continue, Processes
    <2> HIDE DEF parent, x
    <2> QED
      BY <2>1, <2>2, <2>3, <2>4, ReapDetermined
  <1> QED
    BY <1>4, <1>5, <1>6

LEMMA WorkStepDetermined ==
    ASSUME IInv, NEW es \in Expectations, Determined(es), NEW p \in Pids,
           Read(p) \/ Write(p) \/ Exit(p)
    PROVE  ResultsInv'
  <1>1. Works(p) /\ line' = line /\ proc[p] \in Processes /\ proc \in [Pids -> Processes]
    BY DEF Read, Write, Exit, IInv, ShellTypeOK
  <1>2. proc[p].frames = <<>> /\ proc[p].state = "runs"
    BY <1>1 DEF Works, Runs
  <1>3. CASE proc' = proc
    <2>1. Determined(es)'
      BY <1>1, <1>3 DEF Determined, Statuses
    <2> QED
      BY <2>1 DEF ResultsInv, Expectations
  <1>4. ASSUME NEW new, proc' = [proc EXCEPT ![p] = new], new.frames = <<>>,
               \/ new.state = "runs" /\ new.result = proc[p].result
               \/ new.state = "zombie" /\ new.result = ExitCode(proc[p].result)
        PROVE  ResultsInv'
    BY <1>1, <1>4, WorkDetermined
  <1>5. CASE Read(p) /\ proc' # proc
    <2> DEFINE new == [proc[p] EXCEPT !.reads = FALSE]
    <2>1. proc' = [proc EXCEPT ![p] = new]
      BY <1>5 DEF Read
    <2>2. new.frames = <<>> /\ new.state = "runs" /\ new.result = proc[p].result
      BY <1>1, <1>2 DEF Processes
    <2> HIDE DEF new
    <2> QED
      BY <2>1, <2>2, <1>4
  <1>6. CASE Write(p)
    <2> DEFINE new == [proc[p] EXCEPT !.writes = @ - 1]
    <2>1. proc' = [proc EXCEPT ![p] = new]
      BY <1>6 DEF Write
    <2>2. new.frames = <<>> /\ new.state = "runs" /\ new.result = proc[p].result
      BY <1>1, <1>2 DEF Processes
    <2> HIDE DEF new
    <2> QED
      BY <2>1, <2>2, <1>4
  <1>7. CASE Exit(p)
    <2> DEFINE new == [Nobody EXCEPT !.state = "zombie", !.result = ExitCode(proc[p].result)]
    <2>1. proc' = [proc EXCEPT ![p] = new]
      BY <1>7 DEF Exit
    <2>2. new.frames = <<>> /\ new.state = "zombie" /\ new.result = ExitCode(proc[p].result)
      BY DEF Nobody
    <2> HIDE DEF new
    <2> QED
      BY <2>1, <2>2, <1>4
  <1> QED
    BY <1>3, <1>5, <1>6, <1>7

LEMMA ResultsStep == IInv /\ ResultsInv /\ [Next]_vars => ResultsInv'
  <1> SUFFICES ASSUME IInv, ResultsInv, [Next]_vars PROVE ResultsInv'
    OBVIOUS
  <1>1. IInv'
    BY ShellStep
  <1>2. PICK es \in Expectations : Determined(es)
    BY DEF ResultsInv, Expectations
  <1>3. ASSUME NEW p \in Pids, Step(p)
        PROVE  ResultsInv'
    BY <1>1, <1>2, <1>3, AloneStepDetermined, ForkStepDetermined, ReapStepDetermined,
       WorkStepDetermined DEF Step
  <1>4. CASE (\E l \in Lines : ReadLine(l)) \/ EndOfLine
    BY <1>2, <1>4, LineDetermined
  <1>5. CASE UNCHANGED vars
    <2>1. Determined(es)'
      BY <1>2, <1>5 DEF Determined, Statuses, vars
    <2> QED
      BY <2>1 DEF ResultsInv, Expectations
  <1> QED
    BY <1>3, <1>4, <1>5 DEF Next

\* Whatever the lines, the schedule and the room in the pipes: when the shell has done a
\* line, the result of parse_command (cmd.c) is what the operators make of the results of
\* the parts, although each part ran in a process of its own (run_in_parallel, run_on_pipe).
THEOREM ResultsAreDetermined == Spec => []ResultIsDetermined
  <1>1. Init => IInv /\ ResultsInv
    BY ShellInit, InitDetermined
  <1>2. IInv /\ ResultsInv /\ [Next]_vars => (IInv /\ ResultsInv)'
    BY ShellStep, ResultsStep
  <1>3. IInv /\ ResultsInv => ResultIsDetermined
    <2> SUFFICES ASSUME ResultsInv, IInv, line \in Lines, proc[Shell].frames = <<>>
                 PROVE  proc[Shell].result = Value[line]
      BY DEF ResultIsDetermined
    <2>1. PICK es \in Expectations : Determined(es)
      BY DEF ResultsInv, Expectations
    <2>2. Shell \in Pids /\ proc[Shell].state = "runs"
      BY MiniShellAssumption DEF Shell, Pids, IInv, TerminalIsSaved, SavesTerminal
    <2>3. Expects(es[Shell], <<>>, proc[Shell].result, Statuses(es)) /\ Len(<<>>) = 0
      BY <2>1, <2>2 DEF Determined
    <2>4. es[Shell][0] = proc[Shell].result
      BY <2>3 DEF Expects
    <2> QED
      BY <2>1, <2>4 DEF Determined
  <1> QED
    BY <1>1, <1>2, <1>3, PTL DEF Spec
=============================================================================

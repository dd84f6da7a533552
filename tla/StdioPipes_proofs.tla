-------------------------- MODULE StdioPipes_proofs --------------------------
(***************************************************************************)
(* Proofs about StdioPipes, for pipes of any size: its types, that the     *)
(* actor and cdb never wait for each other as long as no command has a     *)
(* second line, and that the session keeps its contract meanwhile.         *)
(*                                                                         *)
(* The argument for the pipes is that there is one turn.  While the        *)
(* session is Idle cdb waits at its prompt with nothing to read; a line    *)
(* that is being written                                                   *)
(* leaves it there until its end is written, which is the only thing that  *)
(* sets cdb to work; and a cdb at work has nothing in its stdin, so that   *)
(* there is room for whatever the actor writes to it, which can only be qd.*)
(***************************************************************************)
EXTENDS StdioPipes, TLAPS

Pieces == [by : Calls, eol : BOOLEAN]

LEMMA FunctionIsSequence ==
  ASSUME NEW n \in Nat, NEW S, NEW f \in [1..n -> S]
  PROVE  f \in Seq(S) /\ Len(f) = n /\ DOMAIN f = 1..n
OBVIOUS

LEMMA NothingIsEmpty ==
  ASSUME NEW S, NEW s \in Seq(S), Len(s) = 0 PROVE s = <<>>
OBVIOUS

LEMMA Sizes ==
  /\ MaxLines \in Nat \ {0} /\ MaxWidth \in Nat \ {0} /\ MaxOut \in Nat
  /\ StdinCap \in Nat \ {0} /\ OutCap \in Nat \ {0}
BY SizeAssumption

LEMMA TypePipes ==
  TypeOK => /\ stdin \in Seq(Pieces) /\ Len(stdin) \in Nat
            /\ unwritten \in Seq(Pieces) /\ Len(unwritten) \in Nat
            /\ out \in Seq({"text", "prompt"}) /\ Len(out) \in Nat
BY DEF TypeOK, Pieces

LEMMA AnswerTypes ==
  ASSUME TypeOK, NEW c, NEW r \in {"ok", "invalid", "io", "timeout"}
  PROVE  Answer(c, r) \in [Calls -> {"unasked", "pending", "ok", "invalid", "io",
                                     "timeout", "ended"}]
BY DEF TypeOK, Answer

LEMMA WrittenIsText ==
  ASSUME TypeOK, NEW c \in Calls
  PROVE  Written(c) \in Seq(Pieces) /\ Written(c) # <<>>
<1>1. /\ text[c].lines \in Nat \ {0} /\ text[c].width \in Nat \ {0}
      /\ text[c].lines * text[c].width \in Nat \ {0}
  <2>1. text[c].lines \in Nat \ {0} /\ text[c].width \in Nat \ {0}
    BY SizeAssumption DEF TypeOK, Shapes
  <2> QED
    BY <2>1
<1>2. CASE op[c] = "command"
  <2> DEFINE n == text[c].lines * text[c].width
             w == [i \in 1..n |->
                    Piece(c, \E k \in 1..text[c].lines : i = k * text[c].width)]
  <2>1. Written(c) = w /\ n \in Nat \ {0}
    BY <1>1, <1>2 DEF Written
  <2>2. \A i \in 1..n : w[i] \in Pieces
    BY DEF Piece, Pieces
  <2> HIDE DEF n
  <2>3. w \in Seq(Pieces) /\ Len(w) = n
    <3>1. w \in [1..n -> Pieces]
      BY <2>2
    <3> HIDE DEF w
    <3> QED
      BY <2>1, <3>1, FunctionIsSequence
  <2> HIDE DEF w
  <2> QED
    BY <2>1, <2>3
<1>3. CASE op[c] # "command"
  BY <1>3 DEF Written, Piece, Pieces
<1> QED
  BY <1>2, <1>3

LEMMA TypeInit == Init => TypeOK
<1> SUFFICES ASSUME Init PROVE TypeOK
  OBVIOUS
<1>1. OneLine \in Shapes
  BY Sizes DEF OneLine, Shapes
<1>2. text \in [Calls -> Shapes]
  BY <1>1 DEF Init
<1>3. /\ unwritten \in Seq([by : Calls, eol : BOOLEAN])
      /\ stdin \in Seq([by : Calls, eol : BOOLEAN]) /\ Len(stdin) <= StdinCap
      /\ out \in Seq({"text", "prompt"}) /\ Len(out) <= OutCap
      /\ requests \in Seq(Calls)
  BY Sizes DEF Init
<1>4. left \in 0..MaxOut
  BY Sizes DEF Init
<1> QED
  BY <1>2, <1>3, <1>4 DEF Init, TypeOK

LEMMA TypeActorEnds ==
  ASSUME TypeOK, ActorEnds, killed' \in BOOLEAN PROVE TypeOK'
BY DEF ActorEnds, TypeOK, child

LEMMA TypeRequest ==
  ASSUME TypeOK, NEW c \in Calls, HandleRequest(c) PROVE TypeOK'
<1>1. ASSUME NEW o, Take(c, o) PROVE requests' \in Seq(Calls)
  BY <1>1 DEF Take, TypeOK
<1>2. ASSUME NEW o, Refuse(c, o) PROVE TypeOK'
  BY <1>1, <1>2 DEF Refuse, Answer, TypeOK, writing, session, child
<1>3. ASSUME NEW o, Take(c, o), BeginWrite(c) PROVE TypeOK'
  BY <1>1, <1>3, WrittenIsText DEF BeginWrite, TypeOK, Pieces, session, child
<1>4. CASE TakeKill(c)
  BY <1>1, <1>4 DEF TakeKill, TakeKillIf, TypeOK, session, child
<1> QED
  BY <1>2, <1>3, <1>4 DEF HandleRequest, TakeLine, TakeDetach

LEMMA TypeStep == TypeOK /\ [Next]_vars => TypeOK'
<1> SUFFICES ASSUME TypeOK, [Next]_vars PROVE TypeOK'
  OBVIOUS
<1>1. ASSUME NEW c \in Calls, NEW o \in Ops, NEW shape \in Shapes \cup {OneLine},
             Submit(c, o, shape)
      PROVE  TypeOK'
  <2>1. shape \in Shapes
    BY <1>1, Sizes DEF OneLine, Shapes
  <2>2. requests' \in Seq(Calls) /\ text' \in [Calls -> Shapes]
    BY <1>1, <2>1 DEF Submit, TypeOK
  <2> QED
    BY <1>1, <2>2 DEF Submit, TypeOK, writing, session, child
<1>2. ASSUME NEW c \in Calls, HandleRequest(c) PROVE TypeOK'
  BY <1>2, TypeRequest
<1>3. CASE WritePiece
  <2>1. /\ unwritten # <<>> /\ unwritten' = Tail(unwritten)
        /\ Len(stdin) < StdinCap /\ stdin' = Append(stdin, Head(unwritten))
        /\ UNCHANGED <<actor, current, session, callVars, out, child, killed>>
    BY <1>3 DEF WritePiece
  <2>2. Head(unwritten) \in Pieces /\ unwritten' \in Seq(Pieces)
    BY <2>1, TypePipes
  <2>3. stdin' \in Seq(Pieces) /\ Len(stdin') <= StdinCap
    BY <2>1, <2>2, TypePipes, Sizes
  <2> QED
    BY <2>1, <2>2, <2>3 DEF TypeOK, Pieces, session, callVars, child
<1>4. CASE WriteEnds
  BY <1>4, AnswerTypes DEF WriteEnds, TypeOK, child
<1>5. CASE WriteFails
  BY <1>5, AnswerTypes DEF WriteFails, TypeOK, session, child
<1>6. CASE TakeOutput
  <2>1. out' \in Seq({"text", "prompt"}) /\ Len(out') = Len(out) - 1
    BY <1>6, TypePipes DEF TakeOutput
  <2>2. Len(out') <= OutCap
    BY <2>1, TypePipes, Sizes DEF TypeOK
  <2> QED
    BY <1>6, <2>1, <2>2, AnswerTypes DEF TakeOutput, TypeOK, writing, child
<1>7. CASE DeadlinePasses
  BY <1>7, AnswerTypes DEF DeadlinePasses, TypeOK, writing
<1>8. CASE ChildExit \/ StopReturns
  BY <1>8, TypeActorEnds DEF ChildExit, StopReturns, TypeOK
<1>9. CASE CdbReads
  <2>1. stdin' \in Seq(Pieces) /\ Len(stdin') = Len(stdin) - 1 /\ Len(stdin) \in Nat
    BY <1>9 DEF CdbReads, TypeOK, Pieces
  <2> QED
    BY <1>9, <2>1, SizeAssumption
       DEF CdbReads, TypeOK, Pieces, writing, session, callVars, child
<1>10. CASE CdbWrites \/ CdbPrompts
  <2>1. /\ Len(out) < OutCap
        /\ \E o \in {"text", "prompt"} : out' = Append(out, o)
    BY <1>10 DEF CdbWrites, CdbPrompts
  <2>2. out' \in Seq({"text", "prompt"}) /\ Len(out') <= OutCap
    <3>1. PICK o \in {"text", "prompt"} : out' = Append(out, o)
      BY <2>1
    <3>2. out' \in Seq({"text", "prompt"}) /\ Len(out') = Len(out) + 1
      BY <3>1, TypePipes
    <3> QED
      BY <2>1, <3>2, TypePipes, Sizes
  <2>3. left' \in 0..MaxOut
    BY <1>10, Sizes DEF CdbWrites, CdbPrompts, TypeOK
  <2> QED
    BY <1>10, <2>2, <2>3 DEF CdbWrites, CdbPrompts, TypeOK, writing, session, callVars
<1>11. CASE CdbExits
  BY <1>11 DEF CdbExits, TypeOK, writing, session, callVars
<1>12. CASE UNCHANGED vars
  BY <1>12 DEF vars, TypeOK, writing, session, callVars, child
<1> QED
  BY <1>1, <1>2, <1>3, <1>4, <1>5, <1>6, <1>7, <1>8, <1>9, <1>10, <1>11, <1>12
     DEF Next, Actor, Cdb

\* The pipes never hold more than they have room for, and every variable keeps
\* its type, for commands of any shape.
THEOREM StdioTypes == Spec => []TypeOK
BY TypeInit, TypeStep, PTL DEF Spec
-----------------------------------------------------------------------------
(* The turn.                                                               *)

LineOps == {"command", "continue"}

NoPrompt == \A i \in DOMAIN out : out[i] # "prompt"

\* What is in the pipes is one line, or one prompt, or neither.
OneTurn ==
  /\ stdin # <<>> => cdb = "prompt" /\ NoPrompt
  /\ \A i \in DOMAIN stdin : stdin[i].eol <=> i = Len(stdin)
  /\ cdb = "busy" => NoPrompt
  /\ \A i \in DOMAIN out : out[i] = "prompt" => i = Len(out)

\* cdb is at its prompt and has not seen the end of a line.
MidLine ==
  /\ cdb = "prompt" /\ NoPrompt
  /\ \A i \in DOMAIN stdin : ~stdin[i].eol
  /\ \A i \in DOMAIN unwritten : unwritten[i].eol <=> i = Len(unwritten)

AtRest == cdb = "prompt" /\ stdin = <<>> /\ NoPrompt

Select ==
  actor = "select" => IF state = "Idle" THEN AtRest ELSE OneTurn

WritingLine ==
  (actor = "writing" /\ op[current] \in LineOps)
  => IF unwritten # <<>> THEN MidLine ELSE OneTurn

WritingDetach ==
  (actor = "writing" /\ op[current] \notin LineOps)
  => Len(unwritten) <= 1 /\ (unwritten # <<>> => OneTurn)

\* What is being written was asked for.
CurrentIsAsked == actor = "writing" => current \in Calls /\ op[current] \in Ops

\* The inductive invariant: nothing is claimed once cdb is gone, or once the
\* recovery has made a session Idle whose cdb may be anywhere.
TurnInv ==
  (~recovered /\ cdb # "exited") => Select /\ WritingLine /\ WritingDetach

\* A command with a second line was asked for: run_command trims only the end of
\* its text.  Nothing is claimed then, for its first prompt answers it.
SeveralLines == \E c \in Calls : op[c] = "command" /\ text[c].lines > 1

LEMMA SeveralLinesStay ==
  ASSUME SeveralLines, [Next]_vars PROVE SeveralLines'
<1>1. PICK c \in Calls : op[c] = "command" /\ text[c].lines > 1
  BY DEF SeveralLines
<1>2. op'[c] = op[c] /\ text'[c] = text[c]
  <2>1. ASSUME NEW d \in Calls, NEW o \in Ops, NEW shape, Submit(d, o, shape)
        PROVE  op'[c] = op[c] /\ text'[c] = text[c]
    BY <1>1, <2>1 DEF Submit
  <2>2. CASE UNCHANGED <<op, text>>
    BY <2>2
  <2>3. Actor \/ Cdb \/ UNCHANGED vars => UNCHANGED <<op, text>>
    BY DEF Actor, Cdb, HandleRequest, Refuse, TakeLine, TakeDetach, TakeKill, TakeKillIf,
       BeginWrite, WritePiece, WriteEnds, WriteFails, TakeOutput, DeadlinePasses,
       ChildExit, StopReturns, ActorEnds, CdbReads, CdbWrites, CdbPrompts, CdbExits,
       callVars, vars
  <2> QED
    BY <2>1, <2>2, <2>3 DEF Next
<1> QED
  BY <1>1, <1>2 DEF SeveralLines

LEMMA OneLineText ==
  ASSUME ~SeveralLines, TypeOK, NEW c \in Calls
  PROVE  /\ \A i \in DOMAIN Written(c) : Written(c)[i].eol <=> i = Len(Written(c))
         /\ op[c] \notin LineOps => Len(Written(c)) = 1
<1>1. text[c].lines \in Nat \ {0} /\ text[c].width \in Nat \ {0}
  BY SizeAssumption DEF TypeOK, Shapes
<1>2. CASE op[c] = "command"
  <2> DEFINE n == text[c].width
             w == [i \in 1..n |-> Piece(c, i = n)]
  <2>1. Written(c) = w
    <3>1. text[c].lines = 1
      BY <1>1, <1>2 DEF SeveralLines
    <3>2. text[c].lines * n = n /\ \A i \in 1..n : (\E k \in 1..1 : i = k * n) <=> i = n
      BY <1>1, <3>1
    <3> QED
      BY <1>2, <3>1, <3>2 DEF Written, Piece
  <2>2. Len(w) = n /\ DOMAIN w = 1..n
    <3>1. \A i \in 1..n : w[i] \in Pieces
      BY DEF Piece, Pieces
    <3> HIDE DEF n
    <3> QED
      BY <1>1, <3>1 DEF n
  <2>3. \A i \in DOMAIN w : w[i].eol <=> i = n
    BY <2>2 DEF Piece
  <2> QED
    BY <1>2, <2>1, <2>2, <2>3 DEF LineOps
<1>3. CASE op[c] # "command"
  <2>1. Written(c) = <<Piece(c, TRUE)>>
    BY <1>3 DEF Written
  <2> QED
    BY <2>1 DEF Piece
<1> QED
  BY <1>2, <1>3

LEMMA TurnInit == Init => CurrentIsAsked /\ TurnInv
BY DEF Init, CurrentIsAsked, TurnInv, Select, WritingLine, WritingDetach, AtRest, NoPrompt

\* A session at rest has its turn, and nobody else has one.
LEMMA RestIsTurn == AtRest => OneTurn
BY DEF AtRest, OneTurn, NoPrompt

LEMMA TurnRequest ==
  ASSUME ~SeveralLines, TypeOK, TurnInv, NEW c \in Calls, HandleRequest(c)
  PROVE  TurnInv'
<1> SUFFICES ASSUME ~recovered, cdb # "exited" PROVE TurnInv'
  BY DEF HandleRequest, TurnInv, Refuse, TakeLine, TakeDetach, TakeKill, TakeKillIf,
         BeginWrite, session, child
<1> USE DEF TurnInv, Select, WritingLine, WritingDetach
<1>1. ASSUME NEW o \in LineOps, Refuse(c, o) PROVE TurnInv'
  BY <1>1 DEF Refuse, Take, OneTurn, NoPrompt, child, session, writing
<1>2. ASSUME NEW o, Take(c, o), BeginWrite(c), o \in LineOps => state = "Idle"
      PROVE  TurnInv'
  <2>1. /\ actor = "select" /\ actor' = "writing" /\ current' = c
        /\ unwritten' = Written(c) /\ UNCHANGED <<op, stdin, out, cdb>> /\ op[c] = o
    BY <1>2 DEF Take, BeginWrite, child
  <2>2. unwritten' # <<>>
    BY <2>1, WrittenIsText
  <2>3. CASE o \in LineOps
    <3>1. AtRest
      BY <1>2, <2>1, <2>3
    <3>2. MidLine'
      BY <2>1, <3>1, OneLineText DEF AtRest, MidLine, NoPrompt
    <3> QED
      BY <2>1, <2>2, <2>3, <3>2
  <2>4. CASE o \notin LineOps
    <3>1. OneTurn
      BY <2>1, RestIsTurn
    <3>2. OneTurn'
      BY <2>1, <3>1 DEF OneTurn, NoPrompt
    <3>3. Len(unwritten') <= 1
      <4>1. op[c] \notin LineOps => Len(Written(c)) = 1
        BY OneLineText
      <4>2. Len(Written(c)) = 1
        BY <2>1, <2>4, <4>1
      <4>3. unwritten' = Written(c)
        BY <2>1
      <4>4. Len(unwritten') = 1
        BY <4>2, <4>3, Zenon
      <4> QED
        BY <4>4
    <3> QED
      BY <2>1, <2>4, <3>2, <3>3
  <2> QED
    BY <2>3, <2>4
<1>3. CASE TakeKill(c)
  BY <1>3 DEF TakeKill, TakeKillIf
<1> QED
  BY <1>1, <1>2, <1>3 DEF HandleRequest, TakeLine, TakeDetach, LineOps

LEMMA TurnWritePiece ==
  ASSUME TypeOK, TurnInv, WritePiece PROVE TurnInv'
<1> DEFINE p == Head(unwritten)
<1>1. /\ actor = "writing" /\ unwritten # <<>> /\ stdin' = Append(stdin, p)
      /\ unwritten' = Tail(unwritten)
      /\ UNCHANGED <<actor, current, op, state, recovered, out, cdb>>
  BY DEF WritePiece, session, callVars, child
<1>2. /\ p \in Pieces /\ p = unwritten[1] /\ stdin \in Seq(Pieces)
      /\ unwritten \in Seq(Pieces) /\ Len(unwritten) \in Nat \ {0} /\ Len(stdin) \in Nat
      /\ 1 \in DOMAIN unwritten
  BY <1>1, TypePipes
<1>3. /\ stdin' # <<>> /\ Len(stdin') = Len(stdin) + 1
      /\ DOMAIN stdin' = 1..Len(stdin)+1 /\ stdin'[Len(stdin)+1] = p
      /\ \A i \in 1..Len(stdin) : stdin'[i] = stdin[i]
  BY <1>1, <1>2
<1>4. /\ Len(unwritten') = Len(unwritten) - 1
      /\ DOMAIN unwritten' = 1..Len(unwritten)-1
      /\ \A i \in DOMAIN unwritten' : unwritten'[i] = unwritten[i+1]
  BY <1>1, <1>2
<1> SUFFICES ASSUME ~recovered, cdb # "exited" PROVE TurnInv'
  BY <1>1 DEF TurnInv
<1>5. CASE op[current] \in LineOps
  <2>1. MidLine
    BY <1>1, <1>5 DEF TurnInv, WritingLine
  <2>2. CASE unwritten' # <<>>
    <3>1. Len(unwritten) # 1
      <4>1. unwritten' \in Seq(Pieces)
        BY <1>1, <1>2
      <4>2. Len(unwritten') # 0
        BY <2>2, <4>1, NothingIsEmpty
      <4> QED
        BY <1>4, <4>2
    <3>2. ~p.eol
      BY <1>2, <2>1, <3>1 DEF MidLine
    <3>3. \A i \in DOMAIN stdin' : ~stdin'[i].eol
      BY <1>2, <1>3, <2>1, <3>2 DEF MidLine
    <3>4. \A i \in DOMAIN unwritten' : unwritten'[i].eol <=> i = Len(unwritten')
      BY <1>2, <1>4, <2>1 DEF MidLine
    <3> QED
      BY <1>1, <1>5, <2>1, <2>2, <3>3, <3>4
         DEF TurnInv, Select, WritingLine, WritingDetach, MidLine, NoPrompt
  <2>3. CASE unwritten' = <<>>
    <3>1. p.eol
      BY <1>2, <1>4, <2>1, <2>3 DEF MidLine
    <3>2. \A i \in DOMAIN stdin' : stdin'[i].eol <=> i = Len(stdin')
      BY <1>2, <1>3, <2>1, <3>1 DEF MidLine
    <3>3. OneTurn'
      BY <1>1, <2>1, <3>2 DEF MidLine, OneTurn, NoPrompt
    <3> QED
      BY <1>1, <1>5, <2>3, <3>3 DEF TurnInv, Select, WritingLine, WritingDetach
  <2> QED
    BY <2>2, <2>3
<1>6. CASE op[current] \notin LineOps
  <2>1. Len(unwritten) <= 1
    BY <1>1, <1>6 DEF TurnInv, WritingDetach
  <2>2. Len(unwritten') = 0 /\ unwritten' = <<>>
    BY <1>1, <1>2, <1>4, <2>1
  <2> QED
    BY <1>1, <1>6, <2>2 DEF TurnInv, Select, WritingLine, WritingDetach
<1> QED
  BY <1>5, <1>6

LEMMA TurnWriteEnds == ASSUME TurnInv, WriteEnds \/ WriteFails PROVE TurnInv'
<1> SUFFICES ASSUME ~recovered, cdb # "exited", WriteEnds PROVE TurnInv'
  BY DEF WriteEnds, WriteFails, TurnInv, session, child
<1>1. actor = "writing" /\ unwritten = <<>> /\ UNCHANGED <<stdin, out, cdb>>
  BY DEF WriteEnds, child
<1>2. CASE op[current] \in LineOps
  <2>1. OneTurn
    BY <1>1, <1>2 DEF TurnInv, WritingLine
  <2>2. OneTurn'
    BY <1>1, <2>1 DEF OneTurn, NoPrompt
  <2> QED
    BY <1>2, <2>2 DEF WriteEnds, TurnInv, Select, WritingLine, WritingDetach, LineOps
<1>3. CASE op[current] \notin LineOps
  BY <1>3 DEF WriteEnds, TurnInv, Select, WritingLine, WritingDetach, LineOps
<1> QED
  BY <1>2, <1>3

LEMMA TurnTakeOutput == ASSUME TypeOK, TurnInv, TakeOutput PROVE TurnInv'
<1>1. /\ actor = "select" /\ out # <<>> /\ out' = Tail(out)
      /\ UNCHANGED <<actor, recovered, op, current, unwritten, stdin, cdb>>
      /\ out \in Seq({"text", "prompt"}) /\ Head(out) = out[1] /\ Len(out) \in Nat \ {0}
  BY DEF TakeOutput, TypeOK, child, writing
<1>2. /\ Len(out') = Len(out) - 1 /\ DOMAIN out' = 1..Len(out)-1
      /\ \A i \in DOMAIN out' : i + 1 \in DOMAIN out /\ out'[i] = out[i+1]
  BY <1>1
<1> SUFFICES ASSUME ~recovered, cdb # "exited" PROVE TurnInv'
  BY <1>1 DEF TurnInv
<1>3. CASE state' = "Idle" /\ state # "Idle"
  <2>1. out[1] = "prompt" /\ OneTurn
    BY <1>1, <1>3 DEF TakeOutput, TurnInv, Select
  <2>2. Len(out) = 1 /\ stdin = <<>> /\ cdb = "prompt"
    <3>1. 1 \in DOMAIN out /\ ~NoPrompt
      BY <1>1, <2>1 DEF NoPrompt
    <3>2. cdb \in {"prompt", "busy"}
      BY DEF TypeOK
    <3> QED
      BY <2>1, <3>1, <3>2 DEF OneTurn
  <2>3. AtRest'
    BY <1>1, <1>2, <2>2 DEF AtRest, NoPrompt
  <2> QED
    BY <1>1, <1>3, <2>3 DEF TurnInv, Select, WritingLine, WritingDetach
<1>4. CASE state' = state
  <2>1. NoPrompt => NoPrompt'
    BY <1>2 DEF NoPrompt
  <2>2. AtRest => AtRest'
    BY <1>1, <2>1 DEF AtRest
  <2>3. OneTurn => OneTurn'
    BY <1>1, <1>2, <2>1 DEF OneTurn
  <2> QED
    BY <1>1, <1>4, <2>2, <2>3 DEF TurnInv, Select, WritingLine, WritingDetach
<1> QED
  BY <1>3, <1>4 DEF TakeOutput

LEMMA TurnCdb == ASSUME TypeOK, TurnInv, Cdb PROVE TurnInv'
<1> SUFFICES ASSUME ~recovered, cdb' # "exited" PROVE TurnInv'
  BY DEF Cdb, CdbReads, CdbWrites, CdbPrompts, CdbExits, TurnInv, session
<1>1. cdb # "exited" /\ UNCHANGED <<actor, current, unwritten, state, recovered, op>>
  BY DEF Cdb, CdbReads, CdbWrites, CdbPrompts, CdbExits, writing, session, callVars
<1>2. CASE CdbReads
  <2>1. /\ cdb = "prompt" /\ stdin # <<>> /\ stdin' = Tail(stdin) /\ out' = out
        /\ cdb' = IF Head(stdin).eol THEN "busy" ELSE "prompt"
        /\ stdin \in Seq(Pieces) /\ Head(stdin) = stdin[1] /\ Len(stdin) \in Nat \ {0}
        /\ 1 \in DOMAIN stdin
    <3>1. stdin # <<>> /\ stdin \in Seq(Pieces)
      BY <1>2, TypePipes DEF CdbReads
    <3>2. Head(stdin) = stdin[1] /\ Len(stdin) \in Nat \ {0} /\ 1 \in DOMAIN stdin
      BY <3>1
    <3> QED
      BY <1>2, <3>1, <3>2 DEF CdbReads, child
  <2>2. /\ Len(stdin') = Len(stdin) - 1 /\ DOMAIN stdin' = 1..Len(stdin)-1
        /\ \A i \in DOMAIN stdin' : i + 1 \in DOMAIN stdin /\ stdin'[i] = stdin[i+1]
    BY <2>1
  <2>3. MidLine => MidLine'
    BY <1>1, <2>1, <2>2 DEF MidLine, NoPrompt
  <2>4. ASSUME OneTurn PROVE OneTurn'
    <3>1. NoPrompt /\ \A i \in DOMAIN stdin' : stdin'[i].eol <=> i = Len(stdin')
      BY <2>1, <2>2, <2>4 DEF OneTurn
    <3>2. ASSUME stdin' # <<>> PROVE cdb' = "prompt"
      <4>1. Len(stdin) # 1
        BY <2>1, <2>2, <3>2
      <4> QED
        BY <2>1, <2>4, <4>1 DEF OneTurn
    <3> QED
      BY <2>1, <3>1, <3>2 DEF OneTurn, NoPrompt
  <2>5. ~(actor = "select" /\ AtRest)
    BY <2>1 DEF AtRest
  <2> QED
    BY <1>1, <2>3, <2>4, <2>5 DEF TurnInv, Select, WritingLine, WritingDetach
<1>3. CASE CdbWrites \/ CdbPrompts
  <2>1. cdb = "busy" /\ stdin' = stdin /\ ~AtRest /\ ~MidLine
    BY <1>3 DEF CdbWrites, CdbPrompts, AtRest, MidLine
  <2>2. PICK o \in {"text", "prompt"} :
          /\ out' = Append(out, o) /\ cdb' = IF o = "text" THEN "busy" ELSE "prompt"
    BY <1>3, <2>1 DEF CdbWrites, CdbPrompts
  <2>3. /\ Len(out') = Len(out) + 1 /\ DOMAIN out' = 1..Len(out)+1 /\ Len(out) \in Nat
        /\ out'[Len(out)+1] = o /\ \A i \in 1..Len(out) : out'[i] = out[i]
        /\ DOMAIN out = 1..Len(out)
    BY <2>2 DEF TypeOK
  <2>4. ASSUME OneTurn PROVE OneTurn'
    <3>1. stdin = <<>> /\ NoPrompt
      BY <2>1, <2>4 DEF OneTurn
    <3>2. \A i \in DOMAIN out' : out'[i] = "prompt" => i = Len(out') /\ o = "prompt"
      BY <2>3, <3>1 DEF NoPrompt
    <3>3. cdb' = "busy" => NoPrompt'
      BY <2>2, <3>2 DEF NoPrompt
    <3> QED
      BY <2>1, <3>1, <3>2, <3>3 DEF OneTurn
  <2> QED
    BY <1>1, <2>1, <2>4 DEF TurnInv, Select, WritingLine, WritingDetach
<1>4. CASE CdbExits
  BY <1>4 DEF CdbExits
<1> QED
  BY <1>2, <1>3, <1>4 DEF Cdb

LEMMA AskedStep == TypeOK /\ CurrentIsAsked /\ [Next]_vars => CurrentIsAsked'
<1> SUFFICES ASSUME TypeOK, CurrentIsAsked, [Next]_vars PROVE CurrentIsAsked'
  OBVIOUS
<1>1. CASE Actor
  BY <1>1 DEF Actor, HandleRequest, Refuse, TakeLine, TakeDetach, TakeKill, TakeKillIf,
     Take, BeginWrite, WritePiece, WriteEnds, WriteFails, TakeOutput,
     DeadlinePasses, ChildExit, StopReturns, ActorEnds, CurrentIsAsked, Ops, writing,
     session, callVars
<1>2. CASE Cdb \/ UNCHANGED vars
  BY <1>2 DEF Cdb, CdbReads, CdbWrites, CdbPrompts, CdbExits, CurrentIsAsked, writing,
     callVars, vars
<1>3. ASSUME NEW c \in Calls, NEW o \in Ops, NEW shape, Submit(c, o, shape)
      PROVE  CurrentIsAsked'
  BY <1>3 DEF Submit, CurrentIsAsked, writing, TypeOK
<1> QED
  BY <1>1, <1>2, <1>3 DEF Next

LEMMA TurnStep ==
  ASSUME ~SeveralLines, TypeOK, CurrentIsAsked, TurnInv, [Next]_vars PROVE TurnInv'
<1>1. ASSUME NEW c \in Calls, NEW o \in Ops, NEW shape, Submit(c, o, shape)
      PROVE  TurnInv'
  <2>1. /\ UNCHANGED <<actor, state, recovered, current, unwritten, stdin, out, cdb>>
        /\ op[c] = "none" /\ op' = [op EXCEPT ![c] = o] /\ "none" \notin Ops
    BY <1>1 DEF Submit, writing, session, child, Ops
  <2>2. actor = "writing" => op'[current] = op[current] /\ current \in Calls
    BY <2>1 DEF CurrentIsAsked, TypeOK
  <2>3. (AtRest' <=> AtRest) /\ (OneTurn' <=> OneTurn) /\ (MidLine' <=> MidLine)
    BY <2>1 DEF AtRest, OneTurn, MidLine, NoPrompt
  <2> QED
    BY <2>1, <2>2, <2>3 DEF TurnInv, Select, WritingLine, WritingDetach
<1>2. CASE DeadlinePasses
  <2>1. /\ actor = "select"
        /\ UNCHANGED <<actor, current, unwritten, op, stdin, out, cdb>>
        /\ recovered' \/ (recovered' = recovered /\ (state' = "Idle" <=> state = "Idle"))
    BY <1>2 DEF DeadlinePasses, writing
  <2>2. (AtRest' <=> AtRest) /\ (OneTurn' <=> OneTurn)
    BY <2>1 DEF AtRest, OneTurn, NoPrompt
  <2> QED
    BY <2>1, <2>2 DEF TurnInv, Select, WritingLine, WritingDetach
<1>3. CASE ChildExit \/ StopReturns
  BY <1>3 DEF ChildExit, StopReturns, ActorEnds, TurnInv, Select, WritingLine,
              WritingDetach
<1>4. CASE UNCHANGED vars
  BY <1>4 DEF vars, TurnInv, Select, WritingLine, WritingDetach, AtRest, OneTurn, MidLine,
     NoPrompt, writing, session, callVars, child
<1> QED
  BY <1>1, <1>2, <1>3, <1>4, TurnRequest, TurnWritePiece, TurnWriteEnds, TurnTakeOutput,
     TurnCdb
     DEF Next, Actor

LEMMA TurnInvariant == Spec => [](SeveralLines \/ TurnInv)
<1>1. TypeOK /\ CurrentIsAsked /\ (SeveralLines \/ TurnInv) /\ [Next]_vars
      => (SeveralLines \/ TurnInv)'
  BY TurnStep, SeveralLinesStay
<1>2. Init => SeveralLines \/ TurnInv
  BY TurnInit
<1> QED
  BY <1>1, <1>2, TurnInit, AskedStep, StdioTypes, PTL DEF Spec

\* As long as no command has a second line, the actor and cdb never wait for each
\* other, whatever the pipes hold.
THEOREM NobodyWaitsForBoth == Spec => [](SeveralLines \/ NoMutualWait)
<1>1. TypeOK /\ TurnInv => NoMutualWait
  <2> SUFFICES ASSUME TypeOK, TurnInv, MutualWait, ~recovered PROVE FALSE
    BY DEF NoMutualWait
  <2>1. OneTurn \/ MidLine
    BY DEF MutualWait, TurnInv, WritingLine, WritingDetach
  <2>2. stdin = <<>> /\ Len(stdin) = StdinCap
    BY <2>1 DEF MutualWait, OneTurn, MidLine
  <2> QED
    BY <2>2, Sizes
<1> QED
  BY <1>1, StdioTypes, TurnInvariant, PTL

\* As long as no command has a second line, an Idle session of which no recovery
\* was made has a cdb that waits at its prompt.
THEOREM IdleWaitsAtPrompt == Spec => [](SeveralLines \/ IdleMeansAtPrompt)
<1>1. TurnInv => IdleMeansAtPrompt
  BY DEF TurnInv, Select, AtRest, IdleMeansAtPrompt
<1> QED
  BY <1>1, TurnInvariant, PTL
-----------------------------------------------------------------------------
(* The contract.                                                           *)

\* The queue holds each call once, and only calls that wait.
Queued ==
  /\ \A i, j \in DOMAIN requests : requests[i] = requests[j] => i = j
  /\ \A i \in DOMAIN requests : /\ requests[i] \notin {current, executing}
                                /\ reply[requests[i]] = "pending"

\* The request the actor is in and the command in the slot are two calls that
\* wait, and a line is only written while the slot is empty.
InHand ==
  /\ current # None <=> actor \in {"writing", "stopping"}
  /\ current # None => reply[current] = "pending" /\ current # executing
  /\ executing # None => reply[executing] = "pending" /\ state = "Executing"
  /\ (actor = "writing" /\ op[current] \in LineOps) => state = "Idle"

\* A call that was not made was not answered.
NotAsked == \A c \in Calls : op[c] = "none" => reply[c] = "unasked"

HeldInv == Queued /\ InHand /\ NotAsked

LEMMA HeldInit == Init => HeldInv
BY DEF Init, HeldInv, Queued, InHand, NotAsked

\* What Take leaves in the queue.
LEMMA TakenFromQueue ==
  ASSUME TypeOK, NEW c \in Calls, NEW o, Take(c, o)
  PROVE  /\ 1 \in DOMAIN requests /\ requests[1] = c
         /\ DOMAIN requests = 1..Len(requests) /\ Len(requests) \in Nat
         /\ DOMAIN requests' = 1..Len(requests)-1
         /\ \A i \in DOMAIN requests' : requests'[i] = requests[i+1]
<1>1. requests \in Seq(Calls) /\ requests # <<>>
  BY DEF TypeOK, Take
<1>2. requests' = Tail(requests) /\ c = Head(requests)
  BY DEF Take
<1> QED
  BY <1>1, <1>2

\* A call that is taken leaves the queue.
LEMMA QueueAfterTake ==
  ASSUME TypeOK, Queued, NEW c \in Calls, NEW o, Take(c, o)
  PROVE  /\ \A i, j \in DOMAIN requests' : requests'[i] = requests'[j] => i = j
         /\ \A i \in DOMAIN requests' :
              /\ requests'[i] \notin {c, current, executing}
              /\ reply[requests'[i]] = "pending" /\ requests'[i] \in Calls
         /\ c \notin {current, executing} /\ reply[c] = "pending"
<1>1. requests \in Seq(Calls)
  BY DEF TypeOK
<1>2. \A i \in DOMAIN requests' : i+1 \in DOMAIN requests /\ i+1 # 1 /\ i \in Nat
  BY TakenFromQueue
<1>3. \A i \in DOMAIN requests : requests[i] \in Calls
  BY <1>1
<1> QED
  BY <1>2, <1>3, TakenFromQueue DEF Queued

Phases == [c \in Calls |-> Phase(reply[c])]

LEMMA ContractUntouched ==
  ASSUME UNCHANGED <<reply, executing>>, (actor' # "gone") = (actor # "gone")
  PROVE  [Contract!Next]_(Contract!vars)
BY DEF Contract!vars

LEMMA PhaseAfterAnswer ==
  ASSUME TypeOK, NEW c \in Calls, reply[c] = "pending",
         NEW r \in {"ok", "invalid", "io", "timeout"}, reply' = Answer(c, r)
  PROVE  /\ Phases' = [Phases EXCEPT ![c] = "answered"] /\ Phases[c] = "waiting"
         /\ \A d \in Calls \ {c} : reply'[d] = reply[d]
<1>1. reply' = [reply EXCEPT ![c] = r] /\ reply \in [Calls -> {"unasked", "pending", "ok",
                                                 "invalid", "io", "timeout", "ended"}]
  BY DEF Answer, TypeOK
<1>2. Phase(r) = "answered" /\ Phase("pending") = "waiting"
  BY DEF Phase
<1> QED
  BY <1>1, <1>2 DEF Phases

\* A call that is answered, and leaves the slot if it was there.
LEMMA ReplyIsReply ==
  ASSUME TypeOK, NEW c \in Calls, reply[c] = "pending",
         NEW r \in {"ok", "invalid", "io", "timeout"}, reply' = Answer(c, r),
         executing' = IF executing = c THEN None ELSE executing,
         (actor' # "gone") = (actor # "gone")
  PROVE  Contract!Next
<1>1. Contract!Reply(c)
  BY PhaseAfterAnswer DEF Contract!Reply, Phases
<1> QED
  BY <1>1 DEF Contract!Next

\* The submission of a call asks, in an open session.
LEMMA HeldSubmit ==
  ASSUME TypeOK, HeldInv, CurrentIsAsked, NEW c \in Calls, NEW o \in Ops, NEW shape,
         Submit(c, o, shape)
  PROVE  HeldInv' /\ Contract!Next
<1>1. /\ op[c] = "none" /\ op' = [op EXCEPT ![c] = o] /\ o # "none"
      /\ reply[c] = "unasked" /\ reply' = [reply EXCEPT ![c] = "pending"]
      /\ requests' = Append(requests, c)
      /\ UNCHANGED <<actor, current, state, executing>>
  BY DEF Submit, writing, session, HeldInv, NotAsked, Ops
<1>2. /\ op \in [Calls -> Ops \cup {"none"}] /\ requests \in Seq(Calls)
      /\ reply \in [Calls -> {"unasked", "pending", "ok", "invalid", "io", "timeout",
                              "ended"}]
      /\ {current, executing} \subseteq Calls \cup {None}
  BY DEF TypeOK
<1>3. \A d \in Calls : reply[d] = "pending" => d # c /\ reply'[d] = "pending"
  BY <1>1, <1>2
<1>4. c \notin {current, executing}
  BY <1>1, <1>2, NoneAssumption DEF HeldInv, InHand
<1>5. /\ DOMAIN requests' = 1..Len(requests)+1 /\ DOMAIN requests = 1..Len(requests)
      /\ Len(requests) \in Nat /\ requests'[Len(requests)+1] = c
      /\ \A i \in 1..Len(requests) : requests'[i] = requests[i] /\ requests[i] \in Calls
  BY <1>1, <1>2
<1>6. Queued'
  <2>1. \A i \in 1..Len(requests) : /\ requests[i] # c /\ reply'[requests[i]] = "pending"
                                    /\ requests[i] \notin {current, executing}
    BY <1>3, <1>5 DEF HeldInv, Queued
  <2>2. \A i, j \in 1..Len(requests) : requests[i] = requests[j] => i = j
    BY <1>5 DEF HeldInv, Queued
  <2>3. reply'[c] = "pending"
    BY <1>1, <1>2
  <2>4. \A i \in DOMAIN requests' : i \in 1..Len(requests) \/ i = Len(requests)+1
    BY <1>5
  <2> QED
    BY <1>1, <1>4, <1>5, <2>1, <2>2, <2>3, <2>4 DEF Queued
<1>7. InHand'
  <2>1. current \in Calls /\ reply[current] = "pending"
        => reply'[current] = "pending"
    BY <1>3
  <2>2. executing \in Calls /\ reply[executing] = "pending"
        => reply'[executing] = "pending"
    BY <1>3
  <2>3. actor = "writing" => op'[current] = op[current]
    BY <1>1, <1>2, <1>4
  <2> QED
    BY <1>1, <1>2, <2>1, <2>2, <2>3 DEF HeldInv, InHand
<1>8. NotAsked'
  BY <1>1, <1>2 DEF HeldInv, NotAsked
<1>9. Contract!Ask(c)
  <2>1. Phases[c] = "new" /\ Phases' = [Phases EXCEPT ![c] = "waiting"]
    BY <1>1, <1>2 DEF Phases, Phase
  <2> QED
    BY <1>1, <2>1 DEF Contract!Ask, Phases
<1> QED
  BY <1>6, <1>7, <1>8, <1>9 DEF HeldInv, Contract!Next

\* A request is refused, which is a reply, or becomes the one the actor is in.
LEMMA HeldRequest ==
  ASSUME TypeOK, HeldInv, NEW c \in Calls, HandleRequest(c)
  PROVE  HeldInv' /\ [Contract!Next]_(Contract!vars)
<1>0. c # None
  BY NoneAssumption
<1>1. ASSUME NEW o, Refuse(c, o) PROVE HeldInv' /\ Contract!Next
  <2>1. /\ Take(c, o) /\ reply' = Answer(c, "invalid")
        /\ UNCHANGED <<actor, current, state, executing, op>>
    BY <1>1 DEF Refuse, writing, session
  <2>2. /\ c \notin {current, executing} /\ reply[c] = "pending"
        /\ \A i, j \in DOMAIN requests' : requests'[i] = requests'[j] => i = j
        /\ \A i \in DOMAIN requests' :
             /\ requests'[i] \notin {c, current, executing}
             /\ reply[requests'[i]] = "pending" /\ requests'[i] \in Calls
    BY <2>1, QueueAfterTake DEF HeldInv
  <2>3. \A d \in Calls \ {c} : reply'[d] = reply[d]
    BY <2>1, <2>2, PhaseAfterAnswer
  <2>4. Queued'
    BY <2>1, <2>2, <2>3 DEF Queued
  <2>5. InHand'
    BY <2>1, <2>2, <2>3 DEF HeldInv, InHand, TypeOK
  <2>6. op[c] # "none"
    BY <2>2 DEF HeldInv, NotAsked
  <2>7. NotAsked'
    BY <2>1, <2>3, <2>6 DEF HeldInv, NotAsked
  <2>8. Contract!Next
    BY <2>1, <2>2, ReplyIsReply
  <2> QED
    BY <2>4, <2>5, <2>7, <2>8 DEF HeldInv
<1>2. ASSUME NEW o, Take(c, o), UNCHANGED <<state, executing, op, reply>>,
             current' = c, actor' \in {"writing", "stopping"},
             (actor' = "writing" /\ o \in LineOps) => state = "Idle"
      PROVE  HeldInv' /\ [Contract!Next]_(Contract!vars)
  <2>1. /\ c \notin {current, executing} /\ reply[c] = "pending"
        /\ \A i, j \in DOMAIN requests' : requests'[i] = requests'[j] => i = j
        /\ \A i \in DOMAIN requests' :
             /\ requests'[i] \notin {c, current, executing}
             /\ reply[requests'[i]] = "pending" /\ requests'[i] \in Calls
    BY <1>2, QueueAfterTake DEF HeldInv
  <2>2. actor = "select" /\ op[c] = o
    BY <1>2 DEF Take
  <2>3. Queued'
    BY <1>2, <2>1 DEF Queued
  <2>4. InHand' /\ NotAsked'
    BY <1>0, <1>2, <2>1, <2>2 DEF HeldInv, InHand, NotAsked
  <2>5. [Contract!Next]_(Contract!vars)
    BY <1>2, <2>2, ContractUntouched
  <2> QED
    BY <2>3, <2>4, <2>5 DEF HeldInv
<1>3. ASSUME NEW o \in LineOps, TakeLine(c, o)
      PROVE  HeldInv' /\ [Contract!Next]_(Contract!vars)
  BY <1>2, <1>3 DEF TakeLine, BeginWrite, session
<1>4. CASE TakeDetach(c)
  BY <1>2, <1>4 DEF TakeDetach, BeginWrite, session, LineOps
<1>5. CASE TakeKill(c)
  BY <1>2, <1>5 DEF TakeKill, TakeKillIf, session
<1> QED
  BY <1>1, <1>3, <1>4, <1>5 DEF HandleRequest, LineOps

\* A line that is written starts its command, or answers the continue; a write
\* that failed is answered.
LEMMA HeldWrite ==
  ASSUME TypeOK, HeldInv, CurrentIsAsked, WritePiece \/ WriteEnds \/ WriteFails
  PROVE  HeldInv' /\ [Contract!Next]_(Contract!vars)
<1>0. actor = "writing" /\ current \in Calls /\ current # None /\ requests' = requests
      /\ reply[current] = "pending" /\ current # executing /\ op' = op
      /\ op[current] # "none"
  BY NoneAssumption
     DEF HeldInv, InHand, NotAsked, CurrentIsAsked, Ops, WritePiece, WriteEnds, WriteFails,
         callVars
<1>1. CASE WritePiece
  <2>1. UNCHANGED <<actor, current, state, executing, requests, op, reply>>
    BY <1>1 DEF WritePiece, session, callVars
  <2> QED
    BY <2>1, ContractUntouched DEF HeldInv, Queued, InHand, NotAsked
<1>2. ASSUME NEW r \in {"ok", "io"}, reply' = Answer(current, r), executing' = executing,
             actor' = "select", current' = None,
             executing # None => state' = state
      PROVE  HeldInv' /\ Contract!Next
  <2>1. \A d \in Calls \ {current} : reply'[d] = reply[d]
    BY <1>0, <1>2, PhaseAfterAnswer
  <2>2. Queued'
    <3>1. \A i \in DOMAIN requests : requests[i] \in Calls
      BY DEF TypeOK
    <3>2. \A i \in DOMAIN requests : requests[i] \notin {current, None, executing}
      BY <3>1, NoneAssumption DEF HeldInv, Queued
    <3> QED
      BY <1>0, <1>2, <2>1, <3>1, <3>2 DEF HeldInv, Queued
  <2>3. InHand'
    BY <1>0, <1>2, <2>1 DEF HeldInv, InHand, TypeOK
  <2>4. NotAsked'
    BY <1>0, <2>1 DEF HeldInv, NotAsked
  <2>5. Contract!Next
    BY <1>0, <1>2, ReplyIsReply
  <2> QED
    BY <2>2, <2>3, <2>4, <2>5 DEF HeldInv
<1>3. CASE WriteFails
  BY <1>2, <1>3 DEF WriteFails, session
<1>4. CASE WriteEnds
  <2>1. CASE op[current] = "command"
    <3>1. /\ state = "Idle" /\ executing = None
      BY <1>0, <2>1 DEF HeldInv, InHand, LineOps
    <3>2. /\ state' = "Executing" /\ executing' = current /\ reply' = reply
          /\ actor' = "select" /\ current' = None
      BY <1>4, <2>1 DEF WriteEnds
    <3>3. Queued'
      <4>1. \A i \in DOMAIN requests : requests[i] \in Calls
        BY DEF TypeOK
      <4> QED
        BY <1>0, <3>2, <4>1, NoneAssumption DEF HeldInv, Queued
    <3>4. InHand' /\ NotAsked'
      BY <1>0, <3>2 DEF HeldInv, InHand, NotAsked
    <3>5. Contract!Start(current)
      <4>1. Phases[current] = "waiting" /\ Phases' = Phases
        BY <1>0, <3>2 DEF Phases, Phase
      <4> QED
        BY <1>0, <3>1, <3>2, <4>1 DEF Contract!Start, Phases
    <3> QED
      BY <1>0, <3>3, <3>4, <3>5 DEF HeldInv, Contract!Next
  <2>2. CASE op[current] = "continue"
    <3>1. executing = None
      BY <1>0, <2>2 DEF HeldInv, InHand, LineOps
    <3> QED
      BY <1>2, <1>4, <2>2, <3>1 DEF WriteEnds
  <2>3. CASE op[current] = "detach"
    <3>1. /\ actor' = "stopping" /\ UNCHANGED <<current, state, executing, reply>>
      BY <1>4, <2>3 DEF WriteEnds
    <3>2. HeldInv'
      BY <1>0, <3>1 DEF HeldInv, Queued, InHand, NotAsked
    <3> QED
      BY <1>0, <3>1, <3>2, ContractUntouched
  <2> QED
    BY <1>4, <2>1, <2>2, <2>3 DEF WriteEnds
<1> QED
  BY <1>1, <1>3, <1>4

\* What is in the slot is answered and leaves it.
LEMMA HeldSlot ==
  ASSUME TypeOK, HeldInv, actor = "select", executing # None, executing' = None,
         NEW r \in {"ok", "timeout"}, reply' = Answer(executing, r),
         UNCHANGED <<actor, current, requests, op>>
  PROVE  HeldInv' /\ Contract!Next
<1>1. executing \in Calls /\ reply[executing] = "pending" /\ current = None
  BY DEF HeldInv, InHand, TypeOK
<1>2. op[executing] # "none"
  BY <1>1 DEF HeldInv, NotAsked
<1>3. \A d \in Calls \ {executing} : reply'[d] = reply[d]
  BY <1>1, PhaseAfterAnswer
<1>4. Queued'
  <2>1. \A i \in DOMAIN requests : requests[i] \in Calls
    BY DEF TypeOK
  <2> QED
    BY <1>1, <1>3, <2>1 DEF HeldInv, Queued
<1>5. InHand' /\ NotAsked'
  BY <1>1, <1>2, <1>3 DEF HeldInv, InHand, NotAsked
<1>6. Contract!Next
  BY <1>1, ReplyIsReply
<1> QED
  BY <1>4, <1>5, <1>6 DEF HeldInv

LEMMA HeldTakeOutput ==
  ASSUME TypeOK, HeldInv, TakeOutput
  PROVE  HeldInv' /\ [Contract!Next]_(Contract!vars)
<1>1. actor = "select" /\ current = None /\ UNCHANGED <<actor, current, requests, op>>
  BY DEF TakeOutput, writing, HeldInv, InHand
<1>2. CASE executing # None /\ executing' = None
  <2>1. reply' = Answer(executing, "ok")
    BY <1>2 DEF TakeOutput
  <2> QED
    BY <1>1, <1>2, <2>1, HeldSlot
<1>3. CASE ~(executing # None /\ executing' = None)
  <2>1. UNCHANGED <<reply, executing>> /\ (executing = None \/ state' = state)
    BY <1>3 DEF TakeOutput
  <2>2. HeldInv'
    BY <1>1, <2>1 DEF HeldInv, Queued, InHand, NotAsked
  <2> QED
    BY <1>1, <2>1, <2>2, ContractUntouched
<1> QED
  BY <1>2, <1>3

\* The end of the actor closes the session, and answers all that wait.
LEMMA HeldEnds ==
  ASSUME TypeOK, HeldInv, actor # "gone", ActorEnds PROVE HeldInv' /\ Contract!Next
<1>1. /\ actor' = "gone" /\ current' = None /\ executing' = None /\ requests' = <<>>
      /\ reply' = [c \in Calls |-> IF reply[c] = "pending" THEN "ended" ELSE reply[c]]
      /\ op' = op
  BY DEF ActorEnds
<1>2. HeldInv'
  BY <1>1 DEF HeldInv, Queued, InHand, NotAsked
<1>3. Phases' = [c \in Calls |-> IF c \in Calls /\ Phases[c] = "waiting"
                                   THEN "answered" ELSE Phases[c]]
  <2>1. \A c \in Calls : Phase(reply'[c]) = IF Phase(reply[c]) = "waiting"
                                              THEN "answered" ELSE Phase(reply[c])
    BY <1>1 DEF Phase
  <2> QED
    BY <2>1 DEF Phases
<1>4. executing # None => executing \in Calls
  BY DEF TypeOK
<1>5. Contract!Close(Calls)
  BY <1>1, <1>3, <1>4 DEF Contract!Close, Phases
<1> QED
  BY <1>2, <1>5 DEF Contract!Next

LEMMA HeldStep ==
  ASSUME TypeOK, HeldInv, CurrentIsAsked, [Next]_vars
  PROVE  HeldInv' /\ [Contract!Next]_(Contract!vars)
<1>1. CASE DeadlinePasses
  BY <1>1, HeldSlot DEF DeadlinePasses, writing
<1>2. CASE ChildExit \/ StopReturns
  BY <1>2, HeldEnds DEF ChildExit, StopReturns
<1>3. CASE Cdb \/ UNCHANGED vars
  <2>1. UNCHANGED <<actor, current, requests, state, executing, op, reply>>
    BY <1>3 DEF Cdb, CdbReads, CdbWrites, CdbPrompts, CdbExits, vars, writing, session,
                callVars
  <2> QED
    BY <2>1, ContractUntouched DEF HeldInv, Queued, InHand, NotAsked
<1> QED
  BY <1>1, <1>2, <1>3, HeldSubmit, HeldRequest, HeldWrite, HeldTakeOutput
     DEF Next, Actor

\* StdioPipes refines SessionContract: writes that wait, for room and for as long as
\* they may, make no call answered twice and no second command current, for commands
\* of any shape and pipes of any size.
THEOREM PipesKeepContract == Spec => KeepsContract
<1>1. Init => Contract!Init
  BY DEF Init, Contract!Init, Phase
<1>2. TypeOK /\ HeldInv /\ CurrentIsAsked /\ [Next]_vars
      => HeldInv' /\ [Contract!Next]_(Contract!vars)
  BY HeldStep
<1>3. Init => CurrentIsAsked
  BY TurnInit
<1> QED
  BY <1>1, <1>2, <1>3, HeldInit, AskedStep, StdioTypes, PTL
     DEF Spec, KeepsContract, Contract!Spec
=============================================================================

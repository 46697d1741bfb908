--------------------------- MODULE GameRoomsProofs --------------------------
(***************************************************************************)
(* Theorems about the three games of GameRooms:                            *)
(*   TTT3D        the game stays in order and its second flag is given     *)
(*                within the time, for a board of any odd number of cells, *)
(*                any number of wins and any time limit;                   *)
(*   Exploitable  no password outlives its limit, whatever that is;        *)
(*   Brainfuzz    the interpreter does what a program means, for any       *)
(*                program, any sizes and any limit of a byte.              *)
(***************************************************************************)
EXTENDS GameRooms, FiniteSetTheorems, SequenceTheorems, TLAPS

-----------------------------------------------------------------------------
(* Tic-Tac-Toe 3D. *)


\* The cells of a mark are finitely many.
LEMMA MarkedFinite ==
  ASSUME NEW board, NEW mark
  PROVE  /\ IsFiniteSet(Marked(board, mark))
         /\ Cardinality(Marked(board, mark)) \in Nat
BY FS_Subset, FS_CardinalityType, CellsAssumption DEF Marked

LEMMA CellsCount == IsFiniteSet(Cells) /\ Cardinality(Cells) \in Nat /\ Cardinality(Cells) % 2 = 1
BY FS_CardinalityType, CellsAssumption

\* The taken cells are those of X and those of O.
LEMMA TakenCount ==
  ASSUME NEW board \in [Cells -> Mark]
  PROVE  /\ IsFiniteSet(Taken(board))
         /\ Cardinality(Taken(board)) =
              Cardinality(Marked(board, "X")) + Cardinality(Marked(board, "O"))
<1>1. Taken(board) = Marked(board, "X") \cup Marked(board, "O")
  BY DEF Taken, Marked, Mark
<1>2. Marked(board, "X") \cap Marked(board, "O") = {}
  BY DEF Marked
<1>3. /\ IsFiniteSet(Marked(board, "X")) /\ Cardinality(Marked(board, "X")) \in Nat
      /\ IsFiniteSet(Marked(board, "O")) /\ Cardinality(Marked(board, "O")) \in Nat
  BY MarkedFinite
<1>4. Cardinality(Marked(board, "X") \cap Marked(board, "O")) = 0
  BY <1>2, FS_EmptySet
<1>5. Cardinality(Marked(board, "X") \cup Marked(board, "O")) =
        Cardinality(Marked(board, "X")) + Cardinality(Marked(board, "O"))
  <2>1. Cardinality(Marked(board, "X") \cup Marked(board, "O")) =
          Cardinality(Marked(board, "X")) + Cardinality(Marked(board, "O"))
            - Cardinality(Marked(board, "X") \cap Marked(board, "O"))
    BY <1>3, FS_Union
  <2> QED BY <1>3, <1>4, <2>1
<1>6. IsFiniteSet(Marked(board, "X") \cup Marked(board, "O"))
  BY <1>3, FS_Union
<1> QED BY <1>1, <1>5, <1>6

\* A mark in an empty cell adds one cell to those of the mark.
Put(board, cell, mark) == [board EXCEPT ![cell] = mark]

LEMMA MarkCell ==
  ASSUME NEW board \in [Cells -> Mark], NEW cell \in Cells \ Taken(board),
         NEW mark \in {"X", "O"}
  PROVE  /\ Put(board, cell, mark) \in [Cells -> Mark]
         /\ Cardinality(Marked(Put(board, cell, mark), mark)) = Cardinality(Marked(board, mark)) + 1
         /\ \A other \in {"X", "O"} :
              other # mark => Marked(Put(board, cell, mark), other) = Marked(board, other)
<1> DEFINE next == Put(board, cell, mark)
<1>1. board[cell] = "_" /\ next = [board EXCEPT ![cell] = mark] /\ next \in [Cells -> Mark]
  BY DEF Taken, Marked, Mark, Put
<1> HIDE DEF next
<1>2. Marked(next, mark) = Marked(board, mark) \cup {cell} /\ cell \notin Marked(board, mark)
  BY <1>1 DEF Marked
<1>3. Cardinality(Marked(next, mark)) = Cardinality(Marked(board, mark)) + 1
  BY <1>2, FS_AddElement, MarkedFinite
<1>4. \A other \in {"X", "O"} : other # mark => Marked(next, other) = Marked(board, other)
  BY <1>1 DEF Marked
<1> QED BY <1>1, <1>3, <1>4 DEF next

\* The empty board has no mark.
LEMMA EmptyBoardCount ==
  /\ EmptyBoard \in [Cells -> Mark]
  /\ Cardinality(Marked(EmptyBoard, "X")) = 0 /\ Cardinality(Marked(EmptyBoard, "O")) = 0
  /\ Cardinality(Taken(EmptyBoard)) = 0
<1>1. EmptyBoard \in [Cells -> Mark]
  BY DEF EmptyBoard, Mark
<1>2. Marked(EmptyBoard, "X") = {} /\ Marked(EmptyBoard, "O") = {}
  BY DEF Marked, EmptyBoard
<1>3. Taken(EmptyBoard) = {}
  BY DEF Taken, Marked, EmptyBoard
<1> QED BY <1>1, <1>2, <1>3, FS_EmptySet

\* A board with as many X as O has a free cell, for the cells are odd.
LEMMA FreeCell ==
  ASSUME NEW board \in [Cells -> Mark],
         Cardinality(Marked(board, "X")) = Cardinality(Marked(board, "O"))
  PROVE  Cardinality(Taken(board)) < Cardinality(Cells)
<1>1. Cardinality(Taken(board)) \in Nat /\ Cardinality(Taken(board)) <= Cardinality(Cells)
  BY FS_Subset, FS_CardinalityType, CellsCount DEF Taken
<1>2. Cardinality(Taken(board)) = 2 * Cardinality(Marked(board, "X"))
  BY TakenCount, MarkedFinite
<1>3. Cardinality(Taken(board)) % 2 = 0
  BY <1>2, MarkedFinite
<1> QED BY <1>1, <1>3, CellsCount

-----------------------------------------------------------------------------
\* The wins that count were won since the clock was started.
WinsSinceStart ==
  t3_net_wins > 0 => t3_timer_started = 1 /\ t3_start_time <= firstWin

\* The inductive invariant.
T3DInv == TypeOK /\ BoardInOrder /\ WinsSinceStart /\ FlagWithinTime

\* The start of the clock that a command within the time goes by.
LEMMA StartTimeType ==
  ASSUME T3DInv
  PROVE  /\ StartTime \in 0..time
         /\ t3_net_wins > 0 => StartTime <= firstWin
BY LimitAssumption DEF T3DInv, TypeOK, WinsSinceStart, StartTime

LEMMA InitT3DInv == Init => T3DInv
<1> SUFFICES ASSUME Init PROVE T3DInv
  OBVIOUS
<1>1. t3_board \in [Cells -> Mark] /\ Cardinality(Marked(t3_board, "X")) = Cardinality(Marked(t3_board, "O"))
  BY OpeningsAssumption DEF Init
<1>2. t3_moves = Cardinality(Taken(t3_board)) /\ t3_moves < Cardinality(Cells)
  BY <1>1, FreeCell DEF Init
<1>3. t3_moves \in Nat
  BY <1>1, <1>2, TakenCount, FS_CardinalityType
<1>4. BoardInOrder
  BY <1>1, <1>2 DEF BoardInOrder
<1>5. TypeOK
  <2>1. t3_moves \in 0..Cardinality(Cells)
    BY <1>2, <1>3, CellsCount
  <2>2. t3_timer_started \in 0..1
    BY DEF Init
  <2>3. /\ t3_net_wins \in 0..MaxWins /\ t3_start_time \in 0..time /\ time \in 0..MaxTime
        /\ answer \subseteq Answers /\ firstWin \in 0..time
    BY LimitAssumption DEF Init
  <2>4. final \in [Cells -> Mark]
    BY EmptyBoardCount DEF Init
  <2> QED BY <1>1, <2>1, <2>2, <2>3, <2>4 DEF TypeOK
<1>6. WinsSinceStart /\ FlagWithinTime
  BY DEF Init, WinsSinceStart, FlagWithinTime
<1> QED BY <1>4, <1>5, <1>6 DEF T3DInv

\* A fresh board, whatever else a step does.
LEMMA FreshBoard ==
  ASSUME t3_board' = EmptyBoard, t3_moves' = 0
  PROVE  BoardInOrder'
<1>1. 0 < Cardinality(Cells)
  BY CellsCount
<1> QED BY <1>1, EmptyBoardCount DEF BoardInOrder

\* T3Dreset forgets the wins, and with them when they were won.
LEMMA ResetKeepsT3DInv ==
  ASSUME T3DInv, NEW answers \in SUBSET {"timeIsUp"}, T3Dreset(answers),
         t3_timer_started' \in 0..1
  PROVE  T3DInv'
<1>1. /\ t3_board' = EmptyBoard /\ t3_moves' = 0 /\ t3_net_wins' = 0
      /\ t3_start_time' = time /\ time' = time /\ firstWin' = firstWin /\ final' = final
  BY DEF T3Dreset
<1>2. answer' \subseteq {"timeIsUp", "resetting", "board"}
  BY DEF T3Dreset, T3DprintBoard
<1>3. TypeOK
  BY DEF T3DInv
<1>4. BoardInOrder'
  BY <1>1, FreshBoard
<1>5. TypeOK'
  BY <1>1, <1>2, <1>3, EmptyBoardCount, CellsCount, LimitAssumption DEF TypeOK, Answers
<1>6. WinsSinceStart' /\ FlagWithinTime'
  BY <1>1, <1>2 DEF WinsSinceStart, FlagWithinTime
<1> QED BY <1>4, <1>5, <1>6 DEF T3DInv

\* A refused command leaves the game alone and gives no flag.
LEMMA RefuseKeepsT3DInv ==
  ASSUME T3DInv, NEW answers \in SUBSET {"welcome", "board", "invalid", "taken"}, Refuse(answers),
         t3_timer_started' \in 0..1, t3_start_time' \in 0..time, time' = time,
         t3_net_wins > 0 => t3_timer_started' = 1 /\ t3_start_time' <= firstWin
  PROVE  T3DInv'
<1>1. BoardInOrder'
  BY DEF T3DInv, BoardInOrder, Refuse
<1>2. TypeOK'
  BY DEF T3DInv, TypeOK, Refuse, Answers
<1>3. WinsSinceStart' /\ FlagWithinTime'
  BY DEF Refuse, WinsSinceStart, FlagWithinTime
<1> QED BY <1>1, <1>2, <1>3 DEF T3DInv

\* What began later lasts no longer.
LEMMA Later ==
  ASSUME NEW now \in Int, NEW start \in Int, NEW later \in Int, NEW limit \in Int,
         now - start <= limit, start <= later
  PROVE  now - later <= limit
OBVIOUS

\* The last move of X ends the game; a win is counted, and the flag given, at
\* a time within the limit.
LEMMA EndGameKeepsT3DInv ==
  ASSUME T3DInv, InTime, NEW board \in [Cells -> Mark], EndGame(board)
  PROVE  T3DInv'
<1>1. /\ time \in 0..MaxTime /\ t3_net_wins \in 0..MaxWins /\ firstWin \in 0..time
      /\ StartTime \in 0..time /\ time - StartTime <= TimeLimit
      /\ t3_net_wins > 0 => StartTime <= firstWin
  BY StartTimeType, LimitAssumption DEF T3DInv, TypeOK, InTime, T3Dtimeout
<1>2. /\ t3_start_time' = StartTime /\ t3_timer_started' = 1 /\ time' = time
      /\ t3_board' = EmptyBoard /\ t3_moves' = 0 /\ final' = board
  BY DEF InTime, EndGame, T3DnewGame
<1>3. /\ t3_net_wins' \in 0..MaxWins /\ firstWin' \in 0..time
      /\ t3_net_wins' > 0 => StartTime <= firstWin'
      /\ answer' \subseteq Answers
      /\ "winme10" \in answer' => t3_net_wins' >= WinsForFlag
  BY <1>1, LimitAssumption DEF EndGame, T3DprintBoard, SendWinResponse, Answers
<1>4. BoardInOrder'
  BY <1>2, FreshBoard
<1>5. TypeOK'
  BY <1>1, <1>2, <1>3, EmptyBoardCount, CellsCount, LimitAssumption DEF TypeOK
<1>6. WinsSinceStart'
  BY <1>2, <1>3 DEF WinsSinceStart
<1>7. FlagWithinTime'
  <2> SUFFICES ASSUME "winme10" \in answer'
               PROVE  t3_net_wins' >= WinsForFlag /\ time' - firstWin' <= TimeLimit
    BY DEF FlagWithinTime
  <2>1. t3_net_wins' >= WinsForFlag /\ WinsForFlag > 0 /\ t3_net_wins' \in Nat
    BY <1>3, LimitAssumption
  <2>2. StartTime <= firstWin' /\ firstWin' \in 0..time
    BY <1>3, <2>1, LimitAssumption
  <2>3. time' - firstWin' <= TimeLimit
    <3>1. time \in Int /\ StartTime \in Int /\ firstWin' \in Int /\ TimeLimit \in Int
      BY <1>1, <2>2, LimitAssumption
    <3>2. time - StartTime <= TimeLimit /\ StartTime <= firstWin'
      BY <1>1, <2>2
    <3>3. time - firstWin' <= TimeLimit
      BY <3>1, <3>2, Later
    <3>4. time' = time
      BY <1>2
    <3> QED BY <3>3, <3>4
  <2> QED BY <2>1, <2>3
<1> QED BY <1>4, <1>5, <1>6, <1>7 DEF T3DInv

\* Any other move of X and that of O take one cell each, and leave one.
LEMMA MoveOKeepsT3DInv ==
  ASSUME T3DInv, InTime, NEW cell \in Cells \ Taken(t3_board),
         MoveO([t3_board EXCEPT ![cell] = "X"])
  PROVE  T3DInv'
<1> DEFINE board == [t3_board EXCEPT ![cell] = "X"]
<1>1. /\ t3_board \in [Cells -> Mark] /\ t3_moves = Cardinality(Taken(t3_board))
      /\ Cardinality(Marked(t3_board, "X")) = Cardinality(Marked(t3_board, "O"))
  BY DEF T3DInv, TypeOK, BoardInOrder
<1>2. /\ board \in [Cells -> Mark]
      /\ Cardinality(Marked(board, "X")) = Cardinality(Marked(t3_board, "X")) + 1
      /\ Marked(board, "O") = Marked(t3_board, "O")
  <2>1. board = Put(t3_board, cell, "X")
    BY DEF Put
  <2> HIDE DEF board
  <2> QED BY <1>1, <2>1, MarkCell
<1>3. PICK c \in Cells \ Taken(board) : t3_board' = Put(board, c, "O")
  BY DEF MoveO, Put
<1>4. /\ t3_board' \in [Cells -> Mark]
      /\ Cardinality(Marked(t3_board', "O")) = Cardinality(Marked(board, "O")) + 1
      /\ Marked(t3_board', "X") = Marked(board, "X")
  <2> HIDE DEF board
  <2> QED BY <1>2, <1>3, MarkCell
<1>5. Cardinality(Marked(t3_board', "X")) = Cardinality(Marked(t3_board', "O"))
  BY <1>1, <1>2, <1>4
<1>6. Cardinality(Taken(t3_board')) < Cardinality(Cells)
  BY <1>4, <1>5, FreeCell
<1>7. Cardinality(Taken(t3_board')) = Cardinality(Taken(t3_board)) + 2
  <2>1. Cardinality(Taken(t3_board)) =
          Cardinality(Marked(t3_board, "X")) + Cardinality(Marked(t3_board, "O"))
    BY <1>1, TakenCount
  <2>2. Cardinality(Taken(t3_board')) =
          Cardinality(Marked(t3_board', "X")) + Cardinality(Marked(t3_board', "O"))
    BY <1>4, TakenCount
  <2>3. /\ Cardinality(Marked(t3_board, "X")) \in Nat /\ Cardinality(Marked(t3_board, "O")) \in Nat
    BY MarkedFinite
  <2> QED BY <1>1, <1>2, <1>4, <2>1, <2>2, <2>3
<1>8. t3_moves' = Cardinality(Taken(t3_board'))
  BY <1>1, <1>7 DEF MoveO
<1>9. BoardInOrder'
  BY <1>5, <1>6, <1>8 DEF BoardInOrder
<1>10. TypeOK'
  <2>1. t3_moves' \in 0..Cardinality(Cells)
    BY <1>1, <1>6, <1>7, <1>8, CellsCount, FS_CardinalityType, TakenCount
  <2>2. /\ t3_net_wins' = t3_net_wins /\ firstWin' = firstWin /\ final' = final /\ time' = time
        /\ t3_start_time' = StartTime /\ t3_timer_started' = 1 /\ answer' = {"board"}
    BY DEF MoveO, T3DprintBoard, InTime
  <2> QED BY <1>4, <2>1, <2>2, StartTimeType DEF T3DInv, TypeOK, Answers
<1>11. WinsSinceStart' /\ FlagWithinTime'
  BY StartTimeType DEF InTime, MoveO, T3DprintBoard, WinsSinceStart, FlagWithinTime
<1> QED BY <1>9, <1>10, <1>11 DEF T3DInv

LEMMA PlayKeepsT3DInv ==
  ASSUME T3DInv, Play
  PROVE  T3DInv'
<1>1. PICK cell \in Cells \ Taken(t3_board) : T3DmakePlay(cell)
  BY DEF Play
<1> DEFINE board == [t3_board EXCEPT ![cell] = "X"]
<1>2. InTime /\ board \in [Cells -> Mark]
  BY DEF Play, T3DInv, TypeOK, Mark
<1>3. CASE EndGame(board)
  BY <1>2, <1>3, EndGameKeepsT3DInv
<1>4. CASE MoveO(board)
  BY <1>2, <1>4, MoveOKeepsT3DInv
<1> QED BY <1>1, <1>3, <1>4 DEF T3DmakePlay

-----------------------------------------------------------------------------
LEMMA StepKeepsT3DInv == T3DInv /\ [Next]_vars => T3DInv'
<1> SUFFICES ASSUME T3DInv, [Next]_vars PROVE T3DInv'
  OBVIOUS
<1>1. /\ StartTime \in 0..time /\ (t3_net_wins > 0 => StartTime <= firstWin)
      /\ t3_start_time \in 0..time /\ t3_timer_started \in 0..1
      /\ (t3_net_wins > 0 => t3_timer_started = 1 /\ t3_start_time <= firstWin)
  BY StartTimeType DEF T3DInv, TypeOK, WinsSinceStart
<1>2. CASE Tick
  <2>1. TypeOK'
    BY <1>2, LimitAssumption DEF T3DInv, TypeOK, Tick
  <2> QED BY <1>2, <2>1 DEF T3DInv, Tick, BoardInOrder, WinsSinceStart, FlagWithinTime
<1>3. CASE Welcome
  BY <1>1, <1>3, RefuseKeepsT3DInv DEF Welcome, T3DprintBoard
<1>4. CASE Reset
  BY <1>1, <1>4, ResetKeepsT3DInv DEF Reset
<1>5. CASE TimeIsUp
  BY <1>5, ResetKeepsT3DInv DEF TimeIsUp
<1>6. CASE Invalid
  BY <1>1, <1>6, RefuseKeepsT3DInv DEF Invalid, InTime
<1>7. CASE SpaceTaken
  BY <1>1, <1>7, RefuseKeepsT3DInv DEF SpaceTaken, InTime
<1>8. CASE Play
  BY <1>8, PlayKeepsT3DInv
<1>9. CASE UNCHANGED vars
  BY <1>9 DEF vars, T3DInv, TypeOK, BoardInOrder, WinsSinceStart, FlagWithinTime
<1> QED BY <1>2, <1>3, <1>4, <1>5, <1>6, <1>7, <1>8, <1>9 DEF Next, T3DcommandHandler

\* The inductive invariant holds in every reachable state.
THEOREM T3DInvariance == Spec => []T3DInv
BY InitT3DInv, StepKeepsT3DInv, PTL DEF Spec

\* Every variable keeps its type: no count leaves its range.
THEOREM TTT3DTypeCorrect == Spec => []TypeOK
<1>1. T3DInv => TypeOK
  BY DEF T3DInv
<1> QED BY <1>1, T3DInvariance, PTL

\* On a board of any odd number of cells the moves are counted rightly and the
\* badge always finds a cell for O.
THEOREM BoardStaysInOrder == Spec => []BoardInOrder
<1>1. T3DInv => BoardInOrder
  BY DEF T3DInv
<1> QED BY <1>1, T3DInvariance, PTL

\* Whatever the limits, the second flag is given only for enough wins within
\* the time limit.
THEOREM FlagIsEarned == Spec => []FlagWithinTime
<1>1. T3DInv => FlagWithinTime
  BY DEF T3DInv
<1> QED BY <1>1, T3DInvariance, PTL

-----------------------------------------------------------------------------
(* Exploitable. *)


\* What was greeted has a password, and its clock is no younger than it is: that of
\* level 2 may be older, for the greeting does not start it.
NoYounger ==
  \A n \in Timed : n \in greeted => sinceDrawn[n] <= sinceStart[n]

ExpInv == ExpTypeOK /\ NoYounger /\ PasswordsExpire

LEMMA Ages ==
  ASSUME NEW a \in Age, NEW b \in Age
  PROVE  /\ Limit \in Nat /\ 0 \in Age /\ Limit + 1 \in Age /\ Older(a) \in Age
         /\ a <= b => Older(a) <= Older(b)
BY SecondsAssumption DEF Age, Older

\* A greeting wanted or forced: the password is new, and the clock at most reset.
LEMMA Drawn ==
  ASSUME ExpInv, NEW n \in Timed, Draw(n), judged' = 0,
         sinceStart' = sinceStart \/ Restarted(n), greeted' \in {greeted, greeted \cup {n}},
         exp_cur_level' \in Level \ {4}
  PROVE  ExpInv'
<1>1. sinceDrawn' \in [Timed -> Age] /\ sinceDrawn'[n] = 0
        /\ \A k \in Timed : k # n => sinceDrawn'[k] = sinceDrawn[k]
  BY Ages DEF Draw, ExpInv, ExpTypeOK
<1>2. sinceStart' \in [Timed -> Age] /\ sinceStart'[n] \in Age
        /\ \A k \in Timed : k # n => sinceStart'[k] = sinceStart[k]
  BY Ages DEF Restarted, ExpInv, ExpTypeOK
<1>3. password2' \in Secrets \cup {0}
  BY DEF Draw, ExpInv, ExpTypeOK
<1>4. greeted' \subseteq 0..3
  BY DEF ExpInv, ExpTypeOK, Timed
<1>5. ExpTypeOK'
  BY <1>1, <1>2, <1>3, <1>4 DEF ExpTypeOK
<1>6. NoYounger'
  BY <1>1, <1>2, SecondsAssumption DEF ExpInv, NoYounger, Age
<1>7. PasswordsExpire'
  BY DEF PasswordsExpire, Timed
<1> QED
  BY <1>5, <1>6, <1>7 DEF ExpInv

\* No password and no clock changes; what is judged is in time.
LEMMA Untouched ==
  ASSUME ExpInv, UNCHANGED <<sinceStart, password2, sinceDrawn>>,
         greeted' \in {greeted, greeted \cup {0}, greeted \cup {3}},
         judged' \in 0..2, judged' \in Timed => judged' \in greeted /\ ~Late(judged'),
         exp_cur_level' \in Level \ {4}
  PROVE  ExpInv'
<1>1. ExpTypeOK'
  BY DEF ExpInv, ExpTypeOK
<1>2. \A n \in Timed : n \in greeted' <=> n \in greeted
  BY DEF Timed
<1>3. NoYounger'
  BY <1>2 DEF ExpInv, NoYounger
<1>4. \A n \in Timed : n \in greeted /\ ~Late(n) => sinceDrawn[n] <= Limit
  BY SecondsAssumption DEF ExpInv, NoYounger, Late, ExpTypeOK, Age
<1>5. PasswordsExpire'
  BY <1>2, <1>4 DEF PasswordsExpire
<1> QED
  BY <1>1, <1>3, <1>5 DEF ExpInv

LEMMA Commanded ==
  ASSUME ExpInv, NEW cmd \in Commands, EXPcommandHandler(cmd)
  PROVE  ExpInv'
<1>1. CASE BadSelection(cmd)
  BY <1>1, Untouched DEF EXPcommandHandler, ExpInv, ExpTypeOK, Timed
<1>2. CASE ~BadSelection(cmd)
  <2>1. CallLevel(exp_cur_level', cmd)
    BY <1>2 DEF EXPcommandHandler
  <2>2. exp_cur_level' \in Level \ {4}
    BY <1>2 DEF EXPcommandHandler, BadSelection, ExpInv, ExpTypeOK
  <2>3. CASE exp_cur_level' = 1
    <3>1. exp_level1(cmd)
      BY <2>1, <2>3 DEF CallLevel
    <3>2. CASE cmd = NoData \/ 1 \notin greeted \/ Late(1)
      <4>1. /\ Draw(1) /\ Restarted(1) /\ judged' = 0
            /\ greeted' \in {greeted, greeted \cup {1}}
        BY <3>1, <3>2 DEF exp_level1, Greet
      <4> QED
        BY <2>2, <4>1, Drawn DEF Timed
    <3>3. CASE ~(cmd = NoData \/ 1 \notin greeted \/ Late(1))
      <4>1. judged' = 1 /\ UNCHANGED <<greeted, sinceStart, password2, sinceDrawn>>
        BY <3>1, <3>3 DEF exp_level1
      <4> QED
        BY <2>2, <3>3, <4>1, Untouched
    <3> QED
      BY <3>2, <3>3
  <2>4. CASE exp_cur_level' = 2
    <3>1. exp_level2(cmd)
      BY <2>1, <2>4 DEF CallLevel
    <3>2. CASE cmd = NoData \/ 2 \notin greeted \/ Late(2)
      <4>1. /\ Draw(2) /\ judged' = 0 /\ (sinceStart' = sinceStart \/ Restarted(2))
            /\ greeted' \in {greeted, greeted \cup {2}}
        BY <3>1, <3>2 DEF exp_level2, Greet
      <4> QED
        BY <2>2, <4>1, Drawn DEF Timed
    <3>3. CASE ~(cmd = NoData \/ 2 \notin greeted \/ Late(2))
      <4>1. judged' = 2 /\ UNCHANGED <<greeted, sinceStart, password2, sinceDrawn>>
        BY <3>1, <3>3 DEF exp_level2
      <4> QED
        BY <2>2, <3>3, <4>1, Untouched
    <3> QED
      BY <3>2, <3>3
  <2>5. CASE exp_cur_level' \notin {1, 2}
    <3>1. /\ judged' = 0 /\ UNCHANGED <<sinceStart, password2, sinceDrawn>>
          /\ greeted' \in {greeted, greeted \cup {0}, greeted \cup {3}}
      BY <2>1, <2>5 DEF CallLevel, exp_level0, exp_level3, exp_answer, Greet
    <3> QED
      BY <2>2, <3>1, Untouched DEF Timed
  <2> QED
    BY <2>3, <2>4, <2>5
<1> QED
  BY <1>1, <1>2

LEMMA SecondPasses ==
  ASSUME ExpInv, Second
  PROVE  ExpInv'
<1>1. /\ sinceStart' = [n \in Timed |-> Older(sinceStart[n])]
      /\ sinceDrawn' = [n \in Timed |-> Older(sinceDrawn[n])]
      /\ judged' = 0 /\ UNCHANGED <<exp_cur_level, greeted, password2>>
  BY DEF Second
<1>2. \A n \in Timed : sinceStart[n] \in Age /\ sinceDrawn[n] \in Age
  BY DEF ExpInv, ExpTypeOK
<1>3. ExpTypeOK'
  BY <1>1, <1>2, Ages DEF ExpInv, ExpTypeOK
<1>4. NoYounger'
  BY <1>1, <1>2, Ages DEF ExpInv, NoYounger
<1>5. PasswordsExpire'
  BY <1>1 DEF PasswordsExpire, Timed
<1> QED
  BY <1>3, <1>4, <1>5 DEF ExpInv

LEMMA Restarts ==
  ASSUME ExpInv, Restart
  PROVE  ExpInv'
<1>1. PICK age \in Age : sinceStart' = [n \in Timed |-> age]
  BY DEF Restart
<1>2. ExpTypeOK'
  BY <1>1, Ages DEF Restart, ExpTypeOK, Level
<1>3. NoYounger' /\ PasswordsExpire'
  BY DEF Restart, NoYounger, PasswordsExpire, Timed
<1> QED
  BY <1>2, <1>3 DEF ExpInv

LEMMA ExpInvariance == ExpSpec => []ExpInv
<1>1. EXPinit => ExpInv
  BY SecondsAssumption DEF EXPinit, ExpInv, ExpTypeOK, NoYounger, PasswordsExpire, Timed, Age, Level
<1>2. ExpInv /\ [ExpNext]_expVars => ExpInv'
  <2> SUFFICES ASSUME ExpInv, [ExpNext]_expVars PROVE ExpInv'
    OBVIOUS
  <2>1. CASE ExpNext
    BY <2>1, Commanded, SecondPasses, Restarts DEF ExpNext
  <2>2. CASE UNCHANGED expVars
    BY <2>2 DEF expVars, ExpInv, ExpTypeOK, NoYounger, PasswordsExpire
  <2> QED
    BY <2>1, <2>2
<1> QED
  BY <1>1, <1>2, PTL DEF ExpSpec

\* The level, the greetings, the clocks and what is compared keep their types
\* (game_master.cpp:507-701).
THEOREM ExploitableTypeCorrect == ExpSpec => []ExpTypeOK
<1>1. ExpInv => ExpTypeOK
  BY DEF ExpInv
<1> QED
  BY <1>1, ExpInvariance, PTL

\* For any limit no guess is compared with a password that was drawn longer ago, or with
\* one that was never drawn (game_master.cpp:548-616).
THEOREM PasswordsDoExpire == ExpSpec => []PasswordsExpire
<1>1. ExpInv => PasswordsExpire
  BY DEF ExpInv
<1> QED
  BY <1>1, ExpInvariance, PTL

-----------------------------------------------------------------------------
(* Brainfuzz: the inductive invariant. *)

\* What the answer is counted from.
Zeds(out) == {n \in DOMAIN out : out[n] = Zed}
Others(out) == {n \in DOMAIN out : out[n] # Zed}

Counted ==
  /\ numz \in (-bf_output_length)..bf_output_length
  /\ numz >= 0 => Cardinality(Zeds(output)) = numz + Cardinality(Others(output))
  /\ clicked => doing = "idle" /\ numz = WinCount

\* A program that is shorter than the limit stays as it was written, with the 0
\* behind it, whatever is done to the tape and to the output.
Written ==
  Len(spell) < BF_MAX_LINE_BYTES =>
    /\ \A n \in DOMAIN spell : buf[BF_INSTRUCTION_OFFSET + n - 1] = spell[n]
    /\ buf[BF_INSTRUCTION_OFFSET + Len(spell)] = 0

\* The loops that a part of the program opens and does not end.
Depth(s, n, m) == Brackets(s, n, m, Open) - Brackets(s, n, m, Close)

\* The place in the program that is read.
place == iptr - BF_INSTRUCTION_OFFSET + 1

\* Where a jump is on its way: every part between is of a depth that keeps it going.
Forward ==
  /\ pc \in DOMAIN spell /\ place \in pc..Len(spell)
  /\ spell[pc] = Open /\ buf[dptr] = 0
  /\ i = Depth(spell, pc, place)
  /\ \A n \in pc..place : Depth(spell, pc, n) > 0
Back ==
  /\ pc \in DOMAIN spell /\ place \in 1..pc
  /\ spell[pc] = Close
  /\ i = Depth(spell, place, pc)
  /\ \A n \in place..pc : Depth(spell, n, pc) < 0

InProgram ==
  Clean =>
    /\ doing = "run" => place \in 1..(Len(spell) + 1)
    /\ doing = "forward" => Forward
    /\ doing = "back" => Back

BFInv ==
  /\ BFTypeOK /\ spell \in Seq(1..(Byte - 1))
  /\ Counted /\ Written /\ InProgram

-----------------------------------------------------------------------------
(* Brainfuzz: sizes, instructions, counts. *)

LEMMA Layout ==
  /\ BF_INSTRUCTION_OFFSET \in Nat \ {0} /\ BF_MAX_LINE_BYTES \in Nat \ {0}
  /\ OUTPUT_OFFSET = BF_INSTRUCTION_OFFSET + BF_MAX_LINE_BYTES
  /\ END = OUTPUT_OFFSET + OutputSize /\ OutputSize \in Nat \ {0}
  /\ OUTPUT_OFFSET \in Nat /\ END \in Nat
  /\ Byte \in Nat \ {0} /\ WinCount \in Nat \ {0}
<1>1. Len(Key) \in Nat
  BY LayoutAssumption, LenProperties
<1> QED BY <1>1, LayoutAssumption DEF BF_INSTRUCTION_OFFSET, OUTPUT_OFFSET, END

\* The seven instructions are seven.
LEMMA Instructions ==
  /\ Right \notin {Left, Plus, Minus, Dot, Open, Close}
  /\ Left \notin {Plus, Minus, Dot, Open, Close}
  /\ Plus \notin {Minus, Dot, Open, Close}
  /\ Minus \notin {Dot, Open, Close}
  /\ Dot \notin {Open, Close} /\ Open # Close
  /\ Doodles \subseteq Nat \ {0}
<1>1. IsFiniteSet({Close}) /\ Cardinality({Close}) = 1
  BY FS_Singleton
<1>2. ASSUME NEW S, NEW c, IsFiniteSet(S), Cardinality(S) \in Nat
      PROVE  /\ IsFiniteSet(S \cup {c}) /\ Cardinality(S \cup {c}) \in Nat
             /\ Cardinality(S \cup {c}) = Cardinality(S) + (IF c \in S THEN 0 ELSE 1)
  <2>1. Cardinality(S \cup {c}) = IF c \in S THEN Cardinality(S) ELSE Cardinality(S) + 1
    BY <1>2, FS_AddElement
  <2>2. IsFiniteSet(S \cup {c})
    BY <1>2, FS_AddElement
  <2> QED BY <1>2, <2>1, <2>2
<1> DEFINE S2 == {Close} \cup {Open}
           S3 == S2 \cup {Dot}
           S4 == S3 \cup {Minus}
           S5 == S4 \cup {Plus}
           S6 == S5 \cup {Left}
<1>3. /\ IsFiniteSet(S2) /\ Cardinality(S2) \in Nat
      /\ Cardinality(S2) = 1 + (IF Open \in {Close} THEN 0 ELSE 1)
  BY <1>1, <1>2
<1>4. /\ IsFiniteSet(S3) /\ Cardinality(S3) \in Nat
      /\ Cardinality(S3) = Cardinality(S2) + (IF Dot \in S2 THEN 0 ELSE 1)
  BY <1>2, <1>3
<1>5. /\ IsFiniteSet(S4) /\ Cardinality(S4) \in Nat
      /\ Cardinality(S4) = Cardinality(S3) + (IF Minus \in S3 THEN 0 ELSE 1)
  BY <1>2, <1>4
<1>6. /\ IsFiniteSet(S5) /\ Cardinality(S5) \in Nat
      /\ Cardinality(S5) = Cardinality(S4) + (IF Plus \in S4 THEN 0 ELSE 1)
  BY <1>2, <1>5
<1>7. /\ IsFiniteSet(S6) /\ Cardinality(S6) \in Nat
      /\ Cardinality(S6) = Cardinality(S5) + (IF Left \in S5 THEN 0 ELSE 1)
  BY <1>2, <1>6
<1>8. Cardinality(S6 \cup {Right}) = Cardinality(S6) + (IF Right \in S6 THEN 0 ELSE 1)
  <2> HIDE DEF S6
  <2> QED BY <1>2, <1>7
<1>9. Doodles = S6 \cup {Right}
  BY DEF Doodles
<1> HIDE DEF S2, S3, S4, S5, S6
<1>10. Cardinality(Doodles) = 7
  BY DoodleAssumption
<1>11. Right \notin S6 /\ Left \notin S5 /\ Plus \notin S4 /\ Minus \notin S3 /\ Dot \notin S2
       /\ Open \notin {Close}
  BY <1>3, <1>4, <1>5, <1>6, <1>7, <1>8, <1>9, <1>10
<1>12. Doodles \subseteq Nat \ {0}
  BY DoodleAssumption, Layout
<1> QED BY <1>11, <1>12 DEF S2, S3, S4, S5, S6

LEMMA ZedsAppend ==
  ASSUME NEW out \in Seq(Nat), NEW c \in Nat
  PROVE  /\ Cardinality(Zeds(out)) \in Nat /\ Cardinality(Others(out)) \in Nat
         /\ Cardinality(Zeds(Append(out, c))) =
              IF c = Zed THEN Cardinality(Zeds(out)) + 1 ELSE Cardinality(Zeds(out))
         /\ Cardinality(Others(Append(out, c))) =
              IF c = Zed THEN Cardinality(Others(out)) ELSE Cardinality(Others(out)) + 1
<1> DEFINE longer == Append(out, c)
           last == Len(out) + 1
<1>1. /\ Len(out) \in Nat /\ DOMAIN out = 1..Len(out) /\ DOMAIN longer = 1..last
      /\ \A n \in 1..Len(out) : longer[n] = out[n]
      /\ longer[last] = c
  BY AppendProperties, LenProperties
<1>2. IsFiniteSet(DOMAIN out)
  <2>1. 1 \in Int /\ Len(out) \in Int
    BY <1>1
  <2>2. IsFiniteSet(1..Len(out))
    BY <2>1, FS_Interval
  <2> QED BY <1>1, <2>2
<1>3. Zeds(out) \subseteq DOMAIN out /\ Others(out) \subseteq DOMAIN out
  BY DEF Zeds, Others
<1>4. /\ IsFiniteSet(Zeds(out)) /\ Cardinality(Zeds(out)) \in Nat
      /\ IsFiniteSet(Others(out)) /\ Cardinality(Others(out)) \in Nat
  BY <1>2, <1>3, FS_Subset, FS_CardinalityType
<1>5. last \notin Zeds(out) /\ last \notin Others(out)
  BY <1>1 DEF Zeds, Others
<1> HIDE DEF longer, last
<1>6. \A n \in DOMAIN longer : n \in DOMAIN out \/ n = last
  BY <1>1 DEF last
<1>7. DOMAIN out \subseteq DOMAIN longer /\ last \in DOMAIN longer
  BY <1>1 DEF last
<1>8. CASE c = Zed
  <2>1. Zeds(longer) = Zeds(out) \cup {last} /\ Others(longer) = Others(out)
    BY <1>1, <1>6, <1>7, <1>8 DEF Zeds, Others
  <2> QED BY <1>4, <1>5, <1>8, <2>1, FS_AddElement DEF longer
<1>9. CASE c # Zed
  <2>1. Others(longer) = Others(out) \cup {last} /\ Zeds(longer) = Zeds(out)
    BY <1>1, <1>6, <1>7, <1>9 DEF Zeds, Others
  <2> QED BY <1>4, <1>5, <1>9, <2>1, FS_AddElement DEF longer
<1> QED BY <1>4, <1>8, <1>9

\* A part of a program in two.
LEMMA BracketsSplit ==
  ASSUME NEW s, NEW c, NEW n \in Int, NEW m \in Int, NEW k \in Int, n <= k + 1, k <= m
  PROVE  /\ Brackets(s, n, m, c) = Brackets(s, n, k, c) + Brackets(s, k + 1, m, c)
         /\ Brackets(s, n, k, c) \in Nat /\ Brackets(s, k + 1, m, c) \in Nat
<1> DEFINE A == {j \in n..k : s[j] = c}
           B == {j \in (k + 1)..m : s[j] = c}
<1>1. A \subseteq n..k /\ B \subseteq (k + 1)..m
  OBVIOUS
<1>2. IsFiniteSet(n..k) /\ IsFiniteSet((k + 1)..m)
  BY FS_Interval
<1>3. /\ IsFiniteSet(A) /\ Cardinality(A) \in Nat
      /\ IsFiniteSet(B) /\ Cardinality(B) \in Nat
  BY <1>1, <1>2, FS_Subset, FS_CardinalityType
<1>4. A \cap B = {}
  OBVIOUS
<1>5. {j \in n..m : s[j] = c} = A \cup B
  OBVIOUS
<1> HIDE DEF A, B
<1>6. Cardinality(A \cap B) = 0
  BY <1>4, FS_EmptySet
<1>7. Cardinality(A \cup B) = Cardinality(A) + Cardinality(B) - Cardinality(A \cap B)
  BY <1>3, FS_Union
<1>8. Cardinality(A \cup B) = Cardinality(A) + Cardinality(B)
  BY <1>3, <1>6, <1>7
<1>9. /\ Brackets(s, n, m, c) = Cardinality(A \cup B)
      /\ Brackets(s, n, k, c) = Cardinality(A) /\ Brackets(s, k + 1, m, c) = Cardinality(B)
  BY <1>5 DEF Brackets, A, B
<1> QED BY <1>3, <1>8, <1>9

LEMMA BracketsOne ==
  ASSUME NEW s, NEW c, NEW n \in Int
  PROVE  Brackets(s, n, n, c) = IF s[n] = c THEN 1 ELSE 0
<1>1. {j \in n..n : s[j] = c} = IF s[n] = c THEN {n} ELSE {}
  <2>1. n..n = {n}
    OBVIOUS
  <2> QED BY <2>1
<1> QED BY <1>1, FS_Singleton, FS_EmptySet DEF Brackets

LEMMA DepthSplit ==
  ASSUME NEW s, NEW n \in Int, NEW m \in Int, NEW k \in Int, n <= k + 1, k <= m
  PROVE  /\ Depth(s, n, m) = Depth(s, n, k) + Depth(s, k + 1, m)
         /\ Depth(s, n, k) \in Int /\ Depth(s, k + 1, m) \in Int
<1>1. ASSUME NEW c
      PROVE  /\ Brackets(s, n, m, c) = Brackets(s, n, k, c) + Brackets(s, k + 1, m, c)
             /\ Brackets(s, n, k, c) \in Nat /\ Brackets(s, k + 1, m, c) \in Nat
  BY BracketsSplit
<1>2. /\ Brackets(s, n, m, Open) = Brackets(s, n, k, Open) + Brackets(s, k + 1, m, Open)
      /\ Brackets(s, n, k, Open) \in Nat /\ Brackets(s, k + 1, m, Open) \in Nat
  BY <1>1
<1>3. /\ Brackets(s, n, m, Close) = Brackets(s, n, k, Close) + Brackets(s, k + 1, m, Close)
      /\ Brackets(s, n, k, Close) \in Nat /\ Brackets(s, k + 1, m, Close) \in Nat
  BY <1>1
<1> QED BY <1>2, <1>3 DEF Depth

\* One instruction: how deep it leads.
Way(c) == IF c = Open THEN 1 ELSE IF c = Close THEN -1 ELSE 0

LEMMA DepthOne ==
  ASSUME NEW s, NEW n \in Int
  PROVE  Depth(s, n, n) = Way(s[n])
BY BracketsOne, Instructions DEF Depth, Way

LEMMA EvenDepth ==
  ASSUME NEW s, NEW n \in Int, NEW m \in Int, n <= m
  PROVE  Even(s, n, m) <=> Depth(s, n, m) = 0
<1>1. /\ Brackets(s, n, m, Open) \in Nat /\ Brackets(s, n, m, Close) \in Nat
  <2>1. n <= m + 1 /\ m <= m
    OBVIOUS
  <2> QED BY <2>1, BracketsSplit
<1> QED BY <1>1 DEF Even, Depth

\* In a balanced program no part from the start goes below, and none to the end above.
LEMMA BalancedDepth ==
  ASSUME NEW S, NEW s \in Seq(S), Balanced(s), NEW n \in 1..Len(s)
  PROVE  Depth(s, 1, n) >= 0 /\ Depth(s, n, Len(s)) <= 0
<1>1. Len(s) \in Nat /\ DOMAIN s = 1..Len(s)
  BY LenProperties
<1>2. \A k \in 1..Len(s) : Depth(s, 1, k) \in Int /\ Depth(s, 1, k) >= 0
  <2> SUFFICES ASSUME NEW k \in 1..Len(s) PROVE Depth(s, 1, k) \in Int /\ Depth(s, 1, k) >= 0
    OBVIOUS
  <2>1. Brackets(s, 1, k, Open) \in Nat /\ Brackets(s, 1, k, Close) \in Nat
    <3>1. k \in Int /\ 1 \in Int /\ 1 <= k + 1 /\ k <= k
      OBVIOUS
    <3> QED BY <3>1, BracketsSplit
  <2>2. Brackets(s, 1, k, Open) >= Brackets(s, 1, k, Close)
    BY <1>1 DEF Balanced
  <2> QED BY <2>1, <2>2 DEF Depth
<1>3. Depth(s, 1, Len(s)) = 0
  BY <1>1, EvenDepth DEF Balanced
<1>4. Depth(s, n, Len(s)) <= 0
  <2>1. CASE n = 1
    BY <1>3, <2>1
  <2>2. CASE n # 1
    <3>1. n - 1 \in 1..Len(s) /\ n \in Int /\ (n - 1) + 1 = n
      BY <1>1, <2>2
    <3>2. /\ Depth(s, 1, Len(s)) = Depth(s, 1, n - 1) + Depth(s, (n - 1) + 1, Len(s))
          /\ Depth(s, (n - 1) + 1, Len(s)) \in Int
      <4>1. n - 1 \in Int /\ Len(s) \in Int /\ 1 <= (n - 1) + 1 /\ n - 1 <= Len(s)
        BY <1>1, <3>1
      <4> QED BY <4>1, DepthSplit
    <3> QED BY <1>2, <1>3, <3>1, <3>2
  <2> QED BY <2>1, <2>2
<1> QED BY <1>2, <1>4

-----------------------------------------------------------------------------
(* Brainfuzz: the output. *)

LEMMA OutputType ==
  ASSUME BFTypeOK
  PROVE  output \in Seq(Nat) /\ Len(output) = bf_output_length
<1>1. bf_output_length \in Nat /\ bf_output_length <= OutputSize
  BY Layout DEF BFTypeOK
<1>2. \A n \in 1..bf_output_length : OUTPUT_OFFSET + n - 1 \in 0..(END - 1)
  BY <1>1, Layout
<1>3. \A n \in 1..bf_output_length : buf[OUTPUT_OFFSET + n - 1] \in Nat
  BY <1>2, Layout DEF BFTypeOK
<1>4. output \in [1..bf_output_length -> Nat]
  BY <1>3 DEF output
<1> QED BY <1>1, <1>4, SeqDef, LenProperties

LEMMA OutputKept ==
  ASSUME BFTypeOK, UNCHANGED bf_output_length,
         \A n \in OUTPUT_OFFSET..(END - 1) : buf'[n] = buf[n]
  PROVE  output' = output
<1>1. bf_output_length \in Nat /\ bf_output_length <= OutputSize
  BY Layout DEF BFTypeOK
<1>2. \A n \in 1..bf_output_length : OUTPUT_OFFSET + n - 1 \in OUTPUT_OFFSET..(END - 1)
  BY <1>1, Layout
<1>3. \A n \in 1..bf_output_length : buf'[OUTPUT_OFFSET + n - 1] = buf[OUTPUT_OFFSET + n - 1]
  BY <1>2
<1> QED BY <1>3 DEF output

LEMMA OutputLonger ==
  ASSUME BFTypeOK, bf_output_length < OutputSize,
         buf' = [buf EXCEPT ![OUTPUT_OFFSET + bf_output_length] = buf[dptr]],
         bf_output_length' = bf_output_length + 1
  PROVE  output' = Append(output, buf[dptr]) /\ buf[dptr] \in Nat
<1> DEFINE last == bf_output_length + 1
<1>1. bf_output_length \in Nat /\ last \in Nat /\ OUTPUT_OFFSET + bf_output_length \in 0..(END - 1)
  BY Layout DEF BFTypeOK
<1>2. buf[dptr] \in Nat
  BY Layout DEF BFTypeOK
<1>3. /\ buf'[OUTPUT_OFFSET + bf_output_length] = buf[dptr]
      /\ \A n \in 0..(END - 1) : n # OUTPUT_OFFSET + bf_output_length => buf'[n] = buf[n]
  BY <1>1 DEF BFTypeOK
<1>4. \A n \in 1..bf_output_length : buf'[OUTPUT_OFFSET + n - 1] = buf[OUTPUT_OFFSET + n - 1]
  <2>1. \A n \in 1..bf_output_length :
          /\ OUTPUT_OFFSET + n - 1 \in 0..(END - 1)
          /\ OUTPUT_OFFSET + n - 1 # OUTPUT_OFFSET + bf_output_length
    BY <1>1, Layout DEF BFTypeOK
  <2> QED BY <1>3, <2>1
<1>5. /\ output \in Seq(Nat) /\ Len(output) = bf_output_length
  BY OutputType
<1>6. /\ DOMAIN Append(output, buf[dptr]) = 1..last
      /\ \A n \in 1..bf_output_length : Append(output, buf[dptr])[n] = output[n]
      /\ Append(output, buf[dptr])[last] = buf[dptr]
      /\ Append(output, buf[dptr]) \in Seq(Nat)
  BY <1>2, <1>5, AppendProperties, LenProperties
<1>7. output' = [n \in 1..last |-> buf'[OUTPUT_OFFSET + n - 1]]
  BY DEF output
<1>8. \A n \in 1..last : output'[n] = Append(output, buf[dptr])[n]
  <2> SUFFICES ASSUME NEW n \in 1..last PROVE output'[n] = Append(output, buf[dptr])[n]
    OBVIOUS
  <2>1. output'[n] = buf'[OUTPUT_OFFSET + n - 1]
    BY <1>7
  <2>2. CASE n = last
    <3>1. OUTPUT_OFFSET + n - 1 = OUTPUT_OFFSET + bf_output_length
      BY <1>1, <2>2, Layout
    <3> QED BY <1>3, <1>6, <2>1, <2>2, <3>1
  <2>3. CASE n # last
    <3>1. n \in 1..bf_output_length
      BY <1>1, <2>3
    <3> QED BY <1>4, <1>6, <2>1, <3>1 DEF output
  <2> QED BY <2>2, <2>3
<1>9. Append(output, buf[dptr]) = [n \in 1..last |-> Append(output, buf[dptr])[n]]
  <2>1. Append(output, buf[dptr]) \in [1..last -> Nat]
    BY <1>5, <1>6, LenProperties, AppendProperties, <1>2
  <2> QED BY <2>1
<1>10. output' = [n \in 1..last |-> output'[n]]
  BY <1>7
<1> QED BY <1>2, <1>8, <1>9, <1>10

-----------------------------------------------------------------------------
(* Brainfuzz: what a step keeps. *)

\* A step that leaves the program's bytes alone.
LEMMA WrittenKept ==
  ASSUME spell \in Seq(1..(Byte - 1)), Written, UNCHANGED spell,
         \A n \in BF_INSTRUCTION_OFFSET..(OUTPUT_OFFSET - 1) : buf'[n] = buf[n]
  PROVE  Written'
<1> SUFFICES ASSUME Len(spell) < BF_MAX_LINE_BYTES
             PROVE  /\ \A n \in DOMAIN spell : buf'[BF_INSTRUCTION_OFFSET + n - 1] = spell[n]
                    /\ buf'[BF_INSTRUCTION_OFFSET + Len(spell)] = 0
  BY DEF Written
<1>1. Len(spell) \in Nat /\ DOMAIN spell = 1..Len(spell)
  BY LenProperties
<1>2. \A n \in 1..(Len(spell) + 1) :
        BF_INSTRUCTION_OFFSET + n - 1 \in BF_INSTRUCTION_OFFSET..(OUTPUT_OFFSET - 1)
  BY <1>1, Layout
<1>3. BF_INSTRUCTION_OFFSET + Len(spell) \in BF_INSTRUCTION_OFFSET..(OUTPUT_OFFSET - 1)
  BY <1>1, Layout
<1> QED BY <1>1, <1>2, <1>3 DEF Written

\* The byte that is read while the program runs.
LEMMA Here ==
  ASSUME BFInv, Clean, NEW n \in 1..(Len(spell) + 1)
  PROVE  /\ Len(spell) \in Nat /\ DOMAIN spell = 1..Len(spell)
         /\ BF_INSTRUCTION_OFFSET + n - 1 \in BF_INSTRUCTION_OFFSET..(OUTPUT_OFFSET - 1)
         /\ n \in DOMAIN spell =>
              /\ buf[BF_INSTRUCTION_OFFSET + n - 1] = spell[n]
              /\ spell[n] \in Doodles /\ spell[n] # 0
         /\ n \notin DOMAIN spell =>
              n = Len(spell) + 1 /\ buf[BF_INSTRUCTION_OFFSET + n - 1] = 0
<1>1. Len(spell) \in Nat /\ DOMAIN spell = 1..Len(spell)
  BY LenProperties DEF BFInv
<1>2. Len(spell) < BF_MAX_LINE_BYTES
  BY DEF Clean
<1>3. BF_INSTRUCTION_OFFSET + n - 1 \in BF_INSTRUCTION_OFFSET..(OUTPUT_OFFSET - 1)
  BY <1>1, <1>2, Layout
<1>4. ASSUME n \in DOMAIN spell
      PROVE  /\ buf[BF_INSTRUCTION_OFFSET + n - 1] = spell[n]
             /\ spell[n] \in Doodles /\ spell[n] # 0
  BY <1>2, <1>4, Instructions DEF BFInv, Written, BFTypeOK, BFverifyInput
<1>5. ASSUME n \notin DOMAIN spell
      PROVE  n = Len(spell) + 1 /\ buf[BF_INSTRUCTION_OFFSET + n - 1] = 0
  <2>1. n = Len(spell) + 1
    BY <1>1, <1>5
  <2>2. BF_INSTRUCTION_OFFSET + n - 1 = BF_INSTRUCTION_OFFSET + Len(spell)
    BY <1>1, <2>1, Layout
  <2> QED BY <1>2, <2>1, <2>2 DEF BFInv, Written
<1> QED BY <1>1, <1>3, <1>4, <1>5

\* In a run of a clean program the byte at iptr is the program's.
LEMMA RunningHere ==
  ASSUME BFInv, Clean, doing = "run"
  PROVE  /\ pc = place /\ place \in 1..(Len(spell) + 1)
         /\ iptr = BF_INSTRUCTION_OFFSET + place - 1
         /\ iptr \in BF_INSTRUCTION_OFFSET..(OUTPUT_OFFSET - 1)
         /\ Len(spell) \in Nat /\ DOMAIN spell = 1..Len(spell)
         /\ place \in DOMAIN spell =>
              buf[iptr] = spell[place] /\ spell[place] \in Doodles /\ spell[place] # 0
         /\ place \notin DOMAIN spell => place = Len(spell) + 1 /\ buf[iptr] = 0
<1>1. place \in 1..(Len(spell) + 1)
  BY DEF BFInv, InProgram
<1>2. pc = place /\ iptr = BF_INSTRUCTION_OFFSET + place - 1
  BY Layout DEF pc, place, BFInv, BFTypeOK
<1> HIDE DEF place
<1> QED BY <1>1, <1>2, Here

LEMMA NextKeepsInProgram ==
  ASSUME BFInv, doing = "run", buf[iptr] # 0, NextInstruction
  PROVE  InProgram'
<1>1. doing' = "run" /\ iptr' = iptr + 1 /\ spell' = spell
  BY DEF NextInstruction
<1> SUFFICES ASSUME Clean PROVE place' \in 1..(Len(spell') + 1)
  BY <1>1 DEF InProgram, Clean
<1>2. place \in 1..Len(spell) /\ Len(spell) \in Nat
  BY RunningHere
<1>3. place' = place + 1
  BY <1>1, Layout DEF place, BFInv, BFTypeOK
<1> HIDE DEF place
<1> QED BY <1>1, <1>2, <1>3

\* The answer does not depend on what else a step does.
LEMMA CountedKept ==
  ASSUME BFInv, output' = output, doing # "idle", UNCHANGED <<numz, bf_output_length, clicked>>
  PROVE  Counted'
BY DEF BFInv, Counted

LEMMA MoveKeepsBFInv ==
  ASSUME BFInv, MoveRight \/ MoveLeft \/ EnterLoop \/ PassOver
  PROVE  BFInv'
<1>1. /\ doing = "run" /\ iptr \in 0..(END - 1) /\ buf[iptr] # 0
      /\ NextInstruction /\ UNCHANGED <<i, from, buf, numz, bf_output_length>>
      /\ dptr' \in 0..(BF_INSTRUCTION_OFFSET - 1)
  <2>1. Doodles \subseteq Nat \ {0}
    BY Instructions
  <2>2. Right # 0 /\ Left # 0 /\ Open # 0
    BY <2>1 DEF Doodles
  <2>3. dptr \in 0..(BF_INSTRUCTION_OFFSET - 1)
    BY DEF BFInv, BFTypeOK
  <2>4. CASE MoveRight
    BY <2>2, <2>3, <2>4, Layout DEF MoveRight, Running, Keeps
  <2>5. CASE MoveLeft
    BY <2>2, <2>3, <2>5, Layout DEF MoveLeft, Running, Keeps
  <2>6. CASE EnterLoop
    BY <2>2, <2>3, <2>6, Layout DEF EnterLoop, Running, Keeps
  <2>7. CASE PassOver
    BY <2>3, <2>7, Layout DEF PassOver, Keeps
  <2> QED BY <2>4, <2>5, <2>6, <2>7
<1>2. /\ doing' = "run" /\ iptr' = iptr + 1 /\ UNCHANGED <<spell, clicked>>
  BY <1>1 DEF NextInstruction
<1>3. BFTypeOK'
  <2>1. iptr' \in -1..END
    BY <1>1, <1>2, Layout
  <2> QED BY <1>1, <1>2, <2>1 DEF BFInv, BFTypeOK, BFverifyInput
<1>4. output' = output
  BY <1>1 DEF output
<1>5. Counted'
  BY <1>1, <1>2, <1>4, CountedKept
<1>6. Written'
  BY <1>1, <1>2, WrittenKept DEF BFInv
<1>7. InProgram'
  BY <1>1, NextKeepsInProgram
<1> QED BY <1>2, <1>3, <1>5, <1>6, <1>7 DEF BFInv

LEMMA CountKeepsBFInv ==
  ASSUME BFInv, NEW c \in Doodles, NEW n \in Nat, Count(c, n)
  PROVE  /\ BFInv' /\ output' = output
         /\ buf[dptr] \in 0..(Byte - 1)
<1>1. /\ doing = "run" /\ iptr \in 0..(END - 1) /\ buf[iptr] = c
      /\ buf' = [buf EXCEPT ![dptr] = (@ + n) % Byte]
      /\ NextInstruction /\ UNCHANGED <<i, from, dptr, numz, bf_output_length>>
  BY DEF Count, Running, Keeps
<1>2. /\ doing' = "run" /\ iptr' = iptr + 1 /\ UNCHANGED <<spell, clicked>>
  BY <1>1 DEF NextInstruction
<1>3. c # 0
  BY Instructions
<1>4. /\ dptr \in 0..(BF_INSTRUCTION_OFFSET - 1) /\ buf \in [0..(END - 1) -> 0..(Byte - 1)]
      /\ dptr \in 0..(END - 1) /\ buf[dptr] \in 0..(Byte - 1)
  BY Layout DEF BFInv, BFTypeOK
<1>5. (buf[dptr] + n) % Byte \in 0..(Byte - 1)
  BY <1>4, Layout
<1>6. buf' \in [0..(END - 1) -> 0..(Byte - 1)]
  BY <1>1, <1>4, <1>5
<1>7. \A m \in 0..(END - 1) : m # dptr => buf'[m] = buf[m]
  BY <1>1, <1>4
<1>8. BFTypeOK'
  <2>1. iptr' \in -1..END
    BY <1>1, <1>2, Layout
  <2> QED BY <1>1, <1>2, <1>6, <2>1 DEF BFInv, BFTypeOK, BFverifyInput
<1>9. output' = output
  <2>1. \A m \in OUTPUT_OFFSET..(END - 1) : m \in 0..(END - 1) /\ m # dptr
    BY <1>4, Layout
  <2>2. BFTypeOK
    BY DEF BFInv
  <2> QED BY <1>1, <1>7, <2>1, <2>2, OutputKept
<1>10. Counted'
  BY <1>1, <1>2, <1>9, CountedKept
<1>11. Written'
  <2>1. \A m \in BF_INSTRUCTION_OFFSET..(OUTPUT_OFFSET - 1) : m \in 0..(END - 1) /\ m # dptr
    BY <1>4, Layout
  <2> QED BY <1>2, <1>7, <2>1, WrittenKept DEF BFInv
<1>12. InProgram'
  BY <1>1, <1>3, NextKeepsInProgram
<1> QED BY <1>2, <1>4, <1>8, <1>9, <1>10, <1>11, <1>12 DEF BFInv

\* A z counts for the answer and every other byte against it; once it is below 0 it
\* stays there.
LEMMA PutByteKeepsBFInv ==
  ASSUME BFInv, PutByte
  PROVE  BFInv' /\ output' = Append(output, buf[dptr])
<1>1. /\ doing = "run" /\ iptr \in 0..(END - 1) /\ buf[iptr] = Dot
      /\ bf_output_length < OutputSize
      /\ buf' = [buf EXCEPT ![OUTPUT_OFFSET + bf_output_length] = buf[dptr]]
      /\ bf_output_length' = bf_output_length + 1
      /\ numz' = IF buf[dptr] = Zed /\ numz >= 0 THEN numz + 1 ELSE numz - 1
      /\ NextInstruction /\ UNCHANGED <<i, from, dptr>>
  BY DEF PutByte, Running, Keeps
<1>2. /\ doing' = "run" /\ iptr' = iptr + 1 /\ UNCHANGED <<spell, clicked>>
  BY <1>1 DEF NextInstruction
<1>3. buf[iptr] # 0
  BY <1>1, Instructions DEF Doodles
<1>4. /\ dptr \in 0..(END - 1) /\ buf \in [0..(END - 1) -> 0..(Byte - 1)]
      /\ buf[dptr] \in 0..(Byte - 1)
      /\ bf_output_length \in Nat /\ OUTPUT_OFFSET + bf_output_length \in 0..(END - 1)
  BY <1>1, Layout DEF BFInv, BFTypeOK
<1>5. output' = Append(output, buf[dptr]) /\ buf[dptr] \in Nat /\ output \in Seq(Nat)
  BY <1>1, OutputLonger, OutputType DEF BFInv
<1>6. numz \in (-bf_output_length)..bf_output_length
  BY DEF BFInv, Counted
<1>7. numz' \in (-bf_output_length')..bf_output_length'
  BY <1>1, <1>4, <1>6
<1>8. Counted'
  <2>1. /\ Cardinality(Zeds(output)) \in Nat /\ Cardinality(Others(output)) \in Nat
        /\ Cardinality(Zeds(output')) =
              IF buf[dptr] = Zed THEN Cardinality(Zeds(output)) + 1 ELSE Cardinality(Zeds(output))
        /\ Cardinality(Others(output')) =
              IF buf[dptr] = Zed THEN Cardinality(Others(output)) ELSE Cardinality(Others(output)) + 1
    BY <1>5, ZedsAppend
  <2>2. numz' >= 0 => Cardinality(Zeds(output')) = numz' + Cardinality(Others(output'))
    <3>1. SUFFICES ASSUME numz' >= 0
                   PROVE  Cardinality(Zeds(output')) = numz' + Cardinality(Others(output'))
      OBVIOUS
    <3>2. numz >= 0 /\ numz \in Int
      BY <1>1, <1>4, <1>6, <3>1
    <3>3. Cardinality(Zeds(output)) = numz + Cardinality(Others(output))
      BY <3>2 DEF BFInv, Counted
    <3> QED BY <1>1, <2>1, <3>2, <3>3
  <2>3. ~clicked'
    BY <1>1, <1>2 DEF BFInv, Counted
  <2> QED BY <1>7, <2>2, <2>3 DEF Counted, Zeds, Others
<1>9. BFTypeOK'
  <2>1. iptr' \in -1..END
    BY <1>1, <1>2, Layout
  <2>2. buf' \in [0..(END - 1) -> 0..(Byte - 1)]
    BY <1>1, <1>4
  <2>3. bf_output_length' \in 0..OutputSize /\ numz' \in (-OutputSize)..OutputSize
    BY <1>1, <1>4, <1>7, Layout
  <2> QED BY <1>1, <1>2, <2>1, <2>2, <2>3 DEF BFInv, BFTypeOK, BFverifyInput
<1>10. Written'
  <2>1. \A m \in BF_INSTRUCTION_OFFSET..(OUTPUT_OFFSET - 1) :
          m \in 0..(END - 1) /\ m # OUTPUT_OFFSET + bf_output_length
    BY <1>4, Layout
  <2>2. \A m \in BF_INSTRUCTION_OFFSET..(OUTPUT_OFFSET - 1) : buf'[m] = buf[m]
    BY <1>1, <1>4, <2>1
  <2> QED BY <1>2, <2>2, WrittenKept DEF BFInv
<1>11. InProgram'
  BY <1>1, <1>3, NextKeepsInProgram
<1> QED BY <1>2, <1>5, <1>8, <1>9, <1>10, <1>11 DEF BFInv

\* The run ends, or goes where nothing is known of it.
LEMMA EndKeepsBFInv ==
  ASSUME BFInv, doing # "idle", Stop \/ Lost
  PROVE  BFInv'
<1>1. /\ UNCHANGED <<buf, iptr, dptr, i, numz, bf_output_length, spell, from>>
      /\ doing' \in {"idle", "lost"} /\ clicked' \in BOOLEAN
      /\ clicked' => doing' = "idle" /\ numz = WinCount
  <2>1. CASE Stop
    <3>1. clicked' = (numz = WinCount)
      BY <2>1 DEF Stop
    <3>2. clicked' \in BOOLEAN /\ (clicked' => numz = WinCount)
      BY <3>1, Zenon
    <3> QED BY <2>1, <3>2 DEF Stop
  <2>2. CASE Lost
    <3>1. ~clicked /\ clicked' = clicked /\ clicked \in BOOLEAN
      BY <2>2 DEF Lost, BFInv, BFTypeOK, Counted
    <3> QED BY <2>2, <3>1 DEF Lost
  <2> QED BY <2>1, <2>2
<1>2. BFTypeOK'
  BY <1>1 DEF BFInv, BFTypeOK, BFverifyInput
<1>3. output' = output
  BY <1>1 DEF output
<1>4. Counted' /\ Written'
  BY <1>1, <1>3 DEF BFInv, Counted, Written
<1>5. InProgram'
  BY <1>1 DEF InProgram
<1> QED BY <1>1, <1>2, <1>4, <1>5 DEF BFInv

\* A jump begins at its bracket, with one loop open.
LEMMA JumpKeepsBFInv ==
  ASSUME BFInv, SkipLoop \/ Repeat
  PROVE  BFInv' /\ UNCHANGED <<buf, dptr, bf_output_length>> /\ pc' = pc
<1>1. /\ doing = "run" /\ iptr \in 0..(END - 1)
      /\ from' = iptr /\ UNCHANGED <<buf, iptr, dptr, numz, bf_output_length, spell, clicked>>
      /\ \/ doing' = "forward" /\ i' = 1 /\ buf[iptr] = Open /\ buf[dptr] = 0
         \/ doing' = "back" /\ i' = -1 /\ buf[iptr] = Close
  BY DEF SkipLoop, Repeat, Jump, Running
<1>2. BFTypeOK'
  BY <1>1, Layout DEF BFInv, BFTypeOK, BFverifyInput
<1>3. output' = output
  BY <1>1 DEF output
<1>4. Counted' /\ Written'
  BY <1>1, <1>3, CountedKept, WrittenKept DEF BFInv
<1>5. pc' = pc
  BY <1>1 DEF pc
<1>6. InProgram'
  <2> SUFFICES ASSUME Clean
               PROVE  /\ doing' = "forward" => Forward'
                      /\ doing' = "back" => Back'
    BY <1>1 DEF InProgram, Clean
  <2>1. buf[iptr] # 0
    BY <1>1, Instructions DEF Doodles
  <2>2. /\ pc = place /\ place \in 1..Len(spell) /\ Len(spell) \in Nat /\ place \in DOMAIN spell
        /\ spell[place] = buf[iptr]
    BY <1>1, <2>1, RunningHere
  <2>3. place' = place
    BY <1>1 DEF place
  <2> HIDE DEF place
  <2>4. Depth(spell, place, place) = Way(spell[place])
    BY <2>2, DepthOne
  <2>5. ASSUME doing' = "forward" PROVE Forward'
    <3>1. i' = 1 /\ spell[place] = Open /\ buf[dptr] = 0
      BY <1>1, <2>2, <2>5
    <3>2. Depth(spell, place, place) = 1
      BY <2>4, <3>1 DEF Way
    <3>3. \A n \in place..place : n = place
      BY <2>2
    <3> QED BY <1>1, <1>5, <2>2, <2>3, <3>1, <3>2, <3>3 DEF Forward
  <2>6. ASSUME doing' = "back" PROVE Back'
    <3>1. i' = -1 /\ spell[place] = Close
      BY <1>1, <2>2, <2>6
    <3>2. Depth(spell, place, place) = -1
      BY <2>4, <3>1, Instructions DEF Way
    <3>3. \A n \in place..place : n = place
      BY <2>2
    <3> QED BY <1>1, <1>5, <2>2, <2>3, <3>1, <3>2, <3>3 DEF Back
  <2> QED BY <2>5, <2>6
<1> QED BY <1>1, <1>2, <1>4, <1>5, <1>6 DEF BFInv

LEMMA BracketIsWay == \A n : Bracket(n) = Way(buf[n])
BY DEF Bracket, Way

\* On the way forward in a clean program: the next byte is the program's, and the
\* count is the depth of the part that was passed.
LEMMA SkipInProgram ==
  ASSUME BFInv, Clean, doing = "forward"
  PROVE  /\ place + 1 \in pc..Len(spell) /\ pc \in 1..Len(spell) /\ spell[pc] = Open
         /\ Len(spell) \in Nat
         /\ iptr + 1 \in BF_INSTRUCTION_OFFSET..(OUTPUT_OFFSET - 1)
         /\ buf[iptr + 1] = spell[place + 1] /\ spell[place + 1] # 0
         /\ i + Bracket(iptr + 1) = Depth(spell, pc, place + 1)
         /\ i + Bracket(iptr + 1) >= 0
         /\ \A n \in pc..place : Depth(spell, pc, n) > 0
<1>1. /\ Forward /\ spell \in Seq(1..(Byte - 1)) /\ Balanced(spell)
  BY DEF BFInv, InProgram, Clean
<1>2. Len(spell) \in Nat /\ DOMAIN spell = 1..Len(spell)
  BY <1>1, LenProperties
<1>3. /\ pc \in 1..Len(spell) /\ place \in pc..Len(spell) /\ spell[pc] = Open
      /\ i = Depth(spell, pc, place) /\ \A n \in pc..place : Depth(spell, pc, n) > 0
  BY <1>1, <1>2 DEF Forward
<1>4. Depth(spell, pc, Len(spell)) <= 0
  BY <1>1, <1>3, BalancedDepth
<1>5. iptr = BF_INSTRUCTION_OFFSET + place - 1
  BY Layout DEF place, BFInv, BFTypeOK
<1> HIDE DEF place, pc
<1>6. place \in pc..place
  BY <1>3
<1>7. place # Len(spell)
  <2> SUFFICES ASSUME place = Len(spell) PROVE FALSE
    OBVIOUS
  <2>1. Depth(spell, pc, place) > 0
    BY <1>3, <1>6
  <2>2. Depth(spell, pc, place) \in Int
    BY <1>3 DEF BFInv, BFTypeOK
  <2> QED BY <1>4, <2>1, <2>2
<1>8. place + 1 \in pc..Len(spell) /\ place + 1 \in 1..(Len(spell) + 1) /\ place + 1 \in DOMAIN spell
  <2> DEFINE at == place
             end == Len(spell)
  <2>3. end \in Nat /\ pc \in 1..end /\ at \in pc..end /\ at # end
    BY <1>2, <1>3, <1>7
  <2> HIDE DEF at, end
  <2>4. pc \in Int /\ at \in Int /\ 1 <= pc /\ pc <= at /\ at < end
    BY <2>3
  <2>1. pc \in Int /\ place \in Int /\ 1 <= pc /\ pc <= place /\ place < Len(spell)
    BY <2>4 DEF at, end
  <2>2. place + 1 \in 1..Len(spell)
    BY <1>2, <2>1
  <2> QED BY <1>2, <2>1, <2>2
<1>9. /\ BF_INSTRUCTION_OFFSET + (place + 1) - 1 \in BF_INSTRUCTION_OFFSET..(OUTPUT_OFFSET - 1)
      /\ buf[BF_INSTRUCTION_OFFSET + (place + 1) - 1] = spell[place + 1]
      /\ spell[place + 1] # 0
  BY <1>8, Here
<1>10. iptr + 1 = BF_INSTRUCTION_OFFSET + (place + 1) - 1
  BY <1>3, <1>5, Layout
<1>11. Depth(spell, pc, place + 1) = Depth(spell, pc, place) + Depth(spell, place + 1, place + 1)
  <2>1. pc \in Int /\ place \in Int /\ place + 1 \in Int /\ pc <= place + 1 /\ place <= place + 1
    BY <1>3
  <2> QED BY <2>1, DepthSplit
<1>12. Depth(spell, place + 1, place + 1) = Way(spell[place + 1])
  BY <1>8, DepthOne
<1>13. Bracket(iptr + 1) = Way(spell[place + 1])
  BY <1>9, <1>10, BracketIsWay
<1>14. i + Bracket(iptr + 1) = Depth(spell, pc, place + 1)
  BY <1>3, <1>11, <1>12, <1>13
<1>15. i \in Int /\ i > 0
  BY <1>3, <1>6 DEF BFInv, BFTypeOK
<1>16. i + Bracket(iptr + 1) >= 0
  BY <1>15 DEF Bracket
<1> QED BY <1>2, <1>3, <1>8, <1>9, <1>10, <1>14, <1>16

\* On the way back likewise.
LEMMA RepeatInProgram ==
  ASSUME BFInv, Clean, doing = "back"
  PROVE  /\ place - 1 \in 1..pc /\ pc \in 1..Len(spell) /\ spell[pc] = Close
         /\ Len(spell) \in Nat
         /\ iptr - 1 \in BF_INSTRUCTION_OFFSET..(OUTPUT_OFFSET - 1)
         /\ buf[iptr - 1] = spell[place - 1] /\ spell[place - 1] # 0
         /\ i + Bracket(iptr - 1) = Depth(spell, place - 1, pc)
         /\ i + Bracket(iptr - 1) <= 0
         /\ \A n \in place..pc : Depth(spell, n, pc) < 0
<1>1. /\ Back /\ spell \in Seq(1..(Byte - 1)) /\ Balanced(spell)
  BY DEF BFInv, InProgram, Clean
<1>2. Len(spell) \in Nat /\ DOMAIN spell = 1..Len(spell)
  BY <1>1, LenProperties
<1>3. /\ pc \in 1..Len(spell) /\ place \in 1..pc /\ spell[pc] = Close
      /\ i = Depth(spell, place, pc) /\ \A n \in place..pc : Depth(spell, n, pc) < 0
  BY <1>1, <1>2 DEF Back
<1>4. Depth(spell, 1, pc) >= 0
  BY <1>1, <1>3, BalancedDepth
<1>5. iptr = BF_INSTRUCTION_OFFSET + place - 1
  BY Layout DEF place, BFInv, BFTypeOK
<1> HIDE DEF place, pc
<1>6. place \in place..pc
  BY <1>3
<1>7. place # 1
  <2> SUFFICES ASSUME place = 1 PROVE FALSE
    OBVIOUS
  <2>1. Depth(spell, place, pc) < 0
    BY <1>3, <1>6
  <2>2. Depth(spell, place, pc) \in Int
    BY <1>3 DEF BFInv, BFTypeOK
  <2> QED BY <1>4, <2>1, <2>2
<1>8. place - 1 \in 1..pc /\ place - 1 \in 1..(Len(spell) + 1) /\ place - 1 \in DOMAIN spell
  BY <1>2, <1>3, <1>7
<1>9. /\ BF_INSTRUCTION_OFFSET + (place - 1) - 1 \in BF_INSTRUCTION_OFFSET..(OUTPUT_OFFSET - 1)
      /\ buf[BF_INSTRUCTION_OFFSET + (place - 1) - 1] = spell[place - 1]
      /\ spell[place - 1] # 0
  BY <1>8, Here
<1>10. iptr - 1 = BF_INSTRUCTION_OFFSET + (place - 1) - 1
  BY <1>3, <1>5, Layout
<1>11. Depth(spell, place - 1, pc) = Depth(spell, place - 1, place - 1) + Depth(spell, place, pc)
  <2>1. /\ pc \in Int /\ place - 1 \in Int /\ place - 1 <= (place - 1) + 1 /\ place - 1 <= pc
        /\ (place - 1) + 1 = place
    BY <1>3
  <2>2. Depth(spell, place - 1, pc)
          = Depth(spell, place - 1, place - 1) + Depth(spell, (place - 1) + 1, pc)
    BY <2>1, DepthSplit
  <2> QED BY <2>1, <2>2
<1>12. Depth(spell, place - 1, place - 1) = Way(spell[place - 1])
  <2>1. place - 1 \in Int
    BY <1>3
  <2> QED BY <2>1, DepthOne
<1>13. Bracket(iptr - 1) = Way(spell[place - 1])
  BY <1>9, <1>10, BracketIsWay
<1>14. i \in Int /\ i < 0
  BY <1>3, <1>6 DEF BFInv, BFTypeOK
<1>15. Bracket(iptr - 1) \in {-1, 0, 1}
  BY DEF Bracket
<1>16. i + Bracket(iptr - 1) = Depth(spell, place - 1, pc)
  BY <1>3, <1>11, <1>12, <1>13, <1>14, <1>15
<1>17. i + Bracket(iptr - 1) <= 0
  BY <1>14, <1>15
<1> QED BY <1>2, <1>3, <1>8, <1>9, <1>10, <1>16, <1>17

LEMMA SkipOnKeepsBFInv ==
  ASSUME BFInv, SkipOn
  PROVE  BFInv'
<1>1. /\ doing = "forward" /\ iptr + 1 < END /\ i' = i + Bracket(iptr + 1)
      /\ UNCHANGED <<buf, dptr, numz, bf_output_length, spell, from, clicked>>
      /\ doing' \in {"run", "forward"}
      /\ i' = 0 => iptr' = iptr + 2 /\ doing' = "run"
      /\ i' # 0 => iptr' = iptr + 1 /\ doing' = "forward"
  BY DEF SkipOn
<1>2. BFTypeOK'
  <2>1. i' \in Int
    BY <1>1 DEF Bracket, BFInv, BFTypeOK
  <2>2. iptr' \in -1..END
    BY <1>1, Layout DEF BFInv, BFTypeOK
  <2> QED BY <1>1, <2>1, <2>2 DEF BFInv, BFTypeOK, BFverifyInput
<1>3. output' = output
  BY <1>1 DEF output
<1>4. Counted' /\ Written'
  BY <1>1, <1>3, CountedKept, WrittenKept DEF BFInv
<1>5. InProgram'
  <2> SUFFICES ASSUME Clean
               PROVE  /\ doing' = "run" => place' \in 1..(Len(spell) + 1)
                      /\ doing' = "forward" => Forward'
    BY <1>1 DEF InProgram, Clean
  <2>1. /\ place + 1 \in pc..Len(spell) /\ pc \in 1..Len(spell) /\ spell[pc] = Open
        /\ Len(spell) \in Nat
        /\ i + Bracket(iptr + 1) = Depth(spell, pc, place + 1)
        /\ i + Bracket(iptr + 1) >= 0
        /\ \A n \in pc..place : Depth(spell, pc, n) > 0
    BY <1>1, SkipInProgram
  <2>2. /\ i' = 0 => place' = place + 2
        /\ i' # 0 => place' = place + 1 /\ pc' = pc
    BY <1>1, Layout DEF place, pc, BFInv, BFTypeOK
  <2>3. pc \in DOMAIN spell /\ place \in Int /\ buf[dptr] = 0
    BY <1>1, Layout DEF BFInv, InProgram, Forward, place, BFTypeOK
  <2> HIDE DEF place, pc
  <2>4. CASE i' = 0
    BY <1>1, <2>1, <2>2, <2>3, <2>4
  <2>5. CASE i' # 0
    <3>1. i' = Depth(spell, pc, place + 1) /\ Depth(spell, pc, place + 1) > 0
      <4>1. i' >= 0 /\ i' \in Int
        BY <1>1, <1>2, <2>1 DEF BFTypeOK
      <4> QED BY <1>1, <2>1, <2>5, <4>1
    <3>2. \A n \in pc..(place + 1) : n \in pc..place \/ n = place + 1
      BY <2>1, <2>3
    <3>3. \A n \in pc..(place + 1) : Depth(spell, pc, n) > 0
      BY <2>1, <3>1, <3>2
    <3> QED BY <1>1, <2>1, <2>2, <2>3, <2>5, <3>1, <3>3 DEF Forward
  <2> QED BY <2>4, <2>5
<1> QED BY <1>1, <1>2, <1>4, <1>5 DEF BFInv

LEMMA RepeatOnKeepsBFInv ==
  ASSUME BFInv, RepeatOn
  PROVE  BFInv'
<1>1. /\ doing = "back" /\ iptr > 0 /\ i' = i + Bracket(iptr - 1) /\ iptr' = iptr - 1
      /\ UNCHANGED <<buf, dptr, numz, bf_output_length, spell, from, clicked>>
      /\ doing' \in {"run", "back"}
      /\ i' = 0 => doing' = "run"
      /\ i' # 0 => doing' = "back"
  BY DEF RepeatOn
<1>2. BFTypeOK'
  <2>1. i' \in Int
    BY <1>1 DEF Bracket, BFInv, BFTypeOK
  <2>2. iptr' \in -1..END
    BY <1>1, Layout DEF BFInv, BFTypeOK
  <2> QED BY <1>1, <2>1, <2>2 DEF BFInv, BFTypeOK, BFverifyInput
<1>3. output' = output
  BY <1>1 DEF output
<1>4. Counted' /\ Written'
  BY <1>1, <1>3, CountedKept, WrittenKept DEF BFInv
<1>5. InProgram'
  <2> SUFFICES ASSUME Clean
               PROVE  /\ doing' = "run" => place' \in 1..(Len(spell) + 1)
                      /\ doing' = "back" => Back'
    BY <1>1 DEF InProgram, Clean
  <2>1. /\ place - 1 \in 1..pc /\ pc \in 1..Len(spell) /\ spell[pc] = Close
        /\ Len(spell) \in Nat
        /\ i + Bracket(iptr - 1) = Depth(spell, place - 1, pc)
        /\ i + Bracket(iptr - 1) <= 0
        /\ \A n \in place..pc : Depth(spell, n, pc) < 0
    BY <1>1, RepeatInProgram
  <2>2. place' = place - 1 /\ (i' # 0 => pc' = pc)
    BY <1>1, Layout DEF place, pc, BFInv, BFTypeOK
  <2>3. pc \in DOMAIN spell /\ place \in Int
    BY <1>1, Layout DEF BFInv, InProgram, Back, place, BFTypeOK
  <2> HIDE DEF place, pc
  <2>4. CASE i' = 0
    BY <1>1, <2>1, <2>2, <2>3, <2>4
  <2>5. CASE i' # 0
    <3>1. i' = Depth(spell, place - 1, pc) /\ Depth(spell, place - 1, pc) < 0
      <4>1. i' <= 0 /\ i' \in Int
        BY <1>1, <1>2, <2>1 DEF BFTypeOK
      <4> QED BY <1>1, <2>1, <2>5, <4>1
    <3>2. \A n \in (place - 1)..pc : n \in place..pc \/ n = place - 1
      BY <2>1, <2>3
    <3>3. \A n \in (place - 1)..pc : Depth(spell, n, pc) < 0
      BY <2>1, <3>1, <3>2
    <3> QED BY <1>1, <2>1, <2>2, <2>3, <2>5, <3>1, <3>3 DEF Back
  <2> QED BY <2>4, <2>5
<1> QED BY <1>1, <1>2, <1>4, <1>5 DEF BFInv

LEMMA CommandKeepsBFInv ==
  ASSUME NEW data \in Spells, BFcommandHandler(data)
  PROVE  BFInv'
<1>1. /\ Len(data) <= BF_MAX_LINE_BYTES /\ \A n \in DOMAIN data : data[n] \in Doodles
      /\ doing' = "run" /\ buf' = Loaded(data)
      /\ iptr' = BF_INSTRUCTION_OFFSET /\ dptr' = 0
      /\ i' = 0 /\ numz' = 0 /\ bf_output_length' = 0
      /\ spell' = data /\ clicked' = FALSE
  BY DEF BFcommandHandler, BFverifyInput
<1>2. data \in Seq(1..(Byte - 1)) /\ Len(data) \in Nat /\ DOMAIN data = 1..Len(data)
  BY SpellAssumption, LenProperties
<1>3. /\ \A n \in 1..Len(data) : data[n] \in 1..(Byte - 1)
      /\ Len(Key) \in Nat /\ \A n \in 1..Len(Key) : Key[n] \in 1..(Byte - 1)
  BY <1>2, LayoutAssumption, LenProperties, ElementOfSeq
<1>4. buf' \in [0..(END - 1) -> 0..(Byte - 1)]
  <2> SUFFICES ASSUME NEW n \in 0..(END - 1) PROVE Loaded(data)[n] \in 0..(Byte - 1)
    BY <1>1 DEF Loaded
  <2>1. CASE n \in BF_KEY_OFFSET..(BF_INSTRUCTION_OFFSET - 1)
    <3>1. n - BF_KEY_OFFSET + 1 \in 1..Len(Key)
      BY <1>3, <2>1, LayoutAssumption DEF BF_INSTRUCTION_OFFSET
    <3>2. Loaded(data)[n] = Key[n - BF_KEY_OFFSET + 1]
      BY <2>1 DEF Loaded
    <3> QED BY <1>3, <3>1, <3>2
  <2>2. CASE /\ n \notin BF_KEY_OFFSET..(BF_INSTRUCTION_OFFSET - 1)
             /\ n \in BF_INSTRUCTION_OFFSET..(BF_INSTRUCTION_OFFSET + Len(data) - 1)
    <3>1. n - BF_INSTRUCTION_OFFSET + 1 \in 1..Len(data)
      BY <1>2, <2>2, Layout
    <3>2. Loaded(data)[n] = data[n - BF_INSTRUCTION_OFFSET + 1]
      BY <2>2 DEF Loaded
    <3> QED BY <1>3, <3>1, <3>2
  <2>3. CASE /\ n \notin BF_KEY_OFFSET..(BF_INSTRUCTION_OFFSET - 1)
             /\ n \notin BF_INSTRUCTION_OFFSET..(BF_INSTRUCTION_OFFSET + Len(data) - 1)
    <3>1. Loaded(data)[n] = 0
      BY <2>3 DEF Loaded
    <3> QED BY <3>1, Layout
  <2> QED BY <2>1, <2>2, <2>3
<1>5. BFTypeOK'
  <2>1. iptr' \in -1..END /\ dptr' \in 0..(BF_INSTRUCTION_OFFSET - 1)
        /\ numz' \in (-OutputSize)..OutputSize /\ bf_output_length' \in 0..OutputSize
    BY <1>1, Layout
  <2>2. BFverifyInput(spell)' /\ i' \in Int
    BY <1>1 DEF BFverifyInput
  <2> QED BY <1>1, <1>4, <2>1, <2>2 DEF BFTypeOK
<1>6. Counted'
  <2>1. Zeds(output') = {} /\ Others(output') = {}
    BY <1>1 DEF output, Zeds, Others
  <2>2. Cardinality({}) = 0
    BY FS_EmptySet
  <2>3. numz' >= 0 => Cardinality(Zeds(output')) = numz' + Cardinality(Others(output'))
    BY <1>1, <2>1, <2>2
  <2>4. numz' \in (-bf_output_length')..bf_output_length'
    BY <1>1
  <2> QED BY <1>1, <2>3, <2>4 DEF Counted, Zeds, Others
<1>7. Written'
  <2> SUFFICES ASSUME Len(data) < BF_MAX_LINE_BYTES
               PROVE  /\ \A n \in DOMAIN data : Loaded(data)[BF_INSTRUCTION_OFFSET + n - 1] = data[n]
                      /\ Loaded(data)[BF_INSTRUCTION_OFFSET + Len(data)] = 0
    BY <1>1 DEF Written
  <2>1. ASSUME NEW n \in 1..Len(data)
        PROVE  Loaded(data)[BF_INSTRUCTION_OFFSET + n - 1] = data[n]
    <3> DEFINE m == BF_INSTRUCTION_OFFSET + n - 1
    <3>1. /\ m \in 0..(END - 1) /\ m \notin BF_KEY_OFFSET..(BF_INSTRUCTION_OFFSET - 1)
          /\ m \in BF_INSTRUCTION_OFFSET..(BF_INSTRUCTION_OFFSET + Len(data) - 1)
          /\ m - BF_INSTRUCTION_OFFSET + 1 = n
      BY <1>1, <1>2, Layout
    <3> HIDE DEF m
    <3>2. Loaded(data)[m] = data[m - BF_INSTRUCTION_OFFSET + 1]
      BY <3>1 DEF Loaded
    <3> QED BY <3>1, <3>2 DEF m
  <2>2. Loaded(data)[BF_INSTRUCTION_OFFSET + Len(data)] = 0
    <3> DEFINE m == BF_INSTRUCTION_OFFSET + Len(data)
    <3>1. /\ m \in 0..(END - 1) /\ m \notin BF_KEY_OFFSET..(BF_INSTRUCTION_OFFSET - 1)
          /\ m \notin BF_INSTRUCTION_OFFSET..(BF_INSTRUCTION_OFFSET + Len(data) - 1)
      BY <1>1, <1>2, Layout
    <3> HIDE DEF m
    <3>2. Loaded(data)[m] = 0
      BY <3>1 DEF Loaded
    <3> QED BY <3>2 DEF m
  <2> QED BY <1>2, <2>1, <2>2
<1>8. InProgram'
  <2>1. place' \in 1..(Len(spell') + 1)
    BY <1>1, <1>2, Layout DEF place
  <2> QED BY <1>1, <2>1 DEF InProgram
<1> QED BY <1>1, <1>2, <1>5, <1>6, <1>7, <1>8 DEF BFInv

LEMMA InitBFInv == BFInit => BFInv
<1> SUFFICES ASSUME BFInit PROVE BFInv
  OBVIOUS
<1>1. /\ doing = "idle" /\ buf = [n \in 0..(END - 1) |-> 0]
      /\ iptr = BF_INSTRUCTION_OFFSET /\ dptr = 0 /\ i = 0 /\ numz = 0 /\ bf_output_length = 0
      /\ spell = <<>> /\ clicked = FALSE
  BY DEF BFInit
<1>2. Len(spell) = 0 /\ DOMAIN spell = {} /\ spell \in Seq(1..(Byte - 1))
  BY <1>1, EmptySeq
<1>3. BFTypeOK
  <2>1. /\ buf \in [0..(END - 1) -> 0..(Byte - 1)] /\ iptr \in -1..END
        /\ dptr \in 0..(BF_INSTRUCTION_OFFSET - 1)
        /\ numz \in (-OutputSize)..OutputSize /\ bf_output_length \in 0..OutputSize
    BY <1>1, Layout
  <2>2. BFverifyInput(spell)
    <3>1. 0 <= BF_MAX_LINE_BYTES
      BY Layout
    <3> QED BY <1>2, <3>1 DEF BFverifyInput
  <2>3. i \in Int /\ clicked \in BOOLEAN
    <3>1. i \in Int
      BY <1>1
    <3>2. clicked \in BOOLEAN
      BY <1>1, Zenon
    <3> QED BY <3>1, <3>2
  <2> QED BY <1>1, <2>1, <2>2, <2>3 DEF BFTypeOK
<1>4. Counted
  <2>1. Zeds(output) = {} /\ Others(output) = {}
    BY <1>1 DEF output, Zeds, Others
  <2>2. Cardinality({}) = 0
    BY FS_EmptySet
  <2> QED BY <1>1, <2>1, <2>2 DEF Counted
<1>5. Written
  <2>1. buf[BF_INSTRUCTION_OFFSET + Len(spell)] = 0
    BY <1>1, <1>2, Layout
  <2> QED BY <1>2, <2>1 DEF Written
<1>6. InProgram
  BY <1>1 DEF InProgram
<1> QED BY <1>2, <1>3, <1>4, <1>5, <1>6 DEF BFInv

LEMMA RunKeepsBFInv ==
  ASSUME BFInv, BFrun
  PROVE  BFInv'
<1>1. CASE MoveRight \/ MoveLeft \/ EnterLoop \/ PassOver
  BY <1>1, MoveKeepsBFInv
<1>2. CASE Count(Plus, 1) \/ Count(Minus, Byte - 1)
  <2>1. Plus \in Doodles /\ Minus \in Doodles /\ 1 \in Nat /\ Byte - 1 \in Nat
    BY Layout DEF Doodles
  <2> QED BY <1>2, <2>1, CountKeepsBFInv
<1>3. CASE PutByte
  BY <1>3, PutByteKeepsBFInv
<1>4. CASE PutByteOverrun \/ NoBracket \/ RunAway \/ EndOfProgram
  <2>1. doing # "idle" /\ (Stop \/ Lost)
    BY <1>4 DEF PutByteOverrun, NoBracket, RunAway, EndOfProgram, Running
  <2> QED BY <2>1, EndKeepsBFInv
<1>5. CASE SkipLoop \/ Repeat
  BY <1>5, JumpKeepsBFInv
<1>6. CASE SkipOn
  BY <1>6, SkipOnKeepsBFInv
<1>7. CASE RepeatOn
  BY <1>7, RepeatOnKeepsBFInv
<1> QED BY <1>1, <1>2, <1>3, <1>4, <1>5, <1>6, <1>7 DEF BFrun

LEMMA StepKeepsBFInv == BFInv /\ [BFNext]_bfVars => BFInv'
<1> SUFFICES ASSUME BFInv, [BFNext]_bfVars PROVE BFInv'
  OBVIOUS
<1>1. CASE BFrun
  BY <1>1, RunKeepsBFInv
<1>2. ASSUME NEW data \in Spells, BFcommandHandler(data) PROVE BFInv'
  BY <1>2, CommandKeepsBFInv
<1>3. CASE UNCHANGED bfVars
  <2>1. /\ UNCHANGED <<doing, buf, iptr, dptr, i, numz, bf_output_length, spell, from, clicked>>
    BY <1>3 DEF bfVars
  <2>2. /\ output' = output /\ place' = place /\ pc' = pc
    BY <2>1 DEF output, place, pc
  <2>3. BFTypeOK' /\ Counted' /\ Written'
    BY <2>1, <2>2 DEF BFInv, BFTypeOK, BFverifyInput, Counted, Written
  <2>4. InProgram'
    BY <2>1, <2>2 DEF BFInv, InProgram, Forward, Back, Clean
  <2> QED BY <2>1, <2>3, <2>4 DEF BFInv
<1> QED BY <1>1, <1>2, <1>3 DEF BFNext

-----------------------------------------------------------------------------
(* Brainfuzz: a step is one of the program. *)

LEMMA TapeIs ==
  ASSUME BFTypeOK
  PROVE  /\ dptr \in 0..(BF_INSTRUCTION_OFFSET - 1) /\ tape[dptr] = buf[dptr]
         /\ DOMAIN tape = 0..(BF_INSTRUCTION_OFFSET - 1)
BY DEF BFTypeOK, tape

\* The ring of the tape.
LEMMA Ring ==
  ASSUME NEW ring \in Nat \ {0}, NEW d \in 0..(ring - 1)
  PROVE  /\ (d + 1) % ring = IF d + 1 >= ring THEN 0 ELSE d + 1
         /\ (d + ring - 1) % ring = IF d - 1 < 0 THEN ring - 1 ELSE d - 1
<1>1. CASE d + 1 >= ring
  <2>1. d + 1 = ring
    BY <1>1
  <2> QED BY <2>1
<1>2. CASE d + 1 < ring
  BY <1>2
<1> QED BY <1>1, <1>2

\* An instruction that is carried out is the program's at pc.
LEMMA AtInstruction ==
  ASSUME BFInv, Clean, NEW c \in Doodles, Running(c)
  PROVE  pc \in DOMAIN spell /\ spell[pc] = c
<1>1. doing = "run" /\ buf[iptr] = c /\ c # 0
  BY Instructions DEF Running
<1> QED BY <1>1, RunningHere

LEMMA NextPc ==
  ASSUME BFInv, doing = "run", NextInstruction
  PROVE  pc' = pc + 1
BY Layout DEF BFInv, BFTypeOK, NextInstruction, pc

LEMMA MoveMeans ==
  ASSUME BFInv, Clean, MoveRight \/ MoveLeft \/ EnterLoop \/ PassOver
  PROVE  Meaning
<1>1. /\ dptr \in 0..(BF_INSTRUCTION_OFFSET - 1) /\ tape[dptr] = buf[dptr]
  BY TapeIs DEF BFInv
<1>2. /\ doing = "run" /\ iptr \in 0..(END - 1) /\ NextInstruction
      /\ UNCHANGED <<buf, bf_output_length>>
  BY DEF MoveRight, MoveLeft, EnterLoop, PassOver, Running
<1>3. tape' = tape /\ output' = output
  BY <1>2 DEF tape, output
<1>4. pc' = pc + 1
  BY <1>2, NextPc
<1>5. CASE MoveRight
  <2>1. Running(Right) /\ dptr' = IF dptr + 1 >= BF_INSTRUCTION_OFFSET THEN 0 ELSE dptr + 1
    BY <1>5 DEF MoveRight
  <2>2. pc \in DOMAIN spell /\ spell[pc] = Right
    BY <2>1, AtInstruction DEF Doodles
  <2>3. dptr' = (dptr + 1) % BF_INSTRUCTION_OFFSET
    BY <1>1, <2>1, Ring, Layout
  <2> QED BY <1>3, <1>4, <2>2, <2>3, Instructions DEF Meaning
<1>6. CASE MoveLeft
  <2>1. Running(Left) /\ dptr' = IF dptr - 1 < 0 THEN BF_INSTRUCTION_OFFSET - 1 ELSE dptr - 1
    BY <1>6 DEF MoveLeft
  <2>2. pc \in DOMAIN spell /\ spell[pc] = Left
    BY <2>1, AtInstruction DEF Doodles
  <2>3. dptr' = (dptr + BF_INSTRUCTION_OFFSET - 1) % BF_INSTRUCTION_OFFSET
    BY <1>1, <2>1, Ring, Layout
  <2> QED BY <1>3, <1>4, <2>2, <2>3, Instructions DEF Meaning
<1>7. CASE EnterLoop
  <2>1. Running(Open) /\ buf[dptr] # 0 /\ dptr' = dptr
    BY <1>7 DEF EnterLoop
  <2>2. pc \in DOMAIN spell /\ spell[pc] = Open
    BY <2>1, AtInstruction DEF Doodles
  <2> QED BY <1>1, <1>3, <1>4, <2>1, <2>2, Instructions DEF Meaning
<1>8. CASE PassOver
  <2>1. buf[iptr] \notin Doodles \cup {0}
    BY <1>8 DEF PassOver
  <2> QED BY <1>2, <2>1, RunningHere
<1> QED BY <1>5, <1>6, <1>7, <1>8

LEMMA CountMeans ==
  ASSUME BFInv, Clean, Count(Plus, 1) \/ Count(Minus, Byte - 1)
  PROVE  Meaning
<1>1. Plus \in Doodles /\ Minus \in Doodles /\ 1 \in Nat /\ Byte - 1 \in Nat
  BY Layout DEF Doodles
<1>2. /\ dptr \in 0..(BF_INSTRUCTION_OFFSET - 1) /\ tape[dptr] = buf[dptr]
      /\ DOMAIN tape = 0..(BF_INSTRUCTION_OFFSET - 1)
  BY TapeIs DEF BFInv
<1>3. output' = output
  BY <1>1, CountKeepsBFInv
<1>4. doing = "run" /\ NextInstruction /\ dptr' = dptr
  BY DEF Count, Running
<1>5. pc' = pc + 1
  BY <1>4, NextPc
<1>6. ASSUME NEW n \in Nat, buf' = [buf EXCEPT ![dptr] = (@ + n) % Byte]
      PROVE  tape' = [tape EXCEPT ![dptr] = (@ + n) % Byte]
  <2>1. DOMAIN buf = 0..(END - 1) /\ (0..(BF_INSTRUCTION_OFFSET - 1)) \subseteq 0..(END - 1)
    BY Layout DEF BFInv, BFTypeOK
  <2>2. \A m \in 0..(BF_INSTRUCTION_OFFSET - 1) :
          buf'[m] = IF m = dptr THEN (tape[dptr] + n) % Byte ELSE tape[m]
    BY <1>2, <1>6, <2>1 DEF tape
  <2>3. tape' = [m \in 0..(BF_INSTRUCTION_OFFSET - 1) |-> buf'[m]]
    BY DEF tape
  <2> QED BY <1>2, <2>2, <2>3
<1>7. CASE Count(Plus, 1)
  <2>1. Running(Plus) /\ buf' = [buf EXCEPT ![dptr] = (@ + 1) % Byte]
    BY <1>7 DEF Count
  <2>2. pc \in DOMAIN spell /\ spell[pc] = Plus
    BY <1>1, <2>1, AtInstruction
  <2>3. tape' = [tape EXCEPT ![dptr] = (@ + 1) % Byte]
    BY <1>1, <1>6, <2>1
  <2> QED BY <1>3, <1>4, <1>5, <2>2, <2>3, Instructions DEF Meaning
<1>8. CASE Count(Minus, Byte - 1)
  <2>1. Running(Minus) /\ buf' = [buf EXCEPT ![dptr] = (@ + (Byte - 1)) % Byte]
    BY <1>8 DEF Count
  <2>2. pc \in DOMAIN spell /\ spell[pc] = Minus
    BY <1>1, <2>1, AtInstruction
  <2>3. tape' = [tape EXCEPT ![dptr] = (@ + (Byte - 1)) % Byte]
    BY <1>1, <1>6, <2>1
  <2>4. tape[dptr] \in Int /\ Byte \in Int
    BY <1>2, Layout DEF BFInv, BFTypeOK
  <2>5. tape[dptr] + (Byte - 1) = tape[dptr] + Byte - 1
    BY <2>4
  <2>6. tape' = [tape EXCEPT ![dptr] = (@ + Byte - 1) % Byte]
    BY <1>2, <2>3, <2>5
  <2> QED BY <1>3, <1>4, <1>5, <2>2, <2>6, Instructions DEF Meaning
<1> QED BY <1>7, <1>8

LEMMA PutByteMeans ==
  ASSUME BFInv, Clean, PutByte
  PROVE  Meaning
<1>1. Running(Dot) /\ doing = "run" /\ NextInstruction /\ dptr' = dptr
  BY DEF PutByte, Running
<1>2. pc \in DOMAIN spell /\ spell[pc] = Dot
  BY <1>1, AtInstruction DEF Doodles
<1>3. pc' = pc + 1
  BY <1>1, NextPc
<1>4. /\ dptr \in 0..(BF_INSTRUCTION_OFFSET - 1) /\ tape[dptr] = buf[dptr]
  BY TapeIs DEF BFInv
<1>5. output' = Append(output, tape[dptr])
  BY <1>4, PutByteKeepsBFInv
<1>6. tape' = tape
  <2>1. /\ buf' = [buf EXCEPT ![OUTPUT_OFFSET + bf_output_length] = buf[dptr]]
        /\ bf_output_length \in Nat /\ DOMAIN buf = 0..(END - 1)
    BY DEF PutByte, BFInv, BFTypeOK
  <2>2. \A m \in 0..(BF_INSTRUCTION_OFFSET - 1) :
          m \in 0..(END - 1) /\ m # OUTPUT_OFFSET + bf_output_length
    BY <2>1, Layout
  <2>3. \A m \in 0..(BF_INSTRUCTION_OFFSET - 1) : buf'[m] = buf[m]
    BY <2>1, <2>2
  <2> QED BY <2>3 DEF tape
<1> QED BY <1>1, <1>2, <1>3, <1>5, <1>6, Instructions DEF Meaning

\* The bracket that a jump comes to is the partner of the one where it began.
LEMMA SkipOnMeans ==
  ASSUME BFInv, Clean, SkipOn
  PROVE  Meaning \/ UNCHANGED <<doing \in {"idle", "lost"}, pc, dptr, tape, output>>
<1>1. /\ doing = "forward" /\ i' = i + Bracket(iptr + 1)
      /\ UNCHANGED <<buf, dptr, bf_output_length, spell, from>>
      /\ i' = 0 => iptr' = iptr + 2 /\ doing' = "run"
      /\ i' # 0 => doing' = "forward"
  BY DEF SkipOn
<1>2. /\ place + 1 \in pc..Len(spell) /\ pc \in 1..Len(spell) /\ spell[pc] = Open
      /\ Len(spell) \in Nat /\ buf[iptr + 1] = spell[place + 1]
      /\ i + Bracket(iptr + 1) = Depth(spell, pc, place + 1)
      /\ \A n \in pc..place : Depth(spell, pc, n) > 0
  BY <1>1, SkipInProgram
<1>3. /\ pc \in DOMAIN spell /\ place \in pc..Len(spell) /\ buf[dptr] = 0
      /\ i = Depth(spell, pc, place) /\ i \in Int
  BY <1>1 DEF BFInv, InProgram, Forward, BFTypeOK
<1>4. tape' = tape /\ output' = output
  BY <1>1 DEF tape, output
<1>5. CASE i' # 0
  <2>1. pc' = pc
    BY <1>1, <1>5 DEF pc
  <2> QED BY <1>1, <1>4, <1>5, <2>1
<1>6. CASE i' = 0
  <2>1. pc' = place + 2
    BY <1>1, <1>6, Layout DEF pc, place, BFInv, BFTypeOK
  <2>2. tape[dptr] = 0
    BY <1>3, TapeIs DEF BFInv
  <2> HIDE DEF place, pc
  <2>3. pc \in Int /\ place \in Int /\ pc <= place
    BY <1>2, <1>3
  <2>4. Depth(spell, pc, place) > 0
    BY <1>2, <2>3
  <2>5. spell[place + 1] = Close
    <3>1. Bracket(iptr + 1) < 0
      BY <1>1, <1>3, <1>6, <2>4 DEF Bracket
    <3> QED BY <1>2, <3>1 DEF Bracket
  <2>6. Partners(spell, pc, place + 1)
    <3>1. pc < place + 1 /\ pc <= place + 1 /\ place + 1 \in Int
      BY <2>3
    <3>2. Even(spell, pc, place + 1)
      BY <1>1, <1>2, <1>6, <2>3, <3>1, EvenDepth
    <3>3. \A n \in pc..((place + 1) - 1) : ~Even(spell, pc, n)
      <4> SUFFICES ASSUME NEW n \in pc..((place + 1) - 1) PROVE ~Even(spell, pc, n)
        OBVIOUS
      <4>1. n \in pc..place /\ n \in Int /\ pc <= n
        BY <2>3
      <4>2. Depth(spell, pc, n) > 0
        BY <1>2, <4>1
      <4>3. Depth(spell, pc, n) # 0
        BY <4>2
      <4> QED BY <2>3, <4>1, <4>3, EvenDepth
    <3> QED BY <1>2, <2>5, <3>1, <3>2, <3>3 DEF Partners
  <2>7. pc' - 1 = place + 1
    BY <2>1, <2>3
  <2>8. Meaning
    BY <1>1, <1>2, <1>3, <1>4, <2>2, <2>6, <2>7, Instructions DEF Meaning
  <2> QED BY <2>8
<1> QED BY <1>5, <1>6

LEMMA RepeatOnMeans ==
  ASSUME BFInv, Clean, RepeatOn
  PROVE  Meaning \/ UNCHANGED <<doing \in {"idle", "lost"}, pc, dptr, tape, output>>
<1>1. /\ doing = "back" /\ i' = i + Bracket(iptr - 1) /\ iptr' = iptr - 1
      /\ UNCHANGED <<buf, dptr, bf_output_length, spell, from>>
      /\ i' = 0 => doing' = "run"
      /\ i' # 0 => doing' = "back"
  BY DEF RepeatOn
<1>2. /\ place - 1 \in 1..pc /\ pc \in 1..Len(spell) /\ spell[pc] = Close
      /\ Len(spell) \in Nat /\ buf[iptr - 1] = spell[place - 1]
      /\ i + Bracket(iptr - 1) = Depth(spell, place - 1, pc)
      /\ \A n \in place..pc : Depth(spell, n, pc) < 0
  BY <1>1, RepeatInProgram
<1>3. /\ pc \in DOMAIN spell /\ place \in 1..pc
      /\ i = Depth(spell, place, pc) /\ i \in Int
  BY <1>1 DEF BFInv, InProgram, Back, BFTypeOK
<1>4. tape' = tape /\ output' = output
  BY <1>1 DEF tape, output
<1>5. CASE i' # 0
  <2>1. pc' = pc
    BY <1>1, <1>5 DEF pc
  <2> QED BY <1>1, <1>4, <1>5, <2>1
<1>6. CASE i' = 0
  <2>1. pc' = place - 1
    BY <1>1, <1>6, Layout DEF pc, place, BFInv, BFTypeOK
  <2> HIDE DEF place, pc
  <2>3. pc \in Int /\ place \in Int /\ place <= pc
    BY <1>2, <1>3
  <2>4. Depth(spell, place, pc) < 0
    BY <1>2, <2>3
  <2>5. spell[place - 1] = Open
    <3>1. Bracket(iptr - 1) > 0
      BY <1>1, <1>3, <1>6, <2>4 DEF Bracket
    <3> QED BY <1>2, <3>1 DEF Bracket
  <2>6. Partners(spell, place - 1, pc)
    <3>1. place - 1 < pc /\ place - 1 <= pc /\ place - 1 \in Int
      BY <2>3
    <3>2. Depth(spell, place - 1, pc) = 0
      BY <1>1, <1>2, <1>6
    <3>3. Even(spell, place - 1, pc)
      BY <2>3, <3>1, <3>2, EvenDepth
    <3>4. \A n \in (place - 1)..(pc - 1) : ~Even(spell, place - 1, n)
      <4> SUFFICES ASSUME NEW n \in (place - 1)..(pc - 1) PROVE ~Even(spell, place - 1, n)
        OBVIOUS
      <4>1. n \in Int /\ place - 1 <= n /\ n + 1 \in place..pc /\ place - 1 <= n + 1 /\ n <= pc
        BY <2>3
      <4>2. /\ Depth(spell, place - 1, pc) = Depth(spell, place - 1, n) + Depth(spell, n + 1, pc)
            /\ Depth(spell, place - 1, n) \in Int /\ Depth(spell, n + 1, pc) \in Int
        BY <2>3, <3>1, <4>1, DepthSplit
      <4>3. Depth(spell, n + 1, pc) < 0
        BY <1>2, <4>1
      <4>4. Depth(spell, place - 1, n) # 0
        BY <3>2, <4>2, <4>3
      <4> QED BY <3>1, <4>1, <4>4, EvenDepth
    <3> QED BY <1>2, <2>5, <3>1, <3>3, <3>4 DEF Partners
  <2>7. Meaning
    BY <1>1, <1>2, <1>3, <1>4, <2>1, <2>6, Instructions DEF Meaning
  <2> QED BY <2>7
<1> QED BY <1>5, <1>6

\* The run of a clean program ends behind it, or with an output that is too long.
LEMMA EndMeans ==
  ASSUME BFInv, Clean, PutByteOverrun \/ NoBracket \/ RunAway \/ EndOfProgram
  PROVE  \/ doing' = "idle" /\ pc = Len(spell) + 1
         \/ doing' = "lost" /\ bf_output_length = OutputSize
<1>1. CASE PutByteOverrun
  BY <1>1 DEF PutByteOverrun, Lost
<1>2. CASE EndOfProgram
  <2>1. doing = "run" /\ buf[iptr] = 0 /\ doing' = "idle"
    BY <1>2 DEF EndOfProgram, Running, Stop
  <2> QED BY <2>1, RunningHere
<1>3. doing = "forward" => iptr + 1 # END /\ buf[iptr + 1] # 0
  BY SkipInProgram, Layout
<1>4. doing = "back" => iptr # 0 /\ buf[iptr - 1] # 0
  BY RepeatInProgram, Layout
<1>5. doing = "run" => iptr # END
  BY RunningHere, Layout
<1>6. ~NoBracket /\ ~RunAway
  BY <1>3, <1>4, <1>5 DEF NoBracket, RunAway
<1> QED BY <1>1, <1>2, <1>6

LEMMA StepAsWritten ==
  ASSUME BFInv, [BFNext]_bfVars
  PROVE  [AsWritten]_<<doing \in {"idle", "lost"}, pc, dptr, tape, output>>
<1> SUFFICES ASSUME Clean, doing \notin {"idle", "lost"}
             PROVE  \/ Meaning
                    \/ doing' = "idle" /\ pc = Len(spell) + 1
                    \/ doing' = "lost" /\ bf_output_length = OutputSize
                    \/ UNCHANGED <<doing \in {"idle", "lost"}, pc, dptr, tape, output>>
  BY DEF AsWritten
<1>1. CASE MoveRight \/ MoveLeft \/ EnterLoop \/ PassOver
  BY <1>1, MoveMeans
<1>2. CASE Count(Plus, 1) \/ Count(Minus, Byte - 1)
  BY <1>2, CountMeans
<1>3. CASE PutByte
  BY <1>3, PutByteMeans
<1>4. CASE PutByteOverrun \/ NoBracket \/ RunAway \/ EndOfProgram
  BY <1>4, EndMeans
<1>5. CASE SkipLoop \/ Repeat
  <2>1. UNCHANGED <<buf, dptr, bf_output_length>> /\ pc' = pc
    BY <1>5, JumpKeepsBFInv
  <2>2. tape' = tape /\ output' = output
    BY <2>1 DEF tape, output
  <2>3. doing \notin {"idle", "lost"} /\ doing' \notin {"idle", "lost"}
    BY <1>5 DEF SkipLoop, Repeat, Jump
  <2> QED BY <2>1, <2>2, <2>3
<1>6. CASE SkipOn
  BY <1>6, SkipOnMeans
<1>7. CASE RepeatOn
  BY <1>7, RepeatOnMeans
<1>8. ~\E data \in Spells : BFcommandHandler(data)
  BY DEF BFcommandHandler
<1>9. CASE UNCHANGED bfVars
  BY <1>9 DEF bfVars, pc, tape, output
<1> QED BY <1>1, <1>2, <1>3, <1>4, <1>5, <1>6, <1>7, <1>8, <1>9 DEF BFNext, BFrun

(***************************************************************************)
(* The pointer to the data stays in the tape, the output in its bytes and  *)
(* the counts in theirs (game_master.cpp, BFrun), for any program of any   *)
(* length.                                                                 *)
(***************************************************************************)
THEOREM BrainfuzzTypeCorrect == BFSpec => []BFTypeOK
<1>1. BFInv => BFTypeOK
  BY DEF BFInv
<1> QED BY <1>1, InitBFInv, StepKeepsBFInv, PTL DEF BFSpec

(***************************************************************************)
(* The puzzle is solved only by an output with WinCount more z than other  *)
(* bytes: no damage to the program, no jump to nowhere and no run into the *)
(* output counts a byte that was not put out.                              *)
(***************************************************************************)
THEOREM ClickOnlyEarned == BFSpec => []ClickIsEarned
<1>1. BFInv => ClickIsEarned
  <2> SUFFICES ASSUME BFInv, clicked
               PROVE  Cardinality(Zeds(output)) = WinCount + Cardinality(Others(output))
    BY DEF ClickIsEarned, Zeds, Others
  <2>1. numz = WinCount /\ numz >= 0
    BY Layout DEF BFInv, Counted
  <2> QED BY <2>1 DEF BFInv, Counted
<1> QED BY <1>1, InitBFInv, StepKeepsBFInv, PTL DEF BFSpec

(***************************************************************************)
(* The interpreter is right: each step of a program whose brackets match   *)
(* and that is shorter than the limit does what its instruction means, and *)
(* a jump ends at the bracket's partner, for every such program, every     *)
(* tape, and every size of a byte.                                         *)
(***************************************************************************)
THEOREM InterpreterIsRight == BFSpec => RunsAsWritten
<1> QED BY InitBFInv, StepKeepsBFInv, StepAsWritten, PTL DEF BFSpec, RunsAsWritten

-----------------------------------------------------------------------------
(* The rooms. *)

LEMMA RoomsStep ==
  [RoomsNext]_roomVars => [Next]_vars /\ [ExpNext]_expVars /\ [BFNext]_bfVars /\ game' = game
<1> SUFFICES ASSUME [RoomsNext]_roomVars
             PROVE  [Next]_vars /\ [ExpNext]_expVars /\ [BFNext]_bfVars /\ game' = game
  OBVIOUS
<1>1. CASE PlayTTT3D
  BY <1>1 DEF PlayTTT3D
<1>2. CASE Exploit
  BY <1>2 DEF Exploit
<1>3. CASE Interpret
  BY <1>3 DEF Interpret, BFNext
<1>4. CASE Cast
  BY <1>4 DEF Cast, BFNext
<1>5. CASE UNCHANGED roomVars
  BY <1>5 DEF roomVars
<1> QED BY <1>1, <1>2, <1>3, <1>4, <1>5 DEF RoomsNext

(***************************************************************************)
(* What is played in the rooms is each game as it is alone: a command to   *)
(* one game is no step of another.                                         *)
(***************************************************************************)
THEOREM RoomsImplementGames == RoomsSpec => Spec /\ ExpSpec /\ BFSpec
<1>1. RoomsInit => Init /\ EXPinit /\ BFInit
  BY DEF RoomsInit
<1> QED BY <1>1, RoomsStep, PTL DEF RoomsSpec, Spec, ExpSpec, BFSpec

(***************************************************************************)
(* So everything above holds in the rooms.                                 *)
(***************************************************************************)
THEOREM RoomsKeepPromises ==
  RoomsSpec => /\ []RoomsTypeOK
               /\ []BoardInOrder /\ []FlagWithinTime /\ []PasswordsExpire
               /\ []ClickIsEarned /\ RunsAsWritten
<1>1. RoomsInit => game \in Games
  BY DEF RoomsInit
<1>2. game \in Games /\ [RoomsNext]_roomVars => (game \in Games)'
  BY RoomsStep
<1>3. game \in Games /\ TypeOK /\ ExpTypeOK /\ BFTypeOK => RoomsTypeOK
  BY DEF RoomsTypeOK
<1>4. RoomsSpec => [](game \in Games)
  BY <1>1, <1>2, PTL DEF RoomsSpec
<1> QED BY <1>3, <1>4, RoomsImplementGames, TTT3DTypeCorrect, ExploitableTypeCorrect,
        BrainfuzzTypeCorrect, BoardStaysInOrder, FlagIsEarned, PasswordsDoExpire, ClickOnlyEarned,
        InterpreterIsRight, PTL

=============================================================================

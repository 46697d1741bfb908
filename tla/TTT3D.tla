------------------------------- MODULE TTT3D --------------------------------
(***************************************************************************)
(* Tic-Tac-Toe 3D, a game of the badge's game task (game_master.cpp).  The *)
(* player is X and moves first; the badge answers with a random O.  After  *)
(* the last cell is taken the lines of X are counted against those of O.   *)
(* There is a flag for a win, and one for WinsForFlag wins within          *)
(* TimeLimit seconds.                                                      *)
(*                                                                         *)
(* One step is one command, from the queue to its answers.                 *)
(***************************************************************************)
EXTENDS Integers, FiniteSets

CONSTANTS
  Cells,        \* the cells of the board; Cube in the code
  WinsForFlag,  \* 10
  TimeLimit,    \* 100
  Openings,     \* boards to begin with
  MaxWins,      \* bound: no game is won after as many
  MaxTime       \* bound: the clock stops here

Cube == (0..2) \X (0..2) \X (0..2)

\* The line from a cell through the next one in direction d.
Line(cell, d) == {<<cell[1] + i * d[1], cell[2] + i * d[2], cell[3] + i * d[3]>> : i \in 0..2}

\* The lines T3DscoreBoard compares.  In each level the lines along y, the one
\* along x at y = 0 and the diagonals: where the lines along x at y = 1 and y = 2
\* should follow, those along y at x = 1 and x = 2 are compared again.
AlongY(x, z) == Line(<<x, 0, z>>, <<0, 1, 0>>)
LevelLines ==
  {AlongY(x, z) : x \in 0..2, z \in 0..2}
    \cup {Line(<<0, 0, z>>, <<1, 0, 0>>) : z \in 0..2}
    \cup {Line(<<0, 0, z>>, <<1, 1, 0>>) : z \in 0..2}
    \cup {Line(<<2, 0, z>>, <<-1, 1, 0>>) : z \in 0..2}
TwiceLines == {AlongY(x, z) : x \in 1..2, z \in 0..2}

\* The loops for the vertical spots end before 2, and one of the vertical
\* diagonals ends in the cell above its beginning.
SpotLines == {Line(<<x, y, 0>>, <<0, 0, 1>>) : x \in 0..1, y \in 0..1}
DiagonalLines ==
  {Line(<<0, y, 0>>, <<1, 0, 1>>) : y \in 0..2}
    \cup {Line(<<2, y, 0>>, <<-1, 0, 1>>) : y \in 0..2}
    \cup {Line(<<x, 0, 0>>, <<0, 1, 1>>) : x \in 0..2}
    \cup {Line(<<x, 2, 0>>, <<0, -1, 1>>) : x \in 1..2}
    \cup {{<<0, 2, 0>>, <<0, 1, 1>>, <<0, 2, 2>>}}
    \cup {Line(<<0, 0, 0>>, <<1, 1, 1>>), Line(<<2, 0, 0>>, <<-1, 1, 1>>),
          Line(<<0, 2, 0>>, <<1, -1, 1>>), Line(<<2, 2, 0>>, <<-1, -1, 1>>)}
ScoredLines == LevelLines \cup SpotLines \cup DiagonalLines

Mark == {"_", "X", "O"}
Owned(board, lines, mark) ==
  Cardinality({l \in lines : l \subseteq Cells /\ \A c \in l : board[c] = mark})
Lead(board, lines) == Owned(board, lines, "X") - Owned(board, lines, "O")

\* The score of a full board.
T3DscoreBoard(board) == Lead(board, ScoredLines) + Lead(board, TwiceLines)

EmptyBoard == [c \in Cells |-> "_"]
Marked(board, mark) == {c \in Cells : board[c] = mark}
Taken(board) == Cells \ Marked(board, "_")

ASSUME CellsAssumption ==
  /\ Cells \subseteq Cube
  /\ IsFiniteSet(Cells) /\ Cardinality(Cells) % 2 = 1
ASSUME LimitAssumption == WinsForFlag \in Nat \ {0} /\ TimeLimit \in Nat
                          /\ MaxWins \in Nat /\ MaxTime \in Nat
ASSUME OpeningsAssumption ==
  \A b \in Openings :
    /\ b \in [Cells -> Mark]
    /\ Cardinality(Marked(b, "X")) = Cardinality(Marked(b, "O"))

VARIABLES
  t3_board, t3_moves, t3_net_wins, t3_start_time, t3_timer_started,
  time,      \* time(0)
  answer,    \* the answers to the last command, while it is the time it came
  firstWin,  \* history: when the first of t3_net_wins was won
  final      \* history: the last full board

vars == <<t3_board, t3_moves, t3_net_wins, t3_start_time, t3_timer_started,
          time, answer, firstWin, final>>

\* winme1 is the flag for a win, winme10 the one for WinsForFlag of them.
Answers == {"welcome", "resetting", "timeIsUp", "invalid", "taken", "board",
            "lost", "winme1", "winme10"}

TypeOK ==
  /\ t3_board \in [Cells -> Mark]
  /\ t3_moves \in 0..Cardinality(Cells) /\ t3_net_wins \in 0..MaxWins
  /\ t3_start_time \in 0..time /\ t3_timer_started \in 0..1
  /\ time \in 0..MaxTime
  /\ answer \subseteq Answers
  /\ firstWin \in 0..time /\ final \in [Cells -> Mark]

\* A board other than the empty one was played within the first second.
Init ==
  /\ t3_board \in Openings
  /\ t3_moves = Cardinality(Taken(t3_board))
  /\ t3_net_wins = 0
  /\ t3_start_time = 0 /\ t3_timer_started = IF t3_moves > 0 THEN 1 ELSE 0
  /\ time = 0 /\ answer = {}
  /\ firstWin = 0 /\ final = EmptyBoard

Tick ==
  /\ time < MaxTime
  /\ time' = time + 1
  /\ answer' = {}
  /\ UNCHANGED <<t3_board, t3_moves, t3_net_wins, t3_start_time, t3_timer_started,
                 firstWin, final>>

\* The board is four answers, taken as one.
T3DprintBoard == {"board"}

\* Wrong variant: the wins are kept.
ResetKeepsWins(answers) ==
  /\ answer' = answers \cup {"resetting"} \cup T3DprintBoard
  /\ t3_board' = EmptyBoard /\ t3_moves' = 0
  /\ t3_start_time' = time
  /\ UNCHANGED <<t3_net_wins, time, firstWin, final>>

\* T3Dreset, and the board is printed.
T3Dreset(answers) ==
  /\ answer' = answers \cup {"resetting"} \cup T3DprintBoard
  /\ t3_board' = EmptyBoard /\ t3_moves' = 0
  /\ t3_net_wins' = 0 /\ t3_start_time' = time
  /\ UNCHANGED <<time, firstWin, final>>

\* T3Dtimeout: the clock of the game starts with the first command to need it.
StartTime == IF t3_timer_started = 1 THEN t3_start_time ELSE time
T3Dtimeout == time - StartTime > TimeLimit

T3DnewGame == t3_board' = EmptyBoard /\ t3_moves' = 0

\* A flag is an answer of its own; how it is scrambled is left out.
SendWinResponse(flag) == {flag}

\* T3DmakePlay after the last move of X.
EndGame(board) ==
  LET won == T3DscoreBoard(board) > 0
  IN /\ won => t3_net_wins < MaxWins
     /\ t3_net_wins' = IF won THEN t3_net_wins + 1 ELSE t3_net_wins
     /\ answer' = T3DprintBoard
                    \cup (IF won THEN SendWinResponse("winme1") ELSE {"lost"})
                    \cup (IF t3_net_wins' >= WinsForFlag THEN SendWinResponse("winme10") ELSE {})
     /\ firstWin' = IF won /\ t3_net_wins = 0 THEN time ELSE firstWin
     /\ final' = board
     /\ T3DnewGame

\* Wrong variant: the move of O is not counted.
MoveOUncounted(board) ==
  /\ \E c \in Cells \ Taken(board) : t3_board' = [board EXCEPT ![c] = "O"]
  /\ t3_moves' = t3_moves + 1
  /\ answer' = T3DprintBoard
  /\ UNCHANGED <<t3_net_wins, firstWin, final>>

\* T3DmakePlay after any other: O takes some empty cell.
MoveO(board) ==
  /\ \E c \in Cells \ Taken(board) : t3_board' = [board EXCEPT ![c] = "O"]
  /\ t3_moves' = t3_moves + 2
  /\ answer' = T3DprintBoard
  /\ UNCHANGED <<t3_net_wins, firstWin, final>>

T3DmakePlay(cell) ==
  LET board == [t3_board EXCEPT ![cell] = "X"]
  IN IF t3_moves + 1 = Cardinality(Cells) THEN EndGame(board) ELSE MoveO(board)

Refuse(answers) ==
  /\ answer' = answers
  /\ UNCHANGED <<t3_board, t3_moves, t3_net_wins, firstWin, final>>

Welcome ==
  /\ Refuse({"welcome"} \cup T3DprintBoard)
  /\ UNCHANGED <<t3_start_time, t3_timer_started, time>>

Reset == T3Dreset({}) /\ UNCHANGED t3_timer_started

TimeIsUp ==
  /\ T3Dtimeout
  /\ T3Dreset({"timeIsUp"}) /\ t3_timer_started' = 1

\* Commands within the time; T3DverifyInput refuses the first two.
InTime ==
  /\ ~T3Dtimeout
  /\ t3_start_time' = StartTime /\ t3_timer_started' = 1
  /\ UNCHANGED time

Invalid == InTime /\ Refuse({"invalid"})
SpaceTaken == InTime /\ Taken(t3_board) # {} /\ Refuse({"taken"})
Play == InTime /\ \E cell \in Cells \ Taken(t3_board) : T3DmakePlay(cell)

T3DcommandHandler == Welcome \/ Reset \/ TimeIsUp \/ Invalid \/ SpaceTaken \/ Play

Next == Tick \/ T3DcommandHandler

Spec == Init /\ [][Next]_vars

-----------------------------------------------------------------------------
(* Properties. *)

\* Between two commands the count of moves is that of the board, X and O have
\* equally many cells, and one is free.  Otherwise the loop in T3DmakePlay that
\* draws cells for O until it finds an empty one would never end, and neither
\* would a game.
BoardInOrder ==
  /\ t3_moves = Cardinality(Taken(t3_board))
  /\ Cardinality(Marked(t3_board, "X")) = Cardinality(Marked(t3_board, "O"))
  /\ t3_moves < Cardinality(Cells)

\* The second flag is given only when enough games were won within the limit,
\* whenever the clock was started, ran out or was reset in between.
FlagWithinTime ==
  "winme10" \in answer =>
    /\ t3_net_wins >= WinsForFlag
    /\ time - firstWin <= TimeLimit

\* A player who has more lines than the badge is told so.  The comments of
\* T3DscoreBoard promise "x lines", "each spot vertical" and "each line vertical
\* diagonals".
AllLines ==
  {Line(c, d) : c \in Cube, d \in (-1..1) \X (-1..1) \X (-1..1) \ {<<0, 0, 0>>}} \cap SUBSET Cells
EachLineCounts ==
  "lost" \in answer => Lead(final, AllLines) <= 0
=============================================================================

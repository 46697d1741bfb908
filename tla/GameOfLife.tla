----------------------------- MODULE GameOfLife -----------------------------
(***************************************************************************)
(* The screen saver (menus/game_of_life.cpp): games of life one after the  *)
(* other, each announced by a message, with one of two neighbourhoods.     *)
(* A cell is a number, row by row; the first and the last row never change *)
(* and the neighbours in the row of a cell are the numbers before and      *)
(* behind it, which at the edge are in another row.                        *)
(***************************************************************************)
EXTENDS Gui

CONSTANTS
  width, height,   \* of the grid
  Games,           \* the first generations rand() may draw, as sets of cells
  MaxGenerations   \* 100 to 174 are drawn

ASSUME GridAssumption == width \in Nat \ {0} /\ height \in Nat \ {0}
ASSUME GameAssumption == Games \subseteq SUBSET (0..(width * height - 1))
ASSUME GenerationAssumption == MaxGenerations \in Nat \ {0}

VARIABLES
  InternalState,       \* "INIT", "MESSAGE", "TIME_WAIT", "GAME"
  GOL,                 \* the cells that are alive
  Neighborhood,        \* "m" or "v"
  CurrentGeneration, Generations, noChange

lifeVars == <<InternalState, GOL, Neighborhood, CurrentGeneration, Generations, noChange>>

Cells == 0..(width * height - 1)

LifeTypeOK ==
  /\ InternalState \in {"INIT", "MESSAGE", "TIME_WAIT", "GAME"}
  /\ GOL \subseteq Cells
  /\ Neighborhood \in {"m", "v"}
  /\ CurrentGeneration \in 0..(MaxGenerations + 2)
  /\ Generations \in 0..MaxGenerations
  /\ noChange \in 0..7

LifeStart ==
  /\ InternalState = "GAME" /\ GOL = {} /\ Neighborhood = "m"
  /\ CurrentGeneration = 0 /\ Generations = 0 /\ noChange = 0

\* onInit, if the screen saver comes next.
LifeInit(next) ==
  IF next = "life" /\ cur # "life"
  THEN InternalState' = "INIT"
         /\ UNCHANGED <<GOL, Neighborhood, CurrentGeneration, Generations, noChange>>
  ELSE UNCHANGED lifeVars

-----------------------------------------------------------------------------
X(c) == c % width
Y(c) == c \div width

\* The cells life looks at for cell c, as the code adds them up.
Looked(c, choice) ==
  IF choice = "m"
  THEN {c - width, c + width}
         \cup (IF X(c) > 0 THEN {c - width - 1, c - 1, c + width - 1} ELSE {})
         \cup (IF X(c) < width - 1 THEN {c + width + 1, c + 1, c - width + 1} ELSE {})
  ELSE {c - width, c - 1, c + width, c + 1}

\* Wrong variant: the cell below is not counted.
lifeUpwards(choice) ==
  {c \in Cells :
     LET count == Cardinality((Looked(c, choice) \cap GOL) \ {c + width})
     IN IF Y(c) \in 1..(height - 2) THEN count = 3 \/ (c \in GOL /\ count = 2) ELSE c \in GOL}

life(choice) ==
  {c \in Cells :
     LET count == Cardinality(Looked(c, choice) \cap GOL)
     IN IF Y(c) \in 1..(height - 2) THEN count = 3 \/ (c \in GOL /\ count = 2) ELSE c \in GOL}

\* INIT: draw a game and announce it.
initGame ==
  /\ InternalState = "INIT"
  /\ InternalState' = "MESSAGE"
  /\ CurrentGeneration' = 0
  /\ Neighborhood' \in {"m", "v"}
  /\ GOL' \in Games
  /\ Generations' = MaxGenerations
  /\ noChange' = 0

Announce ==
  /\ InternalState = "MESSAGE"
  /\ InternalState' = "TIME_WAIT"
  /\ UNCHANGED <<GOL, Neighborhood, CurrentGeneration, Generations, noChange>>

\* shouldDisplayMessage: the time of the message is over or not.
Wait == InternalState = "TIME_WAIT" /\ UNCHANGED lifeVars
WaitEnds ==
  /\ InternalState = "TIME_WAIT"
  /\ InternalState' = "GAME"
  /\ UNCHANGED <<GOL, Neighborhood, CurrentGeneration, Generations, noChange>>

GameOver ==
  /\ InternalState = "GAME" /\ CurrentGeneration >= Generations
  /\ InternalState' = "INIT"
  /\ UNCHANGED <<GOL, Neighborhood, CurrentGeneration, Generations, noChange>>

\* The message of the end is followed by the end.
AllDead ==
  /\ InternalState = "GAME" /\ CurrentGeneration < Generations /\ GOL = {}
  /\ InternalState' = "MESSAGE"
  /\ CurrentGeneration' = Generations + 2
  /\ UNCHANGED <<GOL, Neighborhood, Generations, noChange>>

\* Wrong variant: a generation that changes nothing is not counted.
GenerationStill ==
  /\ InternalState = "GAME" /\ CurrentGeneration < Generations /\ GOL # {}
  /\ GOL' = life(Neighborhood)
  /\ CurrentGeneration' = IF GOL' = GOL THEN CurrentGeneration ELSE CurrentGeneration + 1
  /\ UNCHANGED <<InternalState, Neighborhood, Generations, noChange>>

\* The seventh generation that changed nothing, ever since the game began, is
\* the last.
Generation ==
  /\ InternalState = "GAME" /\ CurrentGeneration < Generations /\ GOL # {}
  /\ GOL' = life(Neighborhood)
  /\ noChange' = IF GOL' = GOL THEN noChange + 1 ELSE noChange
  /\ CurrentGeneration' = IF noChange' > 6 /\ GOL' = GOL THEN Generations + 2
                          ELSE CurrentGeneration + 1
  /\ UNCHANGED <<InternalState, Neighborhood, Generations>>

Play == initGame \/ Announce \/ Wait \/ WaitEnds \/ GameOver \/ AllDead \/ Generation

\* Buttons leave; touches do not.
RunLife ==
  /\ Run("life")
  /\ Play
  /\ Then(IF wasAnyButtonReleased THEN "main" ELSE "life", queue)

-----------------------------------------------------------------------------
(* Properties. *)

Beside(c, d) == X(c) - X(d) \in -1..1 /\ Y(c) - Y(d) \in -1..1 /\ c # d
Straight(c, d) == X(c) = X(d) \/ Y(c) = Y(d)

\* Conway's rule, for the cells that are not at an edge: with eight neighbours
\* or with four, in the generation before.
ByTheRule(c) ==
  LET around == {d \in Cells : Beside(c, d) /\ (Neighborhood = "v" => Straight(c, d))}
      count == Cardinality(around \cap GOL)
  IN c \in GOL' <=> count = 3 \/ (count = 2 /\ c \in GOL)

Inner == {c \in Cells : X(c) \in 1..(width - 2) /\ Y(c) \in 1..(height - 2)}

\* Every generation that is drawn follows from the one before by the rule of
\* the game; only at the edges does the code count other cells.
LifeByRule ==
  [][InternalState' = "GAME" /\ CurrentGeneration' > CurrentGeneration =>
       \A c \in Inner : ByTheRule(c)]_lifeVars

\* No game lasts for ever, dead, still or oscillating: as long as no button is
\* released another one begins.
GamesFollow == cur = "life" ~> (InternalState = "INIT" \/ cur # "life")
=============================================================================

---------------------------- MODULE DrawingMenu ----------------------------
(***************************************************************************)
(* The drawing (menus/drawing.cpp).  A run takes up to ten touches; a      *)
(* release at the left edge is a virtual button that saves, deletes or     *)
(* changes the color, and the last of the run decides whether the menu is  *)
(* left.                                                                   *)
(***************************************************************************)
EXTENDS Gui

CONSTANT MAX_COLORS   \* 24

ASSUME ColorAssumption == MAX_COLORS \in Nat \ {0}

VARIABLES
  ColorIndex,
  s1             \* there is a drawing in flash

drawVars == <<ColorIndex, s1>>

DrawTypeOK == ColorIndex \in 0..(MAX_COLORS - 1) /\ s1 \in BOOLEAN
DrawStart == ColorIndex = 0 /\ s1 = FALSE

\* onInit, if the drawing comes next: what cannot be read is cleared.
DrawInit(next) ==
  IF next = "draw" /\ cur # "draw"
  THEN ColorIndex' = 0 /\ s1' \in {s1, FALSE}
  ELSE UNCHANGED drawVars

\* NVSDrawing.wipe, which may be refused.
clearStorage == s1' \in {FALSE, s1} /\ UNCHANGED ColorIndex

-----------------------------------------------------------------------------
\* What a touch does; "edge" is a release on the edge beside the buttons.
Virtual == {"save", "delete", "color", "edge", "drawn"}

\* What the last of the touches of these kinds does.
LastOf(kinds, some) ==
  LET those == {n \in DOMAIN kinds : kinds[n] \in some}
  IN IF those = {} THEN "none" ELSE kinds[CHOOSE n \in those : \A m \in those : m <= n]

\* What may be in flash after the touches of a run: any save and any deletion
\* may be refused.
Stored(kinds) ==
  {s1} \cup {kind = "save" : kind \in {kinds[n] : n \in DOMAIN kinds} \cap {"save", "delete"}}

Colored(kinds) == ColorIndex + Cardinality({n \in DOMAIN kinds : kinds[n] = "color"})

\* processButtons: Fire is read, and does not leave.
NextColor ==
  IF upAction THEN 1 ELSE IF downAction THEN MAX_COLORS - 1 ELSE 0

\* Of the releases on the edge the last decides.
RunDraw ==
  /\ Run("draw")
  /\ \E kinds \in [1..queue["draw"] -> Virtual] :
       LET left == LastOf(kinds, Virtual \ {"drawn"}) \in {"save", "delete"}
       IN /\ s1' \in Stored(kinds)
          /\ ColorIndex' = (Colored(kinds) + (IF left THEN 0 ELSE NextColor)) % MAX_COLORS
          /\ Then(IF left THEN "message" ELSE "draw", [queue EXCEPT !["draw"] = 0])
=============================================================================

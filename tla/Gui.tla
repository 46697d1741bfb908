-------------------------------- MODULE Gui --------------------------------
(***************************************************************************)
(* What the menus share: the buttons (buttons.cpp), the touches that wait  *)
(* in the queue of each menu, the lists (dn8base_menu.cpp,                 *)
(* gui_list_processor.cpp) and the switch from one menu to another         *)
(* (app.cpp).                                                              *)
(* The main task runs one menu, the current one.  A run samples the        *)
(* buttons, takes at most one touch (the drawing takes ten) and may choose *)
(* another menu.  Where a touch is, whether it is a press or a release and *)
(* which row of a list is selected is chosen when it is read.              *)
(***************************************************************************)
EXTENDS Integers, FiniteSets

CONSTANTS
  QUEUE_SIZE,   \* 10; 4 in the settings and the badge info
  Presses,      \* bound: the buttons that are ever down together
  Tours         \* bound: what one behaviour does, entries, items, "quiet"

Buttons == {"Up", "Down", "Fire"}

ASSUME QueueAssumption == QUEUE_SIZE \in Nat \ {0}
ASSUME PressAssumption == Presses \subseteq SUBSET Buttons /\ {} \in Presses
Observing == {"main", "settings", "info", "test", "calibration", "top", "draw"}
Menu == Observing \cup {"life", "3d", "message", "pairing", "comm"}

VARIABLES
  tour,         \* the entries this behaviour opens
  cur,          \* getCurrentMenu()
  ButtonState,  \* the buttons that were down at the last run
  observers,    \* the menus whose queues observe the touch screen
  queue,        \* how many touches wait in the queue of each
  buttonsLeft,  \* no button has been down for the screen saver's time
  screenLeft,   \* "long" when no touch either, "after" one after now was read
  checking      \* the loop is about to compare now with the last touch

guiVars == <<tour, cur, ButtonState, observers, queue, buttonsLeft, screenLeft, checking>>

GuiTypeOK ==
  /\ tour \in Tours /\ cur \in Menu
  /\ ButtonState \in Presses
  /\ observers \subseteq Observing
  /\ queue \in [Observing -> 0..QUEUE_SIZE]
  /\ buttonsLeft \in BOOLEAN /\ checking \in BOOLEAN
  /\ screenLeft \in {"recent", "long", "after"}

-----------------------------------------------------------------------------
(* Buttons.  Each of these is about two samples that follow each other. *)

\* ButtonInfo::process
Sample ==
  /\ ButtonState' \in Presses
  /\ buttonsLeft' = (buttonsLeft /\ ButtonState' = {})

wereTheseButtonsReleased(b) == b \subseteq ButtonState /\ b \cap ButtonState' = {}
wereAnyOfTheseButtonsReleased(b) == b \cap ButtonState # {} /\ b \cap ButtonState' = {}
wasAnyButtonReleased == ButtonState # {} /\ ButtonState' # ButtonState

upAction == wereTheseButtonsReleased({"Up"})
downAction == wereTheseButtonsReleased({"Down"})
selectAction == wereTheseButtonsReleased({"Fire"})
backAction == wereTheseButtonsReleased({"Up", "Down"})

\* GUIListProcessor::process of the buttons: the selection has moved.
Moved == upAction \/ downAction

-----------------------------------------------------------------------------
(* Touches. *)

NoTouch == [up |-> FALSE, at |-> "nowhere"]
Touch == {NoTouch} \cup [up : BOOLEAN, at : {"header", "row", "beside"}]
Hits(t) == t.at = "row"

IsNext(m, t) == (t = NoTouch) <=> queue[m] = 0

\* The queues after the touch of menu m was taken.
Taken(m) == [queue EXCEPT ![m] = IF @ > 0 THEN @ - 1 ELSE 0]

\* TouchTask.broadcast: a touch for which there is no room is dropped.
Broadcast ==
  /\ \E m \in observers :
       /\ queue[m] < QUEUE_SIZE
       /\ queue' = [queue EXCEPT ![m] = @ + 1]
  /\ screenLeft' = IF checking THEN "after" ELSE "recent"
  /\ UNCHANGED <<tour, cur, ButtonState, observers, buttonsLeft, checking>>

-----------------------------------------------------------------------------
(* Menus follow each other. *)

AllButTwo(n) == IF n > 2 THEN n - 2 ELSE 0

\* Wrong variant: the calibration leaves its queue as it is.
EmptiedOthers(m, n) == IF m = "calibration" THEN n ELSE AllButTwo(n)

\* Two touches of the last visit are forgotten, those of the calibration all.
Emptied(m, n) == IF m = "calibration" THEN 0 ELSE AllButTwo(n)

\* Wrong variant: the screen saver leaves the observer of the menu it replaces.
LeavesUnlessSaved(m) == IF checking THEN observers ELSE observers \ {m}

\* onShutdown
Leaves(m) == observers \ {m}

\* setCurrentMenu: onShutdown of the one, onInit of the other; q is what the
\* queues hold.
SwitchTo(next, q) ==
  /\ cur' = next
  /\ IF next = cur
     THEN observers' = observers /\ queue' = q
     ELSE /\ observers' = Leaves(cur) \cup ({next} \cap Observing)
          /\ queue' = IF next \in Observing THEN [q EXCEPT ![next] = Emptied(next, @)] ELSE q

\* What every run of a menu does: it samples the buttons, and then the next
\* menu is entered, or now is read to be held against the last press and touch.
Run(m) == cur = m /\ ~checking /\ Sample
Then(next, q) ==
  /\ SwitchTo(next, q)
  /\ checking' = (next = cur)
  /\ UNCHANGED <<tour, screenLeft>>
=============================================================================

------------------------------- MODULE Menus -------------------------------
(***************************************************************************)
(* The main task of the badge: DN8App::onRun runs the current menu again   *)
(* and again (app.cpp).  Here are the loop, the main menu, the message     *)
(* that is shown for a while and the menus that keep nothing; the others   *)
(* have modules of their own.  Pairing and the communications menu are     *)
(* left as they were entered: PairingMenu and WifiMenus are about them.    *)
(***************************************************************************)
EXTENDS SettingMenu, CalibrationMenu, GameOfLife, DrawingMenu

CONSTANT
  MaxRows    \* rows of the list of connected devices, 10

ASSUME MaxRowsAssumption == MaxRows \in Nat

VARIABLES
  found,     \* devices on the bus of the top board when it was last probed
  eyes,      \* one of them is the top board, 0x1c
  written    \* history: the top board has been written to

topVars == <<found, eyes, written>>
vars == <<guiVars, settingVars, calibrationVars, lifeVars, drawVars, topVars>>

Entries == {"settings", "pairing", "3d", "life", "draw", "info", "comm", "test",
            "calibration", "top"}

\* setCurrentMenu(getMenuState()), the last of DN8App::onInit.
Init ==
  /\ tour \in Tours
  /\ cur = "main" /\ observers = {"main"}
  /\ ButtonState = {}
  /\ queue = [m \in Observing |-> 0]
  /\ buttonsLeft = FALSE /\ screenLeft = "recent" /\ checking = FALSE
  /\ SettingStart /\ CalibrationStart /\ LifeStart /\ DrawStart
  /\ found = 0 /\ eyes = FALSE /\ written = FALSE

TopInit(next) ==
  IF next = "top" /\ cur # "top"
  THEN found' \in 0..MaxRows /\ eyes' \in {FALSE, found' > 0} /\ written' = FALSE
  ELSE UNCHANGED topVars

\* The onInit of the next menu, unless it is one of these that runs itself.
Inits(next, running) ==
  /\ running # "settings" => SettingIdle(next)
  /\ running # "calibration" => CalibrationInit(next)
  /\ running # "life" => LifeInit(next)
  /\ running # "draw" => DrawInit(next)
  /\ running # "top" => TopInit(next)

-----------------------------------------------------------------------------
\* Wrong variant: pairing is opened whatever the name.
OpensAnyhow(entry) == entry

\* Without a name an entry leads to "You must set your agent name first".
Opens(entry) == IF entry = "pairing" /\ settings.name = "none" THEN "message" ELSE entry

\* A release anywhere, also beside the list, opens the entry that is selected.
RunMain ==
  /\ Run("main")
  /\ \E t \in Touch, entry \in (tour \cap Entries) :
       /\ IsNext("main", t)
       /\ LET next == IF (Hits(t) \/ ~Moved) /\ (t.up \/ selectAction)
                      THEN Opens(entry) ELSE "main"
          IN Then(next, Taken("main")) /\ Inits(next, "main")

\* DisplayMessageState: nothing but time ends it.  The communications menu has
\* itself shown after the message.
AfterMessage == {"main"} \cup (tour \cap {"comm"})
RunMessage ==
  /\ Run("message")
  /\ \E next \in {"message"} \cup AfterMessage : Then(next, queue) /\ Inits(next, "message")

\* onRun of the menus that are not modelled here, as a whole.  Pairing ends with
\* a message, whether it succeeded or not.
RunElsewhere ==
  /\ cur \in {"pairing", "comm"} /\ Run(cur)
  /\ \E next \in {cur, "message", "main"} :
       /\ cur = "pairing" => next # "main"
       /\ Then(next, queue) /\ Inits(next, cur)

Run3D ==
  /\ Run("3d")
  /\ LET next == IF wasAnyButtonReleased THEN "main" ELSE "3d"
     IN Then(next, queue) /\ Inits(next, "3d")

RunInfo ==
  /\ Run("info")
  /\ \E t \in Touch :
       /\ IsNext("info", t)
       /\ LET next == IF (Hits(t) \/ ~Moved) /\ (t.up \/ backAction \/ selectAction)
                      THEN "main" ELSE "info"
          IN Then(next, Taken("info")) /\ Inits(next, "info")

RunTest ==
  /\ Run("test")
  /\ \E t \in Touch :
       /\ IsNext("test", t)
       /\ LET next == IF backAction \/ (t.up /\ t.at = "header") THEN "main" ELSE "test"
          IN Then(next, Taken("test")) /\ Inits(next, "test")

\* The row of the top board writes a command to it, if the bus works.
RunTop ==
  /\ Run("top")
  /\ \E t \in Touch :
       /\ IsNext("top", t)
       /\ \/ /\ (Hits(t) \/ ~Moved) /\ (t.up \/ selectAction)
             /\ written' \in {written, written \/ eyes}
          \/ UNCHANGED written
       /\ Then(IF backAction THEN "main" ELSE "top", Taken("top"))
  /\ UNCHANGED <<found, eyes>>
  /\ Inits(cur', "top")

\* A factory reset clears the drawing too, if it may.
RunSettingMenu ==
  /\ RunSettings
  /\ CalibrationInit(cur') /\ LifeInit(cur') /\ TopInit(cur')
  /\ IF SubState = 103 /\ selectAction THEN clearStorage ELSE DrawInit(cur')

AskForUpdate ==
  AskForOta /\ UNCHANGED <<calibrationVars, lifeVars, drawVars, topVars>>

RunCalibrationMenu == RunCalibration /\ Inits(cur', "calibration")
RunGameOfLife == RunLife /\ Inits(cur', "life")
RunDrawingMenu == RunDraw /\ Inits(cur', "draw")

\* DN8App::onRun, but for the screen saver.
MainTask ==
  \/ RunMain \/ RunMessage \/ RunElsewhere \/ Run3D \/ RunInfo \/ RunTest \/ RunTop
  \/ RunSettingMenu \/ AskForUpdate \/ RunCalibrationMenu \/ RunGameOfLife \/ RunDrawingMenu

\* now, which was read before, is held against the last press and the last
\* touch; a touch that is later than now is, unsigned, very long ago.
CheckScreenSaver ==
  /\ checking
  /\ checking' = FALSE
  /\ screenLeft' = IF screenLeft = "after" THEN "recent" ELSE screenLeft
  /\ LET next == IF cur # "life" /\ buttonsLeft /\ screenLeft # "recent" THEN "life" ELSE cur
     IN SwitchTo(next, queue) /\ Inits(next, "saver")
  /\ UNCHANGED <<tour, ButtonState, buttonsLeft>>

TouchTask ==
  ~do_ota /\ Broadcast
    /\ UNCHANGED <<settingVars, calibrationVars, lifeVars, drawVars, topVars>>

\* Nobody touches the badge for the time of the screen saver.
Quiet ==
  /\ ~checking /\ "quiet" \in tour
  /\ buttonsLeft' = (ButtonState = {})
  /\ screenLeft' = "long"
  /\ UNCHANGED <<tour, cur, ButtonState, observers, queue, checking,
                 settingVars, calibrationVars, lifeVars, drawVars, topVars>>

\* The badge starts with the settings s in flash, and with those it could read.
StartWith(s) ==
  /\ cur' = "main" /\ observers' = {"main"} /\ ButtonState' = {}
  /\ queue' = [m \in Observing |-> 0]
  /\ buttonsLeft' = FALSE /\ screenLeft' = "recent" /\ checking' = FALSE
  /\ saved' = s /\ settings' \in Loaded(s)
  /\ SubState' = 0 /\ MiscCounter' = 0 /\ AgentName' = "none" /\ CurrentPos' = 0 /\ CursorPos' = 0
  /\ do_ota' = FALSE
  /\ initNVS
  /\ InternalState' = "GAME" /\ GOL' = {} /\ Neighborhood' = "m"
  /\ CurrentGeneration' = 0 /\ Generations' = 0 /\ noChange' = 0
  /\ ColorIndex' = 0
  /\ found' = 0 /\ eyes' = FALSE /\ written' = FALSE
  /\ UNCHANGED <<tour, s1>>

PowerCycle == StartWith(saved)

\* esp_restart: the choice of bluetooth or WiFi has been saved, and with it the
\* time in RAM.
RestartWithFeatures ==
  /\ cur = "settings" /\ SubState = 102 /\ "Fire" \in ButtonState /\ ~checking
  /\ StartWith([settings EXCEPT !.name = saved.name, !.ble = (MiscCounter = 1)])

MessageOver ==
  RunGameOfLife /\ InternalState = "TIME_WAIT" /\ InternalState' = "GAME"

Next ==
  \/ MainTask \/ CheckScreenSaver \/ TouchTask \/ Quiet
  \/ PowerCycle \/ RestartWithFeatures

\* The main task runs for ever, and the time of a message ends.
Spec ==
  /\ Init /\ [][Next]_vars
  /\ WF_vars(MainTask) /\ WF_vars(CheckScreenSaver)
  /\ SF_vars(MessageOver)

TypeOK ==
  /\ GuiTypeOK /\ SettingTypeOK /\ CalibrationTypeOK /\ LifeTypeOK /\ DrawTypeOK
  /\ found \in 0..MaxRows /\ eyes \in BOOLEAN /\ written \in BOOLEAN

-----------------------------------------------------------------------------
(* Properties. *)

\* Menus follow each other by a button, a touch, the screen saver, a message
\* that ends or a restart; whatever way, the touch screen reports to the menu
\* that runs and to no other: a queue nobody reads would fill and its touches
\* be acted on at the next visit.
OnlyCurrentObserves == observers = {cur} \cap Observing
=============================================================================

---------------------------- MODULE SettingMenu ----------------------------
(***************************************************************************)
(* The settings (menus/setting_state.cpp), the keyboard they ask the name  *)
(* with (menus/virtual_key_board.cpp) and what they save (KeyStore.cpp).   *)
(* A setting is changed in RAM first, and may then fail to be saved.       *)
(* Of a name only its first byte is kept, and how long it is.              *)
(***************************************************************************)
EXTENDS Gui

CONSTANTS
  MaxTime,            \* 9 minutes until the screen saver comes
  ConstructedTime,    \* 5, in RAM until the settings are read
  SizeOfKeyboard,     \* 77 keys, the last of which is "_"
  AGENT_NAME_LENGTH   \* 12

ASSUME SettingAssumption ==
  /\ MaxTime \in 1..15   \* what is saved has four bits
  /\ ConstructedTime \in 1..MaxTime
  /\ SizeOfKeyboard \in Nat \ {0}
  /\ AGENT_NAME_LENGTH \in Nat \ {0}

VARIABLES
  settings,     \* in RAM: the first byte of the name, the time, bluetooth or not
  saved,        \* in flash; what is not there is as init would make it
  SubState,     \* 0, or 100 and more in one of the items
  MiscCounter,
  AgentName,    \* the first byte of what has been entered
  CurrentPos,   \* how much has been entered
  CursorPos,    \* on the keyboard
  do_ota        \* an update has been asked for

settingVars == <<settings, saved, SubState, MiscCounter, AgentName, CurrentPos, CursorPos, do_ota>>
menuVars == <<SubState, MiscCounter, AgentName, CurrentPos, CursorPos>>

Items == {"name", "time", "features", "reset", "ota"}
SubStateOf(item) ==
  CASE item = "name" -> 100 [] item = "time" -> 101 [] item = "features" -> 102
    [] item = "reset" -> 103 [] item = "ota" -> 104

FirstByte == {"none", "letter", "_"}
Defaults == [name |-> "none", time |-> 1, ble |-> FALSE]
Constructed == [name |-> "none", time |-> ConstructedTime, ble |-> FALSE]
Settings == [name : FirstByte, time : 0..15, ble : BOOLEAN]

SettingTypeOK ==
  /\ settings \in Settings /\ saved \in Settings
  /\ SubState \in {0} \cup 100..104
  /\ MiscCounter \in 0..(MaxTime + 1)
  /\ AgentName \in FirstByte
  /\ CurrentPos \in 0..(AGENT_NAME_LENGTH - 1)
  /\ CursorPos \in 0..SizeOfKeyboard
  /\ do_ota \in BOOLEAN

SettingStart ==
  /\ settings = Defaults /\ saved = Defaults
  /\ SubState = 0 /\ MiscCounter = 0
  /\ AgentName = "none" /\ CurrentPos = 0 /\ CursorPos = 0
  /\ do_ota = FALSE

-----------------------------------------------------------------------------
(* The keyboard. *)

\* The byte behind the last key ends the string.
getSelectedChar(pos) ==
  IF pos = SizeOfKeyboard THEN "none" ELSE IF pos = SizeOfKeyboard - 1 THEN "_" ELSE "letter"

\* VirtualKeyBoard::init, when the name is the item chosen.
InitKeyboard(item) == CursorPos' = IF item = "name" THEN 0 ELSE CursorPos

\* InputHandleContext::addChar: the last byte of the buffer stays a zero.
addChar(b) ==
  IF CurrentPos < AGENT_NAME_LENGTH - 1
  THEN /\ AgentName' = IF CurrentPos = 0 THEN b ELSE AgentName
       /\ CurrentPos' = CurrentPos + 1
  ELSE UNCHANGED <<AgentName, CurrentPos>>

\* VirtualKeyBoard::process: up stops short of the end, down does not.
Process ==
  IF wereAnyOfTheseButtonsReleased({"Up"})
  THEN /\ CursorPos' = IF CursorPos = 0 THEN SizeOfKeyboard - 1 ELSE CursorPos - 1
       /\ UNCHANGED <<AgentName, CurrentPos>>
  ELSE IF wereAnyOfTheseButtonsReleased({"Down"})
  THEN /\ CursorPos' = IF CursorPos < SizeOfKeyboard THEN CursorPos + 1 ELSE 0
       /\ UNCHANGED <<AgentName, CurrentPos>>
  ELSE IF wereAnyOfTheseButtonsReleased({"Fire"})
  THEN addChar(getSelectedChar(CursorPos)) /\ UNCHANGED CursorPos
  ELSE UNCHANGED <<AgentName, CurrentPos, CursorPos>>

-----------------------------------------------------------------------------
(* SettingsInfo: RAM first, then flash, which may refuse.  The name has a key  *)
(* of its own, the other settings are one blob.                                *)

SaveName(name) ==
  /\ settings' = [settings EXCEPT !.name = name]
  /\ saved' \in {saved, [saved EXCEPT !.name = name]}

Save(new) ==
  /\ settings' = new
  /\ saved' \in {saved, [new EXCEPT !.name = saved.name]}

\* SettingsInfo::init at start up: what cannot be read stays as constructed.
Loaded(s) ==
  {[read EXCEPT !.name = name] : read \in {s, Constructed}, name \in {s.name, "none"}}

\* SettingsInfo::resetToFactory: flash forgets, and init reads what is not there,
\* so that the name in RAM stays.  Either key may refuse to be erased, and what
\* init reads may be refused too.
resetToFactory ==
  \E name \in {"none", saved.name}, rest \in {Defaults, saved} :
    /\ saved' = [rest EXCEPT !.name = name]
    /\ \E read \in {rest, settings}, named \in {settings.name} \cup ({name} \ {"none"}) :
         settings' = [read EXCEPT !.name = named]

-----------------------------------------------------------------------------
(* SettingMenu. *)

\* onInit, if it is the settings that come next.
SettingInit(next) ==
  IF next = "settings" /\ cur # "settings"
  THEN SubState' = 0 /\ MiscCounter' = 0 /\ AgentName' = "none" /\ CurrentPos' = 0
         /\ UNCHANGED CursorPos
  ELSE UNCHANGED menuVars

SettingIdle(next) == SettingInit(next) /\ UNCHANGED <<settings, saved, do_ota>>

\* The list: an item, or with a press of the header the main menu.  Both
\* buttons move the selection and do not lead back.
ChooseItem(t) ==
  /\ SubState = 0
  /\ IF ~Hits(t) /\ Moved
     THEN UNCHANGED settingVars /\ Then("settings", Taken("settings"))
     ELSE IF t.up \/ selectAction
     THEN /\ \E item \in tour \cap Items :
               /\ SubState' = SubStateOf(item)
               /\ AgentName' = "none"
               /\ InitKeyboard(item)
               /\ MiscCounter' = IF item = "time" THEN settings.time
                                 ELSE IF item = "features" /\ settings.ble THEN 1 ELSE 0
          /\ UNCHANGED <<settings, saved, CurrentPos, do_ota>>
          /\ Then("settings", Taken("settings"))
     ELSE /\ UNCHANGED settingVars
          /\ Then(IF backAction \/ t.at = "header" THEN "main" ELSE "settings",
                  Taken("settings"))

\* The name: both buttons or any touch of the header end it, if it begins with
\* a letter.
SetAgentName(t) ==
  /\ SubState = 100
  /\ Process
  /\ IF (t.at = "header" \/ backAction) /\ AgentName' \notin {"none", "_"}
     THEN SaveName(AgentName') /\ Then("message", Taken("settings"))
     ELSE UNCHANGED <<settings, saved>> /\ Then("settings", Taken("settings"))
  /\ UNCHANGED <<SubState, MiscCounter, do_ota>>

Clamped == IF MiscCounter > MaxTime THEN MaxTime ELSE IF MiscCounter < 1 THEN 1 ELSE MiscCounter

\* The number is put in its bounds before the buttons; four bits are saved.
SetSaverTime(t) ==
  /\ SubState = 101
  /\ MiscCounter' = IF upAction THEN Clamped + 1 ELSE IF downAction THEN Clamped - 1 ELSE Clamped
  /\ IF selectAction
     THEN /\ Save([settings EXCEPT !.time = Clamped % 16])
          /\ Then("message", Taken("settings"))
     ELSE UNCHANGED <<settings, saved>> /\ Then("settings", Taken("settings"))
  /\ UNCHANGED <<SubState, AgentName, CurrentPos, CursorPos, do_ota>>

\* Bluetooth or WiFi.  Here the setting could not be saved; if it could the
\* badge restarts.
Features(t) ==
  /\ SubState = 102
  /\ IF upAction \/ downAction
     THEN /\ MiscCounter' = IF MiscCounter = 0 THEN 1 ELSE 0
          /\ UNCHANGED settings /\ Then("settings", Taken("settings"))
     ELSE IF selectAction
     THEN /\ settings' = [settings EXCEPT !.ble = (MiscCounter = 1)]
          /\ UNCHANGED MiscCounter /\ Then("message", Taken("settings"))
     ELSE UNCHANGED <<settings, MiscCounter>> /\ Then("settings", Taken("settings"))
  /\ UNCHANGED <<saved, SubState, AgentName, CurrentPos, CursorPos, do_ota>>

\* Fire erases, any other button does not.
FactoryReset(t) ==
  /\ SubState = 103
  /\ IF selectAction THEN resetToFactory ELSE UNCHANGED <<settings, saved>>
  /\ Then(IF wasAnyButtonReleased THEN "main" ELSE "settings", Taken("settings"))
  /\ UNCHANGED <<menuVars, do_ota>>

RunSettings ==
  /\ Run("settings")
  /\ \E t \in Touch :
       /\ IsNext("settings", t)
       /\ \/ ChooseItem(t) \/ SetAgentName(t) \/ SetSaverTime(t)
          \/ Features(t) \/ FactoryReset(t)

\* The update is asked for, and the run does not end.
AskForOta ==
  /\ Run("settings") /\ SubState = 104 /\ ~do_ota
  /\ do_ota' = TRUE
  /\ queue' = Taken("settings")
  /\ UNCHANGED <<tour, cur, observers, screenLeft, checking, settings, saved, menuVars>>

-----------------------------------------------------------------------------
(* Properties. *)

GoodTime(s) == s.time \in 1..MaxTime
GoodName(s) == s.name \in {"none", "letter"}

\* Whatever is pressed in whatever order, whichever saves, reads and erasures
\* are refused, before or after a restart: the screen saver's time is never
\* zero, so that the saver does not come at once and for ever, and no one goes
\* pairing under no name or one that isNameSet takes for none.
SettingsSound ==
  /\ \A s \in {settings, saved} : GoodTime(s) /\ GoodName(s)
  /\ cur = "pairing" => settings.name = "letter"
=============================================================================

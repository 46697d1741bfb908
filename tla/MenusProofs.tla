---------------------------- MODULE MenusProofs ----------------------------
(* What the menus keep whole: who is told of touches, the calibration and the *)
(* settings, for queues, keyboards and calibrations of any size, any tours    *)
(* and any games of life.                                                     *)
EXTENDS Menus, FiniteSetTheorems, TLAPS

\* While points are taken those taken so far are of this visit, and one is left to take;
\* otherwise they may be of any.
Taking ==
  cur = "calibration" =>
    /\ CurrentIndex < TOTAL
    /\ \A n \in 0..(TOTAL - 1) : n < CurrentIndex => CalibrationLocations[n] = visit

CalibrationInv ==
  /\ CurrentIndex \in 0..TOTAL
  /\ visit \in 0..MaxVisits /\ stale = 0
  /\ DOMAIN CalibrationLocations = 0..(TOTAL - 1)
  /\ CalibrationLocations = [n \in DOMAIN CalibrationLocations |-> CalibrationLocations[n]]
  /\ inUse = Corners(caldata)
  /\ \E v \in 0..MaxVisits : caldata = AllOf(v)
  /\ Taking

SettingInv ==
  /\ settings \in Settings /\ saved \in Settings
  /\ MiscCounter \in 0..(MaxTime + 1)
  /\ AgentName \in FirstByte
  /\ SettingsSound

IInv == OnlyCurrentObserves /\ CalibrationInv /\ SettingInv

-----------------------------------------------------------------------------
(* Who is told of touches. *)

LEMMA SwitchObserves ==
  ASSUME OnlyCurrentObserves, NEW next, NEW q, SwitchTo(next, q)
  PROVE  OnlyCurrentObserves'
BY DEF OnlyCurrentObserves, SwitchTo, Leaves

LEMMA ThenObserves ==
  ASSUME OnlyCurrentObserves, NEW next, NEW q, Then(next, q)
  PROVE  OnlyCurrentObserves'
BY SwitchObserves DEF Then

LEMMA ObserversStay ==
  ASSUME OnlyCurrentObserves, Next
  PROVE  OnlyCurrentObserves'
<1>1. CASE RunMain \/ RunMessage \/ RunElsewhere \/ Run3D \/ RunInfo \/ RunTest \/ RunTop
  BY <1>1, ThenObserves DEF RunMain, RunMessage, RunElsewhere, Run3D, RunInfo, RunTest, RunTop
<1>2. CASE RunSettingMenu
  BY <1>2, ThenObserves DEF RunSettingMenu, RunSettings, ChooseItem, SetAgentName, SetSaverTime,
     Features, FactoryReset
<1>3. CASE AskForUpdate
  BY <1>3 DEF AskForUpdate, AskForOta, OnlyCurrentObserves
<1>4. CASE RunCalibrationMenu \/ RunGameOfLife \/ RunDrawingMenu
  BY <1>4, ThenObserves DEF RunCalibrationMenu, RunCalibration, RunGameOfLife, RunLife, RunDrawingMenu,
     RunDraw
<1>5. CASE CheckScreenSaver
  BY <1>5, SwitchObserves DEF CheckScreenSaver
<1>6. CASE TouchTask \/ Quiet
  BY <1>6 DEF TouchTask, Broadcast, Quiet, OnlyCurrentObserves
<1>7. CASE PowerCycle \/ RestartWithFeatures
  BY <1>7 DEF PowerCycle, RestartWithFeatures, StartWith, OnlyCurrentObserves, Observing
<1> QED
  BY <1>1, <1>2, <1>3, <1>4, <1>5, <1>6, <1>7, Zenon DEF Next, MainTask

-----------------------------------------------------------------------------
(* The calibration. *)

\* Another menu ran, or none.
LEMMA CalibrationEntered ==
  ASSUME CalibrationInv, CalibrationInit(cur')
  PROVE  CalibrationInv'
<1>1. CASE cur' = "calibration" /\ cur # "calibration"
  <2>1. /\ visit < MaxVisits /\ visit' = visit + 1 /\ CurrentIndex' = 0 /\ stale' = 0
        /\ UNCHANGED <<CalibrationLocations, caldata, inUse>>
    BY <1>1 DEF CalibrationInit, Emptied
  <2>2. Taking'
    BY <2>1, CalibrationAssumption DEF Taking
  <2>3. CurrentIndex' \in 0..TOTAL /\ visit' \in 0..MaxVisits
    BY <2>1, CalibrationAssumption DEF CalibrationInv
  <2> QED
    BY <2>1, <2>2, <2>3 DEF CalibrationInv, Corners, AllOf
<1>2. CASE ~(cur' = "calibration" /\ cur # "calibration")
  <2>1. UNCHANGED calibrationVars
    BY <1>2 DEF CalibrationInit
  <2> QED
    BY <1>2, <2>1 DEF CalibrationInv, calibrationVars, Taking, Corners, AllOf
<1> QED
  BY <1>1, <1>2

LEMMA CalibrationRuns ==
  ASSUME CalibrationInv, RunCalibration
  PROVE  CalibrationInv'
<1>1. PICK t \in Touch : TakePoint(t)
  BY DEF RunCalibration
<1>2. cur = "calibration" /\ visit' = visit /\ stale' = 0 /\ stale = 0
  BY DEF RunCalibration, Run, CalibrationInv
<1>3. /\ CurrentIndex \in Nat /\ CurrentIndex < TOTAL
      /\ \A n \in 0..(TOTAL - 1) : n < CurrentIndex => CalibrationLocations[n] = visit
      /\ DOMAIN CalibrationLocations = 0..(TOTAL - 1)
      /\ CalibrationLocations = [n \in DOMAIN CalibrationLocations |-> CalibrationLocations[n]]
  BY <1>2, CalibrationAssumption DEF CalibrationInv, Taking
<1>4. /\ CurrentIndex' \in Nat /\ CurrentIndex' <= TOTAL
      /\ DOMAIN CalibrationLocations' = 0..(TOTAL - 1)
      /\ CalibrationLocations' = [n \in 0..(TOTAL - 1) |-> CalibrationLocations'[n]]
      /\ \A n \in 0..(TOTAL - 1) : n < CurrentIndex' => CalibrationLocations'[n] = visit
  <2>1. CASE t.up
    <3>1. /\ CalibrationLocations' = [CalibrationLocations EXCEPT ![CurrentIndex] = visit]
          /\ CurrentIndex' = CurrentIndex + 1
      BY <1>1, <1>2, <2>1 DEF TakePoint, Point
    <3>2. CalibrationLocations' =
            [n \in 0..(TOTAL - 1) |-> IF n = CurrentIndex THEN visit ELSE CalibrationLocations[n]]
      BY <1>3, <3>1
    <3>3. \A n \in 0..(TOTAL - 1) : n < CurrentIndex' => CalibrationLocations'[n] = visit
      BY <1>3, <3>1, <3>2, CalibrationAssumption
    <3>4. /\ DOMAIN CalibrationLocations' = 0..(TOTAL - 1)
          /\ CalibrationLocations' = [n \in 0..(TOTAL - 1) |-> CalibrationLocations'[n]]
      BY <3>2
    <3>5. CurrentIndex' \in Nat /\ CurrentIndex' <= TOTAL
      BY <1>3, <3>1, CalibrationAssumption
    <3> QED
      BY <3>3, <3>4, <3>5
  <2>2. CASE ~t.up
    <3>1. CalibrationLocations' = CalibrationLocations /\ CurrentIndex' = CurrentIndex
      BY <1>1, <2>2 DEF TakePoint
    <3> QED
      BY <1>3, <3>1, CalibrationAssumption
  <2> QED
    BY <2>1, <2>2
<1>5. cur' = "calibration" => CurrentIndex' < TOTAL
  <2>1. cur' = IF wasAnyButtonReleased \/ CurrentIndex' >= TOTAL THEN "main" ELSE "calibration"
    BY DEF RunCalibration, Then, SwitchTo
  <2> QED
    BY <1>4, <2>1, CalibrationAssumption
<1>6. inUse' = Corners(caldata') /\ \E v \in 0..MaxVisits : caldata' = AllOf(v)
  <2>1. CASE UNCHANGED <<caldata, inUse>>
    BY <2>1 DEF CalibrationInv, Corners, AllOf
  <2>2. CASE ~UNCHANGED <<caldata, inUse>>
    <3>1. /\ CurrentIndex' >= TOTAL
          /\ caldata' = CalibrationLocations' /\ inUse' = Corners(CalibrationLocations')
      BY <2>2 DEF RunCalibration, SaveCalibration
    <3>2. CalibrationLocations' = AllOf(visit)
      BY <1>4, <3>1, CalibrationAssumption DEF AllOf
    <3> QED
      BY <3>1, <3>2 DEF CalibrationInv
  <2> QED
    BY <2>1, <2>2
<1>7. Taking'
  BY <1>2, <1>4, <1>5 DEF Taking
<1> QED
  BY <1>2, <1>4, <1>6, <1>7, CalibrationAssumption DEF CalibrationInv

LEMMA CalibrationStarts ==
  ASSUME CalibrationInv, initNVS, cur' = "main"
  PROVE  CalibrationInv'
<1>1. PICK v \in 0..MaxVisits : caldata = AllOf(v)
  BY DEF CalibrationInv
<1>2. /\ CalibrationLocations' = AllOf(v) /\ caldata' = AllOf(v) /\ inUse' = Corners(AllOf(v))
      /\ CurrentIndex' = TOTAL /\ stale' = 0 /\ visit' = visit
  BY <1>1 DEF initNVS
<1>3. DOMAIN AllOf(v) = 0..(TOTAL - 1) /\ AllOf(v) = [n \in DOMAIN AllOf(v) |-> AllOf(v)[n]]
  BY DEF AllOf
<1> QED
  BY <1>2, <1>3, CalibrationAssumption DEF CalibrationInv, Taking

LEMMA CalibrationStays ==
  ASSUME CalibrationInv, Next
  PROVE  CalibrationInv'
<1>1. CASE RunMain \/ RunMessage \/ RunElsewhere \/ Run3D \/ RunInfo \/ RunTest
  <2>1. CASE RunMain
    <3>1. PICK next, q : Then(next, q) /\ Inits(next, "main")
      BY <2>1 DEF RunMain
    <3> QED
      BY <3>1, CalibrationEntered DEF Then, SwitchTo, Inits
  <2>2. CASE RunMessage
    <3>1. PICK next, q : Then(next, q) /\ Inits(next, "message")
      BY <2>2 DEF RunMessage
    <3> QED
      BY <3>1, CalibrationEntered DEF Then, SwitchTo, Inits
  <2>3. CASE RunElsewhere
    <3>1. cur # "calibration" /\ \E next, q : Then(next, q) /\ Inits(next, cur)
      BY <2>3 DEF RunElsewhere
    <3> QED
      BY <3>1, CalibrationEntered DEF Then, SwitchTo, Inits
  <2>4. CASE Run3D
    <3>1. PICK next, q : Then(next, q) /\ Inits(next, "3d")
      BY <2>4 DEF Run3D
    <3> QED
      BY <3>1, CalibrationEntered DEF Then, SwitchTo, Inits
  <2>5. CASE RunInfo \/ RunTest
    <3>1. PICK next, q : Then(next, q) /\ (Inits(next, "info") \/ Inits(next, "test"))
      BY <2>5 DEF RunInfo, RunTest
    <3> QED
      BY <3>1, CalibrationEntered DEF Then, SwitchTo, Inits
  <2> QED
    BY <1>1, <2>1, <2>2, <2>3, <2>4, <2>5
<1>2. CASE RunTop \/ RunGameOfLife \/ RunDrawingMenu
  BY <1>2, CalibrationEntered DEF RunTop, RunGameOfLife, RunDrawingMenu, Inits
<1>3. CASE RunSettingMenu
  BY <1>3, CalibrationEntered DEF RunSettingMenu
<1>4. CASE RunCalibrationMenu
  BY <1>4, CalibrationRuns DEF RunCalibrationMenu
<1>5. CASE AskForUpdate \/ TouchTask \/ Quiet
  <2>1. cur' = cur /\ UNCHANGED calibrationVars
    BY <1>5 DEF AskForUpdate, AskForOta, TouchTask, Broadcast, Quiet
  <2>2. CalibrationInit(cur')
    BY <2>1 DEF CalibrationInit
  <2> QED
    BY <2>2, CalibrationEntered
<1>6. CASE CheckScreenSaver
  <2>1. PICK next : SwitchTo(next, queue) /\ Inits(next, "saver")
    BY <1>6 DEF CheckScreenSaver
  <2>2. cur' = next /\ CalibrationInit(next)
    BY <2>1 DEF SwitchTo, Inits
  <2> QED
    BY <2>2, CalibrationEntered
<1>7. CASE PowerCycle \/ RestartWithFeatures
  BY <1>7, CalibrationStarts DEF PowerCycle, RestartWithFeatures, StartWith
<1> QED
  BY <1>1, <1>2, <1>3, <1>4, <1>5, <1>6, <1>7, Zenon DEF Next, MainTask

-----------------------------------------------------------------------------
(* The settings. *)

LEMMA ClampedInBounds ==
  ASSUME MiscCounter \in 0..(MaxTime + 1)
  PROVE  Clamped \in 1..MaxTime /\ Clamped % 16 = Clamped
BY SettingAssumption DEF Clamped

\* Nothing but the counters of the menu changes, and pairing was not entered.
LEMMA SettingFrame ==
  ASSUME SettingInv, UNCHANGED <<settings, saved>>,
         MiscCounter' \in 0..(MaxTime + 1), AgentName' \in FirstByte,
         cur' = "pairing" => cur = "pairing" \/ settings.name = "letter"
  PROVE  SettingInv'
BY DEF SettingInv, SettingsSound, GoodTime, GoodName

LEMMA SettingEntered ==
  ASSUME SettingInv, SettingIdle(cur'), cur' = "pairing" => cur = "pairing" \/ settings.name = "letter"
  PROVE  SettingInv'
<1>1. UNCHANGED <<settings, saved>>
  BY DEF SettingIdle
<1>2. MiscCounter' \in {0, MiscCounter} /\ AgentName' \in {"none", AgentName}
  BY DEF SettingIdle, SettingInit, menuVars
<1>3. MiscCounter' \in 0..(MaxTime + 1)
  BY <1>2, SettingAssumption DEF SettingInv
<1>4. AgentName' \in FirstByte
  BY <1>2 DEF SettingInv, FirstByte
<1> QED
  BY <1>1, <1>3, <1>4, SettingFrame

\* A setting is saved, in RAM at least.
LEMMA SettingSaved ==
  ASSUME SettingInv, NEW new, new \in Settings, GoodTime(new), GoodName(new), settings' = new,
         saved' \in Settings, GoodTime(saved'), GoodName(saved'), cur' # "pairing",
         MiscCounter' \in 0..(MaxTime + 1), AgentName' \in FirstByte
  PROVE  SettingInv'
BY DEF SettingInv, SettingsSound, GoodTime, GoodName

\* The settings of a new badge and those a badge is constructed with.
LEMMA DefaultsSound ==
  \A s \in {Defaults, Constructed} :
    s \in Settings /\ s.name = "none" /\ s.time \in 1..MaxTime
<1>1. ConstructedTime \in 0..15 /\ 1 \in 1..MaxTime
  BY SettingAssumption
<1>2. Defaults \in Settings /\ Defaults.name = "none" /\ Defaults.time = 1
  BY DEF Defaults, Settings, FirstByte
<1>3. Constructed \in Settings /\ Constructed.name = "none" /\ Constructed.time = ConstructedTime
  BY <1>1 DEF Constructed, Settings, FirstByte
<1> QED BY <1>1, <1>2, <1>3, SettingAssumption

\* What a badge has in RAM after it started with s in flash.
LEMMA LoadedSound ==
  ASSUME NEW s \in Settings, GoodTime(s), GoodName(s), NEW ram \in Loaded(s)
  PROVE  ram \in Settings /\ GoodTime(ram) /\ GoodName(ram)
<1>1. PICK read \in {s, Constructed}, name \in {s.name, "none"} : ram = [read EXCEPT !.name = name]
  BY DEF Loaded
<1>2. read \in Settings /\ read.time \in 1..MaxTime
  BY DefaultsSound DEF GoodTime
<1>3. name \in {"none", "letter"}
  BY DEF GoodName
<1>4. ram \in Settings /\ ram.name = name /\ ram.time = read.time
  BY <1>1, <1>2, <1>3 DEF Settings, FirstByte
<1> QED BY <1>2, <1>3, <1>4 DEF GoodTime, GoodName

LEMMA SettingsRun ==
  ASSUME SettingInv, RunSettings
  PROVE  SettingInv'
<1>0. /\ MiscCounter \in 0..(MaxTime + 1) /\ AgentName \in FirstByte
      /\ settings \in Settings /\ saved \in Settings
      /\ settings.time \in 1..MaxTime /\ settings.name \in {"none", "letter"}
      /\ saved.time \in 1..MaxTime /\ saved.name \in {"none", "letter"}
      /\ GoodTime(saved) /\ GoodName(saved)
      /\ cur = "settings"
  BY DEF SettingInv, SettingsSound, GoodTime, GoodName, RunSettings, Run
<1>1. PICK t \in Touch :
        ChooseItem(t) \/ SetAgentName(t) \/ SetSaverTime(t) \/ Features(t) \/ FactoryReset(t)
  BY DEF RunSettings
<1>2. CASE ChooseItem(t)
  <2>1. UNCHANGED <<settings, saved>> /\ cur' \in {"settings", "main"}
    BY <1>2 DEF ChooseItem, settingVars, Then, SwitchTo
  <2>2. MiscCounter' \in {MiscCounter, settings.time, 0, 1} /\ AgentName' \in {AgentName, "none"}
    BY <1>2 DEF ChooseItem, settingVars
  <2>3. MiscCounter' \in 0..(MaxTime + 1)
    BY <1>0, <2>2, SettingAssumption
  <2>4. AgentName' \in FirstByte
    BY <1>0, <2>2 DEF FirstByte
  <2> QED
    BY <2>1, <2>3, <2>4, SettingFrame
<1>3. CASE SetAgentName(t)
  <2>1. MiscCounter' = MiscCounter /\ cur' \in {"message", "settings"}
    BY <1>3 DEF SetAgentName, Then, SwitchTo
  <2>2. AgentName' \in FirstByte
    BY <1>0, <1>3 DEF SetAgentName, Process, addChar, getSelectedChar, FirstByte
  <2>3. CASE UNCHANGED <<settings, saved>>
    BY <1>0, <2>1, <2>2, <2>3, SettingFrame
  <2>4. CASE ~UNCHANGED <<settings, saved>>
    <3> DEFINE new == [settings EXCEPT !.name = AgentName']
    <3>1. AgentName' \notin {"none", "_"} /\ SaveName(AgentName')
      BY <1>3, <2>4 DEF SetAgentName
    <3>2. AgentName' = "letter"
      BY <2>2, <3>1 DEF FirstByte
    <3>3. new \in Settings /\ new.name = "letter" /\ new.time = settings.time
      BY <1>0, <3>2 DEF Settings, FirstByte
    <3>4. GoodTime(new) /\ GoodName(new)
      BY <1>0, <3>3 DEF GoodTime, GoodName
    <3>5. settings' = new
      BY <3>1 DEF SaveName
    <3>6. saved' \in Settings /\ saved'.name \in {"none", "letter"} /\ saved'.time = saved.time
      BY <1>0, <3>1, <3>2 DEF SaveName, Settings, FirstByte
    <3>7. GoodTime(saved') /\ GoodName(saved')
      BY <1>0, <3>6 DEF GoodTime, GoodName
    <3> HIDE DEF new
    <3> QED
      BY <1>0, <2>1, <2>2, <3>3, <3>4, <3>5, <3>6, <3>7, SettingSaved
  <2> QED
    BY <2>3, <2>4
<1>4. CASE SetSaverTime(t)
  <2>1. Clamped \in 1..MaxTime /\ Clamped % 16 = Clamped
    BY <1>0, ClampedInBounds
  <2>2. AgentName' = AgentName /\ cur' \in {"message", "settings"}
    BY <1>4 DEF SetSaverTime, Then, SwitchTo
  <2>3. MiscCounter' \in {Clamped, Clamped + 1, Clamped - 1}
    BY <1>4 DEF SetSaverTime
  <2>4. MiscCounter' \in 0..(MaxTime + 1)
    BY <2>1, <2>3, SettingAssumption
  <2>5. CASE UNCHANGED <<settings, saved>>
    BY <1>0, <2>2, <2>4, <2>5, SettingFrame
  <2>6. CASE ~UNCHANGED <<settings, saved>>
    <3> DEFINE new == [settings EXCEPT !.time = Clamped % 16]
    <3>1. Save(new)
      BY <1>4, <2>6 DEF SetSaverTime
    <3>2. Clamped \in 0..15
      BY <2>1, SettingAssumption
    <3>3. new \in Settings /\ new.name = settings.name /\ new.time = Clamped
      BY <1>0, <2>1, <3>2 DEF Settings
    <3>4. GoodTime(new) /\ GoodName(new)
      BY <1>0, <2>1, <3>3 DEF GoodTime, GoodName
    <3>5. settings' = new
      BY <3>1 DEF Save
    <3>6. saved' \in Settings /\ saved'.name = saved.name /\ saved'.time \in {saved.time, Clamped}
      BY <1>0, <3>1, <3>3 DEF Save, Settings
    <3>7. GoodTime(saved') /\ GoodName(saved')
      BY <1>0, <2>1, <3>6 DEF GoodTime, GoodName
    <3> HIDE DEF new
    <3> QED
      BY <1>0, <2>2, <2>4, <3>3, <3>4, <3>5, <3>6, <3>7, SettingSaved
  <2> QED
    BY <2>5, <2>6
<1>5. CASE Features(t)
  <2>1. /\ saved' = saved /\ AgentName' = AgentName /\ cur' \in {"settings", "message"}
        /\ MiscCounter' \in {0, 1, MiscCounter}
    BY <1>5 DEF Features, Then, SwitchTo
  <2>2. MiscCounter' \in 0..(MaxTime + 1)
    BY <1>0, <2>1, SettingAssumption
  <2>3. CASE settings' = settings
    BY <1>0, <2>1, <2>2, <2>3, SettingFrame
  <2>4. CASE settings' # settings
    <3> DEFINE new == [settings EXCEPT !.ble = (MiscCounter = 1)]
    <3>1. settings' = new
      BY <1>5, <2>4 DEF Features
    <3>2. new \in Settings /\ new.name = settings.name /\ new.time = settings.time
      BY <1>0 DEF Settings
    <3>3. GoodTime(new) /\ GoodName(new)
      BY <1>0, <3>2 DEF GoodTime, GoodName
    <3> HIDE DEF new
    <3> QED
      BY <1>0, <2>1, <2>2, <3>1, <3>2, <3>3, SettingSaved
  <2> QED
    BY <2>3, <2>4
<1>6. CASE FactoryReset(t)
  <2>1. MiscCounter' = MiscCounter /\ AgentName' = AgentName /\ cur' \in {"main", "settings"}
    BY <1>6 DEF FactoryReset, menuVars, Then, SwitchTo
  <2>2. CASE UNCHANGED <<settings, saved>>
    BY <1>0, <2>1, <2>2, SettingFrame
  <2>3. CASE resetToFactory
    <3>1. PICK name \in {"none", saved.name}, rest \in {Defaults, saved} :
            /\ saved' = [rest EXCEPT !.name = name]
            /\ \E read \in {rest, settings}, named \in {settings.name} \cup ({name} \ {"none"}) :
                 settings' = [read EXCEPT !.name = named]
      BY <2>3 DEF resetToFactory
    <3>2. PICK read \in {rest, settings}, named \in {settings.name} \cup ({name} \ {"none"}) :
            settings' = [read EXCEPT !.name = named]
      BY <3>1
    <3>3. \A s \in {Defaults, saved, settings}, n \in {"none", settings.name, saved.name} :
            /\ [s EXCEPT !.name = n] \in Settings
            /\ [s EXCEPT !.name = n].name = n
            /\ [s EXCEPT !.name = n].time \in 1..MaxTime
      BY <1>0, SettingAssumption, DefaultsSound DEF Settings, FirstByte
    <3>4. /\ settings' \in Settings /\ GoodTime(settings') /\ GoodName(settings')
          /\ saved' \in Settings /\ GoodTime(saved') /\ GoodName(saved')
      BY <1>0, <3>1, <3>2, <3>3 DEF GoodTime, GoodName
    <3> QED
      BY <1>0, <2>1, <3>4 DEF SettingInv, SettingsSound
  <2> QED
    BY <1>6, <2>2, <2>3 DEF FactoryReset
<1> QED
  BY <1>1, <1>2, <1>3, <1>4, <1>5, <1>6

LEMMA SettingStays ==
  ASSUME SettingInv, Next
  PROVE  SettingInv'
<1>0. settings.name \in {"none", "letter"}
  BY DEF SettingInv, SettingsSound, GoodName
<1>1. CASE RunMain
  <2>1. PICK entry, next, q : /\ Then(next, q) /\ Inits(next, "main")
                              /\ next = Opens(entry) \/ next = "main"
    BY <1>1 DEF RunMain
  <2>2. cur' = next /\ SettingIdle(cur')
    BY <2>1 DEF Then, SwitchTo, Inits
  <2>3. cur' = "pairing" => settings.name = "letter"
    BY <1>0, <2>1, <2>2 DEF Opens
  <2> QED
    BY <2>2, <2>3, SettingEntered
<1>2. CASE RunMessage \/ Run3D \/ RunInfo \/ RunTest
  <2>1. PICK next, q : /\ Then(next, q) /\ next \in {"message", "main", "comm", "3d", "info", "test"}
                       /\ \/ Inits(next, "message") \/ Inits(next, "3d")
                          \/ Inits(next, "info") \/ Inits(next, "test")
    BY <1>2 DEF RunMessage, AfterMessage, Run3D, RunInfo, RunTest
  <2>2. SettingIdle(cur') /\ cur' # "pairing"
    BY <2>1 DEF Then, SwitchTo, Inits
  <2> QED
    BY <2>2, SettingEntered
<1>3. CASE RunElsewhere
  <2>1. cur # "settings" /\ \E next \in {cur, "message", "main"} : Then(next, queue) /\ Inits(next, cur)
    BY <1>3 DEF RunElsewhere
  <2>2. SettingIdle(cur') /\ cur' \in {cur, "message", "main"}
    BY <2>1 DEF Then, SwitchTo, Inits
  <2> QED
    BY <2>2, SettingEntered
<1>4. CASE RunTop
  <2>1. SettingIdle(cur') /\ cur' \in {"top", "main"}
    BY <1>4 DEF RunTop, Then, SwitchTo, Inits
  <2> QED
    BY <2>1, SettingEntered
<1>5. CASE RunSettingMenu
  BY <1>5, SettingsRun DEF RunSettingMenu
<1>6. CASE AskForUpdate
  <2>1. UNCHANGED <<settings, saved, MiscCounter, AgentName, cur>>
    BY <1>6 DEF AskForUpdate, AskForOta, menuVars
  <2> QED
    BY <2>1, SettingFrame DEF SettingInv
<1>7. CASE RunCalibrationMenu \/ RunGameOfLife \/ RunDrawingMenu
  <2>1. SettingIdle(cur')
    BY <1>7 DEF RunCalibrationMenu, RunGameOfLife, RunDrawingMenu, Inits
  <2>2. cur' # "pairing"
    BY <1>7 DEF RunCalibrationMenu, RunCalibration, RunGameOfLife, RunLife, RunDrawingMenu, RunDraw,
       Then, SwitchTo
  <2> QED
    BY <2>1, <2>2, SettingEntered
<1>8. CASE CheckScreenSaver
  <2>1. PICK next \in {"life", cur} : SwitchTo(next, queue) /\ Inits(next, "saver")
    BY <1>8 DEF CheckScreenSaver
  <2>2. SettingIdle(cur') /\ cur' \in {"life", cur}
    BY <2>1 DEF SwitchTo, Inits
  <2> QED
    BY <2>2, SettingEntered
<1>9. CASE TouchTask \/ Quiet
  <2>1. UNCHANGED <<settings, saved, MiscCounter, AgentName, cur>>
    BY <1>9 DEF TouchTask, Broadcast, Quiet, settingVars
  <2> QED
    BY <2>1, SettingFrame DEF SettingInv
<1>10. CASE PowerCycle \/ RestartWithFeatures
  <2>1. PICK s \in {saved, [settings EXCEPT !.name = saved.name, !.ble = (MiscCounter = 1)]} : StartWith(s)
    BY <1>10 DEF PowerCycle, RestartWithFeatures
  <2>2. s \in Settings /\ GoodTime(s) /\ GoodName(s)
    <3>1. s \in Settings /\ s.name = saved.name /\ s.time \in {saved.time, settings.time}
      BY DEF SettingInv, Settings
    <3> QED BY <3>1 DEF SettingInv, SettingsSound, GoodTime, GoodName
  <2>3. /\ settings' \in Loaded(s) /\ saved' = s
        /\ MiscCounter' = 0 /\ AgentName' = "none" /\ cur' = "main"
    BY <2>1 DEF StartWith
  <2>4. settings' \in Settings /\ GoodTime(settings') /\ GoodName(settings')
    BY <2>2, <2>3, LoadedSound
  <2>5. MiscCounter' \in 0..(MaxTime + 1)
    BY <2>3, SettingAssumption
  <2>6. AgentName' \in FirstByte
    BY <2>3 DEF FirstByte
  <2> QED
    BY <2>2, <2>3, <2>4, <2>5, <2>6 DEF SettingInv, SettingsSound
<1> QED
  BY <1>1, <1>2, <1>3, <1>4, <1>5, <1>6, <1>7, <1>8, <1>9, <1>10, Zenon DEF Next, MainTask

-----------------------------------------------------------------------------
(* The games of life. *)

\* The variables have their types, and the generation that makes seven without a change
\* is the last.
LifeInv == LifeTypeOK /\ (noChange > 6 => CurrentGeneration >= Generations)

LEMMA LifeEntered ==
  ASSUME LifeInv, LifeInit(cur')
  PROVE  LifeInv'
BY DEF LifeInv, LifeTypeOK, LifeInit, lifeVars, Cells

LEMMA LifeOnlyCells ==
  ASSUME NEW choice, GOL \subseteq Cells
  PROVE  life(choice) \subseteq Cells
BY DEF life

LEMMA GenerationKeeps ==
  ASSUME LifeInv, Generation
  PROVE  LifeInv'
<1> USE GenerationAssumption
<1>1. /\ InternalState' = "GAME" /\ GOL' \subseteq Cells /\ Neighborhood' \in {"m", "v"}
      /\ Generations' \in 0..MaxGenerations
  BY LifeOnlyCells DEF LifeInv, LifeTypeOK, Generation
<1>2. CurrentGeneration < Generations /\ noChange \in 0..6
  BY DEF LifeInv, LifeTypeOK, Generation
<1>3. /\ noChange' \in 0..7 /\ CurrentGeneration' \in 0..(MaxGenerations + 2)
      /\ noChange' > 6 => CurrentGeneration' >= Generations'
  <2>1. CASE GOL' = GOL
    BY <1>2, <2>1 DEF LifeInv, LifeTypeOK, Generation
  <2>2. CASE GOL' # GOL
    BY <1>2, <2>2 DEF LifeInv, LifeTypeOK, Generation
  <2> QED
    BY <2>1, <2>2
<1> QED
  BY <1>1, <1>3 DEF LifeInv, LifeTypeOK, Cells

LEMMA LifeRuns ==
  ASSUME LifeInv, RunLife
  PROVE  LifeInv'
<1>1. CASE initGame
  BY <1>1, GameAssumption, GenerationAssumption DEF initGame, LifeInv, LifeTypeOK, Cells
<1>2. CASE Announce \/ Wait \/ WaitEnds \/ GameOver
  BY <1>2 DEF Announce, Wait, WaitEnds, GameOver, lifeVars, LifeInv, LifeTypeOK, Cells
<1>3. CASE AllDead
  BY <1>3, GenerationAssumption DEF AllDead, LifeInv, LifeTypeOK, Cells
<1>4. CASE Generation
  BY <1>4, GenerationKeeps
<1> QED
  BY <1>1, <1>2, <1>3, <1>4 DEF RunLife, Play

\* Only the games themselves and a restart touch the state of the games.
LEMMA OthersLeaveLife ==
  ASSUME Next
  PROVE  \/ LifeInit(cur')
         \/ RunLife
         \/ LifeStart'
<1>1. CASE RunMain \/ RunMessage \/ RunElsewhere \/ Run3D \/ RunInfo \/ RunTest
  <2>1. PICK next, q, running : running # "life" /\ Then(next, q) /\ Inits(next, running)
    <3>1. CASE RunMain
      BY <3>1 DEF RunMain
    <3>2. CASE RunMessage
      BY <3>2 DEF RunMessage
    <3>3. CASE RunElsewhere
      BY <3>3 DEF RunElsewhere
    <3>4. CASE Run3D
      BY <3>4 DEF Run3D
    <3>5. CASE RunInfo \/ RunTest
      BY <3>5 DEF RunInfo, RunTest
    <3> QED
      BY <1>1, <3>1, <3>2, <3>3, <3>4, <3>5
  <2> QED
    BY <2>1 DEF Then, SwitchTo, Inits
<1>2. CASE RunTop \/ RunCalibrationMenu \/ RunDrawingMenu
  BY <1>2 DEF RunTop, RunCalibrationMenu, RunDrawingMenu, Inits
<1>3. CASE RunSettingMenu \/ RunGameOfLife
  BY <1>3 DEF RunSettingMenu, RunGameOfLife
<1>4. CASE AskForUpdate \/ TouchTask \/ Quiet
  <2>1. cur' = cur /\ UNCHANGED lifeVars
    BY <1>4 DEF AskForUpdate, AskForOta, TouchTask, Broadcast, Quiet
  <2> QED
    BY <2>1 DEF LifeInit
<1>5. CASE CheckScreenSaver
  <2>1. PICK next : SwitchTo(next, queue) /\ Inits(next, "saver")
    BY <1>5 DEF CheckScreenSaver
  <2> QED
    BY <2>1 DEF SwitchTo, Inits
<1>6. CASE PowerCycle \/ RestartWithFeatures
  BY <1>6 DEF PowerCycle, RestartWithFeatures, StartWith, LifeStart
<1> QED
  BY <1>1, <1>2, <1>3, <1>4, <1>5, <1>6, Zenon DEF Next, MainTask

LEMMA LifeBegins ==
  ASSUME LifeStart
  PROVE  LifeInv
BY GenerationAssumption DEF LifeStart, LifeInv, LifeTypeOK

LEMMA LifeInvariance == Spec => []LifeInv
<1>1. Init => LifeInv
  BY LifeBegins DEF Init
<1>2. LifeInv /\ [Next]_vars => LifeInv'
  <2> SUFFICES ASSUME LifeInv, [Next]_vars PROVE LifeInv'
    OBVIOUS
  <2>1. CASE Next
    <3>1. LifeStart' => LifeInv'
      BY LifeBegins, PTL
    <3> QED
      BY <2>1, <3>1, OthersLeaveLife, LifeEntered, LifeRuns
  <2>2. CASE UNCHANGED vars
    BY <2>2 DEF vars, lifeVars, LifeInv, LifeTypeOK, Cells
  <2> QED
    BY <2>1, <2>2
<1> QED
  BY <1>1, <1>2, PTL DEF Spec

-----------------------------------------------------------------------------
(* Where a cell is.  The division is taken apart once; what follows is about  *)
(* rows and columns.                                                          *)

LEMMA RowAndColumn ==
  ASSUME NEW c \in Nat
  PROVE  /\ X(c) \in Nat /\ X(c) < width
         /\ Y(c) \in Nat
         /\ c = width * Y(c) + X(c)
<1> USE GridAssumption
<1>1. c % width \in Int /\ c % width >= 0
  BY SMT
<1>2. c % width < width
  BY SMT
<1>3. c \div width \in Int
  BY SMT
<1>4. c = width * (c \div width) + (c % width)
  BY SMT
<1>5. c \div width >= 0
  BY SMT
<1> QED
  BY <1>1, <1>2, <1>3, <1>4, <1>5 DEF X, Y

\* No cell is in two places.
LEMMA OnePlace ==
  ASSUME NEW a \in Int, NEW a2 \in Int, NEW b \in Nat, NEW b2 \in Nat,
         b < width, b2 < width, width * a + b = width * a2 + b2
  PROVE  a = a2 /\ b = b2
<1> USE GridAssumption
<1>1. width * (a - a2) = b2 - b
  OBVIOUS
<1>2. ~(a - a2 >= 1)
  <2> SUFFICES ASSUME a - a2 >= 1 PROVE FALSE
    OBVIOUS
  <2>1. width * (a - a2) >= width * 1
    OBVIOUS
  <2> QED
    BY <1>1, <2>1
<1>3. ~(a - a2 <= -1)
  <2> SUFFICES ASSUME a2 - a >= 1 PROVE FALSE
    OBVIOUS
  <2>1. width * (a2 - a) >= width * 1
    OBVIOUS
  <2>2. width * (a2 - a) = b - b2
    BY <1>1
  <2> QED
    BY <2>1, <2>2
<1>4. a = a2
  BY <1>2, <1>3
<1> QED
  BY <1>1, <1>4

\* The numbers before and behind, above and below an inner cell are the cells of the
\* square around it.
LEMMA Around ==
  ASSUME NEW c \in Inner, NEW d \in Cells
  PROVE  /\ d \in Looked(c, "m") <=> Beside(c, d)
         /\ d \in Looked(c, "v") <=> Beside(c, d) /\ Straight(c, d)
<1> DEFINE x == X(c)  y == Y(c)  u == X(d)  v == Y(d)
<1> USE GridAssumption
<1>1. c \in Nat /\ d \in Nat
  BY DEF Inner, Cells
<1>2. /\ x \in Nat /\ y \in Nat /\ c = width * y + x
      /\ u \in Nat /\ v \in Nat /\ d = width * v + u /\ u < width
      /\ x \in 1..(width - 2) /\ y \in 1..(height - 2)
  BY <1>1, RowAndColumn DEF Inner
<1> HIDE DEF x, y, u, v
<1>3. ASSUME NEW i \in {-1, 0, 1}, NEW j \in {-1, 0, 1}
      PROVE  d = width * (y + i) + (x + j) <=> v = y + i /\ u = x + j
  <2>1. ASSUME d = width * (y + i) + (x + j) PROVE v = y + i /\ u = x + j
    <3>1. y + i \in Int /\ x + j \in Nat /\ x + j < width
      BY <1>2
    <3>2. width * v + u = width * (y + i) + (x + j)
      BY <1>2, <2>1
    <3> QED
      BY <1>2, <3>1, <3>2, OnePlace
  <2> QED
    BY <1>2, <2>1
<1>4. /\ width * (y - 1) = width * y - width
      /\ width * (y + 1) = width * y + width
      /\ width * y \in Int
  BY <1>2
<1>5. /\ d = c - width <=> v = y - 1 /\ u = x
      /\ d = c + width <=> v = y + 1 /\ u = x
      /\ d = c - 1 <=> v = y /\ u = x - 1
      /\ d = c + 1 <=> v = y /\ u = x + 1
      /\ d = c - width - 1 <=> v = y - 1 /\ u = x - 1
      /\ d = c + width - 1 <=> v = y + 1 /\ u = x - 1
      /\ d = c - width + 1 <=> v = y - 1 /\ u = x + 1
      /\ d = c + width + 1 <=> v = y + 1 /\ u = x + 1
      /\ d = c <=> v = y /\ u = x
  <2>1. \A i, j \in {-1, 0, 1} : d = width * (y + i) + (x + j) <=> v = y + i /\ u = x + j
    BY <1>3
  <2>2. d = width * (y + (-1)) + (x + 0) <=> v = y + (-1) /\ u = x + 0
    BY <2>1
  <2>3. d = width * (y + 1) + (x + 0) <=> v = y + 1 /\ u = x + 0
    BY <2>1
  <2>4. d = width * (y + 0) + (x + (-1)) <=> v = y + 0 /\ u = x + (-1)
    BY <2>1
  <2>5. d = width * (y + 0) + (x + 1) <=> v = y + 0 /\ u = x + 1
    BY <2>1
  <2>6. d = width * (y + (-1)) + (x + (-1)) <=> v = y + (-1) /\ u = x + (-1)
    BY <2>1
  <2>7. d = width * (y + 1) + (x + (-1)) <=> v = y + 1 /\ u = x + (-1)
    BY <2>1
  <2>8. d = width * (y + (-1)) + (x + 1) <=> v = y + (-1) /\ u = x + 1
    BY <2>1
  <2>9. d = width * (y + 1) + (x + 1) <=> v = y + 1 /\ u = x + 1
    BY <2>1
  <2>10. d = width * (y + 0) + (x + 0) <=> v = y + 0 /\ u = x + 0
    BY <2>1
  <2> QED
    BY <1>2, <1>4, <2>2, <2>3, <2>4, <2>5, <2>6, <2>7, <2>8, <2>9, <2>10
<1>6. x > 0 /\ x < width - 1
  BY <1>2
<1>7. d \in Looked(c, "m") <=>
        \/ d = c - width \/ d = c + width \/ d = c - 1 \/ d = c + 1
        \/ d = c - width - 1 \/ d = c + width - 1 \/ d = c - width + 1 \/ d = c + width + 1
  BY <1>6 DEF Looked, x
<1>8. d \in Looked(c, "v") <=> d = c - width \/ d = c + width \/ d = c - 1 \/ d = c + 1
  BY DEF Looked
<1>9. Beside(c, d) <=> x - u \in -1..1 /\ y - v \in -1..1 /\ ~(v = y /\ u = x)
  BY <1>5 DEF Beside, x, y, u, v
<1>10. Straight(c, d) <=> x = u \/ y = v
  BY DEF Straight, x, y, u, v
<1>11. x - u \in -1..1 <=> u = x - 1 \/ u = x \/ u = x + 1
  BY <1>2
<1>12. y - v \in -1..1 <=> v = y - 1 \/ v = y \/ v = y + 1
  BY <1>2
<1>13. d \in Looked(c, "m") <=> Beside(c, d)
  BY <1>2, <1>5, <1>7, <1>9, <1>11, <1>12
<1>14. d \in Looked(c, "v") <=> Beside(c, d) /\ Straight(c, d)
  BY <1>2, <1>5, <1>8, <1>9, <1>10, <1>11, <1>12
<1> QED
  BY <1>13, <1>14

\* A generation counts for an inner cell what the rule of the game counts.
LEMMA GenerationByRule ==
  ASSUME LifeInv, Generation, NEW c \in Inner
  PROVE  ByTheRule(c)
<1> DEFINE around == {d \in Cells : Beside(c, d) /\ (Neighborhood = "v" => Straight(c, d))}
           count == Cardinality(around \cap GOL)
<1>1. GOL \subseteq Cells /\ Neighborhood \in {"m", "v"}
  BY DEF LifeInv, LifeTypeOK
<1>2. \A d \in Cells : d \in Looked(c, Neighborhood) <=> d \in around
  BY <1>1, Around
<1>3. Looked(c, Neighborhood) \cap GOL = around \cap GOL
  BY <1>1, <1>2
<1>4. c \in GOL' <=> count = 3 \/ (c \in GOL /\ count = 2)
  <2> HIDE DEF around
  <2>1. c \in Cells /\ Y(c) \in 1..(height - 2)
    BY DEF Inner
  <2>2. GOL' = life(Neighborhood)
    BY DEF Generation
  <2> QED
    BY <1>3, <2>1, <2>2 DEF life
<1> QED
  BY <1>4 DEF ByTheRule

LEMMA StepByRule ==
  ASSUME LifeInv, Next, InternalState' = "GAME", CurrentGeneration' > CurrentGeneration
  PROVE  \A c \in Inner : ByTheRule(c)
<1>1. CurrentGeneration \in Nat
  BY GenerationAssumption DEF LifeInv, LifeTypeOK
<1>2. ~(CurrentGeneration' = CurrentGeneration) /\ ~(CurrentGeneration' = 0)
  BY <1>1
<1>3. RunLife
  BY <1>2, OthersLeaveLife DEF LifeInit, LifeStart, lifeVars
<1>4. Generation
  BY <1>2, <1>3 DEF RunLife, Play, initGame, Announce, Wait, WaitEnds, GameOver, AllDead, lifeVars
<1> QED
  BY <1>4, GenerationByRule

-----------------------------------------------------------------------------
(* Types. *)

Queues == [Observing -> 0..QUEUE_SIZE]

LEMMA TakenTypes ==
  ASSUME GuiTypeOK, NEW m \in Observing
  PROVE  Taken(m) \in Queues
<1>1. queue[m] \in 0..QUEUE_SIZE
  BY DEF GuiTypeOK
<1>2. (IF queue[m] > 0 THEN queue[m] - 1 ELSE 0) \in 0..QUEUE_SIZE
  BY <1>1, QueueAssumption
<1> QED
  BY <1>2 DEF GuiTypeOK, Taken, Queues

LEMMA SwitchTypes ==
  ASSUME GuiTypeOK, NEW next \in Menu, NEW q \in Queues, SwitchTo(next, q)
  PROVE  cur' \in Menu /\ observers' \subseteq Observing /\ queue' \in Queues
<1>1. cur' \in Menu /\ observers' \subseteq Observing
  BY DEF GuiTypeOK, SwitchTo, Leaves
<1>2. ASSUME next \in Observing
      PROVE  [q EXCEPT ![next] = Emptied(next, @)] \in Queues
  <2>1. q[next] \in 0..QUEUE_SIZE
    BY <1>2 DEF Queues
  <2>2. Emptied(next, q[next]) \in 0..QUEUE_SIZE
    BY <2>1, QueueAssumption DEF Emptied, AllButTwo
  <2> QED
    BY <2>2 DEF Queues
<1>3. queue' \in Queues
  BY <1>2 DEF SwitchTo
<1> QED
  BY <1>1, <1>3

LEMMA ThenTypes ==
  ASSUME GuiTypeOK, NEW m, Run(m), NEW next \in Menu, NEW q \in Queues, Then(next, q)
  PROVE  GuiTypeOK'
<1>1. cur' \in Menu /\ observers' \subseteq Observing /\ queue' \in Queues
  BY SwitchTypes DEF Then
<1>2. ButtonState' \in Presses /\ buttonsLeft' \in BOOLEAN /\ checking' \in BOOLEAN
        /\ UNCHANGED <<tour, screenLeft>>
  BY DEF Run, Sample, Then
<1> QED
  BY <1>1, <1>2 DEF GuiTypeOK, Queues

LEMMA GuiStays ==
  ASSUME GuiTypeOK, Next
  PROVE  GuiTypeOK'
<1>0. queue \in Queues /\ cur \in Menu
  BY DEF GuiTypeOK, Queues
<1>1. CASE RunMain \/ RunInfo \/ RunTest \/ RunTop
  <2>1. /\ Taken("main") \in Queues /\ Taken("info") \in Queues
        /\ Taken("test") \in Queues /\ Taken("top") \in Queues
    BY TakenTypes DEF Observing
  <2>2. \A entry \in Entries : Opens(entry) \in Menu
    BY DEF Opens, Entries, Menu, Observing
  <2>3. CASE RunMain
    <3>1. PICK next \in Menu : Run("main") /\ Then(next, Taken("main"))
      BY <2>2, <2>3 DEF RunMain, Menu, Observing
    <3> QED
      BY <2>1, <3>1, ThenTypes
  <2>4. CASE RunInfo
    <3>1. PICK next \in Menu : Run("info") /\ Then(next, Taken("info"))
      BY <2>4 DEF RunInfo, Menu, Observing
    <3> QED
      BY <2>1, <3>1, ThenTypes
  <2>5. CASE RunTest
    <3>1. PICK next \in Menu : Run("test") /\ Then(next, Taken("test"))
      BY <2>5 DEF RunTest, Menu, Observing
    <3> QED
      BY <2>1, <3>1, ThenTypes
  <2>6. CASE RunTop
    <3>1. PICK next \in Menu : Run("top") /\ Then(next, Taken("top"))
      BY <2>6 DEF RunTop, Menu, Observing
    <3> QED
      BY <2>1, <3>1, ThenTypes
  <2> QED
    BY <1>1, <2>3, <2>4, <2>5, <2>6
<1>2. CASE RunMessage \/ RunElsewhere \/ Run3D \/ RunGameOfLife
  <2>1. PICK m, next \in Menu : Run(m) /\ Then(next, queue)
    BY <1>0, <1>2 DEF RunMessage, AfterMessage, RunElsewhere, Run3D, RunGameOfLife, RunLife, Menu, Observing
  <2> QED
    BY <1>0, <2>1, ThenTypes
<1>3. CASE RunSettingMenu
  <2>1. PICK t \in Touch :
          ChooseItem(t) \/ SetAgentName(t) \/ SetSaverTime(t) \/ Features(t) \/ FactoryReset(t)
    BY <1>3 DEF RunSettingMenu, RunSettings
  <2>2. PICK next \in Menu : Then(next, Taken("settings"))
    BY <2>1 DEF ChooseItem, SetAgentName, SetSaverTime, Features, FactoryReset, Menu, Observing
  <2>3. Run("settings") /\ Taken("settings") \in Queues
    BY <1>3, TakenTypes DEF RunSettingMenu, RunSettings, Observing
  <2> QED
    BY <2>2, <2>3, ThenTypes
<1>4. CASE AskForUpdate
  <2>1. Taken("settings") \in Queues
    BY TakenTypes DEF Observing
  <2>2. Run("settings") /\ queue' = Taken("settings") /\ UNCHANGED <<tour, cur, observers, screenLeft, checking>>
    BY <1>4 DEF AskForUpdate, AskForOta
  <2> QED
    BY <2>1, <2>2 DEF GuiTypeOK, Queues, Run, Sample
<1>5. CASE RunCalibrationMenu
  <2>1. PICK next \in Menu : Run("calibration") /\ Then(next, Taken("calibration"))
    BY <1>5 DEF RunCalibrationMenu, RunCalibration, Menu, Observing
  <2>2. Taken("calibration") \in Queues
    BY TakenTypes DEF Observing
  <2> QED
    BY <2>1, <2>2, ThenTypes
<1>6. CASE RunDrawingMenu
  <2>1. PICK next \in Menu : Run("draw") /\ Then(next, [queue EXCEPT !["draw"] = 0])
    BY <1>6 DEF RunDrawingMenu, RunDraw, Menu, Observing
  <2>2. [queue EXCEPT !["draw"] = 0] \in Queues
    <3>1. 0 \in 0..QUEUE_SIZE
      BY QueueAssumption
    <3> QED
      BY <1>0, <3>1 DEF Queues
  <2> QED
    BY <2>1, <2>2, ThenTypes
<1>7. CASE CheckScreenSaver
  <2>1. PICK next \in Menu : SwitchTo(next, queue)
    BY <1>0, <1>7 DEF CheckScreenSaver, Menu
  <2>2. cur' \in Menu /\ observers' \subseteq Observing /\ queue' \in Queues
    BY <1>0, <2>1, SwitchTypes
  <2> QED
    BY <1>7, <2>2 DEF CheckScreenSaver, GuiTypeOK, Queues
<1>8. CASE TouchTask
  <2>1. PICK m \in observers :
          queue[m] < QUEUE_SIZE /\ queue' = [queue EXCEPT ![m] = @ + 1]
    BY <1>8 DEF TouchTask, Broadcast
  <2>2. m \in Observing /\ queue[m] + 1 \in 0..QUEUE_SIZE
    BY <1>0, <2>1, QueueAssumption DEF GuiTypeOK
  <2>3. queue' \in Queues
    BY <1>0, <2>1, <2>2 DEF Queues
  <2> QED
    BY <1>8, <2>3 DEF TouchTask, Broadcast, GuiTypeOK, Queues
<1>9. CASE Quiet
  BY <1>9 DEF Quiet, GuiTypeOK
<1>10. CASE PowerCycle \/ RestartWithFeatures
  <2>1. PICK s : StartWith(s)
    BY <1>10 DEF PowerCycle, RestartWithFeatures
  <2>2. queue' \in Queues
    BY <2>1, QueueAssumption DEF StartWith, Queues
  <2>3. cur' \in Menu /\ observers' \subseteq Observing /\ ButtonState' \in Presses
    BY <2>1, PressAssumption DEF StartWith, Menu, Observing
  <2> QED
    BY <2>1, <2>2, <2>3 DEF StartWith, GuiTypeOK, Queues
<1> QED
  BY <1>1, <1>2, <1>3, <1>4, <1>5, <1>6, <1>7, <1>8, <1>9, <1>10, Zenon DEF Next, MainTask

\* In each step one menu runs and the others are entered or left alone, or the badge starts.
LEMMA WhoRuns ==
  ASSUME Next
  PROVE  \/ \E running : /\ running \notin {"settings", "calibration", "life", "draw", "top"}
                         /\ Inits(cur', running)
         \/ RunTop /\ Inits(cur', "top")
         \/ RunSettingMenu \/ AskForUpdate
         \/ RunCalibrationMenu \/ RunGameOfLife \/ RunDrawingMenu
         \/ UNCHANGED <<settingVars, calibrationVars, drawVars, topVars>>
         \/ \E s \in {saved, [settings EXCEPT !.name = saved.name, !.ble = (MiscCounter = 1)]} : StartWith(s)
<1>1. CASE RunMain \/ RunMessage \/ Run3D \/ RunInfo \/ RunTest
  <2>1. PICK next, q, running :
          /\ running \in {"main", "message", "3d", "info", "test"}
          /\ Then(next, q) /\ Inits(next, running)
    <3>1. CASE RunMain
      BY <3>1 DEF RunMain
    <3>2. CASE RunMessage
      BY <3>2 DEF RunMessage
    <3>3. CASE Run3D
      BY <3>3 DEF Run3D
    <3>4. CASE RunInfo
      BY <3>4 DEF RunInfo
    <3>5. CASE RunTest
      BY <3>5 DEF RunTest
    <3> QED
      BY <1>1, <3>1, <3>2, <3>3, <3>4, <3>5
  <2>2. cur' = next
    BY <2>1 DEF Then, SwitchTo
  <2> QED
    BY <2>1, <2>2
<1>2. CASE RunElsewhere
  <2>1. PICK next : Then(next, queue) /\ Inits(next, cur) /\ cur \in {"pairing", "comm"}
    BY <1>2 DEF RunElsewhere
  <2>2. cur' = next
    BY <2>1 DEF Then, SwitchTo
  <2> QED
    BY <2>1, <2>2
<1>3. CASE RunTop
  BY <1>3 DEF RunTop
<1>4. CASE CheckScreenSaver
  <2>1. PICK next : SwitchTo(next, queue) /\ Inits(next, "saver")
    BY <1>4 DEF CheckScreenSaver
  <2>2. cur' = next
    BY <2>1 DEF SwitchTo
  <2> QED
    BY <2>1, <2>2
<1>5. CASE TouchTask \/ Quiet
  BY <1>5 DEF TouchTask, Quiet
<1>6. CASE PowerCycle \/ RestartWithFeatures
  BY <1>6 DEF PowerCycle, RestartWithFeatures
<1> QED
  BY <1>1, <1>2, <1>3, <1>4, <1>5, <1>6, Zenon DEF Next, MainTask

\* Which item is set, what has been entered and the cursor keep their types.
ItemTypes ==
  /\ SubState \in {0} \cup 100..104
  /\ CurrentPos \in 0..(AGENT_NAME_LENGTH - 1)
  /\ CursorPos \in 0..SizeOfKeyboard
  /\ do_ota \in BOOLEAN

LEMMA ItemsEntered ==
  ASSUME ItemTypes, SettingIdle(cur')
  PROVE  ItemTypes'
BY SettingAssumption DEF ItemTypes, SettingIdle, SettingInit, menuVars

LEMMA ItemsRun ==
  ASSUME ItemTypes, RunSettings
  PROVE  ItemTypes'
<1> USE SettingAssumption DEF ItemTypes
<1>1. PICK t \in Touch :
        ChooseItem(t) \/ SetAgentName(t) \/ SetSaverTime(t) \/ Features(t) \/ FactoryReset(t)
  BY DEF RunSettings
<1>2. CASE ChooseItem(t)
  <2>1. CurrentPos' = CurrentPos /\ CursorPos' \in {0, CursorPos} /\ do_ota' = do_ota
    BY <1>2 DEF ChooseItem, InitKeyboard, settingVars
  <2>2. SubState' = SubState \/ \E item \in Items : SubState' = SubStateOf(item)
    BY <1>2 DEF ChooseItem, settingVars
  <2>3. \A item \in Items : SubStateOf(item) \in 100..104
    BY DEF Items, SubStateOf
  <2> QED
    BY <2>1, <2>2, <2>3
<1>3. CASE SetAgentName(t)
  <2>1. UNCHANGED <<SubState, do_ota>>
    BY <1>3 DEF SetAgentName
  <2>2. /\ \/ CurrentPos' = CurrentPos
           \/ CurrentPos < AGENT_NAME_LENGTH - 1 /\ CurrentPos' = CurrentPos + 1
        /\ \/ CursorPos' \in {CursorPos, 0, SizeOfKeyboard - 1}
           \/ CursorPos # 0 /\ CursorPos' = CursorPos - 1
           \/ CursorPos < SizeOfKeyboard /\ CursorPos' = CursorPos + 1
    BY <1>3, Zenon DEF SetAgentName, Process, addChar
  <2>3. CurrentPos' \in 0..(AGENT_NAME_LENGTH - 1) /\ CursorPos' \in 0..SizeOfKeyboard
    BY <2>2
  <2> QED
    BY <2>1, <2>2, <2>3
<1>4. CASE SetSaverTime(t) \/ Features(t) \/ FactoryReset(t)
  BY <1>4 DEF SetSaverTime, Features, FactoryReset, menuVars
<1> QED
  BY <1>1, <1>2, <1>3, <1>4

LEMMA ItemsStay ==
  ASSUME ItemTypes, Next
  PROVE  ItemTypes'
<1>1. CASE \E running : /\ running \notin {"settings", "calibration", "life", "draw", "top"}
                        /\ Inits(cur', running)
  BY <1>1, ItemsEntered DEF Inits
<1>2. CASE \/ RunTop /\ Inits(cur', "top")
           \/ RunCalibrationMenu \/ RunGameOfLife \/ RunDrawingMenu
  BY <1>2, ItemsEntered DEF RunCalibrationMenu, RunGameOfLife, RunDrawingMenu, Inits
<1>3. CASE RunSettingMenu
  BY <1>3, ItemsRun DEF RunSettingMenu
<1>4. CASE AskForUpdate
  BY <1>4 DEF AskForUpdate, AskForOta, menuVars, ItemTypes
<1>5. CASE UNCHANGED settingVars
  BY <1>5 DEF settingVars, ItemTypes
<1>6. CASE \E s : StartWith(s)
  <2>1. SubState' = 0 /\ CurrentPos' = 0 /\ CursorPos' = 0
    BY <1>6 DEF StartWith
  <2>2. do_ota' \in BOOLEAN
    BY <1>6, Zenon DEF StartWith
  <2> QED
    BY <2>1, <2>2, SettingAssumption DEF ItemTypes
<1> QED
  BY <1>1, <1>2, <1>3, <1>4, <1>5, <1>6, WhoRuns

\* A point is of a visit, or stale.
LEMMA PointsStay ==
  ASSUME CalibrationInv, CalibrationLocations \in Points, Next
  PROVE  CalibrationLocations' \in Points
<1>0. visit \in 0..Stale /\ Stale \in 0..Stale
  BY CalibrationAssumption DEF CalibrationInv, Stale
<1>1. CASE UNCHANGED CalibrationLocations
  BY <1>1 DEF Points
<1>2. CASE RunCalibrationMenu
  <2>1. PICK t : TakePoint(t)
    BY <1>2 DEF RunCalibrationMenu, RunCalibration
  <2>2. Point \in 0..Stale
    BY <1>0 DEF Point
  <2> QED
    BY <2>1, <2>2 DEF TakePoint, Points
<1>3. CASE initNVS
  <2>1. PICK v \in 0..MaxVisits : CalibrationLocations' = AllOf(v)
    BY <1>3 DEF initNVS, CalibrationInv
  <2>2. v \in 0..Stale
    BY CalibrationAssumption DEF Stale
  <2> QED
    BY <2>1, <2>2 DEF AllOf, Points
<1>4. CASE CalibrationInit(cur')
  BY <1>1, <1>4 DEF CalibrationInit, calibrationVars
<1>5. CASE AskForUpdate \/ UNCHANGED calibrationVars
  BY <1>1, <1>5 DEF AskForUpdate, calibrationVars
<1> QED
  BY <1>2, <1>3, <1>4, <1>5, WhoRuns DEF Inits, RunSettingMenu, RunGameOfLife, RunDrawingMenu, StartWith

LEMMA CalibrationTyped ==
  ASSUME CalibrationInv, CalibrationLocations \in Points
  PROVE  CalibrationTypeOK
<1>1. PICK v \in 0..MaxVisits : caldata = AllOf(v) /\ inUse = Corners(AllOf(v))
  BY DEF CalibrationInv
<1>2. v \in 0..Stale
  BY CalibrationAssumption DEF Stale
<1>3. caldata \in Points
  BY <1>1, <1>2 DEF AllOf, Points
<1>4. inUse = [n \in 1..(TOTAL - 1) |-> v]
  BY <1>1, CalibrationAssumption DEF Corners, AllOf
<1>5. \A n \in 1..(TOTAL - 1) : n \in 0..(TOTAL - 1) /\ n # 0
  BY CalibrationAssumption
<1>6. inUse = Corners([n \in 0..(TOTAL - 1) |-> IF n = 0 THEN Factory ELSE inUse[n]])
  BY <1>4, <1>5 DEF Corners
<1>7. CurrentIndex \in 0..TOTAL /\ visit \in 0..MaxVisits /\ stale \in 0..QUEUE_SIZE
  BY QueueAssumption DEF CalibrationInv
<1> QED
  BY <1>3, <1>6, <1>7 DEF CalibrationInv, CalibrationTypeOK

\* Colors are counted modulo their number, however many touches of a run change them.
LEMMA DrawRuns ==
  ASSUME DrawTypeOK, GuiTypeOK, RunDraw
  PROVE  DrawTypeOK'
<1>1. PICK kinds \in [1..queue["draw"] -> Virtual], step \in {0, NextColor} :
        /\ s1' \in Stored(kinds)
        /\ ColorIndex' = (Colored(kinds) + step) % MAX_COLORS
  BY DEF RunDraw
<1>2. s1' \in BOOLEAN
  BY <1>1 DEF Stored, DrawTypeOK
<1>3. queue["draw"] \in Nat
  BY QueueAssumption DEF GuiTypeOK, Observing
<1>4. Cardinality({n \in DOMAIN kinds : kinds[n] = "color"}) \in Nat
  <2>1. IsFiniteSet(1..queue["draw"])
    BY <1>3, FS_Interval
  <2>2. {n \in DOMAIN kinds : kinds[n] = "color"} \subseteq 1..queue["draw"]
    OBVIOUS
  <2> QED
    BY <2>1, <2>2, FS_Subset, FS_CardinalityType
<1>5. Colored(kinds) + step \in Nat
  BY <1>1, <1>4, ColorAssumption DEF Colored, NextColor, DrawTypeOK
<1>6. ColorIndex' \in 0..(MAX_COLORS - 1)
  BY <1>1, <1>5, ColorAssumption
<1> QED
  BY <1>2, <1>6 DEF DrawTypeOK

LEMMA DrawStays ==
  ASSUME DrawTypeOK, GuiTypeOK, Next
  PROVE  DrawTypeOK'
<1>1. CASE RunDrawingMenu
  BY <1>1, DrawRuns DEF RunDrawingMenu
<1>2. CASE DrawInit(cur') \/ clearStorage \/ UNCHANGED drawVars
  <2>1. ColorIndex' \in {0, ColorIndex}
    BY <1>2 DEF DrawInit, clearStorage, drawVars
  <2>2. s1' \in BOOLEAN
    BY <1>2, Zenon DEF DrawInit, clearStorage, drawVars, DrawTypeOK
  <2> QED
    BY <2>1, <2>2, ColorAssumption DEF DrawTypeOK
<1>3. CASE \E s : StartWith(s)
  <2>1. ColorIndex' = 0 /\ s1' = s1
    BY <1>3 DEF StartWith
  <2> QED
    BY <2>1, ColorAssumption DEF DrawTypeOK
<1> QED
  BY <1>1, <1>2, <1>3, WhoRuns DEF Inits, RunSettingMenu, AskForUpdate, RunCalibrationMenu, RunGameOfLife

TopTypeOK == found \in 0..MaxRows /\ eyes \in BOOLEAN /\ written \in BOOLEAN

LEMMA TopStays ==
  ASSUME TopTypeOK, Next
  PROVE  TopTypeOK'
<1>1. CASE RunTop
  BY <1>1 DEF RunTop, TopTypeOK
<1>2. CASE TopInit(cur') \/ UNCHANGED topVars
  <2>1. found' \in 0..MaxRows
    BY <1>2 DEF TopInit, topVars, TopTypeOK
  <2>2. eyes' \in BOOLEAN
    <3>1. (found' > 0) \in BOOLEAN
      OBVIOUS
    <3> QED
      BY <1>2, <3>1, Zenon DEF TopInit, topVars, TopTypeOK
  <2>3. written' \in BOOLEAN
    BY <1>2, Zenon DEF TopInit, topVars, TopTypeOK
  <2> QED
    BY <2>1, <2>2, <2>3 DEF TopTypeOK
<1>3. CASE \E s : StartWith(s)
  <2>1. found' = 0
    BY <1>3 DEF StartWith
  <2>2. eyes' \in BOOLEAN /\ written' \in BOOLEAN
    BY <1>3, Zenon DEF StartWith
  <2> QED
    BY <2>1, <2>2, MaxRowsAssumption DEF TopTypeOK
<1> QED
  BY <1>1, <1>2, <1>3, WhoRuns DEF Inits, RunSettingMenu, AskForUpdate, RunCalibrationMenu,
     RunGameOfLife, RunDrawingMenu

-----------------------------------------------------------------------------
LEMMA InitIInv == Init => IInv
<1> SUFFICES ASSUME Init PROVE IInv
  OBVIOUS
<1>1. OnlyCurrentObserves
  BY DEF Init, OnlyCurrentObserves, Observing
<1>2. CalibrationInv
  BY CalibrationAssumption DEF Init, CalibrationStart, CalibrationInv, Taking, AllOf, Factory
<1>3. SettingInv
  BY SettingAssumption DEF Init, SettingStart, SettingInv, SettingsSound, GoodTime, GoodName, Defaults,
     Settings, FirstByte
<1> QED
  BY <1>1, <1>2, <1>3 DEF IInv

LEMMA NextIInv == IInv /\ [Next]_vars => IInv'
<1> SUFFICES ASSUME IInv, [Next]_vars PROVE IInv'
  OBVIOUS
<1>1. CASE Next
  BY <1>1, ObserversStay, CalibrationStays, SettingStays DEF IInv
<1>2. CASE UNCHANGED vars
  <2>1. OnlyCurrentObserves'
    BY <1>2 DEF vars, guiVars, IInv, OnlyCurrentObserves
  <2>2. CalibrationInv'
    BY <1>2 DEF vars, guiVars, calibrationVars, IInv, CalibrationInv, Taking, Corners, AllOf
  <2>3. SettingInv'
    BY <1>2 DEF vars, guiVars, settingVars, IInv, SettingInv, SettingsSound, GoodTime, GoodName
  <2> QED
    BY <2>1, <2>2, <2>3 DEF IInv
<1> QED
  BY <1>1, <1>2

LEMMA Invariance == Spec => []IInv
BY InitIInv, NextIInv, PTL DEF Spec

\* What the type invariant needs beside the others.
TypeInv ==
  /\ GuiTypeOK /\ ItemTypes /\ CalibrationLocations \in Points /\ DrawTypeOK /\ TopTypeOK

LEMMA InitTypeInv == Init => TypeInv
<1> SUFFICES ASSUME Init PROVE TypeInv
  OBVIOUS
<1>1. GuiTypeOK
  <2>1. queue \in [Observing -> 0..QUEUE_SIZE]
    BY QueueAssumption DEF Init
  <2>2. tour \in Tours /\ cur \in Menu /\ observers \subseteq Observing /\ ButtonState \in Presses
    BY PressAssumption DEF Init, Menu, Observing
  <2>3. buttonsLeft \in BOOLEAN /\ checking \in BOOLEAN
    BY Zenon DEF Init
  <2>4. screenLeft \in {"recent", "long", "after"}
    BY Zenon DEF Init
  <2> QED
    BY <2>1, <2>2, <2>3, <2>4 DEF GuiTypeOK
<1>2. ItemTypes
  <2>1. SubState = 0 /\ CurrentPos = 0 /\ CursorPos = 0
    BY DEF Init, SettingStart
  <2>2. do_ota \in BOOLEAN
    BY Zenon DEF Init, SettingStart
  <2> QED
    BY <2>1, <2>2, SettingAssumption DEF ItemTypes
<1>3. CalibrationLocations \in Points
  BY CalibrationAssumption DEF Init, CalibrationStart, AllOf, Factory, Points, Stale
<1>4. DrawTypeOK
  <2>1. s1 \in BOOLEAN
    BY Zenon DEF Init, DrawStart
  <2> QED
    BY <2>1, ColorAssumption DEF Init, DrawStart, DrawTypeOK
<1>5. TopTypeOK
  <2>1. eyes \in BOOLEAN /\ written \in BOOLEAN
    BY Zenon DEF Init
  <2> QED
    BY <2>1, MaxRowsAssumption DEF Init, TopTypeOK
<1> QED
  BY <1>1, <1>2, <1>3, <1>4, <1>5 DEF TypeInv

LEMMA NextTypeInv == IInv /\ TypeInv /\ [Next]_vars => TypeInv'
<1> SUFFICES ASSUME IInv, TypeInv, [Next]_vars PROVE TypeInv'
  OBVIOUS
<1>1. CASE Next
  BY <1>1, GuiStays, ItemsStay, PointsStay, DrawStays, TopStays DEF IInv, TypeInv
<1>2. CASE UNCHANGED vars
  BY <1>2 DEF vars, guiVars, settingVars, calibrationVars, drawVars, topVars, TypeInv, GuiTypeOK,
     ItemTypes, Points, DrawTypeOK, TopTypeOK
<1> QED
  BY <1>1, <1>2

\* For queues, grids, keyboards, names and calibrations of any size the variables of all
\* menus keep their types: no queue holds more touches than it has room for, the name being
\* entered stays within its buffer, the points of a calibration within theirs and the color
\* within the palette (menus/setting_state.cpp, virtual_key_board.cpp, calibration_menu.cpp,
\* drawing.cpp).
THEOREM MenusTypeCorrect == Spec => []TypeOK
<1>1. IInv /\ LifeInv /\ TypeInv => TypeOK
  BY CalibrationTyped
    DEF IInv, SettingInv, LifeInv, TypeInv, ItemTypes, TopTypeOK, SettingTypeOK, TypeOK
<1> QED
  BY <1>1, Invariance, LifeInvariance, InitTypeInv, NextTypeInv, PTL DEF Spec

\* Whatever menu follows whatever other, in any order and by whatever means, only the
\* menu that runs observes the touch screen (menus/menu_state.cpp, app.cpp:288-318).
THEOREM TouchesReachTheCurrent == Spec => []OnlyCurrentObserves
<1>1. IInv => OnlyCurrentObserves
  BY DEF IInv
<1> QED
  BY <1>1, Invariance, PTL

\* For any number of points and visits, left at any point, with saves that fail and
\* restarts, the screen is read with points of one visit, those that are in flash
\* (menus/calibration_menu.cpp).
THEOREM CalibrationIsWhole == Spec => []CalibrationWhole
<1>1. IInv => CalibrationWhole
  BY DEF IInv, CalibrationInv, CalibrationWhole
<1> QED
  BY <1>1, Invariance, PTL

\* Whatever is pressed, the time of the screen saver is saved within its bounds and no
\* one goes pairing without a name (menus/setting_state.cpp, menus/menu_state.cpp:98).
THEOREM SettingsAreSound == Spec => []SettingsSound
<1>1. IInv => SettingsSound
  BY DEF IInv, SettingInv
<1> QED
  BY <1>1, Invariance, PTL

\* On a grid of any size, from any first generation and with either neighbourhood, every
\* cell that is not at an edge lives, dies or is born by the rule of the game: adding the
\* rows of the grid up as numbers counts just its neighbours (menus/game_of_life.cpp).
THEOREM GenerationsFollowTheRule == Spec => LifeByRule
<1> DEFINE A == InternalState' = "GAME" /\ CurrentGeneration' > CurrentGeneration =>
                  \A c \in Inner : ByTheRule(c)
<1>1. LifeInv /\ [Next]_vars => [A]_lifeVars
  BY StepByRule DEF vars
<1>2. LifeByRule <=> [][A]_lifeVars
  BY DEF LifeByRule
<1> HIDE DEF A
<1> QED
  BY <1>1, <1>2, LifeInvariance, PTL DEF Spec
=============================================================================

------------------------------- MODULE StartUp ------------------------------
(***************************************************************************)
(* DN8App::onInit step by step, in the place of the one step BadgeBoot has *)
(* for it: the crypto chip that gives the badge its identity when it is    *)
(* started for the first time (myinfo.cpp), then the devices and the tasks *)
(* (app.cpp).  The chip is written and locked for good, command by         *)
(* command; power may fail between any two of them, and MyInfo::init only  *)
(* logs what the chip refuses.  Every action of BadgeBoot goes on here.    *)
(***************************************************************************)
EXTENDS BadgeBoot, FiniteSets

CONSTANTS
  MaxFaults,  \* bound: commands the chip refuses and devices that do not start
  MaxCuts     \* bound: power failures in the middle of onInit

ASSUME FaultAssumption == MaxFaults \in Nat /\ MaxCuts \in Nat

VARIABLES
  step,      \* where onInit is, "off" before it and "running" behind it
  chip,      \* the crypto chip, which no power failure changes
  me,        \* MyInfo: the public key and whether the serial number was read
  linked,    \* CONNECTED_BIT
  faults, cuts,
  refused,   \* history: what the chip or a device ever refused
  shown      \* history: the keys with which the badge has run its menu

start == <<step, me, linked>>
past == <<faults, cuts, refused, shown>>
allVars == <<vars, start, chip, past>>

ChipStep == {"open", "isConfigLocked", "writeConfig", "lockConfig", "isDataLocked",
             "otp0", "otp1", "genKey", "lockData", "getPubKey", "serial"}
DeviceStep == {"calibration", "drawing", "touch", "display", "tasks", "games",
               "buttons", "topBoard", "start"}

NoKey == 0
Nobody == [PublicKey |-> NoKey, UniqueID |-> FALSE]
Blank == [config |-> FALSE, configLocked |-> FALSE, otp |-> {}, key |-> NoKey,
          dataLocked |-> FALSE]

StartTypeOK ==
  /\ TypeOK
  /\ step \in {"off", "running"} \cup ChipStep \cup DeviceStep
  /\ chip \in [config : BOOLEAN, configLocked : BOOLEAN, otp : SUBSET {"otp0", "otp1"},
               key : Nat, dataLocked : BOOLEAN]
  /\ me \in [PublicKey : Nat, UniqueID : BOOLEAN]
  /\ linked \in BOOLEAN
  /\ faults \in 0..MaxFaults /\ cuts \in 0..MaxCuts
  /\ refused \subseteq ChipStep \cup DeviceStep \cup {"verify"} /\ shown \subseteq Nat

\* A badge that was never switched on, its chip as it was bought.
StartInit ==
  /\ Init
  /\ step = "off" /\ chip = Blank /\ me = Nobody /\ linked = FALSE
  /\ faults = 0 /\ cuts = 0 /\ refused = {} /\ shown = {}

Obeyed == UNCHANGED <<faults, refused>>
Refused(c) ==
  /\ faults < MaxFaults
  /\ faults' = faults + 1
  /\ refused' = refused \cup {c}

-----------------------------------------------------------------------------
(* MyInfo::init. *)

\* Wrong variant: the data zone is locked before the key is made.
AfterLockFirst ==
  [writeConfig |-> "lockConfig", otp0 |-> "otp1", otp1 |-> "lockData",
   lockData |-> "genKey", genKey |-> "serial", getPubKey |-> "serial"]

\* The order in which an unlocked chip is written.
After ==
  [writeConfig |-> "lockConfig", otp0 |-> "otp1", otp1 |-> "genKey",
   genKey |-> "lockData", lockData |-> "serial", getPubKey |-> "serial"]

Command(s) ==
  /\ step = s
  /\ UNCHANGED <<vars, linked, cuts, shown>>

\* Without the chip the badge goes on, as nobody.
OpenChip ==
  /\ Command("open")
  /\ \/ Obeyed /\ step' = "isConfigLocked"
     \/ Refused("open") /\ step' = "calibration"
  /\ UNCHANGED <<chip, me>>

IsConfigLocked ==
  /\ Command("isConfigLocked")
  /\ \/ Obeyed /\ step' = IF chip.configLocked THEN "isDataLocked" ELSE "writeConfig"
     \/ Refused("isConfigLocked") /\ step' = "serial"
  /\ UNCHANGED <<chip, me>>

configConfig ==
  /\ Command("writeConfig")
  /\ \/ Obeyed /\ step' = After["writeConfig"] /\ chip' = [chip EXCEPT !.config = TRUE]
     \/ Refused("writeConfig") /\ step' = "serial" /\ UNCHANGED chip
  /\ UNCHANGED me

\* The lock is read back: the result decides, not the lock's own status.
LockConfig ==
  /\ Command("lockConfig")
  /\ \/ Obeyed /\ step' = "isDataLocked" /\ chip' = [chip EXCEPT !.configLocked = TRUE]
     \/ Refused("verify") /\ step' = "serial" /\ chip' = [chip EXCEPT !.configLocked = TRUE]
     \/ Refused("lockConfig") /\ step' = "serial" /\ UNCHANGED chip
  /\ UNCHANGED me

\* Wrong variant: the key is made anew at every start.
IsDataLockedNever ==
  /\ Command("isDataLocked")
  /\ \/ Obeyed /\ step' = "otp0"
     \/ Refused("isDataLocked") /\ step' = "serial"
  /\ UNCHANGED <<chip, me>>

IsDataLocked ==
  /\ Command("isDataLocked")
  /\ \/ Obeyed /\ step' = IF chip.dataLocked THEN "getPubKey" ELSE "otp0"
     \/ Refused("isDataLocked") /\ step' = "serial"
  /\ UNCHANGED <<chip, me>>

\* From here to the lock no status is looked at.
WriteOTP(block) ==
  /\ Command(block)
  /\ step' = After[block]
  /\ \/ Obeyed /\ chip' = [chip EXCEPT !.otp = @ \cup {block}]
     \/ Refused(block) /\ UNCHANGED chip
  /\ UNCHANGED me

GenKey ==
  /\ Command("genKey")
  /\ step' = After["genKey"]
  /\ \/ Obeyed /\ chip' = [chip EXCEPT !.key = @ + 1] /\ me' = [me EXCEPT !.PublicKey = chip'.key]
     \/ Refused("genKey") /\ UNCHANGED <<chip, me>>

LockData ==
  /\ Command("lockData")
  /\ step' = After["lockData"]
  /\ \/ Obeyed /\ chip' = [chip EXCEPT !.dataLocked = TRUE]
     \/ Refused("lockData") /\ UNCHANGED chip
  /\ UNCHANGED me

GetPubKey ==
  /\ Command("getPubKey")
  /\ step' = After["getPubKey"]
  /\ \/ Obeyed /\ me' = [me EXCEPT !.PublicKey = chip.key]
     \/ Refused("getPubKey") /\ UNCHANGED me
  /\ UNCHANGED chip

ReadSerial ==
  /\ Command("serial")
  /\ step' = "calibration"
  /\ \/ Obeyed /\ me' = [me EXCEPT !.UniqueID = TRUE]
     \/ Refused("serial") /\ UNCHANGED me
  /\ UNCHANGED chip

MyInfoInit ==
  \/ OpenChip \/ IsConfigLocked \/ configConfig \/ LockConfig \/ IsDataLocked
  \/ WriteOTP("otp0") \/ WriteOTP("otp1")
  \/ GenKey \/ LockData \/ GetPubKey \/ ReadSerial

-----------------------------------------------------------------------------
(* The rest of onInit. *)

\* RAM is lost.
Forget == step' = "off" /\ me' = Nobody /\ linked' = FALSE

\* onInit returned an error before it set a menu, and app_main runs the
\* application all the same; or it started tasks that were not initialised.
Panic(s) ==
  /\ step = s
  /\ Refused(s)
  /\ phase' = "off" /\ since_boot' = 0
  /\ Forget
  /\ UNCHANGED <<nvs, partition, history, chip, cuts, shown>>

Device(s, next) ==
  \/ step = s /\ step' = next /\ UNCHANGED <<vars, me, linked, chip, past>>
  \/ Panic(s)

InitCalibration == Device("calibration", "drawing")
InitDrawing == Device("drawing", "touch")
InitTouch == Device("touch", "display")
InitDisplay == Device("display", "tasks")

\* Only one of the two radios has a task.
InitBluetooth ==
  /\ step = "tasks" /\ StartBLE
  /\ step' = "games"
  /\ UNCHANGED <<me, linked, chip, past>>
InitGames == Device("games", "buttons")
InitWifi ==
  \/ /\ step = "tasks" /\ CountBoot
     /\ step' = "buttons"
     /\ UNCHANGED <<me, linked, chip, past>>
  \/ ~ble /\ Panic("tasks")

GiveUpFirmware ==
  /\ step = "tasks" /\ BeginFactoryReset
  /\ step' = "off"
  /\ UNCHANGED <<me, linked, chip, past>>

InitButtons == Device("buttons", "topBoard")
InitTopBoard == Device("topBoard", "start")

\* The tasks run and the menu is set.
StartTasks ==
  /\ step = "start"
  /\ step' = "running"
  /\ shown' = shown \cup {me.PublicKey}
  /\ UNCHANGED <<vars, me, linked, chip, faults, cuts, refused>>

OnInit ==
  \/ InitCalibration \/ InitDrawing \/ InitTouch \/ InitDisplay
  \/ InitBluetooth \/ InitGames \/ InitWifi \/ GiveUpFirmware
  \/ InitButtons \/ InitTopBoard \/ StartTasks

-----------------------------------------------------------------------------
(* The other actions of BadgeBoot. *)

\* onInit begins after check_for_ota, or after an update that failed.
Begins == step' = (IF phase' = "onInit" THEN "open" ELSE "off") /\ UNCHANGED me

SwitchOn == PowerOn /\ UNCHANGED <<start, chip, past>>
CheckUpdate == CheckForOta /\ Begins /\ UNCHANGED <<linked, chip, past>>
ResetDone == FinishFactoryReset /\ Forget /\ UNCHANGED <<chip, past>>

\* SYSTEM_EVENT_STA_GOT_IP wakes do_ota.
GotAddress == GotIp /\ linked' = TRUE /\ UNCHANGED <<step, me, chip, past>>

\* SYSTEM_EVENT_STA_DISCONNECTED connects again.
LinkChanges ==
  /\ phase = "download"
  /\ linked' = ~linked
  /\ UNCHANGED <<vars, step, me, chip, past>>

GetUpdate ==
  /\ Download
  /\ phase' = "onInit" \/ linked
  /\ Begins
  /\ linked' = FALSE
  /\ UNCHANGED <<chip, past>>

\* Between two starts power may fail as often as it likes.
Cut ==
  /\ PowerFails
  /\ IF step \in ChipStep \cup DeviceStep
     THEN cuts < MaxCuts /\ cuts' = cuts + 1
     ELSE UNCHANGED cuts
  /\ Forget
  /\ UNCHANGED <<chip, faults, refused, shown>>

InMenu(A) == step = "running" /\ A /\ UNCHANGED <<linked, chip, past>>
Idle == InMenu(IdleSecond) /\ UNCHANGED <<step, me>>
Lasts == InMenu(BootLasts) /\ UNCHANGED <<step, me>>
AskUpdate == InMenu(AskForOta) /\ UNCHANGED <<step, me>>
SetRadio == InMenu(SetBLE) /\ step' = "off" /\ me' = Nobody

StartUps == MyInfoInit \/ OnInit \/ CheckUpdate \/ GetUpdate \/ ResetDone

StartNext ==
  \/ StartUps \/ SwitchOn \/ Cut
  \/ GotAddress \/ LinkChanges
  \/ Idle \/ Lasts \/ AskUpdate \/ SetRadio

\* As in BadgeBoot; here the bound on the cuts lets some starts come to their end.
StartFairness ==
  /\ WF_allVars(SwitchOn)
  /\ WF_allVars(StartUps)
  /\ WF_allVars(Idle)
  /\ WF_allVars(Lasts)
  /\ SF_allVars(CheckUpdate)
  /\ SF_allVars(ResetDone)

StartSpec == StartInit /\ [][StartNext]_allVars /\ StartFairness

-----------------------------------------------------------------------------
\* MyInfo::init locks the chip for ever.  Wherever power failed, a locked chip has
\* its configuration, its key and its texts, but for what it refused to take: no
\* status between the first text and the lock is looked at.
LockedIsWhole ==
  /\ chip.configLocked => chip.config
  /\ chip.dataLocked =>
       /\ chip.configLocked
       /\ chip.key = NoKey => "genKey" \in refused
       /\ {"otp0", "otp1"} \ chip.otp \subseteq refused

\* The key a badge shows its peers, who keep it, is one and the same in its whole
\* life, though it may be made several times: it is shown only once it is locked,
\* unless the chip refused the lock.
OneIdentity ==
  Cardinality(shown \ {NoKey}) > 1 => "lockData" \in refused
=============================================================================

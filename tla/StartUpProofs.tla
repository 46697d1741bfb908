---------------------------- MODULE StartUpProofs ---------------------------
(* The start up's counters; onInit step by step is a start up of BadgeBoot,  *)
(* and leaves a chip that is whole and an identity that lasts, wherever      *)
(* power fails.                                                              *)
EXTENDS StartUp, TLAPS, FiniteSetTheorems

-----------------------------------------------------------------------------
(* BadgeBoot: the counters of the start up, for every limit. *)

\* The NVS counter is the number of boots that did not last, whatever step power
\* failed after, and the flag in NVS is the request not begun.
Counted ==
  /\ TypeOK
  /\ attempted_boot = brief
  /\ do_ota_flag = asked

LEMMA InitCounted == Init => Counted
<1> SUFFICES ASSUME Init PROVE Counted
  OBVIOUS
<1>1. ble \in BOOLEAN
  BY DEF Init
<1>2. 0 \in 0..(MaxAttempts + 1) /\ 0 \in -1..(BootSuccess + 1)
  BY LimitAssumption
<1> QED
  BY <1>1, <1>2 DEF Init, Counted, TypeOK, Phase

LEMMA NextCounted == Counted /\ [Next]_vars => Counted'
<1> SUFFICES ASSUME Counted, [Next]_vars PROVE Counted'
  OBVIOUS
<1> USE LimitAssumption DEF Counted, TypeOK, Phase, nvs, history, esp_restart
<1>1. CASE PowerOn
  BY <1>1 DEF PowerOn
<1>2. CASE PowerFails
  BY <1>2 DEF PowerFails
<1>3. CASE CheckForOta
  BY <1>3 DEF CheckForOta
<1>4. CASE Download
  BY <1>4 DEF Download
<1>5. CASE StartBLE
  BY <1>5 DEF StartBLE
<1>6. CASE BeginFactoryReset
  BY <1>6 DEF BeginFactoryReset
<1>7. CASE FinishFactoryReset
  BY <1>7 DEF FinishFactoryReset
<1>8. CASE CountBoot
  BY <1>8 DEF CountBoot
<1>9. CASE GotIp
  BY <1>9 DEF GotIp
<1>10. CASE IdleSecond
  BY <1>10 DEF IdleSecond, WIFITask
<1>11. CASE BootLasts
  BY <1>11 DEF BootLasts, WIFITask
<1>12. CASE AskForOta
  BY <1>12 DEF AskForOta
<1>13. CASE SetBLE
  BY <1>13 DEF SetBLE
<1>14. CASE UNCHANGED vars
  BY <1>14 DEF vars
<1> QED
  BY <1>1, <1>2, <1>3, <1>4, <1>5, <1>6, <1>7, <1>8, <1>9, <1>10, <1>11, <1>12,
     <1>13, <1>14 DEF Next, Boot

THEOREM AlwaysCounted == Spec => []Counted
<1> QED
  BY InitCounted, NextCounted, PTL DEF Spec

\* The types of the start up's variables: attempted_boot is at most one above
\* the limit.
THEOREM BootTypeCorrect == Spec => []TypeOK
<1>1. Counted => TypeOK
  BY DEF Counted
<1> QED
  BY <1>1, AlwaysCounted, PTL

LEMMA ResetStepIsEarned ==
  Counted /\ [Next]_vars => [phase' = "factory_reset" => brief > MaxAttempts]_vars
<1> SUFFICES ASSUME Counted, Next, phase' = "factory_reset" PROVE brief > MaxAttempts
  BY DEF vars
<1>1. BeginFactoryReset
  BY DEF Next, Boot, PowerOn, PowerFails, CheckForOta, Download, StartBLE, FinishFactoryReset,
     CountBoot, GotIp, IdleSecond, BootLasts, AskForOta, SetBLE, esp_restart, WIFITask, Counted,
     TypeOK, Phase, history, nvs
<1> QED
  BY <1>1 DEF BeginFactoryReset, Counted

\* However power fails between the steps of do_factory_reset and of init, the badge
\* falls back only when more than MaxAttempts boots in a row did not last.
THEOREM ResetIsEarned == Spec => ResetEarned
<1> QED
  BY ResetStepIsEarned, AlwaysCounted, PTL DEF Spec, ResetEarned

\* A request is tried once: power may fail while the badge waits for the network
\* or downloads, and the next start up goes on to the menu.
THEOREM OtaIsTriedOnce == Spec => OtaOnce
<1>1. Counted /\ [Next]_vars => [phase # "connect" /\ phase' = "connect" => asked = 1]_vars
  <2> SUFFICES ASSUME Counted, Next, phase # "connect", phase' = "connect" PROVE asked = 1
    BY DEF vars
  <2>1. CheckForOta
    BY DEF Next, Boot, PowerOn, PowerFails, Download, StartBLE, BeginFactoryReset,
       FinishFactoryReset, CountBoot, GotIp, IdleSecond, BootLasts, AskForOta, SetBLE, esp_restart,
       WIFITask
  <2> QED
    BY <2>1 DEF CheckForOta, Counted
<1> QED
  BY <1>1, AlwaysCounted, PTL DEF Spec, OtaOnce

-----------------------------------------------------------------------------
(* StartUp: what holds between the steps of onInit. *)

\* onInit has begun, or is behind.
Awake == step # "off" => phase \in {"onInit", "menu", "halted"}

\* The steps in which the chip is written and still open.
Writing == {"otp0", "otp1", "genKey", "lockData"}

\* What each command of MyInfo::init may rely on.
Chip ==
  /\ step = "lockConfig" => chip.config
  /\ step \in Writing \cup {"isDataLocked"} => chip.configLocked
  /\ step \in Writing => ~chip.dataLocked
  /\ step = "getPubKey" => chip.dataLocked
  /\ step \in {"otp1", "genKey", "lockData"} => "otp0" \in chip.otp \cup refused
  /\ step \in {"genKey", "lockData"} => "otp1" \in chip.otp \cup refused
  /\ step = "lockData" /\ chip.key = NoKey => "genKey" \in refused

\* The steps before the public key is known.
Anonymous ==
  {"off", "open", "isConfigLocked", "writeConfig", "lockConfig", "isDataLocked",
   "otp0", "otp1", "genKey", "getPubKey"}

\* Unless the chip refused the lock, a key that may be shown is the chip's and locked.
Identity ==
  /\ step \in Anonymous /\ phase # "factory_reset" => me.PublicKey = NoKey
  /\ step = "lockData" => me.PublicKey \in {NoKey, chip.key}
  /\ "lockData" \notin refused =>
       /\ step \notin Anonymous \cup {"lockData"} /\ me.PublicKey # NoKey =>
            chip.dataLocked /\ me.PublicKey = chip.key
       /\ \A k \in shown \ {NoKey} : chip.dataLocked /\ k = chip.key

Steps == {"off", "running"} \cup ChipStep \cup DeviceStep
Chips == [config : BOOLEAN, configLocked : BOOLEAN, otp : SUBSET {"otp0", "otp1"},
          key : Nat, dataLocked : BOOLEAN]
Persons == [PublicKey : Nat, UniqueID : BOOLEAN]
Bounds == faults \in 0..MaxFaults /\ cuts \in 0..MaxCuts /\ linked \in BOOLEAN
Past == refused \subseteq ChipStep \cup DeviceStep \cup {"verify"} /\ shown \subseteq Nat

\* The type invariant in its parts.
StartTypes == step \in Steps /\ chip \in Chips /\ me \in Persons /\ Bounds /\ Past

IInv == StartTypes /\ Counted /\ Awake /\ Chip /\ LockedIsWhole /\ Identity

LEMMA InitIInv == StartInit => IInv
<1> SUFFICES ASSUME StartInit PROVE IInv
  OBVIOUS
<1>1. Counted /\ TypeOK
  BY InitCounted DEF StartInit, Counted
<1>2. chip \in Chips /\ me \in Persons
  <2>1. Blank \in Chips /\ Nobody \in Persons
    BY DEF Chips, Persons, Blank, Nobody, NoKey
  <2> QED
    BY <2>1 DEF StartInit
<1>3. step \in Steps /\ Bounds /\ Past
  <2>1. step = "off" /\ faults = 0 /\ cuts = 0 /\ refused = {} /\ shown = {}
    BY DEF StartInit
  <2>2. linked \in BOOLEAN
    BY DEF StartInit
  <2> QED
    BY <2>1, <2>2, FaultAssumption DEF Steps, Bounds, Past
<1>4. step = "off" /\ chip = Blank /\ me = Nobody /\ shown = {}
  BY DEF StartInit
<1>5. LockedIsWhole /\ Awake /\ Chip /\ Identity
  BY <1>4 DEF Blank, Nobody, NoKey, LockedIsWhole, Awake, Chip, Identity, Writing, Anonymous
<1> QED
  BY <1>1, <1>2, <1>3, <1>5 DEF IInv, StartTypes

-----------------------------------------------------------------------------
(* Every step is one of BadgeBoot, or changes nothing it looks at. *)

LEMMA PanicIsPowerFailure ==
  ASSUME Awake, NEW s \in DeviceStep, Panic(s)
  PROVE  PowerFails
BY DEF Awake, Panic, PowerFails, DeviceStep

LEMMA DeviceIsBoot ==
  ASSUME Awake, NEW s \in DeviceStep, NEW t, Device(s, t)
  PROVE  [Next]_vars
BY PanicIsPowerFailure DEF Device, Next

LEMMA StepIsBoot == Awake /\ [StartNext]_allVars => [Next]_vars
<1> SUFFICES ASSUME Awake, [StartNext]_allVars PROVE [Next]_vars
  OBVIOUS
<1>1. CASE MyInfoInit
  BY <1>1 DEF MyInfoInit, OpenChip, IsConfigLocked, configConfig, LockConfig, IsDataLocked,
     WriteOTP, GenKey, LockData, GetPubKey, ReadSerial, Command
<1>2. CASE OnInit
  <2>1. CASE InitCalibration \/ InitDrawing \/ InitTouch \/ InitDisplay \/ InitGames
               \/ InitButtons \/ InitTopBoard
    BY <2>1, DeviceIsBoot DEF InitCalibration, InitDrawing, InitTouch, InitDisplay, InitGames,
       InitButtons, InitTopBoard, DeviceStep
  <2>2. CASE InitBluetooth \/ InitWifi \/ GiveUpFirmware \/ StartTasks
    BY <2>2, PanicIsPowerFailure DEF InitBluetooth, InitWifi, GiveUpFirmware, StartTasks,
       DeviceStep, Next, Boot
  <2> QED
    BY <1>2, <2>1, <2>2 DEF OnInit
<1>3. CASE CheckUpdate \/ GetUpdate \/ ResetDone \/ SwitchOn \/ Cut \/ GotAddress
             \/ LinkChanges \/ Idle \/ Lasts \/ AskUpdate \/ SetRadio
  BY <1>3 DEF CheckUpdate, GetUpdate, ResetDone, SwitchOn, Cut, GotAddress, LinkChanges, Idle,
     Lasts, AskUpdate, SetRadio, InMenu, Next, Boot
<1>4. CASE UNCHANGED allVars
  BY <1>4 DEF allVars
<1> QED
  BY <1>1, <1>2, <1>3, <1>4 DEF StartNext, StartUps

-----------------------------------------------------------------------------
(* The commands of MyInfo::init. *)

LEMMA ObeyedOrRefused ==
  ASSUME StartTypes, NEW c \in ChipStep \cup {"verify"}, Obeyed \/ Refused(c)
  PROVE  /\ faults' \in 0..MaxFaults
         /\ refused \subseteq refused'
         /\ refused' \subseteq ChipStep \cup DeviceStep \cup {"verify"}
<1>1. CASE Obeyed
  BY <1>1 DEF Obeyed, StartTypes, Bounds, Past
<1>2. CASE Refused(c)
  BY <1>2, FaultAssumption DEF Refused, StartTypes, Bounds, Past
<1> QED
  BY <1>1, <1>2

LEMMA CommandFrame ==
  ASSUME IInv, NEW s \in ChipStep, Command(s),
         NEW c \in ChipStep \cup {"verify"}, Obeyed \/ Refused(c),
         step' \in ChipStep \cup {"calibration"}, chip' \in Chips, me' \in Persons
  PROVE  StartTypes' /\ Awake' /\ phase' = phase /\ shown' = shown /\ refused \subseteq refused'
<1>1. step' \in Steps
  BY DEF Steps, DeviceStep
<1>2. Bounds' /\ Past' /\ refused \subseteq refused'
  BY ObeyedOrRefused DEF Command, IInv, StartTypes, Bounds, Past
<1>3. step # "off"
  BY DEF Command, ChipStep
<1>4. phase' = phase /\ shown' = shown
  BY DEF Command, vars
<1> QED
  BY <1>1, <1>2, <1>3, <1>4 DEF StartTypes, IInv, Awake

LEMMA CommandKeeps ==
  ASSUME IInv, MyInfoInit
  PROVE  StartTypes' /\ Awake' /\ Chip' /\ LockedIsWhole' /\ Identity'
<1>1. CASE OpenChip
  <2>1. step = "open" /\ step' \in {"isConfigLocked", "calibration"} /\ Command("open")
    BY <1>1 DEF OpenChip, Command
  <2>2. Obeyed \/ Refused("open")
    BY <1>1 DEF OpenChip
  <2>3. chip' \in Chips /\ me' \in Persons
    BY <1>1 DEF OpenChip, IInv, StartTypes
  <2>4. StartTypes' /\ Awake' /\ phase' = phase /\ shown' = shown /\ refused \subseteq refused'
    BY <2>1, <2>2, <2>3, CommandFrame DEF ChipStep
  <2>5. Chip'
    BY <1>1, <2>1, <2>4 DEF OpenChip, Chip, Writing, IInv, StartTypes, Refused, NoKey
  <2>6. LockedIsWhole'
    BY <1>1, <2>1, <2>4 DEF OpenChip, Chip, Writing, LockedIsWhole, IInv, StartTypes, NoKey
  <2>7. Identity'
    BY <1>1, <2>1, <2>4 DEF OpenChip, Chip, Writing, Identity, Anonymous, IInv, StartTypes, Awake, Refused, NoKey
  <2> QED
    BY <2>4, <2>5, <2>6, <2>7
<1>2. CASE IsConfigLocked
  <2>1. step = "isConfigLocked" /\ step' \in {"isDataLocked", "writeConfig", "serial"} /\ Command("isConfigLocked")
    BY <1>2 DEF IsConfigLocked, Command
  <2>2. Obeyed \/ Refused("isConfigLocked")
    BY <1>2 DEF IsConfigLocked
  <2>3. chip' \in Chips /\ me' \in Persons
    BY <1>2 DEF IsConfigLocked, IInv, StartTypes
  <2>4. StartTypes' /\ Awake' /\ phase' = phase /\ shown' = shown /\ refused \subseteq refused'
    BY <2>1, <2>2, <2>3, CommandFrame DEF ChipStep
  <2>5. Chip'
    BY <1>2, <2>1, <2>4 DEF IsConfigLocked, Chip, Writing, IInv, StartTypes, Refused, NoKey
  <2>6. LockedIsWhole'
    BY <1>2, <2>1, <2>4 DEF IsConfigLocked, Chip, Writing, LockedIsWhole, IInv, StartTypes, NoKey
  <2>7. Identity'
    BY <1>2, <2>1, <2>4 DEF IsConfigLocked, Chip, Writing, Identity, Anonymous, IInv, StartTypes, Awake, Refused, NoKey
  <2> QED
    BY <2>4, <2>5, <2>6, <2>7
<1>3. CASE configConfig
  <2>1. step = "writeConfig" /\ step' \in {"lockConfig", "serial"} /\ Command("writeConfig")
    BY <1>3 DEF configConfig, After, Command
  <2>2. Obeyed \/ Refused("writeConfig")
    BY <1>3 DEF configConfig
  <2>3. chip' \in Chips /\ me' \in Persons
    BY <1>3 DEF configConfig, After, Chips, IInv, StartTypes
  <2>4. StartTypes' /\ Awake' /\ phase' = phase /\ shown' = shown /\ refused \subseteq refused'
    BY <2>1, <2>2, <2>3, CommandFrame DEF ChipStep
  <2>5. Chip'
    BY <1>3, <2>1, <2>4 DEF configConfig, After, Chips, Chip, Writing, IInv, StartTypes, Refused, NoKey
  <2>6. LockedIsWhole'
    BY <1>3, <2>1, <2>4 DEF configConfig, After, Chips, Chip, Writing, LockedIsWhole, IInv, StartTypes, NoKey
  <2>7. Identity'
    BY <1>3, <2>1, <2>4 DEF configConfig, After, Chips, Chip, Writing, Identity, Anonymous, IInv, StartTypes, Awake, Refused, NoKey
  <2> QED
    BY <2>4, <2>5, <2>6, <2>7
<1>4. CASE LockConfig
  <2>1. step = "lockConfig" /\ step' \in {"isDataLocked", "serial"} /\ Command("lockConfig")
    BY <1>4 DEF LockConfig, Command
  <2>2. Obeyed \/ Refused("lockConfig") \/ Refused("verify")
    BY <1>4 DEF LockConfig
  <2>3. chip' \in Chips /\ me' \in Persons
    BY <1>4 DEF LockConfig, Chips, IInv, StartTypes
  <2>4. StartTypes' /\ Awake' /\ phase' = phase /\ shown' = shown /\ refused \subseteq refused'
    BY <2>1, <2>2, <2>3, CommandFrame DEF ChipStep
  <2>5. Chip'
    BY <1>4, <2>1, <2>4 DEF LockConfig, Chips, Chip, Writing, IInv, StartTypes, Refused, NoKey
  <2>6. LockedIsWhole'
    BY <1>4, <2>1, <2>4 DEF LockConfig, Chips, Chip, Writing, LockedIsWhole, IInv, StartTypes, NoKey
  <2>7. Identity'
    BY <1>4, <2>1, <2>4 DEF LockConfig, Chips, Chip, Writing, Identity, Anonymous, IInv, StartTypes, Awake, Refused, NoKey
  <2> QED
    BY <2>4, <2>5, <2>6, <2>7
<1>5. CASE IsDataLocked
  <2>1. step = "isDataLocked" /\ step' \in {"getPubKey", "otp0", "serial"} /\ Command("isDataLocked")
    BY <1>5 DEF IsDataLocked, Command
  <2>2. Obeyed \/ Refused("isDataLocked")
    BY <1>5 DEF IsDataLocked
  <2>3. chip' \in Chips /\ me' \in Persons
    BY <1>5 DEF IsDataLocked, IInv, StartTypes
  <2>4. StartTypes' /\ Awake' /\ phase' = phase /\ shown' = shown /\ refused \subseteq refused'
    BY <2>1, <2>2, <2>3, CommandFrame DEF ChipStep
  <2>5. Chip'
    BY <1>5, <2>1, <2>4 DEF IsDataLocked, Chip, Writing, IInv, StartTypes, Refused, NoKey
  <2>6. LockedIsWhole'
    BY <1>5, <2>1, <2>4 DEF IsDataLocked, Chip, Writing, LockedIsWhole, IInv, StartTypes, NoKey
  <2>7. Identity'
    BY <1>5, <2>1, <2>4 DEF IsDataLocked, Chip, Writing, Identity, Anonymous, IInv, StartTypes, Awake, Refused, NoKey
  <2> QED
    BY <2>4, <2>5, <2>6, <2>7
<1>6. CASE WriteOTP("otp0")
  <2>1. step = "otp0" /\ step' \in {"otp1"} /\ Command("otp0")
    BY <1>6 DEF WriteOTP, After, Command
  <2>2. Obeyed \/ Refused("otp0")
    BY <1>6 DEF WriteOTP
  <2>3. chip' \in Chips /\ me' \in Persons
    BY <1>6 DEF WriteOTP, After, Chips, IInv, StartTypes
  <2>4. StartTypes' /\ Awake' /\ phase' = phase /\ shown' = shown /\ refused \subseteq refused'
    BY <2>1, <2>2, <2>3, CommandFrame DEF ChipStep
  <2>5. Chip'
    BY <1>6, <2>1, <2>4 DEF WriteOTP, After, Chips, Chip, Writing, IInv, StartTypes, Refused, NoKey
  <2>6. LockedIsWhole'
    BY <1>6, <2>1, <2>4 DEF WriteOTP, After, Chips, Chip, Writing, LockedIsWhole, IInv, StartTypes, NoKey
  <2>7. Identity'
    BY <1>6, <2>1, <2>4 DEF WriteOTP, After, Chips, Chip, Writing, Identity, Anonymous, IInv, StartTypes, Awake, Refused, NoKey
  <2> QED
    BY <2>4, <2>5, <2>6, <2>7
<1>7. CASE WriteOTP("otp1")
  <2>1. step = "otp1" /\ step' \in {"genKey"} /\ Command("otp1")
    BY <1>7 DEF WriteOTP, After, Command
  <2>2. Obeyed \/ Refused("otp1")
    BY <1>7 DEF WriteOTP
  <2>3. chip' \in Chips /\ me' \in Persons
    BY <1>7 DEF WriteOTP, After, Chips, IInv, StartTypes
  <2>4. StartTypes' /\ Awake' /\ phase' = phase /\ shown' = shown /\ refused \subseteq refused'
    BY <2>1, <2>2, <2>3, CommandFrame DEF ChipStep
  <2>5. Chip'
    BY <1>7, <2>1, <2>4 DEF WriteOTP, After, Chips, Chip, Writing, IInv, StartTypes, Refused, NoKey
  <2>6. LockedIsWhole'
    BY <1>7, <2>1, <2>4 DEF WriteOTP, After, Chips, Chip, Writing, LockedIsWhole, IInv, StartTypes, NoKey
  <2>7. Identity'
    BY <1>7, <2>1, <2>4 DEF WriteOTP, After, Chips, Chip, Writing, Identity, Anonymous, IInv, StartTypes, Awake, Refused, NoKey
  <2> QED
    BY <2>4, <2>5, <2>6, <2>7
<1>8. CASE GenKey
  <2>1. step = "genKey" /\ step' \in {"lockData"} /\ Command("genKey")
    BY <1>8 DEF GenKey, After, Command
  <2>2. Obeyed \/ Refused("genKey")
    BY <1>8 DEF GenKey
  <2>3. chip' \in Chips /\ me' \in Persons
    BY <1>8 DEF GenKey, After, Chips, Persons, IInv, StartTypes
  <2>4. StartTypes' /\ Awake' /\ phase' = phase /\ shown' = shown /\ refused \subseteq refused'
    BY <2>1, <2>2, <2>3, CommandFrame DEF ChipStep
  <2>5. Chip'
    BY <1>8, <2>1, <2>4 DEF GenKey, After, Chips, Persons, Chip, Writing, IInv, StartTypes, Refused, NoKey
  <2>6. LockedIsWhole'
    BY <1>8, <2>1, <2>4 DEF GenKey, After, Chips, Persons, Chip, Writing, LockedIsWhole, IInv, StartTypes, NoKey
  <2>7. Identity'
    BY <1>8, <2>1, <2>4 DEF GenKey, After, Chips, Persons, Chip, Writing, Identity, Anonymous, IInv, StartTypes, Awake, Refused, NoKey
  <2> QED
    BY <2>4, <2>5, <2>6, <2>7
<1>9. CASE LockData
  <2>1. step = "lockData" /\ step' \in {"serial"} /\ Command("lockData")
    BY <1>9 DEF LockData, After, Command
  <2>2. Obeyed \/ Refused("lockData")
    BY <1>9 DEF LockData
  <2>3. chip' \in Chips /\ me' \in Persons
    BY <1>9 DEF LockData, After, Chips, IInv, StartTypes
  <2>4. StartTypes' /\ Awake' /\ phase' = phase /\ shown' = shown /\ refused \subseteq refused'
    BY <2>1, <2>2, <2>3, CommandFrame DEF ChipStep
  <2>5. Chip'
    BY <1>9, <2>1, <2>4 DEF LockData, After, Chips, Chip, Writing, IInv, StartTypes, Refused, NoKey
  <2>6. LockedIsWhole'
    BY <1>9, <2>1, <2>4 DEF LockData, After, Chips, Chip, Writing, LockedIsWhole, IInv, StartTypes, NoKey
  <2>7. Identity'
    BY <1>9, <2>1, <2>4 DEF LockData, After, Chips, Chip, Writing, Identity, Anonymous, IInv, StartTypes, Awake, Refused, NoKey
  <2> QED
    BY <2>4, <2>5, <2>6, <2>7
<1>10. CASE GetPubKey
  <2>1. step = "getPubKey" /\ step' \in {"serial"} /\ Command("getPubKey")
    BY <1>10 DEF GetPubKey, After, Command
  <2>2. Obeyed \/ Refused("getPubKey")
    BY <1>10 DEF GetPubKey
  <2>3. chip' \in Chips /\ me' \in Persons
    BY <1>10 DEF GetPubKey, After, Chips, Persons, IInv, StartTypes
  <2>4. StartTypes' /\ Awake' /\ phase' = phase /\ shown' = shown /\ refused \subseteq refused'
    BY <2>1, <2>2, <2>3, CommandFrame DEF ChipStep
  <2>5. Chip'
    BY <1>10, <2>1, <2>4 DEF GetPubKey, After, Chips, Persons, Chip, Writing, IInv, StartTypes, Refused, NoKey
  <2>6. LockedIsWhole'
    BY <1>10, <2>1, <2>4 DEF GetPubKey, After, Chips, Persons, Chip, Writing, LockedIsWhole, IInv, StartTypes, NoKey
  <2>7. Identity'
    BY <1>10, <2>1, <2>4 DEF GetPubKey, After, Chips, Persons, Chip, Writing, Identity, Anonymous, IInv, StartTypes, Awake, Refused, NoKey
  <2> QED
    BY <2>4, <2>5, <2>6, <2>7
<1>11. CASE ReadSerial
  <2>1. step = "serial" /\ step' \in {"calibration"} /\ Command("serial")
    BY <1>11 DEF ReadSerial, Command
  <2>2. Obeyed \/ Refused("serial")
    BY <1>11 DEF ReadSerial
  <2>3. chip' \in Chips /\ me' \in Persons
    BY <1>11 DEF ReadSerial, Persons, IInv, StartTypes
  <2>4. StartTypes' /\ Awake' /\ phase' = phase /\ shown' = shown /\ refused \subseteq refused'
    BY <2>1, <2>2, <2>3, CommandFrame DEF ChipStep
  <2>5. Chip'
    BY <1>11, <2>1, <2>4 DEF ReadSerial, Persons, Chip, Writing, IInv, StartTypes, Refused, NoKey
  <2>6. LockedIsWhole'
    BY <1>11, <2>1, <2>4 DEF ReadSerial, Persons, Chip, Writing, LockedIsWhole, IInv, StartTypes, NoKey
  <2>7. Identity'
    BY <1>11, <2>1, <2>4 DEF ReadSerial, Persons, Chip, Writing, Identity, Anonymous, IInv, StartTypes, Awake, Refused, NoKey
  <2> QED
    BY <2>4, <2>5, <2>6, <2>7
<1> QED
  BY <1>1, <1>2, <1>3, <1>4, <1>5, <1>6, <1>7, <1>8, <1>9, <1>10, <1>11 DEF MyInfoInit

-----------------------------------------------------------------------------
(* The other steps leave the chip alone. *)

\* A step of onInit, one that does not look at it, or one that ends with RAM lost.
LEMMA ChipUntouched ==
  ASSUME IInv, chip' = chip, refused \subseteq refused', shown' = shown,
         \/ me' = me /\ step' = step /\ (phase' = "factory_reset" => phase = "factory_reset")
                                   /\ (step = "off" => phase # "factory_reset")
         \/ me' = me /\ step = "off" /\ phase # "factory_reset" /\ step' \in {"off", "open"}
         \/ me' = me /\ step \in DeviceStep /\ step' \in DeviceStep
         \/ me' = me /\ step' = "off" /\ phase' = "factory_reset"
         \/ me' = Nobody /\ step' = "off"
  PROVE  Chip' /\ LockedIsWhole' /\ Identity'
<1>1. LockedIsWhole'
  BY DEF IInv, LockedIsWhole
<1>2. step' \notin Writing \cup {"lockConfig", "isDataLocked", "getPubKey"} \/ step' = step
  BY DEF Writing, DeviceStep
<1>3. Chip'
  <2>1. CASE step' = step
    BY <2>1 DEF Chip, IInv
  <2>2. CASE step' \notin Writing \cup {"lockConfig", "isDataLocked", "getPubKey"}
    BY <2>2 DEF Chip, Writing
  <2> QED
    BY <1>2, <2>1, <2>2
<1>4. step \in Anonymous => phase # "factory_reset" \/ step = "off"
  BY DEF Awake, IInv
<1>5. Identity'
  BY <1>4 DEF Identity, Anonymous, DeviceStep, IInv, Nobody, NoKey
<1> QED
  BY <1>1, <1>3, <1>5

LEMMA PanicKeeps ==
  ASSUME IInv, NEW s \in DeviceStep, Panic(s)
  PROVE  StartTypes' /\ Awake' /\ Chip' /\ LockedIsWhole' /\ Identity'
<1>1. me' = Nobody /\ step' = "off" /\ chip' = chip /\ shown' = shown /\ linked' = FALSE /\ cuts' = cuts
  BY DEF Panic, Forget
<1>2. refused \subseteq refused' /\ Past' /\ faults' \in 0..MaxFaults
  BY <1>1, FaultAssumption DEF Panic, Refused, IInv, StartTypes, Bounds, Past
<1>3. Chip' /\ LockedIsWhole' /\ Identity'
  BY <1>1, <1>2, ChipUntouched
<1>4. Nobody \in Persons /\ "off" \in Steps
  BY DEF Nobody, NoKey, Persons, Steps
<1>5. Bounds'
  BY <1>1, <1>2 DEF Bounds, IInv, StartTypes
<1> QED
  BY <1>1, <1>2, <1>3, <1>4, <1>5 DEF StartTypes, IInv, Awake

LEMMA DeviceKeeps ==
  ASSUME IInv, NEW s \in DeviceStep, NEW t \in DeviceStep, Device(s, t)
  PROVE  StartTypes' /\ Awake' /\ Chip' /\ LockedIsWhole' /\ Identity'
<1>1. CASE Panic(s)
  BY <1>1, PanicKeeps
<1>2. CASE ~Panic(s)
  <2>1. /\ step = s /\ step' = t /\ me' = me /\ chip' = chip /\ phase' = phase
        /\ UNCHANGED <<linked, past>>
    BY <1>2 DEF Device, vars
  <2>2. Chip' /\ LockedIsWhole' /\ Identity'
    BY <2>1, ChipUntouched DEF past
  <2>3. StartTypes'
    BY <2>1 DEF StartTypes, Bounds, Past, Steps, IInv, past
  <2>4. Awake'
    BY <2>1 DEF Awake, IInv, DeviceStep
  <2> QED
    BY <2>2, <2>3, <2>4
<1> QED
  BY <1>1, <1>2

LEMMA OnInitKeeps ==
  ASSUME IInv, OnInit
  PROVE  StartTypes' /\ Awake' /\ Chip' /\ LockedIsWhole' /\ Identity'
<1>1. CASE InitCalibration \/ InitDrawing \/ InitTouch \/ InitDisplay \/ InitGames
             \/ InitButtons \/ InitTopBoard
  BY <1>1, DeviceKeeps DEF InitCalibration, InitDrawing, InitTouch, InitDisplay, InitGames,
     InitButtons, InitTopBoard, DeviceStep
<1>2. ASSUME NEW t \in {"games", "buttons"}, StartBLE \/ CountBoot,
             step = "tasks", step' = t, UNCHANGED <<me, linked, chip, past>>
      PROVE  StartTypes' /\ Awake' /\ Chip' /\ LockedIsWhole' /\ Identity'
  <2>1. phase' = "menu"
    BY <1>2 DEF StartBLE, CountBoot
  <2>2. Chip' /\ LockedIsWhole' /\ Identity'
    BY <1>2, ChipUntouched DEF past, DeviceStep
  <2>3. StartTypes'
    BY <1>2 DEF StartTypes, Bounds, Past, Steps, DeviceStep, IInv, past
  <2> QED
    BY <2>1, <2>2, <2>3 DEF Awake
<1>3. CASE InitBluetooth \/ InitWifi
  BY <1>2, <1>3, PanicKeeps DEF InitBluetooth, InitWifi, DeviceStep
<1>4. CASE GiveUpFirmware
  <2>1. step' = "off" /\ phase' = "factory_reset" /\ UNCHANGED <<me, linked, chip, past>>
    BY <1>4 DEF GiveUpFirmware, BeginFactoryReset
  <2>2. Chip' /\ LockedIsWhole' /\ Identity'
    BY <2>1, ChipUntouched DEF past
  <2>3. StartTypes'
    BY <2>1 DEF StartTypes, Bounds, Past, Steps, IInv, past
  <2> QED
    BY <2>1, <2>2, <2>3 DEF Awake
<1>5. CASE StartTasks
  <2>1. /\ step = "start" /\ step' = "running" /\ shown' = shown \cup {me.PublicKey}
        /\ phase' = phase /\ UNCHANGED <<me, linked, chip, faults, cuts, refused>>
    BY <1>5 DEF StartTasks, vars
  <2>2. Chip' /\ LockedIsWhole'
    BY <2>1 DEF Chip, Writing, LockedIsWhole, IInv
  <2>3. Identity'
    BY <2>1 DEF Identity, Anonymous, IInv
  <2>4. me.PublicKey \in Nat
    BY DEF IInv, StartTypes, Persons
  <2>5. StartTypes'
    BY <2>1, <2>4 DEF StartTypes, Bounds, Past, Steps, IInv
  <2> QED
    BY <2>1, <2>2, <2>3, <2>5 DEF Awake, IInv
<1> QED
  BY <1>1, <1>3, <1>4, <1>5 DEF OnInit

\* The actions around onInit.
LEMMA AroundKeeps ==
  ASSUME IInv,
         \/ CheckUpdate \/ GetUpdate \/ ResetDone \/ SwitchOn \/ Cut \/ GotAddress
         \/ LinkChanges \/ Idle \/ Lasts \/ AskUpdate \/ SetRadio \/ UNCHANGED allVars
  PROVE  StartTypes' /\ Awake' /\ Chip' /\ LockedIsWhole' /\ Identity'
<1>1. CASE CheckUpdate \/ GetUpdate
  <2>1. phase \in {"app_main", "download"} /\ step = "off"
    BY <1>1 DEF CheckUpdate, GetUpdate, CheckForOta, Download, Awake, IInv
  <2>2. /\ step' = (IF phase' = "onInit" THEN "open" ELSE "off")
        /\ UNCHANGED <<me, chip, past>> /\ linked' \in {linked, FALSE}
    BY <1>1 DEF CheckUpdate, GetUpdate, Begins
  <2>3. Chip' /\ LockedIsWhole' /\ Identity'
    BY <2>1, <2>2, ChipUntouched DEF past
  <2>4. StartTypes'
    BY <2>2 DEF StartTypes, Bounds, Past, Steps, ChipStep, IInv, past
  <2> QED
    BY <2>2, <2>3, <2>4 DEF Awake
<1>2. CASE ResetDone \/ Cut \/ SetRadio
  <2>1. /\ step' = "off" /\ me' = Nobody /\ linked' \in {linked, FALSE}
        /\ UNCHANGED <<chip, faults, refused, shown>>
    BY <1>2 DEF ResetDone, Cut, SetRadio, Forget, InMenu, past
  <2>5. cuts' = cuts \/ (cuts < MaxCuts /\ cuts' = cuts + 1)
    BY <1>2 DEF ResetDone, Cut, SetRadio, InMenu, past
  <2>6. cuts' \in 0..MaxCuts
    BY <2>5, FaultAssumption DEF IInv, StartTypes, Bounds
  <2>2. Chip' /\ LockedIsWhole' /\ Identity'
    BY <2>1, ChipUntouched
  <2>3. Nobody \in Persons
    BY DEF Nobody, NoKey, Persons
  <2>4. StartTypes'
    BY <2>1, <2>3, <2>6 DEF StartTypes, Bounds, Past, Steps, IInv
  <2> QED
    BY <2>1, <2>2, <2>4 DEF Awake
<1>3. CASE SwitchOn \/ GotAddress \/ LinkChanges \/ Idle \/ Lasts \/ AskUpdate \/ UNCHANGED allVars
  <2>1. UNCHANGED <<step, me, chip, past>> /\ linked' \in BOOLEAN
    BY <1>3 DEF SwitchOn, GotAddress, LinkChanges, Idle, Lasts, AskUpdate, InMenu, start, allVars,
       IInv, StartTypes, Bounds
  <2>2. \/ step = "off" /\ phase \in {"off", "connect", "download"}
           /\ phase' \in {"app_main", "download"}
        \/ phase' = phase
        \/ step = "running" /\ phase' = "halted"
    BY <1>3 DEF SwitchOn, PowerOn, esp_restart, GotAddress, GotIp, LinkChanges, Idle, IdleSecond,
       Lasts, BootLasts, AskUpdate, AskForOta, InMenu, allVars, vars, Awake, IInv
  <2>3. Awake'
    BY <2>1, <2>2 DEF Awake, IInv
  <2>4. StartTypes'
    BY <2>1 DEF StartTypes, Bounds, Past, IInv, past
  <2>5. Chip' /\ LockedIsWhole'
    BY <2>1 DEF Chip, LockedIsWhole, IInv, past
  <2>6. Identity'
    BY <2>1, <2>2 DEF Identity, Anonymous, IInv, past
  <2> QED
    BY <2>3, <2>4, <2>5, <2>6
<1> QED
  BY <1>1, <1>2, <1>3

LEMMA NextIInv == IInv /\ [StartNext]_allVars => IInv'
<1> SUFFICES ASSUME IInv, [StartNext]_allVars PROVE IInv'
  OBVIOUS
<1>1. [Next]_vars
  BY StepIsBoot DEF IInv
<1>2. Counted'
  BY <1>1, NextCounted DEF IInv
<1>3. CASE MyInfoInit
  BY <1>2, <1>3, CommandKeeps DEF IInv
<1>4. CASE OnInit
  BY <1>2, <1>4, OnInitKeeps DEF IInv
<1>5. CASE ~MyInfoInit /\ ~OnInit
  BY <1>2, <1>5, AroundKeeps DEF IInv, StartNext, StartUps
<1> QED
  BY <1>3, <1>4, <1>5

-----------------------------------------------------------------------------
(* Theorems. *)

LEMMA AlwaysIInv == StartSpec => []IInv
<1> QED
  BY InitIInv, NextIInv, PTL DEF StartSpec

\* The types of onInit's steps, of the chip and of what is read from it.
THEOREM StartUpTypeCorrect == StartSpec => []StartTypeOK
<1>1. IInv => StartTypeOK
  BY DEF IInv, StartTypes, StartTypeOK, Counted, Steps, Chips, Persons, Bounds, Past
<1> QED
  BY <1>1, AlwaysIInv, PTL

\* onInit step by step, with devices that do not start and power that fails
\* anywhere, is the one step BadgeBoot has for it, or a power failure.
THEOREM StartUpImplementsBoot == StartSpec => Init /\ [][Next]_vars
<1>1. StartInit => Init
  BY DEF StartInit
<1>2. IInv /\ [StartNext]_allVars => [Next]_vars
  BY StepIsBoot DEF IInv
<1> QED
  BY <1>1, <1>2, AlwaysIInv, PTL DEF StartSpec

\* MyInfo::init: a locked chip has its configuration, its texts and its key, but
\* for what it refused, wherever power failed.
THEOREM LockedChipIsWhole == StartSpec => []LockedIsWhole
<1>1. IInv => LockedIsWhole
  BY DEF IInv
<1> QED
  BY <1>1, AlwaysIInv, PTL

\* A badge shows its peers one key in its life, unless the chip refused the lock.
THEOREM IdentityIsOne == StartSpec => []OneIdentity
<1>1. ASSUME IInv, "lockData" \notin refused
      PROVE  ~(Cardinality(shown \ {NoKey}) > 1)
  <2>1. shown \ {NoKey} \subseteq {chip.key}
    BY <1>1 DEF IInv, Identity
  <2>2. IsFiniteSet({chip.key}) /\ Cardinality({chip.key}) = 1
    BY FS_Singleton
  <2>3. Cardinality(shown \ {NoKey}) \in Nat /\ Cardinality(shown \ {NoKey}) <= 1
    BY <2>1, <2>2, FS_Subset, FS_CardinalityType
  <2> QED
    BY <2>3
<1>2. IInv => OneIdentity
  BY <1>1 DEF OneIdentity
<1> QED
  BY <1>2, AlwaysIInv, PTL

\* The firmware of the factory comes back only after more than MaxAttempts boots in
\* a row that did not last: also when onInit is taken step by step.
THEOREM StartUpResetIsEarned == StartSpec => ResetEarned
<1>1. IInv /\ [StartNext]_allVars => [phase' = "factory_reset" => brief > MaxAttempts]_vars
  <2> SUFFICES ASSUME IInv, [StartNext]_allVars
      PROVE  [phase' = "factory_reset" => brief > MaxAttempts]_vars
    OBVIOUS
  <2>1. Counted /\ [Next]_vars
    BY StepIsBoot DEF IInv
  <2> QED
    BY <2>1, ResetStepIsEarned
<1> QED
  BY <1>1, AlwaysIInv, PTL DEF StartSpec, ResetEarned
=============================================================================

------------------------------ MODULE BadgeBoot -----------------------------
(***************************************************************************)
(* The badge from power on to its menu, and the firmware it runs: the      *)
(* update asked for in the settings menu (dc27.cpp, wifi.cpp do_ota), the  *)
(* count of boots that did not last (WIFITask::init, WIFITask::run) and    *)
(* the return to the firmware of the factory (factory_reset.h).            *)
(*                                                                         *)
(* NVS keeps what nvs_set_i32 wrote, committed or not, as ESP-IDF's does.  *)
(***************************************************************************)
EXTENDS Integers

CONSTANTS
  MaxAttempts,  \* 6: more boots than these that did not last are too many
  BootSuccess   \* BOOT_CONSIDERED_SUCCESS, 30

ASSUME LimitAssumption == MaxAttempts \in Nat /\ BootSuccess \in Nat

VARIABLES
  attempted_boot,  \* NVS: boots counted by WIFITask
  do_ota_flag,     \* NVS "do_ota": an update at the next start up
  ble,             \* NVS: start bluetooth, and no WIFITask
  partition,       \* the firmware the boot loader starts
  phase,           \* how far the badge has come
  since_boot,      \* seconds WIFITask has idled, -1 once they sufficed
  \* History, which no action reads:
  brief,           \* boots counted since one lasted or the factory reset
  asked            \* updates asked for and not begun

nvs == <<attempted_boot, do_ota_flag, ble>>
history == <<brief, asked>>
vars == <<nvs, partition, phase, since_boot, history>>

Phase == {"off", "app_main", "connect", "download", "onInit", "factory_reset", "menu", "halted"}

TypeOK ==
  /\ attempted_boot \in 0..(MaxAttempts + 1)
  /\ do_ota_flag \in 0..1
  /\ ble \in BOOLEAN
  /\ partition \in {"factory", "update"}
  /\ phase \in Phase
  /\ since_boot \in -1..(BootSuccess + 1)
  /\ brief \in Nat /\ asked \in 0..1

Init ==
  /\ attempted_boot = 0 /\ do_ota_flag = 0 /\ ble = FALSE
  /\ partition = "factory" /\ phase = "off" /\ since_boot = 0
  /\ brief = 0 /\ asked = 0

\* RAM is lost; the firmware of the partition starts with app_main.
esp_restart == phase' = "app_main" /\ since_boot' = 0

PowerOn ==
  /\ phase = "off"
  /\ esp_restart
  /\ UNCHANGED <<nvs, partition, history>>

\* The battery, the user, a panic or a watchdog.
PowerFails ==
  /\ phase # "off"
  /\ phase' = "off" /\ since_boot' = 0
  /\ UNCHANGED <<nvs, partition, history>>

\* The flag is gone before the update begins.
CheckForOta ==
  /\ phase = "app_main"
  /\ do_ota_flag' = 0
  /\ phase' = IF do_ota_flag = 1 THEN "connect" ELSE "onInit"
  /\ asked' = IF do_ota_flag = 1 THEN 0 ELSE asked
  /\ UNCHANGED <<attempted_boot, ble, partition, since_boot, brief>>

\* do_ota waits for the network as long as it takes.
GotIp ==
  /\ phase = "connect"
  /\ phase' = "download"
  /\ UNCHANGED <<nvs, partition, since_boot, history>>

\* esp_https_ota switches to the partition it has written only when all is there.
Download ==
  /\ phase = "download"
  /\ \/ /\ partition' = "update"
        /\ esp_restart
     \/ /\ phase' = "onInit"
        /\ UNCHANGED <<partition, since_boot>>
  /\ UNCHANGED <<nvs, brief, asked>>

\* DN8App::onInit with bluetooth: nobody counts the boot.
StartBLE ==
  /\ phase = "onInit" /\ ble
  /\ phase' = "menu"
  /\ UNCHANGED <<nvs, partition, since_boot, history>>

\* Wrong variant: the same firmware starts again.
BeginFactoryResetInPlace ==
  /\ phase = "onInit" /\ ~ble /\ attempted_boot > MaxAttempts
  /\ phase' = "factory_reset"
  /\ UNCHANGED <<nvs, partition, since_boot, history>>

BeginFactoryReset ==
  /\ phase = "onInit" /\ ~ble /\ attempted_boot > MaxAttempts
  /\ partition' = "factory"
  /\ phase' = "factory_reset"
  /\ UNCHANGED <<nvs, since_boot, history>>

\* Wrong variant: the counter stays.
FinishFactoryResetUncleared ==
  /\ phase = "factory_reset"
  /\ brief' = 0
  /\ esp_restart
  /\ UNCHANGED <<nvs, partition, asked>>

FinishFactoryReset ==
  /\ phase = "factory_reset"
  /\ attempted_boot' = 0
  /\ brief' = 0
  /\ esp_restart
  /\ UNCHANGED <<do_ota_flag, ble, partition, asked>>

CountBoot ==
  /\ phase = "onInit" /\ ~ble /\ attempted_boot <= MaxAttempts
  /\ attempted_boot' = attempted_boot + 1
  /\ brief' = brief + 1
  /\ phase' = "menu"
  /\ UNCHANGED <<do_ota_flag, ble, partition, since_boot, asked>>

WIFITask == phase \in {"menu", "halted"} /\ ~ble

\* A second without a request.
IdleSecond ==
  /\ WIFITask /\ since_boot \in 0..BootSuccess
  /\ since_boot' = since_boot + 1
  /\ UNCHANGED <<nvs, partition, phase, history>>

\* Wrong variant: the counter stays.
BootLastsUncounted ==
  /\ WIFITask /\ since_boot > BootSuccess
  /\ since_boot' = -1
  /\ brief' = 0
  /\ UNCHANGED <<nvs, partition, phase, asked>>

BootLasts ==
  /\ WIFITask /\ since_boot > BootSuccess
  /\ attempted_boot' = 0
  /\ since_boot' = -1
  /\ brief' = 0
  /\ UNCHANGED <<do_ota_flag, ble, partition, phase, asked>>

\* "OTA Update" and "Features" of the settings menu.  After the first the main
\* task loops for ever and the user is to switch the badge off and on.
AskForOta ==
  /\ phase = "menu"
  /\ do_ota_flag' = 1
  /\ asked' = 1
  /\ phase' = "halted"
  /\ UNCHANGED <<attempted_boot, ble, partition, since_boot, brief>>

SetBLE ==
  /\ phase = "menu"
  /\ ble' \in BOOLEAN
  /\ esp_restart
  /\ UNCHANGED <<attempted_boot, do_ota_flag, partition, history>>

Boot ==
  \/ CheckForOta
  \/ Download
  \/ StartBLE
  \/ BeginFactoryReset
  \/ FinishFactoryReset
  \/ CountBoot

Next ==
  \/ PowerOn
  \/ PowerFails
  \/ Boot
  \/ GotIp
  \/ IdleSecond
  \/ BootLasts
  \/ AskForOta
  \/ SetBLE

\* The badge is switched on again, or restarts after a panic, and its code runs on.
\* However often that happens, some boots get to the end of onInit.
Fairness ==
  /\ WF_vars(PowerOn)
  /\ WF_vars(Boot)
  /\ WF_vars(IdleSecond)
  /\ WF_vars(BootLasts)
  /\ SF_vars(CheckForOta)
  /\ SF_vars(StartBLE \/ CountBoot \/ BeginFactoryReset)
  /\ SF_vars(FinishFactoryReset)

Spec == Init /\ [][Next]_vars /\ Fairness

-----------------------------------------------------------------------------
\* WIFITask::init: the badge falls back to the firmware of the factory only when
\* more than MaxAttempts boots in a row did not last, whatever was cut short.
ResetEarned == [][phase' = "factory_reset" => brief > MaxAttempts]_vars

\* check_for_ota: one update is tried for one request, also when power fails
\* while the badge waits for the network or downloads.
OtaOnce == [][phase # "connect" /\ phase' = "connect" => asked = 1]_vars

\* The badge does not restart itself for ever: again and again it is at its
\* menu, waits for the network, or is off.
BootEnds == []<>(phase \in {"off", "connect", "menu", "halted"})

\* WIFITask::init: an update that never lasts is given up, unless the user starts
\* bluetooth or another update.
BadUpdateGivenUp ==
  []<>(partition = "factory" \/ since_boot = -1 \/ phase = "connect" \/ ble)
=============================================================================

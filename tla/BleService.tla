----------------------------- MODULE BleService -----------------------------
(***************************************************************************)
(* How the badge comes on the air and stays there (ble.cpp), around the    *)
(* commands and answers of GameMessages.  The badge asks the BLE stack for *)
(* things and goes on; the stack answers each request later by an event,   *)
(* in the order it likes, and the two event handlers ask for the next.     *)
(* They run in the stack's task, as the handling of a write does: while    *)
(* that waits for a slot in the game task's queue, no event is handled.    *)
(***************************************************************************)
EXTENDS GameMessages, FiniteSets

CONSTANT MaxRefusals  \* bound: requests the stack refuses or fails

(* The attribute table: the service, then five attributes for each game. *)
GameOrder == <<1, 0, 2, 3>>  \* exploitable, game master, brainfuzz, ttt3d
Parts == <<"recvChar", "recvVal", "notifyChar", "notifyVal", "notifyCfg">>
DN8_IDX_SVC == 0
DN8_IDX_NB == 1 + Len(GameOrder) * Len(Parts)
Place(i) == [game |-> GameOrder[1 + (i - 1) \div Len(Parts)],
             part |-> Parts[1 + ((i - 1) % Len(Parts))]]

\* The games' data and the switch for notifications can be written.
Permissions(i) ==
  IF i # DN8_IDX_SVC /\ Place(i).part \in {"recvVal", "notifyCfg"}
  THEN {"read", "write"} ELSE {"read"}
dn8_gatt_db == [i \in 0..(DN8_IDX_NB - 1) |-> Permissions(i)]

\* The game a write is for; a write of a switch is for none.
WrittenTo(i) == IF Place(i).part = "recvVal" THEN {Place(i).game} ELSE {}

ASSUME RefusalAssumption == MaxRefusals \in Nat

VARIABLES
  stack,      \* init_ble: "off", "up" or "failed"
  asked,      \* requests the stack has not answered yet
  advConfig,  \* adv_config_done: the data sets whose flag is set
  air,        \* the stack advertises the badge
  service,    \* dn8_handle_tbl is filled and the service started
  refusals,   \* requests refused so far
  deaf        \* history: a refusal left no request that leads to advertising

bleVars == <<stack, asked, advConfig, air, service, refusals, deaf>>

DataSets == {"adv", "scanRsp"}
Requests == {"register", "privacy", "table", "start"} \cup DataSets

BleTypeOK ==
  /\ stack \in {"off", "up", "failed"}
  /\ asked \subseteq Requests
  /\ advConfig \subseteq DataSets
  /\ air \in BOOLEAN /\ service \in BOOLEAN /\ deaf \in BOOLEAN
  /\ refusals \in 0..MaxRefusals

BleInit ==
  /\ Init
  /\ stack = "off"
  /\ asked = {} /\ advConfig = {} /\ refusals = 0
  /\ air = FALSE /\ service = FALSE /\ deaf = FALSE

Refuse(n) == refusals + n <= MaxRefusals /\ refusals' = refusals + n

\* Any of the seven calls may fail, and then none of the later ones is made;
\* BluetoothTask::init reports success all the same.
InitBle ==
  /\ stack = "off"
  /\ \/ stack' = "up" /\ asked' = {"register"} /\ UNCHANGED <<refusals, deaf>>
     \/ stack' = "failed" /\ Refuse(1) /\ deaf' = TRUE /\ UNCHANGED asked
  /\ UNCHANGED <<vars, advConfig, air, service>>

-----------------------------------------------------------------------------
(* Events: the stack answers a request. *)

StackAnswers(request, next) ==
  /\ writing = None
  /\ request \in asked
  /\ asked' = (asked \ {request}) \cup next
  /\ UNCHANGED <<vars, stack>>

Fails(request) ==
  /\ StackAnswers(request, {})
  /\ Refuse(1)

\* ESP_GATTS_REG_EVT
Registered ==
  \/ /\ StackAnswers("register", {"privacy", "table"})
     /\ UNCHANGED <<refusals, deaf, advConfig, air, service>>
  \/ Fails("register") /\ deaf' = TRUE /\ UNCHANGED <<advConfig, air, service>>

\* ESP_GATTS_CREAT_ATTR_TAB_EVT: without a table the badge advertises no service.
TableCreated ==
  \/ /\ StackAnswers("table", {})
     /\ service' = TRUE
     /\ UNCHANGED <<refusals, deaf, advConfig, air>>
  \/ Fails("table") /\ UNCHANGED <<deaf, advConfig, air, service>>

\* Wrong variant: a flag is set whether its data set was accepted or not.
PrivacySetFlagged ==
  \/ /\ \E accepted \in SUBSET DataSets :
          /\ StackAnswers("privacy", accepted)
          /\ Refuse(Cardinality(DataSets \ accepted))
          /\ advConfig' = DataSets
          /\ deaf' = (deaf \/ accepted = {})
     /\ UNCHANGED <<air, service>>
  \/ Fails("privacy") /\ deaf' = TRUE /\ UNCHANGED <<advConfig, air, service>>

\* ESP_GAP_BLE_SET_LOCAL_PRIVACY_COMPLETE_EVT
PrivacySet ==
  \/ /\ \E accepted \in SUBSET DataSets :
          /\ StackAnswers("privacy", accepted)
          /\ Refuse(Cardinality(DataSets \ accepted))
          /\ advConfig' = advConfig \cup accepted
          /\ deaf' = (deaf \/ accepted = {})
     /\ UNCHANGED <<air, service>>
  \/ Fails("privacy") /\ deaf' = TRUE /\ UNCHANGED <<advConfig, air, service>>

\* ESP_GAP_BLE_ADV_DATA_SET_COMPLETE_EVT and SCAN_RSP_DATA_SET_COMPLETE_EVT;
\* whether the data were set is not looked at.
DataSet(d) ==
  /\ advConfig' = advConfig \ {d}
  /\ StackAnswers(d, IF advConfig' = {} THEN {"start"} ELSE {})
  /\ UNCHANGED <<refusals, deaf, air, service>>

\* ESP_GAP_BLE_ADV_START_COMPLETE_EVT: a failure is only logged.
AdvStarted ==
  \/ /\ StackAnswers("start", {})
     /\ air' = TRUE
     /\ UNCHANGED <<refusals, deaf, advConfig, service>>
  \/ Fails("start") /\ deaf' = TRUE /\ UNCHANGED <<advConfig, air, service>>

StackEvent ==
  \/ Registered \/ TableCreated \/ PrivacySet \/ AdvStarted
  \/ \E d \in DataSets : DataSet(d)

-----------------------------------------------------------------------------
(* The events of GameMessages. *)

\* The stack ends advertising when a client connects.
ConnectEvent ==
  /\ air
  /\ Connect
  /\ air' = FALSE
  /\ UNCHANGED <<stack, asked, advConfig, service, refusals, deaf>>

DisconnectEvent ==
  /\ Disconnect
  /\ asked' = asked \cup {"start"}
  /\ UNCHANGED <<stack, advConfig, air, service, refusals, deaf>>

\* A client finds the games' characteristics once the service is started.  A
\* command too long for one write comes as prepared writes, which are ignored.
WriteEvents ==
  /\ service
  /\ \E i \in DOMAIN dn8_gatt_db, cmd \in Command :
       /\ "write" \in dn8_gatt_db[i]
       /\ GameOf[cmd] \in WrittenTo(i)
       /\ WriteTooEarly(cmd) \/ Write(cmd)
  /\ UNCHANGED bleVars

BleNext ==
  \/ InitBle \/ StackEvent \/ ConnectEvent \/ DisconnectEvent \/ WriteEvents
  \/ stack # "off" /\ OnInit /\ UNCHANGED bleVars
  \/ (SendRequest \/ GameTask \/ BluetoothTask) /\ UNCHANGED bleVars

\* As in GameMessages; and the stack answers every request in the end.
BleSpec ==
  /\ BleInit /\ [][BleNext]_<<vars, bleVars>>
  /\ WF_<<vars, bleVars>>(InitBle)
  /\ WF_<<vars, bleVars>>(StackEvent)
  /\ WF_<<vars, bleVars>>(SendRequest /\ UNCHANGED bleVars)
  /\ WF_<<vars, bleVars>>(GameTask /\ UNCHANGED bleVars)
  /\ WF_<<vars, bleVars>>(BluetoothTask /\ UNCHANGED bleVars)

-----------------------------------------------------------------------------
\* Whenever no one is connected the badge can be found again, after a client
\* has left as after the start, with one data set refused, with no service and
\* with the stack's task held up by the games: unless the stack refused what
\* alone leads there.
FoundAgain == [](client = 0 => <>(air \/ client # 0 \/ deaf))
=============================================================================

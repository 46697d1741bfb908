----------------------------- MODULE WifiMenus -----------------------------
(***************************************************************************)
(* The access point of the badge, its menus and its task                   *)
(* (menus/communications_settings.cpp, wifi.cpp, wifi.h).  Three tasks:    *)
(*   the main task runs "Comm Info" and the WiFi settings menu and sends   *)
(*     requests;                                                           *)
(*   the WiFi task carries them out, one by one, and answers those for a   *)
(*     status;                                                             *)
(*   the event task of the WiFi driver reports, later, that the access     *)
(*     point has come up or gone down.                                     *)
(* A send that finds no room in 10 ticks drops its message and no one      *)
(* looks at the result.  A badge set to bluetooth has no WiFi task.        *)
(* What a touch hits is chosen when it is read; text and SSIDs are left    *)
(* out but for whether an SSID is blank.                                   *)
(***************************************************************************)
EXTENDS Naturals, Sequences

CONSTANTS
  REQUEST_QUEUE_SIZE,  \* WIFITask::WIFI_QUEUE_SIZE, 3
  ANSWER_QUEUE_SIZE,   \* CommunicationSettingState::WIFI_QUEUE_SIZE, 4
  TOUCH_QUEUE_SIZE,    \* 8
  MaxVisits,           \* bound: visits of "Comm Info"
  MaxSubmits           \* bound: requests for the access point

ASSUME SizeAssumption ==
  /\ REQUEST_QUEUE_SIZE \in Nat \ {0} /\ ANSWER_QUEUE_SIZE \in Nat \ {0}
  /\ TOUCH_QUEUE_SIZE \in Nat \ {0}
  /\ MaxVisits \in Nat /\ MaxSubmits \in Nat

NO_WORKING_TIME == 65535
WIFI_AUTH_OPEN == 0
WIFI_AUTH_WEP == 1
WIFI_AUTH_MAX == 6
ItemCount == 7
None == [none |-> TRUE]

VARIABLES
  wifiOn,         \* DN8App::getWifiTask is not null
  menu,           \* the current menu, "elsewhere" if it is none of these
  InternalState,  \* of "Comm Info"
  shown,          \* its row 0: the answer to which visit's request, 0 for "OFF"
  registered,     \* its queue observes the touch screen
  touches,        \* touches waiting in its queue
  APStatus, blank, SecurityType, WorkingItem,  \* of the WiFi menu
  requests,       \* the WiFi task's queue
  doing,          \* the answer the WiFi task is sending
  answers,        \* the queue of answers to "Comm Info"
  radio,          \* the access point is up
  events,         \* the driver's events that are not handled yet
  APStarted,      \* what the event handler knows of the access point
  server,         \* Port80WebServer runs
  visits, submits,
  missed,         \* history: visits that saw no answer in 100 ms
  overtaken       \* history: the access point went down before its start was reported

menuVars == <<menu, InternalState, shown, registered, touches, visits, missed>>
settingVars == <<APStatus, blank, SecurityType, WorkingItem>>
taskVars == <<doing, answers, radio, events, APStarted, server, overtaken>>
vars == <<wifiOn, menuVars, settingVars, taskVars, requests, submits>>

Request == [cmd : {"WIFI_STATUS"}, visit : 1..MaxVisits]
             \cup [cmd : {"WIFI_AP_START", "WIFI_AP_STOP"}]
\* What a status tells is whether the access point has started; which visit
\* asked for it is not in the message.
StatusMsg == [ap : BOOLEAN, visit : 1..MaxVisits]
Answer == StatusMsg

TypeOK ==
  /\ wifiOn \in BOOLEAN
  /\ menu \in {"elsewhere", "comm", "wifi", "message"}
  /\ InternalState \in {"NONE", "FETCHING_DATA", "DISPLAY_DATA"}
  /\ shown \in 0..MaxVisits
  /\ registered \in BOOLEAN /\ (registered => menu = "comm")
  /\ touches \in 0..TOUCH_QUEUE_SIZE
  /\ APStatus \in BOOLEAN /\ blank \in BOOLEAN
  /\ SecurityType \in 0..(WIFI_AUTH_MAX - 1)
  /\ WorkingItem \in 0..(ItemCount - 1) \cup {NO_WORKING_TIME}
  /\ requests \in Seq(Request) /\ Len(requests) <= REQUEST_QUEUE_SIZE
  /\ doing = None \/ doing \in Answer
  /\ answers \in Seq(Answer) /\ Len(answers) <= ANSWER_QUEUE_SIZE
  /\ radio \in BOOLEAN /\ APStarted \in BOOLEAN /\ server \in BOOLEAN
  /\ events \in Seq({"apStart", "apStop"})
  /\ visits \in 0..MaxVisits /\ submits \in 0..MaxSubmits
  /\ missed \in 0..visits /\ overtaken \in BOOLEAN

Init ==
  /\ wifiOn \in BOOLEAN
  /\ menu = "elsewhere" /\ InternalState = "NONE" /\ shown = 0
  /\ registered = FALSE /\ touches = 0
  /\ APStatus = FALSE /\ blank = TRUE /\ SecurityType = WIFI_AUTH_OPEN
  /\ WorkingItem = NO_WORKING_TIME
  /\ requests = <<>> /\ doing = None /\ answers = <<>>
  /\ radio = FALSE /\ events = <<>> /\ APStarted = FALSE /\ server = FALSE
  /\ visits = 0 /\ submits = 0 /\ missed = 0 /\ overtaken = FALSE

\* xQueueSend: 10 ticks without room and the request is lost.
Send(r) ==
  requests' = IF Len(requests) < REQUEST_QUEUE_SIZE THEN Append(requests, r) ELSE requests

-----------------------------------------------------------------------------
(* "Comm Info", CommunicationSettingState. *)

\* onInit: ask for the status, forget two of the touches of the last visit.
CommInit ==
  /\ visits < MaxVisits
  /\ visits' = visits + 1
  /\ menu' = "comm"
  /\ InternalState' = "FETCHING_DATA"
  /\ shown' = 0
  /\ touches' = IF touches > 2 THEN touches - 2 ELSE 0
  /\ IF wifiOn THEN Send([cmd |-> "WIFI_STATUS", visit |-> visits']) ELSE UNCHANGED requests
  /\ UNCHANGED <<wifiOn, registered, missed, taskVars, submits>>

EnterComm == menu = "elsewhere" /\ CommInit /\ UNCHANGED settingVars

\* Wrong variant: the answer stays in the queue.
ReceiveStatusPeek ==
  /\ menu = "comm" /\ InternalState = "FETCHING_DATA"
  /\ answers # <<>>
  /\ shown' = Head(answers).visit
  /\ APStatus' = Head(answers).ap
  /\ registered' = TRUE
  /\ InternalState' = "DISPLAY_DATA"
  /\ UNCHANGED <<wifiOn, menu, touches, visits, missed, blank, SecurityType, WorkingItem,
                 requests, submits, taskVars>>

\* The oldest answer in the queue, be it to this visit's request or another's.
ReceiveStatus ==
  /\ menu = "comm" /\ InternalState = "FETCHING_DATA"
  /\ answers # <<>>
  /\ shown' = Head(answers).visit
  /\ APStatus' = Head(answers).ap
  /\ answers' = Tail(answers)
  /\ registered' = TRUE
  /\ InternalState' = "DISPLAY_DATA"
  /\ UNCHANGED <<wifiOn, menu, touches, visits, missed, blank, SecurityType, WorkingItem,
                 requests, submits, doing, radio, events, APStarted, server, overtaken>>

\* 100 ms without an answer: "OFF", and no observer.
FetchTimeout ==
  /\ menu = "comm" /\ InternalState = "FETCHING_DATA"
  /\ answers = <<>>
  /\ APStatus' = FALSE
  /\ InternalState' = "DISPLAY_DATA"
  /\ missed' = missed + 1
  /\ UNCHANGED <<wifiOn, menu, shown, registered, touches, visits, blank, SecurityType,
                 WorkingItem, requests, submits, taskVars>>

Touch ==
  /\ registered /\ touches < TOUCH_QUEUE_SIZE
  /\ touches' = touches + 1
  /\ UNCHANGED <<wifiOn, menu, InternalState, shown, registered, visits, missed,
                 settingVars, requests, submits, taskVars>>

Displayed == menu = "comm" /\ InternalState = "DISPLAY_DATA"

CommShutdown == registered' = FALSE

\* WiFiMenu::onInit blanks the SSID that setSSID had just set.
OpenWiFi ==
  /\ wifiOn
  /\ menu' = "wifi"
  /\ CommShutdown
  /\ blank' = TRUE
  /\ WorkingItem' = NO_WORKING_TIME
  /\ UNCHANGED <<wifiOn, InternalState, shown, visits, missed, APStatus, SecurityType,
                 requests, submits, taskVars>>

\* A button, whatever the list selects: row 0 opens the WiFi menu.
CommFire == Displayed /\ OpenWiFi /\ UNCHANGED touches

\* A touch that selects a row, or is released on one that opens nothing.
CommTouched ==
  /\ Displayed /\ touches > 0
  /\ touches' = touches - 1
  /\ UNCHANGED <<wifiOn, menu, InternalState, shown, registered, visits, missed,
                 settingVars, requests, submits, taskVars>>

CommTouchOpens == Displayed /\ touches > 0 /\ touches' = touches - 1 /\ OpenWiFi

\* Only a touch of the header leads back to the main menu.
CommHeader ==
  /\ Displayed /\ touches > 0
  /\ touches' = touches - 1
  /\ menu' = "elsewhere"
  /\ CommShutdown
  /\ UNCHANGED <<wifiOn, InternalState, shown, visits, missed,
                 settingVars, requests, submits, taskVars>>

-----------------------------------------------------------------------------
(* The WiFi settings, WiFiMenu. *)

InWiFi(item) ==
  /\ menu = "wifi" /\ WorkingItem = item
  /\ UNCHANGED <<wifiOn, InternalState, shown, registered, visits, missed, touches, taskVars>>


\* An item is released or fired: 5 and 6 are rows of no item, 4 submits.
ChooseItem(item) ==
  /\ InWiFi(NO_WORKING_TIME)
  /\ item = 4 => blank
  /\ WorkingItem' = item
  /\ UNCHANGED <<menu, APStatus, blank, SecurityType, requests, submits>>

\* The last item left standing is 4; onInit sets it right at the next visit.
Submit ==
  /\ InWiFi(NO_WORKING_TIME)
  /\ ~blank /\ submits < MaxSubmits
  /\ submits' = submits + 1
  /\ Send([cmd |-> IF APStatus THEN "WIFI_AP_START" ELSE "WIFI_AP_STOP"])
  /\ WorkingItem' = 4
  /\ menu' = "message"
  /\ UNCHANGED <<APStatus, blank, SecurityType>>

\* backAction, or a touch of the header.
LeaveWiFi ==
  /\ menu = "wifi" /\ WorkingItem = NO_WORKING_TIME
  /\ CommInit
  /\ UNCHANGED settingVars

\* Wrong variant: nothing ends the password.
EndItemNotPassword(item) ==
  /\ InWiFi(item) /\ item # 3
  /\ WorkingItem' = NO_WORKING_TIME
  /\ UNCHANGED <<menu, APStatus, blank, SecurityType, requests, submits>>

EndItem(item) ==
  /\ InWiFi(item)
  /\ WorkingItem' = NO_WORKING_TIME
  /\ UNCHANGED <<menu, APStatus, blank, SecurityType, requests, submits>>

ToggleAP ==
  /\ InWiFi(0)
  /\ APStatus' = ~APStatus
  /\ UNCHANGED <<menu, blank, SecurityType, WorkingItem, requests, submits>>

SetSecurity(type) ==
  /\ InWiFi(1)
  /\ SecurityType' = type
  /\ UNCHANGED <<menu, APStatus, blank, WorkingItem, requests, submits>>

SecurityUp ==
  SetSecurity((IF SecurityType + 1 = WIFI_AUTH_WEP THEN SecurityType + 2
               ELSE SecurityType + 1) % WIFI_AUTH_MAX)
SecurityDown == SecurityType # WIFI_AUTH_OPEN /\ SetSecurity(SecurityType - 1)

\* The keyboard; the key past the last one enters the end of the string.
TypeSSID ==
  /\ InWiFi(2)
  /\ blank' \in BOOLEAN
  /\ UNCHANGED <<menu, APStatus, SecurityType, WorkingItem, requests, submits>>

\* DisplayMessageState "Updating ESP", then "Comm Info" again.
MessageEnds == menu = "message" /\ CommInit /\ UNCHANGED settingVars

\* DN8App::onRun leaves any menu when neither a button nor the screen was used.
ScreenSaver ==
  /\ menu \in {"comm", "wifi"} /\ (menu = "comm" => InternalState = "DISPLAY_DATA")
  /\ menu' = "elsewhere"
  /\ CommShutdown
  /\ UNCHANGED <<wifiOn, InternalState, shown, touches, visits, missed,
                 settingVars, requests, submits, taskVars>>

-----------------------------------------------------------------------------
(* WIFITask::run. *)

Task == UNCHANGED <<wifiOn, menuVars, settingVars, submits>>

Take(cmd) ==
  /\ doing = None
  /\ requests # <<>> /\ Head(requests).cmd = cmd
  /\ requests' = Tail(requests)
  /\ Task

handleStatus ==
  /\ Take("WIFI_STATUS")
  /\ doing' = [ap |-> APStarted, visit |-> Head(requests).visit]
  /\ UNCHANGED <<answers, radio, events, APStarted, server, overtaken>>

Answered ==
  /\ doing # None /\ Len(answers) < ANSWER_QUEUE_SIZE
  /\ answers' = Append(answers, doing)
  /\ doing' = None
  /\ UNCHANGED <<requests, radio, events, APStarted, server, overtaken>>
  /\ Task

AnswerTimeout ==
  /\ doing # None /\ Len(answers) = ANSWER_QUEUE_SIZE
  /\ doing' = None
  /\ UNCHANGED <<requests, answers, radio, events, APStarted, server, overtaken>>
  /\ Task

startAp ==
  /\ Take("WIFI_AP_START")
  /\ radio' = TRUE
  /\ events' = Append(events, "apStart")
  /\ UNCHANGED <<doing, answers, APStarted, server, overtaken>>

\* The driver refuses, for a password that is too short, say: nobody is told.
startApFails ==
  /\ Take("WIFI_AP_START")
  /\ UNCHANGED taskVars

\* The web server first, then the radio; the driver tells if it was up.
stopAp ==
  /\ Take("WIFI_AP_STOP")
  /\ server' = FALSE
  /\ radio' = FALSE
  /\ events' = IF radio THEN Append(events, "apStop") ELSE events
  /\ overtaken' = (overtaken \/ \E i \in DOMAIN events : events[i] = "apStart")
  /\ UNCHANGED <<doing, answers, APStarted>>

\* MyWiFiEventHandler, in the task of the driver's events.
Event(e) ==
  /\ events # <<>> /\ Head(events) = e
  /\ events' = Tail(events)
  /\ UNCHANGED <<doing, answers, radio, overtaken, requests>>
  /\ Task

apStart == Event("apStart") /\ APStarted' = TRUE /\ server' = TRUE

\* Wrong variant: the flag stays as it is.
apStopKeeps == Event("apStop") /\ UNCHANGED <<APStarted, server>>

apStop == Event("apStop") /\ APStarted' = FALSE /\ UNCHANGED server

-----------------------------------------------------------------------------
Comm ==
  \/ EnterComm \/ ReceiveStatus \/ FetchTimeout
  \/ CommFire \/ CommTouched \/ CommTouchOpens \/ CommHeader
WiFi ==
  \/ \E item \in 0..(ItemCount - 1) : ChooseItem(item)
  \/ \E item \in 0..3 : EndItem(item)
  \/ Submit \/ LeaveWiFi \/ ToggleAP \/ SecurityUp \/ SecurityDown \/ TypeSSID
  \/ MessageEnds
WifiTask ==
  \/ handleStatus \/ Answered \/ AnswerTimeout
  \/ startAp \/ startApFails \/ stopAp
EventTask == apStart \/ apStop

Next == Comm \/ WiFi \/ Touch \/ ScreenSaver \/ WifiTask \/ EventTask

Spec == Init /\ [][Next]_vars

-----------------------------------------------------------------------------
(* Properties. *)

\* Answers come late, are lost when a queue is full and are not matched with
\* their request; still the status on the screen was asked for at most as many
\* visits ago as there were visits that saw no answer.
StaleByMissedVisits == shown # 0 => shown + missed >= visits

\* Once its events are handled the status a request reports is what the access
\* point does, and the access point has its web server; a server is left
\* without an access point only if a stop came before the start was reported.
StatusSettles ==
  events = <<>> =>
    /\ APStarted = radio
    /\ radio => server
    /\ server /\ ~radio => overtaken

\* What the user could do to leave.
WaysOut == CommFire \/ CommHeader \/ LeaveWiFi \/ Submit
             \/ \E item \in 0..3 : EndItem(item)

\* The two places where the user is trapped: "Comm Info" of a badge with bluetooth, where
\* no touch arrives and no button leads back, and an item of the WiFi menu with no way to
\* end.
Trapped ==
  \/ Displayed /\ ~wifiOn /\ touches = 0
  \/ menu = "wifi" /\ WorkingItem \in 4..6

\* The user is trapped in exactly these places.
TrappedOnlyThere ==
  menu \in {"comm", "wifi"} /\ (menu = "comm" => InternalState = "DISPLAY_DATA")
    /\ visits < MaxVisits =>
    (~ENABLED WaysOut <=> Trapped)

\* Once trapped, nothing but the screen saver leads out: no answer, event or touch that is
\* still to come lets the user go on.
TrappedStays == [][Trapped => Trapped' \/ ScreenSaver]_vars
=============================================================================

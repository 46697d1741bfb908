--------------------------- MODULE WifiMenusProofs --------------------------
(* How old a status may be, and what the access point settles to, for queues *)
(* of any size and any number of visits.                                     *)
EXTENDS WifiMenus, Integers, TLAPS

\* Visits that saw an answer.
Seen == visits - missed - (IF InternalState = "FETCHING_DATA" THEN 1 ELSE 0)

\* What the pipeline holds was asked for later than there were visits that saw an
\* answer, for each of those took one.
Waiting(v) == Seen < v /\ v <= visits
AllWaiting ==
  /\ \A i \in DOMAIN answers : Waiting(answers[i].visit)
  /\ doing # None => Waiting(doing.visit)
  /\ \A i \in DOMAIN requests : requests[i].cmd = "WIFI_STATUS" => Waiting(requests[i].visit)

\* Answers, the one that is sent and the requests are in the order of their visits.
InOrder ==
  /\ \A i, j \in DOMAIN answers : i < j => answers[i].visit < answers[j].visit
  /\ doing # None => \A i \in DOMAIN answers : answers[i].visit < doing.visit
  /\ \A j \in DOMAIN requests : requests[j].cmd = "WIFI_STATUS" =>
       /\ \A i \in DOMAIN answers : answers[i].visit < requests[j].visit
       /\ doing # None => doing.visit < requests[j].visit
       /\ \A i \in DOMAIN requests :
            i < j /\ requests[i].cmd = "WIFI_STATUS" => requests[i].visit < requests[j].visit

Visits ==
  /\ menu # "comm" => InternalState # "FETCHING_DATA"
  /\ InternalState = "FETCHING_DATA" => shown = 0 /\ missed < visits
  /\ StaleByMissedVisits

\* What the access point does is what it was last reported to do, or will be.
StartIn(s) == \E i \in DOMAIN s : s[i] = "apStart"
LastIsStart(s) == s # <<>> /\ s[Len(s)] = "apStart"
Settling ==
  /\ events = <<>> => (APStarted <=> radio)
  /\ events # <<>> => (LastIsStart(events) <=> radio)
  /\ radio => server \/ StartIn(events)
  /\ ~radio /\ StartIn(events) => overtaken
  /\ server /\ ~radio => overtaken

IInv == TypeOK /\ Visits /\ AllWaiting /\ InOrder /\ Settling

-----------------------------------------------------------------------------
(* Types. *)

FlagTypes ==
  /\ wifiOn \in BOOLEAN /\ APStatus \in BOOLEAN /\ blank \in BOOLEAN /\ registered \in BOOLEAN
  /\ radio \in BOOLEAN /\ APStarted \in BOOLEAN /\ server \in BOOLEAN /\ overtaken \in BOOLEAN
MenuTypes ==
  /\ menu \in {"elsewhere", "comm", "wifi", "message"}
  /\ InternalState \in {"NONE", "FETCHING_DATA", "DISPLAY_DATA"}
RegisteredType == registered => menu = "comm"
VisitTypes == visits \in 0..MaxVisits /\ missed \in 0..visits /\ shown \in 0..MaxVisits
CountTypes ==
  /\ touches \in 0..TOUCH_QUEUE_SIZE
  /\ SecurityType \in 0..(WIFI_AUTH_MAX - 1)
  /\ WorkingItem \in 0..(ItemCount - 1) \cup {NO_WORKING_TIME}
  /\ submits \in 0..MaxSubmits
RequestTypes == requests \in Seq(Request) /\ Len(requests) <= REQUEST_QUEUE_SIZE
DoingType == doing = None \/ doing \in Answer
AnswerTypes == answers \in Seq(Answer) /\ Len(answers) <= ANSWER_QUEUE_SIZE
EventTypes == events \in Seq({"apStart", "apStop"})
Types == FlagTypes /\ MenuTypes /\ RegisteredType /\ VisitTypes /\ CountTypes
           /\ RequestTypes /\ DoingType /\ AnswerTypes /\ EventTypes

LEMMA TypesAreTypeOK == Types <=> TypeOK
BY Zenon DEF Types, TypeOK, FlagTypes, MenuTypes, RegisteredType, VisitTypes, CountTypes, RequestTypes,
   DoingType, AnswerTypes, EventTypes

\* What is left when the first of a queue is taken.
LEMMA Tails ==
  ASSUME NEW S, NEW s \in Seq(S), s # <<>>
  PROVE  /\ Head(s) \in S /\ Head(s) = s[1] /\ 1 \in DOMAIN s
         /\ Tail(s) \in Seq(S) /\ Len(Tail(s)) = Len(s) - 1 /\ Len(s) \in Nat
         /\ \A i \in DOMAIN Tail(s) : i \in Nat \ {0} /\ i + 1 \in DOMAIN s /\ Tail(s)[i] = s[i + 1]
OBVIOUS

\* A queue that grows by one.
LEMMA Appends ==
  ASSUME NEW S, NEW s \in Seq(S), NEW e \in S
  PROVE  /\ Append(s, e) \in Seq(S) /\ Len(Append(s, e)) = Len(s) + 1 /\ Len(s) \in Nat
         /\ Append(s, e)[Len(s) + 1] = e
         /\ \A i \in DOMAIN Append(s, e) :
              (i \in DOMAIN s /\ Append(s, e)[i] = s[i]) \/ i = Len(s) + 1
OBVIOUS

LEMMA SendTypes ==
  ASSUME RequestTypes, NEW r \in Request, Send(r)
  PROVE  RequestTypes'
<1>1. CASE Len(requests) < REQUEST_QUEUE_SIZE
  BY <1>1, SizeAssumption DEF Send, RequestTypes
<1>2. CASE ~(Len(requests) < REQUEST_QUEUE_SIZE)
  BY <1>2 DEF Send, RequestTypes
<1> QED
  BY <1>1, <1>2

LEMMA FlagsStay ==
  ASSUME Types, Next
  PROVE  FlagTypes'
<1> USE DEF Types, FlagTypes
<1>1. CASE ReceiveStatus
  <2>1. Head(answers) \in Answer
    BY <1>1 DEF ReceiveStatus, AnswerTypes
  <2>2. Head(answers).ap \in BOOLEAN
    BY <2>1 DEF Answer, StatusMsg
  <2> QED
    BY <1>1, <2>2, Zenon DEF ReceiveStatus
<1>2. CASE EnterComm \/ LeaveWiFi \/ MessageEnds
  BY <1>2, Zenon DEF EnterComm, LeaveWiFi, MessageEnds, CommInit, taskVars, settingVars
<1>3. CASE FetchTimeout \/ Touch \/ CommTouched
  BY <1>3, Zenon DEF FetchTimeout, Touch, CommTouched, taskVars, settingVars
<1>4. CASE CommFire \/ CommTouchOpens \/ CommHeader \/ ScreenSaver
  BY <1>4, Zenon DEF CommFire, CommTouchOpens, CommHeader, ScreenSaver, OpenWiFi, CommShutdown,
     taskVars, settingVars
<1>5. CASE \/ \E item \in 0..(ItemCount - 1) : ChooseItem(item)
           \/ \E item \in 0..3 : EndItem(item)
           \/ Submit
  BY <1>5, Zenon DEF ChooseItem, EndItem, Submit, InWiFi, taskVars
<1>6. CASE ToggleAP \/ SecurityUp \/ SecurityDown \/ TypeSSID
  BY <1>6, Zenon DEF ToggleAP, SecurityUp, SecurityDown, SetSecurity, TypeSSID, InWiFi, taskVars
<1>7. CASE handleStatus \/ Answered \/ AnswerTimeout \/ startAp \/ startApFails
  BY <1>7, Zenon DEF handleStatus, Answered, AnswerTimeout, startAp, startApFails, Take, Task,
     taskVars, menuVars, settingVars
<1>8. CASE stopAp \/ apStart \/ apStop
  BY <1>8, Zenon DEF stopAp, apStart, apStop, Event, Take, Task, menuVars, settingVars
<1> QED
  BY <1>1, <1>2, <1>3, <1>4, <1>5, <1>6, <1>7, <1>8, Zenon DEF Next, Comm, WiFi, WifiTask, EventTask

LEMMA MenusStay ==
  ASSUME Types, Next
  PROVE  MenuTypes' /\ RegisteredType'
<1> USE DEF Types, MenuTypes, RegisteredType
<1>1. CASE ReceiveStatus \/ FetchTimeout \/ Touch \/ CommTouched
  BY <1>1 DEF ReceiveStatus, FetchTimeout, Touch, CommTouched
<1>2. CASE EnterComm \/ LeaveWiFi \/ MessageEnds
  BY <1>2 DEF EnterComm, LeaveWiFi, MessageEnds, CommInit
<1>3. CASE CommFire \/ CommTouchOpens \/ CommHeader \/ ScreenSaver
  BY <1>3 DEF CommFire, CommTouchOpens, CommHeader, ScreenSaver, OpenWiFi, CommShutdown
<1>4. CASE \/ \E item \in 0..(ItemCount - 1) : ChooseItem(item)
           \/ \E item \in 0..3 : EndItem(item)
  BY <1>4 DEF ChooseItem, EndItem, InWiFi
<1>5. CASE Submit
  <2>1. ~registered
    BY <1>5 DEF Submit, InWiFi
  <2> QED
    BY <1>5, <2>1 DEF Submit, InWiFi
<1>6. CASE ToggleAP \/ SecurityUp \/ SecurityDown \/ TypeSSID
  BY <1>6 DEF ToggleAP, SecurityUp, SecurityDown, SetSecurity, TypeSSID, InWiFi
<1>7. CASE WifiTask \/ EventTask
  BY <1>7 DEF WifiTask, EventTask, handleStatus, Answered, AnswerTimeout, startAp, startApFails,
     stopAp, apStart, apStop, Event, Take, Task, menuVars
<1> QED
  BY <1>1, <1>2, <1>3, <1>4, <1>5, <1>6, <1>7, Zenon DEF Next, Comm, WiFi

LEMMA VisitsStay ==
  ASSUME IInv, Types, Next
  PROVE  VisitTypes'
<1> USE SizeAssumption DEF Types, VisitTypes
<1>1. CASE EnterComm \/ LeaveWiFi \/ MessageEnds
  BY <1>1 DEF EnterComm, LeaveWiFi, MessageEnds, CommInit
<1>2. CASE ReceiveStatus
  <2>1. Head(answers) \in Answer
    BY <1>2 DEF ReceiveStatus, AnswerTypes
  <2>2. Head(answers).visit \in 1..MaxVisits
    BY <2>1 DEF Answer, StatusMsg
  <2> QED
    BY <1>2, <2>2 DEF ReceiveStatus
<1>3. CASE FetchTimeout
  <2>1. missed < visits
    BY <1>3 DEF FetchTimeout, IInv, Visits
  <2> QED
    BY <1>3, <2>1 DEF FetchTimeout
<1>4. CASE Touch \/ CommTouched \/ CommFire \/ CommTouchOpens \/ CommHeader \/ ScreenSaver
  BY <1>4 DEF Touch, CommTouched, CommFire, CommTouchOpens, CommHeader, ScreenSaver, OpenWiFi
<1>5. CASE \/ \E item \in 0..(ItemCount - 1) : ChooseItem(item)
           \/ \E item \in 0..3 : EndItem(item)
           \/ Submit
  BY <1>5 DEF ChooseItem, EndItem, Submit, InWiFi
<1>6. CASE ToggleAP \/ SecurityUp \/ SecurityDown \/ TypeSSID
  BY <1>6 DEF ToggleAP, SecurityUp, SecurityDown, SetSecurity, TypeSSID, InWiFi
<1>7. CASE WifiTask \/ EventTask
  BY <1>7 DEF WifiTask, EventTask, handleStatus, Answered, AnswerTimeout, startAp, startApFails,
     stopAp, apStart, apStop, Event, Take, Task, menuVars
<1> QED
  BY <1>1, <1>2, <1>3, <1>4, <1>5, <1>6, <1>7, Zenon DEF Next, Comm, WiFi

LEMMA CountsStay ==
  ASSUME Types, Next
  PROVE  CountTypes'
<1> USE SizeAssumption DEF Types, CountTypes, ItemCount, NO_WORKING_TIME, WIFI_AUTH_MAX
<1>1. CASE EnterComm \/ LeaveWiFi \/ MessageEnds
  BY <1>1 DEF EnterComm, LeaveWiFi, MessageEnds, CommInit, settingVars
<1>2. CASE ReceiveStatus \/ FetchTimeout \/ Touch
  BY <1>2 DEF ReceiveStatus, FetchTimeout, Touch, settingVars
<1>3. CASE CommTouched \/ CommHeader \/ ScreenSaver
  BY <1>3 DEF CommTouched, CommHeader, ScreenSaver, settingVars
<1>4. CASE CommFire \/ CommTouchOpens
  BY <1>4 DEF CommFire, CommTouchOpens, OpenWiFi
<1>5. CASE \/ \E item \in 0..(ItemCount - 1) : ChooseItem(item)
           \/ \E item \in 0..3 : EndItem(item)
           \/ Submit
  BY <1>5 DEF ChooseItem, EndItem, Submit, InWiFi
<1>6. CASE SecurityUp
  <2>1. SecurityType' \in 0..(WIFI_AUTH_MAX - 1)
    BY <1>6 DEF SecurityUp, SetSecurity, WIFI_AUTH_WEP
  <2> QED
    BY <1>6, <2>1 DEF SecurityUp, SetSecurity, InWiFi
<1>7. CASE SecurityDown
  BY <1>7 DEF SecurityDown, SetSecurity, InWiFi, WIFI_AUTH_OPEN
<1>8. CASE ToggleAP \/ TypeSSID
  BY <1>8 DEF ToggleAP, TypeSSID, InWiFi
<1>9. CASE WifiTask \/ EventTask
  <2>1. Task
    BY <1>9 DEF WifiTask, EventTask, handleStatus, Answered, AnswerTimeout, startAp, startApFails,
       stopAp, apStart, apStop, Event, Take
  <2> QED
    BY <2>1 DEF Task, menuVars, settingVars
<1> QED
  BY <1>1, <1>2, <1>3, <1>4, <1>5, <1>6, <1>7, <1>8, <1>9, SMT DEF Next, Comm, WiFi

\* The steps that leave the queues and what they hold alone.
Quiet == UNCHANGED <<requests, doing, answers, events, radio, APStarted, server, overtaken>>

LEMMA QuietSteps ==
  ASSUME \/ FetchTimeout \/ Touch \/ CommTouched \/ CommFire \/ CommTouchOpens \/ CommHeader
         \/ ScreenSaver \/ (\E item \in 0..(ItemCount - 1) : ChooseItem(item))
         \/ (\E item \in 0..3 : EndItem(item)) \/ ToggleAP \/ SecurityUp \/ SecurityDown \/ TypeSSID
  PROVE  Quiet
<1>1. CASE FetchTimeout \/ Touch \/ CommTouched
  BY <1>1 DEF FetchTimeout, Touch, CommTouched, Quiet, taskVars
<1>2. CASE CommFire \/ CommTouchOpens \/ CommHeader \/ ScreenSaver
  BY <1>2 DEF CommFire, CommTouchOpens, CommHeader, ScreenSaver, OpenWiFi, Quiet, taskVars
<1>3. CASE \/ \E item \in 0..(ItemCount - 1) : ChooseItem(item)
           \/ \E item \in 0..3 : EndItem(item)
  BY <1>3 DEF ChooseItem, EndItem, InWiFi, Quiet, taskVars
<1>4. CASE ToggleAP \/ SecurityUp \/ SecurityDown \/ TypeSSID
  BY <1>4 DEF ToggleAP, SecurityUp, SecurityDown, SetSecurity, TypeSSID, InWiFi, Quiet, taskVars
<1> QED
  BY <1>1, <1>2, <1>3, <1>4, Zenon

LEMMA QueuesStay ==
  ASSUME Types, Next
  PROVE  RequestTypes' /\ DoingType' /\ AnswerTypes' /\ EventTypes'
<1>1. CASE Quiet
  BY <1>1 DEF Quiet, Types, RequestTypes, DoingType, AnswerTypes, EventTypes
<1>2. CASE EnterComm \/ LeaveWiFi \/ MessageEnds
  <2>1. CommInit
    BY <1>2 DEF EnterComm, LeaveWiFi, MessageEnds
  <2>2. [cmd |-> "WIFI_STATUS", visit |-> visits'] \in Request
    BY <2>1, SizeAssumption DEF CommInit, Request, Types, VisitTypes
  <2>3. RequestTypes'
    BY <2>1, <2>2, SendTypes DEF CommInit, Types, RequestTypes
  <2> QED
    BY <2>1, <2>3 DEF CommInit, taskVars, Types, DoingType, AnswerTypes, EventTypes
<1>3. CASE Submit
  <2>1. [cmd |-> IF APStatus THEN "WIFI_AP_START" ELSE "WIFI_AP_STOP"] \in Request
    BY DEF Request
  <2>2. RequestTypes'
    BY <1>3, <2>1, SendTypes DEF Submit, Types
  <2> QED
    BY <1>3, <2>2 DEF Submit, InWiFi, taskVars, Types, DoingType, AnswerTypes, EventTypes
<1>4. CASE ReceiveStatus
  <2>1. AnswerTypes'
    <3>1. answers # <<>> /\ answers' = Tail(answers)
      BY <1>4 DEF ReceiveStatus
    <3> QED
      BY <3>1, Tails, SizeAssumption DEF Types, AnswerTypes
  <2> QED
    BY <1>4, <2>1 DEF ReceiveStatus, Types, RequestTypes, DoingType, EventTypes
<1>5. CASE handleStatus
  <2>1. Head(requests) \in Request /\ Head(requests).cmd = "WIFI_STATUS"
    BY <1>5 DEF handleStatus, Take, Types, RequestTypes
  <2>2. Head(requests).visit \in 1..MaxVisits
    BY <2>1 DEF Request
  <2>3. APStarted \in BOOLEAN
    BY DEF Types, FlagTypes
  <2>4. DoingType'
    <3>1. [ap |-> APStarted, visit |-> Head(requests).visit] \in Answer
      BY <2>2, <2>3, Zenon DEF Answer, StatusMsg
    <3> QED
      BY <1>5, <3>1 DEF handleStatus, DoingType
  <2>5. RequestTypes'
    <3>1. requests # <<>> /\ requests' = Tail(requests)
      BY <1>5 DEF handleStatus, Take
    <3> QED
      BY <3>1, Tails, SizeAssumption DEF Types, RequestTypes
  <2> QED
    BY <1>5, <2>4, <2>5 DEF handleStatus, Types, AnswerTypes, EventTypes
<1>6. CASE Answered
  <2>1. doing \in Answer
    BY <1>6 DEF Answered, Types, DoingType
  <2>2. AnswerTypes'
    BY <1>6, <2>1, SizeAssumption DEF Answered, Types, AnswerTypes
  <2> QED
    BY <1>6, <2>2 DEF Answered, Types, RequestTypes, DoingType, EventTypes
<1>7. CASE AnswerTimeout
  BY <1>7 DEF AnswerTimeout, Types, RequestTypes, DoingType, AnswerTypes, EventTypes
<1>8. CASE startAp \/ startApFails \/ stopAp
  <2>1. RequestTypes'
    <3>1. requests # <<>> /\ requests' = Tail(requests)
      BY <1>8 DEF startAp, startApFails, stopAp, Take
    <3> QED
      BY <3>1, Tails, SizeAssumption DEF Types, RequestTypes
  <2>2. EventTypes'
    BY <1>8 DEF startAp, startApFails, stopAp, taskVars, Types, EventTypes
  <2>3. UNCHANGED <<doing, answers>>
    BY <1>8 DEF startAp, startApFails, stopAp, taskVars
  <2> QED
    BY <2>1, <2>2, <2>3 DEF Types, DoingType, AnswerTypes
<1>9. CASE apStart \/ apStop
  <2>1. Event("apStart") \/ Event("apStop")
    BY <1>9 DEF apStart, apStop
  <2>2. events' = Tail(events) /\ events # <<>> /\ UNCHANGED <<requests, doing, answers>>
    BY <2>1 DEF Event
  <2>3. EventTypes'
    BY <2>2 DEF Types, EventTypes
  <2> QED
    BY <2>2, <2>3 DEF Types, RequestTypes, DoingType, AnswerTypes
<1> QED
  BY <1>1, <1>2, <1>3, <1>4, <1>5, <1>6, <1>7, <1>8, <1>9, QuietSteps, Zenon
    DEF Next, Comm, WiFi, WifiTask, EventTask

LEMMA TypesStay ==
  ASSUME IInv, Types, Next
  PROVE  Types'
BY FlagsStay, MenusStay, VisitsStay, CountsStay, QueuesStay, Zenon DEF Types

-----------------------------------------------------------------------------
(* What the pipeline holds. *)

Pipeline == AllWaiting /\ InOrder

\* The visits of what the queues hold are numbers.
LEMMA VisitsAreNumbers ==
  ASSUME Types
  PROVE  /\ \A i \in DOMAIN answers : answers[i].visit \in Nat
         /\ doing # None => doing.visit \in Nat
         /\ \A i \in DOMAIN requests : requests[i].cmd = "WIFI_STATUS" => requests[i].visit \in Nat
         /\ visits \in Nat /\ missed \in Nat /\ missed <= visits /\ Seen \in Int /\ Seen <= visits
<1>1. \A i \in DOMAIN answers : answers[i].visit \in Nat
  <2> SUFFICES ASSUME NEW i \in DOMAIN answers PROVE answers[i].visit \in Nat
    OBVIOUS
  <2>1. answers[i] \in Answer
    BY DEF Types, AnswerTypes
  <2>2. answers[i].visit \in 1..MaxVisits
    BY <2>1 DEF Answer, StatusMsg
  <2> QED
    BY <2>2, SizeAssumption
<1>2. ASSUME doing # None PROVE doing.visit \in Nat
  <2>1. doing \in Answer
    BY <1>2 DEF Types, DoingType
  <2>2. doing.visit \in 1..MaxVisits
    BY <2>1 DEF Answer, StatusMsg
  <2> QED
    BY <2>2, SizeAssumption
<1>3. ASSUME NEW i \in DOMAIN requests, requests[i].cmd = "WIFI_STATUS" PROVE requests[i].visit \in Nat
  <2>1. requests[i] \in Request
    BY DEF Types, RequestTypes
  <2>2. requests[i].visit \in 1..MaxVisits
    BY <1>3, <2>1 DEF Request
  <2> QED
    BY <2>2, SizeAssumption
<1>4. visits \in Nat /\ missed \in Nat /\ missed <= visits
  BY SizeAssumption DEF Types, VisitTypes
<1>5. Seen \in Int /\ Seen <= visits
  BY <1>4 DEF Seen
<1> QED
  BY <1>1, <1>2, <1>3, <1>4, <1>5

\* Nothing moves, and a visit that begins or sees no answer leaves Seen alone.
LEMMA PipelineFrame ==
  ASSUME Types, Pipeline, UNCHANGED <<requests, doing, answers>>, Seen' = Seen,
         visits' \in Nat, visits' >= visits
  PROVE  Pipeline'
<1>1. \A v \in Nat : Waiting(v) => Waiting(v)'
  BY VisitsAreNumbers DEF Waiting
<1>2. AllWaiting'
  BY <1>1, VisitsAreNumbers DEF Pipeline, AllWaiting
<1>3. InOrder'
  BY DEF Pipeline, InOrder
<1> QED
  BY <1>2, <1>3 DEF Pipeline

\* A request is queued: for a status of this visit, or for the access point.
LEMMA PipelineSend ==
  ASSUME Types, Pipeline, UNCHANGED <<doing, answers>>, Seen' = Seen,
         NEW r \in Request, Send(r), visits' \in Nat, visits' >= visits,
         r.cmd = "WIFI_STATUS" => r.visit = visits' /\ visits' = visits + 1
  PROVE  Pipeline'
<1>1. CASE requests' = requests
  BY <1>1, PipelineFrame
<1>2. CASE requests' = Append(requests, r)
  <2>1. \A v \in Nat : Waiting(v) => Waiting(v)'
    BY VisitsAreNumbers DEF Waiting
  <2>2. r.cmd = "WIFI_STATUS" => r.visit \in Nat /\ Waiting(r.visit)'
    BY VisitsAreNumbers DEF Waiting
  <2>3. \A i \in DOMAIN requests' :
          \/ i \in DOMAIN requests /\ requests'[i] = requests[i]
          \/ i = Len(requests) + 1 /\ requests'[i] = r
    BY <1>2, Appends DEF Types, RequestTypes
  <2>4. AllWaiting'
    BY <2>1, <2>2, <2>3, VisitsAreNumbers DEF Pipeline, AllWaiting
  <2>5. \A i \in DOMAIN answers : answers[i].visit <= visits
    BY DEF Pipeline, AllWaiting, Waiting
  <2>6. doing # None => doing.visit <= visits
    BY DEF Pipeline, AllWaiting, Waiting
  <2>7. \A i \in DOMAIN requests : requests[i].cmd = "WIFI_STATUS" => requests[i].visit <= visits
    BY DEF Pipeline, AllWaiting, Waiting
  <2>8. \A i \in DOMAIN requests : i \in Nat /\ i <= Len(requests)
    BY DEF Types, RequestTypes
  <2>9. \A j \in DOMAIN requests' : requests'[j].cmd = "WIFI_STATUS" =>
          /\ \A i \in DOMAIN answers : answers[i].visit < requests'[j].visit
          /\ doing # None => doing.visit < requests'[j].visit
          /\ \A i \in DOMAIN requests' :
               i < j /\ requests'[i].cmd = "WIFI_STATUS" => requests'[i].visit < requests'[j].visit
    <3> SUFFICES ASSUME NEW j \in DOMAIN requests', requests'[j].cmd = "WIFI_STATUS"
                 PROVE  /\ \A i \in DOMAIN answers : answers[i].visit < requests'[j].visit
                        /\ doing # None => doing.visit < requests'[j].visit
                        /\ \A i \in DOMAIN requests' :
                             i < j /\ requests'[i].cmd = "WIFI_STATUS"
                               => requests'[i].visit < requests'[j].visit
      OBVIOUS
    <3>1. CASE j \in DOMAIN requests /\ requests'[j] = requests[j]
      <4>1. \A i \in DOMAIN requests' : i < j => i \in DOMAIN requests /\ requests'[i] = requests[i]
        BY <3>1, <2>3, <2>8 DEF Types, RequestTypes
      <4> QED
        BY <3>1, <4>1 DEF Pipeline, InOrder
    <3>2. CASE j = Len(requests) + 1 /\ requests'[j] = r
      <4>1. r.visit = visits + 1
        BY <3>2
      <4>2. \A i \in DOMAIN requests' : i < j => i \in DOMAIN requests /\ requests'[i] = requests[i]
        BY <3>2, <2>3, <2>8 DEF Types, RequestTypes
      <4> QED
        BY <3>2, <4>1, <4>2, <2>5, <2>6, <2>7, VisitsAreNumbers
    <3> QED
      BY <2>3, <3>1, <3>2
  <2> QED
    BY <2>4, <2>9 DEF Pipeline, InOrder
<1> QED
  BY <1>1, <1>2 DEF Send

\* The first request is taken: one for the access point, or one for a status that becomes
\* the answer that is sent.
LEMMA PipelineTake ==
  ASSUME Types, Pipeline, doing = None, requests # <<>>, requests' = Tail(requests),
         answers' = answers, Seen' = Seen, visits' = visits,
         \/ doing' = None
         \/ Head(requests).cmd = "WIFI_STATUS" /\ doing'.visit = Head(requests).visit
  PROVE  Pipeline'
<1>1. \A v \in Nat : Waiting(v) => Waiting(v)'
  BY VisitsAreNumbers DEF Waiting
<1>2. /\ Head(requests) = requests[1] /\ 1 \in DOMAIN requests
      /\ \A i \in DOMAIN requests' :
           i \in Nat \ {0} /\ i + 1 \in DOMAIN requests /\ requests'[i] = requests[i + 1]
  BY Tails DEF Types, RequestTypes
<1>3. AllWaiting'
  <2>1. doing' # None => Seen' < doing'.visit /\ doing'.visit <= visits'
    BY <1>1, <1>2, VisitsAreNumbers DEF Pipeline, AllWaiting, Waiting
  <2>2. \A i \in DOMAIN requests' : requests'[i].cmd = "WIFI_STATUS" =>
          Seen' < requests'[i].visit /\ requests'[i].visit <= visits'
    BY <1>1, <1>2, VisitsAreNumbers DEF Pipeline, AllWaiting, Waiting
  <2>3. \A i \in DOMAIN answers : Waiting(answers[i].visit)'
    BY <1>1, VisitsAreNumbers DEF Pipeline, AllWaiting
  <2> QED
    BY <2>1, <2>2, <2>3 DEF AllWaiting, Waiting
<1>4. doing' # None => \A i \in DOMAIN answers : answers[i].visit < doing'.visit
  BY <1>2 DEF Pipeline, InOrder
<1>5. \A j \in DOMAIN requests' : requests'[j].cmd = "WIFI_STATUS" =>
        /\ \A i \in DOMAIN answers : answers[i].visit < requests'[j].visit
        /\ \A i \in DOMAIN requests' :
             i < j /\ requests'[i].cmd = "WIFI_STATUS" => requests'[i].visit < requests'[j].visit
  BY <1>2 DEF Pipeline, InOrder
<1>6. \A j \in DOMAIN requests' : requests'[j].cmd = "WIFI_STATUS" /\ doing' # None =>
        doing'.visit < requests'[j].visit
  <2> SUFFICES ASSUME NEW j \in DOMAIN requests', requests'[j].cmd = "WIFI_STATUS", doing' # None
               PROVE  doing'.visit < requests'[j].visit
    OBVIOUS
  <2>1. 1 < j + 1 /\ requests[1].cmd = "WIFI_STATUS" /\ requests[j + 1].cmd = "WIFI_STATUS"
    BY <1>2
  <2>2. requests[1].visit < requests[j + 1].visit
    BY <1>2, <2>1 DEF Pipeline, InOrder
  <2> QED
    BY <1>2, <2>2
<1> QED
  BY <1>3, <1>4, <1>5, <1>6 DEF Pipeline, InOrder

\* The answer is sent, or given up.
LEMMA PipelineAnswered ==
  ASSUME Types, Pipeline, doing # None, doing' = None, requests' = requests,
         Seen' = Seen, visits' = visits,
         answers' = Append(answers, doing) \/ answers' = answers
  PROVE  Pipeline'
<1>1. \A v \in Nat : Waiting(v) => Waiting(v)'
  BY VisitsAreNumbers DEF Waiting
<1>2. CASE answers' = answers
  <2>1. AllWaiting'
    BY <1>1, <1>2, VisitsAreNumbers DEF Pipeline, AllWaiting
  <2> QED
    BY <1>2, <2>1 DEF Pipeline, InOrder
<1>3. CASE answers' = Append(answers, doing)
  <2>1. \A i \in DOMAIN answers' :
          \/ i \in DOMAIN answers /\ answers'[i] = answers[i]
          \/ i = Len(answers) + 1 /\ answers'[i] = doing
    BY <1>3, Appends DEF Types, AnswerTypes, DoingType
  <2>2. \A i \in DOMAIN answers : i \in Nat /\ i <= Len(answers)
    BY DEF Types, AnswerTypes
  <2>3. AllWaiting'
    BY <1>1, <2>1, VisitsAreNumbers DEF Pipeline, AllWaiting
  <2>4. \A i, j \in DOMAIN answers' : i < j => answers'[i].visit < answers'[j].visit
    <3> SUFFICES ASSUME NEW i \in DOMAIN answers', NEW j \in DOMAIN answers', i < j
                 PROVE  answers'[i].visit < answers'[j].visit
      OBVIOUS
    <3>1. i \in DOMAIN answers /\ answers'[i] = answers[i]
      BY <2>1, <2>2 DEF Types, AnswerTypes
    <3> QED
      BY <3>1, <2>1 DEF Pipeline, InOrder
  <2>5. \A j \in DOMAIN requests : requests[j].cmd = "WIFI_STATUS" =>
          \A i \in DOMAIN answers' : answers'[i].visit < requests[j].visit
    BY <2>1 DEF Pipeline, InOrder
  <2>6. \A j \in DOMAIN requests : requests[j].cmd = "WIFI_STATUS" =>
          \A i \in DOMAIN requests :
            i < j /\ requests[i].cmd = "WIFI_STATUS" => requests[i].visit < requests[j].visit
    BY DEF Pipeline, InOrder
  <2> QED
    BY <2>3, <2>4, <2>5, <2>6 DEF Pipeline, InOrder
<1> QED
  BY <1>2, <1>3

\* A visit sees an answer, the oldest: what is left is younger.
LEMMA PipelineReceive ==
  ASSUME Types, Pipeline, answers # <<>>, answers' = Tail(answers),
         UNCHANGED <<requests, doing>>, Seen' = Seen + 1, visits' = visits
  PROVE  Pipeline'
<1>1. /\ Head(answers) = answers[1] /\ 1 \in DOMAIN answers
      /\ \A i \in DOMAIN answers' :
           i \in Nat \ {0} /\ i + 1 \in DOMAIN answers /\ answers'[i] = answers[i + 1]
  BY Tails DEF Types, AnswerTypes
<1>2. \A v \in Nat : answers[1].visit < v /\ Waiting(v) => Waiting(v)'
  BY <1>1, VisitsAreNumbers DEF Pipeline, AllWaiting, Waiting
<1>3. AllWaiting'
  <2>1. \A i \in DOMAIN answers' : Seen' < answers'[i].visit /\ answers'[i].visit <= visits'
    <3> SUFFICES ASSUME NEW i \in DOMAIN answers'
                 PROVE  Seen' < answers'[i].visit /\ answers'[i].visit <= visits'
      OBVIOUS
    <3>1. 1 < i + 1
      BY <1>1
    <3>2. answers[1].visit < answers[i + 1].visit
      BY <1>1, <3>1 DEF Pipeline, InOrder
    <3> QED
      BY <1>1, <1>2, <3>2, VisitsAreNumbers DEF Pipeline, AllWaiting, Waiting
  <2>2. doing # None => Waiting(doing.visit)'
    BY <1>1, <1>2, VisitsAreNumbers DEF Pipeline, AllWaiting, InOrder
  <2>3. \A i \in DOMAIN requests : requests[i].cmd = "WIFI_STATUS" => Waiting(requests[i].visit)'
    BY <1>1, <1>2, VisitsAreNumbers DEF Pipeline, AllWaiting, InOrder
  <2> QED
    BY <2>1, <2>2, <2>3 DEF AllWaiting, Waiting
<1>4. \A i, j \in DOMAIN answers' : i < j => answers'[i].visit < answers'[j].visit
  BY <1>1 DEF Pipeline, InOrder
<1>5. doing # None => \A i \in DOMAIN answers' : answers'[i].visit < doing.visit
  BY <1>1 DEF Pipeline, InOrder
<1>6. \A j \in DOMAIN requests : requests[j].cmd = "WIFI_STATUS" =>
        /\ \A i \in DOMAIN answers' : answers'[i].visit < requests[j].visit
        /\ doing # None => doing.visit < requests[j].visit
        /\ \A i \in DOMAIN requests :
             i < j /\ requests[i].cmd = "WIFI_STATUS" => requests[i].visit < requests[j].visit
  BY <1>1 DEF Pipeline, InOrder
<1> QED
  BY <1>3, <1>4, <1>5, <1>6 DEF Pipeline, InOrder

LEMMA PipelineStays ==
  ASSUME IInv, Types, Next
  PROVE  Pipeline'
<1>0. Pipeline
  BY DEF IInv, Pipeline
<1>1. CASE EnterComm \/ LeaveWiFi \/ MessageEnds
  <2>1. CommInit /\ menu # "comm"
    BY <1>1 DEF EnterComm, LeaveWiFi, MessageEnds
  <2>2. /\ InternalState # "FETCHING_DATA" /\ InternalState' = "FETCHING_DATA"
        /\ visits' = visits + 1 /\ missed' = missed /\ visits < MaxVisits
        /\ UNCHANGED <<doing, answers>>
    BY <2>1 DEF CommInit, taskVars, IInv, Visits
  <2>3. Seen' = Seen /\ visits' \in Nat /\ visits' >= visits
    BY <2>2, VisitsAreNumbers DEF Seen
  <2>4. CASE wifiOn
    <3> DEFINE r == [cmd |-> "WIFI_STATUS", visit |-> visits']
    <3>1. r \in Request
      BY <2>2, VisitsAreNumbers, SizeAssumption DEF Request
    <3>2. r.visit = visits' /\ visits' = visits + 1
      BY <2>2
    <3>3. Send(r)
      BY <2>1, <2>4 DEF CommInit
    <3> HIDE DEF r
    <3> QED
      BY <1>0, <2>2, <2>3, <3>1, <3>2, <3>3, PipelineSend
  <2>5. CASE ~wifiOn
    <3>1. requests' = requests
      BY <2>1, <2>5 DEF CommInit
    <3> QED
      BY <1>0, <2>2, <2>3, <3>1, PipelineFrame
  <2> QED
    BY <2>4, <2>5
<1>2. CASE ReceiveStatus
  <2>1. Seen' = Seen + 1 /\ visits' = visits
    BY <1>2, VisitsAreNumbers DEF ReceiveStatus, Seen
  <2> QED
    BY <1>0, <1>2, <2>1, PipelineReceive DEF ReceiveStatus
<1>3. CASE FetchTimeout
  <2>1. Seen' = Seen /\ visits' = visits
    BY <1>3, VisitsAreNumbers DEF FetchTimeout, Seen
  <2> QED
    BY <1>0, <1>3, <2>1, PipelineFrame, VisitsAreNumbers DEF FetchTimeout, taskVars
<1>4. CASE Submit
  <2> DEFINE r == [cmd |-> IF APStatus THEN "WIFI_AP_START" ELSE "WIFI_AP_STOP"]
  <2>1. r \in Request /\ r.cmd # "WIFI_STATUS"
    BY DEF Request
  <2>2. Send(r)
    BY <1>4 DEF Submit
  <2>3. Seen' = Seen /\ visits' = visits /\ UNCHANGED <<doing, answers>>
    BY <1>4 DEF Submit, InWiFi, Seen, taskVars
  <2> HIDE DEF r
  <2> QED
    BY <1>0, <2>1, <2>2, <2>3, PipelineSend, VisitsAreNumbers
<1>5. CASE WifiTask \/ EventTask
  <2>1. Task
    BY <1>5 DEF WifiTask, EventTask, handleStatus, Answered, AnswerTimeout, startAp, startApFails,
       stopAp, apStart, apStop, Event, Take
  <2>2. Seen' = Seen /\ visits' = visits
    BY <2>1 DEF Task, menuVars, Seen
  <2>3. CASE handleStatus
    <3>1. /\ doing = None /\ requests # <<>> /\ Head(requests).cmd = "WIFI_STATUS"
          /\ requests' = Tail(requests) /\ answers' = answers
          /\ doing'.visit = Head(requests).visit
      BY <2>3 DEF handleStatus, Take
    <3> QED
      BY <1>0, <2>2, <3>1, PipelineTake
  <2>4. CASE Answered \/ AnswerTimeout
    <3>1. /\ doing # None /\ doing' = None /\ requests' = requests
          /\ answers' = Append(answers, doing) \/ answers' = answers
      BY <2>4 DEF Answered, AnswerTimeout
    <3> QED
      BY <1>0, <2>2, <3>1, PipelineAnswered
  <2>5. CASE startAp \/ startApFails \/ stopAp
    <3>1. /\ doing = None /\ requests # <<>> /\ doing' = doing
          /\ requests' = Tail(requests) /\ answers' = answers
      BY <2>5 DEF startAp, startApFails, stopAp, Take, taskVars
    <3> QED
      BY <1>0, <2>2, <3>1, PipelineTake
  <2>6. CASE EventTask
    <3>1. UNCHANGED <<requests, doing, answers>>
      BY <2>6 DEF EventTask, apStart, apStop, Event
    <3> QED
      BY <1>0, <2>2, <3>1, PipelineFrame, VisitsAreNumbers
  <2> QED
    BY <1>5, <2>3, <2>4, <2>5, <2>6 DEF WifiTask
<1>6. CASE Touch \/ CommTouched \/ CommFire \/ CommTouchOpens \/ CommHeader \/ ScreenSaver
  <2>1. Quiet
    BY <1>6, QuietSteps, Zenon
  <2>2. Seen' = Seen /\ visits' = visits
    BY <1>6 DEF Touch, CommTouched, CommFire, CommTouchOpens, CommHeader, ScreenSaver, OpenWiFi, Seen
  <2> QED
    BY <1>0, <2>1, <2>2, PipelineFrame, VisitsAreNumbers DEF Quiet
<1>7. CASE \/ \E item \in 0..(ItemCount - 1) : ChooseItem(item)
           \/ \E item \in 0..3 : EndItem(item)
           \/ ToggleAP \/ SecurityUp \/ SecurityDown \/ TypeSSID
  <2>1. Quiet
    BY <1>7, QuietSteps, Zenon
  <2>2. Seen' = Seen /\ visits' = visits
    BY <1>7 DEF ChooseItem, EndItem, ToggleAP, SecurityUp, SecurityDown, SetSecurity, TypeSSID, InWiFi,
       Seen
  <2> QED
    BY <1>0, <2>1, <2>2, PipelineFrame, VisitsAreNumbers DEF Quiet
<1> QED
  BY <1>1, <1>2, <1>3, <1>4, <1>5, <1>6, <1>7, Zenon DEF Next, Comm, WiFi

-----------------------------------------------------------------------------
(* The status on the screen. *)

LEMMA VisitsHold ==
  ASSUME IInv, Types, Next
  PROVE  Visits'
<1>0. Visits
  BY DEF IInv
<1>1. CASE EnterComm \/ LeaveWiFi \/ MessageEnds
  BY <1>0, <1>1, VisitsAreNumbers DEF EnterComm, LeaveWiFi, MessageEnds, CommInit, Visits,
     StaleByMissedVisits
<1>2. CASE ReceiveStatus
  <2>1. Head(answers) = answers[1] /\ 1 \in DOMAIN answers
    BY <1>2, Tails DEF ReceiveStatus, Types, AnswerTypes
  <2>2. Waiting(answers[1].visit)
    BY <2>1 DEF IInv, AllWaiting
  <2>3. InternalState = "FETCHING_DATA" /\ shown' = answers[1].visit /\ UNCHANGED <<menu, visits, missed>>
          /\ InternalState' = "DISPLAY_DATA"
    BY <1>2, <2>1 DEF ReceiveStatus
  <2>4. shown' + missed >= visits
    BY <2>1, <2>2, <2>3, VisitsAreNumbers DEF Waiting, Seen
  <2> QED
    BY <2>3, <2>4 DEF Visits, StaleByMissedVisits
<1>3. CASE FetchTimeout
  BY <1>0, <1>3, VisitsAreNumbers DEF FetchTimeout, Visits, StaleByMissedVisits
<1>4. CASE Touch \/ CommTouched
  BY <1>0, <1>4 DEF Touch, CommTouched, Visits, StaleByMissedVisits
<1>5. CASE CommFire \/ CommTouchOpens \/ CommHeader \/ ScreenSaver
  BY <1>0, <1>5 DEF CommFire, CommTouchOpens, CommHeader, ScreenSaver, OpenWiFi, Displayed, Visits,
     StaleByMissedVisits
<1>6. CASE \/ \E item \in 0..(ItemCount - 1) : ChooseItem(item)
           \/ \E item \in 0..3 : EndItem(item)
           \/ Submit
  BY <1>0, <1>6 DEF ChooseItem, EndItem, Submit, InWiFi, Visits, StaleByMissedVisits
<1>7. CASE ToggleAP \/ SecurityUp \/ SecurityDown \/ TypeSSID
  BY <1>0, <1>7 DEF ToggleAP, SecurityUp, SecurityDown, SetSecurity, TypeSSID, InWiFi, Visits,
     StaleByMissedVisits
<1>8. CASE WifiTask \/ EventTask
  <2>1. Task
    BY <1>8 DEF WifiTask, EventTask, handleStatus, Answered, AnswerTimeout, startAp, startApFails,
       stopAp, apStart, apStop, Event, Take
  <2> QED
    BY <1>0, <2>1 DEF Task, menuVars, Visits, StaleByMissedVisits
<1> QED
  BY <1>1, <1>2, <1>3, <1>4, <1>5, <1>6, <1>7, <1>8, Zenon DEF Next, Comm, WiFi

-----------------------------------------------------------------------------
(* The access point. *)

\* An event joins the others.
LEMMA EventAppends ==
  ASSUME NEW s \in Seq({"apStart", "apStop"}), NEW e \in {"apStart", "apStop"}
  PROVE  /\ Append(s, e) # <<>>
         /\ LastIsStart(Append(s, e)) <=> e = "apStart"
         /\ StartIn(Append(s, e)) <=> StartIn(s) \/ e = "apStart"
<1>1. Append(s, e) # <<>> /\ (LastIsStart(Append(s, e)) <=> e = "apStart")
  BY DEF LastIsStart
<1>2. StartIn(Append(s, e)) <=> StartIn(s) \/ e = "apStart"
  BY DEF StartIn
<1> QED
  BY <1>1, <1>2

\* The first event is handled.
LEMMA EventTails ==
  ASSUME NEW s \in Seq({"apStart", "apStop"}), s # <<>>
  PROVE  /\ Tail(s) = <<>> => (LastIsStart(s) <=> Head(s) = "apStart")
         /\ Tail(s) # <<>> => (LastIsStart(Tail(s)) <=> LastIsStart(s))
         /\ StartIn(s) <=> StartIn(Tail(s)) \/ Head(s) = "apStart"
<1>1. /\ Head(s) = s[1] /\ 1 \in DOMAIN s
      /\ Tail(s) \in Seq({"apStart", "apStop"}) /\ Len(Tail(s)) = Len(s) - 1 /\ Len(s) \in Nat
      /\ \A i \in DOMAIN Tail(s) : i \in Nat \ {0} /\ i + 1 \in DOMAIN s /\ Tail(s)[i] = s[i + 1]
  BY Tails
<1>2. Tail(s) = <<>> => (LastIsStart(s) <=> Head(s) = "apStart")
  BY <1>1 DEF LastIsStart
<1>3. Tail(s) # <<>> => (LastIsStart(Tail(s)) <=> LastIsStart(s))
  BY <1>1 DEF LastIsStart
<1>4. StartIn(s) => StartIn(Tail(s)) \/ Head(s) = "apStart"
  <2> SUFFICES ASSUME NEW i \in DOMAIN s, s[i] = "apStart", i # 1
               PROVE  StartIn(Tail(s))
    BY <1>1 DEF StartIn
  <2>1. i - 1 \in DOMAIN Tail(s) /\ (i - 1) + 1 = i
    BY <1>1
  <2>2. Tail(s)[i - 1] = s[i]
    BY <1>1, <2>1
  <2> QED
    BY <2>1, <2>2 DEF StartIn
<1>5. StartIn(Tail(s)) => StartIn(s)
  BY <1>1 DEF StartIn
<1>6. Head(s) = "apStart" => StartIn(s)
  BY <1>1 DEF StartIn
<1> QED
  BY <1>2, <1>3, <1>4, <1>5, <1>6

LEMMA SettlingHolds ==
  ASSUME IInv, Types, Next
  PROVE  Settling'
<1>0. Settling /\ events \in Seq({"apStart", "apStop"})
  BY DEF IInv, Types, EventTypes
<1>1. CASE UNCHANGED <<radio, events, APStarted, server, overtaken>>
  BY <1>0, <1>1, Zenon DEF Settling
<1>2. CASE startAp
  <2>1. events' = Append(events, "apStart") /\ radio' /\ UNCHANGED <<APStarted, server, overtaken>>
    BY <1>2 DEF startAp
  <2>2. events' # <<>> /\ LastIsStart(events') /\ StartIn(events')
    BY <1>0, <2>1, EventAppends
  <2> QED
    BY <2>1, <2>2, Zenon DEF Settling
<1>3. CASE stopAp
  <2>1. ~server' /\ ~radio' /\ APStarted' = APStarted
    BY <1>3 DEF stopAp
  <2>2. overtaken' <=> overtaken \/ StartIn(events)
    BY <1>3 DEF stopAp, StartIn
  <2>3. events' = IF radio THEN Append(events, "apStop") ELSE events
    BY <1>3 DEF stopAp
  <2>4. StartIn(events') => overtaken'
    BY <1>0, <2>2, <2>3, EventAppends
  <2>5. events' = <<>> => ~APStarted'
    BY <1>0, <2>1, <2>3, EventAppends, Zenon DEF Settling
  <2>6. ~LastIsStart(events')
    <3>1. CASE radio
      BY <1>0, <2>3, <3>1, EventAppends
    <3>2. CASE ~radio
      BY <1>0, <2>3, <3>2, Zenon DEF Settling, LastIsStart
    <3> QED
      BY <3>1, <3>2
  <2> QED
    BY <2>1, <2>4, <2>5, <2>6, Zenon DEF Settling
<1>4. CASE apStart
  <2>1. /\ events # <<>> /\ Head(events) = "apStart" /\ events' = Tail(events)
        /\ APStarted' /\ server' /\ UNCHANGED <<radio, overtaken>>
    BY <1>4 DEF apStart, Event
  <2>2. /\ events' = <<>> => LastIsStart(events)
        /\ events' # <<>> => (LastIsStart(events') <=> LastIsStart(events))
        /\ StartIn(events)
    BY <1>0, <2>1, EventTails
  <2> QED
    BY <1>0, <2>1, <2>2, Zenon DEF Settling
<1>5. CASE apStop
  <2>1. /\ events # <<>> /\ Head(events) = "apStop" /\ events' = Tail(events)
        /\ ~APStarted' /\ UNCHANGED <<server, radio, overtaken>>
    BY <1>5 DEF apStop, Event
  <2>2. /\ events' = <<>> => ~LastIsStart(events)
        /\ events' # <<>> => (LastIsStart(events') <=> LastIsStart(events))
        /\ StartIn(events') <=> StartIn(events)
    BY <1>0, <2>1, EventTails
  <2> QED
    BY <1>0, <2>1, <2>2, Zenon DEF Settling
<1>6. CASE Quiet
  BY <1>1, <1>6 DEF Quiet
<1>7. CASE EnterComm \/ LeaveWiFi \/ MessageEnds \/ Submit
  BY <1>1, <1>7 DEF EnterComm, LeaveWiFi, MessageEnds, CommInit, Submit, InWiFi, taskVars
<1>8. CASE ReceiveStatus
  BY <1>1, <1>8 DEF ReceiveStatus
<1>9. CASE handleStatus \/ Answered \/ AnswerTimeout \/ startApFails
  BY <1>1, <1>9 DEF handleStatus, Answered, AnswerTimeout, startApFails, taskVars
<1> QED
  BY <1>2, <1>3, <1>4, <1>5, <1>6, <1>7, <1>8, <1>9, QuietSteps, Zenon
    DEF Next, Comm, WiFi, WifiTask, EventTask

-----------------------------------------------------------------------------
LEMMA InitIInv == Init => IInv
<1> SUFFICES ASSUME Init PROVE IInv
  OBVIOUS
<1>1. TypeOK
  <2>1. FlagTypes
    BY Zenon DEF Init, FlagTypes
  <2>2. MenuTypes /\ RegisteredType /\ VisitTypes
    BY SizeAssumption DEF Init, MenuTypes, RegisteredType, VisitTypes
  <2>3. CountTypes
    BY SizeAssumption DEF Init, CountTypes, WIFI_AUTH_OPEN, WIFI_AUTH_MAX, NO_WORKING_TIME
  <2>4. RequestTypes /\ DoingType /\ AnswerTypes /\ EventTypes
    BY SizeAssumption DEF Init, RequestTypes, DoingType, AnswerTypes, EventTypes
  <2> QED
    BY <2>1, <2>2, <2>3, <2>4, TypesAreTypeOK DEF Types
<1>2. Visits /\ AllWaiting /\ InOrder
  BY DEF Init, Visits, StaleByMissedVisits, AllWaiting, InOrder
<1>3. Settling
  BY DEF Init, Settling, StartIn
<1> QED
  BY <1>1, <1>2, <1>3 DEF IInv

LEMMA NextIInv == IInv /\ [Next]_vars => IInv'
<1> SUFFICES ASSUME IInv, [Next]_vars PROVE IInv'
  OBVIOUS
<1>1. Types
  BY TypesAreTypeOK DEF IInv
<1>2. CASE Next
  <2>1. Types'
    BY <1>1, <1>2, TypesStay
  <2>2. TypeOK'
    BY <2>1, Zenon DEF Types, TypeOK, FlagTypes, MenuTypes, RegisteredType, VisitTypes, CountTypes,
       RequestTypes, DoingType, AnswerTypes, EventTypes
  <2>3. Visits' /\ Pipeline' /\ Settling'
    BY <1>1, <1>2, VisitsHold, PipelineStays, SettlingHolds
  <2> QED
    BY <2>2, <2>3 DEF IInv, Pipeline
<1>3. CASE UNCHANGED vars
  BY <1>3 DEF vars, menuVars, settingVars, taskVars, IInv, TypeOK, Visits, StaleByMissedVisits,
     AllWaiting, InOrder, Waiting, Seen, Settling
<1> QED
  BY <1>2, <1>3

LEMMA Invariance == Spec => []IInv
<1> QED
  BY InitIInv, NextIInv, PTL DEF Spec

\* For queues of any size, the variables of the menus, of their task and of the driver's
\* events keep their types (wifi.cpp, menus/communications_settings.cpp).
THEOREM WifiTypeCorrect == Spec => []TypeOK
<1>1. IInv => TypeOK
  BY DEF IInv
<1> QED
  BY <1>1, Invariance, PTL

\* For queues of any size and any number of visits, lost and late answers included, the
\* status shown was asked for at most as many visits ago as visits saw no answer
\* (communications_settings.cpp:299-352).
THEOREM StatusIsStaleByMissedVisits == Spec => []StaleByMissedVisits
<1>1. IInv => StaleByMissedVisits
  BY DEF IInv, Visits
<1> QED
  BY <1>1, Invariance, PTL

\* However many requests the queue loses and however late the driver reports, once no
\* event is left the flag is what the access point does and its web server runs
\* (wifi.cpp:156-301).
THEOREM AccessPointSettles == Spec => []StatusSettles
<1>1. IInv => StatusSettles
  <2> SUFFICES ASSUME IInv, events = <<>>
               PROVE  APStarted = radio /\ (radio => server) /\ (server /\ ~radio => overtaken)
    BY DEF StatusSettles
  <2>1. radio \in BOOLEAN /\ APStarted \in BOOLEAN
    BY DEF IInv, TypeOK
  <2>2. ~StartIn(events)
    BY DEF StartIn
  <2> QED
    BY <2>1, <2>2, Zenon DEF IInv, Settling
<1> QED
  BY <1>1, Invariance, PTL
-----------------------------------------------------------------------------
(* The places where the user is trapped. *)

\* A badge with bluetooth asks nothing of a task it does not have: no answer comes, so no
\* touch does, and the WiFi menu is not reached.
Silent ==
  ~wifiOn =>
    /\ touches = 0 /\ registered = FALSE
    /\ requests = <<>> /\ doing = None /\ answers = <<>>
    /\ menu \in {"elsewhere", "comm"}

LEMMA SilentStays ==
  ASSUME Silent, [Next]_vars
  PROVE  Silent'
<1> SUFFICES ASSUME ~wifiOn' PROVE Silent'
  BY DEF Silent
<1>1. wifiOn' = wifiOn
  <2>1. CASE EnterComm \/ LeaveWiFi \/ MessageEnds
    BY <2>1 DEF EnterComm, LeaveWiFi, MessageEnds, CommInit
  <2>2. CASE ReceiveStatus \/ FetchTimeout \/ Touch \/ CommTouched
    BY <2>2 DEF ReceiveStatus, FetchTimeout, Touch, CommTouched
  <2>3. CASE CommFire \/ CommTouchOpens \/ CommHeader \/ ScreenSaver
    BY <2>3 DEF CommFire, CommTouchOpens, CommHeader, ScreenSaver, OpenWiFi
  <2>4. CASE \/ \E item \in 0..(ItemCount - 1) : ChooseItem(item)
             \/ \E item \in 0..3 : EndItem(item)
             \/ Submit
    BY <2>4 DEF ChooseItem, EndItem, Submit, InWiFi
  <2>5. CASE ToggleAP \/ SecurityUp \/ SecurityDown \/ TypeSSID
    BY <2>5 DEF ToggleAP, SecurityUp, SecurityDown, SetSecurity, TypeSSID, InWiFi
  <2>6. CASE WifiTask \/ EventTask
    BY <2>6 DEF WifiTask, EventTask, handleStatus, Answered, AnswerTimeout, startAp, startApFails,
       stopAp, apStart, apStop, Event, Take, Task
  <2>7. CASE UNCHANGED vars
    BY <2>7 DEF vars
  <2> QED
    BY <2>1, <2>2, <2>3, <2>4, <2>5, <2>6, <2>7, Zenon DEF Next, Comm, WiFi
<1>2. /\ ~wifiOn
      /\ touches = 0 /\ registered = FALSE
      /\ requests = <<>> /\ doing = None /\ answers = <<>>
      /\ menu \in {"elsewhere", "comm"}
  BY <1>1 DEF Silent
<1>3. CASE EnterComm \/ LeaveWiFi \/ MessageEnds
  BY <1>2, <1>3 DEF EnterComm, LeaveWiFi, MessageEnds, CommInit, taskVars, Silent
<1>4. CASE FetchTimeout \/ ScreenSaver
  BY <1>2, <1>4 DEF FetchTimeout, ScreenSaver, CommShutdown, taskVars, Silent
<1>5. ~ReceiveStatus /\ ~Touch
  BY <1>2 DEF ReceiveStatus, Touch
<1>6. ~CommFire /\ ~CommTouched /\ ~CommTouchOpens /\ ~CommHeader
  BY <1>2 DEF CommFire, CommTouched, CommTouchOpens, CommHeader, OpenWiFi
<1>7. /\ ~\E item \in 0..(ItemCount - 1) : ChooseItem(item)
      /\ ~\E item \in 0..3 : EndItem(item)
      /\ ~Submit /\ ~ToggleAP /\ ~SecurityUp /\ ~SecurityDown /\ ~TypeSSID
  BY <1>2 DEF ChooseItem, EndItem, Submit, ToggleAP, SecurityUp, SecurityDown, SetSecurity, TypeSSID,
     InWiFi
<1>8. ~WifiTask
  BY <1>2 DEF WifiTask, handleStatus, Answered, AnswerTimeout, startAp, startApFails, stopAp, Take
<1>9. CASE EventTask
  BY <1>2, <1>9 DEF EventTask, apStart, apStop, Event, Task, menuVars, Silent
<1>10. CASE UNCHANGED vars
  BY <1>2, <1>10 DEF vars, menuVars, taskVars, Silent
<1> QED
  BY <1>3, <1>4, <1>5, <1>6, <1>7, <1>8, <1>9, <1>10, Zenon DEF Next, Comm, WiFi

\* On a badge with bluetooth only the screen saver leads out of "Comm Info".
LEMMA CommTraps ==
  ASSUME Silent, Silent', Next, Displayed, ~wifiOn
  PROVE  Trapped' \/ ScreenSaver
<1>1. /\ menu = "comm" /\ InternalState = "DISPLAY_DATA"
      /\ touches = 0 /\ registered = FALSE
      /\ requests = <<>> /\ doing = None /\ answers = <<>>
  BY DEF Silent, Displayed
<1>2. ~EnterComm /\ ~LeaveWiFi /\ ~MessageEnds /\ ~ReceiveStatus /\ ~FetchTimeout /\ ~Touch
  BY <1>1 DEF EnterComm, LeaveWiFi, MessageEnds, ReceiveStatus, FetchTimeout, Touch
<1>3. ~CommFire /\ ~CommTouched /\ ~CommTouchOpens /\ ~CommHeader
  BY <1>1 DEF CommFire, CommTouched, CommTouchOpens, CommHeader, OpenWiFi
<1>4. /\ ~\E item \in 0..(ItemCount - 1) : ChooseItem(item)
      /\ ~\E item \in 0..3 : EndItem(item)
      /\ ~Submit /\ ~ToggleAP /\ ~SecurityUp /\ ~SecurityDown /\ ~TypeSSID
  BY <1>1 DEF ChooseItem, EndItem, Submit, ToggleAP, SecurityUp, SecurityDown, SetSecurity, TypeSSID,
     InWiFi
<1>5. ~WifiTask
  BY <1>1 DEF WifiTask, handleStatus, Answered, AnswerTimeout, startAp, startApFails, stopAp, Take
<1>6. CASE EventTask
  BY <1>1, <1>6 DEF EventTask, apStart, apStop, Event, Task, menuVars, Trapped, Displayed
<1> QED
  BY <1>2, <1>3, <1>4, <1>5, <1>6, Zenon DEF Next, Comm, WiFi

\* Items 4 to 6 of the WiFi menu end with the menu.
LEMMA ItemTraps ==
  ASSUME Next, menu = "wifi", WorkingItem \in 4..6
  PROVE  Trapped' \/ ScreenSaver
<1>1. WorkingItem # NO_WORKING_TIME /\ WorkingItem \notin 0..3
  BY DEF NO_WORKING_TIME
<1>2. CASE Touch
  BY <1>2 DEF Touch, settingVars, Trapped
<1>3. ~EnterComm /\ ~ReceiveStatus /\ ~FetchTimeout
  BY DEF EnterComm, ReceiveStatus, FetchTimeout
<1>4. ~CommFire /\ ~CommTouched /\ ~CommTouchOpens /\ ~CommHeader
  BY DEF CommFire, CommTouched, CommTouchOpens, CommHeader, Displayed
<1>5. /\ ~\E item \in 0..(ItemCount - 1) : ChooseItem(item)
      /\ ~\E item \in 0..3 : EndItem(item)
      /\ ~Submit /\ ~LeaveWiFi /\ ~MessageEnds
  BY <1>1 DEF ChooseItem, EndItem, Submit, LeaveWiFi, MessageEnds, InWiFi
<1>6. ~ToggleAP /\ ~SecurityUp /\ ~SecurityDown /\ ~TypeSSID
  BY <1>1 DEF ToggleAP, SecurityUp, SecurityDown, SetSecurity, TypeSSID, InWiFi
<1>7. CASE WifiTask \/ EventTask
  BY <1>7 DEF WifiTask, EventTask, handleStatus, Answered, AnswerTimeout, startAp, startApFails,
     stopAp, apStart, apStop, Event, Take, Task, menuVars, settingVars, Trapped
<1> QED
  BY <1>2, <1>3, <1>4, <1>5, <1>6, <1>7, Zenon DEF Next, Comm, WiFi

\* For queues of any size and any number of visits, nothing that is still to come, an
\* answer, an event or a touch, leads a trapped user out: only the screen saver does
\* (communications_settings.cpp:138-390).
THEOREM TrapsHold == Spec => TrappedStays
<1>1. Init => Silent
  BY DEF Init, Silent
<1>2. Silent /\ [Next]_vars => Silent'
  BY SilentStays
<1>3. Silent /\ Silent' /\ [Next]_vars => [Trapped => Trapped' \/ ScreenSaver]_vars
  <2> SUFFICES ASSUME Silent, Silent', Next, Trapped
               PROVE  Trapped' \/ ScreenSaver
    BY Zenon
  <2>1. CASE Displayed /\ ~wifiOn
    BY <2>1, CommTraps
  <2>2. CASE menu = "wifi" /\ WorkingItem \in 4..6
    BY <2>2, ItemTraps
  <2> QED
    BY <2>1, <2>2, Zenon DEF Trapped
<1> QED
  BY <1>1, <1>2, <1>3, PTL DEF Spec, TrappedStays
=============================================================================

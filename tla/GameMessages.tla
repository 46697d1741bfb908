---------------------------- MODULE GameMessages ----------------------------
(***************************************************************************)
(* Game commands and their answers between a phone and the badge's games   *)
(* (ble.cpp, game_master.cpp).  Three tasks pass pointers to malloc'ed     *)
(* messages through two queues of three slots:                             *)
(*   the BLE stack's task writes requests   -> the game task's queue       *)
(*   the game task answers each with a few  -> the bluetooth task's queue  *)
(*   the bluetooth task cuts every answer into indications of 20 bytes     *)
(* A send waits 100 ticks for a slot and its result is not looked at; the  *)
(* connection an indication goes to is a global, not part of the message.  *)
(* Brainfuzz runs the client's program in the game task and sets no limit  *)
(* to it: a program that loops for ever keeps the task for ever.           *)
(***************************************************************************)
EXTENDS Naturals, Sequences

CONSTANTS
  Command,          \* what a client may write
  GameOf,           \* the game a command is for, by its characteristic
  Replies,          \* lengths of the strings an unlocked game answers with
  Endless,          \* the commands whose program never ends
  Locked,           \* length of the answer "Game Locked"
  BadContext,       \* length of the answer "Bad Game Context Selection"
  GAME_QUEUE_SIZE,  \* 3
  BLE_QUEUE_SIZE,   \* 3
  Payload,          \* 20, the bytes of one indication
  MaxWrites,        \* bound: commands written
  MaxConns          \* bound: connections made

INSTALLED_GAMES == 4
GAMEMASTER_ID == 0
BRAINFUZZ_ID == 2
Game == 0..(INSTALLED_GAMES - 1)
None == [none |-> TRUE]

ASSUME CommandAssumption ==
  /\ GameOf \in [Command -> Nat]
  /\ Replies \in [Command -> Seq(Nat)]
  /\ Endless \subseteq {c \in Command : GameOf[c] = BRAINFUZZ_ID}
ASSUME QueueAssumption ==
  /\ GAME_QUEUE_SIZE \in Nat \ {0}
  /\ BLE_QUEUE_SIZE \in Nat \ {0}
  /\ Payload \in Nat \ {0}
  /\ Locked \in Nat /\ BadContext \in Nat
  /\ MaxWrites \in Nat /\ MaxConns \in Nat

VARIABLES
  boot,      \* how far onInit has come: "bluetooth", "games", "up"
  unlocked,  \* NVS: the games whose flag game_unlocked<n> is set
  client,    \* the connection that is up, 0 if none
  conn,      \* serial_conn_id, the connection last made
  writes,    \* commands written so far
  writing,   \* the request send_raw_game_command is putting into the queue
  gameQ,     \* the game task's queue
  gm,        \* the request the game task is answering and the answers left
  bleQ,      \* the bluetooth task's queue
  bt,        \* the answer the bluetooth task is sending, curpos and the bytes left
  sent,      \* history: indications handed to the BLE stack
  heap,      \* messages allocated and not freed
  dropped    \* history: messages no queue took

vars == <<boot, unlocked, client, conn, writes, writing, gameQ, gm, bleQ, bt,
          sent, heap, dropped>>

Request == [id : 1..MaxWrites, by : 1..MaxConns, cmd : Command]
Text == {"answer", "locked", "context"}
Reply == [text : Text, len : Nat]
Answer == [id : 1..MaxWrites, by : 1..MaxConns, cmd : Command, nr : Nat,
           text : Text, len : Nat]
\* n bytes of an answer, the first of them at curpos, and the connection they go to.
Indication == [to : 0..MaxConns, of : Answer, curpos : Nat, n : 0..Payload]

TypeOK ==
  /\ boot \in {"bluetooth", "games", "up"}
  /\ unlocked \subseteq Game
  /\ client \in 0..MaxConns /\ conn \in 0..MaxConns
  /\ client # 0 => client = conn
  /\ writes \in 0..MaxWrites
  /\ writing = None \/ writing \in Request
  /\ gameQ \in Seq(Request) /\ Len(gameQ) <= GAME_QUEUE_SIZE
  /\ gm = None \/ gm \in [req : Request, nr : Nat, left : Seq(Reply)]
  /\ bleQ \in Seq(Answer) /\ Len(bleQ) <= BLE_QUEUE_SIZE
  /\ bt = None \/ bt \in [of : Answer, curpos : Nat, left : Nat]
  /\ sent \in Seq(Indication)
  /\ heap \subseteq Request \cup Answer
  /\ dropped \subseteq heap

\* BluetoothTask::init has run: the callbacks are registered.
Init ==
  /\ boot = "bluetooth"
  /\ unlocked = {}
  /\ client = 0 /\ conn = 0 /\ writes = 0
  /\ writing = None /\ gm = None /\ bt = None
  /\ gameQ = <<>> /\ bleQ = <<>> /\ sent = <<>>
  /\ heap = {} /\ dropped = {}

-----------------------------------------------------------------------------
(* DN8App::onInit. *)

\* What is unlocked is in flash.
isGameUnlocked(g) == g \in unlocked
setGameUnlocked(games) == unlocked' = unlocked \cup games

\* GameTask::init; all games but the game master are installed unlocked.
InitGames ==
  /\ boot = "bluetooth"
  /\ boot' = "games"
  /\ setGameUnlocked(Game \ {GAMEMASTER_ID})
  /\ UNCHANGED <<client, conn, writes, writing, gameQ, gm, bleQ, bt, sent, heap, dropped>>

SetGameTaskQueue ==
  /\ boot = "games"
  /\ boot' = "up"
  /\ UNCHANGED <<unlocked, client, conn, writes, writing, gameQ, gm, bleQ, bt, sent,
                 heap, dropped>>

-----------------------------------------------------------------------------
(* The BLE stack's task: events come one at a time. *)

Stack == UNCHANGED <<boot, unlocked, gm, bleQ, bt, sent>>

\* Wrong variant: the connection id of the first client is kept.
ConnectFirst ==
  /\ writing = None
  /\ client = 0
  /\ conn < MaxConns
  /\ client' = conn + 1
  /\ conn' = IF conn = 0 THEN 1 ELSE conn
  /\ UNCHANGED <<writes, writing, gameQ, heap, dropped>>
  /\ Stack

\* The badge advertises only while no one is connected.
Connect ==
  /\ writing = None
  /\ client = 0
  /\ conn < MaxConns
  /\ conn' = conn + 1
  /\ client' = conn'
  /\ UNCHANGED <<writes, writing, gameQ, heap, dropped>>
  /\ Stack

Disconnect ==
  /\ writing = None
  /\ client # 0
  /\ client' = 0
  /\ UNCHANGED <<conn, writes, writing, gameQ, heap, dropped>>
  /\ Stack

WriteEvent(cmd) ==
  /\ writing = None
  /\ client # 0
  /\ writes < MaxWrites
  /\ writes' = writes + 1
  /\ UNCHANGED <<client, conn, gameQ, dropped>>
  /\ Stack

\* Before setGameTaskQueue a command is only logged.
WriteTooEarly(cmd) ==
  /\ WriteEvent(cmd)
  /\ boot # "up"
  /\ UNCHANGED <<writing, heap>>

Write(cmd) ==
  /\ WriteEvent(cmd)
  /\ boot = "up"
  /\ writing' = [id |-> writes', by |-> client, cmd |-> cmd]
  /\ heap' = heap \cup {writing'}

Queued ==
  /\ writing # None
  /\ Len(gameQ) < GAME_QUEUE_SIZE
  /\ gameQ' = Append(gameQ, writing)
  /\ writing' = None
  /\ UNCHANGED <<client, conn, writes, heap, dropped>>
  /\ Stack

\* 100 ticks without a free slot: nobody holds the message any more.
WriteTimeout ==
  /\ writing # None
  /\ Len(gameQ) = GAME_QUEUE_SIZE
  /\ dropped' = dropped \cup {writing}
  /\ writing' = None
  /\ UNCHANGED <<client, conn, writes, gameQ, heap>>
  /\ Stack

-----------------------------------------------------------------------------
(* The game task. *)

Games == UNCHANGED <<boot, unlocked, client, conn, writes, writing, bt, sent>>

String(text, len) == [text |-> text, len |-> len]

\* The one answer of commandHandler itself.
mainMenuSendResponse(text, len) == <<String(text, len)>>

\* commandHandler: the two checks, then the game.
Answers(cmd) ==
  IF GameOf[cmd] \notin Game THEN mainMenuSendResponse("context", BadContext)
  ELSE IF ~isGameUnlocked(GameOf[cmd]) THEN mainMenuSendResponse("locked", Locked)
  ELSE [i \in 1..Len(Replies[cmd]) |-> String("answer", Replies[cmd][i])]

GameReceive ==
  /\ boot # "bluetooth"
  /\ gm = None
  /\ gameQ # <<>>
  /\ gm' = [req |-> Head(gameQ), nr |-> 1, left |-> Answers(Head(gameQ).cmd)]
  /\ gameQ' = Tail(gameQ)
  /\ UNCHANGED <<bleQ, heap, dropped>>
  /\ Games

\* SendResponse for the next answer.
Response ==
  [id |-> gm.req.id, by |-> gm.req.by, cmd |-> gm.req.cmd, nr |-> gm.nr,
   text |-> Head(gm.left).text, len |-> Head(gm.left).len]

SendResponse ==
  /\ gm # None
  /\ gm.left # <<>>
  /\ heap' = heap \cup {Response}
  /\ gm' = [gm EXCEPT !.nr = @ + 1, !.left = Tail(@)]
  /\ UNCHANGED gameQ
  /\ Games

Answered ==
  /\ SendResponse
  /\ Len(bleQ) < BLE_QUEUE_SIZE
  /\ bleQ' = Append(bleQ, Response)
  /\ UNCHANGED dropped

AnswerTimeout ==
  /\ SendResponse
  /\ Len(bleQ) = BLE_QUEUE_SIZE
  /\ dropped' = dropped \cup {Response}
  /\ UNCHANGED bleQ

\* BFrun is in its loop and will not leave it.
Hung ==
  /\ gm # None
  /\ gm.left = <<>>
  /\ gm.req.cmd \in Endless /\ isGameUnlocked(BRAINFUZZ_ID)

\* Wrong variant: a locked game returns without the cleanup.
CleanupUnlocked ==
  /\ gm # None
  /\ gm.left = <<>>
  /\ ~Hung
  /\ heap' = IF GameOf[gm.req.cmd] \in unlocked THEN heap \ {gm.req} ELSE heap
  /\ gm' = None
  /\ UNCHANGED <<gameQ, bleQ, dropped>>
  /\ Games

Cleanup ==
  /\ gm # None
  /\ gm.left = <<>>
  /\ ~Hung
  /\ heap' = heap \ {gm.req}
  /\ gm' = None
  /\ UNCHANGED <<gameQ, bleQ, dropped>>
  /\ Games

-----------------------------------------------------------------------------
(* The bluetooth task. *)

Bluetooth ==
  UNCHANGED <<boot, unlocked, client, conn, writes, writing, gameQ, gm, dropped>>

\* Wrong variant: answers wait until someone is connected.
BluetoothReceiveConnected ==
  /\ client # 0
  /\ bt = None
  /\ bleQ # <<>>
  /\ bt' = [of |-> Head(bleQ), curpos |-> 0, left |-> Head(bleQ).len]
  /\ bleQ' = Tail(bleQ)
  /\ UNCHANGED <<sent, heap>>
  /\ Bluetooth

BluetoothReceive ==
  /\ boot # "bluetooth"
  /\ bt = None
  /\ bleQ # <<>>
  /\ bt' = [of |-> Head(bleQ), curpos |-> 0, left |-> Head(bleQ).len]
  /\ bleQ' = Tail(bleQ)
  /\ UNCHANGED <<sent, heap>>
  /\ Bluetooth

Indicate(n) ==
  sent' = Append(sent, [to |-> conn, of |-> bt.of, curpos |-> bt.curpos, n |-> n])

SendPart ==
  /\ bt # None
  /\ bt.left > Payload
  /\ Indicate(Payload)
  /\ bt' = [bt EXCEPT !.left = @ - Payload, !.curpos = @ + Payload]
  /\ UNCHANGED <<bleQ, heap>>
  /\ Bluetooth

SendRest ==
  /\ bt # None
  /\ bt.left <= Payload
  /\ Indicate(bt.left)
  /\ heap' = heap \ {bt.of}
  /\ bt' = None
  /\ UNCHANGED bleQ
  /\ Bluetooth

-----------------------------------------------------------------------------
BLEStack ==
  \/ Connect \/ Disconnect
  \/ \E cmd \in Command : WriteTooEarly(cmd) \/ Write(cmd)
SendRequest == Queued \/ WriteTimeout
GameTask == GameReceive \/ Answered \/ AnswerTimeout \/ Cleanup
BluetoothTask == BluetoothReceive \/ SendPart \/ SendRest
OnInit == InitGames \/ SetGameTaskQueue

Next == OnInit \/ BLEStack \/ SendRequest \/ GameTask \/ BluetoothTask

Spec == Init /\ [][Next]_vars

\* Tasks that can run are scheduled, and a send returns; what the phone does
\* is up to the phone.  A game task that loops takes one of two cores, and the
\* watchdog only complains (sdkconfig): the other tasks go on.
FairSpec ==
  /\ Spec
  /\ WF_vars(SendRequest) /\ WF_vars(GameTask) /\ WF_vars(BluetoothTask)

-----------------------------------------------------------------------------
(* Properties. *)

Elements(q) == {q[i] : i \in DOMAIN q}
Held ==
  Elements(gameQ) \cup Elements(bleQ)
    \cup (IF writing = None THEN {} ELSE {writing})
    \cup (IF gm = None THEN {} ELSE {gm.req})
    \cup (IF bt = None THEN {} ELSE {bt.of})

\* Every message that is allocated is in one queue or in the hands of one
\* task, and is freed there; only those a full queue refused stay behind.
MemoryAccounted ==
  /\ heap = Held \cup dropped
  /\ Held \cap dropped = {}

Before(a, b) == a.id < b.id \/ (a.id = b.id /\ a.nr < b.nr)
EndOf(part) == part.curpos + part.n

\* The phone sees answers in the order in which it asked, those to one
\* command in the order in which the game gave them, and no answer cut by
\* another: the parts of an answer follow each other and share no byte.
AnswersInOrder ==
  \A i, j \in DOMAIN sent :
    i < j =>
      \/ Before(sent[i].of, sent[j].of)
      \/ sent[i].of = sent[j].of /\ EndOf(sent[i]) <= sent[j].curpos

\* A client that stays connected gets every part of its answers itself.
AnswerReachesAsker ==
  \A i \in DOMAIN sent : sent[i].of.by = client => sent[i].to = client

Bytes(part) == part.curpos..(EndOf(part) - 1)

\* Every byte of an answer that has left the bluetooth task was sent.
AnswersWhole ==
  \A i \in DOMAIN sent :
    (bt = None \/ bt.of # sent[i].of) =>
      \A byte \in 0..(sent[i].of.len - 1) :
        \E j \in DOMAIN sent : sent[j].of = sent[i].of /\ byte \in Bytes(sent[j])

\* What a phone sees of its answers, whatever is lost and whoever comes and goes.
AnswersArrive == AnswersInOrder /\ AnswerReachesAsker /\ AnswersWhole

\* A command the queue took is handled and freed, whether its client stays or
\* not, unless a brainfuzz program that never ends has the game task (BFrun sets
\* no limit): then every command behind it waits for ever.
RequestsHandled ==
  \A id \in 1..MaxWrites :
    (\E r \in Elements(gameQ) : r.id = id)
      ~> (Hung \/ ~\E r \in Held : r.id = id)
=============================================================================

-------------------------- MODULE BleServiceProofs --------------------------
(***************************************************************************)
(* Theorems about GameMessages and about BleService around it, for any     *)
(* games, commands, lengths of queues and of answers, and any number of    *)
(* clients and writes.                                                     *)
(***************************************************************************)
EXTENDS BleService, SequenceTheorems, FiniteSetTheorems, TLAPS

-----------------------------------------------------------------------------
(* Queues as sets. *)

LEMMA ElementsType ==
  ASSUME NEW S, NEW q \in Seq(S)
  PROVE  Elements(q) \subseteq S
BY ElementOfSeq, LenProperties DEF Elements

LEMMA ElementsAppend ==
  ASSUME NEW S, NEW q \in Seq(S), NEW e \in S
  PROVE  Elements(Append(q, e)) = Elements(q) \cup {e}
<1>1. /\ Append(q, e) \in Seq(S) /\ Len(Append(q, e)) = Len(q) + 1
      /\ \A i \in 1..Len(q) : Append(q, e)[i] = q[i]
      /\ Append(q, e)[Len(q) + 1] = e
  BY AppendProperties
<1>2. Len(q) \in Nat /\ DOMAIN q = 1..Len(q) /\ DOMAIN Append(q, e) = 1..(Len(q) + 1)
  BY <1>1, LenProperties
<1> QED BY <1>1, <1>2 DEF Elements

LEMMA ElementsTail ==
  ASSUME NEW S, NEW q \in Seq(S), q # <<>>
  PROVE  Elements(q) = {Head(q)} \cup Elements(Tail(q))
<1>1. /\ Tail(q) \in Seq(S) /\ Len(Tail(q)) = Len(q) - 1
      /\ \A i \in 1..Len(Tail(q)) : Tail(q)[i] = q[i + 1]
  BY HeadTailProperties
<1>2. Len(q) \in Nat \ {0} /\ DOMAIN q = 1..Len(q) /\ DOMAIN Tail(q) = 1..(Len(q) - 1)
      /\ Head(q) = q[1]
  BY <1>1, LenProperties, EmptySeq
<1>3. \A i \in 2..Len(q) : i - 1 \in 1..(Len(q) - 1) /\ Tail(q)[i - 1] = q[i]
  BY <1>1, <1>2
<1>4. Elements(q) \subseteq {Head(q)} \cup Elements(Tail(q))
  <2> SUFFICES ASSUME NEW i \in 1..Len(q) PROVE q[i] \in {Head(q)} \cup Elements(Tail(q))
    BY <1>2 DEF Elements
  <2>1. CASE i = 1
    BY <2>1, <1>2
  <2>2. CASE i # 1
    <3>1. i \in 2..Len(q)
      BY <2>2, <1>2
    <3>2. q[i] = Tail(q)[i - 1] /\ i - 1 \in DOMAIN Tail(q)
      BY <3>1, <1>2, <1>3
    <3> QED BY <3>2 DEF Elements
  <2> QED BY <2>1, <2>2
<1>5. {Head(q)} \cup Elements(Tail(q)) \subseteq Elements(q)
  BY <1>1, <1>2 DEF Elements
<1> QED BY <1>4, <1>5

\* Requests in a queue in the order in which they were written, and answers in
\* the order in which they were given.
Rising(q) == \A i, j \in DOMAIN q : i < j => q[i].id < q[j].id
InOrder(q) == \A i, j \in DOMAIN q : i < j => Before(q[i], q[j])

LEMMA RisingAppend ==
  ASSUME NEW q \in Seq(Request), NEW e \in Request, Rising(q),
         \A r \in Elements(q) : r.id < e.id
  PROVE  Rising(Append(q, e))
<1>1. /\ Append(q, e) \in Seq(Request) /\ Len(Append(q, e)) = Len(q) + 1
      /\ \A i \in 1..Len(q) : Append(q, e)[i] = q[i]
      /\ Append(q, e)[Len(q) + 1] = e
  BY AppendProperties
<1>2. Len(q) \in Nat /\ DOMAIN q = 1..Len(q) /\ DOMAIN Append(q, e) = 1..(Len(q) + 1)
  BY <1>1, LenProperties
<1> QED BY <1>1, <1>2 DEF Elements, Rising

LEMMA RisingTail ==
  ASSUME NEW q \in Seq(Request), q # <<>>, Rising(q)
  PROVE  Rising(Tail(q)) /\ \A r \in Elements(Tail(q)) : Head(q).id < r.id
<1>1. /\ Tail(q) \in Seq(Request) /\ Len(Tail(q)) = Len(q) - 1
      /\ \A i \in 1..Len(Tail(q)) : Tail(q)[i] = q[i + 1]
  BY HeadTailProperties
<1>2. Len(q) \in Nat \ {0} /\ DOMAIN q = 1..Len(q) /\ DOMAIN Tail(q) = 1..(Len(q) - 1)
      /\ Head(q) = q[1]
  BY <1>1, LenProperties, EmptySeq
<1> QED BY <1>1, <1>2 DEF Elements, Rising

LEMMA InOrderAppend ==
  ASSUME NEW q \in Seq(Answer), NEW e \in Answer, InOrder(q),
         \A a \in Elements(q) : Before(a, e)
  PROVE  InOrder(Append(q, e))
<1>1. /\ Append(q, e) \in Seq(Answer) /\ Len(Append(q, e)) = Len(q) + 1
      /\ \A i \in 1..Len(q) : Append(q, e)[i] = q[i]
      /\ Append(q, e)[Len(q) + 1] = e
  BY AppendProperties
<1>2. Len(q) \in Nat /\ DOMAIN q = 1..Len(q) /\ DOMAIN Append(q, e) = 1..(Len(q) + 1)
  BY <1>1, LenProperties
<1> QED BY <1>1, <1>2 DEF Elements, InOrder

LEMMA InOrderTail ==
  ASSUME NEW q \in Seq(Answer), q # <<>>, InOrder(q)
  PROVE  InOrder(Tail(q)) /\ \A a \in Elements(Tail(q)) : Before(Head(q), a)
<1>1. /\ Tail(q) \in Seq(Answer) /\ Len(Tail(q)) = Len(q) - 1
      /\ \A i \in 1..Len(Tail(q)) : Tail(q)[i] = q[i + 1]
  BY HeadTailProperties
<1>2. Len(q) \in Nat \ {0} /\ DOMAIN q = 1..Len(q) /\ DOMAIN Tail(q) = 1..(Len(q) - 1)
      /\ Head(q) = q[1]
  BY <1>1, LenProperties, EmptySeq
<1> QED BY <1>1, <1>2 DEF Elements, InOrder

\* A request is no answer, and neither is nothing.
LEMMA Kinds ==
  /\ Request \cap Answer = {}
  /\ None \notin Request /\ None \notin Answer
  /\ None \notin [req : Request, nr : Nat, left : Seq(Reply)]
  /\ None \notin [of : Answer, curpos : Nat, left : Nat]
<1>1. \A r \in Request : DOMAIN r = {"id", "by", "cmd"}
  BY DEF Request
<1>2. \A a \in Answer : "nr" \in DOMAIN a
  BY DEF Answer
<1>3. \A r \in [req : Request, nr : Nat, left : Seq(Reply)] : "req" \in DOMAIN r
  OBVIOUS
<1>4. \A r \in [of : Answer, curpos : Nat, left : Nat] : "of" \in DOMAIN r
  OBVIOUS
<1>5. DOMAIN None = {"none"}
  BY DEF None
<1>6. "nr" \notin {"id", "by", "cmd"} /\ {"none"} # {"id", "by", "cmd"}
      /\ "nr" \notin {"none"} /\ "req" \notin {"none"} /\ "of" \notin {"none"}
  OBVIOUS
<1>7. Request \cap Answer = {}
  BY <1>1, <1>2, <1>6, Zenon
<1> QED BY <1>1, <1>2, <1>3, <1>4, <1>5, <1>6, <1>7, Zenon

-----------------------------------------------------------------------------
(* The inductive invariant. *)

\* Requests the game task has not taken yet, and answers given so far.
Waiting == Elements(gameQ) \cup (IF writing = None THEN {} ELSE {writing})
AtBluetooth == Elements(bleQ) \cup (IF bt = None THEN {} ELSE {bt.of})
Given == AtBluetooth \cup {sent[i].of : i \in DOMAIN sent} \cup (dropped \cap Answer)

\* Numbers are given once: to every message the last number or one before.
Numbered ==
  /\ \A m \in heap \cup Given \cup Waiting : m.id <= writes
  /\ gm # None => gm.req.id <= writes

\* Requests stay in the order of their numbers.
RequestsInOrder ==
  /\ Rising(gameQ)
  /\ writing # None => \A r \in Elements(gameQ) : r.id < writing.id
  /\ gm # None => \A r \in Waiting : gm.req.id < r.id

\* Nothing was answered before its turn.
AnswersBefore ==
  \A a \in Given :
    /\ \A r \in Waiting : a.id < r.id
    /\ gm # None => a.id < gm.req.id \/ (a.id = gm.req.id /\ a.nr < gm.nr)

\* Answers stay in the order in which they were given.
QueueInOrder ==
  /\ InOrder(bleQ)
  /\ bt # None => \A a \in Elements(bleQ) : Before(bt.of, a)

SentInOrder ==
  /\ AnswersInOrder
  /\ \A i \in DOMAIN sent :
       /\ \A a \in Elements(bleQ) : Before(sent[i].of, a)
       /\ bt # None =>
            \/ Before(sent[i].of, bt.of)
            \/ sent[i].of = bt.of /\ EndOf(sent[i]) <= bt.curpos

\* What has left of the answer the bluetooth task is sending.
PartsSent ==
  /\ bt # None =>
       /\ bt.curpos + bt.left = bt.of.len
       /\ \A byte \in 0..(bt.curpos - 1) :
            \E j \in DOMAIN sent : sent[j].of = bt.of /\ byte \in Bytes(sent[j])
  /\ AnswersWhole

\* Messages come from connections up to now, and go there or to a later one.
Senders ==
  /\ \A m \in Given \cup Waiting : m.by <= conn
  /\ gm # None => gm.req.by <= conn
  /\ \A i \in DOMAIN sent : sent[i].of.by <= sent[i].to /\ sent[i].to <= conn

IInv ==
  /\ TypeOK /\ MemoryAccounted
  /\ Numbered /\ RequestsInOrder /\ AnswersBefore
  /\ QueueInOrder /\ SentInOrder /\ PartsSent /\ Senders

-----------------------------------------------------------------------------
LEMMA EmptyElements == Elements(<<>>) = {} /\ Rising(<<>>) /\ InOrder(<<>>)
BY DEF Elements, Rising, InOrder

LEMMA InitIInv == Init => IInv
<1> SUFFICES ASSUME Init PROVE IInv
  OBVIOUS
<1>1. TypeOK
  BY QueueAssumption, EmptySeq DEF Init, TypeOK
<1>2. Waiting = {} /\ Given = {} /\ Held = {}
  BY EmptyElements DEF Init, Waiting, AtBluetooth, Given, Held
<1> QED
  BY <1>1, <1>2, EmptyElements DEF Init, IInv, MemoryAccounted, Numbered, RequestsInOrder,
     AnswersBefore, QueueInOrder, SentInOrder, AnswersInOrder, PartsSent, AnswersWhole, Senders

LEMMA Fields ==
  /\ \A m \in Request \cup Answer : m.id \in Nat /\ m.by \in Nat
  /\ \A a \in Answer : a.nr \in Nat /\ a.len \in Nat
BY DEF Request, Answer

\* What the elements of the queues are.
LEMMA Members ==
  ASSUME TypeOK
  PROVE  /\ Elements(gameQ) \subseteq Request /\ Elements(bleQ) \subseteq Answer
         /\ Waiting \subseteq Request /\ Given \subseteq Answer
         /\ writing # None => writing \in Request
         /\ gm # None => gm \in [req : Request, nr : Nat, left : Seq(Reply)] /\ gm.req \in Request
         /\ bt # None => bt \in [of : Answer, curpos : Nat, left : Nat] /\ bt.of \in Answer
         /\ \A i \in DOMAIN sent : sent[i] \in Indication /\ sent[i].of \in Answer
         /\ Held = Waiting \cup AtBluetooth \cup (IF gm = None THEN {} ELSE {gm.req})
<1>1. Elements(gameQ) \subseteq Request /\ Elements(bleQ) \subseteq Answer
  BY ElementsType DEF TypeOK
<1>2. \A i \in DOMAIN sent : sent[i] \in Indication /\ sent[i].of \in Answer
  <2>1. sent \in [1..Len(sent) -> Indication]
    BY LenProperties DEF TypeOK
  <2>2. \A x \in Indication : x.of \in Answer
    BY DEF Indication
  <2> QED BY <2>1, <2>2
<1>3. /\ writing # None => writing \in Request
      /\ gm # None => gm \in [req : Request, nr : Nat, left : Seq(Reply)] /\ gm.req \in Request
      /\ bt # None => bt \in [of : Answer, curpos : Nat, left : Nat] /\ bt.of \in Answer
  BY DEF TypeOK
<1>4. Held = Waiting \cup AtBluetooth \cup (IF gm = None THEN {} ELSE {gm.req})
  BY DEF Held, Waiting, AtBluetooth
<1>5. Waiting \subseteq Request
  BY <1>1, <1>3 DEF Waiting
<1>6. Given \subseteq Answer
  BY <1>1, <1>2, <1>3 DEF Given, AtBluetooth
<1> QED BY <1>1, <1>2, <1>3, <1>4, <1>5, <1>6

\* Steps that touch no message.
LEMMA OthersKeepIInv ==
  ASSUME IInv,
         \/ InitGames \/ SetGameTaskQueue \/ Connect \/ Disconnect
         \/ \E cmd \in Command : WriteTooEarly(cmd)
         \/ UNCHANGED vars
  PROVE  IInv'
<1> USE DEF IInv
<1>1. /\ UNCHANGED <<writing, gameQ, gm, bleQ, bt, sent, heap, dropped>>
      /\ writes' \in 0..MaxWrites /\ writes <= writes'
      /\ conn' \in 0..MaxConns /\ conn <= conn' /\ client' \in 0..MaxConns
      /\ client' # 0 => client' = conn'
      /\ boot' \in {"bluetooth", "games", "up"} /\ unlocked' \subseteq Game
  BY QueueAssumption DEF TypeOK, InitGames, setGameUnlocked, SetGameTaskQueue, Connect, Disconnect, WriteTooEarly,
     WriteEvent, Stack, vars
<1>2. /\ Waiting' = Waiting /\ Given' = Given /\ Held' = Held /\ AtBluetooth' = AtBluetooth
      /\ Elements(bleQ)' = Elements(bleQ) /\ Elements(gameQ)' = Elements(gameQ)
  BY <1>1 DEF Waiting, Given, AtBluetooth, Held, Elements
<1>3. TypeOK'
  BY <1>1 DEF TypeOK
<1>4. MemoryAccounted' /\ RequestsInOrder' /\ AnswersBefore' /\ QueueInOrder'
  BY <1>1, <1>2 DEF MemoryAccounted, RequestsInOrder, AnswersBefore, QueueInOrder
<1>5. SentInOrder' /\ PartsSent'
  BY <1>1, <1>2 DEF SentInOrder, AnswersInOrder, PartsSent, AnswersWhole
<1>6. \A m \in heap \cup Given \cup Waiting : m.id \in Nat /\ m.by \in Nat
  BY Members, Fields DEF TypeOK
<1>7. gm # None => gm.req.id \in Nat /\ gm.req.by \in Nat
  BY Members DEF Request
<1>8. \A i \in DOMAIN sent : sent[i].to \in Nat
  BY Members DEF Indication
<1>9. writes \in Nat /\ writes' \in Nat /\ conn \in Nat /\ conn' \in Nat
  BY <1>1 DEF TypeOK
<1>10. Numbered'
  BY <1>1, <1>2, <1>6, <1>7, <1>9 DEF Numbered
<1>11. Senders'
  BY <1>1, <1>2, <1>6, <1>7, <1>8, <1>9 DEF Senders
<1> QED BY <1>3, <1>4, <1>5, <1>10, <1>11

\* A new request: its number is greater than all before.
LEMMA WriteKeepsIInv ==
  ASSUME IInv, NEW cmd \in Command, Write(cmd)
  PROVE  IInv'
<1> USE DEF IInv
<1>1. /\ writing = None /\ client # 0 /\ writes < MaxWrites /\ writes' = writes + 1
      /\ writing' = [id |-> writes + 1, by |-> client, cmd |-> cmd]
      /\ heap' = heap \cup {writing'}
      /\ UNCHANGED <<boot, unlocked, client, conn, gameQ, gm, bleQ, bt, sent, dropped>>
  BY DEF Write, WriteEvent, Stack
<1>2. writing' \in Request /\ writing' # None /\ writing'.id = writes + 1 /\ writing'.by = conn
  <2>1. writes + 1 \in 1..MaxWrites /\ client \in 1..MaxConns /\ client = conn
    BY <1>1, QueueAssumption DEF TypeOK
  <2> QED BY <1>1, <2>1, Kinds DEF Request
<1>3. \A m \in heap \cup Given \cup Waiting : m.id \in Nat /\ m.by \in Nat /\ m.id <= writes
  BY Members, Fields DEF TypeOK, Numbered
<1>4. writes \in Nat
  BY DEF TypeOK
<1>5. writing' \notin heap \cup Given \cup Waiting
  BY <1>2, <1>3, <1>4
<1>6. /\ Waiting' = Waiting \cup {writing'} /\ Given' = Given /\ Held' = Held \cup {writing'}
      /\ Elements(bleQ)' = Elements(bleQ) /\ Elements(gameQ)' = Elements(gameQ)
      /\ Elements(gameQ) \subseteq Waiting
  BY <1>1, <1>2 DEF Waiting, Given, AtBluetooth, Held, Elements
<1>7. TypeOK'
  <2>1. writes' \in 0..MaxWrites
    BY <1>1, QueueAssumption DEF TypeOK
  <2>2. heap' \subseteq Request \cup Answer /\ dropped' \subseteq heap'
    BY <1>1, <1>2 DEF TypeOK
  <2> QED BY <1>1, <1>2, <2>1, <2>2 DEF TypeOK
<1>8. MemoryAccounted'
  BY <1>1, <1>5, <1>6 DEF MemoryAccounted, TypeOK
<1>9. QueueInOrder' /\ SentInOrder' /\ PartsSent'
  BY <1>1, <1>6 DEF QueueInOrder, SentInOrder, AnswersInOrder, PartsSent, AnswersWhole
<1>10. gm # None => gm.req.id \in Nat /\ gm.req.id <= writes
  BY Members DEF Request, Numbered
<1>11. Numbered' /\ RequestsInOrder' /\ AnswersBefore'
  BY <1>1, <1>2, <1>3, <1>4, <1>6, <1>10 DEF Numbered, RequestsInOrder, AnswersBefore
<1>12. Senders'
  BY <1>1, <1>2, <1>6 DEF Senders, TypeOK
<1> QED BY <1>7, <1>8, <1>9, <1>11, <1>12

\* The request is in the queue, or nobody holds it any more.
LEMMA SendRequestKeepsIInv ==
  ASSUME IInv, Queued \/ WriteTimeout
  PROVE  IInv'
<1> USE DEF IInv
<1>1. /\ writing # None /\ writing' = None
      /\ UNCHANGED <<boot, unlocked, client, conn, writes, gm, bleQ, bt, sent, heap>>
  BY DEF Queued, WriteTimeout, Stack
<1>2. /\ writing \in Request /\ writing \in Waiting /\ writing \notin Elements(gameQ)
      /\ writing \notin AtBluetooth /\ (gm # None => writing # gm.req)
  <2>1. writing \in Request /\ writing \in Waiting
    BY <1>1, Members DEF Waiting
  <2>2. \A r \in Elements(gameQ) : r.id < writing.id /\ r.id \in Nat
    BY <1>1, Members, Fields DEF RequestsInOrder
  <2>3. AtBluetooth \subseteq Answer
    BY Members DEF AtBluetooth
  <2>4. gm # None => gm.req.id < writing.id /\ gm.req.id \in Nat
    BY <2>1, Members, Fields DEF RequestsInOrder
  <2> QED BY <2>1, <2>2, <2>3, <2>4, Kinds, Fields
<1>3. QueueInOrder' /\ SentInOrder' /\ PartsSent'
  BY <1>1 DEF QueueInOrder, SentInOrder, AnswersInOrder, PartsSent, AnswersWhole, Elements
<1>4. CASE Queued
  <2>1. /\ gameQ' = Append(gameQ, writing) /\ Len(gameQ) < GAME_QUEUE_SIZE /\ dropped' = dropped
    BY <1>4 DEF Queued
  <2>2. Elements(gameQ)' = Elements(gameQ) \cup {writing}
    BY <1>2, <2>1, ElementsAppend DEF TypeOK
  <2>3. Waiting' = Waiting /\ Given' = Given /\ Held' = Held
    BY <1>1, <2>1, <2>2 DEF Waiting, Given, AtBluetooth, Held, Elements
  <2>4. gameQ' \in Seq(Request) /\ Len(gameQ') <= GAME_QUEUE_SIZE
    BY <1>2, <2>1, AppendProperties, LenProperties, QueueAssumption DEF TypeOK
  <2>5. Rising(gameQ')
    BY <1>1, <1>2, <2>1, RisingAppend DEF TypeOK, RequestsInOrder
  <2>6. TypeOK'
    BY <1>1, <2>1, <2>4 DEF TypeOK
  <2>7. MemoryAccounted' /\ Numbered' /\ AnswersBefore' /\ Senders'
    BY <1>1, <2>1, <2>3 DEF MemoryAccounted, Numbered, AnswersBefore, Senders
  <2>8. RequestsInOrder'
    BY <1>1, <2>3, <2>5 DEF RequestsInOrder
  <2> QED BY <1>3, <2>6, <2>7, <2>8
<1>5. CASE WriteTimeout
  <2>1. gameQ' = gameQ /\ dropped' = dropped \cup {writing}
    BY <1>5 DEF WriteTimeout
  <2>2. /\ Waiting' = Waiting \ {writing} /\ Given' = Given /\ Held' = Held \ {writing}
        /\ Elements(gameQ)' = Elements(gameQ)
    <3>1. dropped' \cap Answer = dropped \cap Answer
      BY <1>2, <2>1, Kinds
    <3>2. Waiting' = Waiting \ {writing} /\ AtBluetooth' = AtBluetooth
      BY <1>1, <1>2, <2>1 DEF Waiting, AtBluetooth, Elements
    <3>3. Held = Waiting \cup AtBluetooth \cup (IF gm = None THEN {} ELSE {gm.req})
      BY Members
    <3>4. Held' = Waiting' \cup AtBluetooth' \cup (IF gm' = None THEN {} ELSE {gm'.req})
      BY DEF Held, Waiting, AtBluetooth
    <3> QED BY <1>1, <1>2, <2>1, <3>1, <3>2, <3>3, <3>4 DEF Given, Elements
  <2>3. writing \in Held
    BY <1>2, Members
  <2>4. TypeOK'
    <3>1. dropped' \subseteq heap'
      BY <1>1, <2>1, <2>3 DEF TypeOK, MemoryAccounted
    <3> QED BY <1>1, <2>1, <3>1 DEF TypeOK
  <2>5. MemoryAccounted'
    BY <1>1, <2>1, <2>2, <2>3 DEF MemoryAccounted
  <2>6. Numbered' /\ AnswersBefore' /\ Senders' /\ RequestsInOrder'
    BY <1>1, <2>1, <2>2 DEF Numbered, AnswersBefore, Senders, RequestsInOrder
  <2> QED BY <1>3, <2>4, <2>5, <2>6
<1> QED BY <1>4, <1>5

\* The game task takes the oldest request.
LEMMA GameReceiveKeepsIInv ==
  ASSUME IInv, GameReceive
  PROVE  IInv'
<1> USE DEF IInv
<1> DEFINE r == Head(gameQ)
<1>1. /\ gm = None /\ gameQ # <<>>
      /\ gm' = [req |-> r, nr |-> 1, left |-> Answers(r.cmd)]
      /\ gameQ' = Tail(gameQ)
      /\ UNCHANGED <<boot, unlocked, client, conn, writes, writing, bleQ, bt, sent, heap, dropped>>
  BY DEF GameReceive, Games
<1>2. /\ r \in Request /\ gameQ' \in Seq(Request) /\ Len(gameQ') = Len(gameQ) - 1
      /\ Elements(gameQ) = {r} \cup Elements(gameQ')
      /\ Rising(gameQ') /\ \A q \in Elements(gameQ') : r.id < q.id
  BY <1>1, HeadTailProperties, ElementsTail, RisingTail DEF TypeOK, RequestsInOrder
<1>3. Answers(r.cmd) \in Seq(Reply)
  <2>1. r.cmd \in Command
    BY <1>2 DEF Request
  <2>2. Replies[r.cmd] \in Seq(Nat)
    BY <2>1, CommandAssumption
  <2>3. \A n \in Nat, text \in Text : String(text, n) \in Reply
    BY DEF String, Reply
  <2>4. \A i \in 1..Len(Replies[r.cmd]) : String("answer", Replies[r.cmd][i]) \in Reply
    BY <2>2, <2>3, ElementOfSeq DEF Text
  <2>5. Len(Replies[r.cmd]) \in Nat
    BY <2>2, LenProperties
  <2>6. [i \in 1..Len(Replies[r.cmd]) |-> String("answer", Replies[r.cmd][i])] \in Seq(Reply)
    <3>1. [i \in 1..Len(Replies[r.cmd]) |-> String("answer", Replies[r.cmd][i])]
            \in [1..Len(Replies[r.cmd]) -> Reply]
      BY <2>4
    <3> QED BY <2>5, <3>1, SeqDef
  <2>7. <<String("context", BadContext)>> \in Seq(Reply) /\ <<String("locked", Locked)>> \in Seq(Reply)
    BY <2>3, QueueAssumption DEF Text
  <2> QED BY <2>6, <2>7 DEF Answers, mainMenuSendResponse
<1>4. gm' \in [req : Request, nr : Nat, left : Seq(Reply)] /\ gm' # None /\ gm'.req = r /\ gm'.nr = 1
  BY <1>1, <1>2, <1>3, Kinds
<1>5. Elements(gameQ)' = Elements(gameQ') /\ Elements(bleQ)' = Elements(bleQ)
  BY <1>1 DEF Elements
<1>6. Waiting = Waiting' \cup {r} /\ Given' = Given /\ AtBluetooth' = AtBluetooth
  BY <1>1, <1>2, <1>5 DEF Waiting, Given, AtBluetooth
<1>7. TypeOK'
  <2>1. Len(gameQ') <= GAME_QUEUE_SIZE
    BY <1>2, LenProperties, QueueAssumption DEF TypeOK
  <2> QED BY <1>1, <1>2, <1>4, <2>1 DEF TypeOK
<1>8. Held' = Held
  <2>1. Held = Waiting \cup AtBluetooth
    BY <1>1, Members
  <2>2. Held' = Waiting' \cup AtBluetooth' \cup {r}
    BY <1>4 DEF Held, Waiting, AtBluetooth
  <2> QED BY <1>6, <2>1, <2>2
<1>9. MemoryAccounted' /\ QueueInOrder' /\ SentInOrder' /\ PartsSent'
  BY <1>1, <1>5, <1>8 DEF MemoryAccounted, QueueInOrder, SentInOrder, AnswersInOrder, PartsSent,
     AnswersWhole
<1>10. \A q \in Waiting' : r.id < q.id
  BY <1>1, <1>2, <1>5 DEF Waiting, RequestsInOrder, Elements
<1>11. RequestsInOrder'
  BY <1>1, <1>2, <1>4, <1>5, <1>10 DEF RequestsInOrder
<1>12. Numbered' /\ Senders'
  BY <1>1, <1>4, <1>6 DEF Numbered, Senders
<1>13. AnswersBefore'
  BY <1>1, <1>4, <1>6 DEF AnswersBefore
<1> QED BY <1>7, <1>9, <1>11, <1>12, <1>13

\* The next answer: none was given after it, none of this number before.
LEMMA ResponseIsNew ==
  ASSUME IInv, gm # None, gm.left # <<>>
  PROVE  /\ Response \in Answer /\ Response.id = gm.req.id /\ Response.nr = gm.nr
         /\ Response.by = gm.req.by
         /\ Response \notin heap \cup Given
         /\ \A a \in Given : Before(a, Response)
<1> USE DEF IInv
<1>1. /\ gm \in [req : Request, nr : Nat, left : Seq(Reply)] /\ gm.req \in Request
      /\ gm.left \in Seq(Reply) /\ gm.nr \in Nat
  BY Members
<1>2. Head(gm.left) \in Reply
  BY <1>1, HeadTailProperties
<1>3. /\ Response \in Answer /\ Response.id = gm.req.id /\ Response.nr = gm.nr
      /\ Response.by = gm.req.by
  BY <1>1, <1>2 DEF Response, Answer, Reply, Request
<1>4. \A a \in Given : Before(a, Response)
  BY <1>3 DEF AnswersBefore, Before
<1>5. Response \notin Given
  BY <1>3, <1>4, Fields DEF Before
<1>6. heap \subseteq Request \cup Given
  BY Members DEF MemoryAccounted, Given, TypeOK
<1> QED BY <1>3, <1>4, <1>5, <1>6, Kinds

\* An answer is in the queue, or the queue had no place for it.
LEMMA SendResponseKeepsIInv ==
  ASSUME IInv, Answered \/ AnswerTimeout
  PROVE  IInv'
<1> USE DEF IInv
<1>1. /\ gm # None /\ gm.left # <<>> /\ heap' = heap \cup {Response}
      /\ gm' = [gm EXCEPT !.nr = @ + 1, !.left = Tail(@)]
      /\ UNCHANGED <<boot, unlocked, client, conn, writes, writing, gameQ, bt, sent>>
  BY DEF Answered, AnswerTimeout, SendResponse, Games
<1>2. /\ gm \in [req : Request, nr : Nat, left : Seq(Reply)] /\ gm.req \in Request
      /\ gm.left \in Seq(Reply) /\ gm.nr \in Nat
  BY <1>1, Members
<1>3. /\ gm' \in [req : Request, nr : Nat, left : Seq(Reply)]
      /\ gm' # None /\ gm'.req = gm.req /\ gm'.nr = gm.nr + 1
  <2>1. Tail(gm.left) \in Seq(Reply)
    BY <1>1, <1>2, HeadTailProperties
  <2>2. gm' = [req |-> gm.req, nr |-> gm.nr + 1, left |-> Tail(gm.left)]
    BY <1>1, <1>2
  <2>3. gm.nr + 1 \in Nat
    BY <1>2
  <2>4. gm' \in [req : Request, nr : Nat, left : Seq(Reply)]
    BY <1>2, <2>1, <2>2, <2>3
  <2>5. gm' # None
    BY <2>4, Kinds, Zenon
  <2> QED BY <2>2, <2>4, <2>5
<1>4. /\ Response \in Answer /\ Response.id = gm.req.id /\ Response.nr = gm.nr
      /\ Response.by = gm.req.by
      /\ Response \notin heap \cup Given
      /\ \A a \in Given : Before(a, Response)
  BY <1>1, ResponseIsNew
<1>5. Waiting' = Waiting /\ Elements(gameQ)' = Elements(gameQ)
  BY <1>1 DEF Waiting, Elements
<1>6. Held = Waiting \cup AtBluetooth \cup {gm.req} /\ Waiting \subseteq Request
  BY <1>1, Members
<1>7. Held' = Waiting' \cup AtBluetooth' \cup {gm'.req}
  BY <1>3 DEF Held, Waiting, AtBluetooth
<1>8. RequestsInOrder'
  BY <1>1, <1>3, <1>5 DEF RequestsInOrder
<1>9. ASSUME Given' = Given \cup {Response}
      PROVE  Numbered' /\ AnswersBefore' /\ Senders'
  <2>1. Numbered'
    BY <1>1, <1>3, <1>4, <1>5, <1>9 DEF Numbered
  <2>2. Senders'
    BY <1>1, <1>3, <1>4, <1>5, <1>9 DEF Senders
  <2>3. \A a \in Given : a.id \in Nat /\ a.nr \in Nat
    BY Members, Fields
  <2>4. \A a \in Given' :
           \/ a \in Given /\ (a.id < gm.req.id \/ (a.id = gm.req.id /\ a.nr < gm.nr))
           \/ a = Response
    BY <1>1, <1>9 DEF AnswersBefore
  <2>5. \A q \in Waiting : gm.req.id < q.id
    BY <1>1 DEF RequestsInOrder
  <2>6. \A a \in Given' : \A q \in Waiting : a.id < q.id
    BY <1>4, <1>9, <2>5 DEF AnswersBefore
  <2>7. \A a \in Given' : a.id < gm.req.id \/ (a.id = gm.req.id /\ a.nr < gm.nr + 1)
    BY <1>2, <1>4, <2>3, <2>4
  <2>8. AnswersBefore'
    BY <1>3, <1>5, <2>6, <2>7 DEF AnswersBefore
  <2> QED BY <2>1, <2>2, <2>8
<1>10. \A i \in DOMAIN sent : sent[i].of \in Given
  BY DEF Given
<1>11. bt # None => bt.of \in Given
  BY DEF Given, AtBluetooth
<1>12. Elements(bleQ) \subseteq Given
  BY DEF Given, AtBluetooth
<1>13. PartsSent'
  BY <1>1 DEF PartsSent, AnswersWhole
<1>14. CASE Answered
  <2>1. bleQ' = Append(bleQ, Response) /\ dropped' = dropped /\ Len(bleQ) < BLE_QUEUE_SIZE
    BY <1>14 DEF Answered
  <2>2. Elements(bleQ)' = Elements(bleQ) \cup {Response}
    BY <1>4, <2>1, ElementsAppend DEF TypeOK
  <2>3. AtBluetooth' = AtBluetooth \cup {Response}
    BY <1>1, <2>2 DEF AtBluetooth
  <2>4. Given' = Given \cup {Response}
    BY <1>1, <2>1, <2>3 DEF Given
  <2>5. TypeOK'
    <3>1. bleQ' \in Seq(Answer) /\ Len(bleQ') <= BLE_QUEUE_SIZE
      BY <1>4, <2>1, AppendProperties, LenProperties, QueueAssumption DEF TypeOK
    <3>2. heap' \subseteq Request \cup Answer /\ dropped' \subseteq heap'
      BY <1>1, <1>4, <2>1 DEF TypeOK
    <3> QED BY <1>1, <1>3, <3>1, <3>2 DEF TypeOK
  <2>6. MemoryAccounted'
    BY <1>1, <1>3, <1>4, <1>5, <1>6, <1>7, <2>1, <2>3 DEF MemoryAccounted
  <2>7. QueueInOrder'
    <3>1. InOrder(bleQ')
      BY <1>4, <1>12, <2>1, InOrderAppend DEF TypeOK, QueueInOrder
    <3> QED BY <1>1, <1>4, <1>11, <2>2, <3>1 DEF QueueInOrder
  <2>8. SentInOrder'
    BY <1>1, <1>4, <1>10, <2>2 DEF SentInOrder, AnswersInOrder
  <2> QED BY <1>8, <1>9, <1>13, <2>4, <2>5, <2>6, <2>7, <2>8
<1>15. CASE AnswerTimeout
  <2>1. bleQ' = bleQ /\ dropped' = dropped \cup {Response}
    BY <1>15 DEF AnswerTimeout
  <2>2. AtBluetooth' = AtBluetooth /\ Elements(bleQ)' = Elements(bleQ)
    BY <1>1, <2>1 DEF AtBluetooth, Elements
  <2>3. Given' = Given \cup {Response}
    BY <1>1, <1>4, <2>1, <2>2 DEF Given
  <2>4. TypeOK'
    <3>1. heap' \subseteq Request \cup Answer /\ dropped' \subseteq heap'
      BY <1>1, <1>4, <2>1 DEF TypeOK
    <3> QED BY <1>1, <1>3, <2>1, <3>1 DEF TypeOK
  <2>5. AtBluetooth \subseteq Given
    BY DEF Given
  <2>6. MemoryAccounted'
    BY <1>1, <1>2, <1>3, <1>4, <1>5, <1>6, <1>7, <2>1, <2>2, <2>5, Kinds DEF MemoryAccounted
  <2>7. QueueInOrder' /\ SentInOrder'
    BY <1>1, <2>1, <2>2 DEF QueueInOrder, SentInOrder, AnswersInOrder
  <2> QED BY <1>8, <1>9, <1>13, <2>3, <2>4, <2>6, <2>7
<1> QED BY <1>14, <1>15

\* The request is freed when it is answered.
LEMMA CleanupKeepsIInv ==
  ASSUME IInv, Cleanup
  PROVE  IInv'
<1> USE DEF IInv
<1>1. /\ gm # None /\ gm' = None /\ heap' = heap \ {gm.req}
      /\ UNCHANGED <<boot, unlocked, client, conn, writes, writing, bt, sent, gameQ, bleQ, dropped>>
  BY DEF Cleanup, Games
<1>2. gm.req \in Request /\ gm.req \in Held /\ gm.req \notin AtBluetooth /\ gm.req \notin Waiting
  <2>1. gm.req \in Request /\ gm.req \in Held
    BY <1>1, Members
  <2>2. AtBluetooth \subseteq Answer
    BY Members DEF AtBluetooth
  <2>3. \A q \in Waiting : gm.req.id < q.id
    BY <1>1 DEF RequestsInOrder
  <2> QED BY <2>1, <2>2, <2>3, Kinds, Fields
<1>3. /\ Waiting' = Waiting /\ AtBluetooth' = AtBluetooth /\ Given' = Given
      /\ Elements(gameQ)' = Elements(gameQ) /\ Elements(bleQ)' = Elements(bleQ)
  BY <1>1 DEF Waiting, AtBluetooth, Given, Elements
<1>4. Held' = Held \ {gm.req}
  <2>1. Held = Waiting \cup AtBluetooth \cup {gm.req}
    BY <1>1, Members
  <2>2. Held' = Waiting' \cup AtBluetooth'
    BY <1>1 DEF Held, Waiting, AtBluetooth
  <2> QED BY <1>2, <1>3, <2>1, <2>2
<1>5. TypeOK'
  <2>1. heap' \subseteq Request \cup Answer /\ dropped' \subseteq heap'
    BY <1>1, <1>2 DEF TypeOK, MemoryAccounted
  <2> QED BY <1>1, <2>1 DEF TypeOK
<1>6. MemoryAccounted'
  BY <1>1, <1>2, <1>4 DEF MemoryAccounted
<1>7. Numbered' /\ RequestsInOrder' /\ AnswersBefore' /\ Senders'
  BY <1>1, <1>3 DEF Numbered, RequestsInOrder, AnswersBefore, Senders
<1>8. QueueInOrder' /\ SentInOrder' /\ PartsSent'
  BY <1>1, <1>3 DEF QueueInOrder, SentInOrder, AnswersInOrder, PartsSent, AnswersWhole
<1> QED BY <1>5, <1>6, <1>7, <1>8

\* The bluetooth task takes the oldest answer.
LEMMA BluetoothReceiveKeepsIInv ==
  ASSUME IInv, BluetoothReceive
  PROVE  IInv'
<1> USE DEF IInv
<1> DEFINE a == Head(bleQ)
<1>1. /\ bt = None /\ bleQ # <<>>
      /\ bt' = [of |-> a, curpos |-> 0, left |-> a.len]
      /\ bleQ' = Tail(bleQ)
      /\ UNCHANGED <<boot, unlocked, client, conn, writes, writing, gameQ, gm, dropped, sent, heap>>
  BY DEF BluetoothReceive, Bluetooth
<1>2. /\ a \in Answer /\ bleQ' \in Seq(Answer) /\ Len(bleQ') = Len(bleQ) - 1
      /\ Elements(bleQ) = {a} \cup Elements(bleQ')
      /\ InOrder(bleQ') /\ \A b \in Elements(bleQ') : Before(a, b)
  BY <1>1, HeadTailProperties, ElementsTail, InOrderTail DEF TypeOK, QueueInOrder
<1>3. /\ bt' \in [of : Answer, curpos : Nat, left : Nat] /\ bt' # None
      /\ bt'.of = a /\ bt'.curpos = 0 /\ bt'.left = a.len /\ a.len \in Nat
  BY <1>1, <1>2, Fields, Kinds
<1>4. Elements(bleQ)' = Elements(bleQ') /\ Elements(gameQ)' = Elements(gameQ)
  BY <1>1 DEF Elements
<1>5. Waiting' = Waiting /\ AtBluetooth' = AtBluetooth
  BY <1>1, <1>2, <1>3, <1>4 DEF Waiting, AtBluetooth
<1>6. Given' = Given
  BY <1>1, <1>5 DEF Given
<1>7. Held' = Held
  <2>1. Held = Waiting \cup AtBluetooth \cup (IF gm = None THEN {} ELSE {gm.req})
    BY Members
  <2>2. Held' = Waiting' \cup AtBluetooth' \cup (IF gm' = None THEN {} ELSE {gm'.req})
    BY DEF Held, Waiting, AtBluetooth
  <2> QED BY <1>1, <1>5, <2>1, <2>2
<1>8. TypeOK'
  <2>1. Len(bleQ') <= BLE_QUEUE_SIZE
    BY <1>2, LenProperties, QueueAssumption DEF TypeOK
  <2> QED BY <1>1, <1>2, <1>3, <2>1 DEF TypeOK
<1>9. MemoryAccounted' /\ Numbered' /\ RequestsInOrder' /\ AnswersBefore' /\ Senders'
  BY <1>1, <1>4, <1>5, <1>6, <1>7 DEF MemoryAccounted, Numbered, RequestsInOrder, AnswersBefore,
     Senders
<1>10. QueueInOrder'
  BY <1>2, <1>3, <1>4 DEF QueueInOrder
<1>11. SentInOrder'
  BY <1>1, <1>2, <1>3, <1>4 DEF SentInOrder, AnswersInOrder
<1>12. PartsSent'
  BY <1>1, <1>3 DEF PartsSent, AnswersWhole
<1> QED BY <1>8, <1>9, <1>10, <1>11, <1>12

\* The next n bytes of an answer leave.
LEMMA IndicateAppends ==
  ASSUME IInv, bt # None, NEW n \in 0..Payload, n <= bt.left, Indicate(n)
  PROVE  /\ sent' \in Seq(Indication)
         /\ AnswersInOrder'
         /\ \A i \in DOMAIN sent' :
              /\ \A a \in Elements(bleQ) : Before(sent'[i].of, a)
              /\ \/ Before(sent'[i].of, bt.of)
                 \/ sent'[i].of = bt.of /\ EndOf(sent'[i]) <= bt.curpos + n
              /\ sent'[i].of.by <= sent'[i].to /\ sent'[i].to <= conn
         /\ \A byte \in 0..(bt.curpos + n - 1) :
              \E j \in DOMAIN sent' : sent'[j].of = bt.of /\ byte \in Bytes(sent'[j])
         /\ \A i \in DOMAIN sent' : sent'[i].of # bt.of =>
              \A byte \in 0..(sent'[i].of.len - 1) :
                \E j \in DOMAIN sent' : sent'[j].of = sent'[i].of /\ byte \in Bytes(sent'[j])
         /\ {sent'[i].of : i \in DOMAIN sent'} = {sent[i].of : i \in DOMAIN sent} \cup {bt.of}
<1> USE DEF IInv
<1> DEFINE new == [to |-> conn, of |-> bt.of, curpos |-> bt.curpos, n |-> n]
           last == Len(sent) + 1
<1>1. sent' = Append(sent, new) /\ sent \in Seq(Indication)
  BY DEF Indicate, TypeOK
<1>2. /\ bt \in [of : Answer, curpos : Nat, left : Nat] /\ bt.of \in Answer
      /\ bt.curpos \in Nat /\ bt.left \in Nat /\ n \in Nat
  BY Members, QueueAssumption
<1>3. new \in Indication
  BY <1>2 DEF Indication, TypeOK
<1>4. /\ sent' \in Seq(Indication) /\ Len(sent) \in Nat
      /\ DOMAIN sent = 1..Len(sent) /\ DOMAIN sent' = 1..last
      /\ \A i \in DOMAIN sent : sent'[i] = sent[i]
      /\ sent'[last] = new
  <2>1. /\ Append(sent, new) \in Seq(Indication) /\ Len(Append(sent, new)) = Len(sent) + 1
        /\ \A i \in 1..Len(sent) : Append(sent, new)[i] = sent[i]
        /\ Append(sent, new)[Len(sent) + 1] = new
    BY <1>1, <1>3, AppendProperties
  <2> QED BY <1>1, <2>1, LenProperties
<1>5. \A i \in DOMAIN sent' : i \in DOMAIN sent \/ i = last
  BY <1>4
<1>6. bt.of \in Given /\ bt.of.by <= conn /\ conn \in Nat
  BY DEF Given, AtBluetooth, Senders, TypeOK
<1>7. \A i \in DOMAIN sent :
        /\ Before(sent[i].of, bt.of) \/ (sent[i].of = bt.of /\ EndOf(sent[i]) <= bt.curpos)
        /\ EndOf(sent[i]) \in Nat
  <2>1. \A i \in DOMAIN sent : sent[i].curpos \in Nat /\ sent[i].n \in Nat
    BY Members, QueueAssumption DEF Indication
  <2> QED BY <2>1 DEF SentInOrder, EndOf
<1>8. AnswersInOrder'
  <2> SUFFICES ASSUME NEW i \in DOMAIN sent', NEW j \in DOMAIN sent', i < j
               PROVE  \/ Before(sent'[i].of, sent'[j].of)
                      \/ sent'[i].of = sent'[j].of /\ EndOf(sent'[i]) <= sent'[j].curpos
    BY DEF AnswersInOrder, Before, EndOf
  <2>1. i \in DOMAIN sent
    BY <1>4
  <2>2. CASE j \in DOMAIN sent
    BY <1>4, <2>1, <2>2 DEF SentInOrder, AnswersInOrder
  <2>3. CASE j = last
    BY <1>4, <1>7, <2>1, <2>3
  <2> QED BY <1>5, <2>2, <2>3
<1>9. \A i \in DOMAIN sent' : \A a \in Elements(bleQ) : Before(sent'[i].of, a)
  BY <1>4, <1>5 DEF SentInOrder, QueueInOrder
<1>10. \A i \in DOMAIN sent' :
         \/ Before(sent'[i].of, bt.of)
         \/ sent'[i].of = bt.of /\ EndOf(sent'[i]) <= bt.curpos + n
  <2> SUFFICES ASSUME NEW i \in DOMAIN sent'
               PROVE  \/ Before(sent'[i].of, bt.of)
                      \/ sent'[i].of = bt.of /\ EndOf(sent'[i]) <= bt.curpos + n
    OBVIOUS
  <2>1. CASE i \in DOMAIN sent
    BY <1>2, <1>4, <1>7, <2>1
  <2>2. CASE i = last
    BY <1>2, <1>4, <2>2 DEF EndOf
  <2> QED BY <1>5, <2>1, <2>2
<1>11. \A i \in DOMAIN sent' : sent'[i].of.by <= sent'[i].to /\ sent'[i].to <= conn
  BY <1>4, <1>5, <1>6 DEF Senders
<1>12. \A byte \in 0..(bt.curpos + n - 1) :
         \E j \in DOMAIN sent' : sent'[j].of = bt.of /\ byte \in Bytes(sent'[j])
  <2> SUFFICES ASSUME NEW byte \in 0..(bt.curpos + n - 1)
               PROVE  \E j \in DOMAIN sent' : sent'[j].of = bt.of /\ byte \in Bytes(sent'[j])
    OBVIOUS
  <2>1. CASE byte < bt.curpos
    <3>1. byte \in 0..(bt.curpos - 1)
      BY <1>2, <2>1
    <3>2. PICK j \in DOMAIN sent : sent[j].of = bt.of /\ byte \in Bytes(sent[j])
      BY <3>1 DEF PartsSent
    <3> QED BY <1>4, <3>2
  <2>2. CASE ~(byte < bt.curpos)
    <3>1. byte \in Bytes(new)
      BY <1>2, <2>2 DEF Bytes, EndOf
    <3> QED BY <1>4, <3>1
  <2> QED BY <2>1, <2>2
<1>13. \A i \in DOMAIN sent' : sent'[i].of # bt.of =>
         \A byte \in 0..(sent'[i].of.len - 1) :
           \E j \in DOMAIN sent' : sent'[j].of = sent'[i].of /\ byte \in Bytes(sent'[j])
  <2> SUFFICES ASSUME NEW i \in DOMAIN sent', sent'[i].of # bt.of,
                      NEW byte \in 0..(sent'[i].of.len - 1)
               PROVE  \E j \in DOMAIN sent' : sent'[j].of = sent'[i].of /\ byte \in Bytes(sent'[j])
    OBVIOUS
  <2>1. i \in DOMAIN sent
    BY <1>4, <1>5
  <2>2. PICK j \in DOMAIN sent : sent[j].of = sent[i].of /\ byte \in Bytes(sent[j])
    BY <1>4, <2>1 DEF PartsSent, AnswersWhole
  <2> QED BY <1>4, <2>1, <2>2
<1>14. {sent'[i].of : i \in DOMAIN sent'} = {sent[i].of : i \in DOMAIN sent} \cup {bt.of}
  BY <1>4, <1>5
<1> QED BY <1>4, <1>8, <1>9, <1>10, <1>11, <1>12, <1>13, <1>14

\* Twenty bytes of an answer leave, and more are to follow.
LEMMA SendPartKeepsIInv ==
  ASSUME IInv, SendPart
  PROVE  IInv'
<1> USE DEF IInv
<1>1. /\ bt # None /\ bt.left > Payload /\ Indicate(Payload)
      /\ bt' = [bt EXCEPT !.left = @ - Payload, !.curpos = @ + Payload]
      /\ UNCHANGED <<boot, unlocked, client, conn, writes, writing, gameQ, gm, dropped, bleQ, heap>>
  BY DEF SendPart, Bluetooth
<1>2. /\ bt \in [of : Answer, curpos : Nat, left : Nat] /\ bt.of \in Answer
      /\ bt.curpos \in Nat /\ bt.left \in Nat /\ Payload \in Nat
  BY <1>1, Members, QueueAssumption
<1>3. /\ bt' \in [of : Answer, curpos : Nat, left : Nat] /\ bt' # None /\ bt'.of = bt.of
      /\ bt'.curpos = bt.curpos + Payload /\ bt'.left = bt.left - Payload
  <2>1. bt' = [of |-> bt.of, curpos |-> bt.curpos + Payload, left |-> bt.left - Payload]
    BY <1>1, <1>2
  <2>2. bt.curpos + Payload \in Nat /\ bt.left - Payload \in Nat
    BY <1>1, <1>2
  <2> QED BY <1>2, <2>1, <2>2, Kinds
<1>4. /\ sent' \in Seq(Indication)
      /\ AnswersInOrder'
      /\ \A i \in DOMAIN sent' :
           /\ \A a \in Elements(bleQ) : Before(sent'[i].of, a)
           /\ \/ Before(sent'[i].of, bt.of)
              \/ sent'[i].of = bt.of /\ EndOf(sent'[i]) <= bt.curpos + Payload
           /\ sent'[i].of.by <= sent'[i].to /\ sent'[i].to <= conn
      /\ \A byte \in 0..(bt.curpos + Payload - 1) :
           \E j \in DOMAIN sent' : sent'[j].of = bt.of /\ byte \in Bytes(sent'[j])
      /\ \A i \in DOMAIN sent' : sent'[i].of # bt.of =>
           \A byte \in 0..(sent'[i].of.len - 1) :
             \E j \in DOMAIN sent' : sent'[j].of = sent'[i].of /\ byte \in Bytes(sent'[j])
      /\ {sent'[i].of : i \in DOMAIN sent'} = {sent[i].of : i \in DOMAIN sent} \cup {bt.of}
  <2>1. Payload \in 0..Payload /\ Payload <= bt.left
    BY <1>1, <1>2
  <2> QED BY <1>1, <2>1, IndicateAppends
<1>5. Waiting' = Waiting /\ AtBluetooth' = AtBluetooth /\ bt.of \in AtBluetooth
      /\ Elements(gameQ)' = Elements(gameQ) /\ Elements(bleQ)' = Elements(bleQ)
  BY <1>1, <1>3 DEF Waiting, AtBluetooth, Elements
<1>6. Given' = Given
  BY <1>1, <1>4, <1>5 DEF Given
<1>7. Held' = Held
  BY <1>1, <1>3, <1>5 DEF Held
<1>8. TypeOK'
  BY <1>1, <1>3, <1>4 DEF TypeOK
<1>9. MemoryAccounted' /\ Numbered' /\ RequestsInOrder' /\ AnswersBefore'
  BY <1>1, <1>5, <1>6, <1>7 DEF MemoryAccounted, Numbered, RequestsInOrder, AnswersBefore
<1>10. QueueInOrder'
  BY <1>1, <1>3, <1>5 DEF QueueInOrder
<1>11. SentInOrder'
  BY <1>3, <1>4, <1>5 DEF SentInOrder, Before, EndOf
<1>12. PartsSent'
  <2>1. bt'.curpos + bt'.left = bt'.of.len
    BY <1>1, <1>2, <1>3 DEF PartsSent
  <2>2. AnswersWhole'
    BY <1>3, <1>4 DEF AnswersWhole, Bytes, EndOf
  <2>3. \A byte \in 0..(bt'.curpos - 1) :
          \E j \in DOMAIN sent' : sent'[j].of = bt'.of /\ byte \in Bytes(sent'[j])
    <3> SUFFICES ASSUME NEW byte \in 0..(bt'.curpos - 1)
                 PROVE  \E j \in DOMAIN sent' : sent'[j].of = bt'.of /\ byte \in Bytes(sent'[j])
      OBVIOUS
    <3>1. byte \in 0..(bt.curpos + Payload - 1)
      <4>1. bt'.curpos - 1 = bt.curpos + Payload - 1
        BY <1>2, <1>3
      <4> QED BY <4>1
    <3>2. PICK j \in DOMAIN sent' : sent'[j].of = bt.of /\ byte \in Bytes(sent'[j])
      BY <1>4, <3>1
    <3> QED BY <1>3, <3>2
  <2> QED BY <2>1, <2>2, <2>3 DEF PartsSent, Bytes, EndOf
<1>13. Senders'
  BY <1>1, <1>4, <1>5, <1>6 DEF Senders
<1> QED BY <1>8, <1>9, <1>10, <1>11, <1>12, <1>13

\* The last bytes of an answer leave, and it is freed.
LEMMA SendRestKeepsIInv ==
  ASSUME IInv, SendRest
  PROVE  IInv'
<1> USE DEF IInv
<1>1. /\ bt # None /\ bt.left <= Payload /\ Indicate(bt.left)
      /\ heap' = heap \ {bt.of} /\ bt' = None
      /\ UNCHANGED <<boot, unlocked, client, conn, writes, writing, gameQ, gm, dropped, bleQ>>
  BY DEF SendRest, Bluetooth
<1>2. /\ bt.of \in Answer /\ bt.curpos \in Nat /\ bt.left \in Nat /\ bt.of.len \in Nat
  BY <1>1, Members, Fields
<1>3. bt.curpos + bt.left = bt.of.len
  BY <1>1 DEF PartsSent
<1>4. /\ sent' \in Seq(Indication)
      /\ AnswersInOrder'
      /\ \A i \in DOMAIN sent' :
           /\ \A a \in Elements(bleQ) : Before(sent'[i].of, a)
           /\ sent'[i].of.by <= sent'[i].to /\ sent'[i].to <= conn
      /\ \A byte \in 0..(bt.curpos + bt.left - 1) :
           \E j \in DOMAIN sent' : sent'[j].of = bt.of /\ byte \in Bytes(sent'[j])
      /\ \A i \in DOMAIN sent' : sent'[i].of # bt.of =>
           \A byte \in 0..(sent'[i].of.len - 1) :
             \E j \in DOMAIN sent' : sent'[j].of = sent'[i].of /\ byte \in Bytes(sent'[j])
      /\ {sent'[i].of : i \in DOMAIN sent'} = {sent[i].of : i \in DOMAIN sent} \cup {bt.of}
  <2>1. bt.left \in 0..Payload /\ bt.left <= bt.left
    BY <1>1, <1>2, QueueAssumption
  <2> HIDE DEF IInv
  <2> QED BY <1>1, <2>1, IndicateAppends
<1>5. Waiting' = Waiting /\ Elements(gameQ)' = Elements(gameQ) /\ Elements(bleQ)' = Elements(bleQ)
  BY <1>1 DEF Waiting, Elements
<1>6. bt.of \notin Elements(bleQ) /\ bt.of \in AtBluetooth /\ bt.of \in Held
  <2>1. \A a \in Elements(bleQ) : Before(bt.of, a)
    BY <1>1 DEF QueueInOrder
  <2>2. bt.of.id \in Nat /\ bt.of.nr \in Nat
    BY <1>2, Fields
  <2> QED BY <1>1, <2>1, <2>2 DEF Before, AtBluetooth, Held
<1>7. AtBluetooth' = AtBluetooth \ {bt.of}
  BY <1>1, <1>5, <1>6 DEF AtBluetooth
<1>8. Given' = Given
  BY <1>1, <1>4, <1>6, <1>7 DEF Given
<1>9. Held' = Held \ {bt.of}
  <2>1. Held = Waiting \cup AtBluetooth \cup (IF gm = None THEN {} ELSE {gm.req})
    BY Members
  <2>2. Held' = Waiting' \cup AtBluetooth' \cup (IF gm' = None THEN {} ELSE {gm'.req})
    BY DEF Held, Waiting, AtBluetooth
  <2>3. bt.of \notin Waiting /\ (gm # None => bt.of # gm.req)
    BY <1>2, Members, Kinds
  <2> QED BY <1>1, <1>5, <1>7, <2>1, <2>2, <2>3
<1>10. TypeOK'
  <2>1. heap' \subseteq Request \cup Answer /\ dropped' \subseteq heap'
    BY <1>1, <1>6 DEF TypeOK, MemoryAccounted
  <2> QED BY <1>1, <1>4, <2>1 DEF TypeOK
<1>11. MemoryAccounted'
  BY <1>1, <1>6, <1>9 DEF MemoryAccounted
<1>12. Numbered' /\ RequestsInOrder' /\ AnswersBefore'
  BY <1>1, <1>5, <1>8 DEF Numbered, RequestsInOrder, AnswersBefore
<1>13. QueueInOrder' /\ SentInOrder'
  BY <1>1, <1>4, <1>5 DEF QueueInOrder, SentInOrder, Before
<1>14. PartsSent'
  <2>1. AnswersWhole'
    <3> SUFFICES ASSUME NEW i \in DOMAIN sent', NEW byte \in 0..(sent'[i].of.len - 1)
                 PROVE  \E j \in DOMAIN sent' :
                          sent'[j].of = sent'[i].of /\ byte \in Bytes(sent'[j])
      BY DEF AnswersWhole, Bytes, EndOf
    <3>1. CASE sent'[i].of = bt.of
      <4>1. byte \in 0..(bt.curpos + bt.left - 1)
        <5>1. sent'[i].of.len = bt.curpos + bt.left
          BY <1>3, <3>1
        <5>2. byte \in Int /\ 0 <= byte /\ byte <= sent'[i].of.len - 1
          BY <1>2, <5>1
        <5> QED BY <1>2, <5>1, <5>2
      <4>2. PICK j \in DOMAIN sent' : sent'[j].of = bt.of /\ byte \in Bytes(sent'[j])
        BY <1>4, <4>1
      <4> QED BY <3>1, <4>2
    <3>2. CASE sent'[i].of # bt.of
      BY <1>4, <3>2
    <3> QED BY <3>1, <3>2
  <2> QED BY <1>1, <2>1 DEF PartsSent
<1>15. Senders'
  BY <1>1, <1>4, <1>5, <1>8 DEF Senders
<1> QED BY <1>10, <1>11, <1>12, <1>13, <1>14, <1>15

-----------------------------------------------------------------------------
LEMMA StepKeepsIInv == IInv /\ [Next]_vars => IInv'
<1> SUFFICES ASSUME IInv, [Next]_vars PROVE IInv'
  OBVIOUS
<1>1. CASE OnInit \/ UNCHANGED vars
  BY <1>1, OthersKeepIInv DEF OnInit
<1>2. CASE BLEStack
  BY <1>2, OthersKeepIInv, WriteKeepsIInv DEF BLEStack
<1>3. CASE SendRequest
  BY <1>3, SendRequestKeepsIInv DEF SendRequest
<1>4. CASE GameTask
  BY <1>4, GameReceiveKeepsIInv, SendResponseKeepsIInv, CleanupKeepsIInv DEF GameTask
<1>5. CASE BluetoothTask
  BY <1>5, BluetoothReceiveKeepsIInv, SendPartKeepsIInv, SendRestKeepsIInv DEF BluetoothTask
<1> QED BY <1>1, <1>2, <1>3, <1>4, <1>5 DEF Next

LEMMA IInvMeans == IInv => TypeOK /\ MemoryAccounted /\ AnswersArrive
<1> SUFFICES ASSUME IInv PROVE AnswersArrive
  BY DEF IInv
<1>1. AnswersInOrder /\ AnswersWhole
  BY DEF IInv, SentInOrder, PartsSent
<1>2. AnswerReachesAsker
  <2> SUFFICES ASSUME NEW i \in DOMAIN sent, sent[i].of.by = client PROVE sent[i].to = client
    BY DEF AnswerReachesAsker
  <2>1. sent[i].of.by \in 1..MaxConns /\ sent[i].to \in Nat
    BY Members DEF IInv, Indication, Answer
  <2>2. client = conn /\ conn \in Nat
    BY <2>1 DEF IInv, TypeOK
  <2> QED BY <2>1, <2>2 DEF IInv, Senders
<1> QED BY <1>1, <1>2 DEF AnswersArrive

(***************************************************************************)
(* The variables hold what they are declared to hold: no queue is longer   *)
(* than its slots, and what was dropped is still allocated.                *)
(***************************************************************************)
THEOREM TypeCorrect == Spec => []TypeOK
<1> QED BY InitIInv, StepKeepsIInv, IInvMeans, PTL DEF Spec

(***************************************************************************)
(* Every malloc'ed message of ble.cpp and game_master.cpp is in exactly    *)
(* one place and is freed there, whichever tasks run when and whatever the *)
(* queues refuse; the refused ones are lost.                               *)
(***************************************************************************)
THEOREM MessagesAccounted == Spec => []MemoryAccounted
<1> QED BY InitIInv, StepKeepsIInv, IInvMeans, PTL DEF Spec

(***************************************************************************)
(* A phone sees the answers to its commands in the order of the commands,  *)
(* each whole and in its pieces' order, and those to a client that stays   *)
(* go to that client, with any number of commands, clients, lengths of     *)
(* answers and queues of any length.                                       *)
(***************************************************************************)
THEOREM AnswersInTheirOrder == Spec => []AnswersArrive
<1> QED BY InitIInv, StepKeepsIInv, IInvMeans, PTL DEF Spec

-----------------------------------------------------------------------------
(* The badge on the air around them. *)

\* The events of BleService do to the messages what GameMessages lets them do.
LEMMA BleStepIsStep == [BleNext]_<<vars, bleVars>> => [Next]_vars
<1> SUFFICES ASSUME BleNext, ~UNCHANGED vars PROVE Next
  BY DEF vars, bleVars
<1>1. ~InitBle
  BY DEF InitBle
<1>2. ~StackEvent
  BY DEF StackEvent, Registered, TableCreated, PrivacySet, AdvStarted, DataSet, Fails, StackAnswers
<1>3. CASE ConnectEvent
  BY <1>3 DEF ConnectEvent, Next, BLEStack
<1>4. CASE DisconnectEvent
  BY <1>4 DEF DisconnectEvent, Next, BLEStack
<1>5. CASE WriteEvents
  BY <1>5 DEF WriteEvents, Next, BLEStack
<1>6. CASE OnInit \/ SendRequest \/ GameTask \/ BluetoothTask
  BY <1>6 DEF Next
<1> QED BY <1>1, <1>2, <1>3, <1>4, <1>5, <1>6 DEF BleNext

(***************************************************************************)
(* The badge that ble.cpp puts on the air is one of those of GameMessages: *)
(* whatever the stack refuses or answers late, what happens to commands    *)
(* and answers is what may happen there.                                   *)
(***************************************************************************)
THEOREM ServiceImplementsMessages == BleSpec => Spec
<1>1. BleInit => Init
  BY DEF BleInit
<1> QED BY <1>1, BleStepIsStep, PTL DEF BleSpec, Spec

(***************************************************************************)
(* So no message is lost unseen and no answer out of its place on it.      *)
(***************************************************************************)
THEOREM ServiceAccounted == BleSpec => []MemoryAccounted /\ []AnswersArrive
<1> QED BY ServiceImplementsMessages, MessagesAccounted, AnswersInTheirOrder, PTL

LEMMA BleStepKeepsType ==
  ASSUME BleTypeOK, [BleNext]_<<vars, bleVars>>
  PROVE  BleTypeOK'
<1> USE DEF BleTypeOK
<1>1. ASSUME NEW n \in Nat, Refuse(n) PROVE refusals' \in 0..MaxRefusals
  BY <1>1, RefusalAssumption DEF Refuse
<1>2. CASE InitBle
  BY <1>1, <1>2 DEF InitBle, Requests
<1>3. CASE StackEvent
  <2>1. CASE Registered
    BY <1>1, <2>1 DEF Registered, Fails, StackAnswers, Requests
  <2>2. CASE TableCreated
    BY <1>1, <2>2 DEF TableCreated, Fails, StackAnswers, Requests
  <2>3. CASE PrivacySet
    <3>1. CASE Fails("privacy") /\ deaf' = TRUE /\ UNCHANGED <<advConfig, air, service>>
      BY <1>1, <3>1 DEF Fails, StackAnswers
    <3>2. ASSUME NEW accepted \in SUBSET DataSets,
                 StackAnswers("privacy", accepted),
                 Refuse(Cardinality(DataSets \ accepted)),
                 advConfig' = advConfig \cup accepted,
                 deaf' = (deaf \/ accepted = {}),
                 UNCHANGED <<air, service>>
          PROVE  BleTypeOK'
      <4>1. Cardinality(DataSets \ accepted) \in Nat
        <5>1. IsFiniteSet(DataSets)
          <6>1. DataSets = {"adv"} \cup {"scanRsp"}
            BY DEF DataSets
          <6> QED BY <6>1, FS_Singleton, FS_AddElement
        <5> QED BY <5>1, FS_Subset, FS_CardinalityType
      <4>2. asked' \subseteq Requests
        BY <3>2 DEF StackAnswers, Requests
      <4> QED BY <1>1, <3>2, <4>1, <4>2 DEF StackAnswers
    <3> QED BY <2>3, <3>1, <3>2 DEF PrivacySet
  <2>4. CASE AdvStarted
    BY <1>1, <2>4 DEF AdvStarted, Fails, StackAnswers
  <2>5. ASSUME NEW d \in DataSets, DataSet(d) PROVE BleTypeOK'
    BY <2>5 DEF DataSet, StackAnswers, Requests
  <2> QED BY <1>3, <2>1, <2>2, <2>3, <2>4, <2>5 DEF StackEvent
<1>4. CASE ConnectEvent
  BY <1>4 DEF ConnectEvent
<1>5. CASE DisconnectEvent
  BY <1>5 DEF DisconnectEvent, Requests
<1>6. CASE UNCHANGED bleVars
  BY <1>6 DEF bleVars
<1> QED BY <1>2, <1>3, <1>4, <1>5, <1>6 DEF BleNext, WriteEvents

(***************************************************************************)
(* What is asked of the stack, and the flags, are what they are declared   *)
(* to be.                                                                  *)
(***************************************************************************)
THEOREM BleTypeCorrect == BleSpec => []BleTypeOK
<1>1. BleInit => BleTypeOK
  <2> SUFFICES ASSUME BleInit PROVE BleTypeOK
    OBVIOUS
  <2>1. refusals \in 0..MaxRefusals
    BY RefusalAssumption DEF BleInit
  <2> QED BY <2>1 DEF BleInit, BleTypeOK
<1> QED BY <1>1, BleStepKeepsType, PTL DEF BleSpec

=============================================================================

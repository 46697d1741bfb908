------------------------- MODULE PairingMenuProofs -------------------------
(***************************************************************************)
(* Theorems about PairingMenu for every frame size, run limit, number of   *)
(* attempts and (where the theorem says so) every combination of faults.   *)
(***************************************************************************)
EXTENDS PairingMenu, SequenceTheorems, TLAPS

-----------------------------------------------------------------------------
(* Frames and pieces of channels. *)

LEMMA SizeType == \A kind \in Token \cup FrameKind : Size(kind) \in Nat \ {0}
BY SizeAssumption DEF Size, BRTISize, Token, FrameKind

LEMMA FrameType ==
  ASSUME NEW kind \in Token \cup FrameKind, NEW over \in Content
  PROVE  /\ Frame(kind, over) \in Seq(Byte)
         /\ DOMAIN Frame(kind, over) = 1..Size(kind)
         /\ \A i \in 1..Size(kind) :
              Frame(kind, over)[i] = [kind |-> kind, pos |-> i, over |-> over]
<1>1. Size(kind) \in Nat
  BY SizeType
<1>2. \A i \in 1..Size(kind) : [kind |-> kind, pos |-> i, over |-> over] \in Byte
  BY <1>1 DEF Byte
<1>3. Frame(kind, over) \in [1..Size(kind) -> Byte]
  BY <1>2 DEF Frame
<1>4. Frame(kind, over) \in Seq(Byte)
  BY <1>1, <1>3, SeqDef
<1>5. QED
  BY <1>4 DEF Frame

LEMMA PieceType ==
  ASSUME NEW S, NEW s \in Seq(S), NEW n \in 0..Len(s)
  PROVE  SubSeq(s, 1, n) \in Seq(S) /\ SubSeq(s, n + 1, Len(s)) \in Seq(S)
<1>1. Len(s) \in Nat /\ s \in [1..Len(s) -> S]
  BY LenProperties
<1>2. \A i \in 1..n : s[i] \in S
  BY <1>1
<1>3. \A i \in (n + 1)..Len(s) : s[i] \in S
  BY <1>1
<1>4. SubSeq(s, 1, n) \in Seq(S)
  BY <1>1, <1>2, SubSeqProperties
<1>5. SubSeq(s, n + 1, Len(s)) \in Seq(S)
  BY <1>1, <1>3, SubSeqProperties
<1>6. QED
  BY <1>4, <1>5

LEMMA ContentType ==
  \A bytes, kind : DataIn(bytes, kind) \in Content /\ SignatureIn(bytes, kind) \in Content
BY DEF DataIn, SignatureIn, Content

-----------------------------------------------------------------------------
(* Type correctness. *)

LEMMA WriteType ==
  ASSUME wire \in [Badge -> Seq(Byte)], NEW b \in Badge,
         NEW kind \in Token \cup FrameKind, NEW over \in Content,
         Write(b, Frame(kind, over))
  PROVE  wire' \in [Badge -> Seq(Byte)]
<1>1. wire[Peer(b)] \o Frame(kind, over) \in Seq(Byte)
  BY FrameType, ConcatProperties DEF Peer, Badge
<1>2. QED
  BY <1>1 DEF Write, Peer, Badge

LEMMA EndRunType ==
  ASSUME TypeOK, NEW b \in Badge, NEW next \in State, EndRun(b, next)
  PROVE  /\ InternalState' \in [Badge -> State]
         /\ runs' \in [Badge -> Nat]
         /\ starts' \in [Badge -> 0..MaxStarts]
         /\ lost' \in 0..MaxLoss
BY BoundAssumption DEF TypeOK, EndRun, State

LEMMA NegotiateReadType ==
  ASSUME TypeOK, NEW b \in Badge, NEW token, NegotiateRead(b, token)
  PROVE  /\ rx' \in [Badge -> Seq(Byte)]
         /\ AIC' \in [Badge -> Content]
         /\ contacts' \in [Badge -> SUBSET Contact]
<1>1. Tail(rx[b]) \in Seq(Byte)
  BY HeadTailProperties DEF TypeOK, NegotiateRead
<1>2. QED
  BY <1>1 DEF TypeOK, NegotiateRead

LEMMA AddContactType ==
  ASSUME TypeOK, NEW b \in Badge, NEW contact \in Contact, NEW saved \in BOOLEAN,
         AddContact(b, contact, saved)
  PROVE  contacts' \in [Badge -> SUBSET Contact]
BY DEF TypeOK, AddContact

LEMMA StartTypes ==
  /\ Token \subseteq Token \cup FrameKind
  /\ FrameKind \subseteq Token \cup FrameKind
  /\ "garbled" \in Content /\ "genuine" \in Content
  /\ \A n \in {"ALICE_CONFIRM", "BOB_CONFIRM", "RESET_NEG"} : n \in Token
  /\ \A n \in {"AIC", "BRTI", "ATBS"} : n \in FrameKind
BY DEF Token, FrameKind, Content

LEMMA TypeStep == TypeOK /\ [Next]_vars => TypeOK'
<1> SUFFICES ASSUME TypeOK, [Next]_vars PROVE TypeOK'
  OBVIOUS
<1>1. CASE UNCHANGED vars
  BY <1>1 DEF vars, TypeOK
<1>2. CASE Next
  <2> PICK b \in Badge :
        \/ OpenMenu(b) \/ onRun(b)
        \/ Deliver(b) \/ LoseByte(b)
        \/ PowerCycle(b) \/ PowerFailsBeforeSave(b)
    BY <1>2 DEF Next
  <2>1. CASE OpenMenu(b)
    <3>1. <<>> \in Seq(Byte)
      BY EmptySeq
    <3>2. QED
      BY <2>1, <3>1, BoundAssumption DEF TypeOK, OpenMenu, State, Content
  <2>2. CASE Clash(b)
    BY <2>2, EndRunType, NegotiateReadType, WriteType, StartTypes DEF Clash, TypeOK, State
  <2>3. CASE BecomeBob(b)
    BY <2>3, EndRunType, NegotiateReadType, WriteType, StartTypes DEF BecomeBob, TypeOK, State
  <2>4. CASE BecomeAlice(b)
    BY <2>4, EndRunType, NegotiateReadType DEF BecomeAlice, TypeOK, State
  <2>5. CASE ResetNegotiation(b)
    BY <2>5, EndRunType, NegotiateReadType DEF ResetNegotiation, TypeOK, State
  <2>6. CASE SkipByte(b)
    BY <2>6, EndRunType, NegotiateReadType DEF SkipByte, TypeOK, State
  <2>7. CASE OfferAlice(b)
    BY <2>7, EndRunType, WriteType, StartTypes DEF OfferAlice, TypeOK, State
  <2>8. CASE SendAIC(b)
    BY <2>8, WriteType, StartTypes DEF SendAIC, TypeOK, State
  <2>9. CASE ReceiveAIC(b)
    <3>1. rx' \in [Badge -> Seq(Byte)]
      BY <2>9, EmptySeq DEF ReceiveAIC, FrameReady, TypeOK
    <3>2. DataIn(rx[b], "AIC") \in Content
      BY ContentType
    <3>3. AIC' \in [Badge -> Content]
      BY <2>9, <3>2 DEF ReceiveAIC, TypeOK
    <3>4. wire' \in [Badge -> Seq(Byte)]
      BY <2>9, <3>2, WriteType, StartTypes DEF ReceiveAIC, TypeOK
    <3>5. QED
      BY <2>9, <3>1, <3>3, <3>4, EndRunType DEF ReceiveAIC, TypeOK, State
  <2>10. CASE ReceiveBRTI(b)
    <3>1. rx' \in [Badge -> Seq(Byte)]
      BY <2>10, EmptySeq DEF ReceiveBRTI, FrameReady, TypeOK
    <3>2. DataIn(rx[b], "BRTI") \in Content /\ BobInBRTI(b) \in Contact
      BY ContentType DEF BobInBRTI, Contact
    <3>3. wire' \in [Badge -> Seq(Byte)]
      BY <2>10, <3>2, WriteType, StartTypes DEF ReceiveBRTI, SignForBob, TypeOK
    <3>4. PICK saved \in BOOLEAN :
            /\ AddContact(b, BobInBRTI(b), saved)
            /\ EndRun(b, IF saved THEN "PAIRING_SUCCESS" ELSE "PAIRING_FAILED")
      BY <2>10 DEF ReceiveBRTI
    <3>5. (IF saved THEN "PAIRING_SUCCESS" ELSE "PAIRING_FAILED") \in State
      BY DEF State
    <3>6. QED
      BY <2>10, <3>1, <3>2, <3>3, <3>4, <3>5, EndRunType, AddContactType
      DEF ReceiveBRTI, TypeOK
  <2>11. CASE ReceiveATBS(b)
    <3>1. rx' \in [Badge -> Seq(Byte)]
      BY <2>11, EmptySeq DEF ReceiveATBS, FrameReady, TypeOK
    <3>2. AliceInATBS(b) \in Contact
      BY ContentType DEF AliceInATBS, Contact, TypeOK
    <3>3. PICK saved \in BOOLEAN :
            /\ AddContact(b, AliceInATBS(b), saved)
            /\ EndRun(b, IF saved THEN "PAIRING_SUCCESS" ELSE "PAIRING_FAILED")
      BY <2>11 DEF ReceiveATBS
    <3>4. (IF saved THEN "PAIRING_SUCCESS" ELSE "PAIRING_FAILED") \in State
      BY DEF State
    <3>5. QED
      BY <2>11, <3>1, <3>2, <3>3, <3>4, EndRunType, AddContactType
      DEF ReceiveATBS, TypeOK
  <2>12. CASE Wait(b)
    <3>1. InternalState[b] \in State
      BY DEF TypeOK
    <3>2. QED
      BY <2>12, <3>1, EndRunType DEF Wait, TypeOK
  <2>13. CASE ShowResult(b)
    BY <2>13 DEF ShowResult, TypeOK, State
  <2>14. CASE Deliver(b)
    <3>1. PICK n \in Arrival(b) :
            /\ rx' = [rx EXCEPT ![b] = @ \o SubSeq(wire[b], 1, n)]
            /\ wire' = [wire EXCEPT ![b] = SubSeq(@, n + 1, Len(@))]
      BY <2>14 DEF Deliver
    <3>2. n \in 0..Len(wire[b]) /\ wire[b] \in Seq(Byte) /\ rx[b] \in Seq(Byte)
      BY DEF Arrival, TypeOK
    <3>3. SubSeq(wire[b], 1, n) \in Seq(Byte) /\ SubSeq(wire[b], n + 1, Len(wire[b])) \in Seq(Byte)
      BY <3>2, PieceType
    <3>4. rx[b] \o SubSeq(wire[b], 1, n) \in Seq(Byte)
      BY <3>2, <3>3, ConcatProperties
    <3>5. QED
      BY <2>14, <3>1, <3>3, <3>4 DEF Deliver, TypeOK
  <2>15. CASE LoseByte(b)
    <3>1. Tail(wire[b]) \in Seq(Byte)
      BY <2>15, HeadTailProperties DEF LoseByte, TypeOK
    <3>2. QED
      BY <2>15, <3>1, BoundAssumption DEF LoseByte, TypeOK
  <2>16. ASSUME Restarted(b), wire' \in [Badge -> Seq(Byte)]
         PROVE  TypeOK'
    BY <2>16, EmptySeq DEF Restarted, TypeOK, State, Content
  <2>17. CASE PowerCycle(b)
    <3>1. PICK n \in 0..Len(wire[Peer(b)]) :
            wire' = [wire EXCEPT ![Peer(b)] = SubSeq(@, 1, n)]
      BY <2>17 DEF PowerCycle
    <3>2. SubSeq(wire[Peer(b)], 1, n) \in Seq(Byte)
      BY PieceType DEF TypeOK, Peer, Badge
    <3>3. wire' \in [Badge -> Seq(Byte)]
      BY <3>1, <3>2 DEF TypeOK, Peer, Badge
    <3>4. QED
      BY <2>17, <3>3, <2>16 DEF PowerCycle
  <2>18. CASE PowerFailsBeforeSave(b)
    <3>1. DataIn(rx[b], "BRTI") \in Content
      BY ContentType
    <3>2. wire' \in [Badge -> Seq(Byte)]
      BY <2>18, <3>1, WriteType, StartTypes DEF PowerFailsBeforeSave, SignForBob, TypeOK
    <3>3. QED
      BY <2>18, <3>2, <2>16 DEF PowerFailsBeforeSave
  <2>19. QED
    BY <2>1, <2>2, <2>3, <2>4, <2>5, <2>6, <2>7, <2>8, <2>9, <2>10, <2>11, <2>12,
       <2>13, <2>14, <2>15, <2>17, <2>18 DEF onRun
<1>3. QED
  BY <1>1, <1>2

\* Every variable keeps its type, whatever goes wrong.
THEOREM TypeCorrect == Spec => []TypeOK
<1>1. Init => TypeOK
  BY EmptySeq, BoundAssumption DEF Init, TypeOK, State, Content
<1>2. QED
  BY <1>1, TypeStep, PTL DEF Spec

-----------------------------------------------------------------------------
(* The run count. *)

LEMMA RunsStep == TypeOK /\ RunsBounded /\ [Next]_vars => RunsBounded'
<1> SUFFICES ASSUME TypeOK, RunsBounded, [Next]_vars, NEW x \in Badge
             PROVE  runs'[x] <= RunsLimit(InternalState'[x])
  BY DEF RunsBounded, RunsLimit
<1> USE BoundAssumption DEF RunsLimit
<1>0. runs \in [Badge -> Nat] /\ InternalState \in [Badge -> State]
  BY DEF TypeOK
<1>1. ASSUME NEW b \in Badge, NEW next \in State, EndRun(b, next),
             runs[b] <= MaxRuns + 2,
             next \in {"MENU", "ALICE_INIT"} => InternalState[b] = "NEGOTIATE"
      PROVE  runs'[x] <= RunsLimit(InternalState'[x])
  BY <1>0, <1>1 DEF RunsBounded, EndRun, State
<1>2. CASE UNCHANGED vars
  BY <1>2 DEF vars, RunsBounded
<1>3. CASE Next
  <2> PICK b \in Badge :
        \/ OpenMenu(b) \/ onRun(b)
        \/ Deliver(b) \/ LoseByte(b)
        \/ PowerCycle(b) \/ PowerFailsBeforeSave(b)
    BY <1>3 DEF Next
  <2>1. CASE OpenMenu(b)
    BY <2>1, <1>0 DEF OpenMenu, RunsBounded
  <2>2. CASE Clash(b) \/ BecomeBob(b) \/ BecomeAlice(b) \/ ResetNegotiation(b)
             \/ SkipByte(b) \/ OfferAlice(b)
    <3>1. InternalState[b] = "NEGOTIATE" /\ runs[b] <= MaxRuns + 2
      BY <2>2, <1>0 DEF Clash, BecomeBob, BecomeAlice, ResetNegotiation, SkipByte,
                        OfferAlice, NegotiateRead, RunsBounded
    <3>2. \E next \in {"NEGOTIATE", "ALICE_INIT", "BOB_RECEIVE_AIC"} : EndRun(b, next)
      BY <2>2 DEF Clash, BecomeBob, BecomeAlice, ResetNegotiation, SkipByte, OfferAlice
    <3>3. QED
      BY <3>1, <3>2, <1>1 DEF State
  <2>3. CASE SendAIC(b)
    BY <2>3, <1>0 DEF SendAIC, RunsBounded
  <2>4. CASE ReceiveAIC(b) \/ ReceiveBRTI(b) \/ ReceiveATBS(b)
    <3>1. runs[b] <= MaxRuns + 2
      BY <2>4, <1>0 DEF ReceiveAIC, ReceiveBRTI, ReceiveATBS, FrameReady, RunsBounded
    <3>2. \E next \in {"BOB_RECEIVE_ATBS", "PAIRING_SUCCESS", "PAIRING_FAILED"} : EndRun(b, next)
      BY <2>4 DEF ReceiveAIC, ReceiveBRTI, ReceiveATBS
    <3>3. QED
      BY <3>1, <3>2, <1>1 DEF State
  <2>5. CASE Wait(b)
    <3>1. /\ runs[b] <= MaxRuns + 2
          /\ InternalState[b] \notin {"MENU", "ALICE_INIT"}
      BY <2>5, <1>0 DEF Wait, WaitsFor, RunsBounded
    <3>2. EndRun(b, InternalState[b])
      BY <2>5 DEF Wait
    <3>3. QED
      BY <3>1, <3>2, <1>0, <1>1
  <2>6. CASE ShowResult(b)
    BY <2>6, <1>0 DEF ShowResult, RunsBounded
  <2>7. CASE Deliver(b) \/ LoseByte(b)
    BY <2>7 DEF Deliver, LoseByte, RunsBounded
  <2>8. CASE PowerCycle(b) \/ PowerFailsBeforeSave(b)
    <3>1. Restarted(b)
      BY <2>8 DEF PowerCycle, PowerFailsBeforeSave
    <3>2. QED
      BY <3>1, <1>0 DEF Restarted, RunsBounded
  <2>9. QED
    BY <2>1, <2>2, <2>3, <2>4, <2>5, <2>6, <2>7, <2>8 DEF onRun
<1>4. QED
  BY <1>2, <1>3

\* Under every combination of faults an attempt is over a few runs after the
\* limit of timesRunCalledSinceReset.
THEOREM AttemptsBounded == Spec => []RunsBounded
<1>1. Init => RunsBounded
  BY BoundAssumption DEF Init, RunsBounded, RunsLimit
<1>2. QED
  BY <1>1, RunsStep, TypeCorrect, PTL DEF Spec

-----------------------------------------------------------------------------
(* Who can hold Alice's signature. *)

\* A byte of a genuine ATBS exists only when its sender has stored Bob.
Allowed(p) ==
  {x \in Byte : x.kind = "ATBS" /\ x.over = "genuine"
                  => \E d \in contacts[p] : d.as = "Alice" /\ d.data = "genuine"}

ChannelsHonest ==
  \A b \in Badge : wire[b] \in Seq(Allowed(Peer(b))) /\ rx[b] \in Seq(Allowed(Peer(b)))

IInv == TypeOK /\ ChannelsHonest /\ BobSavesAfterAlice

\* The flash works and the power stays on.
StorageReliable == Faults \cap {"power", "flash"} = {}

LEMMA AllowedGrows ==
  ASSUME NEW p \in Badge, contacts[p] \subseteq contacts'[p]
  PROVE  Allowed(p) \subseteq Allowed(p)'
BY DEF Allowed, Byte

LEMMA ContactsGrow ==
  ASSUME TypeOK, [Next]_vars, NEW p \in Badge
  PROVE  contacts[p] \subseteq contacts'[p]
<1> USE DEF TypeOK
<1>1. CASE UNCHANGED vars
  BY <1>1 DEF vars
<1>2. CASE Next
  <2> PICK b \in Badge :
        \/ OpenMenu(b) \/ onRun(b)
        \/ Deliver(b) \/ LoseByte(b)
        \/ PowerCycle(b) \/ PowerFailsBeforeSave(b)
    BY <1>2 DEF Next
  <2>1. ASSUME NEW contact, NEW saved, AddContact(b, contact, saved)
        PROVE  contacts[p] \subseteq contacts'[p]
    BY <2>1 DEF AddContact
  <2>2. CASE ReceiveBRTI(b) \/ ReceiveATBS(b)
    BY <2>1, <2>2 DEF ReceiveBRTI, ReceiveATBS
  <2>3. ASSUME ~(ReceiveBRTI(b) \/ ReceiveATBS(b))
        PROVE  contacts' = contacts
    BY <2>3 DEF OpenMenu, onRun, Clash, BecomeBob, BecomeAlice, ResetNegotiation,
         SkipByte, OfferAlice, NegotiateRead, SendAIC, ReceiveAIC, Wait, ShowResult,
         Deliver, LoseByte, PowerCycle, PowerFailsBeforeSave, Restarted
  <2>4. QED
    BY <2>2, <2>3
<1>3. QED
  BY <1>1, <1>2

LEMMA TokensAllowed ==
  ASSUME NEW p \in Badge, NEW kind \in Token \cup FrameKind, NEW over \in Content,
         kind = "ATBS" /\ over = "genuine"
           => \E d \in contacts'[p] : d.as = "Alice" /\ d.data = "genuine"
  PROVE  Frame(kind, over) \in Seq(Allowed(p)')
<1>1. Size(kind) \in Nat
  BY SizeType
<1>2. \A i \in 1..Size(kind) : [kind |-> kind, pos |-> i, over |-> over] \in Allowed(p)'
  BY <1>1 DEF Allowed, Byte
<1>3. Frame(kind, over) \in [1..Size(kind) -> Allowed(p)']
  BY <1>2 DEF Frame
<1>4. QED
  BY <1>1, <1>3, SeqDef

LEMMA WriteHonest ==
  ASSUME TypeOK, ChannelsHonest, [Next]_vars, NEW b \in Badge,
         NEW kind \in Token \cup FrameKind, NEW over \in Content,
         kind = "ATBS" /\ over = "genuine"
           => \E d \in contacts'[b] : d.as = "Alice" /\ d.data = "genuine",
         Write(b, Frame(kind, over))
  PROVE  \A x \in Badge : wire'[x] \in Seq(Allowed(Peer(x))')
<1> SUFFICES ASSUME NEW x \in Badge PROVE wire'[x] \in Seq(Allowed(Peer(x))')
  OBVIOUS
<1>1. Peer(x) \in Badge /\ Peer(Peer(x)) = x /\ Peer(b) \in Badge /\ Peer(Peer(b)) = b
  BY BadgeAssumption DEF Peer, Badge
<1>2. wire[x] \in Seq(Allowed(Peer(x))')
  BY <1>1, ContactsGrow, AllowedGrows, SeqMonotonic DEF ChannelsHonest
<1>3. CASE x = Peer(b)
  <2>1. Frame(kind, over) \in Seq(Allowed(b)')
    BY TokensAllowed
  <2>2. wire'[x] = wire[x] \o Frame(kind, over)
    BY <1>3 DEF Write, TypeOK
  <2>3. wire[x] \o Frame(kind, over) \in Seq(Allowed(b)')
    BY <1>1, <1>2, <1>3, <2>1, ConcatProperties
  <2>4. QED
    BY <1>1, <1>3, <2>2, <2>3
<1>4. CASE x # Peer(b)
  BY <1>2, <1>4 DEF Write, TypeOK
<1>5. QED
  BY <1>3, <1>4

LEMMA HonestStep ==
  ASSUME StorageReliable, IInv, [Next]_vars
  PROVE  ChannelsHonest'
<1> USE DEF IInv
<1>1. \A x \in Badge : Peer(x) \in Badge /\ Peer(Peer(x)) = x
  BY BadgeAssumption DEF Peer, Badge
<1>2. \A x \in Badge : /\ wire[x] \in Seq(Allowed(Peer(x))')
                       /\ rx[x] \in Seq(Allowed(Peer(x))')
                       /\ <<>> \in Seq(Allowed(Peer(x))')
  BY <1>1, ContactsGrow, AllowedGrows, SeqMonotonic, EmptySeq DEF ChannelsHonest
<1>3. CASE UNCHANGED vars
  BY <1>2, <1>3 DEF vars, ChannelsHonest
<1>4. CASE Next
  <2> PICK b \in Badge :
        \/ OpenMenu(b) \/ onRun(b)
        \/ Deliver(b) \/ LoseByte(b)
        \/ PowerCycle(b) \/ PowerFailsBeforeSave(b)
    BY <1>4 DEF Next
  <2> DEFINE WireOK == \A x \in Badge : wire'[x] \in Seq(Allowed(Peer(x))')
             RxOK == \A x \in Badge : rx'[x] \in Seq(Allowed(Peer(x))')
  <2>1. ASSUME UNCHANGED wire PROVE WireOK
    BY <1>2, <2>1
  <2>2. ASSUME UNCHANGED rx PROVE RxOK
    BY <1>2, <2>2
  <2>3. ASSUME rx' = [rx EXCEPT ![b] = <<>>] PROVE RxOK
    BY <1>2, <2>3 DEF TypeOK
  <2>4. ASSUME rx[b] # <<>>, rx' = [rx EXCEPT ![b] = Tail(@)] PROVE RxOK
    <3>1. Tail(rx[b]) \in Seq(Allowed(Peer(b))')
      BY <1>2, <2>4, HeadTailProperties
    <3>2. QED
      BY <1>2, <2>4, <3>1 DEF TypeOK
  <2>5. ASSUME NEW kind \in Token \cup {"AIC", "BRTI"}, NEW over \in Content,
               Write(b, Frame(kind, over))
        PROVE  WireOK
    BY <2>5, WriteHonest DEF Token, FrameKind
  <2>6. CASE OpenMenu(b)
    BY <2>6, <2>1, <2>3 DEF OpenMenu, ChannelsHonest
  <2>7. CASE Clash(b) \/ BecomeBob(b) \/ BecomeAlice(b) \/ ResetNegotiation(b) \/ SkipByte(b)
    <3>1. RxOK
      BY <2>7, <2>4 DEF Clash, BecomeBob, BecomeAlice, ResetNegotiation, SkipByte, NegotiateRead
    <3>2. WireOK
      BY <2>7, <2>1, <2>5, StartTypes DEF Clash, BecomeBob, BecomeAlice, ResetNegotiation, SkipByte
    <3>3. QED
      BY <3>1, <3>2 DEF ChannelsHonest
  <2>8. CASE OfferAlice(b) \/ SendAIC(b)
    BY <2>8, <2>2, <2>5, StartTypes DEF OfferAlice, SendAIC, ChannelsHonest
  <2>9. CASE ReceiveAIC(b)
    <3>1. WireOK
      BY <2>9, <2>1, <2>5, ContentType DEF ReceiveAIC
    <3>2. QED
      BY <2>9, <3>1, <2>3 DEF ReceiveAIC, FrameReady, ChannelsHonest
  <2>10. CASE ReceiveBRTI(b)
    <3>1. PICK saved \in BOOLEAN : AddContact(b, BobInBRTI(b), saved)
      BY <2>10 DEF ReceiveBRTI
    <3>2. DataIn(rx[b], "BRTI") = "genuine"
            => \E d \in contacts'[b] : d.as = "Alice" /\ d.data = "genuine"
      <4> SUFFICES ASSUME DataIn(rx[b], "BRTI") = "genuine"
                   PROVE  BobInBRTI(b) \in contacts'[b] /\ BobInBRTI(b).as = "Alice"
                          /\ BobInBRTI(b).data = "genuine"
        OBVIOUS
      <4>1. BobInBRTI(b).as = "Alice" /\ BobInBRTI(b).data = "genuine"
        BY DEF BobInBRTI
      <4>2. saved = TRUE
        BY <3>1, <4>1 DEF AddContact, StorageReliable
      <4>3. contacts' = [contacts EXCEPT ![b] = @ \cup {BobInBRTI(b)}]
        BY <3>1, <4>2 DEF AddContact
      <4>4. QED
        BY <4>1, <4>3 DEF TypeOK
    <3>3. WireOK
      <4>1. CASE UNCHANGED wire
        BY <4>1, <2>1
      <4>2. CASE Write(b, Frame("ATBS", DataIn(rx[b], "BRTI")))
        BY <4>2, <3>2, WriteHonest, ContentType, StartTypes
      <4>3. QED
        BY <2>10, <4>1, <4>2 DEF ReceiveBRTI, SignForBob
    <3>4. QED
      BY <2>10, <3>3, <2>3 DEF ReceiveBRTI, FrameReady, ChannelsHonest
  <2>11. CASE ReceiveATBS(b)
    BY <2>11, <2>1, <2>3 DEF ReceiveATBS, FrameReady, ChannelsHonest
  <2>12. CASE Wait(b) \/ ShowResult(b)
    BY <2>12, <2>1, <2>2 DEF Wait, ShowResult, ChannelsHonest
  <2>13. CASE Deliver(b)
    <3>1. PICK n \in Arrival(b) :
            /\ rx' = [rx EXCEPT ![b] = @ \o SubSeq(wire[b], 1, n)]
            /\ wire' = [wire EXCEPT ![b] = SubSeq(@, n + 1, Len(@))]
      BY <2>13 DEF Deliver
    <3>2. n \in 0..Len(wire[b])
      BY DEF Arrival, TypeOK
    <3>3. /\ SubSeq(wire[b], 1, n) \in Seq(Allowed(Peer(b))')
          /\ SubSeq(wire[b], n + 1, Len(wire[b])) \in Seq(Allowed(Peer(b))')
      BY <1>2, <3>2, PieceType
    <3>4. rx[b] \o SubSeq(wire[b], 1, n) \in Seq(Allowed(Peer(b))')
      BY <1>2, <3>3, ConcatProperties
    <3>5. QED
      BY <1>2, <3>1, <3>3, <3>4 DEF TypeOK, ChannelsHonest
  <2>14. CASE LoseByte(b)
    <3>1. Tail(wire[b]) \in Seq(Allowed(Peer(b))')
      BY <1>2, <2>14, HeadTailProperties DEF LoseByte
    <3>2. QED
      BY <1>2, <2>14, <3>1 DEF LoseByte, TypeOK, ChannelsHonest
  <2>15. CASE PowerCycle(b) \/ PowerFailsBeforeSave(b)
    BY <2>15 DEF PowerCycle, PowerFailsBeforeSave, StorageReliable
  <2>16. QED
    BY <2>6, <2>7, <2>8, <2>9, <2>10, <2>11, <2>12, <2>13, <2>14, <2>15 DEF onRun
<1>5. QED
  BY <1>3, <1>4

LEMMA AddedContact ==
  ASSUME TypeOK, [Next]_vars, NEW x \in Badge, NEW c \in contacts'[x], c \notin contacts[x]
  PROVE  \/ ReceiveBRTI(x) /\ c = BobInBRTI(x)
         \/ ReceiveATBS(x) /\ c = AliceInATBS(x)
<1> USE DEF TypeOK
<1>1. contacts' # contacts
  OBVIOUS
<1>2. PICK b \in Badge :
        \/ OpenMenu(b) \/ onRun(b)
        \/ Deliver(b) \/ LoseByte(b)
        \/ PowerCycle(b) \/ PowerFailsBeforeSave(b)
  BY <1>1 DEF Next, vars
<1>3. ReceiveBRTI(b) \/ ReceiveATBS(b)
  BY <1>1, <1>2 DEF OpenMenu, onRun, Clash, BecomeBob, BecomeAlice, ResetNegotiation,
     SkipByte, OfferAlice, NegotiateRead, SendAIC, ReceiveAIC, Wait, ShowResult,
     Deliver, LoseByte, PowerCycle, PowerFailsBeforeSave, Restarted
<1>4. ASSUME NEW contact, NEW saved, AddContact(b, contact, saved)
      PROVE  b = x /\ c = contact
  BY <1>1, <1>4 DEF AddContact
<1>5. QED
  BY <1>3, <1>4 DEF ReceiveBRTI, ReceiveATBS

LEMMA GenuineATBSIsKnown ==
  ASSUME IInv, NEW x \in Badge, SignatureIn(rx[x], "ATBS") = "genuine"
  PROVE  \E d \in contacts[Peer(x)] : d.as = "Alice" /\ d.data = "genuine"
<1>1. rx[x] = Frame("ATBS", "genuine")
  BY DEF SignatureIn
<1>2. Size("ATBS") \in Nat \ {0}
  BY SizeType, StartTypes
<1>3. Len(rx[x]) = Size("ATBS")
  <2>1. rx[x] \in Seq(Byte) /\ DOMAIN rx[x] = 1..Size("ATBS")
    BY <1>1, FrameType, StartTypes
  <2>2. QED
    BY <2>1, <1>2, LenProperties
<1>4. rx[x][1] \in Allowed(Peer(x))
  BY <1>2, <1>3, ElementOfSeq DEF IInv, ChannelsHonest
<1>5. rx[x][1].kind = "ATBS" /\ rx[x][1].over = "genuine"
  <2>1. 1 \in 1..Size("ATBS")
    BY <1>2
  <2>2. rx[x][1] = [kind |-> "ATBS", pos |-> 1, over |-> "genuine"]
    BY <1>1, <2>1 DEF Frame
  <2>3. QED
    BY <2>2
<1>6. QED
  BY <1>4, <1>5 DEF Allowed

LEMMA BobStep ==
  ASSUME StorageReliable, IInv, [Next]_vars
  PROVE  BobSavesAfterAlice'
<1> SUFFICES ASSUME NEW x \in Badge, NEW c \in contacts'[x], c.as = "Bob", c.sig = "genuine"
             PROVE  \E d \in contacts'[Peer(x)] : d.as = "Alice" /\ d.data = "genuine"
  BY DEF BobSavesAfterAlice
<1>1. contacts[Peer(x)] \subseteq contacts'[Peer(x)]
  BY ContactsGrow DEF IInv, Peer, Badge
<1>2. CASE c \in contacts[x]
  BY <1>1, <1>2 DEF IInv, BobSavesAfterAlice
<1>3. CASE c \notin contacts[x]
  <2>1. c = AliceInATBS(x)
    BY <1>3, AddedContact DEF IInv, BobInBRTI
  <2>2. SignatureIn(rx[x], "ATBS") = "genuine"
    BY <2>1 DEF AliceInATBS
  <2>3. QED
    BY <1>1, <2>2, GenuineATBSIsKnown
<1>4. QED
  BY <1>2, <1>3

LEMMA InitInv == Init => IInv
<1> SUFFICES ASSUME Init PROVE IInv
  OBVIOUS
<1>1. TypeOK
  BY EmptySeq, BoundAssumption DEF Init, TypeOK, State, Content
<1>2. ChannelsHonest
  BY EmptySeq DEF Init, ChannelsHonest
<1>3. QED
  BY <1>1, <1>2 DEF IInv, Init, BobSavesAfterAlice

LEMMA InvStep == StorageReliable /\ IInv /\ [Next]_vars => IInv'
BY TypeStep, HonestStep, BobStep DEF IInv

LEMMA Invariant == StorageReliable /\ Spec => []IInv
<1>1. StorageReliable /\ IInv /\ [Next]_vars => IInv'
  BY InvStep
<1> SUFFICES ASSUME StorageReliable PROVE Spec => []IInv
  OBVIOUS
<1>2. IInv /\ [Next]_vars => IInv'
  BY <1>1
<1>3. QED
  BY <1>2, InitInv, PTL DEF Spec

\* On lossy cables, with torn frames, failing signatures and any number of
\* attempts, a Bob with Alice's signature is in Alice's flash before he is
\* in Bob's, provided flash and power hold.
THEOREM BobIsKnown == StorageReliable /\ Spec => []BobSavesAfterAlice
<1>1. IInv => BobSavesAfterAlice
  BY DEF IInv
<1>2. QED
  BY <1>1, Invariant, PTL

-----------------------------------------------------------------------------
(* PairingMenu implements ContactExchange. *)

LEMMA PhaseType ==
  \A b \in Badge : Phase[b] = CASE InternalState[b] = "MENU" -> "out"
       [] InternalState[b] \in {"PAIRING_SUCCESS", "PAIRING_FAILED"} -> "done"
       [] OTHER -> "in"
BY DEF Phase

LEMMA ExchangeInit == Init => Exchange!Init
BY DEF Init, Phase, Exchange!Init, Exchange!Badge, Badge

LEMMA EndRunPhase ==
  ASSUME TypeOK, NEW b \in Badge, NEW next \in State \ {"MENU"}, EndRun(b, next),
         Phase[b] = "in"
  PROVE  \/ Phase' = Phase /\ next \notin {"PAIRING_SUCCESS", "PAIRING_FAILED"}
         \/ Phase' = [Phase EXCEPT ![b] = "done"]
<1>1. InternalState'[b] \in {next, "PAIRING_FAILED"}
      /\ \A x \in Badge \ {b} : InternalState'[x] = InternalState[x]
      /\ InternalState' \in [Badge -> State]
  BY DEF EndRun, TypeOK, State
<1>2. CASE InternalState'[b] \in {"PAIRING_SUCCESS", "PAIRING_FAILED"}
  BY <1>1, <1>2 DEF Phase
<1>3. CASE InternalState'[b] \notin {"PAIRING_SUCCESS", "PAIRING_FAILED"}
  BY <1>1, <1>3 DEF Phase
<1>4. QED
  BY <1>2, <1>3

LEMMA ExchangeStep ==
  ASSUME StorageReliable, IInv, [Next]_vars
  PROVE  [Exchange!Next]_<<Phase, contacts>>
<1> USE DEF Exchange!Badge, Badge
<1>0. TypeOK
  BY DEF IInv
<1>1. CASE UNCHANGED vars
  BY <1>1 DEF vars, Phase
<1>2. CASE Next
  <2> PICK b \in Badge :
        \/ OpenMenu(b) \/ onRun(b)
        \/ Deliver(b) \/ LoseByte(b)
        \/ PowerCycle(b) \/ PowerFailsBeforeSave(b)
    BY <1>2 DEF Next
  <2>1. CASE OpenMenu(b)
    <3>1. Exchange!Open(b)
      BY <2>1, <1>0 DEF OpenMenu, TypeOK, Phase, Exchange!Open
    <3>2. QED
      BY <3>1 DEF Exchange!Next
  <2>2. CASE ShowResult(b)
    <3>1. Exchange!Leave(b)
      BY <2>2, <1>0 DEF ShowResult, TypeOK, Phase, Exchange!Leave
    <3>2. QED
      BY <3>1 DEF Exchange!Next
  <2>3. ASSUME NEW next \in State \ {"MENU"}, EndRun(b, next), Phase[b] = "in",
               UNCHANGED contacts
        PROVE  [Exchange!Next]_<<Phase, contacts>>
    <3>1. Phase' = Phase \/ Phase' = [Phase EXCEPT ![b] = "done"]
      BY <2>3, <1>0, EndRunPhase
    <3>2. ASSUME Phase' = [Phase EXCEPT ![b] = "done"] PROVE Exchange!GiveUp(b)
      BY <2>3, <3>2 DEF Exchange!GiveUp
    <3>3. QED
      BY <2>3, <3>1, <3>2 DEF Exchange!Next
  <2>4. CASE Clash(b) \/ BecomeBob(b) \/ BecomeAlice(b) \/ ResetNegotiation(b)
             \/ SkipByte(b) \/ OfferAlice(b)
    <3>1. InternalState[b] = "NEGOTIATE" /\ UNCHANGED contacts
      BY <2>4 DEF Clash, BecomeBob, BecomeAlice, ResetNegotiation, SkipByte,
                  OfferAlice, NegotiateRead
    <3>2. \E next \in {"NEGOTIATE", "ALICE_INIT", "BOB_RECEIVE_AIC"} : EndRun(b, next)
      BY <2>4 DEF Clash, BecomeBob, BecomeAlice, ResetNegotiation, SkipByte, OfferAlice
    <3>3. QED
      BY <3>1, <3>2, <2>3, PhaseType DEF State
  <2>5. CASE SendAIC(b)
    BY <2>5, <1>0 DEF SendAIC, TypeOK, Phase
  <2>6. CASE ReceiveAIC(b)
    <3>1. Phase[b] = "in" /\ UNCHANGED contacts
      BY <2>6, PhaseType DEF ReceiveAIC, FrameReady
    <3>2. \E next \in {"BOB_RECEIVE_ATBS", "PAIRING_FAILED"} : EndRun(b, next)
      BY <2>6 DEF ReceiveAIC
    <3>3. QED
      BY <3>1, <3>2, <2>3 DEF State
  <2>7. ASSUME NEW c \in Contact, NEW saved \in BOOLEAN, AddContact(b, c, saved),
               EndRun(b, IF saved THEN "PAIRING_SUCCESS" ELSE "PAIRING_FAILED"),
               Phase[b] = "in",
               c.as = "Bob" /\ c.sig = "genuine"
                 => \E d \in contacts[Peer(b)] : d.as = "Alice" /\ d.data = "genuine"
        PROVE  Exchange!Next
    <3>1. Phase' = [Phase EXCEPT ![b] = "done"]
      BY <2>7, <1>0, EndRunPhase DEF State
    <3>2. CASE contacts' = contacts
      <4>1. Exchange!GiveUp(b)
        BY <2>7, <3>1, <3>2 DEF Exchange!GiveUp
      <4>2. QED
        BY <4>1 DEF Exchange!Next
    <3>3. CASE contacts' = [contacts EXCEPT ![b] = @ \cup {c}]
      <4>1. Exchange!Store(b, c)
        BY <2>7, <3>1, <3>3 DEF Exchange!Store, Exchange!KnownAsBob, Exchange!Peer, Peer
      <4>2. c \in Exchange!Contact
        BY DEF Contact, Content, Exchange!Contact, Exchange!Content
      <4>3. QED
        BY <4>1, <4>2 DEF Exchange!Next
    <3>4. QED
      BY <2>7, <3>2, <3>3 DEF AddContact
  <2>8. CASE ReceiveBRTI(b)
    <3>1. BobInBRTI(b) \in Contact /\ BobInBRTI(b).as = "Alice"
      BY ContentType DEF BobInBRTI, Contact
    <3>2. Phase[b] = "in"
      BY <2>8, PhaseType DEF ReceiveBRTI, FrameReady
    <3>3. QED
      BY <2>8, <3>1, <3>2, <2>7 DEF ReceiveBRTI
  <2>9. CASE ReceiveATBS(b)
    <3>1. AliceInATBS(b) \in Contact /\ AliceInATBS(b).sig = SignatureIn(rx[b], "ATBS")
      BY <1>0, ContentType DEF AliceInATBS, Contact, TypeOK
    <3>2. Phase[b] = "in"
      BY <2>9, PhaseType DEF ReceiveATBS, FrameReady
    <3>3. QED
      BY <2>9, <3>1, <3>2, <2>7, GenuineATBSIsKnown DEF ReceiveATBS
  <2>10. CASE Wait(b)
    <3>1. Phase[b] = "in" /\ UNCHANGED contacts /\ InternalState[b] # "MENU"
      BY <2>10, PhaseType DEF Wait, WaitsFor
    <3>2. EndRun(b, InternalState[b]) /\ InternalState[b] \in State
      BY <2>10, <1>0 DEF Wait, TypeOK
    <3>3. QED
      BY <3>1, <3>2, <2>3
  <2>11. CASE Deliver(b) \/ LoseByte(b)
    BY <2>11 DEF Deliver, LoseByte, Phase
  <2>12. CASE PowerCycle(b) \/ PowerFailsBeforeSave(b)
    BY <2>12 DEF PowerCycle, PowerFailsBeforeSave, StorageReliable
  <2>13. QED
    BY <2>1, <2>2, <2>4, <2>5, <2>6, <2>8, <2>9, <2>10, <2>11, <2>12 DEF onRun
<1>3. QED
  BY <1>1, <1>2

\* The two state machines over the cable implement the abstract exchange, as
\* long as flash and power hold.
THEOREM ExchangeImplemented == StorageReliable /\ Spec => ImplementsExchange
<1> SUFFICES ASSUME StorageReliable PROVE Spec => ImplementsExchange
  OBVIOUS
<1>1. IInv /\ [Next]_vars => [Exchange!Next]_<<Phase, contacts>>
  BY ExchangeStep
<1>2. Spec => []IInv
  BY Invariant
<1>3. QED
  BY <1>1, <1>2, ExchangeInit, PTL DEF Spec, ImplementsExchange, Exchange!Spec

-----------------------------------------------------------------------------
(* How a badge moves from state to state. *)

\* What one step can make of the state and the attempts of a badge.
Moves(x) ==
  \/ InternalState'[x] = InternalState[x] /\ starts'[x] = starts[x]
  \/ /\ InternalState[x] = "MENU" /\ InternalState'[x] = "NEGOTIATE"
     /\ starts'[x] = starts[x] + 1
  \/ /\ InternalState[x] # "MENU" /\ starts'[x] = starts[x]
     /\ \/ InternalState'[x] \in {"MENU", "PAIRING_FAILED", "PAIRING_SUCCESS"}
        \/ /\ InternalState[x] = "NEGOTIATE"
           /\ InternalState'[x] \in {"ALICE_INIT", "BOB_RECEIVE_AIC"}
        \/ InternalState[x] = "ALICE_INIT" /\ InternalState'[x] = "ALICE_RECEIVE_BRTI"
        \/ InternalState[x] = "BOB_RECEIVE_AIC" /\ InternalState'[x] = "BOB_RECEIVE_ATBS"

LEMMA StateMoves ==
  ASSUME TypeOK, [Next]_vars, NEW x \in Badge
  PROVE  Moves(x) /\ lost <= lost'
<1> USE DEF TypeOK, Moves
<1>0. lost \in Nat
  BY BoundAssumption
<1>1. CASE UNCHANGED vars
  BY <1>0, <1>1 DEF vars
<1>2. CASE Next
  <2> PICK b \in Badge :
        \/ OpenMenu(b) \/ onRun(b)
        \/ Deliver(b) \/ LoseByte(b)
        \/ PowerCycle(b) \/ PowerFailsBeforeSave(b)
    BY <1>2 DEF Next
  <2>1. CASE OpenMenu(b)
    BY <1>0, <2>1 DEF OpenMenu
  <2>2. ASSUME NEW next, EndRun(b, next), x # b
        PROVE  Moves(x) /\ lost <= lost'
    BY <1>0, <2>2 DEF EndRun
  <2>3. ASSUME NEW next, EndRun(b, next), x = b
        PROVE  InternalState'[x] \in {next, "PAIRING_FAILED"} /\ starts'[x] = starts[x]
               /\ lost <= lost'
    BY <1>0, <2>3 DEF EndRun
  <2>4. CASE Clash(b) \/ BecomeBob(b) \/ BecomeAlice(b) \/ ResetNegotiation(b)
             \/ SkipByte(b) \/ OfferAlice(b)
    <3>1. InternalState[b] = "NEGOTIATE"
      BY <2>4 DEF Clash, BecomeBob, BecomeAlice, ResetNegotiation, SkipByte,
                  OfferAlice, NegotiateRead
    <3>2. \E next \in {"NEGOTIATE", "ALICE_INIT", "BOB_RECEIVE_AIC"} : EndRun(b, next)
      BY <2>4 DEF Clash, BecomeBob, BecomeAlice, ResetNegotiation, SkipByte, OfferAlice
    <3>3. QED
      BY <3>1, <3>2, <2>2, <2>3
  <2>5. CASE SendAIC(b)
    BY <1>0, <2>5 DEF SendAIC
  <2>6. CASE ReceiveAIC(b)
    <3>1. \E next \in {"BOB_RECEIVE_ATBS", "PAIRING_FAILED"} : EndRun(b, next)
      BY <2>6 DEF ReceiveAIC
    <3>2. InternalState[b] = "BOB_RECEIVE_AIC"
      BY <2>6 DEF ReceiveAIC, FrameReady
    <3>3. QED
      BY <3>1, <3>2, <2>2, <2>3
  <2>7. CASE ReceiveBRTI(b) \/ ReceiveATBS(b)
    <3>1. \E next \in {"PAIRING_SUCCESS", "PAIRING_FAILED"} : EndRun(b, next)
      BY <2>7 DEF ReceiveBRTI, ReceiveATBS
    <3>2. InternalState[b] \in {"ALICE_RECEIVE_BRTI", "BOB_RECEIVE_ATBS"}
      BY <2>7 DEF ReceiveBRTI, ReceiveATBS, FrameReady
    <3>3. QED
      BY <3>1, <3>2, <2>2, <2>3
  <2>8. CASE Wait(b)
    <3>1. EndRun(b, InternalState[b]) /\ InternalState[b] # "MENU"
      BY <2>8 DEF Wait, WaitsFor
    <3>2. QED
      BY <3>1, <2>2, <2>3
  <2>9. CASE ShowResult(b)
    BY <1>0, <2>9 DEF ShowResult
  <2>10. CASE Deliver(b) \/ LoseByte(b)
    BY <1>0, <2>10 DEF Deliver, LoseByte
  <2>11. CASE PowerCycle(b) \/ PowerFailsBeforeSave(b)
    BY <1>0, <2>11 DEF PowerCycle, PowerFailsBeforeSave, Restarted
  <2>12. QED
    BY <2>1, <2>4, <2>5, <2>6, <2>7, <2>8, <2>9, <2>10, <2>11 DEF onRun
<1>3. QED
  BY <1>1, <1>2

\* A badge outside the menu has opened it.
Opened == \A b \in Badge : InternalState[b] # "MENU" => starts[b] >= 1

LEMMA OpenedStep == TypeOK /\ Opened /\ [Next]_vars => Opened'
<1> SUFFICES ASSUME TypeOK, Opened, [Next]_vars, NEW x \in Badge,
                    InternalState'[x] # "MENU"
             PROVE  starts'[x] >= 1
  BY DEF Opened
<1>1. starts[x] \in Nat
  BY BoundAssumption DEF TypeOK
<1>2. QED
  BY <1>1, StateMoves DEF Opened, Moves

LEMMA FirstBefore ==
  ASSUME TypeOK, [Next]_vars, FirstAttempts'
  PROVE  FirstAttempts
<1> SUFFICES ASSUME NEW x \in Badge PROVE starts[x] <= 1
  BY DEF FirstAttempts
<1>1. starts[x] \in Nat /\ starts'[x] <= 1
  BY BoundAssumption DEF TypeOK, FirstAttempts
<1>2. QED
  BY <1>1, StateMoves DEF Moves

-----------------------------------------------------------------------------
(* Only one Alice. *)

\* The badge has left the negotiation behind, and not as Alice.
Past(b) ==
  /\ starts[b] >= 1
  /\ InternalState[b] \notin {"NEGOTIATE", "ALICE_INIT", "ALICE_RECEIVE_BRTI"}

\* A byte only Bob sends comes from a badge that is past the negotiation, a
\* byte only Alice sends goes to one.
Timely(b) ==
  {x \in Byte : /\ x.kind \in {"BOB_CONFIRM", "BRTI"} => Past(Peer(b))
                /\ x.kind \in {"AIC", "ATBS"} => Past(b)}

OneAlice ==
  FirstAttempts =>
    \A b \in Badge :
      /\ InternalState[b] \in {"ALICE_INIT", "ALICE_RECEIVE_BRTI"} => Past(Peer(b))
      /\ wire[b] \in Seq(Timely(b)) /\ rx[b] \in Seq(Timely(b))

LEMMA PeerType == \A x \in Badge : Peer(x) \in Badge /\ Peer(Peer(x)) = x /\ Peer(x) # x
BY BadgeAssumption DEF Peer, Badge

LEMMA PastStays ==
  ASSUME TypeOK, [Next]_vars, FirstAttempts', NEW x \in Badge, Past(x)
  PROVE  Past(x)'
<1>1. starts[x] \in Nat /\ starts'[x] <= 1
  BY BoundAssumption DEF TypeOK, FirstAttempts
<1>2. QED
  BY <1>1, StateMoves DEF Moves, Past

LEMMA TimelyGrows ==
  ASSUME TypeOK, [Next]_vars, FirstAttempts', NEW x \in Badge
  PROVE  Timely(x) \subseteq Timely(x)'
<1>1. (Past(x) => Past(x)') /\ (Past(Peer(x)) => Past(Peer(x))')
  BY PastStays, PeerType
<1>2. QED
  BY <1>1 DEF Timely

LEMMA WriteTimely ==
  ASSUME TypeOK, OneAlice, [Next]_vars, FirstAttempts', NEW b \in Badge,
         NEW kind \in Token \cup FrameKind, NEW over \in Content,
         kind \in {"BOB_CONFIRM", "BRTI"} => Past(b)',
         kind \in {"AIC", "ATBS"} => Past(Peer(b))',
         Write(b, Frame(kind, over))
  PROVE  \A x \in Badge : wire'[x] \in Seq(Timely(x)')
<1> SUFFICES ASSUME NEW x \in Badge PROVE wire'[x] \in Seq(Timely(x)')
  OBVIOUS
<1>1. wire[x] \in Seq(Timely(x)')
  BY FirstBefore, TimelyGrows, SeqMonotonic DEF OneAlice
<1>2. CASE x = Peer(b)
  <2>1. Peer(x) = b /\ (Past(Peer(x))' <=> Past(b)')
    BY <1>2, PeerType
  <2>2. Size(kind) \in Nat
    BY SizeType
  <2>3. \A i \in 1..Size(kind) : [kind |-> kind, pos |-> i, over |-> over] \in Timely(x)'
    BY <1>2, <2>1, <2>2 DEF Timely, Byte
  <2>4. Frame(kind, over) \in [1..Size(kind) -> Timely(x)']
    BY <2>3 DEF Frame
  <2>5. Frame(kind, over) \in Seq(Timely(x)')
    BY <2>2, <2>4, SeqDef
  <2>6. wire'[x] = wire[x] \o Frame(kind, over)
    BY <1>2 DEF Write, TypeOK
  <2>7. QED
    BY <1>1, <2>5, <2>6, ConcatProperties
<1>3. CASE x # Peer(b)
  BY <1>1, <1>3 DEF Write, TypeOK
<1>4. QED
  BY <1>2, <1>3

LEMMA ReadTimely ==
  ASSUME TypeOK, OneAlice, FirstAttempts, NEW b \in Badge, rx[b] # <<>>
  PROVE  Head(rx[b]) \in Timely(b) /\ Tail(rx[b]) \in Seq(Timely(b))
BY HeadTailProperties DEF OneAlice

LEMMA ConfirmedByBob ==
  ASSUME TypeOK, OneAlice, FirstAttempts, NEW b \in Badge, NegotiateRead(b, "BOB_CONFIRM")
  PROVE  Past(Peer(b))
<1>1. Head(rx[b]) \in Timely(b) /\ InternalState[b] = "NEGOTIATE"
  BY ReadTimely DEF NegotiateRead
<1>2. Head(rx[b]).kind \in {"BOB_CONFIRM", "AIC", "BRTI", "ATBS"}
  BY <1>1 DEF NegotiateRead, ReadAsToken, Timely, Byte, Token, FrameKind
<1>3. ~Past(b)
  BY <1>1 DEF Past
<1>4. QED
  BY <1>1, <1>2, <1>3 DEF Timely

LEMMA AliceStep ==
  ASSUME TypeOK, Opened, OneAlice, [Next]_vars, FirstAttempts', NEW x \in Badge,
         InternalState'[x] \in {"ALICE_INIT", "ALICE_RECEIVE_BRTI"}
  PROVE  Past(Peer(x))'
<1>0. FirstAttempts
  BY FirstBefore
<1>1. CASE InternalState[x] \in {"ALICE_INIT", "ALICE_RECEIVE_BRTI"}
  BY <1>0, <1>1, PastStays, PeerType DEF OneAlice
<1>2. CASE InternalState[x] \notin {"ALICE_INIT", "ALICE_RECEIVE_BRTI"}
  <2>1. InternalState'[x] = "ALICE_INIT" /\ InternalState[x] = "NEGOTIATE"
    BY <1>2, StateMoves DEF Moves
  <2>2. PICK b \in Badge :
        \/ OpenMenu(b) \/ onRun(b)
        \/ Deliver(b) \/ LoseByte(b)
        \/ PowerCycle(b) \/ PowerFailsBeforeSave(b)
    BY <2>1 DEF Next, vars
  <2>3. ASSUME NEW next, EndRun(b, next) PROVE next = "ALICE_INIT" /\ x = b
    BY <2>1, <2>3 DEF EndRun, TypeOK
  <2>4. BecomeAlice(b) \/ Wait(b)
    BY <2>1, <2>2, <2>3 DEF TypeOK, onRun, OpenMenu, Clash, BecomeBob, ResetNegotiation,
       SkipByte, OfferAlice, SendAIC, ReceiveAIC, ReceiveBRTI, ReceiveATBS,
       ShowResult, Deliver, LoseByte, PowerCycle, PowerFailsBeforeSave, Restarted
  <2>5. x = b /\ BecomeAlice(b)
    BY <2>1, <2>3, <2>4 DEF BecomeAlice, Wait
  <2>6. QED
    BY <1>0, <2>5, ConfirmedByBob, PastStays, PeerType DEF BecomeAlice
<1>3. QED
  BY <1>1, <1>2

LEMMA TimelyStep ==
  ASSUME TypeOK, Opened, OneAlice, [Next]_vars, FirstAttempts'
  PROVE  \A x \in Badge : wire'[x] \in Seq(Timely(x)') /\ rx'[x] \in Seq(Timely(x)')
<1>0. FirstAttempts
  BY FirstBefore
<1>1. \A x \in Badge : /\ wire[x] \in Seq(Timely(x)')
                       /\ rx[x] \in Seq(Timely(x)')
                       /\ <<>> \in Seq(Timely(x)')
  BY <1>0, TimelyGrows, SeqMonotonic, EmptySeq DEF OneAlice
<1>2. CASE UNCHANGED vars
  BY <1>1, <1>2 DEF vars
<1>3. CASE Next
  <2> PICK b \in Badge :
        \/ OpenMenu(b) \/ onRun(b)
        \/ Deliver(b) \/ LoseByte(b)
        \/ PowerCycle(b) \/ PowerFailsBeforeSave(b)
    BY <1>3 DEF Next
  <2> DEFINE WireOK == \A x \in Badge : wire'[x] \in Seq(Timely(x)')
             RxOK == \A x \in Badge : rx'[x] \in Seq(Timely(x)')
  <2>0. /\ InternalState[b] # "MENU" => starts[b] >= 1
        /\ InternalState[b] \in {"ALICE_INIT", "ALICE_RECEIVE_BRTI"} => Past(Peer(b))'
        /\ Past(b) => Past(b)'
    BY <1>0, PastStays, PeerType DEF Opened, OneAlice
  <2>1. ASSUME UNCHANGED wire PROVE WireOK
    BY <1>1, <2>1
  <2>2. ASSUME UNCHANGED rx PROVE RxOK
    BY <1>1, <2>2
  <2>3. ASSUME rx' = [rx EXCEPT ![b] = <<>>] PROVE RxOK
    BY <1>1, <2>3 DEF TypeOK
  <2>4. ASSUME rx[b] # <<>>, rx' = [rx EXCEPT ![b] = Tail(@)] PROVE RxOK
    <3>1. Tail(rx[b]) \in Seq(Timely(b)')
      BY <1>1, <2>4, HeadTailProperties
    <3>2. QED
      BY <1>1, <2>4, <3>1 DEF TypeOK
  <2>5. ASSUME NEW kind \in {"ALICE_CONFIRM", "RESET_NEG"}, NEW over \in Content,
               Write(b, Frame(kind, over))
        PROVE  WireOK
    BY <2>5, WriteTimely DEF Token
  <2>6. CASE OpenMenu(b)
    BY <2>6, <2>1, <2>3 DEF OpenMenu
  <2>7. CASE Clash(b) \/ BecomeAlice(b) \/ ResetNegotiation(b) \/ SkipByte(b)
    <3>1. RxOK
      BY <2>7, <2>4 DEF Clash, BecomeAlice, ResetNegotiation, SkipByte, NegotiateRead
    <3>2. WireOK
      BY <2>7, <2>1, <2>5, StartTypes DEF Clash, BecomeAlice, ResetNegotiation, SkipByte
    <3>3. QED
      BY <3>1, <3>2
  <2>8. CASE BecomeBob(b)
    <3>1. RxOK
      BY <2>8, <2>4 DEF BecomeBob, NegotiateRead
    <3>2. InternalState'[b] \in {"BOB_RECEIVE_AIC", "PAIRING_FAILED"} /\ starts' = starts
          /\ InternalState[b] = "NEGOTIATE"
      BY <2>8 DEF BecomeBob, EndRun, NegotiateRead, TypeOK
    <3>3. Past(b)'
      BY <2>0, <3>2 DEF Past
    <3>4. WireOK
      BY <2>8, <3>3, WriteTimely, StartTypes DEF BecomeBob, Token
    <3>5. QED
      BY <3>1, <3>4
  <2>9. CASE OfferAlice(b)
    BY <2>9, <2>2, <2>5, StartTypes DEF OfferAlice
  <2>10. CASE SendAIC(b)
    <3>1. WireOK
      BY <2>0, <2>10, WriteTimely, StartTypes DEF SendAIC, FrameKind
    <3>2. QED
      BY <2>10, <3>1, <2>2 DEF SendAIC
  <2>11. CASE ReceiveAIC(b)
    <3>1. Past(b)'
      BY <2>0, <2>11 DEF ReceiveAIC, FrameReady, Past
    <3>2. ASSUME Write(b, Frame("BRTI", DataIn(rx[b], "AIC"))) PROVE WireOK
      BY <3>1, <3>2, WriteTimely, ContentType, StartTypes DEF FrameKind
    <3>3. QED
      BY <2>11, <2>1, <2>3, <3>2 DEF ReceiveAIC, FrameReady
  <2>12. ASSUME SignForBob(b), InternalState[b] = "ALICE_RECEIVE_BRTI"
         PROVE  WireOK
    <3>1. Past(Peer(b))'
      BY <2>0, <2>12
    <3>2. ASSUME Write(b, Frame("ATBS", DataIn(rx[b], "BRTI"))) PROVE WireOK
      BY <3>1, <3>2, WriteTimely, ContentType, StartTypes DEF FrameKind
    <3>3. QED
      BY <2>12, <3>2, <2>1 DEF SignForBob
  <2>13. CASE ReceiveBRTI(b)
    BY <2>13, <2>12, <2>3 DEF ReceiveBRTI, FrameReady
  <2>14. CASE ReceiveATBS(b)
    BY <2>14, <2>1, <2>3 DEF ReceiveATBS, FrameReady
  <2>15. CASE Wait(b) \/ ShowResult(b)
    BY <2>15, <2>1, <2>2 DEF Wait, ShowResult
  <2>16. CASE Deliver(b)
    <3>1. PICK n \in Arrival(b) :
            /\ rx' = [rx EXCEPT ![b] = @ \o SubSeq(wire[b], 1, n)]
            /\ wire' = [wire EXCEPT ![b] = SubSeq(@, n + 1, Len(@))]
      BY <2>16 DEF Deliver
    <3>2. n \in 0..Len(wire[b])
      BY DEF Arrival, TypeOK
    <3>3. /\ SubSeq(wire[b], 1, n) \in Seq(Timely(b)')
          /\ SubSeq(wire[b], n + 1, Len(wire[b])) \in Seq(Timely(b)')
      BY <1>1, <3>2, PieceType
    <3>4. rx[b] \o SubSeq(wire[b], 1, n) \in Seq(Timely(b)')
      BY <1>1, <3>3, ConcatProperties
    <3>5. QED
      BY <1>1, <3>1, <3>3, <3>4 DEF TypeOK
  <2>17. CASE LoseByte(b)
    <3>1. Tail(wire[b]) \in Seq(Timely(b)')
      BY <1>1, <2>17, HeadTailProperties DEF LoseByte
    <3>2. QED
      BY <1>1, <2>17, <3>1 DEF LoseByte, TypeOK
  <2>18. CASE PowerCycle(b)
    <3>1. PICK n \in 0..Len(wire[Peer(b)]) :
            wire' = [wire EXCEPT ![Peer(b)] = SubSeq(@, 1, n)]
      BY <2>18 DEF PowerCycle
    <3>2. SubSeq(wire[Peer(b)], 1, n) \in Seq(Timely(Peer(b))')
      BY <1>1, PieceType, PeerType
    <3>3. WireOK
      BY <1>1, <3>1, <3>2, PeerType DEF TypeOK
    <3>4. QED
      BY <2>18, <2>3, <3>3 DEF PowerCycle, Restarted
  <2>19. CASE PowerFailsBeforeSave(b)
    BY <2>19, <2>12, <2>3 DEF PowerFailsBeforeSave, Restarted
  <2>20. QED
    BY <2>6, <2>7, <2>8, <2>9, <2>10, <2>11, <2>13, <2>14, <2>15, <2>16, <2>17,
       <2>18, <2>19 DEF onRun
<1>4. QED
  BY <1>2, <1>3

RoleInv == TypeOK /\ Opened /\ OneAlice

LEMMA RoleStep == RoleInv /\ [Next]_vars => RoleInv'
<1> SUFFICES ASSUME RoleInv, [Next]_vars PROVE RoleInv'
  OBVIOUS
<1>1. TypeOK' /\ Opened'
  BY TypeStep, OpenedStep DEF RoleInv
<1>2. FirstAttempts' => OneAlice'
  BY AliceStep, TimelyStep DEF RoleInv, OneAlice
<1>3. ~FirstAttempts' => OneAlice'
  BY DEF OneAlice
<1>4. QED
  BY <1>1, <1>2, <1>3 DEF RoleInv

LEMMA RoleInvariant == Spec => []RoleInv
<1>1. Init => RoleInv
  <2> SUFFICES ASSUME Init PROVE RoleInv
    OBVIOUS
  <2>1. TypeOK
    BY InitInv DEF IInv
  <2>2. \A b \in Badge : <<>> \in Seq(Timely(b))
    BY EmptySeq
  <2>3. QED
    BY <2>1, <2>2 DEF Init, RoleInv, Opened, OneAlice
<1>2. QED
  BY <1>1, RoleStep, PTL DEF Spec

\* Under every combination of faults, with the bytes of frames read as any
\* token, first attempts never make both badges Alice.
THEOREM AtMostOneAlice == Spec => []NotBothAlice
<1>1. RoleInv => NotBothAlice
  BY PeerType DEF RoleInv, OneAlice, NotBothAlice, Past, Badge
<1>2. QED
  BY <1>1, RoleInvariant, PTL

-----------------------------------------------------------------------------
(* Every frame is recognised. *)

\* A poll sees the frames whole, and none is cut short by the power switch.
FramesWhole == Faults \cap {"partial", "power"} = {}

\* A badge never finds as many unread tokens as AIC has bytes: offers and
\* resets are 20 ms apart, so that 85 of them cannot pile up on the cable.
TokensFew ==
  \A b \in Badge :
    (\A i \in 1..Len(rx[b]) : rx[b][i].kind \in Token) => Len(rx[b]) < AICSize

\* The one attempt of the badge is over.
Over(b) ==
  /\ starts[b] = 1
  /\ InternalState[b] \in {"PAIRING_SUCCESS", "PAIRING_FAILED", "MENU"}

Tokens(bytes) == \A i \in 1..Len(bytes) : bytes[i].kind \in Token

\* Tokens, and behind them a genuine frame.
EndsIn(bytes, kind) ==
  /\ Len(bytes) >= Size(kind)
  /\ \A i \in 1..Len(bytes) :
       IF i > Len(bytes) - Size(kind)
         THEN bytes[i] = [kind |-> kind, pos |-> i - (Len(bytes) - Size(kind)), over |-> "genuine"]
         ELSE bytes[i].kind \in Token

NoFrame(b) == Tokens(rx[b]) /\ Tokens(wire[b])

Carries(b, kind) ==
  \/ Tokens(rx[b]) /\ EndsIn(wire[b], kind)
  \/ EndsIn(rx[b], kind) /\ wire[b] = <<>>

\* A frame is under way only to a badge that waits for it, from one that has
\* nothing to send before the answer.
Turn(b, kind) ==
  \/ /\ kind = "AIC" /\ InternalState[b] = "BOB_RECEIVE_AIC"
     /\ InternalState[Peer(b)] = "ALICE_RECEIVE_BRTI" \/ Over(Peer(b))
  \/ /\ kind = "BRTI" /\ InternalState[b] = "ALICE_RECEIVE_BRTI"
     /\ InternalState[Peer(b)] = "BOB_RECEIVE_ATBS" \/ Over(Peer(b))

Framed(b) ==
  Over(b) \/ InternalState[b] = "BOB_RECEIVE_ATBS" \/ NoFrame(b)
    \/ \E kind \in FrameKind : Carries(b, kind) /\ Turn(b, kind)

\* A Bob who has answered finds nothing, or ATBS alone.
Answered(b) ==
  InternalState[b] = "BOB_RECEIVE_ATBS" =>
    /\ AIC[b] = "genuine"
    /\ \/ /\ rx[b] = <<>> /\ wire[b] = <<>>
          /\ InternalState[Peer(b)] = "ALICE_RECEIVE_BRTI" \/ Over(Peer(b))
       \/ /\ rx[b] = <<>> /\ wire[b] = Frame("ATBS", "genuine")
          /\ Over(Peer(b))
       \/ /\ rx[b] = Frame("ATBS", "genuine") /\ wire[b] = <<>>
          /\ Over(Peer(b))

FramesInTurn == Undisturbed => \A b \in Badge : Framed(b) /\ Answered(b)

FrameInv == RoleInv /\ FramesInTurn /\ ContactsGenuine

LEMMA OverStays ==
  ASSUME TypeOK, [Next]_vars, FirstAttempts', NEW x \in Badge, Over(x)
  PROVE  Over(x)'
<1>1. starts'[x] <= 1
  BY DEF FirstAttempts
<1>2. QED
  BY <1>1, StateMoves DEF Moves, Over

\* A badge that goes on waiting keeps its turn.
LEMMA WaitingStays ==
  ASSUME RoleInv, [Next]_vars, FirstAttempts', NEW x \in Badge,
         NEW state \in {"ALICE_RECEIVE_BRTI", "BOB_RECEIVE_ATBS"},
         InternalState[x] = state \/ Over(x)
  PROVE  InternalState'[x] = state \/ Over(x)'
<1>1. CASE Over(x)
  BY <1>1, OverStays DEF RoleInv
<1>2. CASE InternalState[x] = state
  <2>1. starts[x] \in Nat /\ starts[x] >= 1 /\ starts'[x] <= 1
    BY <1>2, BoundAssumption DEF RoleInv, Opened, TypeOK, FirstAttempts
  <2>2. QED
    BY <1>2, <2>1, StateMoves DEF Moves, Over, RoleInv
<1>3. QED
  BY <1>1, <1>2

\* Nothing happens at the badge and on the cable to it.
LEMMA StillFramed ==
  ASSUME RoleInv, [Next]_vars, FirstAttempts', NEW x \in Badge,
         rx'[x] = rx[x], wire'[x] = wire[x], AIC'[x] = AIC[x],
         InternalState'[x] = InternalState[x], starts'[x] = starts[x],
         Framed(x), Answered(x)
  PROVE  Framed(x)' /\ Answered(x)'
<1>1. Peer(x) \in Badge
  BY PeerType
<1>2. \A state \in {"ALICE_RECEIVE_BRTI", "BOB_RECEIVE_ATBS"} :
        InternalState[Peer(x)] = state \/ Over(Peer(x))
          => InternalState'[Peer(x)] = state \/ Over(Peer(x))'
  BY <1>1, WaitingStays
<1>3. \A kind : Turn(x, kind) => Turn(x, kind)'
  BY <1>2 DEF Turn
<1>4. Over(x) => Over(x)'
  BY DEF Over
<1>5. (NoFrame(x) => NoFrame(x)') /\ \A kind : Carries(x, kind) => Carries(x, kind)'
  BY DEF NoFrame, Carries, Tokens, EndsIn
<1>6. Framed(x)'
  BY <1>3, <1>4, <1>5 DEF Framed
<1>7. Over(Peer(x)) => Over(Peer(x))'
  BY <1>1, OverStays DEF RoleInv
<1>8. Answered(x)'
  BY <1>2, <1>7 DEF Answered
<1>9. QED
  BY <1>6, <1>8

LEMMA FrameFits ==
  ASSUME NEW kind \in FrameKind, NEW s \in Seq(Byte), EndsIn(s, kind), Len(s) = Size(kind)
  PROVE  s = Frame(kind, "genuine")
<1>1. Size(kind) \in Nat
  BY SizeType
<1>2. s \in [1..Size(kind) -> Byte]
  BY LenProperties
<1>3. \A i \in 1..Size(kind) : s[i] = [kind |-> kind, pos |-> i, over |-> "genuine"]
  BY <1>1 DEF EndsIn
<1>4. QED
  BY <1>2, <1>3 DEF Frame

\* What a badge that waits for AIC or BRTI takes for it is the whole frame,
\* with nothing before or behind it.
LEMMA GoodFrame ==
  ASSUME RoleInv, TokensFew, NEW x \in Badge, Framed(x), ~Over(x),
         NEW kind \in {"AIC", "BRTI"}, Len(rx[x]) = Size(kind),
         InternalState[x] = (IF kind = "AIC" THEN "BOB_RECEIVE_AIC" ELSE "ALICE_RECEIVE_BRTI")
  PROVE  rx[x] = Frame(kind, "genuine") /\ wire[x] = <<>> /\ Turn(x, kind)
<1>1. AICSize \in Nat /\ Size(kind) >= AICSize
  BY SizeAssumption DEF Size, BRTISize
<1>2. ~Tokens(rx[x])
  BY <1>1 DEF TokensFew, Tokens
<1>3. PICK k \in FrameKind : EndsIn(rx[x], k) /\ wire[x] = <<>> /\ Turn(x, k)
  BY <1>2 DEF Framed, NoFrame, Carries
<1>4. k = kind
  BY <1>3 DEF Turn
<1>5. rx[x] \in Seq(Byte)
  BY DEF RoleInv, TypeOK
<1>6. QED
  BY <1>3, <1>4, <1>5, FrameFits DEF FrameKind

LEMMA GoodData ==
  /\ DataIn(Frame("AIC", "genuine"), "AIC") = "genuine"
  /\ DataIn(Frame("BRTI", "genuine"), "BRTI") = "genuine"
  /\ SignatureIn(Frame("BRTI", "genuine"), "BRTI") = "genuine"
  /\ SignatureIn(Frame("ATBS", "genuine"), "ATBS") = "genuine"
BY DEF DataIn, SignatureIn, Content

LEMMA FrameLength ==
  ASSUME NEW kind \in Token \cup FrameKind, NEW over \in Content
  PROVE  Len(Frame(kind, over)) = Size(kind) /\ Size(kind) \in Nat
BY FrameType, SizeType, LenProperties

LEMMA Appended ==
  ASSUME NEW s \in Seq(Byte), Tokens(s), NEW kind \in Token \cup FrameKind,
         NEW over \in Content
  PROVE  /\ kind \in Token => Tokens(s \o Frame(kind, over))
         /\ over = "genuine" => EndsIn(s \o Frame(kind, over), kind)
<1> DEFINE t == s \o Frame(kind, over)
<1>1. Len(Frame(kind, over)) = Size(kind) /\ Size(kind) \in Nat /\ Frame(kind, over) \in Seq(Byte)
  BY FrameLength, FrameType
<1>2. Len(s) \in Nat
  BY LenProperties
<1>3. /\ Len(t) = Len(s) + Size(kind)
      /\ \A i \in 1..(Len(s) + Size(kind)) :
           t[i] = IF i <= Len(s) THEN s[i] ELSE Frame(kind, over)[i - Len(s)]
  BY <1>1, ConcatProperties
<1>4. \A i \in 1..Size(kind) : Frame(kind, over)[i] = [kind |-> kind, pos |-> i, over |-> over]
  BY FrameType
<1>5. \A i \in 1..Len(t) :
        IF i > Len(s)
          THEN t[i] = [kind |-> kind, pos |-> i - Len(s), over |-> over]
          ELSE t[i].kind \in Token
  <2> SUFFICES ASSUME NEW i \in 1..Len(t)
               PROVE  IF i > Len(s)
                        THEN t[i] = [kind |-> kind, pos |-> i - Len(s), over |-> over]
                        ELSE t[i].kind \in Token
    OBVIOUS
  <2>1. CASE i > Len(s)
    <3>1. i - Len(s) \in 1..Size(kind) /\ t[i] = Frame(kind, over)[i - Len(s)]
      BY <1>1, <1>2, <1>3, <2>1
    <3>2. QED
      BY <1>4, <2>1, <3>1
  <2>2. CASE ~(i > Len(s))
    <3>1. i \in 1..Len(s) /\ t[i] = s[i]
      BY <1>1, <1>2, <1>3, <2>2
    <3>2. QED
      BY <2>2, <3>1 DEF Tokens
  <2>3. QED
    BY <2>1, <2>2
<1>6. kind \in Token => Tokens(t)
  <2> SUFFICES ASSUME kind \in Token, NEW i \in 1..Len(t) PROVE t[i].kind \in Token
    BY DEF Tokens
  <2>1. t[i] = [kind |-> kind, pos |-> i - Len(s), over |-> over] \/ t[i].kind \in Token
    BY <1>5
  <2>2. QED
    BY <2>1
<1>7. over = "genuine" => EndsIn(t, kind)
  BY <1>1, <1>2, <1>3, <1>5 DEF EndsIn
<1>8. QED
  BY <1>6, <1>7

\* What a poll moves from the cable into the buffer.
LEMMA Polled ==
  ASSUME NEW r \in Seq(Byte), NEW w \in Seq(Byte), NEW n \in 1..Len(w), Tokens(r),
         n < Len(w) => w[n + 1].pos = 1
  PROVE  /\ Tokens(w) => /\ Tokens(r \o SubSeq(w, 1, n))
                         /\ Tokens(SubSeq(w, n + 1, Len(w)))
         /\ \A kind \in FrameKind : EndsIn(w, kind) =>
              \/ /\ Tokens(r \o SubSeq(w, 1, n))
                 /\ EndsIn(SubSeq(w, n + 1, Len(w)), kind)
              \/ /\ EndsIn(r \o SubSeq(w, 1, n), kind)
                 /\ SubSeq(w, n + 1, Len(w)) = <<>>
<1> DEFINE m == Len(w)
           f == SubSeq(w, 1, n)
           g == SubSeq(w, n + 1, m)
           t == r \o f
<1>1. Len(r) \in Nat /\ m \in Nat /\ n \in Nat
  BY LenProperties
<1>2. f \in Seq(Byte) /\ g \in Seq(Byte)
  BY PieceType
<1>3. \A i \in 1..m : w[i] \in Byte
  BY ElementOfSeq
<1>4. Len(f) = n /\ \A i \in 1..n : f[i] = w[i]
  BY <1>1, <1>3, SubSeqProperties
<1>5. Len(g) = m - n /\ \A i \in 1..(m - n) : g[i] = w[n + i]
  <2>1. \A i \in (n + 1)..m : w[i] \in Byte
    BY <1>1, <1>3
  <2>2. Len(g) = IF n + 1 <= m THEN m - (n + 1) + 1 ELSE 0
    BY <1>1, <2>1, SubSeqProperties
  <2>3. \A i \in 1..(m - (n + 1) + 1) : g[i] = w[(n + 1) + i - 1]
    BY <1>1, <2>1, SubSeqProperties
  <2>4. QED
    BY <1>1, <2>2, <2>3
<1>6. /\ Len(t) = Len(r) + n
      /\ \A i \in 1..(Len(r) + n) : t[i] = IF i <= Len(r) THEN r[i] ELSE f[i - Len(r)]
  BY <1>2, <1>4, ConcatProperties
<1>7. \A i \in 1..Len(t) : IF i <= Len(r) THEN t[i].kind \in Token ELSE t[i] = w[i - Len(r)]
  <2> SUFFICES ASSUME NEW i \in 1..Len(t)
               PROVE  IF i <= Len(r) THEN t[i].kind \in Token ELSE t[i] = w[i - Len(r)]
    OBVIOUS
  <2>1. CASE i <= Len(r)
    BY <1>1, <1>6, <2>1 DEF Tokens
  <2>2. CASE ~(i <= Len(r))
    <3>1. i - Len(r) \in 1..n
      BY <1>1, <1>6, <2>2
    <3>2. QED
      BY <1>1, <1>4, <1>6, <2>2, <3>1
  <2>3. QED
    BY <2>1, <2>2
<1>8. Tokens(w) => Tokens(t) /\ Tokens(g)
  <2> SUFFICES ASSUME Tokens(w) PROVE Tokens(t) /\ Tokens(g)
    OBVIOUS
  <2>1. Tokens(g)
    BY <1>1, <1>5 DEF Tokens
  <2>2. \A i \in 1..Len(t) : i > Len(r) => i - Len(r) \in 1..m
    BY <1>1, <1>6
  <2>3. Tokens(t)
    BY <1>1, <1>7, <2>2 DEF Tokens
  <2>4. QED
    BY <2>1, <2>3
<1>9. ASSUME NEW kind \in FrameKind, EndsIn(w, kind)
      PROVE  (Tokens(t) /\ EndsIn(g, kind)) \/ (EndsIn(t, kind) /\ g = <<>>)
  <2> DEFINE k == Size(kind)
  <2>1. k \in Nat /\ k <= m
    BY <1>9, SizeType DEF EndsIn
  <2>2. \A i \in 1..m : IF i > m - k
                          THEN w[i] = [kind |-> kind, pos |-> i - (m - k), over |-> "genuine"]
                          ELSE w[i].kind \in Token
    BY <1>9 DEF EndsIn
  <2>3. CASE n = m
    <3>1. g = <<>>
      BY <1>1, <2>3, SubSeqEmpty
    <3>2. Len(t) >= k
      BY <1>1, <1>6, <2>1, <2>3
    <3>3. ASSUME NEW i \in 1..Len(t)
          PROVE  IF i > Len(t) - k
                   THEN t[i] = [kind |-> kind, pos |-> i - (Len(t) - k), over |-> "genuine"]
                   ELSE t[i].kind \in Token
      <4>1. CASE i <= Len(r)
        BY <1>1, <1>6, <1>7, <2>1, <2>3, <4>1
      <4>2. CASE ~(i <= Len(r))
        <5>1. i - Len(r) \in 1..m /\ t[i] = w[i - Len(r)]
          BY <1>1, <1>6, <1>7, <2>3, <4>2
        <5>2. (i > Len(t) - k) <=> (i - Len(r) > m - k)
          BY <1>1, <1>6, <2>1, <2>3
        <5>3. i - Len(r) - (m - k) = i - (Len(t) - k)
          <6>1. Len(t) = Len(r) + m /\ i \in Int
            BY <1>1, <1>6, <2>3
          <6>2. QED
            BY <1>1, <2>1, <6>1
        <5>4. QED
          BY <2>2, <5>1, <5>2, <5>3
      <4>3. QED
        BY <4>1, <4>2
    <3>4. EndsIn(t, kind)
      BY <3>2, <3>3 DEF EndsIn
    <3>5. QED
      BY <3>1, <3>4
  <2>4. CASE n < m
    <3>1. n <= m - k
      <4>1. SUFFICES ASSUME n > m - k PROVE FALSE
        BY <1>1, <2>1
      <4> DEFINE j == n + 1
      <4>2. j \in 1..m /\ j > m - k /\ j > 1 /\ w[j].pos = 1
        BY <1>1, <2>1, <2>4, <4>1
      <4>3. j - (m - k) # 1 \/ n = m - k
        BY <1>1, <2>1
      <4> HIDE DEF j
      <4>4. w[j] = [kind |-> kind, pos |-> j - (m - k), over |-> "genuine"]
        BY <2>2, <4>2
      <4>5. w[j].pos = j - (m - k)
        BY <4>4
      <4>6. QED
        BY <1>1, <2>1, <4>1, <4>2, <4>3, <4>5
    <3>2. \A i \in 1..Len(t) : i > Len(r) => i - Len(r) \in 1..m /\ ~(i - Len(r) > m - k)
      BY <1>1, <1>6, <2>1, <3>1
    <3>3. Tokens(t)
      <4> SUFFICES ASSUME NEW i \in 1..Len(t) PROVE t[i].kind \in Token
        BY DEF Tokens
      <4>1. CASE i <= Len(r)
        BY <1>7, <4>1
      <4>2. CASE ~(i <= Len(r))
        <5>1. t[i] = w[i - Len(r)]
          BY <1>7, <4>2
        <5>2. i - Len(r) \in 1..m /\ ~(i - Len(r) > m - k)
          BY <1>1, <1>6, <3>2, <4>2
        <5>3. QED
          BY <2>2, <5>1, <5>2
      <4>3. QED
        BY <4>1, <4>2
    <3>4. Len(g) >= k
      BY <1>1, <1>5, <2>1, <3>1
    <3>5. ASSUME NEW i \in 1..Len(g)
          PROVE  IF i > Len(g) - k
                   THEN g[i] = [kind |-> kind, pos |-> i - (Len(g) - k), over |-> "genuine"]
                   ELSE g[i].kind \in Token
      <4> DEFINE j == n + i
      <4>1. j \in 1..m /\ g[i] = w[j]
        BY <1>1, <1>5
      <4>2. (i > Len(g) - k) <=> (j > m - k)
        BY <1>1, <1>5, <2>1
      <4>3. j - (m - k) = i - (Len(g) - k)
        BY <1>1, <1>5, <2>1
      <4> HIDE DEF j
      <4>4. QED
        BY <2>2, <4>1, <4>2, <4>3
    <3>6. EndsIn(g, kind)
      BY <3>4, <3>5 DEF EndsIn
    <3>7. QED
      BY <3>3, <3>6
  <2>5. QED
    BY <1>1, <2>3, <2>4
<1>10. QED
  BY <1>8, <1>9

LEMMA UndisturbedBefore ==
  ASSUME TypeOK, [Next]_vars, Undisturbed'
  PROVE  Undisturbed /\ FirstAttempts' /\ lost' = lost
<1>1. lost \in Nat /\ lost' = 0 /\ FirstAttempts'
  BY BoundAssumption DEF TypeOK, Undisturbed
<1>2. L \in Badge
  BY DEF Badge
<1>3. lost <= lost'
  BY <1>2, StateMoves
<1>4. QED
  BY <1>1, <1>3, FirstBefore DEF Undisturbed

\* Before the badge has sent its first frame there is none to or from it.
LEMMA NoFrameYet ==
  ASSUME FrameInv, Undisturbed, NEW b \in Badge,
         InternalState[b] \in {"NEGOTIATE", "ALICE_INIT"}
  PROVE  /\ NoFrame(b)
         /\ Over(Peer(b)) \/ NoFrame(Peer(b))
         /\ InternalState[Peer(b)] # "BOB_RECEIVE_ATBS"
<1>1. Peer(b) \in Badge /\ Peer(Peer(b)) = b
  BY PeerType
<1>2. ~Over(b)
  BY DEF Over
<1>3. Framed(b) /\ Framed(Peer(b)) /\ Answered(Peer(b))
  BY <1>1 DEF FrameInv, FramesInTurn
<1>4. InternalState[Peer(b)] # "BOB_RECEIVE_ATBS"
  BY <1>1, <1>2, <1>3 DEF Answered
<1>5. \A kind : ~Turn(b, kind) /\ ~Turn(Peer(b), kind)
  BY <1>1, <1>2 DEF Turn
<1>6. QED
  BY <1>2, <1>3, <1>4, <1>5 DEF Framed

LEMMA PeerHears ==
  ASSUME FrameInv, [Next]_vars, Undisturbed', NEW b \in Badge,
         InternalState[b] = "NEGOTIATE",
         NEW kind \in Token, Write(b, Frame(kind, "garbled")),
         rx'[Peer(b)] = rx[Peer(b)], starts'[Peer(b)] = starts[Peer(b)],
         InternalState'[Peer(b)] = InternalState[Peer(b)]
  PROVE  Framed(Peer(b))' /\ Answered(Peer(b))'
<1> DEFINE p == Peer(b)
<1>0. TypeOK
  BY DEF FrameInv, RoleInv
<1>1. /\ Over(p) \/ NoFrame(p)
      /\ InternalState[p] # "BOB_RECEIVE_ATBS"
  BY <1>0, NoFrameYet, UndisturbedBefore
<1>2. CASE Over(p)
  BY <1>1, <1>2 DEF Framed, Answered, Over
<1>3. CASE NoFrame(p)
  <2>1. wire[p] \in Seq(Byte) /\ wire'[p] = wire[p] \o Frame(kind, "garbled")
    BY <1>0, PeerType DEF Write, TypeOK
  <2>2. Tokens(wire'[p])
    BY <1>3, <2>1, Appended, StartTypes DEF NoFrame
  <2>3. NoFrame(p)'
    BY <1>3, <2>2 DEF NoFrame, Tokens
  <2>4. QED
    BY <1>1, <2>3 DEF Framed, Answered
<1>4. QED
  BY <1>1, <1>2, <1>3

LEMMA NegotiatorReads ==
  ASSUME FrameInv, Undisturbed, NEW b \in Badge, NEW token, NegotiateRead(b, token),
         wire'[b] = wire[b], InternalState'[b] # "BOB_RECEIVE_ATBS"
  PROVE  Framed(b)' /\ Answered(b)'
<1>1. NoFrame(b)
  BY NoFrameYet DEF NegotiateRead
<1>2. rx[b] \in Seq(Byte) /\ rx[b] # <<>> /\ rx'[b] = Tail(rx[b])
  BY DEF FrameInv, RoleInv, TypeOK, NegotiateRead
<1>3. /\ Len(rx[b]) \in Nat /\ Len(rx'[b]) = Len(rx[b]) - 1
      /\ \A i \in 1..Len(rx'[b]) : rx'[b][i] = rx[b][i + 1]
  BY <1>2, HeadTailProperties, LenProperties
<1>4. \A i \in 1..Len(rx'[b]) : i + 1 \in 1..Len(rx[b])
  BY <1>3
<1>5. Tokens(rx[b]) /\ Tokens(wire[b])
  BY <1>1 DEF NoFrame
<1>6. Tokens(rx'[b])
  BY <1>3, <1>4, <1>5 DEF Tokens
<1>7. NoFrame(b)'
  BY <1>5, <1>6 DEF NoFrame, Tokens
<1>8. QED
  BY <1>7 DEF Framed, Answered

\* A badge at the end of its attempt leaves what is under way as it is.
LEMMA AttemptOver ==
  ASSUME RoleInv, [Next]_vars, FirstAttempts', NEW b \in Badge, InternalState[b] # "MENU",
         InternalState'[b] \in {"PAIRING_SUCCESS", "PAIRING_FAILED", "MENU"}
  PROVE  Over(b)' /\ Framed(b)' /\ Answered(b)'
<1>1. starts[b] \in Nat /\ starts[b] >= 1 /\ starts'[b] <= 1
  BY BoundAssumption DEF RoleInv, Opened, TypeOK, FirstAttempts
<1>2. starts'[b] = starts[b]
  BY StateMoves DEF Moves, RoleInv
<1>3. Over(b)'
  BY <1>1, <1>2 DEF Over
<1>4. QED
  BY <1>3 DEF Framed, Answered

LEMMA AICSent ==
  ASSUME FrameInv, [Next]_vars, Undisturbed', NEW b \in Badge, SendAIC(b)
  PROVE  Framed(b)' /\ Answered(b)' /\ Framed(Peer(b))' /\ Answered(Peer(b))'
<1> DEFINE p == Peer(b)
<1>0. RoleInv /\ TypeOK
  BY DEF FrameInv, RoleInv
<1>1. p \in Badge /\ Peer(p) = b /\ p # b
  BY PeerType
<1>2. Undisturbed /\ FirstAttempts
  BY <1>0, UndisturbedBefore DEF Undisturbed
<1>3. /\ NoFrame(b)
      /\ Over(p) \/ NoFrame(p)
      /\ InternalState[p] # "BOB_RECEIVE_ATBS"
  BY <1>2, NoFrameYet DEF SendAIC
<1>4. /\ InternalState'[b] = "ALICE_RECEIVE_BRTI" /\ InternalState'[p] = InternalState[p]
      /\ starts' = starts /\ rx' = rx /\ wire'[b] = wire[b]
      /\ wire'[p] = wire[p] \o Frame("AIC", "genuine")
  BY <1>0, <1>1 DEF SendAIC, Write, TypeOK
<1>5. NoFrame(b)'
  BY <1>3, <1>4 DEF NoFrame, Tokens
<1>6. Framed(b)' /\ Answered(b)'
  BY <1>4, <1>5 DEF Framed, Answered
<1>7. Answered(p)'
  BY <1>3, <1>4 DEF Answered
<1>8. CASE Over(p)
  BY <1>4, <1>7, <1>6, <1>8 DEF Framed, Over
<1>9. CASE ~Over(p)
  <2>1. Past(p)
    BY <1>0, <1>2 DEF SendAIC, RoleInv, OneAlice
  <2>2. InternalState[p] = "BOB_RECEIVE_AIC"
    BY <1>0, <1>1, <1>2, <1>3, <1>9, <2>1, BoundAssumption
    DEF Past, Over, TypeOK, State, FirstAttempts
  <2>3. EndsIn(wire'[p], "AIC")
    BY <1>0, <1>1, <1>3, <1>4, <1>9, Appended, StartTypes DEF NoFrame, TypeOK
  <2>4. Carries(p, "AIC")'
    BY <1>3, <1>4, <1>9, <2>3 DEF Carries, NoFrame, Tokens, EndsIn
  <2>5. Turn(p, "AIC")'
    BY <1>1, <1>4, <2>2 DEF Turn
  <2>6. QED
    BY <1>6, <1>7, <2>4, <2>5 DEF Framed, FrameKind
<1>10. QED
  BY <1>8, <1>9

LEMMA AICReceived ==
  ASSUME FrameInv, TokensFew, [Next]_vars, Undisturbed', NEW b \in Badge, ReceiveAIC(b)
  PROVE  Framed(b)' /\ Answered(b)' /\ Framed(Peer(b))' /\ Answered(Peer(b))'
<1> DEFINE p == Peer(b)
<1>0. RoleInv /\ TypeOK
  BY DEF FrameInv, RoleInv
<1>1. p \in Badge /\ Peer(p) = b /\ p # b
  BY PeerType
<1>2. Undisturbed /\ FirstAttempts /\ FirstAttempts'
  BY <1>0, UndisturbedBefore DEF Undisturbed
<1>3. Framed(b) /\ Framed(p) /\ Answered(p) /\ ~Over(b)
      /\ InternalState[b] = "BOB_RECEIVE_AIC" /\ Len(rx[b]) = Size("AIC")
  BY <1>1, <1>2 DEF FrameInv, FramesInTurn, ReceiveAIC, FrameReady, Over
<1>4. rx[b] = Frame("AIC", "genuine") /\ wire[b] = <<>> /\ Turn(b, "AIC")
  BY <1>0, <1>3, GoodFrame
<1>5. AIC' = [AIC EXCEPT ![b] = "genuine"] /\ DataIn(rx[b], "AIC") = "genuine"
      /\ rx' = [rx EXCEPT ![b] = <<>>]
  BY <1>4, GoodData DEF ReceiveAIC, FrameReady
<1>6. /\ AIC'[p] = AIC[p] /\ rx'[p] = rx[p] /\ AIC'[b] = "genuine" /\ rx'[b] = <<>>
  BY <1>0, <1>1, <1>5 DEF TypeOK
<1>7. \E next : EndRun(b, next)
  BY DEF ReceiveAIC
<1>8. InternalState'[p] = InternalState[p] /\ starts' = starts
  BY <1>0, <1>1, <1>7 DEF EndRun, TypeOK
<1>9. CASE UNCHANGED wire /\ EndRun(b, "PAIRING_FAILED")
  <2>1. Framed(p)' /\ Answered(p)'
    BY <1>0, <1>1, <1>2, <1>3, <1>6, <1>8, <1>9, StillFramed
  <2>2. InternalState'[b] = "PAIRING_FAILED"
    BY <1>0, <1>9 DEF EndRun, TypeOK
  <2>3. QED
    BY <1>0, <1>2, <1>3, <2>1, <2>2, AttemptOver
<1>10. CASE Write(b, Frame("BRTI", "genuine")) /\ EndRun(b, "BOB_RECEIVE_ATBS")
  <2>1. InternalState'[b] \in {"BOB_RECEIVE_ATBS", "PAIRING_FAILED"}
        /\ wire'[b] = wire[b] /\ wire'[p] = wire[p] \o Frame("BRTI", "genuine")
    BY <1>0, <1>1, <1>10 DEF EndRun, TypeOK, Write
  <2>2. InternalState[p] = "ALICE_RECEIVE_BRTI" \/ Over(p)
    BY <1>4 DEF Turn
  <2>3. Framed(b)' /\ Answered(b)'
    <3>1. CASE InternalState'[b] = "PAIRING_FAILED"
      BY <1>0, <1>2, <1>3, <3>1, AttemptOver
    <3>2. CASE InternalState'[b] = "BOB_RECEIVE_ATBS"
      <4>1. InternalState'[p] = "ALICE_RECEIVE_BRTI" \/ Over(p)'
        BY <1>8, <2>2 DEF Over
      <4>2. QED
        BY <1>4, <1>6, <2>1, <3>2, <4>1 DEF Framed, Answered
    <3>3. QED
      BY <2>1, <3>1, <3>2
  <2>4. Answered(p)'
    BY <1>8, <2>2 DEF Answered, Over
  <2>5. Framed(p)'
    <3>1. CASE Over(p)
      BY <1>8, <3>1 DEF Framed, Over
    <3>2. CASE InternalState[p] = "ALICE_RECEIVE_BRTI" /\ ~Over(p)
      <4>1. \A kind : ~Turn(p, kind)
        BY <1>1, <1>3, <3>2 DEF Turn
      <4>2. NoFrame(p)
        BY <1>3, <3>2, <4>1 DEF Framed
      <4>3. EndsIn(wire'[p], "BRTI")
        BY <1>0, <1>1, <2>1, <4>2, Appended, StartTypes DEF NoFrame, TypeOK
      <4>4. Carries(p, "BRTI")'
        BY <1>6, <4>2, <4>3 DEF Carries, NoFrame, Tokens, EndsIn
      <4>5. InternalState'[b] = "BOB_RECEIVE_ATBS" \/ Over(b)'
        BY <1>0, <1>2, <1>3, <2>1, AttemptOver
      <4>6. Turn(p, "BRTI")'
        BY <1>1, <1>8, <3>2, <4>5 DEF Turn
      <4>7. QED
        BY <4>4, <4>6 DEF Framed, FrameKind
    <3>3. QED
      BY <2>2, <3>1, <3>2
  <2>6. QED
    BY <2>3, <2>4, <2>5
<1>11. QED
  BY <1>5, <1>9, <1>10 DEF ReceiveAIC

\* Alice has the whole BRTI, and the cable to the Bob who waits is empty.
LEMMA BRTIFound ==
  ASSUME FrameInv, TokensFew, Undisturbed, NEW b \in Badge,
         InternalState[b] = "ALICE_RECEIVE_BRTI", Len(rx[b]) = Size("BRTI")
  PROVE  /\ rx[b] = Frame("BRTI", "genuine") /\ wire[b] = <<>>
         /\ \/ Over(Peer(b))
            \/ /\ InternalState[Peer(b)] = "BOB_RECEIVE_ATBS"
               /\ AIC[Peer(b)] = "genuine"
               /\ rx[Peer(b)] = <<>> /\ wire[Peer(b)] = <<>>
<1>1. Peer(b) \in Badge /\ Peer(Peer(b)) = b
  BY PeerType
<1>2. Framed(b) /\ ~Over(b) /\ Answered(Peer(b)) /\ RoleInv
  BY <1>1 DEF FrameInv, FramesInTurn, Over
<1>3. rx[b] = Frame("BRTI", "genuine") /\ wire[b] = <<>> /\ Turn(b, "BRTI")
  BY <1>2, GoodFrame
<1>4. QED
  BY <1>1, <1>2, <1>3 DEF Turn, Answered

LEMMA BRTIReceived ==
  ASSUME FrameInv, TokensFew, [Next]_vars, Undisturbed', NEW b \in Badge, ReceiveBRTI(b)
  PROVE  Framed(b)' /\ Answered(b)' /\ Framed(Peer(b))' /\ Answered(Peer(b))'
<1> DEFINE p == Peer(b)
<1>0. RoleInv /\ TypeOK
  BY DEF FrameInv, RoleInv
<1>1. p \in Badge /\ Peer(p) = b /\ p # b
  BY PeerType
<1>2. Undisturbed /\ FirstAttempts /\ FirstAttempts'
  BY <1>0, UndisturbedBefore DEF Undisturbed
<1>3. InternalState[b] = "ALICE_RECEIVE_BRTI" /\ Len(rx[b]) = Size("BRTI")
      /\ rx' = [rx EXCEPT ![b] = <<>>] /\ AIC' = AIC
  BY DEF ReceiveBRTI, FrameReady
<1>4. /\ rx[b] = Frame("BRTI", "genuine")
      /\ \/ Over(p)
         \/ /\ InternalState[p] = "BOB_RECEIVE_ATBS" /\ AIC[p] = "genuine"
            /\ rx[p] = <<>> /\ wire[p] = <<>>
  BY <1>2, <1>3, BRTIFound
<1>5. \E next \in {"PAIRING_SUCCESS", "PAIRING_FAILED"} : EndRun(b, next)
  BY DEF ReceiveBRTI
<1>6. InternalState'[b] \in {"PAIRING_SUCCESS", "PAIRING_FAILED"} /\ starts' = starts
      /\ InternalState'[p] = InternalState[p] /\ rx'[p] = rx[p] /\ AIC'[p] = AIC[p]
  BY <1>0, <1>1, <1>3, <1>5 DEF EndRun, TypeOK
<1>7. Over(b)' /\ Framed(b)' /\ Answered(b)'
  BY <1>0, <1>2, <1>3, <1>6, AttemptOver
<1>8. CASE Over(p)
  BY <1>6, <1>7, <1>8 DEF Framed, Answered, Over
<1>9. CASE ~Over(p)
  <2>1. UNCHANGED wire \/ Write(b, Frame("ATBS", "genuine"))
    BY <1>4, GoodData DEF ReceiveBRTI, SignForBob
  <2>2. wire'[p] = <<>> \/ wire'[p] = Frame("ATBS", "genuine")
    <3>1. Frame("ATBS", "genuine") \in Seq(Byte)
      BY FrameType, StartTypes
    <3>2. CASE Write(b, Frame("ATBS", "genuine"))
      <4>1. wire'[p] = <<>> \o Frame("ATBS", "genuine")
        BY <1>0, <1>1, <1>4, <1>9, <3>2 DEF Write, TypeOK
      <4>2. QED
        BY <3>1, <4>1, ConcatEmptySeq
    <3>3. QED
      BY <1>4, <1>9, <2>1, <3>2
  <2>3. Framed(p)' /\ Answered(p)'
    BY <1>1, <1>4, <1>6, <1>7, <1>9, <2>2 DEF Framed, Answered
  <2>4. QED
    BY <1>7, <2>3
<1>10. QED
  BY <1>8, <1>9

LEMMA Delivered ==
  ASSUME FramesWhole, FrameInv, [Next]_vars, Undisturbed', NEW b \in Badge, Deliver(b)
  PROVE  Framed(b)' /\ Answered(b)'
<1>0. RoleInv /\ TypeOK
  BY DEF FrameInv, RoleInv
<1>1. Undisturbed /\ FirstAttempts'
  BY <1>0, UndisturbedBefore
<1>2. PICK n \in Arrival(b) :
        /\ rx' = [rx EXCEPT ![b] = @ \o SubSeq(wire[b], 1, n)]
        /\ wire' = [wire EXCEPT ![b] = SubSeq(@, n + 1, Len(@))]
  BY DEF Deliver
<1>3. rx[b] \in Seq(Byte) /\ wire[b] \in Seq(Byte) /\ Len(wire[b]) \in Nat
  BY <1>0, LenProperties DEF TypeOK
<1>4. n \in 1..Len(wire[b]) /\ (n < Len(wire[b]) => wire[b][n + 1].pos = 1)
  BY DEF Arrival, FramesWhole
<1>5. rx'[b] = rx[b] \o SubSeq(wire[b], 1, n) /\ wire'[b] = SubSeq(wire[b], n + 1, Len(wire[b]))
  BY <1>0, <1>2 DEF TypeOK
<1>6. InternalState' = InternalState /\ starts' = starts /\ AIC' = AIC
  BY DEF Deliver
<1>7. wire[b] # <<>>
  BY <1>4
<1>8. Framed(b) /\ Answered(b)
  BY <1>1 DEF FrameInv, FramesInTurn
<1>9. \A x \in Badge : Over(x) => Over(x)'
  BY <1>6 DEF Over
<1>10. CASE Over(b)
  BY <1>6, <1>9, <1>10 DEF Framed, Answered, Over
<1>11. CASE InternalState[b] = "BOB_RECEIVE_ATBS"
  <2>1. rx[b] = <<>> /\ wire[b] = Frame("ATBS", "genuine") /\ Over(Peer(b)) /\ AIC[b] = "genuine"
    BY <1>7, <1>8, <1>11 DEF Answered
  <2>2. Len(wire[b]) = Size("ATBS")
    BY <2>1, FrameLength, StartTypes
  <2>3. n = Len(wire[b])
    <3>1. SUFFICES ASSUME n < Len(wire[b]) PROVE FALSE
      BY <1>3, <1>4
    <3>2. n + 1 \in 1..Size("ATBS") /\ n + 1 # 1
      BY <1>3, <1>4, <2>2, <3>1
    <3>3. wire[b][n + 1] = [kind |-> "ATBS", pos |-> n + 1, over |-> "genuine"]
      BY <2>1, <3>2, FrameType, StartTypes
    <3>4. QED
      BY <1>4, <3>1, <3>2, <3>3
  <2>4. wire'[b] = <<>>
    BY <1>3, <1>5, <2>3, SubSeqEmpty
  <2>5. SubSeq(wire[b], 1, n) = wire[b]
    <3>1. /\ SubSeq(wire[b], 1, n) \in Seq(Byte) /\ Len(SubSeq(wire[b], 1, n)) = n
          /\ \A i \in 1..n : SubSeq(wire[b], 1, n)[i] = wire[b][i]
      <4>1. \A i \in 1..n : wire[b][i] \in Byte
        BY <1>3, <1>4, ElementOfSeq
      <4>2. QED
        BY <1>3, <1>4, <4>1, SubSeqProperties
    <3>2. QED
      BY <1>3, <2>3, <3>1, SeqEqual
  <2>6. rx'[b] = Frame("ATBS", "genuine")
    BY <1>3, <1>5, <2>1, <2>5, ConcatEmptySeq
  <2>7. Over(Peer(b))'
    BY <1>9, <2>1, PeerType
  <2>8. QED
    BY <1>6, <1>11, <2>1, <2>4, <2>6, <2>7 DEF Framed, Answered
<1>12. CASE ~Over(b) /\ InternalState[b] # "BOB_RECEIVE_ATBS"
  <2>1. \A kind : Turn(b, kind) => Turn(b, kind)'
    BY <1>6 DEF Turn, Over
  <2>2. Answered(b)'
    BY <1>6, <1>12 DEF Answered
  <2>3. CASE NoFrame(b)
    <3>1. Tokens(rx'[b]) /\ Tokens(wire'[b])
      BY <1>3, <1>4, <1>5, <2>3, Polled DEF NoFrame
    <3>2. NoFrame(b)'
      BY <3>1 DEF NoFrame, Tokens
    <3>3. QED
      BY <2>2, <3>2 DEF Framed
  <2>4. ASSUME NEW kind \in FrameKind, Carries(b, kind), Turn(b, kind)
        PROVE  Framed(b)'
    <3>1. Tokens(rx[b]) /\ EndsIn(wire[b], kind)
      BY <1>7, <2>4 DEF Carries
    <3>2. \/ Tokens(rx'[b]) /\ EndsIn(wire'[b], kind)
          \/ EndsIn(rx'[b], kind) /\ wire'[b] = <<>>
      BY <1>3, <1>4, <1>5, <3>1, Polled
    <3>3. Carries(b, kind)'
      BY <3>2 DEF Carries, Tokens, EndsIn
    <3>4. QED
      BY <2>1, <2>4, <3>3 DEF Framed
  <2>5. QED
    BY <1>8, <1>12, <2>2, <2>3, <2>4 DEF Framed
<1>13. QED
  BY <1>10, <1>11, <1>12

LEMMA MenuOpened ==
  ASSUME FrameInv, Undisturbed, FirstAttempts', NEW b \in Badge, OpenMenu(b)
  PROVE  Framed(b)' /\ Answered(b)'
<1>0. TypeOK
  BY DEF FrameInv, RoleInv
<1>1. /\ InternalState[b] = "MENU" /\ InternalState'[b] = "NEGOTIATE"
      /\ starts'[b] = starts[b] + 1 /\ rx'[b] = <<>> /\ wire' = wire
      /\ starts'[b] <= 1 /\ starts[b] \in Nat
  BY <1>0, BoundAssumption DEF OpenMenu, TypeOK, FirstAttempts
<1>2. ~Over(b) /\ \A kind : ~Turn(b, kind)
  BY <1>1 DEF Over, Turn
<1>3. Tokens(wire[b])
  BY <1>1, <1>2 DEF FrameInv, FramesInTurn, Framed, NoFrame
<1>4. NoFrame(b)'
  BY <1>1, <1>3, EmptySeq DEF NoFrame, Tokens
<1>5. QED
  BY <1>1, <1>4 DEF Framed, Answered

LEMMA FrameStep ==
  ASSUME FramesWhole, FrameInv, TokensFew, [Next]_vars
  PROVE  FramesInTurn'
<1> SUFFICES ASSUME Undisturbed', NEW x \in Badge PROVE Framed(x)' /\ Answered(x)'
  BY DEF FramesInTurn
<1>0. RoleInv /\ TypeOK
  BY DEF FrameInv, RoleInv
<1>1. Undisturbed /\ FirstAttempts' /\ lost' = lost
  BY <1>0, UndisturbedBefore
<1>2. \A y \in Badge : Framed(y) /\ Answered(y)
  BY <1>1 DEF FrameInv, FramesInTurn
<1>3. \A y \in Badge :
        /\ rx'[y] = rx[y] /\ wire'[y] = wire[y] /\ AIC'[y] = AIC[y]
        /\ InternalState'[y] = InternalState[y] /\ starts'[y] = starts[y]
        => Framed(y)' /\ Answered(y)'
  BY <1>0, <1>1, <1>2, StillFramed
<1>4. CASE UNCHANGED vars
  BY <1>3, <1>4 DEF vars
<1>5. CASE Next
  <2> PICK b \in Badge :
        \/ OpenMenu(b) \/ onRun(b)
        \/ Deliver(b) \/ LoseByte(b)
        \/ PowerCycle(b) \/ PowerFailsBeforeSave(b)
    BY <1>5 DEF Next
  <2> DEFINE p == Peer(b)
  <2>0. p \in Badge /\ p # b /\ x \in {b, p}
    BY PeerType DEF Peer, Badge
  <2>1. ASSUME NEW next, EndRun(b, next)
        PROVE  /\ InternalState'[p] = InternalState[p] /\ starts' = starts
               /\ InternalState'[b] \in {next, "PAIRING_FAILED"}
    BY <1>0, <2>0, <2>1 DEF EndRun, TypeOK
  <2>2. ASSUME NEW token, NegotiateRead(b, token)
        PROVE  rx'[p] = rx[p] /\ AIC' = AIC /\ InternalState[b] = "NEGOTIATE"
    BY <1>0, <2>0, <2>2 DEF NegotiateRead, TypeOK
  <2>3. ASSUME NEW bytes, Write(b, bytes) PROVE wire'[b] = wire[b]
    BY <1>0, <2>0, <2>3 DEF Write, TypeOK
  <2>4. CASE OpenMenu(b)
    <3>1. Framed(b)' /\ Answered(b)'
      BY <1>1, <2>4, MenuOpened
    <3>2. Framed(p)' /\ Answered(p)'
      BY <1>0, <1>3, <2>0, <2>4 DEF OpenMenu, TypeOK
    <3>3. QED
      BY <2>0, <3>1, <3>2
  <2>5. ASSUME NEW kind \in Token, Write(b, Frame(kind, "garbled")),
               NEW token, NegotiateRead(b, token),
               NEW next \in {"NEGOTIATE", "BOB_RECEIVE_AIC"}, EndRun(b, next)
        PROVE  Framed(x)' /\ Answered(x)'
    <3>1. Framed(b)' /\ Answered(b)'
      BY <1>1, <2>1, <2>3, <2>5, NegotiatorReads
    <3>2. Framed(p)' /\ Answered(p)'
      BY <2>1, <2>2, <2>5, PeerHears
    <3>3. QED
      BY <2>0, <3>1, <3>2
  <2>6. CASE Clash(b) \/ BecomeBob(b)
    BY <2>5, <2>6 DEF Clash, BecomeBob, Token
  <2>7. CASE BecomeAlice(b) \/ ResetNegotiation(b) \/ SkipByte(b)
    <3>1. PICK token \in Token \cup {"OTHER"}, next \in {"NEGOTIATE", "ALICE_INIT"} :
            NegotiateRead(b, token) /\ EndRun(b, next) /\ wire' = wire
      BY <2>7 DEF BecomeAlice, ResetNegotiation, SkipByte, Token
    <3>2. Framed(b)' /\ Answered(b)'
      BY <1>1, <2>1, <3>1, NegotiatorReads
    <3>3. Framed(p)' /\ Answered(p)'
      BY <1>3, <2>0, <2>1, <2>2, <3>1
    <3>4. QED
      BY <2>0, <3>2, <3>3
  <2>8. CASE OfferAlice(b)
    <3>1. /\ InternalState[b] = "NEGOTIATE" /\ rx' = rx /\ starts' = starts
          /\ InternalState'[b] \in {"NEGOTIATE", "PAIRING_FAILED"}
          /\ InternalState'[p] = InternalState[p] /\ wire'[b] = wire[b]
      BY <2>1, <2>3, <2>8 DEF OfferAlice
    <3>2. NoFrame(b)'
      BY <1>1, <3>1, NoFrameYet DEF NoFrame, Tokens
    <3>3. Framed(b)' /\ Answered(b)'
      BY <3>1, <3>2 DEF Framed, Answered
    <3>4. Framed(p)' /\ Answered(p)'
      BY <2>8, <3>1, PeerHears DEF OfferAlice, Token
    <3>5. QED
      BY <2>0, <3>3, <3>4
  <2>9. CASE SendAIC(b)
    BY <2>0, <2>9, AICSent
  <2>10. CASE ReceiveAIC(b)
    BY <2>0, <2>10, AICReceived
  <2>11. CASE ReceiveBRTI(b)
    BY <2>0, <2>11, BRTIReceived
  <2>12. CASE ReceiveATBS(b)
    <3>1. PICK next \in {"PAIRING_SUCCESS", "PAIRING_FAILED"} : EndRun(b, next)
      BY <2>12 DEF ReceiveATBS
    <3>2. InternalState[b] = "BOB_RECEIVE_ATBS" /\ rx'[p] = rx[p]
          /\ AIC' = AIC /\ wire' = wire
      BY <1>0, <2>0, <2>12 DEF ReceiveATBS, FrameReady, TypeOK
    <3>3. Framed(b)' /\ Answered(b)'
      BY <1>0, <1>1, <2>1, <3>1, <3>2, AttemptOver
    <3>4. Framed(p)' /\ Answered(p)'
      BY <1>3, <2>0, <2>1, <3>1, <3>2
    <3>5. QED
      BY <2>0, <3>3, <3>4
  <2>13. CASE Wait(b)
    <3>1. EndRun(b, InternalState[b]) /\ AIC' = AIC /\ wire' = wire /\ rx' = rx
          /\ InternalState[b] # "MENU"
      BY <2>13 DEF Wait, WaitsFor
    <3>2. Framed(p)' /\ Answered(p)'
      BY <1>3, <2>0, <2>1, <3>1
    <3>3. CASE InternalState'[b] = InternalState[b]
      BY <1>3, <2>0, <2>1, <3>1, <3>2, <3>3
    <3>4. CASE InternalState'[b] = "PAIRING_FAILED"
      <4>1. Framed(b)' /\ Answered(b)'
        BY <1>0, <1>1, <3>1, <3>4, AttemptOver
      <4>2. QED
        BY <2>0, <3>2, <4>1
    <3>5. QED
      BY <2>1, <3>1, <3>3, <3>4
  <2>14. CASE ShowResult(b)
    <3>1. InternalState'[b] = "MENU" /\ InternalState[b] # "MENU"
          /\ InternalState'[p] = InternalState[p]
          /\ AIC' = AIC /\ wire' = wire /\ rx' = rx /\ starts' = starts
      BY <1>0, <2>0, <2>14 DEF ShowResult, TypeOK
    <3>2. Framed(b)' /\ Answered(b)'
      BY <1>0, <1>1, <3>1, AttemptOver
    <3>3. Framed(p)' /\ Answered(p)'
      BY <1>3, <2>0, <3>1
    <3>4. QED
      BY <2>0, <3>2, <3>3
  <2>15. CASE Deliver(b)
    <3>1. Framed(b)' /\ Answered(b)'
      BY <2>15, Delivered
    <3>2. Framed(p)' /\ Answered(p)'
      BY <1>0, <1>3, <2>0, <2>15 DEF Deliver, TypeOK
    <3>3. QED
      BY <2>0, <3>1, <3>2
  <2>16. CASE LoseByte(b)
    BY <1>0, <1>1, <2>16, BoundAssumption DEF LoseByte, TypeOK
  <2>17. CASE PowerCycle(b) \/ PowerFailsBeforeSave(b)
    BY <2>17 DEF PowerCycle, PowerFailsBeforeSave, FramesWhole
  <2>18. QED
    BY <2>4, <2>6, <2>7, <2>8, <2>9, <2>10, <2>11, <2>12, <2>13, <2>14, <2>15,
       <2>16, <2>17 DEF onRun
<1>6. QED
  BY <1>4, <1>5

LEMMA GenuineStep ==
  ASSUME FrameInv, TokensFew, [Next]_vars
  PROVE  ContactsGenuine'
<1> SUFFICES ASSUME Undisturbed', NEW x \in Badge, NEW c \in contacts'[x]
             PROVE  c.data = "genuine" /\ c.sig = "genuine"
  BY DEF ContactsGenuine
<1>0. RoleInv /\ TypeOK
  BY DEF FrameInv, RoleInv
<1>1. Undisturbed
  BY <1>0, UndisturbedBefore
<1>2. CASE c \in contacts[x]
  BY <1>1, <1>2 DEF FrameInv, ContactsGenuine
<1>3. CASE ReceiveBRTI(x) /\ c = BobInBRTI(x)
  <2>1. rx[x] = Frame("BRTI", "genuine")
    BY <1>1, <1>3, BRTIFound DEF ReceiveBRTI, FrameReady
  <2>2. QED
    BY <1>3, <2>1, GoodData DEF BobInBRTI
<1>4. CASE ReceiveATBS(x) /\ c = AliceInATBS(x)
  <2>1. InternalState[x] = "BOB_RECEIVE_ATBS" /\ Len(rx[x]) = Size("ATBS")
    BY <1>4 DEF ReceiveATBS, FrameReady
  <2>2. Size("ATBS") \in Nat \ {0}
    BY SizeType, StartTypes
  <2>3. rx[x] # <<>>
    BY <2>1, <2>2, EmptySeq
  <2>4. rx[x] = Frame("ATBS", "genuine") /\ AIC[x] = "genuine"
    BY <1>1, <2>1, <2>3 DEF FrameInv, FramesInTurn, Answered
  <2>5. QED
    BY <1>4, <2>4, GoodData DEF AliceInATBS
<1>5. QED
  BY <1>0, <1>2, <1>3, <1>4, AddedContact

LEMMA FrameInvariant == FramesWhole /\ Spec /\ []TokensFew => []FrameInv
<1>1. Init => FrameInv
  <2> SUFFICES ASSUME Init PROVE FrameInv
    OBVIOUS
  <2>1. TypeOK
    BY InitInv DEF IInv
  <2>2. \A b \in Badge : <<>> \in Seq(Timely(b)) /\ Tokens(<<>>)
    BY EmptySeq DEF Tokens
  <2>3. RoleInv
    BY <2>1, <2>2 DEF Init, RoleInv, Opened, OneAlice
  <2>4. \A b \in Badge : Framed(b) /\ Answered(b)
    BY <2>2 DEF Init, Framed, Answered, NoFrame
  <2>5. QED
    BY <2>3, <2>4 DEF Init, FrameInv, FramesInTurn, ContactsGenuine
<1>2. FramesWhole /\ FrameInv /\ TokensFew /\ [Next]_vars => FrameInv'
  BY RoleStep, FrameStep, GenuineStep DEF FrameInv
<1> SUFFICES ASSUME FramesWhole PROVE Spec /\ []TokensFew => []FrameInv
  OBVIOUS
<1>3. FrameInv /\ TokensFew /\ [Next]_vars => FrameInv'
  BY <1>2
<1>4. QED
  BY <1>1, <1>3, PTL DEF Spec

\* Frames are recognised by the number of bytes alone, and still an attempt
\* that loses no byte stores only the peer as it is: with flash and signatures
\* failing as they like, as long as frames come whole and fewer tokens than
\* AIC has bytes are ever unread.
THEOREM OnlyGenuineContacts == FramesWhole /\ Spec /\ []TokensFew => []ContactsGenuine
<1>1. FrameInv => ContactsGenuine
  BY DEF FrameInv
<1>2. QED
  BY <1>1, FrameInvariant, PTL

-----------------------------------------------------------------------------
(* A token in front of AIC. *)

LEMMA LeftoverStep ==
  ASSUME FramesWhole, FrameInv, TokensFew, [Next]_vars, Undisturbed
  PROVE  \A b \in Badge : LeftoverStays(b)
<1> SUFFICES ASSUME NEW x \in Badge, InternalState[x] = "BOB_RECEIVE_AIC",
                    rx[x] # <<>>, Head(rx[x]).kind \in Token
             PROVE  /\ InternalState'[x] \in {"BOB_RECEIVE_AIC", "PAIRING_FAILED"}
                    /\ contacts'[x] = contacts[x]
  BY DEF LeftoverStays
<1>0. RoleInv /\ TypeOK
  BY DEF FrameInv, RoleInv
<1>1. Framed(x) /\ ~Over(x)
  BY DEF FrameInv, FramesInTurn, Over
<1>2. Size("AIC") \in Nat \ {0}
  BY SizeType, StartTypes
<1>3. Len(rx[x]) # Size("AIC")
  <2> SUFFICES ASSUME Len(rx[x]) = Size("AIC") PROVE FALSE
    OBVIOUS
  <2>1. rx[x] = Frame("AIC", "genuine")
    BY <1>0, <1>1, GoodFrame
  <2>2. rx[x][1] = [kind |-> "AIC", pos |-> 1, over |-> "genuine"]
    BY <1>2, <2>1 DEF Frame
  <2>3. Head(rx[x]) = rx[x][1]
    BY <1>0 DEF TypeOK
  <2>4. QED
    BY <2>2, <2>3 DEF Token
<1>4. contacts'[x] = contacts[x]
  <2>1. contacts[x] \subseteq contacts'[x]
    BY <1>0, ContactsGrow
  <2>2. \A c \in contacts'[x] : c \in contacts[x]
    BY <1>0, AddedContact DEF ReceiveBRTI, ReceiveATBS, FrameReady
  <2>3. QED
    BY <2>1, <2>2
<1>5. InternalState'[x] \in {"BOB_RECEIVE_AIC", "PAIRING_FAILED"}
  <2>1. CASE InternalState'[x] = InternalState[x]
    BY <2>1
  <2>2. CASE InternalState'[x] # InternalState[x]
    <3>1. PICK b \in Badge :
            \/ OpenMenu(b) \/ onRun(b)
            \/ Deliver(b) \/ LoseByte(b)
            \/ PowerCycle(b) \/ PowerFailsBeforeSave(b)
      BY <2>2 DEF Next, vars
    <3>2. OpenMenu(b) \/ onRun(b)
      BY <2>2, <3>1 DEF Deliver, LoseByte, PowerCycle, PowerFailsBeforeSave, FramesWhole
    <3>3. b = x
      BY <1>0, <2>2, <3>2 DEF TypeOK, OpenMenu, onRun, Clash, BecomeBob, BecomeAlice,
         ResetNegotiation, SkipByte, OfferAlice, SendAIC, ReceiveAIC, ReceiveBRTI,
         ReceiveATBS, Wait, ShowResult, EndRun
    <3>4. ReceiveAIC(b) \/ Wait(b)
      BY <3>2, <3>3 DEF OpenMenu, onRun, Clash, BecomeBob, BecomeAlice,
         ResetNegotiation, SkipByte, OfferAlice, NegotiateRead, SendAIC, ReceiveBRTI,
         ReceiveATBS, FrameReady, ShowResult
    <3>5. Wait(x)
      BY <1>3, <3>3, <3>4 DEF ReceiveAIC, FrameReady
    <3>6. QED
      BY <1>0, <3>5 DEF Wait, EndRun, TypeOK
  <2>3. QED
    BY <2>1, <2>2
<1>6. QED
  BY <1>4, <1>5

\* In an undisturbed attempt a Bob with a token in front of AIC never gets out
\* of waiting but by the run limit: LeftoverDooms for first attempts, for
\* every frame size and run limit.
THEOREM FirstLeftoverDooms ==
  FramesWhole /\ Spec /\ []TokensFew
    => [][Undisturbed => \A b \in Badge : LeftoverStays(b)]_vars
<1>1. FramesWhole /\ FrameInv /\ TokensFew /\ [Next]_vars
        => [Undisturbed => \A b \in Badge : LeftoverStays(b)]_vars
  BY LeftoverStep
<1> SUFFICES ASSUME FramesWhole
             PROVE  Spec /\ []TokensFew
                      => [][Undisturbed => \A b \in Badge : LeftoverStays(b)]_vars
  OBVIOUS
<1>2. FrameInv /\ TokensFew /\ [Next]_vars
        => [Undisturbed => \A b \in Badge : LeftoverStays(b)]_vars
  BY <1>1
<1>3. QED
  BY <1>2, FrameInvariant, PTL DEF Spec
=============================================================================

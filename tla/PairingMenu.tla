---------------------------- MODULE PairingMenu ----------------------------
(***************************************************************************)
(* Two badges pair over a serial cable (menus/pairing_menu.cpp).  Each     *)
(* badge runs PairingMenu::onRun once per turn of its application loop; a  *)
(* byte written by one badge is first on the wire and later in the receive *)
(* buffer of the other.  onRun negotiates who is Alice and who is Bob with *)
(* one-byte tokens, then three frames cross:                               *)
(*     AIC  (Alice -> Bob)   Alice's key, id and name                      *)
(*     BRTI (Bob -> Alice)   Bob's key, id and name, signature over AIC    *)
(*     ATBS (Alice -> Bob)   signature over Bob's data                     *)
(* A frame is recognised by the NUMBER of buffered bytes alone.            *)
(***************************************************************************)
EXTENDS Naturals, Sequences

CONSTANTS
  L, R,       \* the two badges at the ends of the cable
  AICSize,    \* sizeof(AliceInitConvo), 85 in the firmware
  ATBSSize,   \* sizeof(AliceToBobSignature), 64
  MaxRuns,    \* the literal 250 that bounds timesRunCalledSinceReset
  MaxStarts,  \* bound: times the user of a badge opens the pairing menu
  MaxLoss,    \* bound: bytes the cable loses
  Faults      \* what may go wrong, a subset of FaultKinds

FaultKinds ==
  {"loss",     \* the cable loses a byte
   "partial",  \* a poll may find only a part of a frame received
   "power",    \* a badge is switched off and on
   "flash",    \* NVS refuses to store a contact
   "sign"}     \* the crypto chip fails to sign

ASSUME BadgeAssumption == L # R
ASSUME SizeAssumption ==
  /\ AICSize \in Nat \ {0}
  /\ ATBSSize \in Nat \ {0}
ASSUME BoundAssumption ==
  /\ MaxRuns \in Nat
  /\ MaxStarts \in Nat
  /\ MaxLoss \in Nat
ASSUME FaultAssumption == Faults \subseteq FaultKinds

Badge == {L, R}
Peer(b) == IF b = L THEN R ELSE L

Token == {"ALICE_CONFIRM", "BOB_CONFIRM", "RESET_NEG"}
FrameKind == {"AIC", "BRTI", "ATBS"}
BRTISize == AICSize + ATBSSize

Size(kind) == CASE kind = "AIC"  -> AICSize
                [] kind = "ATBS" -> ATBSSize
                [] kind = "BRTI" -> BRTISize
                [] OTHER         -> 1

\* What a receiver can tell of the data in a frame or in a signature:
\* the peer's own, or a shifted mixture of other bytes.
Content == {"genuine", "garbled"}

\* A byte: the token or frame it belongs to, its place there, and what the
\* signature in that frame signs.
Byte == [kind : Token \cup FrameKind, pos : Nat, over : Content]

Frame(kind, over) ==
  [i \in 1..Size(kind) |-> [kind |-> kind, pos |-> i, over |-> over]]

\* A contact in flash: the role of its owner when it was saved, the
\* identity in it and what its pairing signature signs.
Contact == [as : {"Alice", "Bob"}, data : Content, sig : Content]

State == {"MENU", "NEGOTIATE", "ALICE_INIT", "BOB_RECEIVE_AIC",
          "ALICE_RECEIVE_BRTI", "BOB_RECEIVE_ATBS",
          "PAIRING_SUCCESS", "PAIRING_FAILED"}

VARIABLES
  InternalState,  \* the state of each badge, "MENU" when it is not pairing
  tempAlice,      \* the badge has sent ALICE_CONFIRM and waits
  runs,           \* timesRunCalledSinceReset
  AIC,            \* what Bob holds as Alice's data
  wire,           \* bytes on their way to the badge
  rx,             \* bytes in the badge's receive buffer
  contacts,       \* contacts in the badge's flash
  starts,         \* times the pairing menu was opened
  lost            \* bytes lost by the cable

vars == <<InternalState, tempAlice, runs, AIC, wire, rx, contacts, starts, lost>>

TypeOK ==
  /\ InternalState \in [Badge -> State]
  /\ tempAlice \in [Badge -> BOOLEAN]
  /\ runs \in [Badge -> Nat]
  /\ AIC \in [Badge -> Content]
  /\ wire \in [Badge -> Seq(Byte)]
  /\ rx \in [Badge -> Seq(Byte)]
  /\ contacts \in [Badge -> SUBSET Contact]
  /\ starts \in [Badge -> 0..MaxStarts]
  /\ lost \in 0..MaxLoss

Init ==
  /\ InternalState = [b \in Badge |-> "MENU"]
  /\ tempAlice = [b \in Badge |-> FALSE]
  /\ runs = [b \in Badge |-> 0]
  /\ AIC = [b \in Badge |-> "garbled"]
  /\ wire = [b \in Badge |-> <<>>]
  /\ rx = [b \in Badge |-> <<>>]
  /\ contacts = [b \in Badge |-> {}]
  /\ starts = [b \in Badge |-> 0]
  /\ lost = 0

-----------------------------------------------------------------------------
(* The user opens the menu: onInit. *)

OpenMenu(b) ==
  /\ InternalState[b] = "MENU"
  /\ starts[b] < MaxStarts
  /\ starts' = [starts EXCEPT ![b] = @ + 1]
  /\ InternalState' = [InternalState EXCEPT ![b] = "NEGOTIATE"]
  /\ rx' = [rx EXCEPT ![b] = <<>>]
  /\ tempAlice' = [tempAlice EXCEPT ![b] = FALSE]
  /\ runs' = [runs EXCEPT ![b] = 0]
  /\ AIC' = [AIC EXCEPT ![b] = "garbled"]
  /\ UNCHANGED <<wire, contacts, lost>>

-----------------------------------------------------------------------------
(* onRun.  Every branch ends in EndRun: the time check of the branch wins   *)
(* over the state the branch has just chosen, then the run is counted.      *)

EndRun(b, next) ==
  /\ InternalState' = [InternalState EXCEPT
                         ![b] = IF runs[b] > MaxRuns THEN "PAIRING_FAILED" ELSE next]
  /\ runs' = [runs EXCEPT ![b] = @ + 1]
  /\ UNCHANGED <<starts, lost>>

Write(b, bytes) == wire' = [wire EXCEPT ![Peer(b)] = @ \o bytes]

\* The values a byte can have when it is read as a token: a byte of a frame
\* (a key, an id, a signature) may happen to equal any of them.
ReadAsToken(byte) ==
  IF byte.kind \in Token THEN {byte.kind} ELSE Token \cup {"OTHER"}

NegotiateRead(b, token) ==
  /\ InternalState[b] = "NEGOTIATE"
  /\ rx[b] # <<>>
  /\ token \in ReadAsToken(Head(rx[b]))
  /\ rx' = [rx EXCEPT ![b] = Tail(@)]
  /\ UNCHANGED <<AIC, contacts>>

\* ALICE_CONFIRM crossed my own: both give up and say so.
Clash(b) ==
  /\ NegotiateRead(b, "ALICE_CONFIRM")
  /\ tempAlice[b]
  /\ tempAlice' = [tempAlice EXCEPT ![b] = FALSE]
  /\ Write(b, Frame("RESET_NEG", "garbled"))
  /\ EndRun(b, "NEGOTIATE")

\* Wrong variant: Bob confirms and goes on negotiating.
BecomeBobStays(b) ==
  /\ NegotiateRead(b, "ALICE_CONFIRM")
  /\ ~tempAlice[b]
  /\ Write(b, Frame("BOB_CONFIRM", "garbled"))
  /\ EndRun(b, "NEGOTIATE")
  /\ UNCHANGED tempAlice

BecomeBob(b) ==
  /\ NegotiateRead(b, "ALICE_CONFIRM")
  /\ ~tempAlice[b]
  /\ Write(b, Frame("BOB_CONFIRM", "garbled"))
  /\ EndRun(b, "BOB_RECEIVE_AIC")
  /\ UNCHANGED tempAlice

BecomeAlice(b) ==
  /\ NegotiateRead(b, "BOB_CONFIRM")
  /\ EndRun(b, "ALICE_INIT")
  /\ UNCHANGED <<tempAlice, wire>>

ResetNegotiation(b) ==
  /\ NegotiateRead(b, "RESET_NEG")
  /\ tempAlice' = [tempAlice EXCEPT ![b] = FALSE]
  /\ EndRun(b, "NEGOTIATE")
  /\ UNCHANGED wire

SkipByte(b) ==
  /\ NegotiateRead(b, "OTHER")
  /\ EndRun(b, "NEGOTIATE")
  /\ UNCHANGED <<tempAlice, wire>>

\* 20 ms without a byte: the first time, offer to be Alice.
OfferAlice(b) ==
  /\ InternalState[b] = "NEGOTIATE"
  /\ rx[b] = <<>>
  /\ ~tempAlice[b]
  /\ Write(b, Frame("ALICE_CONFIRM", "garbled"))
  /\ tempAlice' = [tempAlice EXCEPT ![b] = TRUE]
  /\ EndRun(b, "NEGOTIATE")
  /\ UNCHANGED <<AIC, rx, contacts>>

\* The state with no time check.
SendAIC(b) ==
  /\ InternalState[b] = "ALICE_INIT"
  /\ Write(b, Frame("AIC", "genuine"))
  /\ InternalState' = [InternalState EXCEPT ![b] = "ALICE_RECEIVE_BRTI"]
  /\ runs' = [runs EXCEPT ![b] = @ + 1]
  /\ UNCHANGED <<tempAlice, AIC, rx, contacts, starts, lost>>

-----------------------------------------------------------------------------
(* Receiving a frame: exactly its size is buffered, and all of it is read.  *)

\* Wrong variant: at least the frame's size is buffered.
FrameReadyOrMore(b, state, kind) ==
  /\ InternalState[b] = state
  /\ Len(rx[b]) >= Size(kind)
  /\ rx' = [rx EXCEPT ![b] = SubSeq(@, Size(kind) + 1, Len(@))]

FrameReady(b, state, kind) ==
  /\ InternalState[b] = state
  /\ Len(rx[b]) = Size(kind)
  /\ rx' = [rx EXCEPT ![b] = <<>>]

\* What the bytes hold for a receiver that takes them for a frame of a kind.
DataIn(bytes, kind) ==
  IF \E over \in Content : bytes = Frame(kind, over) THEN "genuine" ELSE "garbled"

SignatureIn(bytes, kind) ==
  IF bytes = Frame(kind, "genuine") THEN "genuine" ELSE "garbled"

\* ContactStore::addContact; a failure may leave the contact itself stored.
AddContact(b, contact, saved) ==
  /\ saved \/ "flash" \in Faults \/ contact.data = "garbled"
  /\ \/ contacts' = [contacts EXCEPT ![b] = @ \cup {contact}]
     \/ ~saved /\ contacts' = contacts

\* MyInfo::sign: the chip may refuse the digest or the signature.
SignFails == "sign" \in Faults

\* Wrong variant: Bob answers without keeping Alice's data.
ReceiveAICForgets(b) ==
  /\ FrameReady(b, "BOB_RECEIVE_AIC", "AIC")
  /\ Write(b, Frame("BRTI", DataIn(rx[b], "AIC")))
  /\ EndRun(b, "BOB_RECEIVE_ATBS")
  /\ UNCHANGED <<tempAlice, AIC, contacts>>

ReceiveAIC(b) ==
  /\ FrameReady(b, "BOB_RECEIVE_AIC", "AIC")
  /\ AIC' = [AIC EXCEPT ![b] = DataIn(rx[b], "AIC")]
  /\ \/ /\ Write(b, Frame("BRTI", DataIn(rx[b], "AIC")))
        /\ EndRun(b, "BOB_RECEIVE_ATBS")
     \/ /\ SignFails
        /\ EndRun(b, "PAIRING_FAILED")
        /\ UNCHANGED wire
  /\ UNCHANGED <<tempAlice, contacts>>

BobInBRTI(b) ==
  [as |-> "Alice", data |-> DataIn(rx[b], "BRTI"), sig |-> SignatureIn(rx[b], "BRTI")]

\* Alice answers and saves Bob; if signing fails nothing is sent, and Bob
\* is saved all the same.
SignForBob(b) ==
  \/ Write(b, Frame("ATBS", DataIn(rx[b], "BRTI")))
  \/ SignFails /\ UNCHANGED wire

\* Wrong variant: the time is looked at between answering and saving.
ReceiveBRTITimedEarly(b) ==
  /\ FrameReady(b, "ALICE_RECEIVE_BRTI", "BRTI")
  /\ SignForBob(b)
  /\ \E saved \in BOOLEAN :
       /\ IF runs[b] > MaxRuns THEN contacts' = contacts
                               ELSE AddContact(b, BobInBRTI(b), saved)
       /\ EndRun(b, IF saved THEN "PAIRING_SUCCESS" ELSE "PAIRING_FAILED")
  /\ UNCHANGED <<tempAlice, AIC>>

ReceiveBRTI(b) ==
  /\ FrameReady(b, "ALICE_RECEIVE_BRTI", "BRTI")
  /\ SignForBob(b)
  /\ \E saved \in BOOLEAN :
       /\ AddContact(b, BobInBRTI(b), saved)
       /\ EndRun(b, IF saved THEN "PAIRING_SUCCESS" ELSE "PAIRING_FAILED")
  /\ UNCHANGED <<tempAlice, AIC>>

AliceInATBS(b) ==
  [as |-> "Bob", data |-> AIC[b], sig |-> SignatureIn(rx[b], "ATBS")]

ReceiveATBS(b) ==
  /\ FrameReady(b, "BOB_RECEIVE_ATBS", "ATBS")
  /\ \E saved \in BOOLEAN :
       /\ AddContact(b, AliceInATBS(b), saved)
       /\ EndRun(b, IF saved THEN "PAIRING_SUCCESS" ELSE "PAIRING_FAILED")
  /\ UNCHANGED <<tempAlice, AIC, wire>>

-----------------------------------------------------------------------------
(* A run that finds nothing to do, and the end of pairing. *)

WaitsFor(b, state, kind) ==
  InternalState[b] = state /\ Len(rx[b]) # Size(kind)

\* Wrong variant: only runs that do something are counted.
WaitUncounted(b) ==
  /\ \/ InternalState[b] = "NEGOTIATE" /\ rx[b] = <<>> /\ tempAlice[b]
     \/ WaitsFor(b, "BOB_RECEIVE_AIC", "AIC")
     \/ WaitsFor(b, "ALICE_RECEIVE_BRTI", "BRTI")
     \/ WaitsFor(b, "BOB_RECEIVE_ATBS", "ATBS")
  /\ UNCHANGED vars

Wait(b) ==
  /\ \/ InternalState[b] = "NEGOTIATE" /\ rx[b] = <<>> /\ tempAlice[b]
     \/ WaitsFor(b, "BOB_RECEIVE_AIC", "AIC")
     \/ WaitsFor(b, "ALICE_RECEIVE_BRTI", "BRTI")
     \/ WaitsFor(b, "BOB_RECEIVE_ATBS", "ATBS")
  /\ EndRun(b, InternalState[b])
  /\ UNCHANGED <<tempAlice, AIC, wire, rx, contacts>>

\* The result is displayed, then the main menu comes back.
ShowResult(b) ==
  /\ InternalState[b] \in {"PAIRING_SUCCESS", "PAIRING_FAILED"}
  /\ InternalState' = [InternalState EXCEPT ![b] = "MENU"]
  /\ runs' = [runs EXCEPT ![b] = @ + 1]
  /\ UNCHANGED <<tempAlice, AIC, wire, rx, contacts, starts, lost>>

onRun(b) ==
  \/ Clash(b) \/ BecomeBob(b) \/ BecomeAlice(b) \/ ResetNegotiation(b)
  \/ SkipByte(b) \/ OfferAlice(b)
  \/ SendAIC(b) \/ ReceiveAIC(b) \/ ReceiveBRTI(b) \/ ReceiveATBS(b)
  \/ Wait(b) \/ ShowResult(b)

-----------------------------------------------------------------------------
(* The cable and the power switch. *)

\* Bytes reach the receive buffer in order; unless a poll may see a part of
\* a frame, up to the end of a frame.
Arrival(b) ==
  {n \in 1..Len(wire[b]) :
     "partial" \in Faults \/ (n < Len(wire[b]) => wire[b][n + 1].pos = 1)}

Deliver(b) ==
  /\ \E n \in Arrival(b) :
       /\ rx' = [rx EXCEPT ![b] = @ \o SubSeq(wire[b], 1, n)]
       /\ wire' = [wire EXCEPT ![b] = SubSeq(@, n + 1, Len(@))]
  /\ UNCHANGED <<InternalState, tempAlice, runs, AIC, contacts, starts, lost>>

LoseByte(b) ==
  /\ "loss" \in Faults
  /\ wire[b] # <<>>
  /\ lost < MaxLoss
  /\ lost' = lost + 1
  /\ wire' = [wire EXCEPT ![b] = Tail(@)]
  /\ UNCHANGED <<InternalState, tempAlice, runs, AIC, rx, contacts, starts>>

\* RAM and the bytes still in the transmit buffer are gone, flash is not.
Restarted(b) ==
  /\ InternalState' = [InternalState EXCEPT ![b] = "MENU"]
  /\ tempAlice' = [tempAlice EXCEPT ![b] = FALSE]
  /\ runs' = [runs EXCEPT ![b] = 0]
  /\ AIC' = [AIC EXCEPT ![b] = "garbled"]
  /\ rx' = [rx EXCEPT ![b] = <<>>]
  /\ UNCHANGED <<contacts, starts, lost>>

PowerCycle(b) ==
  /\ "power" \in Faults
  /\ InternalState[b] # "MENU"
  /\ \E n \in 0..Len(wire[Peer(b)]) :
       wire' = [wire EXCEPT ![Peer(b)] = SubSeq(@, 1, n)]
  /\ Restarted(b)

\* Power fails inside the run that received BRTI: ATBS is written, Bob is
\* not yet saved.
PowerFailsBeforeSave(b) ==
  /\ "power" \in Faults
  /\ InternalState[b] = "ALICE_RECEIVE_BRTI"
  /\ Len(rx[b]) = Size("BRTI")
  /\ SignForBob(b)
  /\ Restarted(b)

Next ==
  \E b \in Badge :
    \/ OpenMenu(b) \/ onRun(b)
    \/ Deliver(b) \/ LoseByte(b)
    \/ PowerCycle(b) \/ PowerFailsBeforeSave(b)

Spec == Init /\ [][Next]_vars

\* The application loop keeps calling onRun, the UART keeps moving bytes;
\* no user has to open the menu.
FairSpec ==
  /\ Spec
  /\ \A b \in Badge : WF_vars(onRun(b)) /\ WF_vars(Deliver(b))
-----------------------------------------------------------------------------
(* What pairing promises. *)

\* The attempt of a badge as the user sees it: outside the menu, pairing,
\* or looking at the result.
Phase ==
  [b \in Badge |->
     CASE InternalState[b] = "MENU" -> "out"
       [] InternalState[b] \in {"PAIRING_SUCCESS", "PAIRING_FAILED"} -> "done"
       [] OTHER -> "in"]

Exchange == INSTANCE ContactExchange WITH phase <- Phase, known <- contacts

\* As long as no badge loses power or fails to write its flash, the two
\* onRun state machines do what ContactExchange says: one contact at most per
\* attempt, and never a Bob with Alice's signature whom Alice has not stored.
ImplementsExchange == Exchange!Spec

\* Alice's part of onRun sends ATBS before it saves Bob, yet no Bob who holds
\* her signature over his data is ever unknown to her (pairing_menu.cpp:181,
\* 192 and 222 in two different badges).
BobSavesAfterAlice ==
  \A b \in Badge : \A c \in contacts[b] :
    c.as = "Bob" /\ c.sig = "genuine"
      => \E d \in contacts[Peer(b)] : d.as = "Alice" /\ d.data = "genuine"

\* No badge is pairing a second time.
FirstAttempts == \A b \in Badge : starts[b] <= 1

\* No byte was lost either.
Undisturbed == lost = 0 /\ FirstAttempts

\* Frames are told apart by the number of bytes buffered, and still every
\* contact an undisturbed attempt stores is the peer as it is, with a signature
\* over the owner's own data.  (In a second attempt bytes of the first may be
\* taken for a token, and a frame that is one byte off may fit.)
ContactsGenuine ==
  Undisturbed => \A b \in Badge : \A c \in contacts[b] : c.data = "genuine" /\ c.sig = "genuine"

\* Crossing offers, resets and late confirmations never leave both badges
\* acting as Alice.  (A badge that starts over may take a byte of the peer's
\* AIC for BOB_CONFIRM, while the peer is still Alice.)
NotBothAlice ==
  FirstAttempts => \E b \in Badge : InternalState[b] \notin {"ALICE_INIT", "ALICE_RECEIVE_BRTI"}

\* The run count of an attempt stays within a few runs of the limit, though
\* ALICE_INIT, PAIRING_SUCCESS and PAIRING_FAILED do not look at it.
RunsLimit(state) ==
  CASE state = "MENU"                        -> MaxRuns + 4
    [] state \in {"NEGOTIATE", "ALICE_INIT"} -> MaxRuns + 1
    [] state = "PAIRING_FAILED"              -> MaxRuns + 3
    [] state = "PAIRING_SUCCESS"             -> MaxRuns + 1
    [] OTHER                                 -> MaxRuns + 2

RunsBounded == \A b \in Badge : runs[b] <= RunsLimit(InternalState[b])

\* A token left over in front of AIC dooms Bob's attempt: the count never
\* fits, so he waits until his time is up and stores nothing.
LeftoverStays(b) ==
  /\ InternalState[b] = "BOB_RECEIVE_AIC"
  /\ rx[b] # <<>>
  /\ Head(rx[b]).kind \in Token
  => /\ InternalState'[b] \in {"BOB_RECEIVE_AIC", "PAIRING_FAILED"}
     /\ contacts'[b] = contacts[b]

LeftoverDooms == [][lost = 0 => \A b \in Badge : LeftoverStays(b)]_vars

\* However the two badges, the cable and the power switch interleave, an
\* attempt comes back to the menu.
AttemptEnds ==
  \A b \in Badge : InternalState[b] # "MENU" ~> InternalState[b] = "MENU"
=============================================================================

-------------------------- MODULE ContactExchange --------------------------
(***************************************************************************)
(* What pairing two badges is for, without tokens, frames or time: each    *)
(* attempt stores at most one contact, only while it is running, and a     *)
(* badge that holds the other's signature as Bob is already known to that  *)
(* other as Alice's contact.  Contacts are never taken back.               *)
(***************************************************************************)
CONSTANTS L, R   \* the two badges

Badge == {L, R}
Peer(b) == IF b = L THEN R ELSE L

Content == {"genuine", "garbled"}
Contact == [as : {"Alice", "Bob"}, data : Content, sig : Content]

VARIABLES
  phase,   \* "out" of pairing, pairing ("in"), or with a result ("done")
  known    \* the contacts each badge has stored

Init ==
  /\ phase = [b \in Badge |-> "out"]
  /\ known = [b \in Badge |-> {}]

Open(b) ==
  /\ phase[b] = "out"
  /\ phase' = [phase EXCEPT ![b] = "in"]
  /\ UNCHANGED known

KnownAsBob(b) == \E d \in known[b] : d.as = "Alice" /\ d.data = "genuine"

Store(b, c) ==
  /\ phase[b] = "in"
  /\ c.as = "Bob" /\ c.sig = "genuine" => KnownAsBob(Peer(b))
  /\ known' = [known EXCEPT ![b] = @ \cup {c}]
  /\ phase' = [phase EXCEPT ![b] = "done"]

GiveUp(b) ==
  /\ phase[b] = "in"
  /\ phase' = [phase EXCEPT ![b] = "done"]
  /\ UNCHANGED known

Leave(b) ==
  /\ phase[b] = "done"
  /\ phase' = [phase EXCEPT ![b] = "out"]
  /\ UNCHANGED known

Next ==
  \E b \in Badge :
    \/ Open(b) \/ GiveUp(b) \/ Leave(b)
    \/ \E c \in Contact : Store(b, c)

Spec == Init /\ [][Next]_<<phase, known>>
=============================================================================

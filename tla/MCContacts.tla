------------------------------ MODULE MCContacts ------------------------------
(* Three badges to pair with; the ids of two of them begin alike. *)
EXTENDS ContactStore
CONSTANTS p1, p2, p3, k1, k2

MCPeers == {p1, p2, p3}
MCKeys == {k1, k2}
MCKeyOf == [p \in MCPeers |-> IF p = p3 THEN k2 ELSE k1]

FlashAndPower == {"flash", "power"}
AllEvents == EventKinds
=============================================================================

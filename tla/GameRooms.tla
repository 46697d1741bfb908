----------------------------- MODULE GameRooms -----------------------------
(***************************************************************************)
(* Three games of the game task that share nothing but the task, which     *)
(* carries each command out before it takes the next.  A behaviour plays   *)
(* one of them: Games names those a client may choose.                     *)
(***************************************************************************)
EXTENDS TTT3D, Exploitable, Brainfuzz

CONSTANTS
  Games,        \* those a client may choose: "ttt3d", "exploitable", "brainfuzz"
  AnotherAfter  \* bound: the programs after which another one is tried

VARIABLE game

roomVars == <<game, vars, expVars, bfVars>>

RoomsInit == game \in Games /\ Init /\ EXPinit /\ BFInit

PlayTTT3D == game = "ttt3d" /\ Next /\ UNCHANGED <<game, expVars, bfVars>>
Exploit == game = "exploitable" /\ ExpNext /\ UNCHANGED <<game, vars, bfVars>>
Interpret == game = "brainfuzz" /\ BFrun /\ UNCHANGED <<game, vars, expVars>>
Cast ==
  /\ game = "brainfuzz"
  /\ spell \in {<<>>} \cup AnotherAfter
  /\ \E data \in Spells : BFcommandHandler(data)
  /\ UNCHANGED <<game, vars, expVars>>

RoomsNext == PlayTTT3D \/ Exploit \/ Interpret \/ Cast

\* The interpreter runs; nobody has to send anything.
RoomsSpec == RoomsInit /\ [][RoomsNext]_roomVars /\ WF_roomVars(Interpret)

RoomsTypeOK == game \in Games /\ TypeOK /\ ExpTypeOK /\ BFTypeOK
=============================================================================

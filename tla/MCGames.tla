------------------------------- MODULE MCGames -------------------------------
(* A command for the game master, which answers "Game Locked", one that an     *)
(* unlocked game answers with a string of two indications and a short one, and *)
(* a brainfuzz program that answers "The wheels WHIR into motion" and loops.   *)
EXTENDS BleService
CONSTANTS menu, hello, spin

MCCommand == {menu, hello, spin}
MCGameOf == [c \in MCCommand |-> CASE c = menu -> 0 [] c = hello -> 3 [] c = spin -> 2]
MCReplies == [c \in MCCommand |-> CASE c = menu -> <<>> [] c = hello -> <<26, 11>> [] c = spin -> <<28>>]
MCEndless == {spin}
=============================================================================

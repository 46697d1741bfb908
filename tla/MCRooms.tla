------------------------------ MODULE MCRooms ------------------------------
(* Bytes of ten values: a tape of two cells and a key of one, a line of seven. *)
(* The programs are all of up to four bytes, loops of six, lines that are full *)
(* and end with two outputs, one that is too long and one that is no program.  *)
EXTENDS GameRooms

MCDoodles == {2, 3, 4, 5, 6, 8, 9}
MCKey == <<7>>
MCSpells ==
  UNION {[1..n -> MCDoodles] : n \in 0..4}
    \cup {<<3, 9>> \o s \o <<8>> : s \in [1..3 -> MCDoodles]}
    \cup {<<3>> \o s \o <<6, 6>> : s \in [1..4 -> MCDoodles]}
    \cup {<<1, 3>>, [n \in 1..8 |-> 3]}
MCAnother == {<<6, 6>>}
MCGames == {"ttt3d", "exploitable", "brainfuzz"}

\* A board of five cells on which each side has a line.
Corner == {<<0, 0, 0>>, <<0, 1, 0>>, <<0, 2, 0>>, <<1, 0, 0>>, <<2, 0, 0>>}
CornerOpenings == {[c \in Corner |-> "_"]}
=============================================================================

------------------------------- MODULE MCTTT --------------------------------
(* The last moves of a game of Tic-Tac-Toe on the whole board. *)
EXTENDS TTT3D

\* The levels of a board from the lowest, each with its rows.  X needs the corner
\* of the lowest level and that of the highest for four lines of its own: one
\* along x at y = 2, one of the spots at x = 2, a vertical diagonal and one
\* diagonal of a level.
WholeOpening ==
  <<<<<<"X", "O", "O">>, <<"O", "O", "X">>, <<"_", "X", "X">>>>,
    <<<<"_", "X", "X">>, <<"X", "O", "O">>, <<"O", "O", "X">>>>,
    <<<<"_", "O", "O">>, <<"O", "X", "X">>, <<"O", "X", "X">>>>>>
WholeOpenings == {[c \in Cube |-> WholeOpening[c[3] + 1][c[2] + 1][c[1] + 1]]}
=============================================================================

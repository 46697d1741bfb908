----------------------------- MODULE MCTopBoard -----------------------------
(* Two bounces that share their static variables, a step that repeats and one *)
(* that does not, as in the list from Initial13 to Initial16 and Dance1.      *)
EXTENDS TopBoard
CONSTANTS Dance1, Initial12, Initial13, Initial14

MCDances == {Dance1, Initial12, Initial13, Initial14}
MCNextOf ==
  [d \in MCDances |-> CASE d = Initial12 -> Initial13 [] d = Initial13 -> Initial14
                        [] OTHER -> NoDance]
MCExtraData == [d \in MCDances |-> IF d = Dance1 THEN 1 ELSE 0]
MCSelects == <<Initial12, Dance1, Initial13>>
MCWrites == {<<1, 1>>, <<2, 1>>, <<4, 1>>}
AllFaults == FaultKinds
=============================================================================

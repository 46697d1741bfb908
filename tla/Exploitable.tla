---------------------------- MODULE Exploitable ----------------------------
(***************************************************************************)
(* The levels of the exploitable game (game_master.cpp).  The level, the   *)
(* greetings, the passwords and their clocks are static variables: they    *)
(* are shared by whoever is connected, and gone after a restart.  A        *)
(* command without data is a greeting wanted; any other is an answer, even *)
(* the command "level" that has just chosen the level.                     *)
(* Time is kept as the age of what it is compared with, up to Limit + 1    *)
(* seconds.                                                                *)
(***************************************************************************)
EXTENDS Integers

CONSTANTS
  Limit,     \* 30, the seconds a password is good for
  Secrets    \* numbers a password of level 2 may be; atoi of a word is 0

ASSUME SecondsAssumption == Limit \in Nat
ASSUME SecretAssumption == Secrets \subseteq Nat /\ Secrets # {}

VARIABLES
  exp_cur_level,
  greeted,     \* the levels whose greeting flag is set
  sinceStart,  \* seconds since start_time1 and start_time2
  password2,
  sinceDrawn,  \* history: seconds since the password was drawn
  judged       \* history: the last guess compared with a password, and its level

expVars == <<exp_cur_level, greeted, sinceStart, password2, sinceDrawn, judged>>

Timed == {1, 2}
Age == 0..(Limit + 1)
Level == 0..6

ExpTypeOK ==
  /\ exp_cur_level \in Level \ {4}
  /\ greeted \subseteq 0..3
  /\ sinceStart \in [Timed -> Age]
  /\ password2 \in Secrets \cup {0}
  /\ sinceDrawn \in [Timed -> Age]
  /\ judged \in 0..2

\* EXPinit: the level in flash is 0, nothing ever saves another one.  Both
\* times are 0, and so is the clock when the badge is switched on.
EXPinit ==
  /\ exp_cur_level = 0
  /\ greeted = {}
  /\ sinceStart = [n \in Timed |-> 0]
  /\ password2 = 0
  /\ sinceDrawn = [n \in Timed |-> Limit + 1]
  /\ judged = 0

-----------------------------------------------------------------------------
\* A command: what it begins with, and the number atoi finds in it.
Command(text, number) == [text |-> text, number |-> number]
NoData == Command("none", 0)
Commands ==
  {NoData}
    \cup {Command("level", n) : n \in -1..7}  \* "level " and a number
    \cup {Command("short", 0)}                \* "level " and nothing else
    \cup {Command("guess", n) : n \in Secrets \cup {0}}
    \cup {Command("word", 0)}                 \* the password of level 1

Greet(level) == greeted' = greeted \cup {level}

\* Draw a password of level n.
Draw(n) ==
  /\ sinceDrawn' = [sinceDrawn EXCEPT ![n] = 0]
  /\ IF n = 2 THEN password2' \in Secrets ELSE UNCHANGED password2

exp_level0(cmd) ==
  /\ Greet(0)
  /\ judged' = 0
  /\ UNCHANGED <<sinceStart, password2, sinceDrawn>>

Late(n) == sinceStart[n] > Limit
Restarted(n) == sinceStart' = [sinceStart EXCEPT ![n] = 0]

\* The greeting, or a reset of a password that is too old, or a guess.
exp_level1(cmd) ==
  IF cmd = NoData \/ 1 \notin greeted
  THEN Draw(1) /\ Restarted(1) /\ Greet(1) /\ judged' = 0
  ELSE IF Late(1)
  THEN Draw(1) /\ Restarted(1) /\ judged' = 0 /\ UNCHANGED greeted
  ELSE judged' = 1 /\ UNCHANGED <<greeted, sinceStart, password2, sinceDrawn>>

\* Wrong variant: a password that timed out is given another 30 seconds.
exp_level2_keeps(cmd) ==
  IF cmd = NoData \/ 2 \notin greeted
  THEN Draw(2) /\ Greet(2) /\ judged' = 0 /\ UNCHANGED sinceStart
  ELSE IF Late(2)
  THEN Restarted(2) /\ judged' = 0 /\ UNCHANGED <<greeted, password2, sinceDrawn>>
  ELSE judged' = 2 /\ UNCHANGED <<greeted, sinceStart, password2, sinceDrawn>>

\* The greeting of level 2 does not start the clock.
exp_level2(cmd) ==
  IF cmd = NoData \/ 2 \notin greeted
  THEN Draw(2) /\ Greet(2) /\ judged' = 0 /\ UNCHANGED sinceStart
  ELSE IF Late(2)
  THEN Draw(2) /\ Restarted(2) /\ judged' = 0 /\ UNCHANGED greeted
  ELSE judged' = 2 /\ UNCHANGED <<greeted, sinceStart, password2, sinceDrawn>>

exp_level3(cmd) ==
  /\ Greet(3)
  /\ judged' = 0
  /\ UNCHANGED <<sinceStart, password2, sinceDrawn>>

\* exp_badLevel and exp_secretLevel only answer.
exp_answer(cmd) ==
  /\ judged' = 0
  /\ UNCHANGED <<greeted, sinceStart, password2, sinceDrawn>>

CallLevel(level, cmd) ==
  CASE level = 0 -> exp_level0(cmd)
    [] level = 1 -> exp_level1(cmd)
    [] level = 2 -> exp_level2(cmd)
    [] level = 3 -> exp_level3(cmd)
    [] OTHER -> exp_answer(cmd)

\* "level" and no number, or the number of no level.
BadSelection(cmd) ==
  \/ cmd.text = "short"
  \/ cmd.text = "level" /\ cmd.number \notin Level \ {4}

EXPcommandHandler(cmd) ==
  IF BadSelection(cmd)
  THEN judged' = 0
         /\ UNCHANGED <<exp_cur_level, greeted, sinceStart, password2, sinceDrawn>>
  ELSE /\ exp_cur_level' = IF cmd.text = "level" THEN cmd.number ELSE exp_cur_level
       /\ CallLevel(exp_cur_level', cmd)

-----------------------------------------------------------------------------
Older(age) == IF age > Limit THEN Limit + 1 ELSE age + 1

Second ==
  /\ sinceStart' = [n \in Timed |-> Older(sinceStart[n])]
  /\ sinceDrawn' = [n \in Timed |-> Older(sinceDrawn[n])]
  /\ judged' = 0
  /\ UNCHANGED <<exp_cur_level, greeted, password2>>

\* esp_restart: the clock runs on, and may be at any time.
Restart ==
  /\ exp_cur_level' = 0
  /\ greeted' = {}
  /\ \E age \in Age : sinceStart' = [n \in Timed |-> age]
  /\ password2' = 0
  /\ sinceDrawn' = [n \in Timed |-> Limit + 1]
  /\ judged' = 0

ExpNext ==
  \/ \E cmd \in Commands : EXPcommandHandler(cmd)
  \/ Second
  \/ Restart

ExpSpec == EXPinit /\ [][ExpNext]_expVars

-----------------------------------------------------------------------------
(* Properties. *)

\* Greetings, which everyone may ask for, time outs and restarts draw
\* passwords and set the clocks in any order, and level 2 forgets to start its
\* clock: still no guess is compared with a password that was drawn more than
\* 30 seconds ago, or that was never drawn.
PasswordsExpire ==
  judged \in Timed => judged \in greeted /\ sinceDrawn[judged] <= Limit
=============================================================================

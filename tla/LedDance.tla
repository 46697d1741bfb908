------------------------------ MODULE LedDance ------------------------------
(***************************************************************************)
(* What TopBoard leaves out: which LEDs the steps of a dance switch, the   *)
(* statics each function of main.c keeps for itself, and the main loop     *)
(* that shows one LED of LEDS at each turn.  Names that TopBoard has as    *)
(* well begin with Led here.                                               *)
(*                                                                         *)
(* What rand returns is left open, within bounds: turnOnRandom, which goes *)
(* on until all LEDs are equal, is given them in their order.              *)
(***************************************************************************)
EXTENDS Pins

CONSTANTS
  Begins,       \* bound: the dances of DanceSequences that may begin
  LedRounds,    \* 5: a bounce ends after more rounds
  Drops,        \* 400: so much rain
  Flashes,      \* 1000: so many random flashes
  Draws,        \* bound: what rand returns modulo TOTAL_LEDS or 16
  MaxTurns,     \* bound: turns of the main loop between two callbacks
  MaxCommands,  \* bound: commands of the badge
  Registers     \* bound: the registers it writes

TOTAL_LEDS == 24
Led == 0..(TOTAL_LEDS - 1)
None == "0"

LedDanceFun(light, data, next) == [light |-> light, ExtraData |-> data, next |-> next]

Table == [
  StareH |-> LedDanceFun("stareH", 255, None),
  StareV |-> LedDanceFun("stareV", 255, None),
  Dance1 |-> LedDanceFun("danceHorizonal", 1, None),
  Dance2 |-> LedDanceFun("danceVerticalCylon", 1, None),
  Initial16 |-> LedDanceFun("turnAll", 0, None),
  Initial15 |-> LedDanceFun("danceVertical", 0, "Initial16"),
  Initial14 |-> LedDanceFun("turnAll", 0, "Initial15"),
  Initial13 |-> LedDanceFun("danceHorizonal", 0, "Initial14"),
  Initial12 |-> LedDanceFun("turnOnRandom", 0, "Initial13"),
  Initial11 |-> LedDanceFun("turnOnRandom", 1, "Initial12"),
  Initial10 |-> LedDanceFun("danceVerticalCylon", 0, "Initial11"),
  Initial9b |-> LedDanceFun("turnOnRandom", 0, "Initial10"),
  Initial9 |-> LedDanceFun("danceRain", 0, "Initial9b"),
  Initial8 |-> LedDanceFun("turnAll", 0, "Initial9"),
  Initial7 |-> LedDanceFun("turnOnEveryN", 8, "Initial8"),
  Initial6 |-> LedDanceFun("turnOnEveryN", 4, "Initial7"),
  Initial5 |-> LedDanceFun("turnOnHalf", 1, "Initial6"),
  Initial4 |-> LedDanceFun("turnOnHalf", 1, "Initial5"),
  Initial3 |-> LedDanceFun("turnOnHalf", 0, "Initial4"),
  Initial2 |-> LedDanceFun("danceVerticalCylon", 0, "Initial8"),
  Initial1 |-> LedDanceFun("turnAll", 0, "Initial2"),
  Initial0 |-> LedDanceFun("turnOnOffRandom", 1, "Initial1"),
  Initial |-> LedDanceFun("turnAll", 1, "Initial0"),
  InitialSH |-> LedDanceFun("stareH", 255, "Initial"),
  InitialSV |-> LedDanceFun("stareV", 255, "InitialSH"),
  InitialOFF0 |-> LedDanceFun("turnOnRandom", 0, "InitialSV"),
  InitialON |-> LedDanceFun("turnOnRandom", 255, "InitialOFF0"),
  InitialOFF |-> LedDanceFun("turnOnRandom", 0, "InitialON")]

LedDances == DOMAIN Table
LedSequences == LedDances \ {"Initial0", "Initial6"}
Bouncing == {"danceVertical", "danceVerticalCylon", "danceHorizonal"}
Bounces == {d \in LedDances : Table[d].light \in Bouncing}

LedSelects == <<"Initial", "Dance1", "Dance2">>

ASSUME LedAssumption ==
  /\ Begins \subseteq LedSequences /\ Begins # {}
  /\ LedRounds \in Nat /\ Drops \in Nat /\ Flashes \in Nat /\ MaxCommands \in Nat
  /\ Draws \subseteq Led /\ Draws # {}
  /\ MaxTurns \in Nat /\ MaxTurns >= TOTAL_LEDS
  /\ Registers \subseteq DOMAIN LedSelects

VARIABLES
  ports,      \* the pins
  LEDS,       \* what the main loop shows
  led,        \* the LED whose turn it is
  callback, payload,   \* LedTimer
  led_ExtraData,  \* of the bounces, which change it
  led_danc1_value, led_count,  \* the statics of the functions
  turns,      \* turns of the main loop since the last callback
  commands,   \* commands so far
  swept       \* history: steps in a row of one dance of danceVerticalCylon, up to 10

leds == <<ports, LEDS, led>>
ledVars == <<leds, callback, payload, led_ExtraData, led_danc1_value, led_count, turns, commands, swept>>

Counting == Bouncing \cup {"danceRain", "turnOnOffRandom"}

LedTypeOK ==
  /\ ports \in Ports /\ LEDS \in [Led -> {0, 1, 255}] /\ led \in Led
  /\ callback \in {Table[d].light : d \in LedDances} /\ payload \in LedDances
  /\ led_ExtraData \in [Bounces -> 0..7]
  /\ led_danc1_value \in [Bouncing -> {-1, 1}] /\ led_count \in [Counting -> Nat]
  /\ turns \in 0..MaxTurns
  /\ commands \in 0..MaxCommands /\ swept \in 0..10

\* main up to its loop; the first step is stareV with the data of InitialOFF.
LedInit ==
  /\ ports = system_init
  /\ LEDS = [i \in Led |-> 0] /\ led = 0
  /\ callback = "stareV" /\ payload = "InitialOFF"
  /\ led_ExtraData = [d \in Bounces |-> Table[d].ExtraData]
  /\ led_danc1_value = [f \in Bouncing |-> 1] /\ led_count = [f \in Counting |-> 0]
  /\ turns = 0 /\ commands = 0 /\ swept = 0

-----------------------------------------------------------------------------
(* The main loop. *)

\* setupLeds: the pin of each LED.
LedFunctions == <<LED1, LED2, LED3, LED4, LED5, LED6, LED7, LED8, LED9, LED10, LED11, LED12,
                  LED13, LED14, LED15, LED16, LED17, LED18, LED19, LED20, LED21, LED22, LED23, LED24>>
PinOf(i) == LedFunctions[i + 1]

\* Wrong variant: the last LED has no turn.
NextLedShort(i) == IF i + 1 >= TOTAL_LEDS - 1 THEN 0 ELSE i + 1

NextLed(i) == IF i + 1 >= TOTAL_LEDS THEN 0 ELSE i + 1

\* A turn without a command and without an expired timer; the time up to a
\* turnAll may be longer than a scan.
Refresh ==
  /\ turns < (IF callback = "turnAll" THEN MaxTurns ELSE TOTAL_LEDS)
  /\ turns' = turns + 1
  /\ ports' = set_level(ports, PinOf(led), LEDS[led] > 0)
  /\ led' = NextLed(led)
  /\ UNCHANGED <<LEDS, callback, payload, led_ExtraData, led_danc1_value, led_count, commands, swept>>

\* The timer is restarted: what it held is forgotten.  Commands that come in the
\* middle of a bounce leave something behind; the others do not.
LedCommand ==
  /\ commands < MaxCommands
  /\ turns = TOTAL_LEDS /\ callback \in Bouncing
  /\ commands' = commands + 1
  /\ callback' = "turnAll"
  /\ \E r \in Registers : payload' = LedSelects[r]
  /\ UNCHANGED <<leds, led_ExtraData, led_danc1_value, led_count, turns, swept>>

-----------------------------------------------------------------------------
(* The steps of the dances. *)

\* The six columns from the left to the right, the four rows from below.
Column == <<{2, 5, 8, 11}, {1, 4, 7, 10}, {0, 3, 6, 9},
            {14, 17, 20, 23}, {13, 16, 19, 22}, {12, 15, 18, 21}>>
Row == <<<<0, 1, 2, 23, 22, 21>>, <<5, 4, 3, 20, 19, 18>>,
         <<8, 7, 6, 17, 16, 15>>, <<11, 10, 9, 14, 13, 12>>>>

Light(set, value) == [i \in Led |-> IF i \in set THEN value ELSE LEDS[i]]
Only(set, value) == [i \in Led |-> IF i \in set THEN value ELSE 0]

queueNextLed(data) ==
  \E d \in (IF data = None THEN Begins ELSE {data}) :
    payload' = d /\ callback' = Table[d].light

Data == IF payload \in Bounces THEN led_ExtraData[payload] ELSE Table[payload].ExtraData
Continue == queueNextLed(Table[payload].next)
Statics == UNCHANGED <<led_ExtraData, led_danc1_value, led_count>>

\* The pins only: the next turns of the loop show LEDS again.
turnAll ==
  /\ ports' = set_levels(ports, {PinOf(i) : i \in Led}, Data # 0)
  /\ Continue
  /\ UNCHANGED LEDS /\ Statics

\* All of them, odd or even.
turnOnHalf ==
  /\ LEDS' = [i \in Led |-> Data]
  /\ Continue
  /\ UNCHANGED ports /\ Statics

turnOnEveryN ==
  /\ LEDS' = [i \in Led |-> IF i % Data = 0 THEN 255 ELSE 0]
  /\ Continue
  /\ UNCHANGED ports /\ Statics

\* A count that ends a dance and begins at 0 again.
CountTo(f, limit) ==
  IF led_count[f] + 1 > limit
  THEN led_count' = [led_count EXCEPT ![f] = 0] /\ Continue
  ELSE led_count' = [led_count EXCEPT ![f] = @ + 1] /\ queueNextLed(payload)

\* ExtraData of its only entry is 1: one LED on, one off.
turnOnOffRandom ==
  /\ \E i, j \in Draws : LEDS' = [LEDS EXCEPT ![i] = 255, ![j] = 0]
  /\ CountTo("turnOnOffRandom", Flashes)
  /\ UNCHANGED <<ports, led_ExtraData, led_danc1_value>>

\* The first LED that differs, or any.
NextDraw == CHOOSE i \in Led : LEDS[i] # Data \/ \A j \in Led : LEDS[j] = Data

turnOnRandom ==
  /\ LEDS' = [LEDS EXCEPT ![NextDraw] = Data]
  /\ IF \A i \in Led : LEDS'[i] = Data THEN Continue ELSE queueNextLed(payload)
  /\ UNCHANGED ports /\ Statics

\* Wrong variant: the light turns a case too soon on its way back.
TurnShort(place, last, value) == IF place = 1 THEN 1 ELSE IF place = last THEN -1 ELSE value

\* The direction in which the light goes on from a case.
Turn(place, last, value) == IF place = 0 THEN 1 ELSE IF place = last THEN -1 ELSE value

\* The three bounces: at 0 and at last the light turns, in between it switches.
LedBounce(f, last, switched) ==
  LET place == led_ExtraData[payload]
      value == Turn(place, last, led_danc1_value[f])
      rounds == IF place = 0 THEN led_count[f] + 1 ELSE led_count[f]
  IN /\ LEDS' = IF place \in 1..(last - 1) THEN switched ELSE LEDS
     /\ led_ExtraData' = [led_ExtraData EXCEPT ![payload] = @ + value]
     /\ IF rounds > LedRounds
        THEN /\ led_danc1_value' = [led_danc1_value EXCEPT ![f] = 1]
             /\ led_count' = [led_count EXCEPT ![f] = 0]
             /\ Continue
        ELSE /\ led_danc1_value' = [led_danc1_value EXCEPT ![f] = value]
             /\ led_count' = [led_count EXCEPT ![f] = rounds]
             /\ queueNextLed(payload)
     /\ UNCHANGED ports

\* On the way up LEDs go on, on the way down they go off.
Filled(f) == IF led_danc1_value[f] > 0 THEN 255 ELSE 0

danceVertical ==
  LedBounce("danceVertical", 7, Light(Column[led_ExtraData[payload]], Filled("danceVertical")))

danceHorizonal ==
  LedBounce("danceHorizonal", 5,
         Light({Row[led_ExtraData[payload]][n] : n \in 1..6}, Filled("danceHorizonal")))

\* Wrong variant: the column before goes off, the one behind stays on.
BesideBefore(place) == UNION {Column[c] : c \in {place - 1} \cap DOMAIN Column}

Beside(place) == UNION {Column[c] : c \in {place - 1, place + 1} \cap DOMAIN Column}

danceVerticalCylon ==
  LET place == led_ExtraData[payload]
  IN LedBounce("danceVerticalCylon", 7,
            [i \in Led |-> IF i \in Column[place] THEN 255
                           ELSE IF i \in Beside(place) THEN 0 ELSE LEDS[i]])

Above(i) == CHOOSE j \in Led : \E r \in 1..3, n \in 1..6 : i = Row[r][n] /\ j = Row[r + 1][n]

\* Every row takes what the row above it showed, the highest one a drop or nothing.
danceRain ==
  LET fallen == [i \in Led |-> IF \E n \in 1..6 : i = Row[4][n] THEN 0 ELSE LEDS[Above(i)]]
  IN /\ \E drop \in Draws :
          LEDS' = IF drop < 6 THEN [fallen EXCEPT ![Row[4][drop + 1]] = 255] ELSE fallen
     /\ CountTo("danceRain", Drops)
     /\ UNCHANGED <<ports, led_ExtraData, led_danc1_value>>

stareV ==
  /\ LEDS' = Only({4, 7, 16, 19}, Data)
  /\ Continue
  /\ UNCHANGED ports /\ Statics

stareH ==
  /\ LEDS' = Only({4, 5, 16, 17}, Data)
  /\ Continue
  /\ UNCHANGED ports /\ Statics

\* Between two callbacks every LED has its turn: the shortest time of the table
\* is 300 ticks of the clock, almost 10 ms.
CallDance ==
  /\ turns \in {TOTAL_LEDS, MaxTurns}
  /\ turns' = 0
  /\ \/ callback = "turnAll" /\ turnAll
     \/ callback = "turnOnHalf" /\ turnOnHalf
     \/ callback = "turnOnEveryN" /\ turnOnEveryN
     \/ callback = "turnOnOffRandom" /\ turnOnOffRandom
     \/ callback = "turnOnRandom" /\ turnOnRandom
     \/ callback = "danceVertical" /\ danceVertical
     \/ callback = "danceVerticalCylon" /\ danceVerticalCylon
     \/ callback = "danceHorizonal" /\ danceHorizonal
     \/ callback = "danceRain" /\ danceRain
     \/ callback = "stareV" /\ stareV
     \/ callback = "stareH" /\ stareH
  /\ swept' = IF callback = "danceVerticalCylon" /\ payload' = payload
              THEN IF swept < 10 THEN swept + 1 ELSE swept
              ELSE 0
  /\ UNCHANGED <<led, commands>>

LedNext == Refresh \/ LedCommand \/ CallDance

LedSpec == LedInit /\ [][LedNext]_ledVars

\* The processor runs, and the timer expires.
FairLedSpec == LedSpec /\ WF_ledVars(Refresh) /\ WF_ledVars(CallDance)

-----------------------------------------------------------------------------
\* main's loop: once every LED had its turn the pins show LEDS, whatever turnAll or
\* an earlier step had put there; the pins of the bus and of the modulator, which
\* share port A with five LEDs, are as they were set up.
ScanShows ==
  /\ turns >= TOTAL_LEDS => \A i \in Led : On(ports, PinOf(i)) <=> LEDS[i] > 0
  /\ \A name \in {PA0, PA2, PA3} : ~On(ports, name)

\* danceVerticalCylon clears only what is beside its column, and any dance may have
\* left any LED on before it, and a command any place to begin at: after ten steps
\* in a row there is one column left, wherever they began.
CylonAlone ==
  swept = 10 => \E c \in DOMAIN Column : {i \in Led : LEDS[i] > 0} = Column[c]

\* The last case of a bounce's function.
LastPlace(d) == IF Table[d].light = "danceHorizonal" THEN 5 ELSE 7

\* The entries of one function share its direction, and a command may leave any of
\* them midway: none of them gets to a place that its function has no case for, where
\* it would stay without a light, a round or an end.
BouncesInside == \A d \in Bounces : led_ExtraData[d] \in 0..LastPlace(d)

\* The bounces of one function share its direction and its rounds, and a command
\* may leave any of them midway: still each of them comes to an end.
BouncesEnd ==
  \A d \in Bounces :
    payload = d /\ led_count[Table[d].light] > 0 ~> payload # d \/ led_count[Table[d].light] = 0
=============================================================================

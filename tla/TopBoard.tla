------------------------------ MODULE TopBoard ------------------------------
(***************************************************************************)
(* The microcontroller of the top board makes the badge's LEDs dance.  Its *)
(* main loop shares memory with two interrupts:                            *)
(*   - the I2C slave (main.c): a master writes a register and a command;   *)
(*   - the real time clock (src/timeout.c): the time of LedTimer is over,  *)
(*     and its callback waits in the execute queue for the main loop.      *)
(* A callback is one step of a dance; it chooses the next step and its     *)
(* time.  A command replaces the dance.                                    *)
(*                                                                         *)
(* One step of this module is what happens between two points where an     *)
(* interrupt can make a difference.  LedTimer is the only timer and its    *)
(* times are shorter than a period of the clock, so TIMER_0_dummy is never *)
(* used.  What LEDs a callback switches is left out.                       *)
(***************************************************************************)
EXTENDS Integers, Sequences

CONSTANTS
  Dances,          \* the steps (LedDanceFun) a dance is made of
  NoDance,         \* the null at the end of a dance
  Bounce,          \* those whose light runs up and down, like danceHorizonal
  Repeat,          \* those that repeat until a count or a random choice ends them
  NextOf,          \* data->next
  ExtraData,       \* data->ExtraData at the start
  DanceSequences,  \* where a new dance may begin
  InitialOFF,      \* where the first one begins
  Selects,         \* the dance each register selects
  Last,            \* the last case of a bounce: 5 or 7
  Rounds,          \* the literal 5: a bounce ends after more rounds
  Writes,          \* what the master writes, sequences of two bytes
  MaxWrites,       \* bound: number of those
  Faults           \* what may go wrong, a subset of FaultKinds

FaultKinds ==
  {"abort",  \* the master is reset in the middle of a write
   "bus"}    \* the slave sees a bus error or a collision

ASSUME DanceAssumption ==
  /\ NoDance \notin Dances
  /\ Bounce \subseteq Dances /\ Repeat \subseteq Dances \ Bounce
  /\ NextOf \in [Dances -> Dances \cup {NoDance}]
  /\ Last \in Nat \ {0} /\ Rounds \in Nat
  /\ ExtraData \in [Dances -> 0..Last]
  /\ DanceSequences \subseteq Dances /\ InitialOFF \in DanceSequences
  /\ Selects \in [{1, 2, 3} -> Dances]
ASSUME WriteAssumption == Writes \subseteq Nat \X Nat /\ MaxWrites \in Nat
ASSUME FaultAssumption == Faults \subseteq FaultKinds

NONE == 255  \* 0xff

VARIABLES
  I2C_0_register_address, I2C_0_cmd,
  bus,        \* the bytes of the current write the master has still to send
  writes,     \* writes begun
  hung,       \* the I2C interrupt spins in I2C_0_error_handler
  list,       \* LedTimer is in the list of running timers
  queue,      \* LedTimer is in the queue of expired timers
  loaded,     \* the clock counts the time of LedTimer
  OVF,        \* RTC.INTCTRL: the overflow interrupt is enabled
  INTFLAGS,   \* RTC.INTFLAGS: an overflow was not served yet
  LedTimer,   \* callback and payload
  danc1_value, count,  \* the static variables of the bounces
  extra,      \* ExtraData of the bounces, which they change
  at,         \* where the main loop is
  back,       \* where timeout_create returns to
  due,        \* history: the time LedTimer was last given is over
  asked,      \* history: the register of a command that does not dance yet, or 0
  written,    \* history: the last write begun
  mixed       \* history: a write was broken off or came amidst a command

i2cVars == <<I2C_0_register_address, I2C_0_cmd, bus, writes, hung, written, mixed>>
timerVars == <<list, queue, loaded, OVF, INTFLAGS, due>>
danceVars == <<LedTimer, danc1_value, count, extra, asked>>
vars == <<i2cVars, timerVars, danceVars, at, back>>

\* Places of the main loop: the test for a command (main.c:679), the two
\* searches of timeout_delete before and after they disable the interrupt, the
\* rest of timeout_create, the two assignments that forget a command, the test
\* for an expired timer and the call of its callback.
Place == {"loop", "find", "cut", "findQueue", "cutQueue", "insert",
          "forgetCmd", "forgetRegister", "poll", "call"}

\* The functions LedTimer can hold: one of main's choice or the payload's own.
Callback == {"stareV", "turnAll", "light"}

TypeOK ==
  /\ I2C_0_register_address \in Nat /\ I2C_0_cmd \in Nat
  /\ bus \in Seq(Nat) /\ writes \in 0..MaxWrites /\ hung \in BOOLEAN
  /\ list \in BOOLEAN /\ queue \in BOOLEAN /\ loaded \in BOOLEAN
  /\ OVF \in BOOLEAN /\ INTFLAGS \in BOOLEAN
  /\ LedTimer \in [callback_ptr : Callback, payload : Dances]
  /\ danc1_value \in {-1, 1} /\ count \in 0..Rounds /\ extra \in [Bounce -> 0..Last]
  /\ at \in Place /\ back \in {"loop", "forgetCmd"}
  /\ due \in BOOLEAN /\ asked \in {0} \cup DOMAIN Selects
  /\ written \in Writes \cup {<<>>} /\ mixed \in BOOLEAN

\* setupSlave: the interrupt calls the handlers below, and no byte has come.
setupSlave ==
  /\ I2C_0_register_address = NONE /\ I2C_0_cmd = NONE
  /\ bus = <<>> /\ hung = FALSE

\* main up to its loop: the first timeout_create has been called.
Init ==
  /\ setupSlave /\ writes = 0
  /\ list = TRUE /\ queue = FALSE /\ loaded = TRUE
  /\ OVF = TRUE /\ INTFLAGS = FALSE
  /\ LedTimer = [callback_ptr |-> "stareV", payload |-> InitialOFF]
  /\ danc1_value = 1 /\ count = 0 /\ extra = [d \in Bounce |-> ExtraData[d]]
  /\ at = "loop" /\ back = "loop"
  /\ due = FALSE /\ asked = 0
  /\ written = <<>> /\ mixed = FALSE

-----------------------------------------------------------------------------
(* The I2C slave's interrupt.  A write is two bytes, each its own interrupt. *)

\* Main is between finding a command and forgetting its register.
HandlingCommand ==
  \/ I2C_0_register_address # NONE /\ I2C_0_cmd # NONE
  \/ at = "forgetRegister"

\* Neither the address in front of a write nor the stop behind it changes what
\* the handler of its bytes goes by: a write that is broken off is continued by
\* the next one.
I2C_0_address_handler == UNCHANGED <<I2C_0_register_address, I2C_0_cmd>>
I2C_0_stop_handler == UNCHANGED <<I2C_0_register_address, I2C_0_cmd>>

BeginWrite ==
  /\ ~hung /\ bus = <<>> /\ writes < MaxWrites
  /\ \E w \in Writes : bus' = w /\ written' = w
  /\ writes' = writes + 1
  /\ mixed' = (mixed \/ HandlingCommand)
  /\ I2C_0_address_handler
  /\ UNCHANGED <<hung, timerVars, danceVars, at, back>>

I2C_0_write_handler ==
  /\ ~hung /\ bus # <<>>
  /\ bus' = Tail(bus)
  /\ IF I2C_0_register_address = NONE
     THEN I2C_0_register_address' = Head(bus) /\ UNCHANGED I2C_0_cmd
     ELSE /\ I2C_0_cmd' = IF I2C_0_cmd = NONE THEN Head(bus) ELSE I2C_0_cmd
          /\ UNCHANGED I2C_0_register_address
  /\ mixed' = (mixed \/ HandlingCommand)
  /\ UNCHANGED <<writes, hung, written, timerVars, danceVars, at, back>>

AbortWrite ==
  /\ "abort" \in Faults /\ ~hung /\ bus # <<>>
  /\ bus' = <<>> /\ mixed' = TRUE
  /\ I2C_0_stop_handler
  /\ UNCHANGED <<writes, hung, written, timerVars, danceVars, at, back>>

\* An interrupt that never returns: the main loop and the clock stand still.
I2C_0_error_handler ==
  /\ "bus" \in Faults /\ ~hung /\ bus # <<>>
  /\ hung' = TRUE
  /\ UNCHANGED <<I2C_0_register_address, I2C_0_cmd, bus, writes, written, mixed,
                 timerVars, danceVars, at, back>>

\* I2C_0_isr: a collision or a bus error first, then a byte of a write.  Address
\* and stop are part of the steps that begin a write and break it off.
I2C_0_isr == I2C_0_error_handler \/ I2C_0_write_handler

-----------------------------------------------------------------------------
(* The clock and its interrupt. *)

\* The clock has counted to the end.
Overflow ==
  /\ loaded
  /\ loaded' = FALSE /\ INTFLAGS' = TRUE /\ due' = TRUE
  /\ UNCHANGED <<list, queue, OVF, i2cVars, danceVars, at, back>>

\* TIMER_0_start_timer_at_head: load the clock for the head of the list, or
\* stop when there is none.
StartTimerAtHead(head) ==
  /\ OVF' = head
  /\ loaded' = (head \/ loaded)
  /\ INTFLAGS' = (INTFLAGS /\ ~head)

\* Wrong variant: the callback is called by the interrupt.
RtcInterruptCalls ==
  /\ ~hung /\ OVF /\ INTFLAGS /\ list
  /\ list' = FALSE /\ queue' = TRUE
  /\ OVF' = FALSE /\ INTFLAGS' = FALSE
  /\ LedTimer' = [callback_ptr |-> "light", payload |-> InitialOFF]
  /\ UNCHANGED <<loaded, due, danc1_value, count, extra, asked, i2cVars, at, back>>

\* ISR(RTC_CNT_vect): the timer moves to the execute queue.
RtcInterrupt ==
  /\ ~hung /\ OVF /\ INTFLAGS /\ list
  /\ list' = FALSE /\ queue' = TRUE
  /\ OVF' = FALSE /\ INTFLAGS' = FALSE
  /\ UNCHANGED <<loaded, due, danceVars, i2cVars, at, back>>

-----------------------------------------------------------------------------
(* TIMER_0_timeout_create, called from two places of the main loop. *)

Main(place, next) == ~hung /\ at = place /\ at' = next

\* timeout_delete_helper tests a list before it disables the interrupt.
FindTimer ==
  /\ Main("find", IF list THEN "cut" ELSE "findQueue")
  /\ UNCHANGED <<i2cVars, timerVars, danceVars, back>>

\* The interrupt may have emptied the list since; then it is enabled again.
CutTimer ==
  /\ Main("cut", IF list THEN "insert" ELSE "findQueue")
  /\ list' = FALSE
  /\ IF list THEN StartTimerAtHead(FALSE)
             ELSE OVF' = TRUE /\ UNCHANGED <<loaded, INTFLAGS>>
  /\ UNCHANGED <<queue, due, i2cVars, danceVars, back>>

\* Wrong variant: a timer that has expired is not looked for.
FindExpiredNot ==
  /\ Main("findQueue", "insert")
  /\ UNCHANGED <<i2cVars, timerVars, danceVars, back>>

FindExpired ==
  /\ Main("findQueue", IF queue THEN "cutQueue" ELSE "insert")
  /\ UNCHANGED <<i2cVars, timerVars, danceVars, back>>

\* Wrong variant: the interrupt is enabled again as in the other list.
CutExpiredEnabled ==
  /\ Main("cutQueue", "insert")
  /\ queue' = FALSE /\ OVF' = TRUE
  /\ UNCHANGED <<list, loaded, INTFLAGS, due, i2cVars, danceVars, back>>

\* The head of the other list is started, and there is none.
CutExpired ==
  /\ Main("cutQueue", "insert")
  /\ queue' = FALSE
  /\ StartTimerAtHead(list)
  /\ UNCHANGED <<list, due, i2cVars, danceVars, back>>

\* Wrong variant: the interrupt is not enabled again.
InsertTimerStopped ==
  /\ Main("insert", back)
  /\ list' = TRUE /\ loaded' = TRUE /\ INTFLAGS' = FALSE
  /\ due' = FALSE
  /\ UNCHANGED <<queue, OVF, i2cVars, danceVars, back>>

\* Wrong variant: an overflow from before is left pending.
InsertTimerPending ==
  /\ Main("insert", back)
  /\ list' = TRUE /\ loaded' = TRUE /\ OVF' = TRUE
  /\ due' = FALSE
  /\ UNCHANGED <<queue, INTFLAGS, i2cVars, danceVars, back>>

InsertTimer ==
  /\ Main("insert", back)
  /\ list' = TRUE
  /\ StartTimerAtHead(TRUE)
  /\ due' = FALSE
  /\ UNCHANGED <<queue, i2cVars, danceVars, back>>

-----------------------------------------------------------------------------
(* The main loop. *)

NoCommand ==
  /\ Main("loop", "poll")
  /\ I2C_0_register_address = NONE \/ I2C_0_cmd = NONE
  /\ UNCHANGED <<i2cVars, timerVars, danceVars, back>>

\* The switch: a register that selects a dance restarts LedTimer.
Command ==
  /\ I2C_0_register_address # NONE /\ I2C_0_cmd # NONE
  /\ IF I2C_0_register_address \in DOMAIN Selects
     THEN /\ Main("loop", "find")
          /\ back' = "forgetCmd"
          /\ LedTimer' = [callback_ptr |-> "turnAll",
                          payload |-> Selects[I2C_0_register_address]]
          /\ asked' = I2C_0_register_address
     ELSE Main("loop", "forgetCmd") /\ UNCHANGED <<back, LedTimer, asked>>
  /\ UNCHANGED <<danc1_value, count, extra, i2cVars, timerVars>>

ForgetCmd ==
  /\ Main("forgetCmd", "forgetRegister")
  /\ I2C_0_cmd' = NONE
  /\ UNCHANGED <<I2C_0_register_address, bus, writes, hung, written, mixed,
                 timerVars, danceVars, back>>

\* Wrong variant: the register is not forgotten.
KeepRegister ==
  /\ Main("forgetRegister", "poll")
  /\ UNCHANGED <<i2cVars, timerVars, danceVars, back>>

ForgetRegister ==
  /\ Main("forgetRegister", "poll")
  /\ I2C_0_register_address' = NONE
  /\ UNCHANGED <<I2C_0_cmd, bus, writes, hung, written, mixed,
                 timerVars, danceVars, back>>

\* TIMER_0_timeout_call_next_callback up to the call; it leaves the interrupt
\* as it was.
TakeExpired ==
  /\ Main("poll", IF queue THEN "call" ELSE "loop")
  /\ queue' = FALSE
  /\ UNCHANGED <<list, loaded, OVF, INTFLAGS, due, i2cVars, danceVars, back>>

\* queueNext: without a next step a new dance begins somewhere.
queueNext(data) ==
  \E d \in (IF data = NoDance THEN DanceSequences ELSE {data}) :
    LedTimer' = [callback_ptr |-> "light", payload |-> d]

\* The direction in which the light goes on from a case.
BounceTo(place, value) ==
  IF place = 0 THEN 1 ELSE IF place = Last THEN -1 ELSE value

\* danceHorizonal, danceVertical, danceVerticalCylon.
BounceStep(data) ==
  LET value == BounceTo(extra[data], danc1_value)
      rounds == IF extra[data] = 0 THEN count + 1 ELSE count
  IN /\ extra' = [extra EXCEPT ![data] = @ + value]
     /\ IF rounds > Rounds
        THEN danc1_value' = 1 /\ count' = 0 /\ queueNext(NextOf[data])
        ELSE danc1_value' = value /\ count' = rounds /\ queueNext(data)

\* Every other callback leaves the statics of the bounces alone.
OtherStep(data) ==
  /\ \/ queueNext(NextOf[data])
     \/ LedTimer.callback_ptr = "light" /\ data \in Repeat /\ queueNext(data)
  /\ UNCHANGED <<danc1_value, count, extra>>

\* The callback, then timeout_create with the time it returns.
CallCallback ==
  /\ Main("call", "find")
  /\ back' = "loop"
  /\ IF LedTimer.callback_ptr = "light" /\ LedTimer.payload \in Bounce
     THEN BounceStep(LedTimer.payload)
     ELSE OtherStep(LedTimer.payload)
  /\ asked' = 0
  /\ UNCHANGED <<i2cVars, timerVars>>

MainLoop ==
  \/ NoCommand \/ Command \/ ForgetCmd \/ ForgetRegister
  \/ TakeExpired \/ CallCallback
  \/ FindTimer \/ CutTimer \/ FindExpired \/ CutExpired \/ InsertTimer

Next ==
  \/ BeginWrite \/ I2C_0_isr \/ AbortWrite
  \/ Overflow \/ RtcInterrupt
  \/ MainLoop

Spec == Init /\ [][Next]_vars

\* Time passes, interrupts are served, the processor runs; no master has to
\* write.
FairSpec ==
  /\ Spec
  /\ WF_vars(Overflow) /\ WF_vars(RtcInterrupt) /\ WF_vars(MainLoop)
  /\ WF_vars(I2C_0_write_handler)

-----------------------------------------------------------------------------
(* Properties. *)

\* Whatever the interrupts do between the two searches of timeout_delete, the
\* only timer is always in exactly one place: running, expired, or in the
\* hands of the main loop.  Once lost, the board would be dark for good.
TimerInOnePlace ==
  /\ ~(list /\ queue)
  /\ list \/ queue <=> ~(at \in {"call", "insert"} \/ (back = "loop" /\ at \in {"find", "findQueue"}))

\* The interrupt uses the head of the list without a test (timeout.c:355), and
\* timeout_delete_helper enables it without one (timeout.c:260): it is never
\* served without a timer, and main never goes on with it enabled for nothing.
InterruptHasTimer ==
  /\ OVF /\ INTFLAGS => list
  /\ OVF => list \/ at \in {"findQueue", "cutQueue"}

\* A callback is called after the time given to timeout_create, even if the
\* timer was restarted when it had just expired.
NeverEarly == at = "call" => due

\* The next callback after a command is the one the command asked for, even
\* if the timer expired, or its callback chose a step, at the same moment.
CommandDances ==
  at = "call" /\ asked # 0 =>
    LedTimer = [callback_ptr |-> "turnAll", payload |-> Selects[asked]]

\* As long as no byte comes while a command is handled and no write is broken
\* off, the main loop acts on what was written, and only once.
ActsOnWrites ==
  /\ ~mixed /\ at = "loop" /\ I2C_0_register_address # NONE /\ I2C_0_cmd # NONE =>
       <<I2C_0_register_address, I2C_0_cmd>> = written /\ bus = <<>>
  /\ ~mixed /\ at = "poll" => (I2C_0_cmd # NONE => I2C_0_register_address # NONE)

\* The board dances on: commands, expiring timers and their races never stop
\* it, unless the bus fails and the error handler does.
DanceGoesOn == []<>(hung \/ at = "call")
=============================================================================

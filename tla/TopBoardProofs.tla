--------------------------- MODULE TopBoardProofs ---------------------------
(***************************************************************************)
(* The races of the top board's main loop with its interrupts neither lose *)
(* the timer nor call it early: machine-checked proofs about TopBoard, for *)
(* any dances and any writes.  After them, proofs about LedDance, the      *)
(* other half of the firmware.                                             *)
(***************************************************************************)
EXTENDS TopBoard, LedDance, TLAPS

\* Where a timer that expired is, the clock has stopped and nothing is pending.
ExpiredTimer ==
  /\ INTFLAGS => ~loaded
  /\ queue => ~loaded /\ ~INTFLAGS /\ due
  /\ INTFLAGS /\ list => due

\* What the searches of timeout_delete have found out when they go on.
Searches ==
  /\ at = "cut" => back = "forgetCmd"
  /\ at \in {"findQueue", "cutQueue", "insert"} => ~list
  /\ at = "cutQueue" => queue
  /\ OVF => list \/ (queue /\ at \in {"findQueue", "cutQueue"})

Flags ==
  /\ list \in BOOLEAN /\ queue \in BOOLEAN /\ loaded \in BOOLEAN
  /\ OVF \in BOOLEAN /\ INTFLAGS \in BOOLEAN /\ due \in BOOLEAN
  /\ at \in Place /\ back \in {"loop", "forgetCmd"}

\* The command that still waits is the one the timer will carry out.
CommandKept ==
  asked # 0 => LedTimer = [callback_ptr |-> "turnAll", payload |-> Selects[asked]]

\* The inductive invariant.
IInv == Flags /\ TimerInOnePlace /\ ExpiredTimer /\ Searches /\ NeverEarly /\ CommandKept

LEMMA InitIInv == Init => IInv
BY DEF Init, IInv, Flags, Place, TimerInOnePlace, ExpiredTimer, Searches, NeverEarly, CommandKept

\* The interrupts and the bus.
LEMMA InterruptsKeepIInv ==
  ASSUME IInv, BeginWrite \/ I2C_0_write_handler \/ AbortWrite \/ I2C_0_error_handler
                 \/ Overflow \/ RtcInterrupt
  PROVE  IInv'
<1> USE DEF IInv, Flags, TimerInOnePlace, ExpiredTimer, Searches, NeverEarly, CommandKept
<1>1. CASE BeginWrite
  BY <1>1 DEF BeginWrite, I2C_0_address_handler, timerVars, danceVars
<1>2. CASE I2C_0_write_handler
  BY <1>2 DEF I2C_0_write_handler, timerVars, danceVars
<1>3. CASE AbortWrite
  BY <1>3 DEF AbortWrite, I2C_0_stop_handler, timerVars, danceVars
<1>4. CASE I2C_0_error_handler
  BY <1>4 DEF I2C_0_error_handler, timerVars, danceVars
<1>5. CASE Overflow
  BY <1>5 DEF Overflow, danceVars
<1>6. CASE RtcInterrupt
  BY <1>6 DEF RtcInterrupt, danceVars
<1> QED BY <1>1, <1>2, <1>3, <1>4, <1>5, <1>6

\* timeout_create.
LEMMA TimeoutCreateKeepsIInv ==
  ASSUME IInv, FindTimer \/ CutTimer \/ FindExpired \/ CutExpired \/ InsertTimer
  PROVE  IInv'
<1> USE DEF IInv, Flags, TimerInOnePlace, ExpiredTimer, Searches, NeverEarly, CommandKept, Place, Main
<1>1. CASE FindTimer
  BY <1>1 DEF FindTimer, timerVars, danceVars
<1>2. CASE CutTimer
  BY <1>2 DEF CutTimer, StartTimerAtHead, danceVars
<1>3. CASE FindExpired
  BY <1>3 DEF FindExpired, timerVars, danceVars
<1>4. CASE CutExpired
  BY <1>4 DEF CutExpired, StartTimerAtHead, danceVars
<1>5. CASE InsertTimer
  BY <1>5 DEF InsertTimer, StartTimerAtHead, danceVars
<1> QED BY <1>1, <1>2, <1>3, <1>4, <1>5

\* The main loop outside of timeout_create.
LEMMA LoopKeepsIInv ==
  ASSUME IInv, NoCommand \/ Command \/ ForgetCmd \/ ForgetRegister \/ TakeExpired \/ CallCallback
  PROVE  IInv'
<1> USE DEF IInv, Flags, TimerInOnePlace, ExpiredTimer, Searches, NeverEarly, CommandKept, Place, Main
<1>1. CASE NoCommand
  BY <1>1 DEF NoCommand, timerVars, danceVars
<1>2. CASE Command
  <2>1. CASE I2C_0_register_address \in DOMAIN Selects
    BY <1>2, <2>1 DEF Command, timerVars
  <2>2. CASE I2C_0_register_address \notin DOMAIN Selects
    BY <1>2, <2>2 DEF Command, timerVars
  <2> QED BY <2>1, <2>2
<1>3. CASE ForgetCmd
  BY <1>3 DEF ForgetCmd, timerVars, danceVars
<1>4. CASE ForgetRegister
  BY <1>4 DEF ForgetRegister, timerVars, danceVars
<1>5. CASE TakeExpired
  BY <1>5 DEF TakeExpired, danceVars
<1>6. CASE CallCallback
  BY <1>6 DEF CallCallback, timerVars
<1> QED BY <1>1, <1>2, <1>3, <1>4, <1>5, <1>6

LEMMA StepKeepsIInv == IInv /\ [Next]_vars => IInv'
<1> SUFFICES ASSUME IInv, [Next]_vars PROVE IInv'
  OBVIOUS
<1>1. CASE BeginWrite \/ I2C_0_write_handler \/ AbortWrite \/ I2C_0_error_handler
             \/ Overflow \/ RtcInterrupt
  BY <1>1, InterruptsKeepIInv
<1>2. CASE MainLoop
  BY <1>2, TimeoutCreateKeepsIInv, LoopKeepsIInv DEF MainLoop
<1>3. CASE UNCHANGED vars
  BY <1>3 DEF vars, timerVars, danceVars, IInv, Flags, TimerInOnePlace, ExpiredTimer, Searches,
              NeverEarly, CommandKept
<1> QED BY <1>1, <1>2, <1>3 DEF Next, I2C_0_isr

\* The inductive invariant holds in every reachable state.
THEOREM Invariant == Spec => []IInv
BY InitIInv, StepKeepsIInv, PTL DEF Spec

-----------------------------------------------------------------------------
\* No race of a command with the clock's interrupt loses the timer or puts it
\* into two places.
THEOREM TimerNotLost == Spec => []TimerInOnePlace
<1>1. IInv => TimerInOnePlace
  BY DEF IInv
<1> QED BY <1>1, Invariant, PTL

\* The clock's interrupt is never served with an empty list, although
\* timeout_delete_helper enables it without a test.
THEOREM InterruptIsSafe == Spec => []InterruptHasTimer
<1>1. IInv => InterruptHasTimer
  BY DEF IInv, Searches, ExpiredTimer, Flags, InterruptHasTimer
<1> QED BY <1>1, Invariant, PTL

\* A timer that was restarted when it had just expired is not called before
\* its new time.
THEOREM CallbackInTime == Spec => []NeverEarly
<1>1. IInv => NeverEarly
  BY DEF IInv
<1> QED BY <1>1, Invariant, PTL

\* The callback after a command carries out that command, whatever the timer
\* did at the same moment.
THEOREM CommandNotLost == Spec => []CommandDances
<1>1. IInv => CommandDances
  BY DEF IInv, CommandKept, CommandDances
<1> QED BY <1>1, Invariant, PTL

-----------------------------------------------------------------------------
(* Types. *)

\* The parts of TypeOK that the steps of a dance change.
DanceType ==
  /\ LedTimer \in [callback_ptr : Callback, payload : Dances]
  /\ danc1_value \in {-1, 1} /\ count \in 0..Rounds /\ extra \in [Bounce -> 0..Last]
  /\ asked \in {0} \cup DOMAIN Selects

\* The parts that the bus changes.
BusType ==
  /\ I2C_0_register_address \in Nat /\ I2C_0_cmd \in Nat
  /\ bus \in Seq(Nat) /\ writes \in 0..MaxWrites
  /\ written \in Writes \cup {<<>>}

Failures == hung \in BOOLEAN /\ mixed \in BOOLEAN

LEMMA TypeParts == TypeOK <=> DanceType /\ BusType /\ Failures /\ Flags
BY Zenon DEF TypeOK, DanceType, BusType, Failures, Flags

\* The step queueNext chooses is one of the dances.
LEMMA QueueNextType ==
  ASSUME NEW data \in Dances \cup {NoDance}, queueNext(data)
  PROVE  LedTimer' \in [callback_ptr : Callback, payload : Dances]
BY DanceAssumption DEF queueNext, Callback

\* The light of a bounce stays between 0 and Last: both ends turn it back.
LEMMA BounceStepType ==
  ASSUME DanceType, NEW data \in Bounce, BounceStep(data)
  PROVE  /\ LedTimer' \in [callback_ptr : Callback, payload : Dances]
         /\ danc1_value' \in {-1, 1} /\ count' \in 0..Rounds /\ extra' \in [Bounce -> 0..Last]
<1> DEFINE value == BounceTo(extra[data], danc1_value)
           rounds == IF extra[data] = 0 THEN count + 1 ELSE count
<1>1. /\ Last \in Nat \ {0} /\ Rounds \in Nat /\ extra[data] \in 0..Last
      /\ danc1_value \in {-1, 1} /\ count \in 0..Rounds /\ extra \in [Bounce -> 0..Last]
  BY DanceAssumption DEF DanceType
<1>2. value \in {-1, 1} /\ extra[data] + value \in 0..Last
  BY <1>1 DEF BounceTo
<1>3. rounds \in Nat
  BY <1>1
<1>4. data \in Dances /\ NextOf[data] \in Dances \cup {NoDance}
  BY DanceAssumption
<1>5. extra' = [extra EXCEPT ![data] = extra[data] + value]
  BY DEF BounceStep
<1>6. extra' \in [Bounce -> 0..Last]
  BY <1>1, <1>2, <1>5
<1>7. CASE rounds > Rounds
  BY <1>1, <1>4, <1>6, <1>7, QueueNextType DEF BounceStep
<1>8. CASE ~(rounds > Rounds)
  <2>1. danc1_value' = value /\ count' = rounds /\ queueNext(data)
    BY <1>8 DEF BounceStep
  <2> QED BY <1>1, <1>2, <1>3, <1>4, <1>6, <1>8, <2>1, QueueNextType
<1> QED BY <1>7, <1>8

LEMMA CallKeepsDanceType ==
  ASSUME DanceType, CallCallback
  PROVE  DanceType'
<1> DEFINE data == LedTimer.payload
<1>1. /\ data \in Dances /\ NextOf[data] \in Dances \cup {NoDance}
      /\ asked' = 0
  BY DanceAssumption DEF DanceType, CallCallback
<1>2. CASE data \in Bounce /\ BounceStep(data)
  BY <1>1, <1>2, BounceStepType DEF DanceType
<1>3. CASE OtherStep(data)
  <2>1. LedTimer' \in [callback_ptr : Callback, payload : Dances]
    BY <1>1, <1>3, QueueNextType DEF OtherStep
  <2> QED BY <1>1, <1>3, <2>1 DEF OtherStep, DanceType
<1> QED BY <1>2, <1>3 DEF CallCallback

LEMMA StepKeepsDanceType ==
  ASSUME DanceType, Next
  PROVE  DanceType'
<1>1. CASE UNCHANGED danceVars
  BY <1>1 DEF danceVars, DanceType
<1>2. CASE Command
  <2>1. CASE I2C_0_register_address \in DOMAIN Selects
    BY <1>2, <2>1, DanceAssumption DEF Command, DanceType, Callback
  <2>2. CASE I2C_0_register_address \notin DOMAIN Selects
    BY <1>2, <2>2 DEF Command, DanceType
  <2> QED BY <2>1, <2>2
<1>3. CASE CallCallback
  BY <1>3, CallKeepsDanceType
<1> QED
  BY <1>1, <1>2, <1>3 DEF Next, I2C_0_isr, MainLoop, BeginWrite, I2C_0_address_handler,
                          I2C_0_write_handler, AbortWrite, I2C_0_stop_handler,
     I2C_0_error_handler, Overflow, RtcInterrupt, NoCommand, ForgetCmd, ForgetRegister,
     TakeExpired, FindTimer, CutTimer, FindExpired, CutExpired, InsertTimer

LEMMA PairIsSequence ==
  ASSUME NEW first \in Nat, NEW second \in Nat
  PROVE  <<first, second>> \in Seq(Nat)
OBVIOUS

LEMMA StepKeepsBusType ==
  ASSUME BusType, Next
  PROVE  BusType'
<1>1. CASE UNCHANGED i2cVars
  BY <1>1 DEF i2cVars, BusType
<1>2. CASE BeginWrite
  <2>1. PICK w \in Writes : bus' = w /\ written' = w
    BY <1>2 DEF BeginWrite, I2C_0_address_handler
  <2>2. w \in Seq(Nat)
    <3>1. w \in Nat \X Nat
      BY WriteAssumption
    <3>2. w = <<w[1], w[2]>> /\ w[1] \in Nat /\ w[2] \in Nat
      BY <3>1
    <3> QED BY <3>2, PairIsSequence
  <2>3. writes' \in 0..MaxWrites
    BY <1>2, WriteAssumption DEF BeginWrite, I2C_0_address_handler, BusType
  <2>4. I2C_0_register_address' \in Nat /\ I2C_0_cmd' \in Nat
    BY <1>2 DEF BeginWrite, I2C_0_address_handler, BusType
  <2> QED BY <2>1, <2>2, <2>3, <2>4 DEF BusType
<1>3. CASE I2C_0_write_handler
  <2>1. bus # <<>> /\ bus \in Seq(Nat)
    BY <1>3 DEF I2C_0_write_handler, BusType
  <2>2. Head(bus) \in Nat /\ Tail(bus) \in Seq(Nat)
    BY <2>1
  <2> QED BY <1>3, <2>2 DEF I2C_0_write_handler, BusType
<1>4. CASE AbortWrite
  BY <1>4 DEF AbortWrite, I2C_0_stop_handler, BusType
<1>5. CASE I2C_0_error_handler
  BY <1>5 DEF I2C_0_error_handler, BusType
<1>6. CASE ForgetCmd
  BY <1>6 DEF ForgetCmd, BusType, NONE
<1>7. CASE ForgetRegister
  BY <1>7 DEF ForgetRegister, BusType, NONE
<1> QED
  BY <1>1, <1>2, <1>3, <1>4, <1>5, <1>6, <1>7 DEF Next, I2C_0_isr, MainLoop, Overflow, RtcInterrupt,
     NoCommand, Command, TakeExpired, CallCallback, FindTimer, CutTimer, FindExpired,
     CutExpired, InsertTimer

LEMMA StepKeepsFailures ==
  ASSUME Failures, Next
  PROVE  Failures'
<1>1. CASE UNCHANGED i2cVars
  BY <1>1 DEF i2cVars, Failures
<1>2. CASE BeginWrite \/ I2C_0_write_handler \/ AbortWrite \/ I2C_0_error_handler
  BY <1>2 DEF BeginWrite, I2C_0_address_handler, I2C_0_write_handler, AbortWrite,
              I2C_0_stop_handler, I2C_0_error_handler, Failures
<1>3. CASE ForgetCmd \/ ForgetRegister
  BY <1>3 DEF ForgetCmd, ForgetRegister, Failures
<1> QED
  BY <1>1, <1>2, <1>3 DEF Next, I2C_0_isr, MainLoop, Overflow, RtcInterrupt,
     NoCommand, Command, TakeExpired, CallCallback, FindTimer, CutTimer, FindExpired,
     CutExpired, InsertTimer

\* Every variable keeps its type: above all, the light of a bounce never runs
\* past the last case of its switch, and no count of rounds past Rounds.
THEOREM TypeCorrect == Spec => []TypeOK
<1>1. Init => DanceType /\ BusType /\ Failures
  <2>1. Init => DanceType
    BY DanceAssumption DEF Init, DanceType, Callback
  <2>2. Init => BusType
    BY WriteAssumption DEF Init, setupSlave, BusType, NONE
  <2>3. Init => Failures
    BY DEF Init, setupSlave, Failures
  <2> QED BY <2>1, <2>2, <2>3
<1>2. (DanceType /\ BusType /\ Failures) /\ [Next]_vars => (DanceType /\ BusType /\ Failures)'
  <2>1. CASE Next
    BY <2>1, StepKeepsDanceType, StepKeepsBusType, StepKeepsFailures
  <2>2. CASE UNCHANGED vars
    BY <2>2 DEF vars, i2cVars, danceVars, DanceType, BusType, Failures
  <2> QED BY <2>1, <2>2
<1>3. IInv /\ DanceType /\ BusType /\ Failures => TypeOK
  BY TypeParts DEF IInv
<1> QED BY <1>1, <1>2, <1>3, Invariant, PTL DEF Spec

-----------------------------------------------------------------------------
(* The bus and the two assignments that forget a command. *)

\* The master never writes the mark of a register or command that is not there.
NoMarks == \A w \in Writes : w[1] # NONE /\ w[2] # NONE

Idle == I2C_0_register_address = NONE /\ I2C_0_cmd = NONE /\ bus \in {<<>>, written}
HalfWritten ==
  /\ written \in Writes /\ I2C_0_register_address = written[1] /\ I2C_0_cmd = NONE
  /\ bus = <<written[2]>>
Commanded ==
  /\ written \in Writes /\ I2C_0_register_address = written[1] /\ I2C_0_cmd = written[2]
  /\ bus = <<>>
HalfForgotten == I2C_0_cmd = NONE /\ bus = <<>>

\* Main has found a command and not begun to forget it.
InHand ==
  \/ at = "forgetCmd"
  \/ back = "forgetCmd" /\ at \in {"find", "cut", "findQueue", "cutQueue", "insert"}

\* Until a write goes wrong the bus is where main believes it to be.
BusInOrder ==
  ~mixed =>
    /\ written \in Writes \cup {<<>>}
    /\ IF at = "forgetRegister" THEN HalfForgotten ELSE Idle \/ HalfWritten \/ Commanded
    /\ InHand => Commanded

LEMMA WriteIsPair ==
  ASSUME NEW w \in Writes
  PROVE  /\ w # <<>> /\ Head(w) = w[1] /\ Tail(w) = <<w[2]>>
         /\ Head(<<w[2]>>) = w[2] /\ Tail(<<w[2]>>) = <<>> /\ <<w[2]>> # <<>>
         /\ w = <<w[1], w[2]>>
<1>1. w \in Nat \X Nat
  BY WriteAssumption
<1>2. PICK first \in Nat, second \in Nat : w = <<first, second>>
  BY <1>1
<1> QED BY <1>2

LEMMA BusKeepsOrder ==
  ASSUME NoMarks, BusInOrder, BeginWrite \/ I2C_0_write_handler \/ AbortWrite \/ I2C_0_error_handler
  PROVE  BusInOrder'
<1> SUFFICES ASSUME ~mixed' PROVE BusInOrder'
  BY DEF BusInOrder
<1>1. UNCHANGED <<at, back>>
  BY DEF BeginWrite, I2C_0_address_handler, I2C_0_write_handler, AbortWrite,
         I2C_0_stop_handler, I2C_0_error_handler
<1>2. ~AbortWrite
  BY DEF AbortWrite, I2C_0_stop_handler
<1>3. ~mixed
  BY DEF BeginWrite, I2C_0_address_handler, I2C_0_write_handler, AbortWrite,
         I2C_0_stop_handler, I2C_0_error_handler
<1>4. CASE I2C_0_error_handler
  BY <1>3, <1>4 DEF I2C_0_error_handler, BusInOrder, Idle, HalfWritten, Commanded, HalfForgotten, InHand
<1>5. CASE BeginWrite \/ I2C_0_write_handler
  <2>1. ~HandlingCommand
    BY <1>5 DEF BeginWrite, I2C_0_address_handler, I2C_0_write_handler
  <2>2. at # "forgetRegister" /\ ~Commanded
    BY <2>1 DEF HandlingCommand, Commanded, NoMarks
  <2>3. (Idle \/ HalfWritten) /\ ~InHand /\ written \in Writes \cup {<<>>}
    BY <1>3, <2>2 DEF BusInOrder
  <2>4. ~InHand'
    BY <1>1, <2>3 DEF InHand
  <2>5. CASE BeginWrite
    <3>1. bus = <<>> /\ UNCHANGED <<I2C_0_register_address, I2C_0_cmd>>
      BY <2>5 DEF BeginWrite, I2C_0_address_handler
    <3>2. PICK w \in Writes : bus' = w /\ written' = w
      BY <2>5 DEF BeginWrite, I2C_0_address_handler
    <3>3. Idle
      BY <2>3, <3>1, WriteIsPair DEF HalfWritten
    <3> QED BY <1>1, <2>2, <2>4, <3>1, <3>2, <3>3 DEF BusInOrder, Idle
  <2>6. CASE I2C_0_write_handler
    <3>1. bus # <<>> /\ bus' = Tail(bus) /\ written' = written
      BY <2>6 DEF I2C_0_write_handler
    <3>2. CASE Idle
      <4>1. bus = written /\ written \in Writes
        BY <2>3, <3>1, <3>2 DEF Idle
      <4>2. I2C_0_register_address' = Head(bus) /\ I2C_0_cmd' = NONE
        BY <2>6, <3>2 DEF I2C_0_write_handler, Idle
      <4>3. HalfWritten'
        BY <3>1, <4>1, <4>2, WriteIsPair DEF HalfWritten
      <4> QED BY <1>1, <2>2, <2>4, <4>1, <4>3, <3>1 DEF BusInOrder
    <3>3. CASE HalfWritten
      <4>1. I2C_0_register_address # NONE
        BY <3>3 DEF HalfWritten, NoMarks
      <4>2. I2C_0_register_address' = I2C_0_register_address /\ I2C_0_cmd' = Head(bus)
        BY <2>6, <3>3, <4>1 DEF I2C_0_write_handler, HalfWritten
      <4>3. Commanded'
        BY <3>1, <3>3, <4>2, WriteIsPair DEF HalfWritten, Commanded
      <4> QED BY <1>1, <2>2, <2>4, <3>1, <3>3, <4>3 DEF BusInOrder, HalfWritten
    <3> QED BY <2>3, <3>2, <3>3
  <2> QED BY <1>5, <2>5, <2>6
<1> QED BY <1>2, <1>4, <1>5

LEMMA MainKeepsOrder ==
  ASSUME NoMarks, IInv, BusInOrder, MainLoop \/ Overflow \/ RtcInterrupt \/ UNCHANGED vars
  PROVE  BusInOrder'
<1>1. UNCHANGED <<bus, written, mixed>>
  BY DEF MainLoop, Overflow, RtcInterrupt, vars, i2cVars, NoCommand, Command, ForgetCmd,
     ForgetRegister, TakeExpired, CallCallback, FindTimer, CutTimer, FindExpired, CutExpired,
     InsertTimer
<1> SUFFICES ASSUME ~mixed PROVE BusInOrder'
  BY <1>1 DEF BusInOrder
<1> DEFINE Same == UNCHANGED <<I2C_0_register_address, I2C_0_cmd>>
<1>2. ASSUME Same, at' # "forgetRegister", at # "forgetRegister", InHand' => Commanded
      PROVE  BusInOrder'
  BY <1>1, <1>2 DEF BusInOrder, Idle, HalfWritten, Commanded
<1>3. CASE Overflow \/ RtcInterrupt \/ UNCHANGED vars
  BY <1>1, <1>3 DEF Overflow, RtcInterrupt, vars, i2cVars, BusInOrder, Idle, HalfWritten,
     Commanded, HalfForgotten, InHand
<1>4. CASE NoCommand
  BY <1>2, <1>4 DEF NoCommand, Main, i2cVars, InHand
<1>5. CASE Command
  <2>1. Same /\ at = "loop" /\ at' \in {"find", "forgetCmd"}
    BY <1>5 DEF Command, Main, i2cVars
  <2>2. Commanded
    BY <1>5, <2>1 DEF Command, BusInOrder, Idle, HalfWritten
  <2> QED BY <1>2, <2>1, <2>2
<1>6. CASE ForgetCmd
  <2>1. Commanded /\ at' = "forgetRegister" /\ I2C_0_cmd' = NONE
    BY <1>6 DEF ForgetCmd, Main, BusInOrder, InHand
  <2> QED BY <1>1, <2>1 DEF BusInOrder, HalfForgotten, Commanded, InHand
<1>7. CASE ForgetRegister
  <2>1. at = "forgetRegister" /\ at' = "poll" /\ I2C_0_register_address' = NONE
        /\ UNCHANGED I2C_0_cmd
    BY <1>7 DEF ForgetRegister, Main
  <2>2. HalfForgotten /\ written \in Writes \cup {<<>>}
    BY <2>1 DEF BusInOrder
  <2> QED BY <1>1, <2>1, <2>2 DEF BusInOrder, HalfForgotten, Idle, InHand
<1>8. CASE TakeExpired
  BY <1>2, <1>8 DEF TakeExpired, Main, i2cVars, InHand
<1>9. CASE CallCallback
  BY <1>2, <1>9 DEF CallCallback, Main, i2cVars, InHand
<1>10. CASE FindTimer \/ CutTimer \/ FindExpired \/ CutExpired \/ InsertTimer
  <2>1. /\ Same /\ UNCHANGED back
        /\ at \in {"find", "cut", "findQueue", "cutQueue", "insert"}
        /\ at' \in {"cut", "findQueue", "cutQueue", "insert", back}
    BY <1>10 DEF FindTimer, CutTimer, FindExpired, CutExpired, InsertTimer, Main, i2cVars
  <2>2. InHand => Commanded
    BY DEF BusInOrder
  <2>3. InHand' => InHand
    BY <2>1 DEF InHand
  <2>4. back # "forgetRegister"
    BY DEF IInv, Flags
  <2> QED BY <1>2, <2>1, <2>2, <2>3, <2>4
<1> QED BY <1>3, <1>4, <1>5, <1>6, <1>7, <1>8, <1>9, <1>10 DEF MainLoop

(***************************************************************************)
(* For a master that never writes 0xff, the mark of nothing: main.c acts   *)
(* on each command as it was written and once, unless a byte comes while   *)
(* it handles one or a write is broken off; however many writes there are  *)
(* and whatever the timer's interrupt does meanwhile.                      *)
(***************************************************************************)
THEOREM WritesActedOn ==
  ASSUME NoMarks
  PROVE  Spec => []ActsOnWrites
<1>1. Init => BusInOrder
  BY DEF Init, setupSlave, BusInOrder, Idle, InHand
<1>2. IInv /\ BusInOrder /\ [Next]_vars => BusInOrder'
  BY BusKeepsOrder, MainKeepsOrder DEF Next, I2C_0_isr
<1>3. BusInOrder => ActsOnWrites
  <2> SUFFICES ASSUME BusInOrder, ~mixed, at \in {"loop", "poll"} PROVE ActsOnWrites
    BY DEF ActsOnWrites
  <2>1. Idle \/ HalfWritten \/ Commanded
    BY DEF BusInOrder
  <2>2. Commanded => <<I2C_0_register_address, I2C_0_cmd>> = written /\ bus = <<>>
                      /\ I2C_0_register_address # NONE
    BY WriteIsPair DEF Commanded, NoMarks
  <2> QED BY <2>1, <2>2 DEF ActsOnWrites, Idle, HalfWritten
<1> QED BY <1>1, <1>2, <1>3, Invariant, PTL DEF Spec

-----------------------------------------------------------------------------
(***************************************************************************)
(* The lights of the dances: machine-checked proofs about LedDance, for    *)
(* any draws, lengths of the dances, commands and turns of the main loop.  *)
(***************************************************************************)

LedFunctionNames ==
  {"turnAll", "turnOnHalf", "turnOnEveryN", "turnOnOffRandom", "turnOnRandom", "danceVertical",
   "danceVerticalCylon", "danceHorizonal", "danceRain", "stareV", "stareH"}

\* The table: what next and ExtraData may be.
LEMMA TableRows ==
  ASSUME NEW d \in LedDances
  PROVE  /\ Table[d].light \in LedFunctionNames
         /\ Table[d].next \in LedDances \cup {None}
         /\ Table[d].light \in {"turnOnHalf", "turnOnRandom", "stareV", "stareH"} =>
              Table[d].ExtraData \in {0, 1, 255}
         /\ Table[d].light \in Bouncing => Table[d].ExtraData \in {0, 1}
BY DEF LedDances, Table, LedDanceFun, LedFunctionNames, None, Bouncing

LEMMA NoneIsNoDance == None \notin LedDances
BY DEF LedDances, Table, LedDanceFun, None

LEMMA SelectsDances == \A r \in Registers : LedSelects[r] \in LedDances
BY LedAssumption DEF LedDances, Table, LedDanceFun, LedSelects

LEMMA InitialOFFRow ==
  /\ "InitialOFF" \in LedDances
  /\ Table["InitialOFF"].ExtraData = 0 /\ Table["InitialOFF"].light = "turnOnRandom"
BY DEF LedDances, Table, LedDanceFun

\* The callback is the payload's own, but for the one main begins with and those
\* that commands give.
LedTimerSet ==
  /\ payload \in LedDances
  /\ \/ callback = Table[payload].light
     \/ callback = "turnAll"
     \/ callback = "stareV" /\ payload = "InitialOFF"

\* Every bounce is at a place of its function.
LedPlaces ==
  /\ led_ExtraData \in [Bounces -> 0..7]
  /\ \A d \in Bounces : led_ExtraData[d] <= LastPlace(d)
  /\ led_danc1_value \in [Bouncing -> {-1, 1}]

Counts == led_count \in [Counting -> Nat] /\ \A f \in Bouncing : led_count[f] <= LedRounds

LedCounts ==
  /\ Counts
  /\ turns \in 0..MaxTurns /\ commands \in 0..MaxCommands /\ swept \in 0..10

Levels == LEDS \in [Led -> {0, 1, 255}] /\ led \in Led

LedStatics == LedTimerSet /\ LedPlaces /\ LedCounts /\ Levels

LEMMA LedStaticsInit == LedInit => LedStatics
<1> SUFFICES ASSUME LedInit PROVE LedStatics
  OBVIOUS
<1>1. LedTimerSet
  BY InitialOFFRow DEF LedInit, LedTimerSet
<1>2. LedPlaces
  BY TableRows DEF LedInit, LedPlaces, Bounces, LastPlace
<1>3. LedCounts
  BY LedAssumption DEF LedInit, LedCounts, Counts, Counting
<1>4. Levels
  BY DEF LedInit, Levels, Led, TOTAL_LEDS
<1> QED BY <1>1, <1>2, <1>3, <1>4 DEF LedStatics

\* queueNext sets the timer to a dance of the table.
LEMMA QueueNextSets ==
  ASSUME NEW d \in LedDances \cup {None}, queueNextLed(d)
  PROVE  LedTimerSet'
<1>1. PICK e \in (IF d = None THEN Begins ELSE {d}) : payload' = e /\ callback' = Table[e].light
  BY DEF queueNextLed
<1>2. e \in LedDances
  BY <1>1, LedAssumption DEF LedSequences
<1> QED BY <1>1, <1>2 DEF LedTimerSet

LEMMA ContinueSets ==
  ASSUME LedTimerSet, Continue \/ queueNextLed(payload)
  PROVE  LedTimerSet'
BY QueueNextSets, TableRows DEF LedTimerSet, Continue

\* What a bounce does to its place.
LEMMA BounceKeeps ==
  ASSUME LedStatics, NEW f \in Bouncing, NEW last, NEW switched,
         last = (IF f = "danceHorizonal" THEN 5 ELSE 7),
         callback = f, LedBounce(f, last, switched)
  PROVE  LedTimerSet' /\ LedPlaces' /\ Counts'
<1>1. payload \in Bounces /\ Table[payload].light = f /\ LastPlace(payload) = last
  BY DEF LedStatics, LedTimerSet, Bounces, Bouncing, LastPlace
<1> DEFINE place == led_ExtraData[payload]
           value == Turn(place, last, led_danc1_value[f])
           rounds == IF place = 0 THEN led_count[f] + 1 ELSE led_count[f]
<1>2. place \in 0..last /\ led_danc1_value[f] \in {-1, 1} /\ led_count[f] \in Nat
  BY <1>1 DEF LedStatics, LedPlaces, LedCounts, Counts, Counting
<1>3. value \in {-1, 1} /\ place + value \in 0..last
  BY <1>2 DEF Turn
<1>4. led_ExtraData' = [led_ExtraData EXCEPT ![payload] = place + value]
  BY DEF LedBounce
<1>5. /\ \/ led_danc1_value' = [led_danc1_value EXCEPT ![f] = 1]
         \/ led_danc1_value' = [led_danc1_value EXCEPT ![f] = value]
      /\ \/ led_count' = [led_count EXCEPT ![f] = 0]
         \/ ~(rounds > LedRounds) /\ led_count' = [led_count EXCEPT ![f] = rounds]
      /\ Continue \/ queueNextLed(payload)
  BY DEF LedBounce
<1>6. LedTimerSet'
  BY <1>5, ContinueSets DEF LedStatics
<1>7. LedPlaces'
  <2>1. led_ExtraData' \in [Bounces -> 0..7]
    BY <1>1, <1>2, <1>3, <1>4 DEF LedStatics, LedPlaces, LastPlace
  <2>2. \A d \in Bounces : led_ExtraData'[d] <= LastPlace(d)
    BY <1>1, <1>2, <1>3, <1>4 DEF LedStatics, LedPlaces
  <2>3. led_danc1_value' \in [Bouncing -> {-1, 1}]
    BY <1>3, <1>5 DEF LedStatics, LedPlaces
  <2> QED BY <2>1, <2>2, <2>3 DEF LedPlaces
<1>8. Counts'
  <2>1. rounds \in Nat
    BY <1>2
  <2> QED BY <2>1, <1>5, LedAssumption DEF LedStatics, LedCounts, Counts, Counting
<1> QED BY <1>6, <1>7, <1>8


\* The three bounces.
LEMMA BouncesKeep ==
  ASSUME LedStatics,
         \/ callback = "danceVertical" /\ danceVertical
         \/ callback = "danceVerticalCylon" /\ danceVerticalCylon
         \/ callback = "danceHorizonal" /\ danceHorizonal
  PROVE  LedTimerSet' /\ LedPlaces' /\ Counts' /\ LEDS' \in [Led -> {0, 1, 255}]
<1>0. LEDS \in [Led -> {0, 1, 255}]
  BY DEF LedStatics, Levels
<1>1. CASE callback = "danceVertical" /\ danceVertical
  <2> DEFINE switched == Light(Column[led_ExtraData[payload]], Filled("danceVertical"))
  <2>1. switched \in [Led -> {0, 1, 255}]
    BY <1>0 DEF Light, Filled
  <2> HIDE DEF switched
  <2>2. LedBounce("danceVertical", 7, switched)
    BY <1>1 DEF danceVertical, switched
  <2>3. LEDS' = switched \/ LEDS' = LEDS
    BY <2>2 DEF LedBounce
  <2> QED BY <1>0, <1>1, <2>1, <2>2, <2>3, BounceKeeps DEF Bouncing
<1>2. CASE callback = "danceVerticalCylon" /\ danceVerticalCylon
  <2> DEFINE place == led_ExtraData[payload]
             switched == [i \in Led |-> IF i \in Column[place] THEN 255
                                        ELSE IF i \in Beside(place) THEN 0 ELSE LEDS[i]]
  <2>1. switched \in [Led -> {0, 1, 255}]
    BY <1>0
  <2> HIDE DEF switched
  <2>2. LedBounce("danceVerticalCylon", 7, switched)
    BY <1>2 DEF danceVerticalCylon, switched
  <2>3. LEDS' = switched \/ LEDS' = LEDS
    BY <2>2 DEF LedBounce
  <2> QED BY <1>0, <1>2, <2>1, <2>2, <2>3, BounceKeeps DEF Bouncing
<1>3. CASE callback = "danceHorizonal" /\ danceHorizonal
  <2> DEFINE row == {Row[led_ExtraData[payload]][n] : n \in 1..6}
             switched == Light(row, Filled("danceHorizonal"))
  <2>1. switched \in [Led -> {0, 1, 255}]
    BY <1>0 DEF Light, Filled
  <2> HIDE DEF switched
  <2>2. LedBounce("danceHorizonal", 5, switched)
    BY <1>3 DEF danceHorizonal, switched
  <2>3. LEDS' = switched \/ LEDS' = LEDS
    BY <2>2 DEF LedBounce
  <2> QED BY <1>0, <1>3, <2>1, <2>2, <2>3, BounceKeeps DEF Bouncing
<1> QED BY <1>1, <1>2, <1>3

\* The dances that do not touch the statics.
LEMMA PlainDancesKeep ==
  ASSUME LedStatics,
         \/ callback = "turnAll" /\ turnAll
         \/ callback = "turnOnHalf" /\ turnOnHalf
         \/ callback = "turnOnEveryN" /\ turnOnEveryN
         \/ callback = "turnOnRandom" /\ turnOnRandom
         \/ callback = "stareV" /\ stareV
         \/ callback = "stareH" /\ stareH
  PROVE  LedTimerSet' /\ LedPlaces' /\ Counts' /\ LEDS' \in [Led -> {0, 1, 255}]
<1>0. LEDS \in [Led -> {0, 1, 255}]
  BY DEF LedStatics, Levels
<1>1. Statics /\ (Continue \/ queueNextLed(payload))
  BY DEF turnAll, turnOnHalf, turnOnEveryN, turnOnRandom, stareV, stareH
<1>2. LedTimerSet'
  BY <1>1, ContinueSets DEF LedStatics
<1>3. LedPlaces' /\ Counts'
  BY <1>1 DEF Statics, LedStatics, LedPlaces, LedCounts, Counts
<1>4. callback \in {"turnOnHalf", "turnOnRandom", "stareV", "stareH"} => Data \in {0, 1, 255}
  <2> SUFFICES ASSUME callback \in {"turnOnHalf", "turnOnRandom", "stareV", "stareH"}
               PROVE  Data \in {0, 1, 255}
    OBVIOUS
  <2>1. /\ payload \in LedDances
        /\ \/ callback = Table[payload].light
           \/ payload = "InitialOFF" /\ callback = "stareV"
    <3>1. callback # "turnAll" /\ LedTimerSet
      BY DEF LedStatics
    <3> QED BY <3>1 DEF LedTimerSet
  <2>2. CASE payload \notin Bounces
    BY <2>1, <2>2, TableRows, InitialOFFRow DEF Data
  <2>3. CASE payload \in Bounces
    <3>1. Table[payload].light \in Bouncing
      BY <2>3 DEF Bounces
    <3>2. payload # "InitialOFF" /\ callback # Table[payload].light
      BY <3>1, InitialOFFRow DEF Bouncing
    <3> QED BY <2>1, <3>2
  <2> QED BY <2>2, <2>3
<1>5. CASE turnAll
  BY <1>5, <1>0, <1>2, <1>3 DEF turnAll
<1>6. CASE callback = "turnOnHalf" /\ turnOnHalf
  BY <1>6, <1>0, <1>2, <1>3, <1>4 DEF turnOnHalf
<1>7. CASE turnOnEveryN
  BY <1>7, <1>2, <1>3 DEF turnOnEveryN
<1>8. CASE callback = "turnOnRandom" /\ turnOnRandom
  <2>1. LEDS' \in [Led -> {0, 1, 255}]
    BY <1>8, <1>0, <1>4 DEF turnOnRandom
  <2> QED BY <2>1, <1>2, <1>3
<1>9. CASE callback = "stareV" /\ stareV
  BY <1>9, <1>2, <1>3, <1>4 DEF stareV, Only
<1>10. CASE callback = "stareH" /\ stareH
  BY <1>10, <1>2, <1>3, <1>4 DEF stareH, Only
<1> QED BY <1>5, <1>6, <1>7, <1>8, <1>9, <1>10

\* A LED that is not in the highest row has one above it.
LEMMA AboveIsLed ==
  ASSUME NEW i \in Led, ~ \E n \in 1..6 : i = Row[4][n]
  PROVE  Above(i) \in Led
<1>1. \E r \in 1..3, n \in 1..6 : i = Row[r][n]
  BY DEF Row, Led, TOTAL_LEDS
<1>2. \A r \in 1..3, n \in 1..6 : Row[r + 1][n] \in Led
  BY DEF Row, Led, TOTAL_LEDS
<1>3. \E j \in Led : \E r \in 1..3, n \in 1..6 : i = Row[r][n] /\ j = Row[r + 1][n]
  BY <1>1, <1>2
<1> QED BY <1>3 DEF Above

\* Those that count.
LEMMA CountedDancesKeep ==
  ASSUME LedStatics, turnOnOffRandom \/ danceRain
  PROVE  LedTimerSet' /\ LedPlaces' /\ Counts' /\ LEDS' \in [Led -> {0, 1, 255}]
<1>0. LEDS \in [Led -> {0, 1, 255}]
  BY DEF LedStatics, Levels
<1>1. UNCHANGED <<led_ExtraData, led_danc1_value>>
      /\ \E f \in Counting \ Bouncing, limit \in Nat : CountTo(f, limit)
  BY LedAssumption DEF turnOnOffRandom, danceRain, Counting, Bouncing
<1>2. Continue \/ queueNextLed(payload)
  BY <1>1 DEF CountTo
<1>3. Counts'
  <2>1. PICK f \in Counting \ Bouncing : \E limit \in Nat : CountTo(f, limit)
    BY <1>1
  <2>2. \E n \in Nat : led_count' = [led_count EXCEPT ![f] = n]
    BY <2>1 DEF CountTo, LedStatics, LedCounts, Counts
  <2> QED BY <2>1, <2>2 DEF LedStatics, LedCounts, Counts
<1>4. LedTimerSet' /\ LedPlaces'
  BY <1>1, <1>2, ContinueSets DEF LedStatics, LedPlaces
<1>5. CASE turnOnOffRandom
  BY <1>5, <1>0, <1>3, <1>4 DEF turnOnOffRandom
<1>6. CASE danceRain
  <2> DEFINE fallen == [i \in Led |-> IF \E n \in 1..6 : i = Row[4][n] THEN 0 ELSE LEDS[Above(i)]]
  <2>1. fallen \in [Led -> {0, 1, 255}]
    BY <1>0, AboveIsLed
  <2> HIDE DEF fallen
  <2>2. \E drop \in Draws :
          LEDS' = IF drop < 6 THEN [fallen EXCEPT ![Row[4][drop + 1]] = 255] ELSE fallen
    BY <1>6 DEF danceRain, fallen
  <2>3. LEDS' \in [Led -> {0, 1, 255}]
    BY <2>1, <2>2
  <2> QED BY <2>3, <1>3, <1>4
<1> QED BY <1>5, <1>6

-----------------------------------------------------------------------------
(* The pins and the scan.                                                   *)

PortNames == {"A", "C", "D", "E", "F"}
PinNames == [port : PortNames, pin : Pin]
OtherPins == {PA0, PA2, PA3}

\* The LEDs have pins of their own.
LEMMA PinOfName ==
  ASSUME NEW i \in Led
  PROVE  PinOf(i) \in PinNames /\ PinOf(i) \notin OtherPins
BY DEF PinOf, LedFunctions, Led, TOTAL_LEDS, PinNames, PortNames, Pin, OtherPins, Name,
  PA0, PA2, PA3, LED1, LED2, LED3, LED4, LED5, LED6,
  LED7, LED8, LED9, LED10, LED11, LED12, LED13, LED14, LED15, LED16, LED17, LED18, LED19, LED20,
  LED21, LED22, LED23, LED24

LEMMA PinOfOne ==
  ASSUME NEW i \in Led, NEW j \in Led, PinOf(i) = PinOf(j)
  PROVE  i = j
BY DEF PinOf, LedFunctions, Led, TOTAL_LEDS, Name, LED1, LED2, LED3, LED4, LED5, LED6,
  LED7, LED8, LED9, LED10, LED11, LED12, LED13, LED14, LED15, LED16, LED17, LED18, LED19, LED20,
  LED21, LED22, LED23, LED24


LEMMA OtherNames == OtherPins \subseteq PinNames
BY DEF OtherPins, PinNames, PortNames, Pin, Name, PA0, PA2, PA3

\* From ports p to ports q the level of these names has been set, and nothing else.
LevelsSet(p, q, names, level) ==
  /\ q \in Ports
  /\ \A port \in PortNames : q[port].DIR = p[port].DIR /\ q[port].INVEN = p[port].INVEN
  /\ \A m \in PinNames :
       (m.pin \in q[m.port].OUT) <=> (IF m \in names THEN level ELSE m.pin \in p[m.port].OUT)

LEMMA SetLevelChanges ==
  ASSUME NEW p \in Ports, NEW n \in PinNames, NEW level \in BOOLEAN
  PROVE  LevelsSet(p, set_level(p, n, level), {n}, level)
<1> DEFINE q0 == [p[n.port] EXCEPT !.OUT = Bit(@, n.pin, level)]
<1>1. n.port \in PortNames /\ n.pin \in Pin /\ p[n.port] \in PortType
  BY DEF PinNames, Ports, PortNames
<1>2. q0 \in PortType /\ q0.DIR = p[n.port].DIR /\ q0.INVEN = p[n.port].INVEN
      /\ q0.OUT = Bit(p[n.port].OUT, n.pin, level)
  BY <1>1 DEF PortType, Bit
<1>3. set_level(p, n, level) = [p EXCEPT ![n.port] = q0]
  BY DEF set_level, set_pin_level
<1> HIDE DEF q0
<1>4. set_level(p, n, level) \in Ports
  BY <1>1, <1>2, <1>3 DEF Ports, PortNames
<1>5. \A q \in PortNames : set_level(p, n, level)[q] = IF q = n.port THEN q0 ELSE p[q]
  BY <1>3 DEF Ports, PortNames
<1>6. ASSUME NEW m \in PinNames
      PROVE  (m.pin \in set_level(p, n, level)[m.port].OUT) <=>
                                  (IF m = n THEN level ELSE m.pin \in p[m.port].OUT)
  <2>1. m.port \in PortNames /\ (m = n <=> m.port = n.port /\ m.pin = n.pin)
    BY DEF PinNames
  <2> QED BY <2>1, <1>2, <1>5 DEF Bit
<1> QED BY <1>2, <1>4, <1>5, <1>6 DEF LevelsSet

\* The same for several names.
LEMMA SetLevelsChanges ==
  ASSUME NEW p \in Ports, NEW names \in SUBSET PinNames, NEW level \in BOOLEAN
  PROVE  LevelsSet(p, set_levels(p, names, level), names, level)
<1> DEFINE out(q) == IF level THEN p[q].OUT \cup PinsAt(q, names) ELSE p[q].OUT \ PinsAt(q, names)
<1>1. DOMAIN p = PortNames /\ \A q \in PortNames : p[q] \in PortType
  BY DEF Ports, PortNames
<1>2. \A q \in PortNames : set_levels(p, names, level)[q] = [p[q] EXCEPT !.OUT = out(q)]
  BY <1>1 DEF set_levels
<1>3. \A q \in PortNames : out(q) \in SUBSET Pin
  BY <1>1 DEF PortType, PinsAt
<1>4. \A q \in PortNames : /\ set_levels(p, names, level)[q] \in PortType
                           /\ set_levels(p, names, level)[q].DIR = p[q].DIR
                           /\ set_levels(p, names, level)[q].INVEN = p[q].INVEN
                           /\ set_levels(p, names, level)[q].OUT = out(q)
  <2> SUFFICES ASSUME NEW q \in PortNames
               PROVE  /\ set_levels(p, names, level)[q] \in PortType
                      /\ set_levels(p, names, level)[q].DIR = p[q].DIR
                      /\ set_levels(p, names, level)[q].INVEN = p[q].INVEN
                      /\ set_levels(p, names, level)[q].OUT = out(q)
    OBVIOUS
  <2> HIDE DEF out
  <2>1. /\ p[q] \in PortType /\ out(q) \in SUBSET Pin
        /\ set_levels(p, names, level)[q] = [p[q] EXCEPT !.OUT = out(q)]
    BY <1>1, <1>2, <1>3
  <2> QED BY <2>1 DEF PortType
<1>5. set_levels(p, names, level) \in Ports
  BY <1>1, <1>4 DEF set_levels, Ports, PortNames
<1>6. ASSUME NEW m \in PinNames
      PROVE  (m.pin \in set_levels(p, names, level)[m.port].OUT) <=>
                                  (IF m \in names THEN level ELSE m.pin \in p[m.port].OUT)
  <2>1. m.port \in PortNames /\ m.pin \in Pin /\ Name(m.port, m.pin) = m
    BY DEF PinNames, Name
  <2>2. m.pin \in PinsAt(m.port, names) <=> m \in names
    BY <2>1 DEF PinsAt
  <2> QED BY <2>1, <2>2, <1>4
<1> QED BY <1>4, <1>5, <1>6 DEF LevelsSet


\* Every pin low, none inverted.
AllLow(p) == p \in Ports /\ \A q \in PortNames : p[q].OUT = {} /\ p[q].INVEN = {}

\* The set up keeps them so and makes outputs of pins.
LEMMA OutputLow ==
  ASSUME NEW p, AllLow(p), NEW n \in PinNames
  PROVE  AllLow(Output(p, n)) /\ \A q \in PortNames : p[q].DIR \subseteq Output(p, n)[q].DIR
<1> DEFINE d == [p[n.port] EXCEPT !.DIR = Bit(@, n.pin, TRUE)]
           p1 == [p EXCEPT ![n.port] = d]
<1>1. n.port \in PortNames /\ n.pin \in Pin /\ p \in Ports /\ p[n.port] \in PortType
  BY DEF PinNames, Ports, PortNames, AllLow
<1>2. d \in PortType /\ d.OUT = {} /\ d.INVEN = {} /\ p[n.port].DIR \subseteq d.DIR
  BY <1>1 DEF PortType, Bit, AllLow
<1>3. set_dir(p, n, "PORT_DIR_OUT") = p1
  BY DEF set_dir, set_pin_dir
<1> HIDE DEF d
<1>4. p1 \in Ports /\ \A q \in PortNames : p1[q] = IF q = n.port THEN d ELSE p[q]
  BY <1>1, <1>2 DEF Ports, PortNames
<1>5. Output(p, n) = set_level(p1, n, FALSE)
  BY <1>3 DEF Output
<1> HIDE DEF p1
<1> DEFINE e == [d EXCEPT !.OUT = Bit(@, n.pin, FALSE)]
<1>6. e \in PortType /\ e.OUT = {} /\ e.INVEN = {} /\ e.DIR = d.DIR
  BY <1>1, <1>2 DEF PortType, Bit
<1>7. set_level(p1, n, FALSE) = [p1 EXCEPT ![n.port] = e]
  BY <1>1, <1>4 DEF set_level, set_pin_level, Ports, PortNames
<1> HIDE DEF e
<1>8. Output(p, n) \in Ports
      /\ \A q \in PortNames : Output(p, n)[q] = IF q = n.port THEN e ELSE p[q]
  BY <1>1, <1>4, <1>5, <1>6, <1>7 DEF Ports, PortNames
<1>9. AllLow(Output(p, n))
  BY <1>6, <1>8, <1>2 DEF AllLow
<1>10. \A q \in PortNames : p[q].DIR \subseteq Output(p, n)[q].DIR
  BY <1>2, <1>6, <1>8
<1> QED BY <1>9, <1>10

LEMMA BusLineLow ==
  ASSUME NEW p, AllLow(p), NEW n \in PinNames
  PROVE  AllLow(BusLine(p, n)) /\ \A q \in PortNames : p[q].DIR \subseteq BusLine(p, n)[q].DIR
<1> DEFINE o == Output(p, n)
           r == [o[n.port] EXCEPT !.PULLUPEN = Bit(@, n.pin, FALSE)]
           s == [r EXCEPT !.INVEN = Bit(@, n.pin, FALSE)]
           u == [s EXCEPT !.ISC[n.pin] = "INTDISABLE"]
<1>1. AllLow(o) /\ \A q \in PortNames : p[q].DIR \subseteq o[q].DIR
  BY OutputLow
<1> HIDE DEF o
<1>2. n.port \in PortNames /\ n.pin \in Pin /\ o \in Ports /\ o[n.port] \in PortType
  BY <1>1 DEF PinNames, Ports, PortNames, AllLow
<1>3. r \in PortType /\ r.OUT = {} /\ r.INVEN = {} /\ r.DIR = o[n.port].DIR
  BY <1>1, <1>2 DEF PortType, Bit, AllLow
<1> HIDE DEF r
<1>4. s \in PortType /\ s.OUT = {} /\ s.INVEN = {} /\ s.DIR = o[n.port].DIR
  BY <1>2, <1>3 DEF PortType, Bit
<1> HIDE DEF s
<1>5. u \in PortType /\ u.OUT = {} /\ u.INVEN = {} /\ u.DIR = o[n.port].DIR
  BY <1>2, <1>4 DEF PortType, ISC
<1> HIDE DEF u
<1>6. set_pull_mode(o, n, "PORT_PULL_OFF") = [o EXCEPT ![n.port] = r]
  BY <1>2 DEF set_pull_mode, set_pin_pull_mode, r
<1>7. set_inverted([o EXCEPT ![n.port] = r], n, FALSE) = [o EXCEPT ![n.port] = s]
  BY <1>2 DEF set_inverted, pin_set_inverted, s, Ports, PortNames
<1>8. set_isc([o EXCEPT ![n.port] = s], n, "INTDISABLE") = [o EXCEPT ![n.port] = u]
  BY <1>2 DEF set_isc, pin_set_isc, u, Ports, PortNames
<1>9. BusLine(p, n) = [o EXCEPT ![n.port] = u]
  BY <1>6, <1>7, <1>8 DEF BusLine, o
<1> QED BY <1>1, <1>2, <1>5, <1>9 DEF AllLow, Ports, PortNames

\* driver_init.c makes the pin of every LED an output.
LEMMA LedsSetUp ==
  AllLow(system_init) /\ \A i \in Led : PinOf(i).pin \in system_init[PinOf(i).port].DIR
<1> DEFINE names == PortA \cup PortC \cup PortD \cup PortE \cup PortF
           p0 == Outputs(PortsReset, names)
           p1 == PWM_0_initialization(p0)
           p2 == BusLine(p1, PA3)
<1>1. AllLow(PortsReset)
  BY DEF AllLow, PortsReset, Ports, PortNames, PortReset, PortType, ISC
<1>2. \A q \in PortNames : p0[q] = [PortsReset[q] EXCEPT !.DIR = PinsAt(q, names), !.OUT = {}]
  BY DEF Outputs, PortsReset, PortReset, PortNames
<1>3. \A i \in Led : PinOf(i) \in names
  BY DEF PinOf, LedFunctions, Led, TOTAL_LEDS, PortA, PortC, PortD, PortE, PortF
<1> HIDE DEF names
<1>4. AllLow(p0)
  <2>1. ASSUME NEW q \in PortNames
        PROVE  p0[q] \in PortType /\ p0[q].OUT = {} /\ p0[q].INVEN = {}
    <3>1. PortsReset[q] \in PortType /\ PortsReset[q].INVEN = {}
      BY <1>1 DEF AllLow, Ports, PortNames
    <3>2. PinsAt(q, names) \in SUBSET Pin
      BY DEF PinsAt
    <3>3. p0[q] = [PortsReset[q] EXCEPT !.DIR = PinsAt(q, names), !.OUT = {}]
      BY <1>2
    <3> HIDE DEF p0
    <3> QED BY <3>1, <3>2, <3>3 DEF PortType
  <2>2. p0 \in Ports
    BY <2>1 DEF Outputs, PortsReset, Ports, PortNames
  <2> QED BY <2>1, <2>2 DEF AllLow
<1>5. \A i \in Led : PinOf(i).pin \in p0[PinOf(i).port].DIR
  <2> SUFFICES ASSUME NEW i \in Led PROVE PinOf(i).pin \in p0[PinOf(i).port].DIR
    OBVIOUS
  <2>1. PinOf(i) \in PinNames /\ PinOf(i) \in names
    BY <1>3, PinOfName
  <2>2. PinOf(i).port \in PortNames /\ PinOf(i).pin \in PinsAt(PinOf(i).port, names)
    BY <2>1 DEF PinNames, PinsAt, Name
  <2> QED BY <2>2, <1>1, <1>2 DEF AllLow, Ports, PortNames, PortType
<1> HIDE DEF p0
<1>6. PA0 \in PinNames /\ PA2 \in PinNames /\ PA3 \in PinNames
  BY OtherNames DEF OtherPins
<1>7. AllLow(p1) /\ \A q \in PortNames : p0[q].DIR \subseteq p1[q].DIR
  BY <1>4, <1>6, OutputLow DEF PWM_0_initialization
<1> HIDE DEF p1
<1>8. AllLow(p2) /\ \A q \in PortNames : p1[q].DIR \subseteq p2[q].DIR
  BY <1>6, <1>7, BusLineLow
<1> HIDE DEF p2
<1>9. system_init = BusLine(p2, PA2)
  BY DEF system_init, I2C_0_initialization, p2, p1, p0, names
<1>10. AllLow(system_init) /\ \A q \in PortNames : p2[q].DIR \subseteq system_init[q].DIR
  BY <1>6, <1>8, <1>9, BusLineLow
<1>11. \A i \in Led : PinOf(i).port \in PortNames
  BY PinOfName DEF PinNames
<1> QED BY <1>5, <1>7, <1>8, <1>10, <1>11


\* How many turns ago LED i had its turn.
TurnsAgo(i) == IF i < led THEN led - i ELSE led + TOTAL_LEDS - i

\* Those that had their turn since the last callback are shown.
Shown == \A i \in Led : TurnsAgo(i) <= turns => (On(ports, PinOf(i)) <=> LEDS[i] > 0)

\* The set up outlasts the dances.
PinsKept ==
  /\ ports \in Ports
  /\ \A q \in PortNames : ports[q].INVEN = {}
  /\ \A i \in Led : PinOf(i).pin \in ports[PinOf(i).port].DIR
  /\ \A n \in OtherPins : n.pin \notin ports[n.port].OUT

LEMMA OnIsOut ==
  ASSUME PinsKept
  PROVE  /\ \A i \in Led : On(ports, PinOf(i)) <=> PinOf(i).pin \in ports[PinOf(i).port].OUT
         /\ \A n \in OtherPins : ~On(ports, n)
<1>1. \A i \in Led : PinOf(i).port \in PortNames
  BY PinOfName DEF PinNames
<1>2. \A n \in OtherPins : n.port \in PortNames
  BY OtherNames DEF PinNames
<1> QED BY <1>1, <1>2 DEF PinsKept, On, Driven

\* A turn shows one LED and leaves the others as they are.
LEMMA RefreshShows ==
  ASSUME LedStatics, PinsKept, Shown, Refresh
  PROVE  PinsKept' /\ Shown'
<1> DEFINE level == LEDS[led] > 0
<1>1. led \in Led /\ PinOf(led) \in PinNames /\ ports \in Ports /\ level \in BOOLEAN
  BY PinOfName DEF LedStatics, Levels, PinsKept
<1>2. ports' = set_level(ports, PinOf(led), level)
  BY DEF Refresh
<1> HIDE DEF level
<1>3. LevelsSet(ports, ports', {PinOf(led)}, level)
  BY <1>1, <1>2, SetLevelChanges
<1>4. \A i \in Led : PinOf(i) \in PinNames /\ PinOf(i).port \in PortNames
  BY PinOfName DEF PinNames
<1>5. PinsKept'
  <2>1. \A n \in OtherPins : n \in PinNames /\ n # PinOf(led)
    BY <1>1, OtherNames, PinOfName
  <2> QED BY <2>1, <1>3, <1>4 DEF PinsKept, LevelsSet
<1>6. \A i \in Led : (On(ports, PinOf(i)))' <=> (IF i = led THEN level ELSE On(ports, PinOf(i)))
  <2>1. \A i \in Led : (On(ports, PinOf(i)))' <=> PinOf(i).pin \in ports'[PinOf(i).port].OUT
    BY <1>4, <1>5 DEF PinsKept, On, Driven
  <2> QED BY <2>1, <1>1, <1>3, <1>4, OnIsOut, PinOfOne DEF LevelsSet
<1>7. /\ LEDS' = LEDS /\ turns' = turns + 1 /\ turns \in Nat /\ (level <=> LEDS[led] > 0)
      /\ led' = IF led + 1 >= TOTAL_LEDS THEN 0 ELSE led + 1
  BY LedAssumption DEF Refresh, NextLed, LedStatics, LedCounts, level
<1>8. ASSUME NEW i \in Led, TurnsAgo(i)' <= turns'
      PROVE  i = led \/ TurnsAgo(i) <= turns
  BY <1>1, <1>7, <1>8 DEF TurnsAgo, Led, TOTAL_LEDS
<1>9. Shown'
  BY <1>6, <1>7, <1>8 DEF Shown
<1> QED BY <1>5, <1>9

\* turnAll, the only callback that touches the pins.
LEMMA TurnAllKeepsPins ==
  ASSUME PinsKept, turnAll
  PROVE  PinsKept'
<1> DEFINE names == {PinOf(i) : i \in Led}
           level == Data # 0
<1>1. /\ names \in SUBSET PinNames /\ level \in BOOLEAN
      /\ \A n \in OtherPins : n \in PinNames /\ n \notin names
  BY PinOfName, OtherNames
<1>2. ports' = set_levels(ports, names, level)
  BY DEF turnAll
<1> HIDE DEF names, level
<1>3. LevelsSet(ports, ports', names, level)
  BY <1>1, <1>2, SetLevelsChanges DEF PinsKept
<1>4. \A i \in Led : PinOf(i).port \in PortNames
  BY PinOfName DEF PinNames
<1> QED BY <1>1, <1>3, <1>4 DEF PinsKept, LevelsSet

\* One of the functions is called.
LEMMA OneCallback ==
  ASSUME CallDance
  PROVE  /\ turns' = 0 /\ UNCHANGED <<led, commands>>
         /\ \/ callback = "turnAll" /\ turnAll
            \/ callback = "turnOnHalf" /\ turnOnHalf
            \/ callback = "turnOnEveryN" /\ turnOnEveryN
            \/ callback = "turnOnOffRandom" /\ turnOnOffRandom
            \/ callback = "turnOnRandom" /\ turnOnRandom
            \/ callback = "danceVertical" /\ danceVertical
            \/ callback = "danceVerticalCylon" /\ danceVerticalCylon
            \/ callback = "danceHorizonal" /\ danceHorizonal
            \/ callback = "danceRain" /\ danceRain
            \/ callback = "stareV" /\ stareV
            \/ callback = "stareH" /\ stareH
BY DEF CallDance

LEMMA CallKeepsStatics ==
  ASSUME LedStatics, CallDance
  PROVE  LedStatics'
<1>1. LedTimerSet' /\ LedPlaces' /\ Counts' /\ LEDS' \in [Led -> {0, 1, 255}]
  BY OneCallback, PlainDancesKeep, BouncesKeep, CountedDancesKeep
<1>2. swept' \in 0..10
  BY DEF CallDance, LedStatics, LedCounts
<1>3. turns' \in 0..MaxTurns /\ commands' = commands /\ led' = led
  BY OneCallback, LedAssumption
<1> QED BY <1>1, <1>2, <1>3 DEF LedStatics, LedCounts, Levels

LEMMA CallKeepsPins ==
  ASSUME PinsKept, CallDance
  PROVE  PinsKept'
<1>1. CASE turnAll
  BY <1>1, TurnAllKeepsPins
<1>2. CASE ports' = ports
  BY <1>2 DEF PinsKept
<1>3. turnAll \/ ports' = ports
  BY OneCallback DEF turnOnHalf, turnOnEveryN, turnOnOffRandom, turnOnRandom, danceVertical,
    danceVerticalCylon, danceHorizonal, LedBounce, danceRain, stareV, stareH
<1> QED BY <1>1, <1>2, <1>3

LEMMA CommandKeepsStatics ==
  ASSUME LedStatics, LedCommand
  PROVE  LedStatics'
<1>1. LedTimerSet'
  BY SelectsDances DEF LedCommand, LedTimerSet
<1> QED BY <1>1, LedAssumption
        DEF LedCommand, LedStatics, LedPlaces, LedCounts, Counts, Levels, leds

LEMMA RefreshKeepsStatics ==
  ASSUME LedStatics, Refresh
  PROVE  LedStatics'
<1>1. led' \in Led
  BY DEF Refresh, NextLed, LedStatics, Levels, Led, TOTAL_LEDS
<1>2. turns' \in 0..MaxTurns
  BY LedAssumption DEF Refresh, LedStatics, LedCounts, TOTAL_LEDS
<1> QED BY <1>1, <1>2 DEF Refresh, LedStatics, LedTimerSet, LedPlaces, LedCounts, Counts, Levels

\* The inductive invariant of the scan.
ScanInv == LedStatics /\ PinsKept /\ Shown

LEMMA ScanInvStep ==
  ASSUME ScanInv, [LedNext]_ledVars
  PROVE  ScanInv'
<1>1. CASE Refresh
  BY <1>1, RefreshShows, RefreshKeepsStatics DEF ScanInv
<1>2. CASE LedCommand
  BY <1>2, CommandKeepsStatics DEF ScanInv, LedCommand, leds, PinsKept, Shown, TurnsAgo
<1>3. CASE CallDance
  <2>1. \A i \in Led : ~(TurnsAgo(i)' <= turns')
    BY <1>3, OneCallback DEF ScanInv, LedStatics, Levels, TurnsAgo, Led, TOTAL_LEDS
  <2> QED BY <2>1, <1>3, CallKeepsStatics, CallKeepsPins DEF ScanInv, Shown
<1>4. CASE UNCHANGED ledVars
  BY <1>4 DEF ledVars, leds, ScanInv, LedStatics, LedTimerSet, LedPlaces, LedCounts, Counts,
    Levels, PinsKept, Shown, TurnsAgo
<1> QED BY <1>1, <1>2, <1>3, <1>4 DEF LedNext

LEMMA ScanInvInit == LedInit => ScanInv
<1> SUFFICES ASSUME LedInit PROVE ScanInv
  OBVIOUS
<1>1. PinsKept
  BY LedsSetUp, OtherNames DEF LedInit, AllLow, PinsKept, PinNames
<1>2. Shown
  BY DEF LedInit, Shown, TurnsAgo, Led, TOTAL_LEDS
<1> QED BY <1>1, <1>2, LedStaticsInit DEF ScanInv

LEMMA ScanInvHolds == LedSpec => []ScanInv
BY ScanInvInit, ScanInvStep, PTL DEF LedSpec

\* The variables of LedDance keep their types.
THEOREM LedTypesCorrect == LedSpec => []LedTypeOK
<1>1. ScanInv => LedTypeOK
  <2> SUFFICES ASSUME ScanInv PROVE LedTypeOK
    OBVIOUS
  <2>1. callback \in {Table[d].light : d \in LedDances}
    <3>1. Table["Initial"].light = "turnAll" /\ Table["StareV"].light = "stareV"
          /\ "Initial" \in LedDances /\ "StareV" \in LedDances
      BY DEF Table, LedDanceFun, LedDances
    <3>2. payload \in LedDances /\ callback \in {Table[payload].light, "turnAll", "stareV"}
      BY DEF ScanInv, LedStatics, LedTimerSet
    <3> QED BY <3>1, <3>2
  <2> QED BY <2>1 DEF ScanInv, LedStatics, LedTimerSet, LedPlaces, LedCounts, Counts, Levels,
        PinsKept, LedTypeOK
<1> QED BY <1>1, ScanInvHolds, PTL

(***************************************************************************)
(* main's loop: when every LED had its turn the pins show LEDS, and the    *)
(* pins of the bus and of the modulator stay low, whatever the dances do.  *)
(***************************************************************************)
THEOREM ScanAlwaysShows == LedSpec => []ScanShows
<1>1. ScanInv => ScanShows
  <2> SUFFICES ASSUME ScanInv PROVE ScanShows
    OBVIOUS
  <2>1. \A i \in Led : TurnsAgo(i) <= TOTAL_LEDS /\ TurnsAgo(i) \in Nat
    BY DEF ScanInv, LedStatics, Levels, TurnsAgo, Led, TOTAL_LEDS
  <2>2. turns \in Nat
    BY LedAssumption DEF ScanInv, LedStatics, LedCounts
  <2>3. turns >= TOTAL_LEDS => \A i \in Led : On(ports, PinOf(i)) <=> LEDS[i] > 0
    BY <2>1, <2>2 DEF ScanInv, Shown, TOTAL_LEDS
  <2>4. \A n \in OtherPins : ~On(ports, n)
    BY OnIsOut DEF ScanInv
  <2> QED BY <2>3, <2>4 DEF ScanShows, OtherPins
<1> QED BY <1>1, ScanInvHolds, PTL


(***************************************************************************)
(* No bounce gets to a place that its function has no case for, whatever   *)
(* directions and places commands left behind.                             *)
(***************************************************************************)
THEOREM BouncesStayInside == LedSpec => []BouncesInside
<1>1. ScanInv => BouncesInside
  <2> SUFFICES ASSUME ScanInv, NEW d \in Bounces PROVE led_ExtraData[d] \in 0..LastPlace(d)
    BY DEF BouncesInside
  <2>1. led_ExtraData[d] \in 0..7 /\ led_ExtraData[d] <= LastPlace(d)
    BY DEF ScanInv, LedStatics, LedPlaces
  <2> QED BY <2>1 DEF LastPlace
<1> QED BY <1>1, ScanInvHolds, PTL

-----------------------------------------------------------------------------
(* The sweep of danceVerticalCylon.  Its places from 0 to 7 and back are    *)
(* told as if it always went up: on the way down place p counts as 7 - p,   *)
(* and so does column c.                                                    *)

Onwards(up, x) == IF up THEN x ELSE 7 - x

\* How many steps before it goes on from place p a sweep last switched column c.
Since(p, c) ==
  IF p >= 2 /\ c <= p THEN (IF p - c >= 2 THEN p - c - 1 ELSE 1)
  ELSE p + (IF c >= 2 THEN c - 1 ELSE 1)

\* The column it has lit then.
LitBefore(p) == IF p >= 2 THEN p - 1 ELSE 1

Lit(c) == \A i \in Column[c] : LEDS[i] = 255
Dark(c) == \A i \in Column[c] : LEDS[i] = 0

CylonPlace == led_ExtraData[payload]
CylonUp == Turn(CylonPlace, 7, led_danc1_value["danceVerticalCylon"]) = 1

\* Every column that the steps in a row have reached is dark, but for the last one.
SweptColumns ==
  \A c \in 1..6 :
    Since(Onwards(CylonUp, CylonPlace), Onwards(CylonUp, c)) <= swept =>
      IF Onwards(CylonUp, c) = LitBefore(Onwards(CylonUp, CylonPlace)) THEN Lit(c) ELSE Dark(c)

CylonInv == ScanInv /\ CylonAlone /\ (callback = "danceVerticalCylon" => SweptColumns)

\* Every LED is in one column.
LEMMA ColumnsApart ==
  /\ \A c \in 1..6 : Column[c] \subseteq Led /\ Column[c] # {}
  /\ \A c, d \in 1..6 : \A i \in Column[c] : i \in Column[d] => c = d
  /\ \A i \in Led : \E c \in 1..6 : i \in Column[c]
  /\ DOMAIN Column = 1..6
BY DEF Column, Led, TOTAL_LEDS

LEMMA BesideColumn ==
  ASSUME NEW place \in 1..6, NEW i
  PROVE  i \in Beside(place) <=> \E c \in 1..6 : c \in {place - 1, place + 1} /\ i \in Column[c]
BY ColumnsApart DEF Beside

\* From any place on, a sweep has reached every column after ten steps.
LEMMA SinceBounded ==
  \A p \in 0..6, c \in 1..6 : Since(p, c) \in 1..10
BY DEF Since

\* A step at one of the places between the ends.
LEMMA SweepSwitches ==
  ASSUME NEW place \in 1..6, LEDS \in [Led -> {0, 1, 255}],
         LEDS' = [i \in Led |-> IF i \in Column[place] THEN 255
                                ELSE IF i \in Beside(place) THEN 0 ELSE LEDS[i]],
         NEW c \in 1..6
  PROVE  /\ c = place => Lit(c)'
         /\ c \in {place - 1, place + 1} => Dark(c)'
         /\ c \notin {place - 1, place, place + 1} => (Lit(c) => Lit(c)') /\ (Dark(c) => Dark(c)')
<1>1. \A i \in Column[c] : i \in Led /\ (i \in Column[place] <=> c = place)
                           /\ (i \in Beside(place) <=> c \in {place - 1, place + 1})
  BY ColumnsApart, BesideColumn
<1> QED BY <1>1 DEF Lit, Dark

\* What a step does to Since, and what to the column lit before.
LEMMA SinceGoesOn ==
  ASSUME NEW p \in 0..6, NEW c \in 1..6, NEW q, NEW d,
         \/ p < 6 /\ q = p + 1 /\ d = c
         \/ p = 6 /\ q = 0 /\ d = 7 - c
  PROVE  /\ p \in 1..6 /\ c = p => d = LitBefore(q)
         /\ p \in 1..6 /\ c \in {p - 1, p + 1} => d # LitBefore(q)
         /\ (p = 0 \/ c \notin {p - 1, p, p + 1}) =>
              Since(q, d) = Since(p, c) + 1 /\ (d = LitBefore(q) <=> c = LitBefore(p))
BY DEF Since, LitBefore

\* A step of the dance that repeats.
LEMMA SweepGoesOn ==
  ASSUME ScanInv, callback = "danceVerticalCylon", SweptColumns, CallDance, payload' = payload
  PROVE  callback' = "danceVerticalCylon" /\ SweptColumns'
<1> DEFINE value == Turn(CylonPlace, 7, led_danc1_value["danceVerticalCylon"])
           lit == [i \in Led |-> IF i \in Column[CylonPlace] THEN 255
                                 ELSE IF i \in Beside(CylonPlace) THEN 0 ELSE LEDS[i]]
           p == Onwards(CylonUp, CylonPlace)
           q == Onwards(CylonUp, CylonPlace)'
<1>1. /\ LedBounce("danceVerticalCylon", 7, lit)
      /\ swept' = IF swept < 10 THEN swept + 1 ELSE swept
  BY DEF CallDance, danceVerticalCylon, CylonPlace
<1>2. payload \in Bounces /\ Table[payload].light = "danceVerticalCylon"
  BY DEF ScanInv, LedStatics, LedTimerSet, Bounces, Bouncing
<1>3. /\ CylonPlace \in 0..7 /\ led_danc1_value["danceVerticalCylon"] \in {-1, 1}
      /\ swept \in 0..10 /\ LEDS \in [Led -> {0, 1, 255}]
      /\ led_ExtraData \in [Bounces -> 0..7] /\ led_danc1_value \in [Bouncing -> {-1, 1}]
  BY <1>2 DEF ScanInv, LedStatics, LedPlaces, LedCounts, Counts, Levels, CylonPlace, Bouncing
<1>4. /\ value \in {-1, 1} /\ (value = 1 <=> CylonUp)
      /\ CylonPlace = 0 => value = 1
      /\ CylonPlace = 7 => value = -1
  BY <1>3 DEF Turn, CylonUp
<1>5. CylonPlace' = CylonPlace + value
  BY <1>1, <1>2, <1>3 DEF LedBounce, CylonPlace
<1>6. led_danc1_value'["danceVerticalCylon"] = value
  <2>1. CASE CylonPlace = 0
    <3>1. value = 1
      BY <1>4, <2>1
    <3> QED BY <1>1, <1>3, <2>1, <3>1 DEF LedBounce, CylonPlace, Bouncing
  <2>2. CASE CylonPlace # 0
    <3>1. led_count["danceVerticalCylon"] \in Nat /\ led_count["danceVerticalCylon"] <= LedRounds
      BY DEF ScanInv, LedStatics, LedCounts, Counts, Counting, Bouncing
    <3>2. led_danc1_value' = [led_danc1_value EXCEPT !["danceVerticalCylon"] = value]
      BY <1>1, <2>2, <3>1, LedAssumption DEF LedBounce, CylonPlace
    <3> QED BY <1>3, <3>2 DEF Bouncing
  <2> QED BY <2>1, <2>2
<1>7. CylonPlace' \in 0..7 /\ (CylonUp' <=> CylonPlace' = 0 \/ (CylonPlace' # 7 /\ CylonUp))
  BY <1>3, <1>4, <1>5, <1>6 DEF Turn, CylonUp
<1>8. LEDS' = IF CylonPlace \in 1..6 THEN lit ELSE LEDS
  BY <1>1 DEF LedBounce, CylonPlace
<1>9. callback' = "danceVerticalCylon"
  <2>1. \E d \in LedDances \cup {None} : payload' = d /\ callback' = Table[d].light
    BY <1>1, TableRows, NoneIsNoDance, LedAssumption
       DEF LedBounce, Continue, queueNextLed, LedSequences, ScanInv, LedStatics, LedTimerSet
  <2> QED BY <2>1, <1>2
<1> HIDE DEF lit
<1>10. p \in 0..6
  BY <1>3, <1>4 DEF Onwards
<1>11. /\ CylonUp <=> CylonUp' => p < 6 /\ q = p + 1
       /\ ~(CylonUp <=> CylonUp') => p = 6 /\ q = 0
  BY <1>3, <1>4, <1>5, <1>7 DEF Onwards
<1> HIDE DEF p, q
<1>12. ASSUME NEW c \in 1..6, Since(q, Onwards(CylonUp', c)) <= swept'
       PROVE  IF Onwards(CylonUp', c) = LitBefore(q) THEN Lit(c)' ELSE Dark(c)'
  <2> DEFINE b == Onwards(CylonUp, c)
             d == Onwards(CylonUp', c)
  <2>1. b \in 1..6
    BY DEF Onwards
  <2>2. \/ p < 6 /\ q = p + 1 /\ d = b
        \/ p = 6 /\ q = 0 /\ d = 7 - b
    <3>1. CASE CylonUp /\ CylonUp'
      BY <1>11, <3>1 DEF Onwards
    <3>2. CASE ~CylonUp /\ ~CylonUp'
      BY <1>11, <3>2 DEF Onwards
    <3>3. CASE ~(CylonUp <=> CylonUp')
      BY <1>11, <3>3 DEF Onwards
    <3> QED BY <3>1, <3>2, <3>3
  <2>3. /\ p \in 1..6 <=> CylonPlace \in 1..6
        /\ b = p <=> c = CylonPlace
        /\ b \in {p - 1, p + 1} <=> c \in {CylonPlace - 1, CylonPlace + 1}
    BY <1>3 DEF Onwards, p
  <2>4. Since(q, d) <= swept' /\ swept' <= swept + 1 /\ swept' \in 0..10
    BY <1>1, <1>3, <1>12
  <2>5. Since(p, b) <= swept => IF b = LitBefore(p) THEN Lit(c) ELSE Dark(c)
    BY DEF SweptColumns, p
  <2> HIDE DEF b, d
  <2> SUFFICES IF d = LitBefore(q) THEN Lit(c)' ELSE Dark(c)'
    BY DEF d
  <2>6. CASE p \in 1..6 /\ b = p
    <3>1. d = LitBefore(q)
      BY <1>10, <2>1, <2>2, <2>6, SinceGoesOn
    <3>2. Lit(c)'
      BY <1>3, <1>8, <2>3, <2>6, SweepSwitches DEF lit
    <3> QED BY <3>1, <3>2
  <2>7. CASE p \in 1..6 /\ b \in {p - 1, p + 1}
    <3>1. d # LitBefore(q)
      BY <1>10, <2>1, <2>2, <2>7, SinceGoesOn
    <3>2. Dark(c)'
      BY <1>3, <1>8, <2>3, <2>7, SweepSwitches DEF lit
    <3> QED BY <3>1, <3>2
  <2>8. CASE p = 0 \/ b \notin {p - 1, p, p + 1}
    <3>1. Since(q, d) = Since(p, b) + 1 /\ (d = LitBefore(q) <=> b = LitBefore(p))
      BY <1>10, <2>1, <2>2, <2>8, SinceGoesOn
    <3>2. Since(p, b) <= swept
      <4>1. Since(p, b) \in 1..10
        BY <1>10, <2>1, SinceBounded
      <4> QED BY <4>1, <1>3, <2>4, <3>1
    <3>3. (Lit(c) => Lit(c)') /\ (Dark(c) => Dark(c)')
      <4>1. CASE p = 0
        BY <1>8, <1>10, <2>3, <4>1 DEF Lit, Dark
      <4>2. CASE p \in 1..6
        BY <1>3, <1>8, <2>3, <2>8, <4>2, SweepSwitches DEF lit
      <4> QED BY <1>10, <4>1, <4>2
    <3> QED BY <2>5, <3>1, <3>2, <3>3
  <2> QED BY <1>10, <2>6, <2>7, <2>8
<1>13. SweptColumns'
  BY <1>12 DEF SweptColumns, q
<1> QED BY <1>9, <1>13

LEMMA OnwardsPlace ==
  ASSUME ScanInv, callback = "danceVerticalCylon"
  PROVE  Onwards(CylonUp, CylonPlace) \in 0..6
<1>1. payload \in Bounces /\ Table[payload].light = "danceVerticalCylon"
  BY DEF ScanInv, LedStatics, LedTimerSet, Bounces, Bouncing
<1>2. CylonPlace \in 0..7 /\ led_danc1_value["danceVerticalCylon"] \in {-1, 1}
  BY <1>1 DEF ScanInv, LedStatics, LedPlaces, CylonPlace, Bouncing
<1> QED BY <1>2 DEF Onwards, CylonUp, Turn

\* Before the first step nothing is known of the columns.
LEMMA NoStepNoColumn ==
  ScanInv /\ callback = "danceVerticalCylon" /\ swept = 0 => SweptColumns
<1> SUFFICES ASSUME ScanInv, callback = "danceVerticalCylon", swept = 0, NEW c \in 1..6
             PROVE  ~(Since(Onwards(CylonUp, CylonPlace), Onwards(CylonUp, c)) <= swept)
  BY DEF SweptColumns
<1>1. Onwards(CylonUp, c) \in 1..6
  BY DEF Onwards
<1>2. Since(Onwards(CylonUp, CylonPlace), Onwards(CylonUp, c)) \in 1..10
  BY <1>1, OnwardsPlace, SinceBounded
<1> QED BY <1>2

\* After ten steps every column has been reached.
LEMMA TenStepsLeaveOne ==
  ScanInv /\ callback = "danceVerticalCylon" /\ SweptColumns => CylonAlone
<1> SUFFICES ASSUME ScanInv, callback = "danceVerticalCylon", SweptColumns, swept = 10
             PROVE  \E c \in DOMAIN Column : {i \in Led : LEDS[i] > 0} = Column[c]
  BY DEF CylonAlone
<1> DEFINE p == Onwards(CylonUp, CylonPlace)
           c == Onwards(CylonUp, LitBefore(p))
<1>1. p \in 0..6
  BY OnwardsPlace
<1> HIDE DEF p
<1>4. LitBefore(p) \in 1..6
  BY <1>1 DEF LitBefore
<1>5. c \in 1..6 /\ \A b \in 1..6 : /\ Onwards(CylonUp, b) \in 1..6
                                    /\ Onwards(CylonUp, b) = LitBefore(p) <=> b = c
  BY <1>4 DEF Onwards
<1> HIDE DEF c
<1>6. \A b \in 1..6 : IF b = c THEN Lit(b) ELSE Dark(b)
  BY <1>1, <1>5, SinceBounded DEF SweptColumns, p
<1>7. {i \in Led : LEDS[i] > 0} = Column[c]
  BY <1>5, <1>6, ColumnsApart DEF Lit, Dark
<1> QED BY <1>5, <1>7, ColumnsApart

\* The inductive invariant of the sweep.
LEMMA CylonInvStep ==
  ASSUME CylonInv, [LedNext]_ledVars
  PROVE  CylonInv'
<1>1. ScanInv'
  BY ScanInvStep DEF CylonInv
<1>2. CASE UNCHANGED <<LEDS, swept>> /\ callback' # "danceVerticalCylon"
  BY <1>1, <1>2 DEF CylonInv, CylonAlone
<1>3. CASE UNCHANGED <<LEDS, swept, callback, payload, led_ExtraData, led_danc1_value>>
  BY <1>1, <1>3 DEF CylonInv, CylonAlone, SweptColumns, CylonUp, CylonPlace, Lit, Dark
<1>4. CASE CallDance
  <2>1. CASE callback = "danceVerticalCylon" /\ payload' = payload
    <3>1. (callback = "danceVerticalCylon")' /\ SweptColumns'
      BY <1>4, <2>1, SweepGoesOn DEF CylonInv
    <3>2. CylonAlone'
      BY <1>1, <3>1, TenStepsLeaveOne, PTL
    <3> QED BY <1>1, <3>1, <3>2 DEF CylonInv
  <2>2. CASE ~(callback = "danceVerticalCylon" /\ payload' = payload)
    <3>1. (swept = 0)'
      BY <1>4, <2>2 DEF CallDance
    <3>2. (callback = "danceVerticalCylon" => SweptColumns)'
      BY <1>1, <3>1, NoStepNoColumn, PTL
    <3> QED BY <1>1, <3>1, <3>2 DEF CylonInv, CylonAlone
  <2> QED BY <2>1, <2>2
<1>5. LedNext => Refresh \/ LedCommand \/ CallDance
  BY DEF LedNext
<1> QED BY <1>2, <1>3, <1>4, <1>5 DEF Refresh, LedCommand, leds, ledVars, CylonInv

(***************************************************************************)
(* Ten steps of danceVerticalCylon in a row leave one column of LEDs on,   *)
(* whatever was on before and wherever the light began.                    *)
(***************************************************************************)
THEOREM CylonAlwaysAlone == LedSpec => []CylonAlone
<1>1. LedInit => CylonInv
  <2> SUFFICES ASSUME LedInit PROVE CylonInv
    OBVIOUS
  <2>1. ScanInv
    BY ScanInvInit
  <2>2. callback # "danceVerticalCylon" /\ CylonAlone
    BY DEF LedInit, CylonAlone
  <2> QED BY <2>1, <2>2 DEF CylonInv
<1>2. CylonInv /\ [LedNext]_ledVars => CylonInv'
  BY CylonInvStep
<1>3. CylonInv => CylonAlone
  BY DEF CylonInv
<1> QED BY <1>1, <1>2, <1>3, PTL DEF LedSpec
=============================================================================

----------------------------- MODULE Brainfuzz -----------------------------
(***************************************************************************)
(* The interpreter of the brainfuzz game (game_master.cpp, BFrun).  The    *)
(* object that holds it is laid out as one run of bytes:                   *)
(*   the tape with the key at its end, the program, the output.            *)
(* The pointer to the data stays in the tape, key included.  The pointer   *)
(* to the instruction follows jumps wherever they lead: a program of full  *)
(* length has no 0 behind it but the first byte of the output, and a "]"   *)
(* without its "[" looks for one in the tape.                              *)
(* A step is one turn of a loop.  What is before the tape or behind the    *)
(* output is not known: a run that gets there is "lost".                   *)
(***************************************************************************)
EXTENDS Integers, Sequences, FiniteSets

CONSTANTS
  BF_KEY_OFFSET,          \* 416
  Key,                    \* the 16 bytes of the key, in clear
  BF_MAX_LINE_BYTES,      \* 80
  OutputSize,             \* 512
  Byte,                   \* 256
  WinCount,               \* 250
  Right, Left, Plus, Minus, Dot, Open, Close,  \* "><+-.[]"
  Zed,                    \* 'z'
  Spells                  \* the programs that are tried

BF_INSTRUCTION_OFFSET == BF_KEY_OFFSET + Len(Key)
OUTPUT_OFFSET == BF_INSTRUCTION_OFFSET + BF_MAX_LINE_BYTES
END == OUTPUT_OFFSET + OutputSize
Doodles == {Right, Left, Plus, Minus, Dot, Open, Close}

ASSUME LayoutAssumption ==
  /\ BF_KEY_OFFSET \in Nat \ {0} /\ Key \in Seq(1..(Byte - 1))
  /\ BF_MAX_LINE_BYTES \in Nat \ {0} /\ OutputSize \in Nat \ {0}
  /\ Byte \in Nat \ {0} /\ WinCount \in Nat \ {0}
ASSUME DoodleAssumption ==
  /\ Doodles \subseteq 1..(Byte - 1) /\ Cardinality(Doodles) = 7
  /\ Zed \in 1..(Byte - 1) \ Doodles
ASSUME SpellAssumption == Spells \subseteq Seq(1..(Byte - 1))

VARIABLES
  doing,   \* "idle", "run", "forward" and "back" while a jump looks for its
           \* bracket, "lost"
  buf,     \* bf_buf and bf_output
  iptr, dptr, i, numz, bf_output_length,
  spell,   \* history: the program that runs
  from,    \* history: where a jump began
  clicked  \* history: the last run has won

bfVars == <<doing, buf, iptr, dptr, i, numz, bf_output_length, spell, from, clicked>>

BFInit ==
  /\ doing = "idle"
  /\ buf = [n \in 0..(END - 1) |-> 0]
  /\ iptr = BF_INSTRUCTION_OFFSET /\ dptr = 0 /\ i = 0
  /\ numz = 0 /\ bf_output_length = 0
  /\ spell = <<>> /\ from = BF_INSTRUCTION_OFFSET /\ clicked = FALSE

-----------------------------------------------------------------------------
BFverifyInput(data) ==
  /\ Len(data) <= BF_MAX_LINE_BYTES
  /\ \A n \in DOMAIN data : data[n] \in Doodles

\* The tape, the key in clear, the program, and an empty output.
Loaded(data) ==
  [n \in 0..(END - 1) |->
     IF n \in BF_KEY_OFFSET..(BF_INSTRUCTION_OFFSET - 1) THEN Key[n - BF_KEY_OFFSET + 1]
     ELSE IF n \in BF_INSTRUCTION_OFFSET..(BF_INSTRUCTION_OFFSET + Len(data) - 1)
     THEN data[n - BF_INSTRUCTION_OFFSET + 1]
     ELSE 0]

BFcommandHandler(data) ==
  /\ doing = "idle"
  /\ BFverifyInput(data)
  /\ doing' = "run"
  /\ buf' = Loaded(data)
  /\ iptr' = BF_INSTRUCTION_OFFSET /\ dptr' = 0
  /\ i' = 0 /\ numz' = 0 /\ bf_output_length' = 0
  /\ spell' = data /\ from' = BF_INSTRUCTION_OFFSET /\ clicked' = FALSE

\* What the run leaves behind is not looked at again, but for the last answer.
Stop ==
  /\ doing' = "idle"
  /\ clicked' = (numz = WinCount)
  /\ UNCHANGED <<buf, iptr, dptr, i, numz, bf_output_length, spell, from>>

Lost ==
  /\ doing' = "lost"
  /\ UNCHANGED <<buf, iptr, dptr, i, numz, bf_output_length, spell, from, clicked>>

Running(c) == doing = "run" /\ iptr \in 0..(END - 1) /\ buf[iptr] = c
NextInstruction == iptr' = iptr + 1 /\ UNCHANGED <<doing, spell, clicked>>
Keeps == UNCHANGED <<i, from>>

MoveRight ==
  /\ Running(Right)
  /\ dptr' = IF dptr + 1 >= BF_INSTRUCTION_OFFSET THEN 0 ELSE dptr + 1
  /\ NextInstruction /\ Keeps
  /\ UNCHANGED <<buf, numz, bf_output_length>>

MoveLeft ==
  /\ Running(Left)
  /\ dptr' = IF dptr - 1 < 0 THEN BF_INSTRUCTION_OFFSET - 1 ELSE dptr - 1
  /\ NextInstruction /\ Keeps
  /\ UNCHANGED <<buf, numz, bf_output_length>>

Count(c, n) ==
  /\ Running(c)
  /\ buf' = [buf EXCEPT ![dptr] = (@ + n) % Byte]
  /\ NextInstruction /\ Keeps
  /\ UNCHANGED <<dptr, numz, bf_output_length>>

\* Wrong variant: other bytes are not held against a z.
PutByteForgiving ==
  /\ Running(Dot) /\ bf_output_length < OutputSize
  /\ buf' = [buf EXCEPT ![OUTPUT_OFFSET + bf_output_length] = buf[dptr]]
  /\ bf_output_length' = bf_output_length + 1
  /\ numz' = IF buf[dptr] = Zed THEN numz + 1 ELSE numz
  /\ NextInstruction /\ Keeps
  /\ UNCHANGED dptr

\* Wrong variant: the instruction pointer stays where it is.
PutByteAgain ==
  /\ Running(Dot) /\ bf_output_length < OutputSize
  /\ buf' = [buf EXCEPT ![OUTPUT_OFFSET + bf_output_length] = buf[dptr]]
  /\ bf_output_length' = bf_output_length + 1
  /\ numz' = IF buf[dptr] = Zed /\ numz >= 0 THEN numz + 1 ELSE numz - 1
  /\ UNCHANGED <<doing, iptr, dptr, i, spell, from, clicked>>

PutByte ==
  /\ Running(Dot) /\ bf_output_length < OutputSize
  /\ buf' = [buf EXCEPT ![OUTPUT_OFFSET + bf_output_length] = buf[dptr]]
  /\ bf_output_length' = bf_output_length + 1
  /\ numz' = IF buf[dptr] = Zed /\ numz >= 0 THEN numz + 1 ELSE numz - 1
  /\ NextInstruction /\ Keeps
  /\ UNCHANGED dptr

\* bf_output has no limit: the next byte falls behind it.
PutByteOverrun == Running(Dot) /\ bf_output_length = OutputSize /\ Lost

EnterLoop ==
  /\ Running(Open) /\ buf[dptr] # 0
  /\ NextInstruction /\ Keeps
  /\ UNCHANGED <<buf, dptr, numz, bf_output_length>>

\* A jump begins to look for its bracket.
Jump(c, way, depth) ==
  /\ Running(c)
  /\ doing' = way
  /\ i' = depth
  /\ from' = iptr
  /\ UNCHANGED <<buf, iptr, dptr, numz, bf_output_length, spell, clicked>>

SkipLoop == buf[dptr] = 0 /\ Jump(Open, "forward", 1)
Repeat == Jump(Close, "back", -1)

\* Wrong variant: the next "]" ends the loop, whatever opened in between.
BracketFlat(n) == IF buf[n] = Close THEN -1 ELSE 0

Bracket(n) == IF buf[n] = Open THEN 1 ELSE IF buf[n] = Close THEN -1 ELSE 0

\* One byte on, towards the bracket; then the instruction behind it.
SkipOn ==
  /\ doing = "forward"
  /\ iptr + 1 < END
  /\ i' = i + Bracket(iptr + 1)
  /\ IF i' = 0 THEN iptr' = iptr + 2 /\ doing' = "run" ELSE iptr' = iptr + 1 /\ UNCHANGED doing
  /\ buf[iptr + 1] # 0
  /\ UNCHANGED <<buf, dptr, numz, bf_output_length, spell, from, clicked>>

\* One byte back; then the bracket itself, whose test is made again.
RepeatOn ==
  /\ doing = "back"
  /\ iptr > 0
  /\ buf[iptr - 1] # 0
  /\ i' = i + Bracket(iptr - 1)
  /\ iptr' = iptr - 1
  /\ doing' = IF i' = 0 THEN "run" ELSE "back"
  /\ UNCHANGED <<buf, dptr, numz, bf_output_length, spell, from, clicked>>

\* "Errrrrr....": a 0 came before the bracket.
NoBracket ==
  /\ \/ doing = "forward" /\ iptr + 1 < END /\ buf[iptr + 1] = 0
     \/ doing = "back" /\ iptr > 0 /\ buf[iptr - 1] = 0
  /\ Stop

\* The object ends before the bracket, or the program runs out of it.
RunAway ==
  /\ \/ doing = "forward" /\ iptr + 1 = END
     \/ doing = "back" /\ iptr = 0
     \/ doing = "run" /\ iptr = END
  /\ Lost

\* A byte that is no instruction is passed over.
PassOver ==
  /\ doing = "run" /\ iptr \in 0..(END - 1) /\ buf[iptr] \notin Doodles \cup {0}
  /\ NextInstruction /\ Keeps
  /\ UNCHANGED <<buf, dptr, numz, bf_output_length>>

EndOfProgram == Running(0) /\ Stop

BFrun ==
  \/ MoveRight \/ MoveLeft \/ Count(Plus, 1) \/ Count(Minus, Byte - 1)
  \/ PutByte \/ PutByteOverrun \/ EnterLoop \/ SkipLoop \/ Repeat
  \/ SkipOn \/ RepeatOn \/ NoBracket \/ RunAway \/ PassOver \/ EndOfProgram

BFNext == BFrun \/ \E data \in Spells : BFcommandHandler(data)

BFSpec == BFInit /\ [][BFNext]_bfVars

BFTypeOK ==
  /\ doing \in {"idle", "run", "forward", "back", "lost"}
  /\ buf \in [0..(END - 1) -> 0..(Byte - 1)]
  /\ iptr \in -1..END
  /\ dptr \in 0..(BF_INSTRUCTION_OFFSET - 1)
  /\ i \in Int
  /\ numz \in (-OutputSize)..OutputSize /\ bf_output_length \in 0..OutputSize
  /\ BFverifyInput(spell) /\ clicked \in BOOLEAN

-----------------------------------------------------------------------------
(* What a program means: brackets that match, a tape that is a ring. *)

Brackets(s, n, m, c) == Cardinality({k \in n..m : s[k] = c})
Even(s, n, m) == Brackets(s, n, m, Open) = Brackets(s, n, m, Close)

\* Every bracket has its partner.
Balanced(s) ==
  /\ Even(s, 1, Len(s))
  /\ \A n \in DOMAIN s : Brackets(s, 1, n, Open) >= Brackets(s, 1, n, Close)

Partners(s, n, m) ==
  /\ n < m /\ s[n] = Open /\ s[m] = Close /\ Even(s, n, m)
  /\ \A k \in n..(m - 1) : ~Even(s, n, k)

Clean == Balanced(spell) /\ Len(spell) < BF_MAX_LINE_BYTES

\* Where the program is; a jump is one step of it.
pc == (IF doing \in {"forward", "back"} THEN from ELSE iptr) - BF_INSTRUCTION_OFFSET + 1
tape == [n \in 0..(BF_INSTRUCTION_OFFSET - 1) |-> buf[n]]
output == [n \in 1..bf_output_length |-> buf[OUTPUT_OFFSET + n - 1]]

\* One instruction of a program, by its meaning.
Meaning ==
  LET c == spell[pc]
      ring == BF_INSTRUCTION_OFFSET
  IN /\ pc \in DOMAIN spell
     /\ dptr' = IF c = Right THEN (dptr + 1) % ring
                ELSE IF c = Left THEN (dptr + ring - 1) % ring ELSE dptr
     /\ tape' = IF c = Plus THEN [tape EXCEPT ![dptr] = (@ + 1) % Byte]
                ELSE IF c = Minus THEN [tape EXCEPT ![dptr] = (@ + Byte - 1) % Byte]
                ELSE tape
     /\ output' = IF c = Dot THEN Append(output, tape[dptr]) ELSE output
     /\ IF c = Open /\ tape[dptr] = 0 THEN Partners(spell, pc, pc' - 1)
        ELSE IF c = Close THEN Partners(spell, pc', pc)
        ELSE pc' = pc + 1

-----------------------------------------------------------------------------
(* Properties. *)

\* A program whose brackets match, and that is shorter than the limit, does
\* what it means, whatever its loops: it never leaves its own bytes.
AsWritten ==
  Clean /\ doing \notin {"idle", "lost"} =>
    \/ Meaning
    \/ doing' = "idle" /\ pc = Len(spell) + 1
    \/ doing' = "lost" /\ bf_output_length = OutputSize
RunsAsWritten == [][AsWritten]_<<doing \in {"idle", "lost"}, pc, dptr, tape, output>>

\* The puzzle is solved only by an output with WinCount more z than other
\* bytes, even if the program was damaged or ran on into its own output.
ClickIsEarned ==
  clicked =>
    Cardinality({n \in DOMAIN output : output[n] = Zed}) =
      WinCount + Cardinality({n \in DOMAIN output : output[n] # Zed})

\* A program without loops that is shorter than the limit comes to its end, so
\* that the game task takes other commands; one of full length may not.
LooplessEnds ==
  (/\ doing = "run"
   /\ Len(spell) < BF_MAX_LINE_BYTES
   /\ \A n \in DOMAIN spell : spell[n] \notin {Open, Close})
  ~> doing = "idle"
=============================================================================

# darknet 8 badge: TLA+ specifications

The DC27 badge of the dark network (`src/DC27`) is an ESP32 with a display, a
touch screen, buttons, a crypto chip and a serial pairing port, and a small
"top board" with its own microcontroller that makes LEDs dance.  This directory
holds TLA+ modules of the badge's logic, TLC configurations that check them on
small instances, and proofs, checked by TLAPS, of what holds for every instance.

Contents:
1. the system and its parts (inventory)
2. modules and the code they model
3. runs: questions, bounds, results
4. fairness
5. proofs
6. what the code does otherwise than it says (findings)
7. what is not modelled, and what is next (plan)

Paths below are relative to `src/DC27/firmware/main` unless they begin with
`top-board-firmware`.

## 1. The system and its parts

The ESP32 firmware is a handful of FreeRTOS tasks:

| task | code | talks to |
|---|---|---|
| application ("main") task: start up, then `DN8App::onRun` for ever | `dc27.cpp`, `app.cpp`, `menus/*` | touch and button queues, UART, I2C, NVS, WiFi task's queue |
| touch task, button interrupts | libesp, `buttons.cpp` | queues of the menus (10 slots; 4 in the settings and the badge info, 8 in the communications menu) |
| BLE stack's task, `BluetoothTask` | `ble.cpp` | game task's queue (3), its own queue (3) |
| `GameTask` | `game_master.cpp` | its queue (3), bluetooth task's queue (3), NVS |
| `WIFITask` and its `NPCInteractionTask` | `wifi.cpp`, `npc_interact.cpp` | their queues (3), the status queue of a menu (4), NVS |

A badge runs either `WIFITask` or the bluetooth and game tasks, chosen in
`DN8App::onInit` by a setting in flash.  NVS (ESP-IDF's key-value store in
flash) is shared by the settings and contacts, the games' flags and the boot
counter.  The top board is reached over I2C only.

**Pairing menu** (`menus/pairing_menu.cpp`).  *State*: `InternalState`,
`tempAlice`, `timesRunCalledSinceReset`, the three message buffers, the UART's
receive buffer.  *Operations*: `onInit`, one `onRun` per turn of the application
loop with seven branches.  *Interacts* with the same code on the other badge
through bytes, with `ContactStore::addContact`, with the crypto chip and with
the message menu.  *Hard*: both sides decide by themselves who is Alice; frames
are recognised by a byte count alone; nothing is ever resent; a time check runs
after the result has been chosen; Alice sends her signature before she saves.
*Right if*: roles never become Alice and Alice, a stored contact is the peer as
it is, a Bob with Alice's signature is known to Alice, every attempt ends.

**Contact and settings store** (`KeyStore.cpp`, `contact.cpp`).  *State*: the
index of contacts, the agent name and the settings, each in RAM and in flash,
and the contacts in flash.  *Operations*: `addContact` (two writes), the
setters, `init`, `resetToFactory`.  *Interacts* with the pairing menu, the
settings menu, and, through the radio setting, with start up.  *Hard*: a power
failure or a refused write between the writes; RAM that outlives an erase;
arrays with no bound check; keys that are shortened ids.  *Right if*: what was
reported as stored is found again after a restart, the saved index never
disagrees with the one in RAM, and it leads to stored contacts.

**Bluetooth and game messages** (`ble.cpp`, `game_master.cpp`).  *State*: two
queues of malloc'ed messages, the connection (a global), the unlock flags in
NVS.  *Operations*: `send_raw_game_command` in the BLE stack's task, the game
task's loop and its answers, the bluetooth task's loop and the indications it
cuts answers into.  *Hard*: three tasks, each waiting for room in another's
queue; sends that give up after 100 ticks unnoticed; a client that leaves while
its answer is under way; commands before `onInit` has finished.  *Right if*:
each message is in one place and freed once, answers come in order, whole and to
the one who asked, and commands taken are handled.

**Tic-Tac-Toe 3D** (`T3DcommandHandler` in `game_master.cpp`).  *State*: a
board of 27 cells, the number of moves, wins, a clock.  *Operations*: one per
command.  *Hard*: 49 lines written out by hand; a loop that draws cells until it
finds a free one; a clock started by one command and read by others.  *Right
if*: the count and the board agree, a free cell is left whenever one is drawn, and
the flags are given for what they are promised for.

**Top board** (`top-board-firmware/DarkNet8-Top/DC27Top`: `main.c`,
`src/timeout.c`, `src/i2c_slave.c`).  *State*: the list of running timers, the
queue of expired ones, the clock and its interrupt flags, the register and the
command last written over I2C, the dance.  *Operations*: the main loop, the
overflow interrupt, the I2C interrupt.  *Hard*: the main loop and two interrupts
share all of it; the driver tests lists before it disables the interrupt; the
command is forgotten in two assignments.  *Right if*: the one timer is never
lost, its callback is never early, a command is carried out once, and the dance
goes on.  The **top board menu** (`menus/top_board.cpp`) is the master that
writes.

**Start up, update and factory firmware** (`dc27.cpp`, `app.cpp` `onInit`,
`wifi.cpp` `do_ota`, `WIFITask::init` and `run`, `factory_reset.h`).  *State*:
the boot partition, in NVS the flag `do_ota` and the counter of boots that did
not last, the step `onInit` has reached.  *Operations*: the steps of start up
device by device, of an update and of the return to the factory's firmware,
thirty idle seconds of `WIFITask`.  *Hard*: power may fail between any two of
them; devices may not start.  *Right if*: a bad update is given up, a good one
is not, and the badge always gets to its menu.

**Badge identity** (`myinfo.cpp`).  *State*: the crypto chip, written and locked
for good command by command, and the public key read from it.  *Hard*: a power
failure between the key and the lock; no status is looked at between the texts
and the lock.  *Right if*: a locked chip is whole, and a badge shows its peers
one key in its life.

**BLE advertising and attribute table** (`ble.cpp`, `ble.h`).  *State*: the
requests the BLE stack has not answered, the flags of the two advertising data
sets, the attribute table.  *Operations*: `init_ble` and the two event handlers.
*Hard*: the stack answers in the order it likes, may refuse, and runs the
handlers in the task that waits for the game task.  *Right if*: whenever no one
is connected the badge can be found again.

**WiFi requests** (`wifi.cpp`, `wifi.h`, `menus/communications_settings.cpp`).
*State*: `WIFITask`'s queue, the queue of answers, the access point and its web
server, two menus.  *Hard*: the menu waits 100 ms for an answer that may come
later; nobody empties the queue, matches answers to requests or looks at a send
that failed; the driver reports later what the task has asked for.  *Right if*:
how stale a status can be is bounded, the status settles, the menus can be left.

**Application loop and menus** (`app.cpp` `onRun`, `menus/menu_state.cpp`,
`dn8base_menu.h`, `gui_list_processor.cpp`, `buttons.cpp`,
`menus/setting_state.cpp` with `virtual_key_board.cpp`,
`menus/calibration_menu.cpp`, `menus/game_of_life.cpp`, `menus/drawing.cpp` and
the smaller ones).  *State*: the current menu, two samples of the buttons, the
touches in each menu's queue, the settings in RAM and in flash, the points of
the calibration, the cells of the screen saver.  *Operations*: one `onRun` per
turn of the loop; the switch to another menu with its `onShutdown` and `onInit`.
*Hard*: a menu can be left at any turn, by a button, a touch, the screen saver, a
message or a save that failed; touches stay in the queue between visits; a point
or a setting changes in RAM before it is saved.  *Right if*: the touch screen
reports to the menu that runs, a calibration is of one visit, what is saved is
within its bounds, games of life follow the rule and each other.

**Exploitable and brainfuzz game** (`game_master.cpp`).  *State*: the level, its
greetings, passwords and clocks; program, tape, key and output in one run of
bytes.  *Hard*: one clock is not set by its greeting; jumps look for their
bracket byte by byte and nothing ends a loop.  *Right if*: no password outlives
its time, a program does what it means, the puzzle is solved only by its output,
and a program without loops ends.

**LEDs of the top board** (`top-board-firmware/.../main.c`, `driver_init.c`,
`include/port.h`, `include/atmel_start_pins.h`).  *State*: what each LED shall
show, the pins, the statics of each dance function, the direction a bounce keeps
in its table entry.  *Hard*: `turnAll` goes past the table and sets pins; a
command in the middle of a bounce leaves its statics behind; LEDs share ports
with the bus.  *Right if*: the scan shows what the table says, a sweep leaves one
column, and bounces end.

### Not modelled

| part | why |
|---|---|
| NPC interaction and scan (`npc_interact.cpp`, `menus/scan.cpp`) | unreachable: the entry of the main menu that opens the scan is commented out (`menus/menu_state.cpp:120-129`), and so is what the NPC menu would do with an answer |
| the 3D menu's renderer (`menus/3d/renderer.cpp`) | vector arithmetic in floating point; when the menu is left is modelled |
| pin numbers (`devkit.h`), texts, fonts, layout | constants and wording |
| the I2C slave driver's registers, interrupt vectors, clock set up | generated by Atmel START; what they do to the program is in `TopBoard` |
| Prototype1, hardware | another board and its parts |

`PROJECT.json` has the same list with sources, and under `hazards` each thing
in this code that is hard to test, at its line.

## 2. Modules

| module | models | extends / uses |
|---|---|---|
| `ContactExchange` | what pairing promises: an abstract specification of two badges that store contacts | - |
| `PairingMenu` | both badges' `onRun`, the cable and its faults | `INSTANCE ContactExchange` |
| `ContactStore` | contacts, index, settings, flash | - |
| `GameMessages` | three tasks, two queues, a connection | - |
| `BleService` | how the badge comes on the air, around the commands and answers | `GameMessages` |
| `TTT3D`, `Exploitable`, `Brainfuzz` | one game each | - |
| `GameRooms` | the game task that carries out the commands of the three | the three games |
| `TopBoard` | main loop, clock and I2C interrupts: when a step of a dance is called | - |
| `Port`, `Pins` | a port of the microcontroller; what its pins are used for and how they are set up | `Port` |
| `LedDance` | what the steps of a dance switch, and the scan that shows it | `Pins` |
| `BadgeBoot` | start up as a few steps, update, factory firmware | - |
| `StartUp` | `onInit` step by step, in the place of the one step of `BadgeBoot` | `BadgeBoot` |
| `WifiMenus` | the communications and WiFi menus, the WiFi task, the driver's events | - |
| `Gui` | what menus share: buttons, touches, switching | - |
| `SettingMenu`, `CalibrationMenu`, `GameOfLife`, `DrawingMenu` | one menu each | `Gui` |
| `Menus` | the main loop with all of them, and the menus that keep nothing | the four menus |
| `MCPairing`, `MCContacts`, `MCGames`, `MCRooms`, `MCMenus`, `MCTopBoard`, `MCTTT` | constants for TLC | the module they instantiate |
| `PairingMenuProofs`, `ContactStoreProofs`, `BleServiceProofs`, `GameRoomsProofs`, `TopBoardProofs`, `StartUpProofs`, `WifiMenusProofs`, `MenusProofs` | theorems | the module they are about (and so those it extends), `TLAPS`; `TopBoardProofs` is about `TopBoard` and `LedDance` |

`map` in `PROJECT.json` gives the lines of each definition.  Definitions named
"Wrong variant" are not part of the model: each is what a plausible slip in the
code would make of the definition after it, kept to show that a property notices.

### PairingMenu

| code | model |
|---|---|
| `onInit`: flush the input, clear the state | `OpenMenu(b)` |
| NEGOTIATE: read at most one byte, act on it, or offer | `Clash`, `BecomeBob`, `BecomeAlice`, `ResetNegotiation`, `SkipByte`, `OfferAlice` |
| ALICE_INIT | `SendAIC` |
| BOB_RECEIVE_AIC, ALICE_RECEIVE_BRTI, BOB_RECEIVE_ATBS when the count fits | `ReceiveAIC`, `ReceiveBRTI`, `ReceiveATBS` |
| the same states otherwise | `Wait` |
| PAIRING_SUCCESS, PAIRING_FAILED | `ShowResult` |
| the end of each branch: `timesRunCalledSinceReset > 250` fails the attempt | `EndRun` |
| the UART and the cable | `Deliver`, `LoseByte` (external) |
| power | `PowerCycle`, `PowerFailsBeforeSave` (between the ATBS of Alice and her save) |

A byte is the token or frame it was written for, its place there, and whether the
signature in that frame is over the peer's real data.  A receiver that takes
bytes by their number gets `genuine` data only when it has the frame itself
from its beginning; anything else is `garbled`.  The frames keep the code's
relation of sizes (BRTI = AIC + ATBS, for that is what its fields add up to) and
are longer than all tokens together.

`ContactExchange` sees of this only the outcome: `known <- contacts`,
`phase <- Phase`, where "in" is any state before the result.

### ContactStore

`addContact` is three steps, `Call` (enter), `SaveContact` (the contact is in
flash) and `RecordIndex` (RAM and then the index in flash), with a power failure
possible between them and each write refused at will (`SaveRefused`,
`IndexRefused`).  `AlreadyPaired` is the code's search, with its comparison of
the first free slot.  The setters save the whole `Settings` and leave RAM changed
when the save is refused (`NameRefused`, `TimeRefused`, `BLERefused`).
`ResetSettings` and `WipeContacts` are the two erases of `resetToFactory`, and
`ResetRefused` and `WipeRefused` the same when flash refuses, at which the code does
not look.  At a start (`Restart`) RAM holds what the constructors write, and then
`init` runs: `Start` reads settings and index, `StartNameless` cannot read the name
and goes on, and in `StartFails` `init` returns false with the index still empty, or
the settings too.  Nobody looks at that result (`app.cpp:121`), so the badge goes on,
and its next pairing saves an index of one contact over the stored one.  `unread` is
history, true from such a start until that pairing.  The array is followed by `Memory - MAX_CONTACTS`
more slots: the code does not compare with `MAX_CONTACTS`, so the model lets it
write there; such slots are not part of the saved blob.

### GameMessages

`WriteEvent`, `Queued`, `WriteTimeout`: a write by the phone, in the queue or
given up.  `GameReceive`, `Answered`, `AnswerTimeout`, `Cleanup`: the game task
takes a command, sends its answers and frees it.  `BluetoothReceive`, `SendPart`,
`SendRest`: the bluetooth task takes an answer and indicates it in parts of 20
bytes, from `curpos` on, to whatever connection is current; `sent` keeps of each
part the answer, where it begins, how long it is and where it went.  `Connect` and `Disconnect` are the
phone's.  `InitGames` and `SetGameTaskQueue` are the end of `onInit`, so a
command can come before.  What an unlocked game answers is a parameter, and so is
which commands are `Endless`: with such a program of the brainfuzz game `BFrun` never
returns, and the game task is `Hung` for good, while all other tasks go on.

### TTT3D, TopBoard, BadgeBoot

`TTT3D`: `Tick` is the clock; the other actions are the commands and their
early returns (`Welcome`, `Reset`, `TimeIsUp`, `Invalid`, `SpaceTaken`, `Play`).
`Play` is X's move, the answer of O (any free cell for the code's random one) and,
on the last cell, the score, the flags and the new board.  `ScoredLines` are the lines
the code compares, and `TwiceLines` those of them it compares a second time, in the
place of the lines along x at y = 1 and y = 2.

`TopBoard`: one step is what lies between two points where an interrupt can make
a difference.  The program counter `at` walks through the main loop, a command
(`Command`, `ForgetCmd`, `ForgetRegister`), `timeout_create` (`FindTimer`,
`CutTimer`, `FindExpired`, `CutExpired`, `InsertTimer`) and a callback
(`TakeExpired`, `CallCallback`); `Overflow` and `RtcInterrupt` are the clock.
`I2C_0_isr` is the interrupt of the bus with its write and error handlers;
`BeginWrite` and `AbortWrite` are the master's, seen by the address and the stop
handler, which change nothing (`setupSlave` is all that resets the slave).  `LedTimer` is the only timer of this program and
its times (at most 30000) are shorter than a period of the clock (65535), so the
driver's dummy timer never gets into the list.  The three bounces
(`danceHorizonal`, `danceVertical`, `danceVerticalCylon`) are one family: they
share their static variables and differ in the last case of their switch.

`BadgeBoot`: `phase` walks from `app_main` through `check_for_ota`, `do_ota`,
`onInit` to the menu.  `CountBoot` and `BeginFactoryReset` are `WIFITask::init`,
`IdleSecond` and `BootLasts` are `run`'s timeout branch, `AskForOta` and `SetBLE`
the settings menu.  `PowerFails` may come anywhere.  `brief` and `asked` are
history: no action reads them.

### StartUp

Between the step before `CountBoot` and the menu there is now a `step` for each
call of `onInit`: the commands to the crypto chip (`isConfigLocked`, ...,
`lockData`, `getPubKey`, `serial`), then the devices and the tasks.  The chip
survives power failures and what it locks stays locked.  A command the chip
refuses is logged and passed over where `MyInfo::init` does so.  A device that
does not start ends `onInit` before a menu was set (`Panic`): `app_main` logs it and
runs the application all the same, with no current menu to run, and the model lets
the badge be off until it starts again.  All other actions of `BadgeBoot` go on unchanged
around these.

### BleService, GameRooms

`asked` is the set of requests the stack has not answered; an event is the
answer to one of them, in any order, and asks for the next (`StackAnswers`).
While a write waits for a slot in the game task's queue no event is handled, for
both run in the stack's task.  `dn8_gatt_db` is the attribute table with its
permissions; a write reaches the game its attribute belongs to.

In `Exploitable` time is the age of what it is compared with.  In `Brainfuzz`
one step is one turn of a loop of `BFrun`, and `Meaning` is what an interpreter
of the language would do at that instruction.  Both pointers are places in one
run of bytes, as they are in the object, so that a pointer that leaves its part
finds what is really there.

### WifiMenus

`requests`, `answers` and `events` are the three queues between the menus, the
WiFi task and the driver's event task.  An answer carries the number of the visit
that asked for it, which the code's does not: `shown` uses it to say how old the
status is.  `Send` drops a request when 10 ticks pass without room.

### Menus

One step is one `onRun`: `Run` samples the buttons (each predicate of
`ButtonInfo` is about two samples that follow each other), one touch is taken
from the queue, the menu acts, and `Then` enters the next one: `SwitchTo` is
`setCurrentMenu` with both `onShutdown` and `onInit`.  After a run the loop reads
the time (`checking`) and, in a second step, compares it with the last press and
the last touch, which the touch task may set in between (`CheckScreenSaver`).
Where a touch is and which row is selected is chosen when it is read.  In the
settings and in the drawing flash may refuse what is written, read or erased, and
the menu goes on as the code does, which looks at some results and not at others.
Pairing and the communications menu are only left here (`RunElsewhere`): pairing ends
with a message, whichever way it went, and a message leads to the main menu or, for the
communications menu's, back to it.  In the calibration a point is the number of the
visit in which it was touched, or `Stale` if it was made before.  The cells of a game
of life are numbers, so that the neighbours of a cell at an edge are those the code counts.

### LedDance

`Table` is the table of dances with its `ExtraData` and `next`; `ports` the
registers of the ports (`Pins.system_init` sets them up as `driver_init.c`
does, one operator for all its calls that set pins one after the other); `Refresh`
shows one LED, `CallDance` is the step of a dance.  Each function keeps its own
statics (`led_danc1_value`, `led_count`), and a bounce keeps its place in the table
(`led_ExtraData`); names that `TopBoard` has too begin with `Led`, for one module of
proofs is about both.  `TopBoard` says when a step is called and
abstracts what it does; here it is the other way round, and between two steps
the main loop turns at least once round the 24 LEDs, for the shortest time of the
table is 300 ticks of the clock.  `swept` is history: how many steps in a row, up to
ten, were of the same dance of `danceVerticalCylon`.

## 3. Runs

Passing runs explore every reachable state of their instance.

| run | instance | distinct states | question |
|---|---|---|---|
| `pair_exchange` | two attempts per badge, limit of 4 runs, one lost byte, frames of 17/13/30 bytes | 2.4 million | does the pair of state machines do what `ContactExchange` says when bytes of one attempt meet the next, and is an undisturbed attempt sound? |
| `pair_faults` | one attempt each, limit of 3 runs, loss, torn frames, power, flash, signing | 380 000 | are the roles right and does each attempt end, with all faults at once? |
| `contacts` | 3 badges, 2 of which share a key, array of 3 and 2 slots behind, 4 pairings, 2 faults, settings, resets, starts that fail | 550 000 | does flash keep what was promised, at any cut, after a failed start and beyond the array? |
| `games` | start of bluetooth with one request refused, 3 commands of two kinds, one of them with a program that never ends, 2 connections, queues of 1 and 2 | 280 000 | are messages, their order and their freeing right when queues fill and clients leave, and is the badge found again? |
| `rooms` | Tic-Tac-Toe on five cells with two lines; programs of up to 4 bytes, loops of 6 and full lines on a tape of 2 and a key of 1; the exploitable game with 2 seconds | 550 000 | are board, clocks, flags, passwords and programs right in every order of commands? |
| `wifi` | queues of 2 requests, 1 answer and 3 touches, 3 visits, 2 submits | 920 000 | how old can a status be, what does it settle to, can the menus be left? |
| `menus` | queues of 3 touches, names, keyboard, time and calibration of 3, 2 calibrations, games of life on 4x4 | 390 000 | does the menu that runs have the touches, is what is saved whole and in its bounds, do games of life follow the rule and each other? |
| `boot` | 2 power failures inside `onInit` and any number elsewhere, 1 refusal, the real limit of 6 boots, 2 idle seconds for 30 | 170 000 | is a locked chip whole, is there one key, does the badge always get up, give up a bad update and only a bad one? |
| `top_board` | 4 dances (two bounces, one that repeats, one that ends), 2 writes, a broken-off write, a bus error | 92 000 | do the main loop and its two interrupts ever lose the timer, a command or the dance? |
| `leds` | `Initial3` and `Dance2` with all that follows each, one command amid a bounce, the real 24 LEDs and pins | 720 000 | does the scan show what the table says, does a sweep leave one column, do bounces end? |

| violation run | what it shows (section 6) |
|---|---|
| `contact_twice` | `NoDuplicates`: the check for duplicates never finds one |
| `ttt_lines` | `EachLineCounts`: X has four lines, O has one, and X loses |

### Bounds, and why they are enough

*Pairing.*  `MaxStarts = 2` is the least with which bytes of an attempt reach the
next one; `MaxRuns = 4` lets an undisturbed attempt succeed (negotiation takes 2
or 3 runs and each frame one) and also lets every state run into the limit, which
250 does only after waiting.  The frames are 17, 13 and 30 bytes, more than the
tokens that two attempts of five runs can leave in front of them; in the firmware
85 tokens would have to pile up before a badge that reads one in each run.  One
lost byte is what a shifted frame needs.  Badges are interchangeable and
`pair_exchange` has no liveness property, so it uses symmetry; `pair_faults` does
not.

*Contacts.*  Four pairings with three slots write one entry behind the array.  Two of
three badges share a key, the case of `toStringForSave`'s seven bytes.  Two
faults: one in the first write and one in the next attempt, or a refused write
followed by a power failure.

*Games.*  Queues of 1 and 2 for 3: with three commands that give up to two answers
both fill, and a send can time out in each task.  Answers of 26 and 11 bytes are
sent in two parts and in one.  One refusal is enough to lose any of the requests
after which nothing else would put the badge on the air.

*Rooms.*  The three games share the game task and nothing else, so a behaviour
plays one of them.  The cube has 3^27 boards: five cells keep an odd number, one
line for each side, and many games in sequence.  `ttt_lines` starts a few moves
before the end of one game on the whole board.  A loop of six bytes holds a body
of three, which is what a loop that is skipped, run once or run for ever needs; a
line of seven bytes is filled by programs without a loop.  Bytes have ten values,
as few as leave room for the eight instructions and the end of a line, and wrap
around as the code's 256 do.  A clock needs to go only one past its limit.

*WiFi.*  With one slot for answers and two for requests both kinds are dropped
within three visits, and an answer can be two visits late.  Two submits start
and stop the access point once, in both orders with the driver's events.  The
proofs hold for all sizes.

*Menus.*  A behaviour opens the entries of one of nine `Tours`: menus act on
each other only through the touches in their queues, the settings, the points of
the calibration and the screen saver, and the tours combine what shares one of
these.  A queue of 3 is one less than that of the settings; with two touches
forgotten, one is left.  Three keys hold the first, the last and the place past it.  Three
points are enough for a visit that is left after some of them.  The games of life
are a row, a block, a glider's corner and one that dies.

*Boot.*  `MAX_ATTEMPTS` is the code's.  A second power failure comes after what the
first has left behind; a refusal and two failures meet anywhere in `onInit`.

*Top board.*  Two writes are what overtakes a command; four dances cover a
bounce, a repeating one, the end of a list and a new beginning.  `Last = 2` keeps
the two ends and a case between them of 5 or 7; `Rounds = 1` for 5.  The
proofs do not depend on any of these.

*LEDs.*  From `Initial3` and `Dance2` on, `next` leads through the dances of both
lists, all bounces and the repeating ones among them.  `Draws` stands for what
the random number may select.  A scan takes 24 turns; the one before a callback
takes 24, or 36 if the dance comes late, so that a step finds any half done scan.

`CHECK_DEADLOCK FALSE` is set where the system may stop: in pairing, contacts,
games, WiFi and menus when the bounded number of attempts, pairings, commands or
visits has been used up, in the rooms when the program has ended and nothing is
sent, on the top board because a bus error ends in an endless loop inside its
interrupt.

### The properties

Each is stated in the module it is about, with a comment.

- *PairingMenu*: `ImplementsExchange` (refinement), `ContactsGenuine`
  (recognising frames by length works in an undisturbed attempt), `LeftoverDooms`
  (a token in front of AIC costs the attempt, never a wrong contact),
  `NotBothAlice` (of first attempts: see section 6), `AttemptEnds`.
- *ContactStore*: `IndexSound` (flash and RAM never disagree about an entry both
  have, unless the index was not read; slots after the last entry stay empty),
  `ReportedSurvives` (a pairing the user was told of is in the stored index, up to
  `MAX_CONTACTS` and until an index that was not read is overwritten),
  `IndexedIsStored`.
- *GameMessages, BleService*: `MemoryAccounted` (every allocated message has one
  owner or was refused by a full queue), `AnswersArrive` (in order, whole, to who
  asked), `RequestsHandled` (leads-to, unless a program keeps the game task for ever),
  `FoundAgain`.
- *TTT3D*: `BoardInOrder`, `FlagWithinTime`.  *Exploitable*: `PasswordsExpire`.
  *Brainfuzz*: `RunsAsWritten` (each step does what an interpreter of the language
  would do there), `ClickIsEarned`, `LooplessEnds`.
- *WifiMenus*: `StaleByMissedVisits`, `StatusSettles`, `TrappedOnlyThere`
  (where no way out is open).
- *Menus*: `OnlyCurrentObserves`, `CalibrationWhole`, `SettingsSound`,
  `LifeByRule`, `GamesFollow`.
- *BadgeBoot, StartUp*: `ResetEarned` (an action property), `LockedIsWhole`,
  `OneIdentity`, `BootEnds`, `BadUpdateGivenUp`.
- *TopBoard*: `TimerInOnePlace`, `InterruptHasTimer`, `NeverEarly`,
  `CommandDances`, `ActsOnWrites`, `DanceGoesOn`.
- *LedDance*: `ScanShows` (what is lit is what the table says, while it changes in
  the middle of a scan), `CylonAlone` (after ten steps of the sweep only its column is
  lit, whatever was lit before), `BouncesEnd` (also of one that a command
  broke off and that begins anew with the old statics).

Each has a mutant in `PROJECT.json`: a change of a definition, as a slip in the
code could make it, with which TLC finds the property violated.  A few more
properties are stated and proved but not in a configuration
(`BobSavesAfterAlice`, `RunsBounded`, `OtaOnce`, `BouncesInside`, `TrappedStays` and
the type invariants of section 5).

## 4. Fairness

- *Pairing*: weak fairness of each badge's `onRun` and of the delivery of bytes.
  `DN8App` calls the current menu's `onRun` in an endless loop and the UART is
  hardware.  A badge that is off is in the menu again.  Users, losses and power
  failures are not fair.
- *Games*: weak fairness of each task's next step.  The stack's and the bluetooth
  task only ever block on another's queue with a time limit or on their own empty
  queue, so FreeRTOS gets round to all of them.  The game task does too, but for
  `BFrun`, which has no limit (`game_master.cpp:408`): no step leads out of `Hung`,
  so that fairness promises nothing there, and `RequestsHandled` excepts it.  The
  BLE stack answers what it was asked, with success
  or not; and `init_ble` is part of start up.
- *Rooms*: weak fairness of the interpreter.  No command has to come, and no
  liveness is claimed of the others.
- *Menus*: weak fairness of the main task and of the screen saver's check, which
  are its endless loop.  Strong fairness of the end of a game's message: the code
  ends it by time, the model by a choice, and choosing for ever not to would be
  time standing still.
- *Boot*: weak fairness of switching on again and of the code's steps.  Strong
  fairness of the check for an update and of the end of the factory reset (and
  in `BadgeBoot` of the end of `onInit`): power may fail again and again, but not
  each time at the same instruction.  The number of failures inside `onInit` is
  bounded, so weak fairness is enough there.  `GotAddress` is not fair (the
  network may never come), neither are the user's actions.  Without strong
  fairness a battery that fails at one instruction for ever would refute
  `BootEnds`; what would remain is a property of the battery.
- *Top board and LEDs*: weak fairness of the clock, its interrupt, the main loop
  and a byte that is being received.  No master has to write.  Once the error
  handler spins, nothing goes on, so the liveness of `TopBoard` excepts it.
- *Contacts, WiFi*: none; their properties are safety.

## 5. Proofs

All theorems hold for every value of the constants allowed by the ASSUMEs of the
module (and the hypotheses a theorem names), so for 85 and 64 bytes, 250 runs, 64 contacts, any number of pairings and
writes.  TLC evaluates the ASSUMEs in the runs.

*PairingMenuProofs.*  `TypeCorrect` and `AttemptsBounded` (`RunsBounded`) hold
under all faults; both are inductive (the second given the first).  `BobIsKnown`
(`BobSavesAfterAlice`) needs more: who holds Alice's signature depends on bytes
still under way.  The inductive invariant `IInv` adds `ChannelsHonest`: a byte of
a genuine ATBS is on the wire or in a buffer only if its sender has stored Bob.
`BobStep` and `GenuineATBSIsKnown` carry it to Bob's save.
`ExchangeImplemented` is the refinement: `ExchangeInit` maps the initial states,
`ExchangeStep` each step to a step or a stutter.  Both assume `StorageReliable`,
no power or flash fault: with them they are false, for Alice sends ATBS before
she saves (`pairing_menu.cpp:181` and `192`), and Bob may be left with a contact
who does not know him.  Loss, torn frames and failed signatures are allowed.

`AtMostOneAlice` (`NotBothAlice`) holds under all faults.  Whether one badge may be
Alice depends on what the other has sent and not on what it is: `OneAlice` says that
an Alice's peer is past the negotiation, and so is the sender of every byte of a frame
or confirmation that is under way (`Timely`), also of a frame whose bytes are read as
tokens.  `OnlyGenuineContacts` (`ContactsGenuine`) and `FirstLeftoverDooms` (what
`LeftoverDooms` says, of first attempts) rest on `Framed` and `Answered`: in an
undisturbed attempt there is on the way to a badge at most one frame, the one whose
turn it is, with nothing but tokens in front of it and nothing behind.  They have two
hypotheses.  `FramesWhole` leaves out the faults "partial" and "power", with which a
poll may find a part of a frame or a badge begins amid one.  `TokensFew` says that a
badge never finds as many unread tokens as AIC has bytes: only their number tells them
apart, and with an AIC of three bytes TLC finds tokens that are taken for it.  In the
firmware 85 tokens would have to wait, and a badge sends one in 20 ms to a peer that
reads one in each run.

*ContactStoreProofs.*  `StoreTypeCorrect`; `IndexIsSound`; and from it
`ReportedPairingsSurvive` and `IndexLeadsToContacts`, with starts that fail and
erases that are refused.  The first is about a badge that has read its index or saved
one since (`~unread`), the second about stored indexes of up to `MAX_CONTACTS` entries
and the pairings since an unread index was last overwritten; without these exceptions
both are false of the code.  `IndexSound` is inductive:
that no slot after the last entry was ever written makes the search for
duplicates always fail (`NeverAlreadyPaired`), and so every pairing appends
(`AppendStep`).  `IndexedIsStored` is not inductive, for a later pairing also
saves entries that are only in RAM: `Backed` says the same of both indexes, for
either may be the next to be saved or read, and of the contact `addContact` is working
on.

*TopBoardProofs.*  `TimerNotLost`, `InterruptIsSafe`, `CallbackInTime`,
`CommandNotLost`, from one inductive invariant: `TimerInOnePlace`, `NeverEarly`
and what they rest on, namely what each search of `timeout_delete` has found
out at the point where it goes on (`Searches`), that the clock is stopped and
nothing is pending once the timer has expired (`ExpiredTimer`), and that the
timer carries the command that waits (`CommandKept`).  `TypeCorrect`: the light
never leaves the cases of its switch, for bounces of any length.  `WritesActedOn`
(`ActsOnWrites`): as long as no write went wrong (`mixed`) the two variables of the
bus and what is still under way are together the last write (`BusInOrder`), and a
command main has in hand is complete.  It assumes `NoMarks`, that the master writes
no byte 0xff: that is the mark of nothing received, and such a byte is taken for
none.  The badge writes 1 and 1 (`menus/top_board.cpp:110`).

The same module has the theorems of `LedDance`, for any rounds, drops, flashes, turns
of the loop and commands, and whichever dances begin.  `LedTypesCorrect` needs `LedStatics`: the place of every bounce is one of its
switch and its count has not gone past its rounds, also after a command has broken it
off; `BouncesStayInside` (`BouncesInside`) follows from it.  `ScanAlwaysShows`
(`ScanShows`) is not inductive: the scan turns one LED at a time while dances change
the table.  `PinsKept` says that the pins of the LEDs stay outputs, none is inverted and
no other pin is set; `Shown`, that every LED whose turn has come since the last callback
shows its entry.  As the loop turns at least once round
the LEDs between two callbacks, at the next all are shown.  `CylonAlwaysAlone`
(`CylonAlone`) needs `SweptColumns`: how many steps ago the sweep was last at each
column (`Since`), which depends on the case its switch has reached and on the direction;
a column it has been at since it began is dark but for the last one, and ten steps from
any place have been at all six.  Nine are not enough.

*BleServiceProofs.*  First `GameMessages`.  `MessagesAccounted` is inductive only with
the order of the messages: that the one a task lets go of is not also elsewhere
follows from their numbers (`Numbered`, `RequestsInOrder`, `AnswersBefore`,
`QueueInOrder`).  `AnswersInTheirOrder` (`AnswersArrive`) adds `SentInOrder`, the
order of what has left before what waits; `PartsSent`, that the parts sent of the
answer in hand are all its bytes up to `curpos`; and `Senders`, that a message is from
the connection it is sent to or an earlier one.  Queues may refuse anything at any
time.  `ServiceImplementsMessages` is the refinement: each step of `BleService` is one
of `GameMessages` or leaves its variables alone, so that both hold on the badge as it
is put on the air (`ServiceAccounted`).

*GameRoomsProofs.*  The three games, each with its own specification, and
`RoomsImplementGames`: `GameRooms`' specification implies all three, for a command
to one game is no step of another, so that `RoomsKeepPromises` has everything below
for the specification of the run.

- *TTT3D*: `BoardStaysInOrder`, for any odd number of cells: each pair of moves takes
  two free cells (`MarkCell`, `TakenCount`), so an odd number stays free between
  commands and O finds a cell (`FreeCell`).  `FlagIsEarned` needs `WinsSinceStart`,
  that the wins that count were won since the clock was started.
- *Exploitable*: `PasswordsDoExpire`: a clock is at least as old as the password it
  is for (`NoYounger`), also at level 2, whose greeting forgets to start it.
- *Brainfuzz*: `InterpreterIsRight` (`RunsAsWritten`), for every program, tape and
  size of a byte.  `Meaning` is about the program as it was sent and `BFrun` about
  bytes in memory, so the invariant `BFInv` has `Written`, that memory holds a program
  shorter than the limit unchanged, with a zero behind it, and `InProgram`, that what
  is read is in it; of a jump under way it says that each part of the program between
  its bracket and the place it has reached leaves a loop open, so that the first place
  where none is open is the partner.  `ClickOnlyEarned` needs `Counted`: `numz` is the
  difference of the two counts until it is negative, and then it stays so.

*StartUpProofs.*  Two modules at once.  `StartUpImplementsBoot`: each step of
`onInit` in detail is a step of `BadgeBoot` or leaves its variables alone, so that
what is proved of `BadgeBoot` (`BootTypeCorrect`, `ResetIsEarned`,
`OtaIsTriedOnce`, from `Counted`: the saved counter is the number of boots that
did not last, and the flag in flash is the request not yet begun) holds here
(`StartUpResetIsEarned`).  `LockedChipIsWhole` and `IdentityIsOne` rest on what
`MyInfo::init` knows of the chip at each of its steps (`Chip`) and on the only key
shown being the one that was locked (`Identity`).

*WifiMenusProofs.*  `StatusIsStaleByMissedVisits` is not inductive: whether an
answer is old depends on all that is still in the pipeline.  `AllWaiting` says that
what the two queues and the task hold was asked for later than as many visits ago
as have seen an answer, and `InOrder` that it is in the order of the visits;
dropping any of it keeps both, and a visit that takes the oldest answer leaves
younger ones.  `AccessPointSettles` needs `Settling`: the last event that waits
tells what the access point does.  `TrapsHold` (`TrappedStays`) needs `Silent`: a badge
with bluetooth asks nothing of a task it does not have, so no answer ever registers the
observer, and no touch comes.  `WifiTypeCorrect`.

*MenusProofs.*  `TouchesReachTheCurrent`: every way to another menu goes through
`setCurrentMenu`.  `CalibrationIsWhole` needs `Taking`, that the points taken so
far are of this visit, and that no touch of an earlier visit is left.
`SettingsAreSound` needs the bounds of what is being edited (`SettingInv`) and
that four bits are enough for the time (`SettingAssumption`).
`GenerationsFollowTheRule` (`LifeByRule`), for a grid of any size: `life` adds rows
and columns up as one number, and `Around` shows that for a cell that is not at an
edge these numbers are just the cells beside it, because no number is in two places
(`RowAndColumn`, `OnePlace`).  Its invariant `LifeInv` has the types, and that no game
goes on after seven generations without a change.  `MenusTypeCorrect` puts the types of
all menus together: queues, the name that is entered, the points of a calibration and
the colors stay within their arrays; that the index of a point does rests on `Taking`.

*Only model-checked.*  All liveness (`AttemptEnds`, `RequestsHandled`,
`FoundAgain`, `DanceGoesOn`, `BouncesEnd`, `BootEnds`, `BadUpdateGivenUp`,
`LooplessEnds`, `GamesFollow`) and `TrappedOnlyThere`, which says what is ENABLED:
the proof system handles neither.  `LeftoverDooms` of later attempts is checked for
two: with more attempts, each of which may leave bytes behind, it depends on how many
fit into a frame.

## 6. Findings

Shown by a run:

- *No check for duplicates* (`KeyStore.cpp:175`, `contact_twice`): the loop
  compares the key with the first free slot instead of the entry of its turn.
- *Lines of the cube* (`game_master.cpp:170`, `185`, `225`, `ttt_lines`): six lines
  along x are never compared, and six along y twice in their place; five vertical spots
  are not compared; one diagonal is compared with a wrong cell.

Met while modelling; the modules do what the code does:

- Pairing: the time check at the end of a branch overwrites `PAIRING_SUCCESS`
  chosen in the same run, so the contact is in flash and the display says "Pairing
  Failed" (`menus/pairing_menu.cpp:193`, `200`, `241`).  In a second attempt
  `ContactsGenuine` does not hold: a byte of an old frame may be read as a token,
  and frames one byte off may fit; what holds always is `BobSavesAfterAlice`.
  Neither does `NotBothAlice`: a badge that starts over may read a byte of its
  peer's AIC as BOB_CONFIRM, and both are Alice until their time is up.
- Contacts: `resetToFactory` leaves the index in RAM, and the next pairing counts
  the erased contacts again (`KeyStore.cpp:126`); it reads settings that are not
  there and does not look whether it could (`KeyStore.cpp:130`), so the old name
  stays in RAM.  It does not look whether the erase was refused either
  (`KeyStore.cpp:67`).  Nobody looks at the result of `init` (`app.cpp:121`): a badge
  that could not read its index goes on with an empty one, and the next pairing saves
  that over all contacts of before (`KeyStore.cpp:182`).  `toStringForSave` keeps seven bytes of nine (`contact.cpp:85`).
  `sign` copies `sizeof(CONTACT_ID_SIZE)` bytes, which is the size of an int.
- Start up: the counter of short boots belongs to no firmware (`wifi.cpp:454`):
  after seven of them an update is installed and thrown away unbooted, and the log
  speaks of 10.  A device that does not start ends `onInit` before the boot is counted
  and before there is a menu, and `run` is called all the same (`app.cpp:137`,
  `dc27.cpp`): such a firmware is never given up.  A badge in bluetooth
  mode never counts its boots, hence the exceptions of `BadUpdateGivenUp`.  After
  a failed update the badge goes on with the WiFi set up for the update.
- Games: nothing sets the flag the game master's check reads, while
  `game_master.cpp:843` says the game is always unlocked; "Otherwise you will
  progress to the next level" (`game_master.cpp:657`) never happens, and a level
  announced as one of "0-4" is refused.  A program with an endless loop, `+[]` is one,
  keeps the game task until the badge is switched off.  The length of a message has eight bits,
  that of a write sixteen (`game_master.h:29`).
- Bluetooth: a failure of `init` shows as active (`ble.cpp:774`), advertising the
  stack refuses is not tried again (`ble.cpp:407`), prepared writes are ignored.
- Menus: of the touches left in a queue two are emptied under the comment
  "empty queue"; "Release UP/DOWN buttons completes entry" does not hold for a
  name that begins with a blank or "_"; Fire never leaves the drawing, and the
  back buttons of the settings' and the badge info's lists lead nowhere, for the
  list takes them first.  The time is read before the last touch, which may be
  later: unsigned, that is very long ago, and the screen saver comes
  (`app.cpp:305`).
- LEDs: a write of the registers that select a dance is the payload of `turnAll`;
  the columns of `danceRain` are not those of `danceVertical`; both branches of
  `turnOnHalf` do the same; nothing seeds `rand`; the toggle of a pin level
  writes the input register; `Initial0` and `Initial6` are in no sequence.
- `WIFITask::requestOTA`, `BLESetDeviceNameMenu` and `BLEBoolMenu` are used by
  nobody.

## 7. Assumptions, and what is next

Assumptions: NVS keeps what `nvs_set_*` wrote, committed or not, as ESP-IDF's
does; FreeRTOS queues are FIFO; a UART delivers bytes in order or not at all;
signatures of other data do not verify as genuine; the crypto chip does a command
wholly or refuses it; the WiFi driver reports its events in order, the BLE stack
answers each request once.

All parts of the system with a state of their own that the program reaches are
modelled.  What is next:

1. A proof of how many attempts `LeftoverDooms` bears.
2. A composition of the pairing menu with the contact store (`AddContact` as its
   three steps), so that a power failure in the middle of Alice's save is one run.
3. A composition of `TopBoard` with `LedDance`: every step of a dance with the
   interrupts of the bus around it.

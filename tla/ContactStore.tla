---------------------------- MODULE ContactStore ----------------------------
(***************************************************************************)
(* The contacts and the settings a badge keeps in flash (KeyStore.cpp,     *)
(* contact.cpp), as its one application task uses them.  addContact saves  *)
(* the contact and then the index of all contacts, two writes with room    *)
(* for a power failure between them; the settings menu changes the agent   *)
(* name, the radio and the screen saver time, or resets to factory.        *)
(*                                                                         *)
(* The index is an array in RAM, read from flash only at start up, and the *)
(* result of that start up is looked at by nobody (app.cpp:121): a badge   *)
(* that could not read goes on with what the constructors left in RAM.     *)
(* The slots after the MAX_CONTACTS of the index stand for the memory      *)
(* behind the array, where strcpy goes on writing; they are not saved.     *)
(***************************************************************************)
EXTENDS Naturals

CONSTANTS
  Peers,         \* the badges one can pair with
  Keys,          \* names under which contacts are stored
  KeyOf,         \* toStringForSave: the first 7 of the 9 bytes of the id
  MAX_CONTACTS,  \* 64 in the firmware
  Memory,        \* bound: slots modelled, those of the array and some behind it
  Names,         \* agent names
  Times,         \* screen saver times, 1..9 in the firmware
  DefaultTime,   \* the time of a badge that was never configured
  ConstructedTime, \* the time in RAM before anything is read, 5 in the firmware
  MaxAdds,       \* bound: calls of addContact
  MaxFaults,     \* bound: operations NVS refuses and power failures
  Events         \* what may happen, a subset of EventKinds

EventKinds ==
  {"flash",     \* NVS refuses to open, read, write or erase
   "power",     \* the badge is switched off and on
   "reset",     \* the user resets to factory
   "settings"}  \* the user changes the settings

CONSTANTS NoKey, NoPeer, NoName, NoIndex, NoSetting, Wiping, Starting

ASSUME KeyAssumption == KeyOf \in [Peers -> Keys] /\ NoKey \notin Keys
ASSUME CapacityAssumption ==
  /\ MAX_CONTACTS \in Nat \ {0}
  /\ Memory \in Nat /\ MAX_CONTACTS <= Memory /\ Memory < 256
ASSUME LimitAssumption == MaxAdds \in Nat /\ MaxFaults \in Nat
ASSUME ValueAssumption ==
  /\ NoPeer \notin Peers /\ Wiping \notin Peers \cup {NoPeer}
  /\ Starting \notin Peers \cup {NoPeer, Wiping}
  /\ NoName \notin Names /\ {DefaultTime, ConstructedTime} \subseteq Times
ASSUME EventAssumption == Events \subseteq EventKinds

Slot == 0..(Memory - 1)

\* ContactIndex
Index == [NumContacts : 0..Memory, ConIndex : [Slot -> Keys \cup {NoKey}]]
EmptyIndex == [NumContacts |-> 0, ConIndex |-> [i \in Slot |-> NoKey]]
ASSUME IndexAssumption == NoIndex \notin Index

\* The bit fields of Data.Settings that the menus change.
Setting == [ScreenSaverTime : Times, BLE : BOOLEAN]
Factory == [ScreenSaverTime |-> DefaultTime, BLE |-> FALSE]
Constructed == [ScreenSaverTime |-> ConstructedTime, BLE |-> FALSE]
ASSUME SettingAssumption == NoSetting \notin Setting

VARIABLES
  MyIndex,    \* the index in RAM
  AgentName,  \* the agent name in RAM
  Data,       \* the settings in RAM
  contact,    \* flash: the contact stored under each key
  myIndex,    \* flash: the blob "MyIndex"
  myname,     \* flash: "myname"
  mysetting,  \* flash: "mysetting"
  busy,       \* the contact addContact is working on, Wiping, Starting, or NoPeer
  unread,     \* history: the index in RAM did not begin as the one in flash
  reported,   \* history: contacts for which addContact has returned true,
              \* since an index that was not read was overwritten
  erased,     \* history: 1 once a factory reset has begun
  adds, faults

settingsVars == <<AgentName, Data, myname, mysetting, erased>>
contactVars == <<MyIndex, contact, myIndex, unread, reported>>
vars == <<MyIndex, AgentName, Data, contact, myIndex, myname, mysetting, busy,
          unread, reported, erased, adds, faults>>

TypeOK ==
  /\ MyIndex \in Index
  /\ AgentName \in Names \cup {NoName}
  /\ Data \in Setting
  /\ contact \in [Keys -> Peers \cup {NoPeer}]
  /\ myIndex \in Index \cup {NoIndex}
  /\ myname \in Names \cup {NoName}
  /\ mysetting \in Setting \cup {NoSetting}
  /\ busy \in Peers \cup {NoPeer, Wiping, Starting}
  /\ unread \in BOOLEAN
  /\ reported \subseteq Peers
  /\ erased \in 0..1
  /\ adds \in 0..MaxAdds
  /\ faults \in 0..MaxFaults

\* A badge after its first start: init has written the default settings.
Init ==
  /\ MyIndex = EmptyIndex
  /\ AgentName = NoName
  /\ Data = Factory
  /\ contact = [k \in Keys |-> NoPeer]
  /\ myIndex = NoIndex
  /\ myname = NoName
  /\ mysetting = Factory
  /\ busy = NoPeer
  /\ unread = FALSE
  /\ reported = {}
  /\ erased = 0
  /\ adds = 0
  /\ faults = 0

Fault(kind) ==
  /\ kind \in Events
  /\ faults < MaxFaults
  /\ faults' = faults + 1

-----------------------------------------------------------------------------
(* addContact.  Its caller, the pairing menu, runs in the application task  *)
(* like the settings menu, so only a power failure comes between its writes. *)

Call(c) ==
  /\ busy = NoPeer
  /\ adds < MaxAdds
  /\ adds' = adds + 1

SaveContact(c) ==
  /\ Call(c)
  /\ contact' = [contact EXCEPT ![KeyOf[c]] = c]
  /\ busy' = c
  /\ UNCHANGED <<MyIndex, myIndex, unread, reported, faults>>
  /\ UNCHANGED settingsVars

\* Wrong variant: the result of save is not looked at.
SaveRefusedIgnored(c) ==
  /\ Call(c)
  /\ Fault("flash")
  /\ busy' = c
  /\ UNCHANGED contactVars
  /\ UNCHANGED settingsVars

SaveRefused(c) ==
  /\ Call(c)
  /\ Fault("flash")
  /\ UNCHANGED <<busy, contactVars>>
  /\ UNCHANGED settingsVars

\* The loop looks for the key, once per contact, in the first FREE slot.
AlreadyPaired(k) ==
  /\ MyIndex.NumContacts > 0
  /\ MyIndex.ConIndex[MyIndex.NumContacts] = k

Appended(k) ==
  [NumContacts |-> (MyIndex.NumContacts + 1) % 256,
   ConIndex |-> [MyIndex.ConIndex EXCEPT ![MyIndex.NumContacts] = k]]

\* sizeof(MyIndex) bytes: what is behind the array stays behind.
Blob(index) ==
  [index EXCEPT !.ConIndex =
     [i \in Slot |-> IF i < MAX_CONTACTS THEN index.ConIndex[i] ELSE NoKey]]

Recording(c) ==
  /\ busy = c
  /\ MyIndex.NumContacts < Memory
  /\ MyIndex' = IF AlreadyPaired(KeyOf[c]) THEN MyIndex ELSE Appended(KeyOf[c])
  /\ busy' = NoPeer
  /\ UNCHANGED <<contact, adds>>
  /\ UNCHANGED settingsVars

\* The contact is reported as paired.  What was reported before is given up
\* when this save replaces an index that was not read.
Reported(c) ==
  LET saves == ~AlreadyPaired(KeyOf[c])
  IN /\ reported' = (IF saves /\ unread THEN {} ELSE reported) \cup {c}
     /\ unread' = (unread /\ ~saves)

\* Wrong variant: the blob is taken before the contact is counted.
RecordIndexEarly(c) ==
  /\ Recording(c)
  /\ myIndex' = Blob([MyIndex' EXCEPT !.NumContacts = MyIndex.NumContacts])
  /\ Reported(c)
  /\ UNCHANGED faults

RecordIndex(c) ==
  /\ Recording(c)
  /\ myIndex' = IF AlreadyPaired(KeyOf[c]) THEN myIndex ELSE Blob(MyIndex')
  /\ Reported(c)
  /\ UNCHANGED faults

IndexRefused(c) ==
  /\ Recording(c)
  /\ ~AlreadyPaired(KeyOf[c])
  /\ Fault("flash")
  /\ UNCHANGED <<myIndex, unread, reported>>

-----------------------------------------------------------------------------
(* Settings.init, over the name and the settings found in flash. *)

Default(setting) == IF setting = NoSetting THEN Factory ELSE setting

\* A name that is not found leaves the one in RAM.
Named(name) == IF name = NoName THEN AgentName ELSE name

SettingsRead(name, setting) ==
  /\ AgentName' = Named(name)
  /\ Data' = Default(setting)
  /\ mysetting' = Data'

\* The same with something refused: the settings could not be read, or not be
\* written when there were none, or only the name could not be read.
SettingsRefused(name, setting) ==
  \/ /\ AgentName' \in {AgentName, Named(name)}
     /\ Data' = Data
     /\ mysetting' = setting
  \/ /\ setting = NoSetting
     /\ Data' = Factory
     /\ mysetting' = NoSetting
     /\ UNCHANGED AgentName
  \/ /\ AgentName' = AgentName
     /\ Data' = Default(setting)
     /\ mysetting' = Data'

-----------------------------------------------------------------------------
(* Start up: the constructors, then init. *)

Stored == IF myIndex = NoIndex THEN EmptyIndex ELSE myIndex

\* The badge starts again: RAM holds what the constructors write.
Restart ==
  /\ MyIndex' = EmptyIndex
  /\ AgentName' = NoName
  /\ Data' = Constructed
  /\ busy' = Starting
  /\ unread' = TRUE
  /\ UNCHANGED <<contact, myIndex, myname, reported, erased, adds>>

\* The power fails and comes back, at any point.
PowerCycle ==
  /\ Fault("power")
  /\ Restart
  /\ UNCHANGED mysetting

Starts ==
  /\ busy = Starting
  /\ busy' = NoPeer
  /\ UNCHANGED <<contact, myIndex, myname, reported, erased, adds>>

\* Wrong variant: start up does not read the index.
IndexForgotten ==
  /\ MyIndex' = EmptyIndex
  /\ unread' = FALSE

IndexRead ==
  /\ MyIndex' = Stored
  /\ unread' = FALSE

Start ==
  /\ Starts
  /\ SettingsRead(myname, mysetting)
  /\ IndexRead
  /\ UNCHANGED faults

\* init returns false, and the badge goes on: NVS could not be opened or the
\* settings not be read or written, and then the index is not read either, or
\* only the index was not.  (A namespace that was not opened may still be
\* written here; libesp decides.)
StartFails ==
  /\ Starts
  /\ Fault("flash")
  /\ SettingsRefused(myname, mysetting) \/ SettingsRead(myname, mysetting)
  /\ UNCHANGED <<MyIndex, unread>>

\* init returns true, but the name could not be read.
StartNameless ==
  /\ Starts
  /\ Fault("flash")
  /\ UNCHANGED AgentName
  /\ Data' = Default(mysetting)
  /\ mysetting' = Data'
  /\ IndexRead

-----------------------------------------------------------------------------
(* The settings menu. *)

Menu == busy = NoPeer /\ "settings" \in Events

SetAgentname(n) ==
  /\ Menu
  /\ AgentName' = n
  /\ myname' = n
  /\ UNCHANGED <<Data, mysetting, erased, busy, adds, faults>>
  /\ UNCHANGED contactVars

NameRefused(n) ==
  /\ Menu
  /\ AgentName' = n
  /\ Fault("flash")
  /\ UNCHANGED <<Data, myname, mysetting, erased, busy, adds>>
  /\ UNCHANGED contactVars

SetScreenSaverTime(t) ==
  /\ Menu
  /\ Data' = [Data EXCEPT !.ScreenSaverTime = t]
  /\ mysetting' = Data'
  /\ UNCHANGED <<AgentName, myname, erased, busy, adds, faults>>
  /\ UNCHANGED contactVars

\* The setters change the value in RAM before they try to save it.
TimeRefused(t) ==
  /\ Menu
  /\ Data' = [Data EXCEPT !.ScreenSaverTime = t]
  /\ Fault("flash")
  /\ UNCHANGED <<AgentName, myname, mysetting, erased, busy, adds>>
  /\ UNCHANGED contactVars

\* A new radio is chosen by starting again.
SetBLE(b) ==
  /\ Menu
  /\ mysetting' = [Data EXCEPT !.BLE = b]
  /\ Restart
  /\ UNCHANGED faults

BLERefused(b) ==
  /\ Menu
  /\ Data' = [Data EXCEPT !.BLE = b]
  /\ Fault("flash")
  /\ UNCHANGED <<AgentName, myname, mysetting, erased, busy, adds>>
  /\ UNCHANGED contactVars

\* resetToFactory: the settings, then the contacts.  The name in RAM stays, for
\* the name read back is not found; so does the index in RAM.
Resets ==
  /\ busy = NoPeer
  /\ "reset" \in Events
  /\ busy' = Wiping
  /\ erased' = 1
  /\ UNCHANGED adds
  /\ UNCHANGED contactVars

ResetSettings ==
  /\ Resets
  /\ myname' = NoName
  /\ SettingsRead(NoName, NoSetting)
  /\ UNCHANGED faults

\* Either key may stay, and init may be refused what it does with the rest.
ResetRefused ==
  /\ Resets
  /\ Fault("flash")
  /\ \E name \in {myname, NoName}, setting \in {mysetting, NoSetting} :
       /\ myname' = name
       /\ SettingsRead(name, setting) \/ SettingsRefused(name, setting)

WipeContacts ==
  /\ busy = Wiping
  /\ contact' = [k \in Keys |-> NoPeer]
  /\ myIndex' = NoIndex
  /\ unread' = FALSE
  /\ reported' = {}
  /\ busy' = NoPeer
  /\ UNCHANGED <<MyIndex, adds, faults>>
  /\ UNCHANGED settingsVars

WipeRefused ==
  /\ busy = Wiping
  /\ Fault("flash")
  /\ busy' = NoPeer
  /\ UNCHANGED adds
  /\ UNCHANGED contactVars
  /\ UNCHANGED settingsVars

Next ==
  \/ \E c \in Peers :
       \/ SaveContact(c) \/ SaveRefused(c)
       \/ RecordIndex(c) \/ IndexRefused(c)
  \/ \E n \in Names : SetAgentname(n) \/ NameRefused(n)
  \/ \E t \in Times : SetScreenSaverTime(t) \/ TimeRefused(t)
  \/ \E b \in BOOLEAN : SetBLE(b) \/ BLERefused(b)
  \/ PowerCycle \/ Start \/ StartFails \/ StartNameless
  \/ ResetSettings \/ ResetRefused \/ WipeContacts \/ WipeRefused

Spec == Init /\ [][Next]_vars

-----------------------------------------------------------------------------
(* Properties. *)

\* The entries of an index that lie inside its array.
Entry(index) == {i \in Slot : i < index.NumContacts /\ i < MAX_CONTACTS}

\* The index in flash is the beginning of the one in RAM: no failure and no
\* reset makes the two disagree about an entry both have.  Except on a badge
\* that started without reading the index and has saved none since.
StoredIsPrefix ==
  ~unread =>
    /\ Stored.NumContacts <= MyIndex.NumContacts
    /\ \A i \in Entry(Stored) : Stored.ConIndex[i] = MyIndex.ConIndex[i]

\* No slot after the last entry was ever written, so AlreadyPaired compares
\* with an empty string.
FreeSlotsEmpty ==
  \A index \in {MyIndex, Stored} :
    \A i \in Slot : i >= index.NumContacts => index.ConIndex[i] = NoKey

\* addContact, resetToFactory and init (KeyStore.cpp:125-190).  Both, whatever is refused and whenever the power fails.
IndexSound == StoredIsPrefix /\ FreeSlotsEmpty

\* A pairing that was reported as a success stays in the index that the next
\* start up will read, whatever is refused and whenever the power fails, with
\* two exceptions.  The stored index counts more contacts than MAX_CONTACTS:
\* what lies behind the array is not saved.  The badge started without reading
\* the index (init fails, its result is ignored) and has paired since: the
\* short index in RAM has replaced the stored one, and `reported` begins anew.
\* A failed start alone loses nothing: until the next pairing all are there.
ReportedSurvives ==
  Stored.NumContacts <= MAX_CONTACTS =>
    \A c \in reported : \E i \in Entry(Stored) : Stored.ConIndex[i] = KeyOf[c]

\* Behind every entry of the stored index there is a contact of that key, for
\* the contact is written first.  (A reset breaks this: the next pairing writes
\* the old index back over the erased contacts.)
IndexedIsStored ==
  erased = 0 =>
    \A i \in Entry(Stored) :
      LET k == Stored.ConIndex[i]
      IN k # NoKey /\ contact[k] # NoPeer /\ KeyOf[contact[k]] = k

\* KeyStore.cpp:173, "verify not already in list": no key is indexed twice.
NoDuplicates ==
  \A i, j \in Entry(MyIndex) :
    i # j => MyIndex.ConIndex[i] # MyIndex.ConIndex[j]
=============================================================================

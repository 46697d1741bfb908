------------------------- MODULE ContactStoreProofs -------------------------
(***************************************************************************)
(* The index of contacts never loses a reported pairing: machine-checked   *)
(* proofs about ContactStore, for any number of badges, keys and slots.    *)
(***************************************************************************)
EXTENDS ContactStore, TLAPS

\* The assumptions on the constants, for leaves that need their types.
Assumptions ==
  /\ KeyOf \in [Peers -> Keys] /\ NoKey \notin Keys
  /\ MAX_CONTACTS \in Nat \ {0} /\ Memory \in Nat
  /\ MAX_CONTACTS <= Memory /\ Memory < 256
  /\ NoPeer \notin Peers /\ Wiping \notin Peers \cup {NoPeer}
  /\ Starting \notin Peers \cup {NoPeer, Wiping}
  /\ NoName \notin Names /\ {DefaultTime, ConstructedTime} \subseteq Times
  /\ NoIndex \notin Index

LEMMA AssumptionsHold == Assumptions
BY KeyAssumption, CapacityAssumption, ValueAssumption, IndexAssumption DEF Assumptions

\* An index with no entries is an index.
LEMMA EmptyIndexType == EmptyIndex \in Index
BY AssumptionsHold DEF Assumptions, EmptyIndex, Index, Slot

\* What start up reads is an index.
LEMMA StoredType ==
  ASSUME TypeOK
  PROVE  Stored \in Index
BY EmptyIndexType DEF TypeOK, Stored

\* Appending a contact counts it and writes its key behind the last entry.
LEMMA AppendedType ==
  ASSUME NEW k \in Keys, MyIndex \in Index, MyIndex.NumContacts < Memory
  PROVE  /\ Appended(k) \in Index
         /\ Appended(k).NumContacts = MyIndex.NumContacts + 1
         /\ \A i \in Slot : Appended(k).ConIndex[i] =
              IF i = MyIndex.NumContacts THEN k ELSE MyIndex.ConIndex[i]
<1>1. /\ MyIndex.NumContacts \in 0..Memory
      /\ MyIndex.ConIndex \in [Slot -> Keys \cup {NoKey}]
  BY DEF Index
<1>2. (MyIndex.NumContacts + 1) % 256 = MyIndex.NumContacts + 1
  BY <1>1, AssumptionsHold DEF Assumptions
<1>3. Appended(k).NumContacts = MyIndex.NumContacts + 1
  BY <1>2 DEF Appended
<1>4. Appended(k).ConIndex = [MyIndex.ConIndex EXCEPT ![MyIndex.NumContacts] = k]
  BY DEF Appended
<1>5. Appended(k).ConIndex \in [Slot -> Keys \cup {NoKey}]
  BY <1>1, <1>4
<1>6. MyIndex.NumContacts + 1 \in 0..Memory
  BY <1>1, AssumptionsHold DEF Assumptions
<1>7. Appended(k) \in Index
  BY <1>2, <1>4, <1>5, <1>6 DEF Appended, Index
<1>8. \A i \in Slot : Appended(k).ConIndex[i] =
        IF i = MyIndex.NumContacts THEN k ELSE MyIndex.ConIndex[i]
  BY <1>1, <1>4
<1> QED BY <1>3, <1>7, <1>8

\* The blob of an index counts the same contacts, and holds the same keys
\* inside the array and none behind it.
LEMMA BlobType ==
  ASSUME NEW index \in Index
  PROVE  /\ Blob(index) \in Index
         /\ Blob(index).NumContacts = index.NumContacts
         /\ \A i \in Slot : Blob(index).ConIndex[i] =
              IF i < MAX_CONTACTS THEN index.ConIndex[i] ELSE NoKey
<1> DEFINE slots == [i \in Slot |-> IF i < MAX_CONTACTS THEN index.ConIndex[i] ELSE NoKey]
<1>1. /\ index.NumContacts \in 0..Memory
      /\ index.ConIndex \in [Slot -> Keys \cup {NoKey}]
  BY DEF Index
<1>2. Blob(index) = [NumContacts |-> index.NumContacts, ConIndex |-> slots]
  BY DEF Blob, Index
<1>3. slots \in [Slot -> Keys \cup {NoKey}]
  BY <1>1
<1>4. Blob(index) \in Index
  BY <1>1, <1>2, <1>3 DEF Index
<1>5. Blob(index).NumContacts = index.NumContacts /\ Blob(index).ConIndex = slots
  BY <1>2
<1> QED BY <1>4, <1>5

-----------------------------------------------------------------------------
LEMMA FlagType ==
  ASSUME TypeOK, NEW kind, Fault(kind)
  PROVE  faults' \in 0..MaxFaults
BY LimitAssumption DEF TypeOK, Fault

\* The settings of a new badge, and those in RAM before init.
LEMMA SettingTypes == Factory \in Setting /\ Constructed \in Setting
BY AssumptionsHold DEF Assumptions, Factory, Constructed, Setting

\* Settings.init leaves values of the right kinds, whatever is refused.
LEMMA SettingsInitType ==
  ASSUME TypeOK,
         NEW name \in Names \cup {NoName}, NEW setting \in Setting \cup {NoSetting},
         SettingsRead(name, setting) \/ SettingsRefused(name, setting)
  PROVE  /\ AgentName' \in Names \cup {NoName}
         /\ Data' \in Setting
         /\ mysetting' \in Setting \cup {NoSetting}
<1>1. Default(setting) \in Setting
  BY SettingTypes DEF Default
<1>2. Named(name) \in Names \cup {NoName}
  BY DEF Named, TypeOK
<1> QED BY <1>1, <1>2, SettingTypes DEF SettingsRead, SettingsRefused, TypeOK

LEMMA InitTypeOK == Init => TypeOK
<1> SUFFICES ASSUME Init PROVE TypeOK
  OBVIOUS
<1>1. Data \in Setting /\ mysetting \in Setting
  BY SettingTypes DEF Init
<1>2. adds \in 0..MaxAdds /\ faults \in 0..MaxFaults
  BY LimitAssumption DEF Init
<1>3. MyIndex \in Index /\ contact \in [Keys -> Peers \cup {NoPeer}]
  BY EmptyIndexType DEF Init
<1>4. erased \in 0..1
  BY DEF Init
<1>5. unread \in BOOLEAN
  BY DEF Init
<1> QED BY <1>1, <1>2, <1>3, <1>4, <1>5 DEF Init, TypeOK

\* A badge that starts again has what the constructors wrote.
LEMMA RestartType ==
  ASSUME TypeOK, Restart, mysetting' \in Setting \cup {NoSetting}, faults' \in 0..MaxFaults
  PROVE  TypeOK'
BY EmptyIndexType, SettingTypes DEF Restart, TypeOK

LEMMA NextTypeOK == TypeOK /\ [Next]_vars => TypeOK'
<1> SUFFICES ASSUME TypeOK, [Next]_vars
             PROVE  TypeOK'
  OBVIOUS
<1> USE AssumptionsHold
<1>1. ASSUME NEW c \in Peers, SaveContact(c)
      PROVE  TypeOK'
  <2>1. adds' \in 0..MaxAdds
    BY <1>1, LimitAssumption DEF SaveContact, Call, TypeOK
  <2>2. contact' \in [Keys -> Peers \cup {NoPeer}]
    BY <1>1 DEF SaveContact, TypeOK, Assumptions
  <2> QED BY <1>1, <2>1, <2>2 DEF SaveContact, TypeOK, settingsVars
<1>2. ASSUME NEW c \in Peers, SaveRefused(c)
      PROVE  TypeOK'
  <2>1. adds' \in 0..MaxAdds
    BY <1>2, LimitAssumption DEF SaveRefused, Call, TypeOK
  <2>2. faults' \in 0..MaxFaults
    BY <1>2, FlagType DEF SaveRefused
  <2> QED BY <1>2, <2>1, <2>2 DEF SaveRefused, TypeOK, settingsVars, contactVars
<1>3. ASSUME NEW c \in Peers, Recording(c)
      PROVE  /\ MyIndex' \in Index
             /\ busy' \in Peers \cup {NoPeer, Wiping, Starting}
             /\ contact' \in [Keys -> Peers \cup {NoPeer}]
             /\ adds' \in 0..MaxAdds
             /\ AgentName' \in Names \cup {NoName} /\ Data' \in Setting
             /\ myname' \in Names \cup {NoName}
             /\ mysetting' \in Setting \cup {NoSetting}
             /\ erased' \in 0..1
  <2>1. KeyOf[c] \in Keys
    BY DEF Assumptions
  <2>2. MyIndex' \in Index
    BY <1>3, <2>1, AppendedType DEF Recording, TypeOK
  <2> QED BY <1>3, <2>2 DEF Recording, TypeOK, settingsVars
<1>4. ASSUME NEW c \in Peers, RecordIndex(c)
      PROVE  TypeOK'
  <2>1. Recording(c)
    BY <1>4 DEF RecordIndex
  <2>2. myIndex' \in Index \cup {NoIndex}
    BY <1>4, <2>1, <1>3, BlobType DEF RecordIndex, TypeOK
  <2>3. reported' \subseteq Peers /\ unread' \in BOOLEAN
    BY <1>4 DEF RecordIndex, Reported, TypeOK
  <2> QED BY <1>4, <2>1, <2>2, <2>3, <1>3 DEF RecordIndex, TypeOK
<1>5. ASSUME NEW c \in Peers, IndexRefused(c)
      PROVE  TypeOK'
  <2>1. Recording(c)
    BY <1>5 DEF IndexRefused
  <2>2. faults' \in 0..MaxFaults
    BY <1>5, FlagType DEF IndexRefused
  <2> QED BY <1>5, <2>1, <2>2, <1>3 DEF IndexRefused, TypeOK
<1>6. ASSUME NEW n \in Names, SetAgentname(n)
      PROVE  TypeOK'
  BY <1>6 DEF SetAgentname, TypeOK, contactVars
<1>7. ASSUME NEW n \in Names, NameRefused(n)
      PROVE  TypeOK'
  <2>1. faults' \in 0..MaxFaults
    BY <1>7, FlagType DEF NameRefused
  <2> QED BY <1>7, <2>1 DEF NameRefused, TypeOK, contactVars
<1>8. ASSUME NEW t \in Times, SetScreenSaverTime(t)
      PROVE  TypeOK'
  <2>1. Data' \in Setting
    BY <1>8 DEF SetScreenSaverTime, TypeOK, Setting
  <2> QED BY <1>8, <2>1 DEF SetScreenSaverTime, TypeOK, contactVars
<1>9. ASSUME NEW t \in Times, TimeRefused(t)
      PROVE  TypeOK'
  <2>1. Data' \in Setting
    BY <1>9 DEF TimeRefused, TypeOK, Setting
  <2>2. faults' \in 0..MaxFaults
    BY <1>9, FlagType DEF TimeRefused
  <2> QED BY <1>9, <2>1, <2>2 DEF TimeRefused, TypeOK, contactVars
<1>10. ASSUME NEW b \in BOOLEAN, SetBLE(b)
       PROVE  TypeOK'
  <2>1. mysetting' \in Setting
    BY <1>10 DEF SetBLE, TypeOK, Setting
  <2>2. faults' \in 0..MaxFaults
    BY <1>10 DEF SetBLE, TypeOK
  <2> QED BY <1>10, <2>1, <2>2, RestartType DEF SetBLE
<1>11. ASSUME NEW b \in BOOLEAN, BLERefused(b)
       PROVE  TypeOK'
  <2>1. Data' \in Setting
    BY <1>11 DEF BLERefused, TypeOK, Setting
  <2>2. faults' \in 0..MaxFaults
    BY <1>11, FlagType DEF BLERefused
  <2> QED BY <1>11, <2>1, <2>2 DEF BLERefused, TypeOK, contactVars
<1>12. ASSUME ResetSettings \/ ResetRefused
       PROVE  TypeOK'
  <2>1. faults' \in 0..MaxFaults
    BY <1>12, FlagType DEF ResetSettings, ResetRefused, TypeOK
  <2>2. /\ myname' \in Names \cup {NoName}
        /\ AgentName' \in Names \cup {NoName}
        /\ Data' \in Setting
        /\ mysetting' \in Setting \cup {NoSetting}
    <3>1. CASE ResetSettings
      BY <3>1, SettingsInitType DEF ResetSettings
    <3>2. CASE ResetRefused
      <4>1. PICK name \in {myname, NoName}, setting \in {mysetting, NoSetting} :
              /\ myname' = name
              /\ SettingsRead(name, setting) \/ SettingsRefused(name, setting)
        BY <3>2 DEF ResetRefused
      <4>2. name \in Names \cup {NoName} /\ setting \in Setting \cup {NoSetting}
        BY DEF TypeOK
      <4> QED BY <4>1, <4>2, SettingsInitType
    <3> QED BY <1>12, <3>1, <3>2
  <2>3. Resets
    BY <1>12 DEF ResetSettings, ResetRefused
  <2> QED BY <2>1, <2>2, <2>3 DEF Resets, TypeOK, contactVars
<1>13. ASSUME WipeContacts
       PROVE  TypeOK'
  BY <1>13 DEF WipeContacts, TypeOK, settingsVars
<1>14. ASSUME WipeRefused
       PROVE  TypeOK'
  <2>1. faults' \in 0..MaxFaults
    BY <1>14, FlagType DEF WipeRefused
  <2> QED BY <1>14, <2>1 DEF WipeRefused, TypeOK, settingsVars, contactVars
<1>15. ASSUME PowerCycle
       PROVE  TypeOK'
  <2>1. mysetting' \in Setting \cup {NoSetting} /\ faults' \in 0..MaxFaults
    BY <1>15, FlagType DEF PowerCycle, TypeOK
  <2> QED BY <1>15, <2>1, RestartType DEF PowerCycle
<1>16. ASSUME Start \/ StartFails \/ StartNameless
       PROVE  TypeOK'
  <2>1. faults' \in 0..MaxFaults
    BY <1>16, FlagType DEF Start, StartFails, StartNameless, TypeOK
  <2>2. /\ AgentName' \in Names \cup {NoName}
        /\ Data' \in Setting
        /\ mysetting' \in Setting \cup {NoSetting}
    <3>1. myname \in Names \cup {NoName} /\ mysetting \in Setting \cup {NoSetting}
      BY DEF TypeOK
    <3>2. CASE Start \/ StartFails
      BY <3>1, <3>2, SettingsInitType DEF Start, StartFails
    <3>3. CASE StartNameless
      BY <3>1, <3>3, SettingTypes DEF StartNameless, Default, TypeOK
    <3> QED BY <1>16, <3>2, <3>3
  <2>3. MyIndex' \in Index /\ unread' \in BOOLEAN
    BY <1>16, StoredType DEF Start, StartFails, StartNameless, IndexRead, TypeOK
  <2>4. Starts
    BY <1>16 DEF Start, StartFails, StartNameless
  <2> QED BY <2>1, <2>2, <2>3, <2>4 DEF Starts, TypeOK
<1>17. CASE UNCHANGED vars
  BY <1>17 DEF vars, TypeOK
<1> QED
  BY <1>1, <1>2, <1>4, <1>5, <1>6, <1>7, <1>8, <1>9, <1>10, <1>11, <1>12, <1>13,
     <1>14, <1>15, <1>16, <1>17 DEF Next

\* Every reachable state has the types declared for the variables.
THEOREM StoreTypeCorrect == Spec => []TypeOK
<1>1. Init => TypeOK
  BY InitTypeOK
<1>2. TypeOK /\ [Next]_vars => TypeOK'
  BY NextTypeOK
<1> QED BY <1>1, <1>2, PTL DEF Spec

-----------------------------------------------------------------------------
(* What a step does to the two indexes: nothing, append a contact to the one *)
(* in RAM (and perhaps save it), empty that one as the badge starts again,   *)
(* read the one in flash, or wipe that one.                                  *)

Same == UNCHANGED <<MyIndex, myIndex, unread, reported>>
Append(c) == RecordIndex(c) \/ IndexRefused(c)
Empty == MyIndex' = EmptyIndex /\ unread' = TRUE /\ UNCHANGED <<myIndex, reported>>
Reload == IndexRead /\ UNCHANGED <<myIndex, reported>>

LEMMA StepKinds ==
  ASSUME [Next]_vars
  PROVE  Same \/ (\E c \in Peers : Append(c)) \/ Empty \/ Reload \/ WipeContacts
<1> USE DEF contactVars
<1>1. ASSUME NEW c \in Peers, SaveContact(c) \/ SaveRefused(c)
      PROVE  Same
  BY <1>1 DEF SaveContact, SaveRefused, Same
<1>2. ASSUME NEW n \in Names, SetAgentname(n) \/ NameRefused(n)
      PROVE  Same
  BY <1>2 DEF SetAgentname, NameRefused, Same
<1>3. ASSUME NEW t \in Times, SetScreenSaverTime(t) \/ TimeRefused(t)
      PROVE  Same
  BY <1>3 DEF SetScreenSaverTime, TimeRefused, Same
<1>4. ASSUME NEW b \in BOOLEAN, BLERefused(b)
      PROVE  Same
  BY <1>4 DEF BLERefused, Same
<1>5. ASSUME (\E b \in BOOLEAN : SetBLE(b)) \/ PowerCycle
      PROVE  Empty
  BY <1>5 DEF SetBLE, PowerCycle, Restart, Empty
<1>6. ASSUME Start \/ StartNameless
      PROVE  Reload
  BY <1>6 DEF Start, StartNameless, Starts, Reload
<1>7. ASSUME StartFails \/ ResetSettings \/ ResetRefused \/ WipeRefused
      PROVE  Same
  BY <1>7 DEF StartFails, Starts, ResetSettings, ResetRefused, Resets, WipeRefused, Same
<1>8. CASE UNCHANGED vars
  BY <1>8 DEF vars, Same
<1> QED
  BY <1>1, <1>2, <1>3, <1>4, <1>5, <1>6, <1>7, <1>8 DEF Next, Append

\* addContact never finds its contact in the index: the slot it looks in is empty.
LEMMA NeverAlreadyPaired ==
  ASSUME TypeOK, FreeSlotsEmpty, NEW k \in Keys, MyIndex.NumContacts < Memory
  PROVE  ~AlreadyPaired(k)
<1>1. MyIndex.NumContacts \in Slot
  BY AssumptionsHold DEF TypeOK, Index, Slot, Assumptions
<1>2. MyIndex.ConIndex[MyIndex.NumContacts] = NoKey
  BY <1>1 DEF FreeSlotsEmpty, Slot
<1> QED BY <1>2, AssumptionsHold DEF AlreadyPaired, Assumptions

\* So addContact appends, and what it saves is the new index.
LEMMA AppendStep ==
  ASSUME TypeOK, FreeSlotsEmpty, NEW c \in Peers, Append(c)
  PROVE  /\ KeyOf[c] \in Keys
         /\ MyIndex.NumContacts \in Slot
         /\ MyIndex' \in Index
         /\ MyIndex'.NumContacts = MyIndex.NumContacts + 1
         /\ \A i \in Slot : MyIndex'.ConIndex[i] =
              IF i = MyIndex.NumContacts THEN KeyOf[c] ELSE MyIndex.ConIndex[i]
         /\ \/ /\ Stored' = Blob(MyIndex')
               /\ reported' = (IF unread THEN {} ELSE reported) \cup {c}
               /\ unread' = FALSE
            \/ UNCHANGED <<Stored, reported, unread>>
<1>1. Recording(c) /\ KeyOf[c] \in Keys
  BY AssumptionsHold DEF Append, RecordIndex, IndexRefused, Assumptions
<1>2. MyIndex.NumContacts < Memory /\ MyIndex \in Index
  BY <1>1 DEF Recording, TypeOK
<1>3. ~AlreadyPaired(KeyOf[c])
  BY <1>1, <1>2, NeverAlreadyPaired
<1>4. MyIndex' = Appended(KeyOf[c])
  BY <1>1, <1>3 DEF Recording
<1>5. CASE RecordIndex(c)
  <2>1. /\ myIndex' = Blob(MyIndex')
        /\ reported' = (IF unread THEN {} ELSE reported) \cup {c}
        /\ unread' = FALSE
    BY <1>3, <1>5 DEF RecordIndex, Reported
  <2>2. Blob(MyIndex') \in Index
    BY <1>1, <1>2, <1>4, AppendedType, BlobType
  <2>3. Stored' = Blob(MyIndex')
    BY <2>1, <2>2, AssumptionsHold DEF Stored, Assumptions
  <2> QED BY <1>1, <1>2, <1>4, <2>1, <2>3, AppendedType, AssumptionsHold
          DEF Slot, Index, Assumptions
<1>6. CASE IndexRefused(c)
  <2>1. UNCHANGED <<Stored, reported, unread>>
    BY <1>6 DEF IndexRefused, Stored
  <2> QED BY <1>1, <1>2, <1>4, <2>1, AppendedType, AssumptionsHold
          DEF Slot, Index, Assumptions
<1> QED BY <1>5, <1>6 DEF Append

-----------------------------------------------------------------------------
(* The two indexes. *)

LEMMA InitIndexSound == Init => IndexSound
<1> SUFFICES ASSUME Init PROVE IndexSound
  OBVIOUS
<1>1. MyIndex = EmptyIndex /\ Stored = EmptyIndex
  BY DEF Init, Stored
<1>2. StoredIsPrefix
  BY <1>1 DEF StoredIsPrefix, Entry, EmptyIndex
<1>3. FreeSlotsEmpty
  BY <1>1 DEF FreeSlotsEmpty, EmptyIndex
<1> QED BY <1>2, <1>3 DEF IndexSound

LEMMA NextIndexSound == TypeOK /\ IndexSound /\ [Next]_vars => IndexSound'
<1> SUFFICES ASSUME TypeOK, IndexSound, [Next]_vars
             PROVE  IndexSound'
  OBVIOUS
<1>1. CASE Same
  BY <1>1 DEF Same, IndexSound, StoredIsPrefix, FreeSlotsEmpty, Stored, Entry
<1>2. ASSUME NEW c \in Peers, Append(c)
      PROVE  IndexSound'
  <2>1. /\ MyIndex.NumContacts \in Slot /\ MyIndex' \in Index
        /\ MyIndex'.NumContacts = MyIndex.NumContacts + 1
        /\ \A i \in Slot : MyIndex'.ConIndex[i] =
             IF i = MyIndex.NumContacts THEN KeyOf[c] ELSE MyIndex.ConIndex[i]
    BY <1>2, AppendStep DEF IndexSound
  <2>2. \A i \in Slot : i >= MyIndex'.NumContacts => MyIndex'.ConIndex[i] = NoKey
    <3>1. \A i \in Slot : i >= MyIndex.NumContacts => MyIndex.ConIndex[i] = NoKey
      BY DEF IndexSound, FreeSlotsEmpty
    <3> QED BY <2>1, <3>1 DEF Slot
  <2>3. CASE Stored' = Blob(MyIndex') /\ unread' = FALSE
    <3>1. /\ Stored'.NumContacts = MyIndex'.NumContacts
          /\ \A i \in Slot : Stored'.ConIndex[i] =
               IF i < MAX_CONTACTS THEN MyIndex'.ConIndex[i] ELSE NoKey
      BY <2>1, <2>3, BlobType
    <3>2. Stored'.NumContacts <= MyIndex'.NumContacts
      BY <2>1, <3>1 DEF Slot
    <3>3. StoredIsPrefix'
      BY <3>1, <3>2 DEF StoredIsPrefix, Entry
    <3>4. FreeSlotsEmpty'
      BY <2>2, <3>1 DEF FreeSlotsEmpty
    <3> QED BY <3>3, <3>4 DEF IndexSound
  <2>4. CASE UNCHANGED <<Stored, unread>>
    <3>1. StoredIsPrefix'
      <4> SUFFICES ASSUME ~unread
                   PROVE  /\ Stored'.NumContacts <= MyIndex'.NumContacts
                          /\ \A i \in Entry(Stored)' : Stored'.ConIndex[i] = MyIndex'.ConIndex[i]
        BY <2>4 DEF StoredIsPrefix
      <4>1. Stored.NumContacts <= MyIndex.NumContacts /\ Stored.NumContacts \in 0..Memory
        BY StoredType DEF IndexSound, StoredIsPrefix, Index
      <4>2. \A i \in Entry(Stored) : i # MyIndex.NumContacts /\ i \in Slot
        BY <2>1, <4>1 DEF Entry, Slot
      <4>3. \A i \in Entry(Stored) : Stored.ConIndex[i] = MyIndex.ConIndex[i]
        BY DEF IndexSound, StoredIsPrefix
      <4>4. \A i \in Entry(Stored) : Stored.ConIndex[i] = MyIndex'.ConIndex[i]
        BY <2>1, <4>2, <4>3
      <4>5. Stored.NumContacts <= MyIndex'.NumContacts
        BY <2>1, <4>1 DEF Slot
      <4>6. Entry(Stored)' = Entry(Stored)
        BY <2>4 DEF Entry
      <4> QED BY <2>4, <4>4, <4>5, <4>6
    <3>2. \A i \in Slot : i >= Stored.NumContacts => Stored.ConIndex[i] = NoKey
      BY DEF IndexSound, FreeSlotsEmpty
    <3>3. FreeSlotsEmpty'
      BY <2>2, <2>4, <3>2 DEF FreeSlotsEmpty
    <3> QED BY <3>1, <3>3 DEF IndexSound
  <2> QED BY <1>2, <2>3, <2>4, AppendStep DEF IndexSound
<1>3. CASE Empty
  <2>1. MyIndex' = EmptyIndex /\ Stored' = Stored /\ unread' = TRUE
    BY <1>3 DEF Empty, Stored
  <2>2. StoredIsPrefix'
    BY <2>1 DEF StoredIsPrefix
  <2>3. FreeSlotsEmpty'
    BY <2>1 DEF IndexSound, FreeSlotsEmpty, EmptyIndex
  <2> QED BY <2>2, <2>3 DEF IndexSound
<1>4. CASE Reload
  <2>1. MyIndex' = Stored /\ Stored' = Stored
    BY <1>4 DEF Reload, IndexRead, Stored
  <2>2. Stored.NumContacts \in Nat
    BY StoredType DEF Index
  <2>3. StoredIsPrefix'
    BY <2>1, <2>2 DEF StoredIsPrefix, Entry
  <2>4. FreeSlotsEmpty'
    BY <2>1 DEF IndexSound, FreeSlotsEmpty
  <2> QED BY <2>3, <2>4 DEF IndexSound
<1>5. CASE WipeContacts
  <2>1. MyIndex' = MyIndex /\ Stored' = EmptyIndex
    BY <1>5 DEF WipeContacts, Stored
  <2>2. MyIndex.NumContacts \in Nat
    BY DEF TypeOK, Index
  <2>3. Entry(EmptyIndex) = {} /\ EmptyIndex.NumContacts = 0
    BY DEF Entry, EmptyIndex, Slot
  <2>4. StoredIsPrefix'
    <3>1. Entry(Stored)' = {}
      BY <2>1, <2>3 DEF Entry
    <3>2. Stored'.NumContacts <= MyIndex'.NumContacts
      BY <2>1, <2>2, <2>3
    <3> QED BY <3>1, <3>2 DEF StoredIsPrefix
  <2>5. FreeSlotsEmpty'
    BY <2>1 DEF IndexSound, FreeSlotsEmpty, EmptyIndex
  <2> QED BY <2>4, <2>5 DEF IndexSound
<1> QED BY <1>1, <1>2, <1>3, <1>4, <1>5, StepKinds

\* No slot behind the entries of either index was ever written, so the search for
\* a duplicate cannot succeed; and the index in flash is the beginning of the one
\* in RAM, unless the badge started without reading it and has saved none since.
THEOREM IndexIsSound == Spec => []IndexSound
<1>1. Init => TypeOK /\ IndexSound
  BY InitTypeOK, InitIndexSound
<1>2. (TypeOK /\ IndexSound) /\ [Next]_vars => (TypeOK /\ IndexSound)'
  BY NextTypeOK, NextIndexSound
<1> QED BY <1>1, <1>2, PTL DEF Spec

-----------------------------------------------------------------------------
(* Reported pairings. *)

LEMMA NextReportedSurvives ==
  TypeOK /\ IndexSound /\ ReportedSurvives /\ [Next]_vars => ReportedSurvives'
<1> SUFFICES ASSUME TypeOK, IndexSound, ReportedSurvives, [Next]_vars
             PROVE  ReportedSurvives'
  OBVIOUS
<1>1. CASE Same
  BY <1>1 DEF Same, ReportedSurvives, Stored, Entry
<1>2. ASSUME NEW c \in Peers, Append(c)
      PROVE  ReportedSurvives'
  <2>1. /\ MyIndex.NumContacts \in Slot /\ MyIndex' \in Index
        /\ MyIndex'.NumContacts = MyIndex.NumContacts + 1
        /\ \A i \in Slot : MyIndex'.ConIndex[i] =
             IF i = MyIndex.NumContacts THEN KeyOf[c] ELSE MyIndex.ConIndex[i]
    BY <1>2, AppendStep DEF IndexSound
  <2>2. CASE /\ Stored' = Blob(MyIndex')
             /\ reported' = (IF unread THEN {} ELSE reported) \cup {c}
    <3>1. /\ Stored'.NumContacts = MyIndex.NumContacts + 1
          /\ \A i \in Slot : i < MAX_CONTACTS => Stored'.ConIndex[i] = MyIndex'.ConIndex[i]
      BY <2>1, <2>2, BlobType
    <3> SUFFICES ASSUME MyIndex.NumContacts + 1 <= MAX_CONTACTS, NEW d \in reported'
                 PROVE  \E i \in Entry(Stored)' : Stored'.ConIndex[i] = KeyOf[d]
      BY <3>1 DEF ReportedSurvives
    <3>2. Entry(Stored)' = {i \in Slot : i < MyIndex.NumContacts + 1 /\ i < MAX_CONTACTS}
      BY <3>1 DEF Entry
    <3>3. CASE d = c
      <4>1. MyIndex.NumContacts \in Entry(Stored)'
        BY <2>1, <3>2, AssumptionsHold DEF Slot, Assumptions
      <4>2. Stored'.ConIndex[MyIndex.NumContacts] = KeyOf[d]
        BY <2>1, <3>1, <3>2, <3>3, <4>1
      <4> QED BY <4>1, <4>2
    <3>4. CASE d \in reported /\ ~unread
      <4>1. Stored.NumContacts \in Nat /\ Stored.NumContacts <= MyIndex.NumContacts
        BY <3>4, StoredType DEF IndexSound, StoredIsPrefix, Index
      <4>2. Stored.NumContacts <= MAX_CONTACTS
        BY <2>1, <4>1, AssumptionsHold DEF Slot, Assumptions
      <4>3. PICK i \in Entry(Stored) : Stored.ConIndex[i] = KeyOf[d]
        BY <3>4, <4>2 DEF ReportedSurvives
      <4>4. i \in Slot /\ i < MyIndex.NumContacts /\ i < MAX_CONTACTS
        BY <2>1, <4>1, <4>3 DEF Entry, Slot
      <4>5. i \in Entry(Stored)'
        BY <2>1, <3>2, <4>4 DEF Slot
      <4>6. Stored.ConIndex[i] = MyIndex.ConIndex[i]
        BY <3>4, <4>3 DEF IndexSound, StoredIsPrefix
      <4>7. Stored'.ConIndex[i] = MyIndex.ConIndex[i]
        BY <2>1, <3>1, <4>4 DEF Slot
      <4> QED BY <4>3, <4>5, <4>6, <4>7
    <3> QED BY <2>2, <3>3, <3>4
  <2>3. CASE UNCHANGED <<Stored, reported>>
    BY <2>3 DEF ReportedSurvives, Entry
  <2> QED BY <1>2, <2>2, <2>3, AppendStep DEF IndexSound
<1>3. CASE Empty \/ Reload
  BY <1>3 DEF Empty, Reload, ReportedSurvives, Stored, Entry
<1>4. CASE WipeContacts
  BY <1>4 DEF WipeContacts, ReportedSurvives
<1> QED BY <1>1, <1>2, <1>3, <1>4, StepKinds

\* While the stored index counts no more than MAX_CONTACTS, every pairing reported
\* as a success is in it, whatever is refused and whenever the power fails; only
\* a pairing made after a start that could not read the index makes it forget
\* the earlier ones.
THEOREM ReportedPairingsSurvive == Spec => []ReportedSurvives
<1>1. Init => TypeOK /\ IndexSound
  BY InitTypeOK, InitIndexSound
<1>2. Init => ReportedSurvives
  BY DEF Init, ReportedSurvives
<1>3. (TypeOK /\ IndexSound /\ ReportedSurvives) /\ [Next]_vars
        => (TypeOK /\ IndexSound /\ ReportedSurvives)'
  BY NextTypeOK, NextIndexSound, NextReportedSurvives
<1> QED BY <1>1, <1>2, <1>3, PTL DEF Spec

-----------------------------------------------------------------------------
(* Contacts behind the index.  The entries in RAM count too, for a later      *)
(* pairing saves them, and so does the contact addContact is working on; the  *)
(* two indexes apart, for after a failed start neither begins the other.      *)

HasContact(stored, k) ==
  k \in Keys /\ stored[k] \in Peers /\ KeyOf[stored[k]] = k

Backed ==
  erased = 0 =>
    /\ \A i \in Entry(MyIndex) : HasContact(contact, MyIndex.ConIndex[i])
    /\ \A i \in Entry(Stored) : HasContact(contact, Stored.ConIndex[i])
    /\ busy \in Peers => HasContact(contact, KeyOf[busy])
    /\ busy # Wiping

\* A reset once begun is never forgotten.
LEMMA StillUnerased ==
  ASSUME [Next]_vars, erased' = 0
  PROVE  erased = 0 /\ ~Resets
<1>1. ~Resets
  BY DEF Resets
<1>2. erased' = erased
  BY <1>1 DEF Next, SaveContact, SaveRefused, RecordIndex, IndexRefused, Recording,
     SetAgentname, NameRefused, SetScreenSaverTime, TimeRefused, SetBLE, BLERefused,
     Restart, PowerCycle, Starts, Start, StartFails, StartNameless,
     ResetSettings, ResetRefused, WipeContacts, WipeRefused, vars, settingsVars
<1> QED BY <1>1, <1>2

\* Keys that have a contact keep one.
LEMMA ContactsStay ==
  ASSUME TypeOK, Backed, erased' = 0, [Next]_vars
  PROVE  \A k \in Keys : HasContact(contact, k) => HasContact(contact', k)
<1> USE AssumptionsHold DEF HasContact
<1> SUFFICES ASSUME NEW k \in Keys, HasContact(contact, k)
             PROVE  HasContact(contact', k)
  OBVIOUS
<1>1. ASSUME NEW c \in Peers, SaveContact(c)
      PROVE  HasContact(contact', k)
  <2>1. contact' = [contact EXCEPT ![KeyOf[c]] = c] /\ contact \in [Keys -> Peers \cup {NoPeer}]
    BY <1>1 DEF SaveContact, TypeOK
  <2>2. CASE k = KeyOf[c]
    BY <2>1, <2>2
  <2>3. CASE k # KeyOf[c]
    BY <2>1, <2>3
  <2> QED BY <2>2, <2>3
<1>2. ASSUME UNCHANGED contact
      PROVE  HasContact(contact', k)
  BY <1>2
<1>3. ~WipeContacts
  BY StillUnerased DEF WipeContacts, Backed
<1>4. (\E c \in Peers : SaveContact(c)) \/ UNCHANGED contact
  BY <1>3 DEF Next, SaveRefused, RecordIndex, IndexRefused, Recording, SetAgentname,
     NameRefused, SetScreenSaverTime, TimeRefused, SetBLE, BLERefused, Restart,
     PowerCycle, Starts, Start, StartFails, StartNameless, Resets, ResetSettings,
     ResetRefused, WipeRefused, vars, contactVars
<1> QED BY <1>1, <1>2, <1>4

LEMMA BusyStep ==
  ASSUME TypeOK, Backed, erased' = 0, [Next]_vars
  PROVE  (busy' \in Peers => HasContact(contact', KeyOf[busy'])) /\ busy' # Wiping
<1> USE AssumptionsHold DEF Assumptions
<1>1. ASSUME NEW c \in Peers, SaveContact(c)
      PROVE  HasContact(contact', KeyOf[busy']) /\ busy' # Wiping
  BY <1>1 DEF SaveContact, HasContact, TypeOK
<1>2. ~WipeContacts /\ ~WipeRefused /\ ~ResetSettings /\ ~ResetRefused
  BY StillUnerased DEF WipeContacts, WipeRefused, ResetSettings, ResetRefused, Backed
<1>3. (\E c \in Peers : SaveContact(c)) \/ busy' = busy \/ busy' \in {NoPeer, Starting}
  BY <1>2 DEF Next, SaveRefused, RecordIndex, IndexRefused, Recording, SetAgentname,
     NameRefused, SetScreenSaverTime, TimeRefused, SetBLE, BLERefused, Restart,
     PowerCycle, Starts, Start, StartFails, StartNameless, vars
<1>4. ASSUME busy' = busy
      PROVE  (busy' \in Peers => HasContact(contact', KeyOf[busy'])) /\ busy' # Wiping
  <2>1. ASSUME busy \in Peers PROVE HasContact(contact', KeyOf[busy])
    <3>1. HasContact(contact, KeyOf[busy]) /\ KeyOf[busy] \in Keys
      BY <2>1, StillUnerased DEF Backed, HasContact
    <3> QED BY <3>1, ContactsStay
  <2> QED BY <1>4, <2>1, StillUnerased DEF Backed
<1> QED BY <1>1, <1>3, <1>4

LEMMA NextBacked == TypeOK /\ IndexSound /\ Backed /\ [Next]_vars => Backed'
<1> SUFFICES ASSUME TypeOK, IndexSound, Backed, [Next]_vars, erased' = 0
             PROVE  Backed'
  BY DEF Backed
<1> erased = 0
  BY StillUnerased
<1> SUFFICES /\ \A i \in Entry(MyIndex)' : HasContact(contact', MyIndex'.ConIndex[i])
             /\ \A i \in Entry(Stored)' : HasContact(contact', Stored'.ConIndex[i])
  BY BusyStep DEF Backed
<1>1. \A i \in Entry(MyIndex) : HasContact(contact', MyIndex.ConIndex[i])
  BY ContactsStay DEF Backed, HasContact
<1>2. \A i \in Entry(Stored) : HasContact(contact', Stored.ConIndex[i])
  BY ContactsStay DEF Backed, HasContact
<1>3. CASE Same
  BY <1>1, <1>2, <1>3 DEF Same, Entry, Stored
<1>4. ASSUME NEW c \in Peers, Append(c)
      PROVE  /\ \A i \in Entry(MyIndex)' : HasContact(contact', MyIndex'.ConIndex[i])
             /\ \A i \in Entry(Stored)' : HasContact(contact', Stored'.ConIndex[i])
  <2>1. /\ MyIndex.NumContacts \in Slot /\ KeyOf[c] \in Keys /\ MyIndex' \in Index
        /\ MyIndex'.NumContacts = MyIndex.NumContacts + 1
        /\ \A j \in Slot : MyIndex'.ConIndex[j] =
             IF j = MyIndex.NumContacts THEN KeyOf[c] ELSE MyIndex.ConIndex[j]
    BY <1>4, AppendStep DEF IndexSound
  <2>2. HasContact(contact', KeyOf[c])
    <3>1. busy = c
      BY <1>4 DEF Append, RecordIndex, IndexRefused, Recording
    <3>2. HasContact(contact, KeyOf[c])
      BY <3>1 DEF Backed
    <3> QED BY <2>1, <3>2, ContactsStay
  <2>3. ASSUME NEW i \in Entry(MyIndex)'
        PROVE  HasContact(contact', MyIndex'.ConIndex[i])
    <3>1. i \in Slot /\ i < MyIndex.NumContacts + 1 /\ i < MAX_CONTACTS
      BY <2>1 DEF Entry
    <3>2. CASE i = MyIndex.NumContacts
      BY <2>1, <2>2, <3>1, <3>2
    <3>3. CASE i # MyIndex.NumContacts
      <4>1. i \in Entry(MyIndex)
        BY <2>1, <3>1, <3>3 DEF Entry, Slot
      <4> QED BY <1>1, <2>1, <3>1, <3>3, <4>1
    <3> QED BY <3>2, <3>3
  <2>4. CASE Stored' = Blob(MyIndex')
    <3>1. /\ Stored'.NumContacts = MyIndex'.NumContacts
          /\ \A i \in Slot : Stored'.ConIndex[i] =
               IF i < MAX_CONTACTS THEN MyIndex'.ConIndex[i] ELSE NoKey
      BY <2>1, <2>4, BlobType
    <3>2. ASSUME NEW i \in Entry(Stored)'
          PROVE  HasContact(contact', Stored'.ConIndex[i])
      <4>1. i \in Entry(MyIndex)' /\ i \in Slot /\ i < MAX_CONTACTS
        BY <3>1 DEF Entry
      <4> QED BY <2>3, <3>1, <4>1
    <3> QED BY <2>3, <3>2
  <2>5. CASE UNCHANGED Stored
    BY <1>2, <2>3, <2>5 DEF Entry
  <2> QED BY <1>4, <2>4, <2>5, AppendStep DEF IndexSound
<1>5. CASE Empty
  <2>1. Entry(MyIndex)' = {} /\ Stored' = Stored
    BY <1>5 DEF Empty, Entry, EmptyIndex, Slot, Stored
  <2> QED BY <1>2, <2>1 DEF Entry
<1>6. CASE Reload
  BY <1>2, <1>6 DEF Reload, IndexRead, Entry, Stored
<1>7. CASE WipeContacts
  BY <1>7 DEF WipeContacts, Backed
<1> QED BY <1>3, <1>4, <1>5, <1>6, <1>7, StepKinds

LEMMA InitBacked == Init => Backed
<1> SUFFICES ASSUME Init PROVE Backed
  OBVIOUS
<1>1. MyIndex = EmptyIndex /\ Stored = EmptyIndex /\ Entry(EmptyIndex) = {}
  BY DEF Init, Stored, Entry, EmptyIndex, Slot
<1>2. busy \notin Peers /\ busy # Wiping
  BY AssumptionsHold DEF Init, Assumptions
<1> QED BY <1>1, <1>2 DEF Backed

LEMMA BackedIndex == Backed => IndexedIsStored
BY AssumptionsHold DEF Backed, IndexedIsStored, HasContact, Assumptions

\* Without a factory reset, every entry of the stored index leads to a contact.
THEOREM IndexLeadsToContacts == Spec => []IndexedIsStored
<1>1. Init => TypeOK /\ IndexSound /\ Backed
  BY InitTypeOK, InitIndexSound, InitBacked
<1>2. (TypeOK /\ IndexSound /\ Backed) /\ [Next]_vars => (TypeOK /\ IndexSound /\ Backed)'
  BY NextTypeOK, NextIndexSound, NextBacked
<1>3. Backed => IndexedIsStored
  BY BackedIndex
<1> QED BY <1>1, <1>2, <1>3, PTL DEF Spec
=============================================================================

---------------------------- MODULE StorageProofs ----------------------------
(***************************************************************************)
(* Proofs about the script store and those who use it.                     *)
(*                                                                         *)
(* Storage: what Storage.cfg checks for three names and two slots, for any *)
(* number of both, any bodies and any credentials, with power cuts and     *)
(* refused flash operations at every step.                                 *)
(*                                                                         *)
(* Shell: what Shell.cfg checks for eight commands and three lines of      *)
(* input, for any commands, nested to any depth, any scripts and any       *)
(* number of lines.  The lemmas on slots and names serve both.             *)
(***************************************************************************)
EXTENDS Storage, Shell, SequenceTheorems, WellFoundedInduction, TLAPS

(* Scanning the slots *)

LEMMA FirstIsLeast ==
  ASSUME NEW S \in SUBSET Slots
  PROVE  \/ S = {} /\ First(S) = NoSlot
         \/ S # {} /\ First(S) \in S
<1>1. Slots \subseteq Nat
  BY SlotAssumption DEF Slots
<1>2. CASE S = {}
  BY <1>2 DEF First
<1>3. CASE S # {}
  <2>1. PICK m \in S : \A k \in S : ~(<<k, m>> \in OpToRel(<, Nat))
    BY <1>1, <1>3, NatLessThanWellFounded, WFMin
  <2>2. \A k \in S : m <= k
    <3> TAKE k \in S
    <3>1. ~(k < m)
      BY <1>1, <2>1 DEF OpToRel
    <3>2. k \in Nat /\ m \in Nat
      BY <1>1
    <3> QED BY <3>1, <3>2
  <2> QED BY <1>3, <2>2 DEF First
<1> QED BY <1>2, <1>3

LEMMA NoSlotIsNone == NoSlot \notin Slots
BY DEF Slots, NoSlot

\* Slot i carries name n.
Carries(t, i, n) == Valid(t, i) /\ t[i].name = n

LEMMA FindByNameFinds ==
  ASSUME NEW t, NEW n
  PROVE  \/ FindByName(t, n) = NoSlot /\ \A i \in Slots : ~Carries(t, i, n)
         \/ FindByName(t, n) \in Slots /\ Carries(t, FindByName(t, n), n)
<1> DEFINE S == {i \in Slots : Valid(t, i) /\ t[i].name = n}
<1>1. FindByName(t, n) = First(S) /\ S \subseteq Slots
  BY DEF FindByName
<1>2. \/ S = {} /\ First(S) = NoSlot
      \/ S # {} /\ First(S) \in S
  BY FirstIsLeast
<1> QED BY <1>1, <1>2 DEF Carries

LEMMA TargetIsOwnOrFree ==
  ASSUME NEW t, NEW n, TargetSlot(t, n) # NoSlot
  PROVE  /\ TargetSlot(t, n) \in Slots
         /\ \/ Carries(t, TargetSlot(t, n), n)
            \/ ~Valid(t, TargetSlot(t, n)) /\ \A i \in Slots : ~Carries(t, i, n)
<1>1. CASE FindByName(t, n) # NoSlot
  BY <1>1, FindByNameFinds DEF TargetSlot
<1>2. CASE FindByName(t, n) = NoSlot
  <2>1. \A i \in Slots : ~Carries(t, i, n)
    BY <1>2, FindByNameFinds, NoSlotIsNone
  <2> DEFINE S == {i \in Slots : ~Valid(t, i)}
  <2>2. \/ S = {} /\ First(S) = NoSlot
        \/ S # {} /\ First(S) \in S
    BY FirstIsLeast
  <2>3. TargetSlot(t, n) = First(S)
    BY <1>2 DEF TargetSlot, FindFree
  <2> QED BY <2>1, <2>2, <2>3
<1> QED BY <1>1, <1>2

-----------------------------------------------------------------------------
(* The store *)

\* The slot of the call under way is its name's own or a free one, and no other slot
\* carries that name; so the name is still unique once the header is programmed.
CallOwnsSlot ==
  call # NoCall =>
    /\ call.slot \in Slots /\ call.name \in Names
    /\ \A j \in Slots \ {call.slot} : ~Carries(store, j, call.name)
    /\ Valid(store, call.slot) => store[call.slot].name = call.name
    /\ call.does = "save" => Len(call.body) <= BodyMax

Inv == StorageTypeOK /\ NamesUnique /\ CallOwnsSlot

CallsOfStore ==
  {NoCall} \cup {Removing(i, n) : i \in Slots, n \in Names}
    \cup {Saving(i, n, b, at) : i \in Slots, n \in Names, b \in Bodies,
                                at \in {"erase", "program"}}

\* What a step leaves of the store when it writes one sector, the one of the call
LEMMA OneSector ==
  ASSUME Inv, call # NoCall, NEW s \in Sectors, store' = [store EXCEPT ![call.slot] = s],
         s # Erased => s.name \in {call.name, Absent},
         (s # Erased /\ s.sound) => Len(s.body) <= BodyMax
  PROVE  /\ store' \in [Slots -> Sectors] /\ NamesUnique'
         /\ \A i \in Slots : Valid(store', i) /\ store'[i].sound => Len(store'[i].body) <= BodyMax
         /\ \A j \in Slots \ {call.slot} : store'[j] = store[j]
         /\ store'[call.slot] = s
<1>1. /\ store \in [Slots -> Sectors] /\ call.slot \in Slots /\ call.name \in Names
      /\ \A j \in Slots \ {call.slot} : ~Carries(store, j, call.name)
      /\ \A i \in Slots : Valid(store, i) /\ store[i].sound => Len(store[i].body) <= BodyMax
  BY DEF Inv, StorageTypeOK, CallOwnsSlot
<1>2. /\ store' \in [Slots -> Sectors]
      /\ \A j \in Slots \ {call.slot} : store'[j] = store[j]
      /\ store'[call.slot] = s
  BY <1>1
<1>3. \A i \in Slots : Valid(store', i) /\ store'[i].sound => Len(store'[i].body) <= BodyMax
  BY <1>1, <1>2 DEF Valid
<1>4. NamesUnique'
  <2> SUFFICES ASSUME NEW n \in Names, NEW i \in Slots, NEW j \in Slots,
                      Carries(store', i, n), Carries(store', j, n)
               PROVE  i = j
    BY DEF NamesUnique, Carries
  <2>1. ASSUME NEW k \in Slots, k # call.slot, Carries(store', k, n)
        PROVE  Carries(store, k, n) /\ ~Carries(store', call.slot, n)
    <3>1. Carries(store, k, n)
      BY <1>2, <2>1 DEF Carries, Valid
    <3>2. n # call.name /\ n # Absent
      BY <1>1, <2>1, <3>1, SlotAssumption
    <3> QED BY <1>2, <3>1, <3>2 DEF Carries, Valid
  <2>2. CASE i = call.slot \/ j = call.slot
    BY <2>1, <2>2
  <2>3. CASE i # call.slot /\ j # call.slot
    BY <2>1, <2>3 DEF Inv, NamesUnique, Carries
  <2> QED BY <2>2, <2>3
<1> QED BY <1>2, <1>3, <1>4

-----------------------------------------------------------------------------
(* Each step keeps the invariant *)

LEMMA CallIs ==
  ASSUME Inv, call # NoCall
  PROVE  /\ call.slot \in Slots /\ call.name \in Names
         /\ call.does \in {"save", "remove"} /\ call.at \in {"erase", "program"}
         /\ call.does = "remove" => call = Removing(call.slot, call.name)
         /\ call.does = "save" =>
              call.body \in Bodies /\ call = Saving(call.slot, call.name, call.body, call.at)
         /\ call.at = "program" => call.does = "save"
<1>1. CASE \E i \in Slots, n \in Names : call = Removing(i, n)
  BY <1>1 DEF Removing
<1>2. CASE \E i \in Slots, n \in Names, b \in Bodies, at \in {"erase", "program"} :
             call = Saving(i, n, b, at)
  BY <1>2 DEF Saving
<1> QED BY <1>1, <1>2 DEF Inv, StorageTypeOK

LEMMA HeaderIsSector ==
  ASSUME NEW n \in Names \cup {Absent}, NEW b \in Bodies, NEW ok \in BOOLEAN
  PROVE  /\ Header(n, b, ok) \in Sectors
         /\ Header(n, b, ok).name = n /\ Header(n, b, ok).body = b
         /\ Header(n, b, ok).sound = ok
<1>1. Header(n, b, ok) \in Sectors
  BY DEF Sectors
<1> QED BY <1>1 DEF Header

LEMMA DamagedIs ==
  ASSUME NEW n, NEW h \in Damaged(n)
  PROVE  \E name \in {n, Absent}, b \in Bodies : h = Header(name, b, FALSE)
BY DEF Damaged, Header

LEMMA InitInv == StorageInit => Inv
<1> SUFFICES ASSUME StorageInit PROVE Inv
  OBVIOUS
<1>1. store = [i \in Slots |-> Erased] /\ call = NoCall
  BY DEF StorageInit
<1>2. sector = Blank /\ op = Config!Idle
  BY DEF StorageInit, Config!RecordInit
<1>3. \A i \in Slots : ~Valid(store, i)
  BY <1>1 DEF Valid
<1>4. NamesUnique /\ CallOwnsSlot
  BY <1>1, <1>3 DEF NamesUnique, CallOwnsSlot
<1>5. StorageTypeOK
  BY <1>1, <1>2, <1>3 DEF StorageTypeOK, Sectors, Config!Ops
<1> QED BY <1>4, <1>5 DEF Inv

LEMMA SaveInv ==
  ASSUME Inv, NEW n \in Names, NEW b \in Bodies, ScriptSave(n, b)
  PROVE  Inv'
<1> DEFINE i == TargetSlot(store, n)
<1>1. /\ i # NoSlot /\ call' = Saving(i, n, b, "erase") /\ Len(b) <= BodyMax
      /\ UNCHANGED <<store, sector, op>>
  BY DEF ScriptSave
<1>2. /\ i \in Slots
      /\ \/ Carries(store, i, n)
         \/ ~Valid(store, i) /\ \A j \in Slots : ~Carries(store, j, n)
  BY <1>1, TargetIsOwnOrFree
<1> HIDE DEF i
<1>3. StorageTypeOK'
  BY <1>1, <1>2 DEF Inv, StorageTypeOK, Valid
<1>4. NamesUnique'
  BY <1>1 DEF Inv, NamesUnique, Valid
<1>5. \A j \in Slots \ {i} : ~Carries(store, j, n)
  BY <1>2 DEF Inv, NamesUnique, Carries
<1>6. CallOwnsSlot'
  <2>1. call'.slot = i /\ call'.name = n /\ call'.body = b
    BY <1>1 DEF Saving
  <2> QED BY <1>1, <1>2, <1>5, <2>1 DEF CallOwnsSlot, Carries, Valid
<1> QED BY <1>3, <1>4, <1>6 DEF Inv

LEMMA RemoveInv ==
  ASSUME Inv, NEW n \in Names, ScriptRemove(n)
  PROVE  Inv'
<1> DEFINE i == FindByName(store, n)
<1>1. i # NoSlot /\ call' = Removing(i, n) /\ UNCHANGED <<store, sector, op>>
  BY DEF ScriptRemove
<1>2. i \in Slots /\ Carries(store, i, n)
  BY <1>1, FindByNameFinds
<1> HIDE DEF i
<1>3. StorageTypeOK'
  BY <1>1, <1>2 DEF Inv, StorageTypeOK, Valid
<1>4. NamesUnique'
  BY <1>1 DEF Inv, NamesUnique, Valid
<1>5. \A j \in Slots \ {i} : ~Carries(store, j, n)
  BY <1>2 DEF Inv, NamesUnique, Carries
<1>6. CallOwnsSlot'
  <2>1. call'.slot = i /\ call'.name = n /\ call'.does = "remove"
    BY <1>1 DEF Removing
  <2> QED BY <1>1, <1>2, <1>5, <2>1 DEF CallOwnsSlot, Carries, Valid
<1> QED BY <1>3, <1>4, <1>6 DEF Inv

LEMMA EraseInv ==
  ASSUME Inv, ScriptErase
  PROVE  Inv'
<1>1. /\ call # NoCall /\ call.at = "erase" /\ store' = [store EXCEPT ![call.slot] = Erased]
      /\ call' = IF call.does = "save" THEN [call EXCEPT !.at = "program"] ELSE NoCall
      /\ UNCHANGED <<sector, op>>
  BY DEF ScriptErase
<1>2. Erased \in Sectors
  BY DEF Sectors
<1>3. /\ store' \in [Slots -> Sectors] /\ NamesUnique'
      /\ \A i \in Slots : Valid(store', i) /\ store'[i].sound => Len(store'[i].body) <= BodyMax
      /\ \A j \in Slots \ {call.slot} : store'[j] = store[j]
      /\ store'[call.slot] = Erased
  BY <1>1, <1>2, OneSector
<1>4. CASE call.does = "save"
  <2>1. /\ call.slot \in Slots /\ call.name \in Names /\ call.body \in Bodies
        /\ call = Saving(call.slot, call.name, call.body, call.at)
    BY <1>1, <1>4, CallIs
  <2>2. call' = Saving(call.slot, call.name, call.body, "program")
    BY <1>1, <1>4, <2>1 DEF Saving
  <2>3. StorageTypeOK'
    BY <1>1, <1>3, <2>1, <2>2 DEF Inv, StorageTypeOK, Valid
  <2>4. /\ call'.slot = call.slot /\ call'.name = call.name /\ call'.body = call.body
        /\ call'.does = "save"
    BY <2>2 DEF Saving
  <2>5. CallOwnsSlot'
    BY <1>1, <1>3, <1>4, <2>1, <2>4 DEF Inv, CallOwnsSlot, Carries, Valid
  <2> QED BY <1>3, <2>3, <2>5 DEF Inv
<1>5. CASE call.does # "save"
  BY <1>1, <1>3, <1>5 DEF Inv, StorageTypeOK, CallOwnsSlot, Valid
<1> QED BY <1>4, <1>5

LEMMA ProgramInv ==
  ASSUME Inv, ScriptProgram
  PROVE  Inv'
<1> DEFINE s == Header(call.name, call.body, TRUE)
<1>1. /\ call # NoCall /\ call.at = "program" /\ store' = [store EXCEPT ![call.slot] = s]
      /\ call' = NoCall /\ UNCHANGED <<sector, op>>
  BY DEF ScriptProgram
<1>2. call.name \in Names /\ call.body \in Bodies /\ call.does = "save"
  BY <1>1, CallIs
<1>3. s \in Sectors /\ s.name = call.name /\ s.body = call.body
  BY <1>2, HeaderIsSector
<1>4. Len(s.body) <= BodyMax
  BY <1>1, <1>2, <1>3 DEF Inv, CallOwnsSlot
<1> HIDE DEF s
<1>5. /\ store' \in [Slots -> Sectors] /\ NamesUnique'
      /\ \A i \in Slots : Valid(store', i) /\ store'[i].sound => Len(store'[i].body) <= BodyMax
  BY <1>1, <1>3, <1>4, OneSector
<1> QED BY <1>1, <1>5 DEF Inv, StorageTypeOK, CallOwnsSlot, Valid

LEMMA ScriptCutInv ==
  ASSUME Inv, call # NoCall, call' = NoCall,
         NEW s \in LeftBehind, store' = [store EXCEPT ![call.slot] = s]
  PROVE  /\ store' \in [Slots -> Sectors] /\ NamesUnique'
         /\ \A i \in Slots : Valid(store', i) /\ store'[i].sound => Len(store'[i].body) <= BodyMax
<1>1. /\ call.slot \in Slots /\ call.name \in Names /\ call.at \in {"erase", "program"}
      /\ call.at = "program" => call.does = "save" /\ call.body \in Bodies
  BY CallIs
<1>2. ASSUME NEW h \in Damaged(call.name)
      PROVE  h \in Sectors /\ h.name \in {call.name, Absent} /\ ~h.sound
  <2>1. PICK n \in {call.name, Absent}, b \in Bodies : h = Header(n, b, FALSE)
    BY <1>2, DamagedIs
  <2> QED BY <1>1, <2>1, HeaderIsSector
<1>3. /\ store[call.slot] \in Sectors
      /\ Valid(store, call.slot) => store[call.slot].name = call.name
      /\ Valid(store, call.slot) /\ store[call.slot].sound => Len(store[call.slot].body) <= BodyMax
  BY <1>1 DEF Inv, StorageTypeOK, CallOwnsSlot
<1>4. CASE call.at = "erase"
  <2>1. s \in {store[call.slot], Erased} \cup Damaged(call.name)
    BY <1>3, <1>4 DEF LeftBehind, Valid
  <2>2. s \in Sectors
    BY <1>2, <1>3, <2>1 DEF Sectors
  <2>3. s # Erased => s.name \in {call.name, Absent}
    BY <1>2, <1>3, <2>1 DEF Valid
  <2>4. s # Erased /\ s.sound => Len(s.body) <= BodyMax
    BY <1>2, <1>3, <2>1 DEF Valid
  <2> QED BY <2>2, <2>3, <2>4, OneSector
<1>5. CASE call.at = "program"
  <2> DEFINE new == Header(call.name, call.body, TRUE)
  <2>1. s \in {Erased, new} \cup Damaged(call.name)
    BY <1>5 DEF LeftBehind
  <2>2. new \in Sectors /\ new.name = call.name /\ new.body = call.body
    BY <1>1, <1>5, HeaderIsSector
  <2>3. Len(new.body) <= BodyMax
    BY <1>1, <1>5, <2>2 DEF Inv, CallOwnsSlot
  <2> HIDE DEF new
  <2>4. s \in Sectors
    BY <1>2, <2>1, <2>2 DEF Sectors
  <2>5. s # Erased => s.name \in {call.name, Absent}
    BY <1>2, <2>1, <2>2
  <2>6. s # Erased /\ s.sound => Len(s.body) <= BodyMax
    BY <1>2, <2>1, <2>3
  <2> QED BY <2>4, <2>5, <2>6, OneSector
<1> QED BY <1>1, <1>4, <1>5

-----------------------------------------------------------------------------
(* The credentials *)

RecordTypeOK == sector \in Creds \cup {Blank, Torn} /\ op \in Config!Ops

LEMMA OpIs ==
  ASSUME op \in Config!Ops, op # Config!Idle
  PROVE  \/ op = Config!Clearing /\ op.does = "clear" /\ op.at = "erase"
         \/ /\ op.does = "save" /\ op.value \in Creds /\ op.at \in {"erase", "program"}
            /\ op = Config!Saving(op.value, op.at)
<1>1. CASE op = Config!Clearing
  BY <1>1 DEF Config!Clearing
<1>2. CASE \E v \in Creds, at \in {"erase", "program"} : op = Config!Saving(v, at)
  BY <1>2 DEF Config!Saving
<1> QED BY <1>1, <1>2 DEF Config!Ops

LEMMA SavingIsOp ==
  ASSUME NEW v \in Creds, NEW at \in {"erase", "program"}
  PROVE  Config!Saving(v, at) \in Config!Ops
BY DEF Config!Ops

LEMMA IdleIs == Config!Idle \in Config!Ops /\ Config!Idle.does = "nothing"
BY DEF Config!Ops, Config!Idle

\* A load finds what it found, or, of a save or clear under way, nothing or what is saved.
LoadIsWhole ==
  \/ Config!Load' = Config!Load
  \/ op # Config!Idle /\ Config!Load' = Nothing
  \/ op # Config!Idle /\ op.does = "save" /\ Config!Load' = op.value

LEMMA ErasedLoads ==
  ASSUME sector' = sector \/ (op # Config!Idle /\ sector' \in {Blank, Torn})
  PROVE  LoadIsWhole
BY CredsAssumption DEF LoadIsWhole, Config!Load

LEMMA ProgrammedLoads ==
  ASSUME op # Config!Idle, op.does = "save", op.value \in Creds, sector' = op.value
  PROVE  LoadIsWhole
BY DEF LoadIsWhole, Config!Load

LEMMA ConfigStepLoads ==
  ASSUME RecordTypeOK, ConfigStep
  PROVE  RecordTypeOK' /\ LoadIsWhole
<1>1. CASE WifiConnected
  <2>1. PICK c \in Creds : op' = Config!Saving(c, "erase") /\ sector' = sector
    BY <1>1 DEF WifiConnected, Config!Save
  <2> QED BY <2>1, SavingIsOp, ErasedLoads DEF RecordTypeOK
<1>2. CASE WifiForget
  BY <1>2, ErasedLoads DEF WifiForget, Config!Clear, RecordTypeOK, Config!Ops
<1>3. CASE Config!EraseSector
  <2>1. /\ op # Config!Idle /\ sector' = Blank
        /\ op' = IF op.does = "save" THEN Config!Saving(op.value, "program") ELSE Config!Idle
    BY <1>3 DEF Config!EraseSector
  <2>2. op' \in Config!Ops
    BY <2>1, OpIs, SavingIsOp, IdleIs DEF RecordTypeOK
  <2> QED BY <2>1, <2>2, ErasedLoads DEF RecordTypeOK
<1>4. CASE Config!ProgramRecord
  <2>1. op # Config!Idle /\ op.does = "save" /\ sector' = op.value /\ op' = Config!Idle
    BY <1>4, IdleIs DEF Config!ProgramRecord
  <2>2. op.value \in Creds
    BY <2>1, OpIs DEF RecordTypeOK, Config!Clearing
  <2> QED BY <2>1, <2>2, IdleIs, ProgrammedLoads DEF RecordTypeOK
<1>5. CASE Config!FlashRefuses
  BY <1>5, IdleIs, ErasedLoads DEF Config!FlashRefuses, RecordTypeOK
<1> QED BY <1>1, <1>2, <1>3, <1>4, <1>5 DEF ConfigStep, Config!RecordStep

LEMMA CutLoads ==
  ASSUME RecordTypeOK, Config!RecordCut
  PROVE  RecordTypeOK' /\ LoadIsWhole
<1>1. op' = Config!Idle
  BY DEF Config!RecordCut
<1>2. CASE sector' \in {sector, Blank, Torn}
  <2>1. sector' = sector \/ (op # Config!Idle /\ sector' \in {Blank, Torn})
    BY <1>2 DEF Config!RecordCut
  <2> QED BY <1>1, <1>2, <2>1, IdleIs, ErasedLoads DEF RecordTypeOK
<1>3. CASE sector' \notin {sector, Blank, Torn}
  <2>1. op # Config!Idle /\ op.at # "erase" /\ sector' = op.value
    BY <1>3 DEF Config!RecordCut
  <2>2. op.does = "save" /\ op.value \in Creds
    BY <2>1, OpIs DEF RecordTypeOK
  <2> QED BY <1>1, <2>1, <2>2, IdleIs, ProgrammedLoads DEF RecordTypeOK
<1> QED BY <1>2, <1>3

-----------------------------------------------------------------------------
(* The invariant *)

LEMMA PowerCutInv ==
  ASSUME Inv, PowerCut
  PROVE  Inv' /\ LoadIsWhole
<1>1. call' = NoCall /\ CallOwnsSlot'
  BY DEF PowerCut, CallOwnsSlot
<1>2. RecordTypeOK' /\ LoadIsWhole
  BY CutLoads DEF PowerCut, Inv, StorageTypeOK, RecordTypeOK
<1>3. CASE call = NoCall
  <2>1. store' = store
    BY <1>3 DEF PowerCut
  <2> QED
    BY <1>1, <1>2, <2>1 DEF Inv, StorageTypeOK, RecordTypeOK, NamesUnique, Valid
<1>4. CASE call # NoCall
  <2>1. PICK s \in LeftBehind : store' = [store EXCEPT ![call.slot] = s]
    BY <1>4 DEF PowerCut
  <2>2. /\ store' \in [Slots -> Sectors] /\ NamesUnique'
        /\ \A i \in Slots : Valid(store', i) /\ store'[i].sound => Len(store'[i].body) <= BodyMax
    BY <1>1, <1>4, <2>1, ScriptCutInv
  <2> QED BY <1>1, <1>2, <2>2 DEF Inv, StorageTypeOK, RecordTypeOK, Valid
<1> QED BY <1>3, <1>4

LEMMA StepInv ==
  ASSUME Inv, [StorageNext]_storageVars
  PROVE  Inv' /\ (LoadIsWhole \/ UNCHANGED storageVars)
<1>1. ASSUME NEW n \in Names, ScriptRemove(n) PROVE Inv' /\ LoadIsWhole
  BY <1>1, RemoveInv, ErasedLoads DEF ScriptRemove
<1>2. ASSUME NEW n \in Names, NEW b \in Bodies, ScriptSave(n, b) PROVE Inv' /\ LoadIsWhole
  BY <1>2, SaveInv, ErasedLoads DEF ScriptSave
<1>3. CASE ScriptErase
  BY <1>3, EraseInv, ErasedLoads DEF ScriptErase
<1>4. CASE ScriptProgram
  BY <1>4, ProgramInv, ErasedLoads DEF ScriptProgram
<1>5. CASE ScriptRefused
  <2>1. call' = NoCall /\ UNCHANGED <<store, sector, op>>
    BY <1>5 DEF ScriptRefused
  <2> QED BY <2>1, ErasedLoads DEF Inv, StorageTypeOK, NamesUnique, CallOwnsSlot, Valid
<1>6. CASE ConfigStep
  <2>1. RecordTypeOK' /\ LoadIsWhole /\ UNCHANGED <<store, call>>
    BY <1>6, ConfigStepLoads DEF Inv, StorageTypeOK, RecordTypeOK, ConfigStep
  <2> QED
    BY <2>1 DEF Inv, StorageTypeOK, RecordTypeOK, NamesUnique, CallOwnsSlot, Carries, Valid
<1>7. CASE PowerCut
  BY <1>7, PowerCutInv
<1>8. CASE UNCHANGED storageVars
  BY <1>8 DEF storageVars, Inv, StorageTypeOK, NamesUnique, CallOwnsSlot, Carries, Valid
<1> QED BY <1>1, <1>2, <1>3, <1>4, <1>5, <1>6, <1>7, <1>8 DEF StorageNext

\* Whatever was refused or torn, however often: every sector is erased or has a header, no
\* body that a load may hand out is longer than SCRIPT_BODY_MAX (scripts.c:149, the bound of
\* the buffers scripts_load copies into), and find_by_name has one slot to find.
THEOREM StoreIsSound == StorageSpec => []StoreInv
<1>1. StorageInit => Inv
  BY InitInv
<1>2. Inv /\ [StorageNext]_storageVars => Inv'
  BY StepInv
<1>3. Inv => StoreInv
  BY DEF Inv, StoreInv
<1> QED BY <1>1, <1>2, <1>3, PTL DEF StorageSpec

\* What config_load_wifi gives after any step is what it gave before; only a save or clear
\* under way changes it, to nothing or to the pair config_save_wifi was called with: at no
\* cut does it give a mixture, and no other call or cut loses it.
THEOREM CredentialsAreNeverMixed == StorageSpec => CredentialsAreWhole
<1>1. StorageInit => Inv
  BY InitInv
<1>2. Inv /\ [StorageNext]_storageVars => Inv'
  BY StepInv
<1>3. Inv /\ [StorageNext]_storageVars => [LoadIsWhole]_storageVars
  BY StepInv
<1>4. StorageSpec => [][LoadIsWhole]_storageVars
  BY <1>1, <1>2, <1>3, PTL DEF StorageSpec
<1> QED BY <1>4 DEF CredentialsAreWhole, LoadIsWhole

-----------------------------------------------------------------------------
(* The promise of scripts.h *)

Held == [n \in Names |-> Loaded(store, n)]
Asked == IF call = NoCall THEN <<>>
         ELSE <<call.name, IF call.does = "save" THEN call.body ELSE Absent>>

\* No two slots of the table t carry the same name.
Unique(t) ==
  \A n \in Names : \A i, j \in Slots : Carries(t, i, n) /\ Carries(t, j, n) => i = j

LEMMA UniqueIs == NamesUnique <=> Unique(store)
BY DEF NamesUnique, Unique, Carries

LEMMA LoadsOwn ==
  ASSUME NEW t, Unique(t), NEW n \in Names, NEW i \in Slots, Carries(t, i, n)
  PROVE  Loaded(t, n) = IF t[i].sound THEN t[i].body ELSE Absent
<1>1. FindByName(t, n) = i
  BY FindByNameFinds DEF Unique
<1> QED BY <1>1, NoSlotIsNone DEF Loaded

LEMMA LoadsNone ==
  ASSUME NEW t, NEW n, \A i \in Slots : ~Carries(t, i, n)
  PROVE  Loaded(t, n) = Absent
BY FindByNameFinds DEF Loaded

\* Writing the call's sector changes what is held under the name of the call only.
LEMMA WriteHeld ==
  ASSUME Inv, call # NoCall, NEW s \in Sectors, store' = [store EXCEPT ![call.slot] = s],
         s # Erased => s.name \in {call.name, Absent}, NamesUnique'
  PROVE  Held' = [Held EXCEPT ![call.name] =
                    IF s # Erased /\ s.name = call.name /\ s.sound THEN s.body ELSE Absent]
<1> DEFINE v == IF s # Erased /\ s.name = call.name /\ s.sound THEN s.body ELSE Absent
<1>1. /\ store \in [Slots -> Sectors] /\ call.slot \in Slots /\ call.name \in Names
      /\ \A j \in Slots \ {call.slot} : ~Carries(store, j, call.name)
      /\ Valid(store, call.slot) => store[call.slot].name = call.name
  BY DEF Inv, StorageTypeOK, CallOwnsSlot
<1>2. /\ \A j \in Slots \ {call.slot} : store'[j] = store[j]
      /\ store'[call.slot] = s
  BY <1>1
<1>3. Unique(store) /\ Unique(store')
  <2>1. Unique(store)
    BY UniqueIs DEF Inv
  <2>2. (NamesUnique <=> Unique(store))'
    BY UniqueIs, PTL
  <2> QED BY <2>1, <2>2
<1>4. ASSUME NEW n \in Names, n # call.name
      PROVE  Loaded(store', n) = Loaded(store, n)
  <2>1. ~Carries(store, call.slot, n)
    BY <1>1, <1>4 DEF Carries
  <2>2. ~Carries(store', call.slot, n)
    BY <1>2, <1>4, SlotAssumption DEF Carries, Valid
  <2>3. \A j \in Slots \ {call.slot} : Carries(store', j, n) <=> Carries(store, j, n)
    BY <1>2 DEF Carries, Valid
  <2>4. CASE \E j \in Slots : Carries(store, j, n)
    <3>1. PICK j \in Slots : Carries(store, j, n)
      BY <2>4
    <3>2. j # call.slot /\ Carries(store', j, n) /\ store'[j] = store[j]
      BY <1>2, <2>1, <2>3, <3>1
    <3> QED BY <1>3, <3>1, <3>2, LoadsOwn
  <2>5. CASE \A j \in Slots : ~Carries(store, j, n)
    <3>1. \A j \in Slots : ~Carries(store', j, n)
      BY <2>2, <2>3, <2>5
    <3> QED BY <2>5, <3>1, LoadsNone
  <2> QED BY <2>4, <2>5
<1>5. Loaded(store', call.name) = v
  <2>1. \A j \in Slots \ {call.slot} : ~Carries(store', j, call.name)
    BY <1>1, <1>2 DEF Carries, Valid
  <2>2. CASE Carries(store', call.slot, call.name)
    <3>1. Loaded(store', call.name)
            = IF store'[call.slot].sound THEN store'[call.slot].body ELSE Absent
      BY <1>1, <1>3, <2>2, LoadsOwn
    <3> QED BY <1>2, <2>2, <3>1 DEF Carries, Valid
  <2>3. CASE ~Carries(store', call.slot, call.name)
    <3>1. Loaded(store', call.name) = Absent
      BY <2>1, <2>3, LoadsNone
    <3> QED BY <1>2, <2>3, <3>1 DEF Carries, Valid
  <2> QED BY <2>2, <2>3
<1> HIDE DEF v
<1>6. Held' = [n \in Names |-> Loaded(store', n)]
  BY DEF Held
<1>7. Held' = [Held EXCEPT ![call.name] = v]
  BY <1>1, <1>4, <1>5, <1>6 DEF Held
<1> QED BY <1>7 DEF v

LEMMA HeldOfCall ==
  ASSUME Inv, call # NoCall
  PROVE  Held[call.name] = IF Valid(store, call.slot) /\ store[call.slot].sound
                           THEN store[call.slot].body ELSE Absent
<1>1. /\ call.slot \in Slots /\ call.name \in Names
      /\ \A j \in Slots \ {call.slot} : ~Carries(store, j, call.name)
      /\ Valid(store, call.slot) => Carries(store, call.slot, call.name)
  BY DEF Inv, CallOwnsSlot, Carries
<1>2. Held[call.name] = Loaded(store, call.name)
  BY <1>1 DEF Held
<1>3. Unique(store)
  BY UniqueIs DEF Inv
<1>4. CASE Valid(store, call.slot)
  BY <1>1, <1>2, <1>3, <1>4, LoadsOwn
<1>5. CASE ~Valid(store, call.slot)
  <2>1. \A j \in Slots : ~Carries(store, j, call.name)
    BY <1>1, <1>5 DEF Carries
  <2> QED BY <1>2, <1>5, <2>1, LoadsNone
<1> QED BY <1>4, <1>5

LEMMA AskedIs ==
  /\ call = NoCall => Asked = <<>>
  /\ call # NoCall => /\ Asked # <<>> /\ Asked[1] = call.name
                      /\ Asked[2] = IF call.does = "save" THEN call.body ELSE Absent
<1>1. CASE call = NoCall
  BY <1>1 DEF Asked
<1>2. CASE call # NoCall
  <2> DEFINE w == IF call.does = "save" THEN call.body ELSE Absent
  <2>1. Asked = <<call.name, w>>
    BY <1>2 DEF Asked
  <2> HIDE DEF w
  <2>2. Len(<<call.name, w>>) = 2 /\ Len(<< >>) = 0
    OBVIOUS
  <2>3. Asked # <<>> /\ Asked[1] = call.name /\ Asked[2] = w
    BY <2>1, <2>2
  <2> QED BY <1>2, <2>3 DEF w
<1> QED BY <1>1, <1>2

LEMMA AskStep ==
  ASSUME call = NoCall, Asked' \in Names \X (Bodies \cup {Absent}), store' = store
  PROVE  Promise!Ask
<1>1. Asked = <<>> /\ Asked' # <<>> /\ Held' = Held
  <2>1. Asked' # <<>>
    <3>1. PICK n \in Names, b \in Bodies \cup {Absent} : Asked' = <<n, b>>
      OBVIOUS
    <3>2. Len(<<n, b>>) = 2 /\ Len(<< >>) = 0
      OBVIOUS
    <3> QED BY <3>1, <3>2
  <2> QED BY <2>1, AskedIs DEF Held
<1>2. Asked = Promise!NoCall /\ Asked' \in Promise!Calls \ {Promise!NoCall} /\ UNCHANGED Held
  BY <1>1 DEF Promise!NoCall, Promise!Calls
<1> QED BY <1>2 DEF Promise!Ask, Asked, Held

LEMMA LoseStep ==
  ASSUME call # NoCall, Asked' = Asked, Held' = [Held EXCEPT ![call.name] = Absent]
  PROVE  Promise!Lose
<1>1. Asked # Promise!NoCall /\ Held' = [Held EXCEPT ![Asked[1]] = Absent] /\ Asked' = Asked
  BY AskedIs DEF Promise!NoCall
<1> QED BY <1>1 DEF Promise!Lose, Asked, Held

LEMMA AnswerStep ==
  ASSUME call # NoCall, call' = NoCall,
         NEW v \in {Held[call.name], Absent} \cup (IF call.does = "save" THEN {call.body} ELSE {}),
         Held' = [Held EXCEPT ![call.name] = v]
  PROVE  Promise!Answer
<1>1. /\ Asked # Promise!NoCall /\ Asked[1] = call.name
      /\ v \in {Held[Asked[1]], Absent, Asked[2]}
  BY AskedIs DEF Promise!NoCall
<1>2. Asked' = Promise!NoCall
  BY DEF Asked, Promise!NoCall
<1>3. Held' = [Held EXCEPT ![Asked[1]] = v]
  BY <1>1
<1>4. \E w \in {Held[Asked[1]], Absent, Asked[2]} : Held' = [Held EXCEPT ![Asked[1]] = w]
  BY <1>1, <1>3
<1> QED BY <1>1, <1>2, <1>4 DEF Promise!Answer, Asked, Held

LEMMA SameStep ==
  ASSUME call' = call, store' = store
  PROVE  UNCHANGED <<Held, Asked>>
BY DEF Held, Asked

LEMMA ErasePromise ==
  ASSUME Inv, ScriptErase
  PROVE  Promise!Next
<1>1. /\ call # NoCall /\ store' = [store EXCEPT ![call.slot] = Erased]
      /\ call' = IF call.does = "save" THEN [call EXCEPT !.at = "program"] ELSE NoCall
  BY DEF ScriptErase
<1>2. Inv'
  BY EraseInv
<1>3. Held' = [Held EXCEPT ![call.name] = Absent]
  <2>1. Erased \in Sectors /\ NamesUnique'
    BY <1>2 DEF Inv, Sectors
  <2> QED BY <1>1, <2>1, WriteHeld
<1>4. CASE call.does = "save"
  <2>1. call = Saving(call.slot, call.name, call.body, call.at)
    BY <1>1, <1>4, CallIs
  <2>2. call' = Saving(call.slot, call.name, call.body, "program")
    BY <1>1, <1>4, <2>1 DEF Saving
  <2>3. /\ call'.name = call.name /\ call'.body = call.body /\ call'.does = "save"
        /\ call' # NoCall
    BY <2>2 DEF Saving, NoCall
  <2>4. Asked' = Asked
    BY <1>1, <1>4, <2>3 DEF Asked
  <2> QED BY <1>1, <1>3, <2>4, LoseStep DEF Promise!Next
<1>5. CASE call.does # "save"
  BY <1>1, <1>3, <1>5, AnswerStep DEF Promise!Next
<1> QED BY <1>4, <1>5

LEMMA ProgramPromise ==
  ASSUME Inv, ScriptProgram
  PROVE  Promise!Next
<1> DEFINE s == Header(call.name, call.body, TRUE)
<1>1. /\ call # NoCall /\ call.at = "program" /\ store' = [store EXCEPT ![call.slot] = s]
      /\ call' = NoCall
  BY DEF ScriptProgram
<1>2. call.name \in Names /\ call.body \in Bodies /\ call.does = "save"
  BY <1>1, CallIs
<1>3. s \in Sectors /\ s.name = call.name /\ s.body = call.body /\ s.sound
  BY <1>2, HeaderIsSector
<1>4. s # Erased
  <2>1. s \in [name : Names \cup {Absent}, body : Bodies, sound : BOOLEAN]
    BY <1>2 DEF Header
  <2> HIDE DEF s
  <2> QED BY <2>1, SlotAssumption
<1> HIDE DEF s
<1>5. NamesUnique'
  BY ProgramInv DEF Inv
<1>6. Held' = [Held EXCEPT ![call.name] = call.body]
  BY <1>1, <1>3, <1>4, <1>5, WriteHeld
<1> QED BY <1>1, <1>2, <1>6, AnswerStep DEF Promise!Next

LEMMA CutPromise ==
  ASSUME Inv, PowerCut, call # NoCall
  PROVE  Promise!Next
<1>1. PICK s \in LeftBehind : store' = [store EXCEPT ![call.slot] = s]
  BY DEF PowerCut
<1>2. call' = NoCall /\ Inv'
  BY PowerCutInv DEF PowerCut
<1>3. /\ call.slot \in Slots /\ call.name \in Names /\ store \in [Slots -> Sectors]
      /\ call.at \in {"erase", "program"} /\ store' \in [Slots -> Sectors]
      /\ Valid(store, call.slot) => store[call.slot].name = call.name
  BY <1>2, CallIs DEF Inv, StorageTypeOK, CallOwnsSlot
<1>4. s = store'[call.slot] /\ s \in Sectors
  BY <1>1, <1>3
<1>5. \/ s = store[call.slot] \/ s = Erased
      \/ s \in Damaged(call.name)
      \/ call.at = "program" /\ s = Header(call.name, call.body, TRUE)
  BY <1>3 DEF LeftBehind, Valid
<1>6. ASSUME s \in Damaged(call.name)
      PROVE  s.name \in {call.name, Absent} /\ ~s.sound
  <2>1. PICK n \in {call.name, Absent}, b \in Bodies : s = Header(n, b, FALSE)
    BY <1>6, DamagedIs
  <2> QED BY <1>3, <2>1, HeaderIsSector
<1>7. ASSUME call.at = "program", s = Header(call.name, call.body, TRUE)
      PROVE  s.name = call.name /\ s.body = call.body /\ call.does = "save"
  BY <1>7, CallIs, HeaderIsSector
<1>8. s # Erased => s.name \in {call.name, Absent}
  BY <1>3, <1>5, <1>6, <1>7 DEF Valid
<1> DEFINE v == IF s # Erased /\ s.name = call.name /\ s.sound THEN s.body ELSE Absent
<1>9. Held' = [Held EXCEPT ![call.name] = v]
  BY <1>1, <1>2, <1>4, <1>8, WriteHeld DEF Inv
<1>10. v \in {Held[call.name], Absent} \cup (IF call.does = "save" THEN {call.body} ELSE {})
  BY <1>3, <1>5, <1>6, <1>7, HeldOfCall DEF Valid
<1> HIDE DEF v
<1> QED BY <1>2, <1>9, <1>10, AnswerStep DEF Promise!Next

LEMMA StepPromise ==
  ASSUME Inv, [StorageNext]_storageVars
  PROVE  Promise!Next \/ UNCHANGED <<Held, Asked>>
<1>1. ASSUME NEW n \in Names, ScriptRemove(n) PROVE Promise!Next
  <2> DEFINE i == FindByName(store, n)
  <2>1. call = NoCall /\ call' = Removing(i, n) /\ store' = store
    BY <1>1 DEF ScriptRemove, Quiet
  <2> HIDE DEF i
  <2>2. call' # NoCall /\ call'.name = n /\ call'.does # "save"
    BY <2>1 DEF Removing, NoCall
  <2>3. Asked' = <<n, Absent>>
    BY <2>2 DEF Asked
  <2> QED BY <2>1, <2>3, AskStep DEF Promise!Next
<1>2. ASSUME NEW n \in Names, NEW b \in Bodies, ScriptSave(n, b) PROVE Promise!Next
  <2> DEFINE i == TargetSlot(store, n)
  <2>1. call = NoCall /\ call' = Saving(i, n, b, "erase") /\ store' = store
    BY <1>2 DEF ScriptSave, Quiet
  <2> HIDE DEF i
  <2>2. call' # NoCall /\ call'.name = n /\ call'.does = "save" /\ call'.body = b
    BY <2>1 DEF Saving, NoCall
  <2>3. Asked' = <<n, b>>
    BY <2>2 DEF Asked
  <2> QED BY <2>1, <2>3, AskStep DEF Promise!Next
<1>3. CASE ScriptErase
  BY <1>3, ErasePromise
<1>4. CASE ScriptProgram
  BY <1>4, ProgramPromise
<1>5. CASE ScriptRefused
  <2>1. call # NoCall /\ call' = NoCall /\ store' = store
    BY <1>5 DEF ScriptRefused
  <2>2. Held' = [Held EXCEPT ![call.name] = Held[call.name]]
    BY <2>1 DEF Held
  <2> QED BY <2>1, <2>2, AnswerStep DEF Promise!Next
<1>6. CASE ConfigStep
  BY <1>6, SameStep DEF ConfigStep
<1>7. CASE PowerCut
  <2>1. CASE call = NoCall
    BY <1>7, <2>1, SameStep DEF PowerCut
  <2> QED BY <1>7, <2>1, CutPromise
<1>8. CASE UNCHANGED storageVars
  BY <1>8, SameStep DEF storageVars
<1> QED BY <1>1, <1>2, <1>3, <1>4, <1>5, <1>6, <1>7, <1>8 DEF StorageNext

\* The scan, the erase and the program of scripts.c implement the map from names to bodies
\* that scripts.h promises: a step of a save or a removal changes what is held under its
\* own name only, and to nothing or to the body of that save.
THEOREM StoreImplementsPromise == StorageSpec => StoreKeepsPromise
<1>1. StorageInit => Promise!Init
  <2> SUFFICES ASSUME StorageInit PROVE Promise!Init
    OBVIOUS
  <2>1. store = [i \in Slots |-> Erased] /\ call = NoCall
    BY DEF StorageInit
  <2>2. \A n : \A i \in Slots : ~Carries(store, i, n)
    BY <2>1 DEF Carries, Valid
  <2>3. Held = [n \in Names |-> Absent]
    BY <2>2, LoadsNone DEF Held
  <2> QED BY <2>1, <2>3 DEF Promise!Init, Promise!NoCall, Held
<1>2. StorageInit => Inv
  BY InitInv
<1>3. Inv /\ [StorageNext]_storageVars => Inv'
  BY StepInv
<1>4. Inv /\ [StorageNext]_storageVars => Promise!Next \/ UNCHANGED <<Held, Asked>>
  BY StepPromise
<1> QED BY <1>1, <1>2, <1>3, <1>4, PTL
        DEF StorageSpec, StoreKeepsPromise, Promise!Spec, Held, Asked

-----------------------------------------------------------------------------
(* The shells: the handlers that have not returned *)

FrameT ==
  [shell : ShellIds, op : Loops \cup Waits \cup {"run"}, name : Names \cup {Absent}, times : Nat,
   subs : Seq(Commands), i : Nat, rc : Codes, intact : BOOLEAN, slot : Slots \cup {NoSlot},
   text : Seq(Words)]

\* What a handler that has not returned looks like
Handlers ==
  {f \in FrameT :
     /\ f.op = "run" => f.name \in Names /\ f.slot \in Slots
     /\ f.op = "fetch" => f.name \in Names /\ Len(f.text) <= BodyMax
     /\ f.op = "repeat" => Len(f.subs) = 1
     /\ f.op = "if" => Len(f.subs) \in {2, 3} /\ f.i \in 0 .. 2
     /\ f.op = "while" => Len(f.subs) = 2}

\* Between two steps a handler keeps its command and its text; what its callee returned,
\* its count and its argv may change.
Same(f, g) == f.op = g.op /\ f.name = g.name /\ f.text = g.text /\ f.shell = g.shell
Like(s, t) == s \in Seq(Handlers) /\ Len(s) = Len(t) /\ \A k \in 1 .. Len(t) : Same(s[k], t[k])

LEMMA AppendAt ==
  ASSUME NEW S, NEW s \in Seq(S), NEW c \in S
  PROVE  /\ Append(s, c) \in Seq(S) /\ Len(Append(s, c)) = Len(s) + 1 /\ Len(s) \in Nat
         /\ \A k \in 1 .. Len(s) + 1 : Append(s, c)[k] = IF k <= Len(s) THEN s[k] ELSE c
<1>1. Len(s) \in Nat
  BY LenProperties
<1>2. /\ Append(s, c) \in Seq(S) /\ Len(Append(s, c)) = Len(s) + 1
      /\ \A k \in 1 .. Len(s) : Append(s, c)[k] = s[k]
      /\ Append(s, c)[Len(s) + 1] = c
  BY AppendProperties
<1> QED BY <1>1, <1>2

LEMMA FrontAt ==
  ASSUME NEW S, NEW s \in Seq(S), s # <<>>
  PROVE  /\ SubSeq(s, 1, Len(s) - 1) \in Seq(S) /\ Len(SubSeq(s, 1, Len(s) - 1)) = Len(s) - 1
         /\ Len(s) \in Nat \ {0}
         /\ \A k \in 1 .. Len(s) - 1 : SubSeq(s, 1, Len(s) - 1)[k] = s[k]
<1>1. Len(s) \in Nat \ {0}
  BY EmptySeq
<1>2. \A i \in 1 .. Len(s) - 1 : s[i] \in S
  BY <1>1, ElementOfSeq
<1> DEFINE n == Len(s) - 1
<1>3. n \in Int /\ 1 \in Int /\ n >= 0
  BY <1>1
<1>4. \A i \in 1 .. n : s[i] \in S
  BY <1>2
<1> HIDE DEF n
<1>5. SubSeq(s, 1, n) \in Seq(S) /\ Len(SubSeq(s, 1, n)) = n /\ \A k \in 1 .. n : SubSeq(s, 1, n)[k] = s[k]
  BY <1>3, <1>4, SubSeqProperties
<1> QED BY <1>1, <1>5 DEF n

\* The set of places is that of another stack that is alike.
LEMMA LikePlaces ==
  ASSUME NEW s, NEW t, Like(s, t), NEW o
  PROVE  {k \in 1 .. Len(s) : s[k].op = o} = {k \in 1 .. Len(t) : t[k].op = o}
BY DEF Like, Same

LEMMA HandlerIs ==
  ASSUME NEW f \in Handlers, NEW rc \in Codes
  PROVE  /\ [f EXCEPT !.rc = rc] \in Handlers /\ Same([f EXCEPT !.rc = rc], f)
         /\ [f EXCEPT !.intact = FALSE] \in Handlers /\ Same([f EXCEPT !.intact = FALSE], f)
BY DEF Handlers, FrameT, Same

LEMMA SameTwice ==
  ASSUME NEW f, NEW g, NEW h, Same(f, g), Same(g, h)
  PROVE  Same(f, h)
BY DEF Same

LEMMA LikeTwice ==
  ASSUME NEW s, NEW t, NEW u, Like(s, t), Like(t, u)
  PROVE  Like(s, u)
BY DEF Like, Same

LEMMA LikeItself ==
  ASSUME NEW s \in Seq(Handlers)
  PROVE  Like(s, s)
BY DEF Like, Same

\* A callee's return changes nothing else.
LEMMA FinishIs ==
  ASSUME NEW s \in Seq(Handlers), NEW rc \in Codes, Finish(s, rc)
  PROVE  Like(stack', s)
<1>1. CASE s = <<>>
  BY <1>1, LikeItself DEF Finish
<1>2. CASE s # <<>>
  <2> DEFINE n == Len(s)
             f == [s[n] EXCEPT !.rc = rc]
  <2>1. n \in 1 .. Len(s) /\ n \in Nat
    BY <1>2, EmptySeq
  <2>2. s[n] \in Handlers
    BY <2>1, ElementOfSeq
  <2>3. f \in Handlers /\ Same(f, s[n])
    BY <2>2, HandlerIs
  <2>4. stack' = [s EXCEPT ![n] = f]
    BY <1>2 DEF Finish
  <2> HIDE DEF n, f
  <2>5. stack' \in Seq(Handlers) /\ Len(stack') = Len(s) /\ \A k \in 1 .. Len(s) : stack'[k] = IF k = n THEN f ELSE s[k]
    BY <2>1, <2>3, <2>4, ExceptSeq
  <2> QED BY <2>3, <2>5 DEF Like, Same
<1> QED BY <1>1, <1>2

LEMMA ClobberedIs ==
  ASSUME NEW s \in Seq(Handlers)
  PROVE  Like(Clobbered(s), s)
<1>1. Len(s) \in Nat
  BY LenProperties
<1> DEFINE t == Clobbered(s)
<1>2. t = [k \in 1 .. Len(s) |-> [s[k] EXCEPT !.intact = FALSE]]
  BY DEF Clobbered
<1>3. \A k \in 1 .. Len(s) : [s[k] EXCEPT !.intact = FALSE] \in Handlers /\ Same([s[k] EXCEPT !.intact = FALSE], s[k])
  <2> TAKE k \in 1 .. Len(s)
  <2>1. s[k] \in Handlers
    BY <1>1, ElementOfSeq
  <2> QED BY <2>1, HandlerIs DEF Codes
<1>4. t \in [1 .. Len(s) -> Handlers]
  BY <1>2, <1>3
<1> HIDE DEF t
<1>5. t \in Seq(Handlers)
  BY <1>1, <1>4, SeqDef
<1>6. Len(t) = Len(s)
  BY <1>1, <1>4, <1>5, LenProperties
<1>7. \A k \in 1 .. Len(s) : t[k] = [s[k] EXCEPT !.intact = FALSE]
  BY <1>2
<1> QED BY <1>3, <1>5, <1>6, <1>7 DEF Like, t

LEMMA BodyIs ==
  ASSUME NEW b
  PROVE  b \in Bodies <=> b \in Seq(Words) /\ Len(b) <= BodyMax
<1>1. BodyMax \in Nat /\ Bodies = UNION {[1 .. n -> Words] : n \in 0 .. BodyMax}
  BY SlotAssumption, ShellAssumption
<1>2. ASSUME b \in Bodies PROVE b \in Seq(Words) /\ Len(b) <= BodyMax
  <2>1. PICK n \in 0 .. BodyMax : b \in [1 .. n -> Words]
    BY <1>1, <1>2
  <2>2. n \in Nat /\ n <= BodyMax
    BY <1>1
  <2>3. b \in Seq(Words)
    BY <2>1, <2>2, SeqDef
  <2>4. Len(b) = n
    BY <2>1, <2>2, <2>3, LenProperties
  <2> QED BY <2>2, <2>3, <2>4
<1>3. ASSUME b \in Seq(Words), Len(b) <= BodyMax PROVE b \in Bodies
  <2> DEFINE n == Len(b)
  <2>1. n \in Nat /\ b \in [1 .. n -> Words] /\ n <= BodyMax
    BY <1>3, LenProperties
  <2> HIDE DEF n
  <2>2. n \in 0 .. BodyMax
    BY <1>1, <2>1
  <2> QED BY <1>1, <2>1, <2>2
<1> QED BY <1>2, <1>3

-----------------------------------------------------------------------------
(* The shells: the invariant *)

StackOK == stack \in Seq(Handlers)

RunOK == RunIsBalanced /\ running \in BOOLEAN /\ args \in Seq(Names) /\ Len(args) <= StackDepth

CapOK ==
  /\ capturing \in [ShellIds -> BOOLEAN] /\ OneCapture
  /\ cap \in [taken : BOOLEAN, name : Names \cup {Absent}, len : 0 .. BodyMax]
  /\ cap.taken => cap.name \in Names
  /\ typed \in Seq(Words)

\* What a user of the buffer has put there are lines.
BufOK ==
  /\ buf \in [1 .. BodyMax -> Words \cup {Absent}]
  /\ \A k \in 1 .. cap.len : buf[k] \in Words
  /\ \A j \in Fetches : \A k \in 1 .. Len(stack[j].text) : buf[k] \in Words

Table == [Slots -> {Erased} \cup [name : Names \cup {Absent}, body : Bodies, sound : BOOLEAN]]

FlashOK == slots \in Table /\ Unique(slots) /\ wanted = [n \in Names |-> wanted[n]]

\* As long as nothing was mixed up, the buffer has one user, whose text it holds.
Meant == \A n \in Names : Loaded(slots, n) \in {Absent, wanted[n]}
Faithful ==
  ~mixed =>
    /\ ~Overlap
    /\ cap.taken => Len(typed) = cap.len /\ \A k \in 1 .. cap.len : buf[k] = typed[k]
    /\ \A j \in Fetches : \A k \in 1 .. Len(stack[j].text) : buf[k] = stack[j].text[k]
    /\ Meant

ShellIs == StackOK /\ RunOK /\ CapOK /\ BufOK /\ FlashOK /\ Faithful

LEMMA PlacesKept ==
  ASSUME Like(stack', stack)
  PROVE  /\ Runs' = Runs /\ Fetches' = Fetches
         /\ \A k \in 1 .. Len(stack) : Same(stack'[k], stack[k])
<1>1. {k \in 1 .. Len(stack') : stack'[k].op = "run"} = {k \in 1 .. Len(stack) : stack[k].op = "run"}
  BY LikePlaces
<1>2. {k \in 1 .. Len(stack') : stack'[k].op = "fetch"} = {k \in 1 .. Len(stack) : stack[k].op = "fetch"}
  BY LikePlaces
<1>3. \A k \in 1 .. Len(stack) : Same(stack'[k], stack[k])
  BY DEF Like
<1> QED BY <1>1, <1>2, <1>3 DEF Runs, Fetches

LEMMA RunKept ==
  ASSUME RunOK, Runs' = Runs, \A k \in Runs : stack'[k].name = stack[k].name, UNCHANGED runVars
  PROVE  RunOK'
BY DEF RunOK, RunIsBalanced, runVars

\* The buffer, its users and their texts stay, or some users are gone.
LEMMA BufStays ==
  ASSUME CapOK, BufOK, Faithful, Overlaps, UNCHANGED capVars, ~mixed' => Meant',
         \A j \in Fetches' : stack'[j].text = <<>> \/ (j \in Fetches /\ stack'[j].text = stack[j].text)
  PROVE  CapOK' /\ BufOK' /\ Faithful'
<1>1. UNCHANGED <<capturing, cap, buf, typed>>
  BY DEF capVars
<1>2. Len(<< >>) = 0
  OBVIOUS
<1>3. CapOK'
  BY <1>1 DEF CapOK, OneCapture
<1>4. BufOK'
  <2>1. ASSUME NEW j \in Fetches', NEW k \in 1 .. Len(stack'[j].text) PROVE buf[k] \in Words
    <3>1. CASE stack'[j].text = <<>>
      BY <1>2, <2>1, <3>1
    <3>2. CASE j \in Fetches /\ stack'[j].text = stack[j].text
      BY <2>1, <3>2 DEF BufOK
    <3> QED BY <2>1, <3>1, <3>2
  <2> QED BY <1>1, <2>1 DEF BufOK
<1>5. Faithful'
  <2> SUFFICES ASSUME ~mixed' PROVE Faithful'
    BY DEF Faithful
  <2>1. ~mixed /\ ~Overlap'
    BY DEF Overlaps
  <2>2. ASSUME NEW j \in Fetches', NEW k \in 1 .. Len(stack'[j].text) PROVE buf[k] = stack'[j].text[k]
    <3>1. CASE stack'[j].text = <<>>
      BY <1>2, <2>2, <3>1
    <3>2. CASE j \in Fetches /\ stack'[j].text = stack[j].text
      BY <2>1, <2>2, <3>2 DEF Faithful
    <3> QED BY <2>2, <3>1, <3>2
  <2> QED BY <1>1, <2>1, <2>2 DEF Faithful
<1> QED BY <1>3, <1>4, <1>5

LEMMA BufKept ==
  ASSUME CapOK, BufOK, Faithful, Overlaps, UNCHANGED <<capVars, flashVars>>,
         \A j \in Fetches' : stack'[j].text = <<>> \/ (j \in Fetches /\ stack'[j].text = stack[j].text)
  PROVE  CapOK' /\ BufOK' /\ Faithful'
<1>1. ~mixed' => Meant'
  BY DEF Overlaps, Faithful, Meant, flashVars
<1> QED BY <1>1, BufStays

LEMMA FlashKept ==
  ASSUME FlashOK, UNCHANGED flashVars
  PROVE  FlashOK'
BY DEF FlashOK, flashVars, Unique, Carries, Valid

\* A call that is refused, or does nothing here
LEMMA QuietKeeps ==
  ASSUME ShellIs, Overlaps, Like(stack', stack), UNCHANGED <<runVars, capVars, flashVars>>
  PROVE  ShellIs'
<1>1. /\ Runs' = Runs /\ Fetches' = Fetches
      /\ \A k \in 1 .. Len(stack) : Same(stack'[k], stack[k])
  BY PlacesKept
<1>2. StackOK'
  BY DEF StackOK, Like
<1>3. RunOK'
  BY <1>1, RunKept DEF ShellIs, Runs, Same
<1>4. \A j \in Fetches' : stack'[j].text = stack[j].text /\ j \in Fetches
  BY <1>1 DEF Fetches, Same
<1>5. CapOK' /\ BufOK' /\ Faithful'
  BY <1>4, BufKept DEF ShellIs
<1>6. FlashOK'
  BY FlashKept DEF ShellIs
<1> QED BY <1>2, <1>3, <1>5, <1>6 DEF ShellIs

\* A handler that is entered, on a stack that is like the one before
LEMMA PlacesPushed ==
  ASSUME StackOK, NEW t, Like(t, stack), NEW f \in Handlers, stack' = Append(t, f)
  PROVE  /\ StackOK' /\ Len(stack) \in Nat /\ Len(stack') = Len(stack) + 1 /\ stack'[Len(stack) + 1] = f
         /\ \A k \in 1 .. Len(stack) : Same(stack'[k], stack[k])
         /\ Runs' = Runs \cup (IF f.op = "run" THEN {Len(stack) + 1} ELSE {})
         /\ Fetches' = Fetches \cup (IF f.op = "fetch" THEN {Len(stack) + 1} ELSE {})
<1> DEFINE n == Len(stack)
<1>1. t \in Seq(Handlers) /\ Len(t) = n /\ \A k \in 1 .. n : Same(t[k], stack[k])
  BY DEF Like
<1>2. /\ stack' \in Seq(Handlers) /\ Len(stack') = n + 1 /\ n \in Nat
      /\ \A k \in 1 .. n + 1 : stack'[k] = IF k <= n THEN t[k] ELSE f
  BY <1>1, AppendAt
<1>3. Runs' = {k \in 1 .. n + 1 : stack'[k].op = "run"} /\ Runs = {k \in 1 .. n : stack[k].op = "run"}
  BY <1>2 DEF Runs
<1>4. Fetches' = {k \in 1 .. n + 1 : stack'[k].op = "fetch"} /\ Fetches = {k \in 1 .. n : stack[k].op = "fetch"}
  BY <1>2 DEF Fetches
<1> HIDE DEF n
<1>5. \A k \in 1 .. n : Same(stack'[k], stack[k])
  BY <1>1, <1>2
<1>6. stack'[n + 1] = f
  BY <1>2
<1>7. Runs' = Runs \cup (IF f.op = "run" THEN {n + 1} ELSE {})
  BY <1>2, <1>3, <1>5, <1>6 DEF Same
<1>8. Fetches' = Fetches \cup (IF f.op = "fetch" THEN {n + 1} ELSE {})
  BY <1>2, <1>4, <1>5, <1>6 DEF Same
<1> QED BY <1>2, <1>5, <1>6, <1>7, <1>8 DEF n, StackOK

\* A handler that returns
LEMMA PlacesPopped ==
  ASSUME StackOK, stack # <<>>, NEW rc \in Codes, Finish(Below, rc)
  PROVE  /\ StackOK' /\ Len(stack) \in Nat \ {0} /\ Len(stack') = Len(stack) - 1
         /\ \A k \in 1 .. Len(stack) - 1 : Same(stack'[k], stack[k])
         /\ Runs' = Runs \ {Len(stack)} /\ Fetches' = Fetches \ {Len(stack)}
<1> DEFINE n == Len(stack)
<1>1. Below \in Seq(Handlers) /\ Len(Below) = n - 1 /\ n \in Nat \ {0} /\ \A k \in 1 .. n - 1 : Below[k] = stack[k]
  BY FrontAt DEF StackOK, Below
<1>2. Like(stack', Below)
  BY <1>1, FinishIs
<1>3. stack' \in Seq(Handlers) /\ Len(stack') = n - 1 /\ \A k \in 1 .. n - 1 : Same(stack'[k], stack[k])
  BY <1>1, <1>2 DEF Like
<1>4. Runs' = {k \in 1 .. n - 1 : stack'[k].op = "run"} /\ Runs = {k \in 1 .. n : stack[k].op = "run"}
  BY <1>3 DEF Runs
<1>5. Fetches' = {k \in 1 .. n - 1 : stack'[k].op = "fetch"} /\ Fetches = {k \in 1 .. n : stack[k].op = "fetch"}
  BY <1>3 DEF Fetches
<1> HIDE DEF n
<1>6. Runs' = Runs \ {n}
  BY <1>1, <1>3, <1>4 DEF Same
<1>7. Fetches' = Fetches \ {n}
  BY <1>1, <1>3, <1>5 DEF Same
<1> QED BY <1>1, <1>3, <1>6, <1>7 DEF n, StackOK

-----------------------------------------------------------------------------
(* The shells: what a command does *)

LEMMA CommandIs ==
  ASSUME NEW c \in Commands
  PROVE  /\ c.op \in Ops /\ c.name \in Names \cup {Absent} /\ c.times \in Nat /\ c.subs \in Seq(Commands)
         /\ c.op \in {"run", "save", "fetch", "rm"} => c.name \in Names
         /\ c.op = "repeat" => Len(c.subs) = 1
         /\ c.op = "if" => Len(c.subs) \in {2, 3}
         /\ c.op = "while" => Len(c.subs) = 2
BY ShellAssumption

LEMMA FrameIs ==
  ASSUME NEW s \in ShellIds, NEW c \in Commands, c.op \in Loops \cup Waits
  PROVE  /\ Frame(s, c) \in Handlers /\ Frame(s, c).op = c.op /\ Frame(s, c).text = <<>>
<1> DEFINE f == Frame(s, c)
<1>1. f = [shell |-> s, op |-> c.op, name |-> c.name, times |-> c.times, subs |-> c.subs,
           i |-> 0, rc |-> "OK", intact |-> TRUE, slot |-> NoSlot, text |-> <<>>]
  BY DEF Frame
<1>2. <<>> \in Seq(Words) /\ Len(<< >>) = 0 /\ BodyMax \in Nat
  BY EmptySeq, SlotAssumption
<1>3. f \in FrameT
  BY <1>1, <1>2, CommandIs DEF FrameT, Codes
<1>4. c.op # "run"
  BY DEF Loops, Waits
<1>5. f \in Handlers
  BY <1>1, <1>2, <1>3, <1>4, CommandIs DEF Handlers
<1> QED BY <1>1, <1>5

RunFrame(s, c, i, text) == [Frame(s, c) EXCEPT !.slot = i, !.text = text]

LEMMA RunFrameIs ==
  ASSUME NEW s \in ShellIds, NEW c \in Commands, c.op = "run",
         NEW i \in Slots, NEW text \in Seq(Words)
  PROVE  /\ RunFrame(s, c, i, text) \in Handlers
         /\ RunFrame(s, c, i, text).op = "run" /\ RunFrame(s, c, i, text).name = c.name
<1> DEFINE g == Frame(s, c)
           f == [g EXCEPT !.slot = i, !.text = text]
<1>1. g = [shell |-> s, op |-> c.op, name |-> c.name, times |-> c.times, subs |-> c.subs,
           i |-> 0, rc |-> "OK", intact |-> TRUE, slot |-> NoSlot, text |-> <<>>]
  BY DEF Frame
<1>2. g \in FrameT /\ g.op = "run" /\ g.name = c.name /\ c.name \in Names
  BY <1>1, EmptySeq, CommandIs DEF FrameT, Codes
<1> HIDE DEF g
<1>3. f \in FrameT /\ f.op = "run" /\ f.name = c.name /\ f.slot = i
  BY <1>2 DEF FrameT
<1>4. f \in Handlers
  BY <1>2, <1>3 DEF Handlers
<1> QED BY <1>3, <1>4 DEF g, RunFrame

LEMMA PushKeeps ==
  ASSUME ShellIs, Overlaps, NEW t, Like(t, stack), NEW s \in ShellIds, NEW c \in Commands,
         c.op \in Loops \cup Waits, Push(s, c, t)
  PROVE  ShellIs'
<1> DEFINE f == Frame(s, c)
           n == Len(stack)
<1>1. f \in Handlers /\ f.op = c.op /\ f.text = <<>> /\ f.op # "run"
  BY FrameIs DEF Loops, Waits
<1>2. stack' = Append(t, f) /\ UNCHANGED <<runVars, capVars, flashVars>>
  BY DEF Push
<1> HIDE DEF f
<1>3. /\ StackOK' /\ n \in Nat /\ stack'[n + 1] = f
      /\ \A k \in 1 .. n : Same(stack'[k], stack[k])
      /\ Runs' = Runs \cup (IF f.op = "run" THEN {n + 1} ELSE {})
      /\ Fetches' = Fetches \cup (IF f.op = "fetch" THEN {n + 1} ELSE {})
  BY <1>1, <1>2, PlacesPushed DEF ShellIs
<1>4. RunOK'
  <2>1. Runs' = Runs
    BY <1>1, <1>3
  <2> QED BY <1>2, <1>3, <2>1, RunKept DEF ShellIs, Runs, Same
<1>5. \A j \in Fetches' : stack'[j].text = <<>> \/ (j \in Fetches /\ stack'[j].text = stack[j].text)
  <2> TAKE j \in Fetches'
  <2>1. CASE j \in Fetches
    <3>1. j \in 1 .. n
      BY <2>1 DEF Fetches
    <3> QED BY <1>3, <2>1, <3>1 DEF Same
  <2>2. CASE j \notin Fetches
    <3>1. j = n + 1
      BY <1>3, <2>2
    <3> QED BY <1>1, <1>3, <3>1
  <2> QED BY <2>1, <2>2
<1>6. CapOK' /\ BufOK' /\ Faithful'
  BY <1>2, <1>5, BufKept DEF ShellIs
<1> QED BY <1>2, <1>3, <1>4, <1>6, FlashKept DEF ShellIs

\* run finds its script: a sound sector of that name
LEMMA OpensIs ==
  ASSUME FlashOK, NEW n \in Names, Loaded(slots, n) # Absent
  PROVE  FindByName(slots, n) \in Slots /\ Loaded(slots, n) \in Seq(Words)
<1> DEFINE i == FindByName(slots, n)
<1>1. i # NoSlot /\ Loaded(slots, n) = slots[i].body
  BY DEF Loaded
<1>2. i \in Slots /\ Valid(slots, i)
  BY <1>1, FindByNameFinds DEF Carries
<1>3. slots[i].body \in Bodies
  BY <1>2 DEF FlashOK, Table, Valid
<1> QED BY <1>1, <1>2, <1>3, BodyIs

LEMMA RunKeeps ==
  ASSUME ShellIs, Overlaps, NEW t, Like(t, stack), NEW s \in ShellIds, NEW c \in Commands,
         c.op = "run", Run(s, c, t)
  PROVE  ShellIs'
<1>1. c.name \in Names
  BY CommandIs
<1>2. CASE running \/ ~Opens(c.name) \/ ~RoomForArgs
  <2>1. \E rc \in Codes : Refuse(t, rc)
    <3>1. Refuse(t, "ARG") \/ Refuse(t, "HARDWARE")
      BY <1>2 DEF Run
    <3> QED BY <3>1 DEF Codes
  <2>2. Like(stack', t) /\ UNCHANGED <<runVars, capVars, flashVars>>
    BY <2>1, FinishIs DEF Refuse, Like
  <2> QED BY <2>2, LikeTwice, QuietKeeps
<1>3. CASE ~running /\ Opens(c.name) /\ RoomForArgs
  <2> DEFINE text == Loaded(slots, c.name)
             i == FindByName(slots, c.name)
             f == RunFrame(s, c, i, text)
             n == Len(stack)
  <2>1. /\ running' = TRUE /\ open' = TRUE /\ args' = Append(args, c.name)
        /\ stack' = Append(t, f) /\ UNCHANGED <<capVars, flashVars>>
    BY <1>3 DEF Run, PushArgs, RunFrame
  <2>2. i \in Slots /\ text \in Seq(Words)
    BY <1>1, <1>3, OpensIs DEF Opens, ShellIs
  <2> HIDE DEF i, text
  <2>3. f \in Handlers /\ f.op = "run" /\ f.name = c.name
    BY <2>2, RunFrameIs
  <2> HIDE DEF f
  <2>4. /\ StackOK' /\ n \in Nat /\ stack'[n + 1] = f
        /\ \A k \in 1 .. n : Same(stack'[k], stack[k])
        /\ Runs' = Runs \cup (IF f.op = "run" THEN {n + 1} ELSE {})
        /\ Fetches' = Fetches \cup (IF f.op = "fetch" THEN {n + 1} ELSE {})
    BY <2>1, <2>3, PlacesPushed DEF ShellIs
  <2>5. RunOK'
    <3>1. Runs = {} /\ args = <<>>
      BY <1>3 DEF ShellIs, RunOK, RunIsBalanced
    <3>2. Runs' = {n + 1} /\ args' = <<c.name>>
      BY <2>1, <2>3, <2>4, <3>1
    <3>3. stack'[n + 1].name = c.name
      BY <2>3, <2>4
    <3>4. args' \in Seq(Names) /\ Len(args') = 1
      BY <1>1, <3>2
    <3>5. 1 <= StackDepth
      <4>1. Len(args) < StackDepth /\ Len(<< >>) = 0
        BY <1>3 DEF RoomForArgs
      <4> QED BY <3>1, <4>1, ShellAssumption
    <3> QED BY <2>1, <3>2, <3>3, <3>4, <3>5 DEF RunOK, RunIsBalanced
  <2>6. \A j \in Fetches' : j \in Fetches /\ stack'[j].text = stack[j].text
    BY <2>3, <2>4 DEF Fetches, Same
  <2>7. CapOK' /\ BufOK' /\ Faithful'
    BY <2>1, <2>6, BufKept DEF ShellIs
  <2> QED BY <2>1, <2>4, <2>5, <2>7, FlashKept DEF ShellIs
<1> QED BY <1>2, <1>3

-----------------------------------------------------------------------------
(* The shells: the script store *)

SectorT == {Erased} \cup [name : Names \cup {Absent}, body : Bodies, sound : BOOLEAN]

\* A sector written, its own name's or a free one, or erased
LEMMA TableWritten ==
  ASSUME FlashOK, NEW n \in Names, NEW i \in Slots,
         Carries(slots, i, n) \/ (~Valid(slots, i) /\ \A j \in Slots : ~Carries(slots, j, n)),
         NEW h \in SectorT, h # Erased => h.name = n, slots' = [slots EXCEPT ![i] = h]
  PROVE  /\ slots' \in Table /\ Unique(slots')
         /\ \A m \in Names \ {n} : Loaded(slots', m) = Loaded(slots, m)
         /\ Loaded(slots', n) = IF h # Erased /\ h.sound THEN h.body ELSE Absent
<1>1. slots \in Table /\ Unique(slots)
  BY DEF FlashOK
<1>2. /\ slots' \in Table /\ slots'[i] = h
      /\ \A j \in Slots \ {i} : slots'[j] = slots[j]
  BY <1>1 DEF Table, SectorT
<1>3. \A j \in Slots \ {i} : ~Carries(slots, j, n)
  BY <1>1 DEF Unique
<1>4. \A j \in Slots \ {i} : \A m : Carries(slots', j, m) <=> Carries(slots, j, m)
  BY <1>2 DEF Carries, Valid
<1>5. \A m \in Names \ {n} : ~Carries(slots, i, m) /\ ~Carries(slots', i, m)
  BY <1>2 DEF Carries, Valid
<1>6. Unique(slots')
  <2> SUFFICES ASSUME NEW m \in Names, NEW j \in Slots, NEW k \in Slots, Carries(slots', j, m), Carries(slots', k, m)
               PROVE  j = k
    BY DEF Unique
  <2>1. CASE m = n
    BY <1>3, <1>4, <2>1
  <2>2. CASE m # n
    <3>1. j # i /\ k # i
      BY <1>5, <2>2
    <3>2. Carries(slots, j, m) /\ Carries(slots, k, m)
      BY <1>4, <3>1
    <3> QED BY <1>1, <3>2 DEF Unique
  <2> QED BY <2>1, <2>2
<1>7. ASSUME NEW m \in Names, m # n PROVE Loaded(slots', m) = Loaded(slots, m)
  <2>1. CASE \E j \in Slots : Carries(slots, j, m)
    <3>1. PICK j \in Slots : Carries(slots, j, m)
      BY <2>1
    <3>2. j # i /\ Carries(slots', j, m) /\ slots'[j] = slots[j]
      BY <1>2, <1>4, <1>5, <1>7, <3>1
    <3> QED BY <1>1, <1>6, <3>1, <3>2, LoadsOwn
  <2>2. CASE \A j \in Slots : ~Carries(slots, j, m)
    <3>1. \A j \in Slots : ~Carries(slots', j, m)
      BY <1>4, <1>5, <1>7, <2>2
    <3> QED BY <2>2, <3>1, LoadsNone
  <2> QED BY <2>1, <2>2
<1>8. Loaded(slots', n) = IF h # Erased /\ h.sound THEN h.body ELSE Absent
  <2>1. CASE h = Erased
    <3>1. \A j \in Slots : ~Carries(slots', j, n)
      BY <1>2, <1>3, <1>4, <2>1 DEF Carries, Valid
    <3> QED BY <2>1, <3>1, LoadsNone
  <2>2. CASE h # Erased
    <3>1. Carries(slots', i, n)
      BY <1>2, <2>2 DEF Carries, Valid
    <3>2. Loaded(slots', n) = IF slots'[i].sound THEN slots'[i].body ELSE Absent
      BY <1>6, <3>1, LoadsOwn
    <3> QED BY <1>2, <2>2, <3>2
  <2> QED BY <2>1, <2>2
<1> QED BY <1>2, <1>6, <1>7, <1>8

\* scripts_save wrote the text it was given, for a name that was to have it ...
LEMMA WrittenIs ==
  ASSUME FlashOK, NEW n \in Names, NEW text \in Bodies, NEW meant, Written(n, text, meant)
  PROVE  FlashOK' /\ (Meant /\ text = meant => Meant')
<1> DEFINE i == TargetSlot(slots, n)
           h == Header(n, text, TRUE)
<1>1. i # NoSlot /\ slots' = [slots EXCEPT ![i] = h] /\ wanted' = [wanted EXCEPT ![n] = meant]
  BY DEF Written
<1>2. i \in Slots /\ (Carries(slots, i, n) \/ (~Valid(slots, i) /\ \A j \in Slots : ~Carries(slots, j, n)))
  BY <1>1, TargetIsOwnOrFree
<1>3. h \in SectorT /\ h.name = n /\ h.body = text /\ h.sound = TRUE /\ h # Erased
  <2>1. h \in [name : Names \cup {Absent}, body : Bodies, sound : BOOLEAN]
    BY DEF Header
  <2>2. h # Erased
    BY <2>1, SlotAssumption
  <2> QED BY <2>1, <2>2 DEF Header, SectorT
<1> HIDE DEF i, h
<1>4. /\ slots' \in Table /\ Unique(slots')
      /\ \A m \in Names \ {n} : Loaded(slots', m) = Loaded(slots, m)
      /\ Loaded(slots', n) = text
  BY <1>1, <1>2, <1>3, TableWritten
<1>5. /\ wanted' = [m \in Names |-> wanted'[m]] /\ wanted'[n] = meant
      /\ \A m \in Names \ {n} : wanted'[m] = wanted[m]
  BY <1>1 DEF FlashOK
<1>6. FlashOK'
  BY <1>4, <1>5 DEF FlashOK
<1>7. ASSUME Meant, text = meant PROVE Meant'
  BY <1>4, <1>5, <1>7 DEF Meant
<1> QED BY <1>6, <1>7

\* ... or erased a sector at most.
LEMMA ErasedIs ==
  ASSUME FlashOK, NEW n \in Names, NEW i \in Slots,
         Carries(slots, i, n) \/ (~Valid(slots, i) /\ \A j \in Slots : ~Carries(slots, j, n)),
         slots' = [slots EXCEPT ![i] = Erased], wanted' = wanted
  PROVE  FlashOK' /\ (Meant => Meant')
<1>1. Erased \in SectorT
  BY DEF SectorT
<1>2. /\ slots' \in Table /\ Unique(slots')
      /\ \A m \in Names \ {n} : Loaded(slots', m) = Loaded(slots, m)
      /\ Loaded(slots', n) = Absent
  BY <1>1, TableWritten
<1>3. FlashOK'
  BY <1>2 DEF FlashOK
<1>4. Meant => Meant'
  BY <1>2 DEF Meant
<1> QED BY <1>3, <1>4

LEMMA NotWrittenIs ==
  ASSUME FlashOK, NEW n \in Names, NotWritten(n)
  PROVE  FlashOK' /\ (Meant => Meant')
<1> DEFINE i == TargetSlot(slots, n)
<1>1. slots' \in (IF i = NoSlot THEN {slots} ELSE {slots, [slots EXCEPT ![i] = Erased]}) /\ wanted' = wanted
  BY DEF NotWritten
<1>2. CASE slots' = slots
  <2>1. FlashOK'
    BY <1>1, <1>2, FlashKept DEF flashVars
  <2>2. Meant => Meant'
    BY <1>1, <1>2 DEF Meant
  <2> QED BY <2>1, <2>2
<1>3. CASE slots' # slots
  <2>1. i # NoSlot /\ slots' = [slots EXCEPT ![i] = Erased]
    BY <1>1, <1>3
  <2>2. i \in Slots /\ (Carries(slots, i, n) \/ (~Valid(slots, i) /\ \A j \in Slots : ~Carries(slots, j, n)))
    BY <2>1, TargetIsOwnOrFree
  <2> HIDE DEF i
  <2> QED BY <1>1, <2>1, <2>2, ErasedIs
<1> QED BY <1>2, <1>3

-----------------------------------------------------------------------------
(* The shells: save, fetch, rm *)

\* The stack is as it was, and so are the buffer and its users, but for the flash.
LEMMA FlashStep ==
  ASSUME ShellIs, Overlaps, Like(stack', stack), UNCHANGED <<runVars, capturing, cap, buf, typed>>,
         FlashOK', Meant => Meant'
  PROVE  ShellIs'
<1>1. /\ Runs' = Runs /\ Fetches' = Fetches
      /\ \A k \in 1 .. Len(stack) : Same(stack'[k], stack[k])
  BY PlacesKept
<1>2. StackOK' /\ RunOK'
  BY <1>1, RunKept DEF ShellIs, Runs, Same, StackOK, Like
<1>3. \A j \in Fetches' : stack'[j].text = stack[j].text /\ j \in Fetches
  BY <1>1 DEF Fetches, Same
<1>4. ~mixed' => Meant'
  BY DEF Overlaps, ShellIs, Faithful
<1> QED BY <1>2, <1>3, <1>4, BufStays DEF ShellIs, capVars

LEMMA SaveKeeps ==
  ASSUME ShellIs, Overlaps, NEW t, Like(t, stack), NEW s \in ShellIds, NEW c \in Commands,
         c.op = "save", Save(s, c, t)
  PROVE  ShellIs'
<1>1. CASE cap.taken
  <2>1. Like(stack', t) /\ UNCHANGED <<runVars, capVars, flashVars>>
    BY <1>1, FinishIs DEF Save, Refuse, Like, Codes
  <2> QED BY <2>1, LikeTwice, QuietKeeps
<1>2. CASE ~cap.taken
  <2>1. /\ cap' = [taken |-> TRUE, name |-> c.name, len |-> 0]
        /\ capturing' = [capturing EXCEPT ![s] = TRUE]
        /\ typed' = <<>> /\ Finish(t, "OK")
        /\ UNCHANGED <<running, open, args, buf, slots, wanted>>
    BY <1>2 DEF Save, runVars, flashVars
  <2>2. Like(stack', stack)
    BY <2>1, FinishIs, LikeTwice DEF Like, Codes
  <2>3. /\ Runs' = Runs /\ Fetches' = Fetches
        /\ \A k \in 1 .. Len(stack) : Same(stack'[k], stack[k])
    BY <2>2, PlacesKept
  <2>4. StackOK' /\ RunOK' /\ FlashOK'
    BY <2>1, <2>2, <2>3, RunKept, FlashKept DEF ShellIs, Runs, Same, StackOK, Like, runVars, flashVars
  <2>5. \A j \in Fetches' : stack'[j].text = stack[j].text /\ j \in Fetches
    BY <2>3 DEF Fetches, Same
  <2>6. CapOK'
    <3>1. c.name \in Names /\ BodyMax \in Nat
      BY CommandIs, SlotAssumption
    <3>2. cap' \in [taken : BOOLEAN, name : Names \cup {Absent}, len : 0 .. BodyMax] /\ cap'.taken /\ cap'.name = c.name
      BY <2>1, <3>1
    <3>3. capturing' \in [ShellIds -> BOOLEAN] /\ \A u \in ShellIds : capturing'[u] => u = s
      BY <1>2, <2>1 DEF ShellIs, CapOK, OneCapture
    <3> QED BY <2>1, <3>1, <3>2, <3>3, EmptySeq DEF CapOK, OneCapture
  <2>7. BufOK'
    <3>1. cap'.len = 0
      BY <2>1
    <3> QED BY <2>1, <2>5, <3>1 DEF ShellIs, BufOK
  <2>8. Faithful'
    <3> SUFFICES ASSUME ~mixed' PROVE Faithful'
      BY DEF Faithful
    <3>1. ~mixed /\ ~Overlap'
      BY DEF Overlaps
    <3>2. cap'.len = 0 /\ Len(typed') = 0
      BY <2>1
    <3>3. Meant'
      BY <2>1, <3>1 DEF ShellIs, Faithful, Meant
    <3> QED BY <2>1, <2>5, <3>1, <3>2, <3>3 DEF ShellIs, Faithful
  <2> QED BY <2>4, <2>6, <2>7, <2>8 DEF ShellIs
<1> QED BY <1>1, <1>2

LEMMA RefuseKeeps ==
  ASSUME ShellIs, Overlaps, NEW t, Like(t, stack), NEW rc \in Codes, Finish(t, rc),
         UNCHANGED <<runVars, capVars, flashVars>>
  PROVE  ShellIs'
<1>1. t \in Seq(Handlers)
  BY DEF Like
<1>2. Like(stack', stack)
  BY <1>1, FinishIs, LikeTwice
<1> QED BY <1>2, QuietKeeps

LEMMA RemoveKeeps ==
  ASSUME ShellIs, Overlaps, NEW t, Like(t, stack), NEW c \in Commands, c.op = "rm", Remove(c, t)
  PROVE  ShellIs'
<1> DEFINE j == FindByName(slots, c.name)
<1>1. c.name \in Names
  BY CommandIs
<1>2. CASE Refuse(t, "ARG")
  BY <1>2, RefuseKeeps DEF Refuse, Codes
<1>3. CASE /\ j # NoSlot /\ slots' = [slots EXCEPT ![j] = Erased]
           /\ Finish(t, "OK") /\ UNCHANGED <<runVars, capVars, wanted>>
  <2>1. Like(stack', stack)
    BY <1>3, FinishIs, LikeTwice DEF Like, Codes
  <2>2. j \in Slots /\ Carries(slots, j, c.name)
    BY <1>3, FindByNameFinds
  <2> HIDE DEF j
  <2>3. FlashOK' /\ (Meant => Meant')
    BY <1>1, <1>3, <2>2, ErasedIs DEF ShellIs
  <2> QED BY <1>3, <2>1, <2>3, FlashStep DEF capVars
<1> QED BY <1>2, <1>3 DEF Remove

LEMMA FetchKeeps ==
  ASSUME ShellIs, Overlaps, NEW t, Like(t, stack), NEW s \in ShellIds, NEW c \in Commands,
         c.op = "fetch", Fetch(s, c, t)
  PROVE  ShellIs'
<1>1. CASE Refuse(t, "ARG")
  BY <1>1, RefuseKeeps DEF Refuse, Codes
<1>2. CASE Push(s, c, t)
  BY <1>2, PushKeeps DEF Loops, Waits
<1> QED BY <1>1, <1>2 DEF Fetch

\* Every command keeps the invariant, whichever handler calls it.
LEMMA DispatchKeeps ==
  ASSUME ShellIs, Overlaps, NEW t, Like(t, stack), NEW s \in ShellIds, NEW c \in Commands,
         Dispatch(s, c, t)
  PROVE  ShellIs'
<1>1. CASE c.op = "plain" /\ Plain(t)
  BY <1>1, RefuseKeeps DEF Plain
<1>2. CASE c.op \in Loops /\ Push(s, c, t)
  BY <1>2, PushKeeps
<1>3. CASE c.op = "sleep" /\ Sleep(s, c, t)
  <2>1. CASE Refuse(t, "ARG")
    BY <2>1, RefuseKeeps DEF Refuse, Codes
  <2>2. CASE Push(s, c, t)
    BY <1>3, <2>2, PushKeeps DEF Waits
  <2> QED BY <1>3, <2>1, <2>2 DEF Sleep
<1>4. CASE c.op = "run" /\ Run(s, c, t)
  BY <1>4, RunKeeps
<1>5. CASE c.op = "save" /\ Save(s, c, t)
  BY <1>5, SaveKeeps
<1>6. CASE c.op = "fetch" /\ Fetch(s, c, t)
  BY <1>6, FetchKeeps
<1>7. CASE c.op = "rm" /\ Remove(c, t)
  BY <1>7, RemoveKeeps
<1> QED BY <1>1, <1>2, <1>3, <1>4, <1>5, <1>6, <1>7 DEF Dispatch, Script

\* A loop, or a run, that calls a command has counted it.
LEMMA CountedIs ==
  ASSUME StackOK, stack # <<>>, Top.op = "if" => Top.i + 1 <= 2
  PROVE  Like(Counted(stack), stack) /\ Top \in Handlers
<1> DEFINE n == Len(stack)
           f == [stack[n] EXCEPT !.i = @ + 1]
<1>1. n \in 1 .. n /\ n \in Nat
  BY EmptySeq DEF StackOK
<1>2. stack[n] \in Handlers
  BY <1>1, ElementOfSeq DEF StackOK
<1>3. f \in Handlers /\ Same(f, stack[n])
  BY <1>2 DEF Handlers, FrameT, Same, Top
<1>4. Counted(stack) = [stack EXCEPT ![n] = f]
  BY DEF Counted
<1> DEFINE t == Counted(stack)
<1> HIDE DEF n, f, t
<1>5. t \in Seq(Handlers) /\ Len(t) = Len(stack) /\ \A k \in 1 .. Len(stack) : t[k] = IF k = n THEN f ELSE stack[k]
  BY <1>1, <1>3, <1>4, ExceptSeq DEF StackOK, n, t
<1>6. Like(t, stack)
  BY <1>3, <1>5 DEF Like, Same
<1> QED BY <1>2, <1>6 DEF n, t, Top

-----------------------------------------------------------------------------
(* The shells: input *)

LEMMA LineKeeps ==
  ASSUME ShellIs, Overlaps, NEW s \in ShellIds, NEW c \in Commands, Line(s, c)
  PROVE  ShellIs'
<1>1. Like(Clobbered(stack), stack)
  BY ClobberedIs DEF ShellIs, StackOK
<1>2. CASE Refuse(Clobbered(stack), "ARG")
  BY <1>1, <1>2, RefuseKeeps DEF Refuse, Codes
<1>3. CASE Dispatch(s, c, Clobbered(stack))
  BY <1>1, <1>3, DispatchKeeps
<1> QED BY <1>2, <1>3 DEF Line, DispatchLine

\* Nothing above the line buffer changes when a capture, or its end, is entered.
LEMMA StackStays ==
  ASSUME StackOK, UNCHANGED stack
  PROVE  StackOK' /\ Runs' = Runs /\ Fetches' = Fetches /\ (RunOK /\ UNCHANGED runVars => RunOK')
BY DEF StackOK, Runs, Fetches, RunOK, RunIsBalanced, runVars

\* The text of a transfer fits in the buffer.
LEMMA FetchFits ==
  ASSUME StackOK, NEW j \in Fetches
  PROVE  stack[j].text \in Seq(Words) /\ Len(stack[j].text) <= BodyMax /\ Len(stack[j].text) \in Nat
<1>1. stack[j] \in Handlers /\ stack[j].op = "fetch"
  BY ElementOfSeq DEF Fetches, StackOK
<1>2. stack[j].text \in Seq(Words) /\ Len(stack[j].text) <= BodyMax
  BY <1>1 DEF Handlers, FrameT
<1> QED BY <1>2, LenProperties

\* A line goes to the end of the captured text.
LEMMA LineStored ==
  ASSUME ShellIs, NEW w \in Words, RoomForLine, UNCHANGED stack,
         buf' = [buf EXCEPT ![cap.len + 1] = w], cap' = [cap EXCEPT !.len = @ + 1]
  PROVE  /\ BufOK' /\ cap.len \in Nat
         /\ cap' \in [taken : BOOLEAN, name : Names \cup {Absent}, len : 0 .. BodyMax]
         /\ cap'.taken = cap.taken /\ cap'.name = cap.name /\ cap'.len = cap.len + 1
         /\ \A k \in 1 .. cap.len : buf'[k] = buf[k]
         /\ buf'[cap.len + 1] = w
<1> DEFINE n == cap.len + 1
<1>1. cap \in [taken : BOOLEAN, name : Names \cup {Absent}, len : 0 .. BodyMax] /\ BodyMax \in Nat
  BY SlotAssumption DEF ShellIs, CapOK
<1>2. /\ n \in 1 .. BodyMax /\ cap'.len = n /\ cap'.taken = cap.taken /\ cap'.name = cap.name
      /\ cap' \in [taken : BOOLEAN, name : Names \cup {Absent}, len : 0 .. BodyMax]
  BY <1>1 DEF RoomForLine
<1>3. /\ buf' \in [1 .. BodyMax -> Words \cup {Absent}] /\ buf'[n] = w
      /\ \A k \in 1 .. BodyMax \ {n} : buf'[k] = buf[k]
  BY <1>2 DEF ShellIs, BufOK
<1>4. \A k \in 1 .. cap.len : k \in 1 .. BodyMax /\ k # n
  BY <1>1
<1>5. \A k \in 1 .. n : k = n \/ k \in 1 .. cap.len
  BY <1>1
<1>6. \A j \in Fetches : \A k \in 1 .. Len(stack[j].text) : k \in 1 .. BodyMax
  BY <1>1, FetchFits DEF ShellIs
<1> HIDE DEF n
<1>7. \A k \in 1 .. cap.len : buf'[k] = buf[k]
  BY <1>3, <1>4
<1>8. \A k \in 1 .. n : buf'[k] \in Words
  BY <1>3, <1>5, <1>7 DEF ShellIs, BufOK
<1>9. ASSUME NEW j \in Fetches, NEW k \in 1 .. Len(stack[j].text) PROVE buf'[k] \in Words
  <2>1. CASE k = n
    BY <1>3, <2>1
  <2>2. CASE k # n
    BY <1>3, <1>6, <1>9, <2>2 DEF ShellIs, BufOK
  <2> QED BY <2>1, <2>2
<1>10. Fetches' = Fetches /\ stack' = stack
  BY DEF Fetches
<1>11. BufOK'
  BY <1>2, <1>3, <1>8, <1>9, <1>10 DEF BufOK
<1> QED BY <1>1, <1>2, <1>3, <1>7, <1>11 DEF n

LEMMA EndCaptureIs ==
  ASSUME CapOK, NEW s \in ShellIds, capturing[s], EndCapture(s)
  PROVE  /\ cap'.taken = FALSE /\ cap'.len = 0
         /\ cap' \in [taken : BOOLEAN, name : Names \cup {Absent}, len : 0 .. BodyMax]
         /\ capturing' \in [ShellIds -> BOOLEAN] /\ \A u \in ShellIds : ~capturing'[u]
<1> DEFINE T == [taken : BOOLEAN, name : Names \cup {Absent}, len : 0 .. BodyMax]
           c == cap
           d == [c EXCEPT !.taken = FALSE, !.len = 0]
<1>1. c \in T /\ 0 \in 0 .. BodyMax
  BY SlotAssumption DEF CapOK
<1>2. cap' = d
  BY DEF EndCapture
<1> HIDE DEF c
<1>4. d \in T /\ d.taken = FALSE /\ d.len = 0
  BY <1>1
<1>3. capturing' \in [ShellIds -> BOOLEAN] /\ \A u \in ShellIds : ~capturing'[u]
  BY DEF EndCapture, CapOK, OneCapture
<1> QED BY <1>2, <1>3, <1>4

\* A capture ends: its text was saved, or was not.
LEMMA CaptureOver ==
  ASSUME ShellIs, Overlaps, NEW s \in ShellIds, capturing[s], EndCapture(s),
         UNCHANGED <<stack, running, open, args, buf>>, typed' \in Seq(Words), FlashOK', ~mixed' => Meant'
  PROVE  ShellIs'
<1>1. StackOK' /\ RunOK' /\ Fetches' = Fetches
  BY StackStays DEF ShellIs, runVars
<1>2. CapOK /\ BufOK /\ Faithful
  BY DEF ShellIs
<1>3. /\ cap'.taken = FALSE /\ cap'.len = 0
      /\ cap' \in [taken : BOOLEAN, name : Names \cup {Absent}, len : 0 .. BodyMax]
      /\ capturing' \in [ShellIds -> BOOLEAN] /\ \A u \in ShellIds : ~capturing'[u]
  BY <1>2, EndCaptureIs
<1>5. CapOK'
  BY <1>3 DEF CapOK, OneCapture
<1>6. BufOK'
  BY <1>1, <1>3 DEF ShellIs, BufOK
<1>7. Faithful'
  <2> SUFFICES ASSUME ~mixed' PROVE Faithful'
    BY DEF Faithful
  <2>1. ~mixed /\ ~Overlap'
    BY DEF Overlaps
  <2> QED BY <1>1, <1>3, <2>1 DEF ShellIs, Faithful
<1> QED BY <1>1, <1>5, <1>6, <1>7 DEF ShellIs

\* A line that is captured follows those that were, in the text and in the buffer: no
\* transfer writes it, unless the buffer has been mixed up by then.
LEMMA CaptureLineKeeps ==
  ASSUME ShellIs, Overlaps, NEW s \in ShellIds, NEW w \in Words, CaptureLine(s, w)
  PROVE  ShellIs'
<1>1. capturing[s] /\ cap.taken /\ UNCHANGED <<stack, running, open, args, slots, wanted>>
  BY DEF CaptureLine, ShellIs, CapOK, OneCapture, runVars, flashVars
<1>2. StackOK' /\ RunOK' /\ FlashOK' /\ Fetches' = Fetches
  BY <1>1, StackStays, FlashKept DEF ShellIs, runVars, flashVars
<1>3. ~mixed' => ~mixed /\ ~Overlap /\ ~Overlap' /\ Meant'
  BY <1>1 DEF Overlaps, ShellIs, Faithful, Meant
<1>4. CASE RoomForLine
  <2> DEFINE n == cap.len + 1
  <2>1. /\ buf' = [buf EXCEPT ![n] = w] /\ cap' = [cap EXCEPT !.len = @ + 1]
        /\ typed' = Append(typed, w) /\ capturing' = capturing
    BY <1>4 DEF CaptureLine
  <2>2. /\ BufOK' /\ cap.len \in Nat
        /\ cap' \in [taken : BOOLEAN, name : Names \cup {Absent}, len : 0 .. BodyMax]
        /\ cap'.taken = cap.taken /\ cap'.name = cap.name /\ cap'.len = n
        /\ \A k \in 1 .. cap.len : buf'[k] = buf[k]
        /\ buf'[n] = w
    BY <1>1, <1>4, <2>1, LineStored
  <2>3. /\ typed' \in Seq(Words) /\ Len(typed') = Len(typed) + 1 /\ Len(typed) \in Nat
        /\ \A k \in 1 .. Len(typed) + 1 : typed'[k] = IF k <= Len(typed) THEN typed[k] ELSE w
    BY <2>1, AppendAt DEF ShellIs, CapOK
  <2>4. CapOK'
    BY <2>1, <2>2, <2>3 DEF ShellIs, CapOK, OneCapture
  <2>5. Faithful'
    <3> SUFFICES ASSUME ~mixed' PROVE Faithful'
      BY DEF Faithful
    <3>1. Len(typed) = cap.len /\ \A k \in 1 .. cap.len : buf[k] = typed[k]
      BY <1>1, <1>3 DEF ShellIs, Faithful
    <3>2. Len(typed') = n
      BY <2>3, <3>1
    <3>3. ASSUME NEW k \in 1 .. n PROVE buf'[k] = typed'[k]
      <4>1. CASE k = n
        BY <2>2, <2>3, <3>1, <4>1
      <4>2. CASE k # n
        <5>1. k \in 1 .. cap.len
          BY <2>2, <4>2
        <5> QED BY <2>2, <2>3, <3>1, <5>1
      <4> QED BY <4>1, <4>2
    <3>4. Fetches = {}
      <4>1. ASSUME NEW j \in Fetches PROVE FALSE
        <5>1. j \in 1 .. Len(stack) /\ 0 \in BufUsers /\ j \in BufUsers
          BY <1>1, <4>1 DEF Fetches, BufUsers
        <5>2. j # 0
          BY <5>1
        <5> QED BY <1>3, <5>1, <5>2 DEF Overlap
      <4> QED BY <4>1
    <3> QED BY <1>2, <1>3, <2>2, <3>2, <3>3, <3>4 DEF Faithful
  <2> QED BY <1>2, <2>2, <2>4, <2>5 DEF ShellIs
<1>5. CASE ~RoomForLine
  <2>1. EndCapture(s) /\ UNCHANGED <<buf, typed>>
    BY <1>5 DEF CaptureLine
  <2>2. typed' \in Seq(Words)
    BY <2>1 DEF ShellIs, CapOK
  <2> QED BY <1>1, <1>2, <1>3, <2>1, <2>2, CaptureOver
<1> QED BY <1>4, <1>5

LEMMA CaptureGarbledKeeps ==
  ASSUME ShellIs, NEW s \in ShellIds, NEW w \in Words, CaptureGarbled(s, w)
  PROVE  ShellIs'
<1>1. /\ capturing[s] /\ cap.taken /\ mixed' = TRUE
      /\ UNCHANGED <<stack, running, open, args, slots, wanted, typed>>
  BY DEF CaptureGarbled, ShellIs, CapOK, OneCapture, runVars, flashVars
<1>2. StackOK' /\ RunOK' /\ FlashOK' /\ Fetches' = Fetches
  BY <1>1, StackStays, FlashKept DEF ShellIs, runVars, flashVars
<1>3. Faithful'
  BY <1>1 DEF Faithful
<1>4. CASE RoomForLine
  <2>1. /\ buf' = [buf EXCEPT ![cap.len + 1] = w] /\ cap' = [cap EXCEPT !.len = @ + 1]
        /\ capturing' = capturing
    BY <1>4 DEF CaptureGarbled
  <2>2. /\ BufOK'
        /\ cap' \in [taken : BOOLEAN, name : Names \cup {Absent}, len : 0 .. BodyMax]
        /\ cap'.taken = cap.taken /\ cap'.name = cap.name
    BY <1>1, <1>4, <2>1, LineStored
  <2>3. CapOK'
    BY <1>1, <2>1, <2>2 DEF ShellIs, CapOK, OneCapture
  <2> QED BY <1>2, <1>3, <2>2, <2>3 DEF ShellIs
<1>5. CASE ~RoomForLine
  <2>1. EndCapture(s) /\ UNCHANGED buf
    BY <1>5 DEF CaptureGarbled
  <2>2. CapOK' /\ BufOK'
    <3>1. CapOK /\ BufOK
      BY DEF ShellIs
    <3>2. /\ cap'.taken = FALSE /\ cap'.len = 0
          /\ cap' \in [taken : BOOLEAN, name : Names \cup {Absent}, len : 0 .. BodyMax]
          /\ capturing' \in [ShellIds -> BOOLEAN] /\ \A u \in ShellIds : ~capturing'[u]
      BY <1>1, <2>1, <3>1, EndCaptureIs
    <3>3. CapOK'
      BY <1>1, <3>1, <3>2 DEF CapOK, OneCapture
    <3>4. BufOK'
      BY <1>1, <1>2, <2>1, <3>1, <3>2 DEF BufOK
    <3> QED BY <3>3, <3>4
  <2> QED BY <1>2, <1>3, <2>2 DEF ShellIs
<1> QED BY <1>4, <1>5

\* What is saved at .end is what was typed.
LEMMA CaptureEndsKeeps ==
  ASSUME ShellIs, Overlaps, NEW s \in ShellIds, CaptureEnds(s)
  PROVE  ShellIs'
<1>1. capturing[s] /\ cap.taken /\ EndCapture(s) /\ UNCHANGED <<stack, running, open, args, buf, typed>>
  BY DEF CaptureEnds, ShellIs, CapOK, OneCapture, runVars
<1>2. /\ cap.name \in Names /\ typed \in Seq(Words) /\ cap.len \in 0 .. BodyMax /\ BodyMax \in Nat
      /\ \A k \in 1 .. cap.len : buf[k] \in Words
  BY <1>1, SlotAssumption DEF ShellIs, CapOK, BufOK
<1>3. FlashOK
  BY DEF ShellIs
<1>4. FlashOK' /\ (~mixed' => Meant')
  <2>1. ~mixed' => /\ ~mixed /\ Meant /\ Len(typed) = cap.len
                   /\ \A k \in 1 .. cap.len : buf[k] = typed[k]
    BY <1>1 DEF Overlaps, ShellIs, Faithful
  <2>2. CASE Written(cap.name, Captured, typed)
    <3> DEFINE text == Captured
    <3>1. text \in [1 .. cap.len -> Words] /\ \A k \in 1 .. cap.len : text[k] = buf[k]
      BY <1>2 DEF Captured
    <3> HIDE DEF text
    <3>2. text \in Bodies
      <4>1. text \in Seq(Words)
        BY <1>2, <3>1, SeqDef
      <4>2. Len(text) = cap.len
        BY <1>2, <3>1, <4>1, LenProperties
      <4> QED BY <1>2, <4>1, <4>2, BodyIs
    <3>3. ~mixed' => text = typed
      <4> SUFFICES ASSUME ~mixed' PROVE text = typed
        OBVIOUS
      <4>1. typed \in [1 .. cap.len -> Words]
        BY <1>2, <2>1, LenProperties
      <4>2. \A k \in 1 .. cap.len : text[k] = typed[k]
        BY <2>1, <3>1
      <4> DEFINE D == 1 .. cap.len
      <4>3. text \in [D -> Words] /\ typed \in [D -> Words] /\ \A k \in D : text[k] = typed[k]
        BY <3>1, <4>1, <4>2
      <4> HIDE DEF D
      <4> QED BY <4>3
    <3>4. FlashOK' /\ (Meant /\ text = typed => Meant')
      BY <1>2, <1>3, <2>2, <3>2, WrittenIs DEF text
    <3> QED BY <2>1, <3>3, <3>4
  <2>3. CASE NotWritten(cap.name)
    BY <1>2, <1>3, <2>1, <2>3, NotWrittenIs
  <2>4. CASE UNCHANGED flashVars
    BY <1>3, <2>1, <2>4, FlashKept DEF flashVars, Meant
  <2> QED BY <2>2, <2>3, <2>4 DEF CaptureEnds
<1> QED BY <1>1, <1>2, <1>4, CaptureOver

\* A BLE client that comes or goes drops its capture, never the claim on the buffer.
LEMMA BleResetKeeps ==
  ASSUME ShellIs, Overlaps, BleReset
  PROVE  ShellIs'
<1>1. /\ capturing' = [capturing EXCEPT !["BLE"] = FALSE]
      /\ UNCHANGED <<stack, running, open, args, cap, buf, typed, slots, wanted>>
  BY DEF BleReset, runVars, flashVars
<1>2. StackOK' /\ RunOK' /\ FlashOK' /\ Fetches' = Fetches
  BY <1>1, StackStays, FlashKept DEF ShellIs, runVars, flashVars
<1>3. CapOK'
  BY <1>1 DEF ShellIs, CapOK, OneCapture
<1>4. BufOK'
  BY <1>1, <1>2 DEF ShellIs, BufOK
<1>5. Faithful'
  BY <1>1, <1>2 DEF Overlaps, ShellIs, Faithful, Meant
<1> QED BY <1>2, <1>3, <1>4, <1>5 DEF ShellIs

-----------------------------------------------------------------------------
(* The shells: the innermost handler goes on *)

LEMMA TopIs ==
  ASSUME StackOK, stack # <<>>
  PROVE  /\ Len(stack) \in Nat \ {0} /\ Top = stack[Len(stack)] /\ Top \in Handlers
         /\ Top.shell \in ShellIds /\ Top.subs \in Seq(Commands) /\ Top.i \in Nat /\ Top.text \in Seq(Words)
         /\ Top.op = "run" <=> Len(stack) \in Runs
         /\ Top.op = "fetch" <=> Len(stack) \in Fetches
<1>1. Len(stack) \in Nat \ {0}
  BY EmptySeq DEF StackOK
<1>2. Top = stack[Len(stack)]
  BY DEF Top
<1>3. Top \in Handlers
  BY <1>1, <1>2, ElementOfSeq DEF StackOK
<1> QED BY <1>1, <1>2, <1>3 DEF Handlers, FrameT, Runs, Fetches

\* A handler that is no run returns; a transfer may have saved its text.
LEMMA PopKeeps ==
  ASSUME ShellIs, Overlaps, stack # <<>>, Top.op # "run", NEW rc \in Codes, Finish(Below, rc),
         UNCHANGED <<runVars, capVars>>, FlashOK', ~mixed' => Meant'
  PROVE  ShellIs'
<1> DEFINE n == Len(stack)
<1>1. /\ StackOK' /\ n \in Nat \ {0}
      /\ \A k \in 1 .. n - 1 : Same(stack'[k], stack[k])
      /\ Runs' = Runs \ {n} /\ Fetches' = Fetches \ {n}
  BY PlacesPopped DEF ShellIs
<1>2. Runs' = Runs /\ \A k \in Runs : stack'[k].name = stack[k].name
  <2>1. n \notin Runs
    BY TopIs DEF ShellIs
  <2>2. \A k \in Runs : k \in 1 .. n - 1
    BY <1>1, <2>1 DEF Runs
  <2> QED BY <1>1, <2>1, <2>2 DEF Same
<1>3. RunOK'
  BY <1>2, RunKept DEF ShellIs
<1>4. \A j \in Fetches' : j \in Fetches /\ stack'[j].text = stack[j].text
  <2> TAKE j \in Fetches'
  <2>1. j \in Fetches /\ j # n
    BY <1>1
  <2>2. j \in 1 .. n - 1
    BY <1>1, <2>1 DEF Fetches
  <2> QED BY <1>1, <2>1, <2>2 DEF Same
<1>5. CapOK' /\ BufOK' /\ Faithful'
  BY <1>4, BufStays DEF ShellIs
<1> QED BY <1>1, <1>3, <1>5 DEF ShellIs

LEMMA MeantKept ==
  ASSUME ShellIs, Overlaps, UNCHANGED flashVars
  PROVE  FlashOK' /\ (~mixed' => Meant')
<1>1. FlashOK'
  BY FlashKept DEF ShellIs
<1> QED BY <1>1 DEF Overlaps, ShellIs, Faithful, Meant, flashVars

\* What a transfer saves is what its server sent, as long as nobody else wrote g_cap_buf.
LEMMA FetchEndsKeeps ==
  ASSUME ShellIs, Overlaps, stack # <<>>, FetchEnds
  PROVE  ShellIs'
<1> DEFINE n == Len(Top.text)
           L == Len(stack)
<1>1. Top.op = "fetch" /\ UNCHANGED <<runVars, capVars>> /\ FlashOK
  BY DEF FetchEnds, ShellIs
<1>2. L \in Fetches /\ Top = stack[L] /\ Top \in Handlers /\ Top.text \in Seq(Words)
  BY <1>1, TopIs DEF ShellIs
<1>3. n \in Nat /\ n <= BodyMax /\ Top.name \in Names
  <2>1. n \in Nat /\ n <= BodyMax
    BY <1>2, FetchFits DEF ShellIs
  <2> QED BY <1>1, <1>2, <2>1 DEF Handlers
<1>4. ~mixed' => ~mixed /\ Meant /\ \A k \in 1 .. n : buf[k] = Top.text[k]
  BY <1>2 DEF Overlaps, ShellIs, Faithful
<1>5. "HARDWARE" \in Codes /\ "OK" \in Codes
  BY DEF Codes
<1>6. CASE Finish(Below, "HARDWARE") /\ UNCHANGED flashVars
  BY <1>1, <1>5, <1>6, MeantKept, PopKeeps
<1>7. ASSUME NEW m \in Names, Finish(Below, "HARDWARE"), NotWritten(m) PROVE ShellIs'
  <2>1. FlashOK' /\ (Meant => Meant')
    BY <1>1, <1>7, NotWrittenIs
  <2> QED BY <1>1, <1>4, <1>5, <1>7, <2>1, PopKeeps
<1>8. ASSUME NEW m \in Names, Finish(Below, "OK"), Written(m, [k \in 1 .. n |-> buf[k]], Top.text) PROVE ShellIs'
  <2> DEFINE text == [k \in 1 .. n |-> buf[k]]
  <2>1. \A k \in 1 .. n : buf[k] \in Words
    BY <1>2 DEF ShellIs, BufOK
  <2>2. text \in [1 .. n -> Words] /\ \A k \in 1 .. n : text[k] = buf[k]
    BY <2>1
  <2>3. Written(m, text, Top.text)
    BY <1>8
  <2>4. Top.text \in [1 .. n -> Words]
    BY <1>2, LenProperties
  <2> HIDE DEF text
  <2>5. text \in Bodies
    <3>1. text \in Seq(Words)
      BY <1>3, <2>2, SeqDef
    <3>2. Len(text) = n
      BY <1>3, <2>2, <3>1, LenProperties
    <3> QED BY <1>3, <3>1, <3>2, BodyIs
  <2>6. ~mixed' => text = Top.text
    <3> DEFINE D == 1 .. n
               u == Top.text
    <3>1. ASSUME ~mixed' PROVE \A k \in D : text[k] = u[k]
      BY <1>4, <2>2, <3>1
    <3>2. text \in [D -> Words] /\ u \in [D -> Words]
      BY <2>2, <2>4
    <3> HIDE DEF D, u
    <3>3. ~mixed' => text = u
      BY <3>1, <3>2
    <3> QED BY <3>3 DEF u
  <2>7. FlashOK' /\ (Meant /\ text = Top.text => Meant')
    BY <1>1, <2>3, <2>5, WrittenIs
  <2> QED BY <1>1, <1>4, <1>5, <1>8, <2>6, <2>7, PopKeeps
<1>9. \A m \in IF Top.intact THEN {Top.name} ELSE Names : m \in Names
  BY <1>3
<1> QED BY <1>6, <1>7, <1>8, <1>9 DEF FetchEnds

\* What a loop does next is one of the sub-commands it has.
LEMMA NextSubIs ==
  ASSUME NEW f \in Handlers, f.op \in Loops
  PROVE  /\ NextSub(f).sub = 0 => NextSub(f).rc \in Codes
         /\ NextSub(f).sub # 0 => NextSub(f).sub \in 1 .. Len(f.subs) /\ (f.op = "if" => f.i + 1 <= 2)
<1>1. f \in FrameT /\ f.i \in Nat /\ f.rc \in Codes
  BY DEF Handlers, FrameT
<1>2. \A rc \in Codes : Return(rc).sub = 0 /\ Return(rc).rc \in Codes
  BY DEF Return
<1>3. \A k \in Nat : Do(k).sub = k
  BY DEF Do
<1>4. "OK" \in Codes /\ "HARDWARE" \in Codes
  BY DEF Codes
<1>5. CASE f.op = "repeat"
  <2>1. NextSub(f) = RepeatNext(f) /\ Len(f.subs) = 1
    BY <1>5 DEF NextSub, Handlers
  <2> QED BY <1>2, <1>3, <1>4, <1>5, <2>1 DEF RepeatNext
<1>6. CASE f.op = "if"
  <2>1. NextSub(f) = IfNext(f) /\ Len(f.subs) \in {2, 3} /\ f.i \in 0 .. 2
    BY <1>6 DEF NextSub, Handlers
  <2>2. CASE f.i = 0
    <3>1. IfNext(f) = Do(1)
      BY <2>2 DEF IfNext
    <3> QED BY <1>3, <2>1, <2>2, <3>1
  <2>3. CASE f.i = 1 /\ f.rc = "OK"
    <3>1. IfNext(f) = Do(2)
      BY <2>3 DEF IfNext
    <3>2. NextSub(f).sub = 2
      BY <1>3, <2>1, <3>1
    <3>3. 2 \in 1 .. Len(f.subs)
      <4>1. \A m \in {2, 3} : 2 \in 1 .. m
        OBVIOUS
      <4>2. Len(f.subs) \in {2, 3}
        BY <2>1
      <4> QED BY <4>1, <4>2
    <3>4. f.i + 1 <= 2
      BY <2>3
    <3> QED BY <3>2, <3>3, <3>4
  <2>4. CASE f.i = 1 /\ f.rc # "OK"
    <3>1. IfNext(f) = IF Len(f.subs) = 3 THEN Do(3) ELSE Return("OK")
      BY <2>4 DEF IfNext
    <3> QED BY <1>2, <1>3, <1>4, <2>1, <2>4, <3>1
  <2>5. CASE f.i = 2
    <3>1. IfNext(f) = Return(f.rc)
      BY <2>5 DEF IfNext
    <3> QED BY <1>1, <1>2, <2>1, <3>1
  <2> QED BY <2>1, <2>2, <2>3, <2>4, <2>5
<1>7. CASE f.op = "while"
  <2>1. NextSub(f) = WhileNext(f) /\ Len(f.subs) = 2
    BY <1>7 DEF NextSub, Handlers
  <2>2. CASE f.i % 2 = 1
    <3>1. WhileNext(f) = IF f.rc = "OK" THEN Do(2) ELSE Return("OK")
      BY <2>2 DEF WhileNext
    <3> QED BY <1>2, <1>3, <1>4, <1>7, <2>1, <3>1
  <2>3. CASE f.i % 2 = 0
    <3>1. WhileNext(f) = IF Bails(f) \/ f.i = 2 * WhileMax THEN Return("HARDWARE") ELSE Do(1)
      BY <2>3 DEF WhileNext
    <3> QED BY <1>2, <1>3, <1>4, <1>7, <2>1, <3>1
  <2> QED BY <1>1, <2>2, <2>3
<1> QED BY <1>5, <1>6, <1>7 DEF Loops

LEMMA LoopStepKeeps ==
  ASSUME ShellIs, Overlaps, stack # <<>>, LoopStep
  PROVE  ShellIs'
<1> DEFINE n == NextSub(Top)
<1>1. Top.op \in Loops /\ Top.op # "run"
  BY DEF LoopStep, Loops
<1>2. Top \in Handlers /\ Top.shell \in ShellIds /\ Top.subs \in Seq(Commands) /\ StackOK
  BY TopIs DEF ShellIs
<1>3. /\ n.sub = 0 => n.rc \in Codes
      /\ n.sub # 0 => n.sub \in 1 .. Len(Top.subs) /\ (Top.op = "if" => Top.i + 1 <= 2)
  BY <1>1, <1>2, NextSubIs
<1>4. CASE n.sub = 0
  <2>1. Finish(Below, n.rc) /\ UNCHANGED <<runVars, capVars, flashVars>> /\ n.rc \in Codes
    BY <1>3, <1>4 DEF LoopStep
  <2> HIDE DEF n
  <2> QED BY <1>1, <2>1, MeantKept, PopKeeps
<1>5. CASE n.sub # 0
  <2>1. PICK c \in {Top.subs[n.sub]} \cup (IF Top.intact THEN {} ELSE Strays) : Dispatch(Top.shell, c, Counted(stack))
    BY <1>5 DEF LoopStep
  <2>2. Top.subs[n.sub] \in Commands
    BY <1>2, <1>3, <1>5, ElementOfSeq
  <2>3. c \in Commands
    BY <2>1, <2>2, ShellAssumption
  <2>4. Like(Counted(stack), stack)
    BY <1>2, <1>3, <1>5, CountedIs
  <2> QED BY <1>2, <2>1, <2>3, <2>4, DispatchKeeps
<1> QED BY <1>4, <1>5

LEMMA RunLineKeeps ==
  ASSUME ShellIs, Overlaps, stack # <<>>, RunLine
  PROVE  ShellIs'
<1> DEFINE same == slots[Top.slot] = Header(Top.name, Top.text, TRUE)
<1>1. /\ StackOK /\ Top.shell \in ShellIds /\ Top.i \in Nat /\ Top.text \in Seq(Words)
      /\ Top.op = "run" /\ Top.i < Len(Top.text)
  BY TopIs DEF ShellIs, RunLine
<1>2. PICK c \in IF same THEN {Top.text[Top.i + 1]} ELSE Strays : Dispatch(Top.shell, c, Clobbered(Counted(stack)))
  BY DEF RunLine, DispatchLine
<1>3. Top.text[Top.i + 1] \in Words
  <2>1. Len(Top.text) \in Nat
    BY <1>1, LenProperties
  <2>2. Top.i + 1 \in 1 .. Len(Top.text)
    BY <1>1, <2>1
  <2> QED BY <1>1, <2>2, ElementOfSeq
<1>4. c \in Commands
  BY <1>2, <1>3, ShellAssumption
<1>5. Like(Counted(stack), stack)
  BY <1>1, CountedIs
<1>6. Like(Clobbered(Counted(stack)), stack)
  BY <1>5, ClobberedIs, LikeTwice DEF Like
<1> QED BY <1>1, <1>2, <1>4, <1>6, DispatchKeeps

\* The run that ends is the only one: g_running, the script and its frame go with it.
LEMMA RunEndsKeeps ==
  ASSUME ShellIs, Overlaps, stack # <<>>, RunEnds
  PROVE  ShellIs'
<1> DEFINE n == Len(stack)
<1>1. /\ Top.op = "run" /\ running' = FALSE /\ open' = FALSE /\ PopArgs
      /\ Finish(Below, "OK") /\ UNCHANGED <<capVars, flashVars>>
  BY DEF RunEnds
<1>2. /\ StackOK' /\ n \in Nat \ {0}
      /\ \A k \in 1 .. n - 1 : Same(stack'[k], stack[k])
      /\ Runs' = Runs \ {n} /\ Fetches' = Fetches \ {n}
  BY <1>1, PlacesPopped DEF ShellIs, Codes
<1>3. n \in Runs /\ n \notin Fetches
  BY <1>1, TopIs DEF ShellIs
<1>4. Runs = {n} /\ args = <<stack[n].name>> /\ StackDepth \in Nat
  BY <1>3, ShellAssumption DEF ShellIs, RunOK, RunIsBalanced
<1>5. args' = <<>>
  <2>1. args # <<>> /\ Len(args) = 1
    BY <1>4
  <2>2. args' = SubSeq(args, 1, Len(args) - 1)
    BY <1>1, <2>1 DEF PopArgs
  <2>3. Len(args) - 1 = 0
    BY <2>1
  <2> QED BY <1>4, <2>2, <2>3, EmptySeq
<1>6. RunOK'
  <2>1. Len(<< >>) = 0 /\ <<>> \in Seq(Names)
    BY EmptySeq
  <2>2. Runs' = {}
    BY <1>2, <1>4
  <2>3. args' \in Seq(Names) /\ Len(args') <= StackDepth
    BY <1>4, <1>5, <2>1
  <2> QED BY <1>1, <1>5, <2>2, <2>3 DEF RunOK, RunIsBalanced
<1>7. \A j \in Fetches' : j \in Fetches /\ stack'[j].text = stack[j].text
  <2> TAKE j \in Fetches'
  <2>1. j \in Fetches /\ j # n
    BY <1>2
  <2>2. j \in 1 .. n - 1
    BY <1>2, <2>1 DEF Fetches
  <2> QED BY <1>2, <2>1, <2>2 DEF Same
<1>8. CapOK' /\ BufOK' /\ Faithful'
  BY <1>1, <1>7, BufKept DEF ShellIs
<1> QED BY <1>1, <1>2, <1>6, <1>8, FlashKept DEF ShellIs

LEMMA GoesOnKeeps ==
  ASSUME ShellIs, Overlaps, GoesOn
  PROVE  ShellIs'
<1>1. stack # <<>>
  BY DEF GoesOn
<1>2. CASE SleepEnds
  <2>1. Top.op # "run" /\ Finish(Below, "OK") /\ UNCHANGED <<runVars, capVars, flashVars>> /\ "OK" \in Codes
    BY <1>2 DEF SleepEnds, Codes
  <2> QED BY <1>1, <2>1, MeantKept, PopKeeps
<1> QED BY <1>1, <1>2, FetchEndsKeeps, LoopStepKeeps, RunLineKeeps, RunEndsKeeps DEF GoesOn

\* A chunk goes to the end of the transfer's text; the transfer is the buffer's only user,
\* unless the buffer has been mixed up by then.
LEMMA FetchChunkKeeps ==
  ASSUME ShellIs, Overlaps, stack # <<>>, NEW w \in Words, FetchChunk(w)
  PROVE  ShellIs'
<1> DEFINE L == Len(stack)
           n == Len(Top.text) + 1
           g == [stack[L] EXCEPT !.text = Append(@, w)]
<1>1. /\ Top.op = "fetch" /\ Len(Top.text) < BodyMax
      /\ buf' = [buf EXCEPT ![n] = w]
      /\ stack' = [stack EXCEPT ![L] = g]
      /\ UNCHANGED <<running, open, args, capturing, cap, typed, slots, wanted>>
  BY DEF FetchChunk, RoomForChunk, runVars, flashVars
<1>2. /\ StackOK /\ L \in Nat \ {0} /\ L \in Fetches /\ Top = stack[L] /\ Top \in Handlers
      /\ Top.text \in Seq(Words)
  BY <1>1, TopIs DEF ShellIs
<1>3. /\ Append(Top.text, w) \in Seq(Words) /\ Len(Append(Top.text, w)) = n /\ n \in 1 .. BodyMax
      /\ \A k \in 1 .. n : Append(Top.text, w)[k] = IF k < n THEN Top.text[k] ELSE w
  BY <1>1, <1>2, AppendAt, SlotAssumption
<1>4. g \in Handlers /\ g.op = "fetch" /\ g.name = stack[L].name /\ g.text = Append(Top.text, w)
  <2> DEFINE f == stack[L]
             x == Append(f.text, w)
  <2>1. f \in Handlers /\ f.op = "fetch" /\ f \in FrameT
    BY <1>1, <1>2 DEF Handlers
  <2>2. x \in Seq(Words) /\ Len(x) <= BodyMax /\ x = Append(Top.text, w)
    BY <1>2, <1>3, SlotAssumption
  <2>3. g = [f EXCEPT !.text = x]
    OBVIOUS
  <2> HIDE DEF f, x
  <2>4. [f EXCEPT !.text = x] \in FrameT /\ [f EXCEPT !.text = x].op = f.op
        /\ [f EXCEPT !.text = x].name = f.name /\ [f EXCEPT !.text = x].text = x
    BY <2>1, <2>2 DEF FrameT
  <2>5. [f EXCEPT !.text = x] \in Handlers
    BY <2>1, <2>2, <2>4 DEF Handlers
  <2> QED BY <2>1, <2>2, <2>3, <2>4, <2>5 DEF f
<1> HIDE DEF g
<1>5. /\ stack' \in Seq(Handlers) /\ Len(stack') = L
      /\ \A k \in 1 .. L : stack'[k] = IF k = L THEN g ELSE stack[k]
  BY <1>1, <1>2, <1>4, ExceptSeq DEF StackOK
<1>6. Runs' = Runs /\ Fetches' = Fetches /\ \A k \in Runs : stack'[k].name = stack[k].name
  BY <1>1, <1>2, <1>4, <1>5 DEF Runs, Fetches
<1>7. StackOK' /\ RunOK' /\ FlashOK'
  BY <1>1, <1>5, <1>6, RunKept, FlashKept DEF StackOK, ShellIs, runVars, flashVars
<1>8. CapOK'
  BY <1>1 DEF ShellIs, CapOK, OneCapture
<1>9. /\ buf' \in [1 .. BodyMax -> Words \cup {Absent}] /\ buf'[n] = w
      /\ \A k \in 1 .. BodyMax \ {n} : buf'[k] = buf[k]
  BY <1>1, <1>3 DEF ShellIs, BufOK
<1>10. /\ stack'[L].text = Append(Top.text, w)
       /\ \A j \in Fetches \ {L} : stack'[j].text = stack[j].text
  BY <1>2, <1>4, <1>5 DEF Fetches
<1>11. \A j \in Fetches : Len(stack[j].text) \in Nat /\ Len(stack[j].text) <= BodyMax
  BY <1>2, FetchFits
<1>12. cap.len \in 0 .. BodyMax /\ BodyMax \in Nat
  BY SlotAssumption DEF ShellIs, CapOK
<1>13. \A k \in 1 .. n : k = n \/ (k < n /\ k \in 1 .. Len(stack[L].text))
  BY <1>2, <1>3, <1>11
<1> HIDE DEF n
<1>14. BufOK'
  <2>1. ASSUME NEW k \in 1 .. BodyMax, buf[k] \in Words PROVE buf'[k] \in Words
    BY <1>9, <2>1
  <2>2. \A k \in 1 .. cap.len : buf'[k] \in Words
    BY <1>12, <2>1 DEF ShellIs, BufOK
  <2>3. ASSUME NEW j \in Fetches, NEW k \in 1 .. Len(stack'[j].text) PROVE buf'[k] \in Words
    <3>1. CASE j = L
      <4>1. k \in 1 .. n
        BY <1>3, <1>10, <2>3, <3>1
      <4>2. k = n \/ buf[k] \in Words
        BY <1>2, <1>13, <4>1 DEF ShellIs, BufOK
      <4>3. k \in 1 .. BodyMax
        BY <1>3, <1>12, <4>1
      <4> QED BY <1>9, <2>1, <4>2, <4>3
    <3>2. CASE j # L
      <4>1. k \in 1 .. Len(stack[j].text)
        BY <1>10, <2>3, <3>2
      <4>2. k \in 1 .. BodyMax /\ buf[k] \in Words
        BY <1>11, <1>12, <2>3, <4>1 DEF ShellIs, BufOK
      <4> QED BY <2>1, <4>2
    <3> QED BY <3>1, <3>2
  <2> QED BY <1>1, <1>6, <1>9, <2>2, <2>3 DEF BufOK
<1>15. Faithful'
  <2> SUFFICES ASSUME ~mixed' PROVE Faithful'
    BY DEF Faithful
  <2>1. ~mixed /\ ~Overlap /\ ~Overlap'
    BY DEF Overlaps, ShellIs, Faithful
  <2>2. ~cap.taken /\ Fetches = {L}
    <3>1. L \in BufUsers /\ Fetches \subseteq BufUsers /\ (cap.taken => 0 \in BufUsers)
      BY <1>2 DEF BufUsers
    <3> QED BY <1>2, <2>1, <3>1 DEF Overlap
  <2>3. \A k \in 1 .. n : buf'[k] = stack'[L].text[k]
    <3> TAKE k \in 1 .. n
    <3>1. CASE k = n
      BY <1>3, <1>9, <1>10, <3>1
    <3>2. CASE k # n
      <4>1. k < n /\ k \in 1 .. Len(stack[L].text)
        BY <1>13, <3>2
      <4>2. buf[k] = stack[L].text[k]
        BY <1>2, <2>1, <4>1 DEF ShellIs, Faithful
      <4>3. k \in 1 .. BodyMax
        BY <1>2, <1>11, <1>12, <4>1
      <4>4. stack'[L].text[k] = Top.text[k]
        BY <1>3, <1>10, <4>1
      <4> QED BY <1>2, <1>9, <3>2, <4>2, <4>3, <4>4
    <3> QED BY <3>1, <3>2
  <2>4. Len(stack'[L].text) = n
    BY <1>3, <1>10
  <2>5. Meant'
    BY <1>1, <2>1 DEF ShellIs, Faithful, Meant
  <2>6. ~cap'.taken
    BY <1>1, <2>2
  <2> QED BY <1>6, <2>1, <2>2, <2>3, <2>4, <2>5, <2>6 DEF Faithful
<1> QED BY <1>7, <1>8, <1>14, <1>15 DEF ShellIs

-----------------------------------------------------------------------------
(* The shells: theorems *)

\* The line buffer, and what only counts or remembers
Counts == lines \in 0 .. MaxLines /\ mixed \in BOOLEAN /\ held \in BOOLEAN

LEMMA ShellStarts ==
  ASSUME Init
  PROVE  ShellIs /\ Counts
<1>1. /\ stack = <<>> /\ held = FALSE /\ running = FALSE /\ open = FALSE /\ args = <<>>
      /\ capturing = [s \in ShellIds |-> FALSE]
      /\ cap = [taken |-> FALSE, name |-> Absent, len |-> 0]
      /\ buf = [k \in 1 .. BodyMax |-> Absent]
      /\ slots \in Stored
      /\ lines = 0 /\ typed = <<>> /\ mixed = FALSE
      /\ wanted = [n \in Names |-> Loaded(slots, n)]
  BY DEF Init
<1>2. BodyMax \in Nat /\ StackDepth \in Nat /\ MaxLines \in Nat /\ Len(<< >>) = 0
  BY SlotAssumption, ShellAssumption
<1>3. Runs = {} /\ Fetches = {}
  BY <1>1, <1>2 DEF Runs, Fetches
<1>4. StackOK /\ RunOK
  <2>1. <<>> \in Seq(Handlers) /\ <<>> \in Seq(Names)
    BY EmptySeq
  <2>2. Len(args) <= StackDepth
    BY <1>1, <1>2
  <2> QED BY <1>1, <1>3, <2>1, <2>2 DEF StackOK, RunOK, RunIsBalanced
<1>5. cap \in [taken : BOOLEAN, name : Names \cup {Absent}, len : 0 .. BodyMax] /\ ~cap.taken /\ cap.len = 0
  BY <1>1, <1>2
<1>6. CapOK
  BY <1>1, <1>5, EmptySeq DEF CapOK, OneCapture
<1>7. BufOK
  BY <1>1, <1>3, <1>5 DEF BufOK
<1>8. FlashOK
  <2>1. /\ slots \in Table
        /\ \A n \in Names, i, j \in Slots :
             Valid(slots, i) /\ slots[i].name = n /\ Valid(slots, j) /\ slots[j].name = n => i = j
    BY <1>1, ShellAssumption DEF Table
  <2>2. Unique(slots)
    BY <2>1 DEF Unique, Carries
  <2> QED BY <1>1, <2>1, <2>2 DEF FlashOK
<1>9. Faithful
  <2>1. BufUsers = {}
    BY <1>3, <1>5 DEF BufUsers
  <2>2. ~Overlap
    BY <2>1 DEF Overlap
  <2>3. Meant
    BY <1>1 DEF Meant
  <2> QED BY <1>3, <1>5, <2>2, <2>3 DEF Faithful
<1>10. Counts
  <2>1. lines \in 0 .. MaxLines
    BY <1>1, <1>2
  <2> QED BY <1>1, <2>1 DEF Counts
<1> QED BY <1>4, <1>6, <1>7, <1>8, <1>9, <1>10 DEF ShellIs

LEMMA ShellStutters ==
  ASSUME ShellIs, Counts, UNCHANGED vars
  PROVE  ShellIs' /\ Counts'
<1>1. UNCHANGED <<stack, held, running, open, args, capturing, cap, buf, typed, slots, wanted, lines, mixed>>
  BY DEF vars, runVars, capVars, flashVars
<1>2. Runs' = Runs /\ Fetches' = Fetches
  BY <1>1 DEF Runs, Fetches
<1>3. Overlap' <=> Overlap
  BY <1>1, <1>2 DEF Overlap, BufUsers
<1>4. StackOK' /\ RunOK' /\ FlashOK'
  BY <1>1, <1>2, StackStays, FlashKept DEF ShellIs, runVars, flashVars
<1>5. CapOK' /\ BufOK'
  BY <1>1, <1>2 DEF ShellIs, CapOK, OneCapture, BufOK
<1>6. Faithful'
  BY <1>1, <1>2, <1>3 DEF ShellIs, Faithful, Meant
<1>7. Counts'
  BY <1>1 DEF Counts
<1> QED BY <1>4, <1>5, <1>6, <1>7 DEF ShellIs

LEMMA EntersCounts ==
  ASSUME lines \in 0 .. MaxLines, NEW s, Enters(s)
  PROVE  lines' \in 0 .. MaxLines
BY ShellAssumption DEF Enters

LEMMA NextCounts ==
  ASSUME Counts, Next
  PROVE  Counts'
<1>1. lines' \in 0 .. MaxLines
  <2>1. (\E s \in ShellIds : Enters(s)) \/ UNCHANGED lines
    BY DEF Next, Input, Line, CaptureLine, CaptureEnds, CaptureGarbled, BleReset, GoesOn, Receives
  <2> QED BY <2>1, EntersCounts DEF Counts
<1>2. mixed' \in BOOLEAN
  BY DEF Next, Overlaps, CaptureGarbled
<1>3. held' \in BOOLEAN
  <2>1. CASE Input
    <3>1. ASSUME NEW s \in ShellIds, NEW c, Line(s, c) PROVE held' \in BOOLEAN
      <4>1. CASE s = "BLE"
        BY <3>1, <4>1 DEF Line
      <4>2. CASE s # "BLE"
        <5>1. held' = held
          BY <3>1, <4>2 DEF Line
        <5> QED BY <5>1 DEF Counts
      <4> QED BY <4>1, <4>2
    <3>2. ASSUME NEW s \in ShellIds, NEW w, CaptureLine(s, w) PROVE held' = held
      BY <3>2 DEF CaptureLine
    <3>3. ASSUME NEW s \in ShellIds, CaptureEnds(s) PROVE held' = held
      BY <3>3 DEF CaptureEnds
    <3> QED BY <2>1, <3>1, <3>2, <3>3 DEF Input, Counts
  <2>2. CASE BleReset
    BY <2>2 DEF BleReset
  <2>3. CASE GoesOn
    BY <2>3 DEF GoesOn, LineBuffer
  <2>4. CASE Receives
    BY <2>4 DEF Receives, Counts
  <2>5. CASE \E s \in ShellIds, w \in Words : CaptureGarbled(s, w)
    BY <2>5 DEF CaptureGarbled
  <2> QED BY <2>1, <2>2, <2>3, <2>4, <2>5 DEF Next
<1> QED BY <1>1, <1>2, <1>3 DEF Counts

LEMMA NextKeeps ==
  ASSUME ShellIs, Next
  PROVE  ShellIs'
<1>1. CASE Input /\ Overlaps
  <2>1. ASSUME NEW s \in ShellIds, NEW c \in Typed, Line(s, c) PROVE ShellIs'
    <3>1. c \in Commands
      BY ShellAssumption
    <3> QED BY <1>1, <2>1, <3>1, LineKeeps
  <2> QED BY <1>1, <2>1, CaptureLineKeeps, CaptureEndsKeeps DEF Input
<1>2. CASE BleReset /\ Overlaps
  BY <1>2, BleResetKeeps
<1>3. CASE GoesOn /\ Overlaps
  BY <1>3, GoesOnKeeps
<1>4. CASE Receives /\ Overlaps
  BY <1>4, FetchChunkKeeps DEF Receives
<1>5. CASE \E s \in ShellIds, w \in Words : CaptureGarbled(s, w)
  BY <1>5, CaptureGarbledKeeps
<1> QED BY <1>1, <1>2, <1>3, <1>4, <1>5 DEF Next

LEMMA ShellHolds == Spec => [](ShellIs /\ Counts)
<1>1. Init => ShellIs /\ Counts
  BY ShellStarts
<1>2. (ShellIs /\ Counts) /\ [Next]_vars => (ShellIs /\ Counts)'
  <2> SUFFICES ASSUME ShellIs, Counts, [Next]_vars PROVE ShellIs' /\ Counts'
    OBVIOUS
  <2>1. CASE Next
    BY <2>1, NextKeeps, NextCounts
  <2>2. CASE UNCHANGED vars
    BY <2>2, ShellStutters
  <2> QED BY <2>1, <2>2
<1> QED BY <1>1, <1>2, PTL DEF Spec

\* Between any two steps of the shells, whichever of their handlers are nested: captured
\* and transferred text fits in g_cap_buf, run's g_running, open script and argument frame
\* are held exactly while a run is on the stack, on every path through cmd_run.c, and at
\* most one shell captures.
THEOREM ShellsAreSound == Spec => []ShellInv
<1>1. ShellIs /\ Counts => ShellInv
  <2> SUFFICES ASSUME ShellIs, Counts PROVE ShellInv
    OBVIOUS
  <2>1. \A k \in Fetches : Len(stack[k].text) <= BodyMax
    BY FetchFits DEF ShellIs
  <2>2. running \in BOOLEAN /\ open \in BOOLEAN /\ args \in Seq(Names) /\ Len(args) <= StackDepth
    BY DEF ShellIs, RunOK, RunIsBalanced
  <2>3. /\ capturing \in [ShellIds -> BOOLEAN]
        /\ cap.taken \in BOOLEAN /\ cap.len \in 0 .. BodyMax
        /\ \A k \in 1 .. BodyMax : buf[k] \in Words \cup {Absent}
    BY DEF ShellIs, CapOK, BufOK
  <2>4. TypeOK
    BY <2>1, <2>2, <2>3 DEF TypeOK, Counts
  <2> QED BY <2>4 DEF ShellInv, ShellIs, RunOK, CapOK
<1> QED BY <1>1, ShellHolds, PTL

\* Unless two users of g_cap_buf overlapped or a line was garbled, script save and script
\* fetch store what was typed or sent, whole and in order, whatever other handlers ran in
\* between and whichever saves and removals the flash refused half-way.
THEOREM ScriptsAreAsMeant == Spec => []StoredAsMeant
<1>1. ShellIs => StoredAsMeant
  BY DEF ShellIs, Faithful, Meant, StoredAsMeant
<1> QED BY <1>1, ShellHolds, PTL
=============================================================================

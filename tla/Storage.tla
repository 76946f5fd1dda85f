------------------------------- MODULE Storage -------------------------------
(***************************************************************************)
(* The script store and the Wi-Fi credentials in flash, with refused flash *)
(* operations and power cuts at any step.  A call of scripts_save,         *)
(* scripts_remove, config_save_wifi or config_clear_wifi runs to its end   *)
(* without pumping the run loop, so calls never overlap.                   *)
(***************************************************************************)
EXTENDS ScriptSlots

CONSTANTS Creds, Blank, Torn, Nothing

ASSUME CredsAssumption == {Blank, Torn, Nothing} \cap Creds = {}

VARIABLES
  store,      \* the sectors of the script store
  call,       \* the scripts_save or scripts_remove under way
  sector, op  \* the sector of the credentials, and what is done to it

storageVars == <<store, call, sector, op>>
Config == INSTANCE FlashRecord WITH Values <- Creds

NoCall == [does |-> "nothing"]
Saving(i, n, b, at) == [does |-> "save", slot |-> i, name |-> n, body |-> b, at |-> at]
Removing(i, n) == [does |-> "remove", slot |-> i, name |-> n, at |-> "erase"]
Quiet == call = NoCall /\ op = Config!Idle

-----------------------------------------------------------------------------
(* scripts.c *)

\* slip: the length of the body is not checked
SaveAnyLength(n, b) ==
  LET i == TargetSlot(store, n) IN
  /\ Quiet /\ i # NoSlot
  /\ call' = Saving(i, n, b, "erase")
  /\ UNCHANGED <<store, sector, op>>

\* scripts_save up to its first flash operation; a full store or a body that does
\* not fit is refused with nothing touched.
ScriptSave(n, b) ==
  LET i == TargetSlot(store, n) IN
  /\ Quiet /\ Len(b) <= BodyMax /\ i # NoSlot
  /\ call' = Saving(i, n, b, "erase")
  /\ UNCHANGED <<store, sector, op>>

\* scripts_remove
ScriptRemove(n) ==
  /\ Quiet /\ FindByName(store, n) # NoSlot
  /\ call' = Removing(FindByName(store, n), n)
  /\ UNCHANGED <<store, sector, op>>

\* erase_slot
ScriptErase ==
  /\ call # NoCall /\ call.at = "erase"
  /\ store' = [store EXCEPT ![call.slot] = Erased]
  /\ call' = IF call.does = "save" THEN [call EXCEPT !.at = "program"] ELSE NoCall
  /\ UNCHANGED <<sector, op>>

\* program_slot
ScriptProgram ==
  /\ call # NoCall /\ call.at = "program"
  /\ store' = [store EXCEPT ![call.slot] = Header(call.name, call.body, TRUE)]
  /\ call' = NoCall
  /\ UNCHANGED <<sector, op>>

\* erase_slot or program_slot returns false.
ScriptRefused ==
  /\ call # NoCall /\ call' = NoCall
  /\ UNCHANGED <<store, sector, op>>

-----------------------------------------------------------------------------
(* config.c *)

\* wifi connect, once it has joined
WifiConnected == \E c \in Creds : Config!Save(c)

\* wifi forget
WifiForget == Config!Clear

ConfigStep ==
  /\ call = NoCall
  /\ WifiConnected \/ WifiForget \/ Config!RecordStep
  /\ UNCHANGED <<store, call>>

-----------------------------------------------------------------------------
(* Power *)

\* What an interrupted flash operation may leave in its sector, besides what was there
\* and what was to be there: no magic; or the magic with any body, which the CRC does
\* not match, under the name, or under a damaged one, which is taken to be nobody's:
\* such a slot is in use (find_free) until the sector is erased from outside.
Damaged(n) == {Header(name, b, FALSE) : name \in {n, Absent}, b \in Bodies}

LeftBehind ==
  IF call.at = "erase"
  THEN {store[call.slot], Erased}
       \cup (IF store[call.slot] = Erased THEN {} ELSE Damaged(store[call.slot].name))
  ELSE {Erased, Header(call.name, call.body, TRUE)} \cup Damaged(call.name)

PowerCut ==
  /\ call' = NoCall
  /\ Config!RecordCut
  /\ IF call = NoCall THEN UNCHANGED store
     ELSE \E s \in LeftBehind : store' = [store EXCEPT ![call.slot] = s]

StorageInit ==
  /\ store = [i \in Slots |-> Erased] /\ call = NoCall
  /\ Config!RecordInit

StorageNext ==
  \/ \E n \in Names : ScriptRemove(n) \/ \E b \in Bodies : ScriptSave(n, b)
  \/ ScriptErase \/ ScriptProgram \/ ScriptRefused
  \/ ConfigStep
  \/ PowerCut

StorageSpec == StorageInit /\ [][StorageNext]_storageVars

-----------------------------------------------------------------------------
(* Properties *)

Sectors ==
  {Erased} \cup {Header(n, b, ok) : n \in Names \cup {Absent}, b \in Bodies, ok \in BOOLEAN}

\* Types; no body that can be loaded is longer than SCRIPT_BODY_MAX.
StorageTypeOK ==
  /\ store \in [Slots -> Sectors]
  /\ \A i \in Slots : Valid(store, i) /\ store[i].sound => Len(store[i].body) <= BodyMax
  /\ call \in {NoCall} \cup {Removing(i, n) : i \in Slots, n \in Names}
          \cup {Saving(i, n, b, at) : i \in Slots, n \in Names, b \in Bodies,
                                      at \in {"erase", "program"}}
  /\ sector \in Creds \cup {Blank, Torn} /\ op \in Config!Ops

\* Whatever was torn or refused before, no two slots carry the same name, so the scan
\* of find_by_name (scripts.c:81-87) cannot shadow a good script with a bad one.
NamesUnique ==
  \A n \in Names : \A i, j \in Slots :
    (Valid(store, i) /\ Valid(store, j) /\ store[i].name = n /\ store[j].name = n) => i = j

\* What the flash holds between any two of its operations: no body longer than a load may
\* hand out, and no name twice.
StoreInv == StorageTypeOK /\ NamesUnique

\* The store keeps the promise of scripts.h: a call concerns its own name only, and
\* what a load returns was saved under that name, whole.
Promise == INSTANCE StorePromise WITH
  held <- [n \in Names |-> Loaded(store, n)],
  asked <- IF call = NoCall THEN <<>>
           ELSE <<call.name, IF call.does = "save" THEN call.body ELSE Absent>>
StoreKeepsPromise == Promise!Spec

\* What a load of the credentials gives changes only while they are being saved or cleared:
\* to nothing, or to the pair the save was called with; never to a mixture or an older pair.
CredentialsAreWhole ==
  [][\/ Config!Load' = Config!Load
     \/ op # Config!Idle /\ Config!Load' = Nothing
     \/ op # Config!Idle /\ op.does = "save" /\ Config!Load' = op.value]_storageVars
=============================================================================

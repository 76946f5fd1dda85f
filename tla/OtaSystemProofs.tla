-------------------------- MODULE OtaSystemProofs --------------------------
(***************************************************************************)
(* What OtaSystem.cfg checks on small slots, for every layout of  *)
(* the flash, every set of images and every number of boot attempts.       *)
(***************************************************************************)
EXTENDS OtaSystem, OtaStagingProofs

(* Where the processor can be while an application, or none, executes. *)
Placed ==
  /\ pc \in {"reset", "select", "jump", "bootsel", "hung"} => exec = NoSlot
  /\ pc \in {"start", "app", "confirmed", "told"} => exec \in Slots
  /\ pc \in {"erase", "program"} =>
       /\ after \in {"select", "jump", "confirmed", "told", "app", "reboot"}
       /\ after \in {"select", "jump"} => exec = NoSlot
       /\ after \in {"confirmed", "told", "app"} => exec \in Slots
  /\ exec \in Slots /\ pc # "start" => g_status.active_slot = exec
  /\ exec = NoSlot \/ pc = "start" =>
       /\ ~g_status.image_ready /\ ~g_status.update_in_progress
       /\ dl.at = "idle"
  /\ dl.at = "fetching" => job.file \in Files

(* The sector holds what was written, from then on until the jump. *)
Written ==
  /\ pc \in {"select", "jump", "reboot"} => meta = m
  /\ pc = "start" => meta # NoMeta
  /\ pc = "jump" => ~m.pending
  /\ (/\ pc \in {"erase", "program"}
      /\ after \in {"jump", "confirmed", "told", "app"}) => ~m.pending

(* TrialsAreCounted, also of the record on its way to the sector. *)
Counted ==
  /\ TrialsAreCounted
  /\ pc \in {"erase", "program"} /\ m.pending =>
       /\ trial[m.active] <= m.attempts
       /\ after = "select" => trial[m.active] < m.attempts
  /\ pc = "select" /\ m.pending => trial[m.active] < m.attempts

(* What is being downloaded, or is ready, was never booted. *)
StagedUntried ==
  g_status.update_in_progress \/ g_status.image_ready =>
    trial[g_status.staging_slot] = 0

(* Only an image that runs can be executing, or have been confirmed. *)
ConfirmedRuns ==
  /\ \A s \in Slots : trial[s] = Confirmed => Runs(s)
  /\ exec \in Slots => Runs(exec)

Base ==
  TypeOK /\ Placed /\ Written /\ Counted /\ StagedUntried /\ ConfirmedRuns

(* A record under which no boot is a gamble: a settled slot was confirmed,  *)
(* and one on probation has a confirmed image to return to.                 *)
Good(rec) ==
  IF rec.pending
    THEN /\ trial[rec.active] >= 0
         /\ trial[Other(rec.active)] = Confirmed
         /\ ~Mislinked(rec.active)
    ELSE trial[rec.active] = Confirmed

GoodRecord == meta # NoMeta => Good(meta)

(* The record on its way is as good, once the confirmation has counted. *)
GoodWrite ==
  pc \in {"erase", "program"} =>
    IF after \in {"confirmed", "told", "app"}
      THEN m.active = exec /\ (after = "app" => trial[exec] = Confirmed)
      ELSE Good(m)

(* Without a record the first image is the confirmed one. *)
FirstBoot ==
  meta = NoMeta /\ exec = NoSlot /\ pc # "program" => trial[0] = Confirmed

RecordNamesExec ==
  exec \in Slots /\ pc # "reboot" /\ meta # NoMeta => meta.active = exec

StagedBesideConfirmed ==
  g_status.update_in_progress \/ g_status.image_ready =>
    trial[g_status.active_slot] = Confirmed

(* What holds as long as no record was lost and the operator was careful. *)
Careful ==
  /\ GoodRecord /\ GoodWrite /\ FirstBoot /\ RecordNamesExec
  /\ StagedBesideConfirmed
  /\ ProbationIsBounded
  /\ pc # "bootsel"
  /\ pc = "hung" => m.pending

Inv == Base /\ (~Mishap => Careful)

-----------------------------------------------------------------------------
(* Data: only a slot's own cells decide whether it runs, and an image that  *)
(* runs has plausible vectors, which point into the slot it is in.          *)

LEMMA SameSlot ==
  ASSUME NEW s \in Slots, flash'[s] = flash[s]
  PROVE  Runs(s)' = Runs(s) /\ Mislinked(s)' = Mislinked(s)
  BY DEF Runs, Mislinked, Holds

LEMMA RunsLooksValid ==
  ASSUME NEW s \in Slots, Runs(s)
  PROVE  LooksValid(s) /\ ~Mislinked(s)
<1>1. PICK f \in Healthy : Holds(flash[s], Image(f)) /\ Link[f] = s
  BY DEF Runs
<1>2. Length[f] \in PageSize + 1 .. SlotSize /\ f \in Files
  BY BootAssumption
<1>3. PageSize \in Nat \ {0} /\ SlotSize \in Nat
  BY LayoutAssumption, SlotSizeNat
<1>4. PageSize \in Offsets /\ PageSize < Length[f] /\ PageSize + 1 \in 1 .. Length[f]
  BY <1>2, <1>3 DEF Offsets
<1>5. Len(Image(f)) = Length[f]
  BY <1>2, <1>3 DEF Image
<1>6. flash[s][PageSize] = <<f, PageSize + 1>>
  BY <1>1, <1>4, <1>5 DEF Holds, Image
<1>7. <<f, PageSize + 1>> \in Byte \ {FF}
  BY <1>2, <1>4, SystemAssumption
<1>8. \A g : <<g, PageSize + 1>> = <<f, PageSize + 1>> => g = f
  OBVIOUS
<1> QED BY <1>1, <1>6, <1>7, <1>8 DEF LooksValid, Mislinked

(* A piece of an image is a sequence of bytes. *)
LEMMA PieceType ==
  ASSUME NEW f \in Files, NEW a \in Nat, NEW n \in Nat \ {0},
         a + n <= Length[f]
  PROVE  SubSeq(Image(f), a + 1, a + n) \in Seq(Byte)
<1>1. Length[f] \in Nat
  BY BootAssumption, LayoutAssumption, SlotSizeNat
<1>2. \A i \in 1 .. Length[f] : Image(f)[i] \in Byte
  BY SystemAssumption DEF Image
<1>3. Image(f) \in [1 .. Length[f] -> Byte]
  BY <1>2 DEF Image
<1>4. Image(f) \in Seq(Byte) /\ Len(Image(f)) = Length[f]
  BY <1>1, <1>3 DEF Image
<1> QED BY <1>1, <1>4, SubSeqProperties

-----------------------------------------------------------------------------
(* Base: what holds whatever happens to the device. *)

BootTypeOK ==
  /\ meta \in Record \cup {NoMeta}
  /\ m \in Record
  /\ pc \in PCs
  /\ after \in PCs
  /\ exec \in Slots \cup {NoSlot}
  /\ trial \in [Slots -> Confirmed .. MaxAttempts + 1]

(* A step that starts to write `rec` keeps Base, if rec is counted already. *)
LEMMA WriteBase ==
  ASSUME Base, NEW rec \in Record, NEW then \in PCs,
         StartWrite(rec, then), UNCHANGED <<flash, meta, exec, trial>>,
         then \in {"select", "jump", "confirmed", "told", "app", "reboot"},
         then \in {"select", "jump"} => exec = NoSlot,
         then \in {"confirmed", "told", "app"} => exec \in Slots,
         then \in {"jump", "confirmed", "told", "app"} => ~rec.pending,
         rec.pending => /\ trial[rec.active] <= rec.attempts
                        /\ then = "select" => trial[rec.active] < rec.attempts
  PROVE  /\ BootTypeOK' /\ Written' /\ Counted' /\ ConfirmedRuns'
         /\ pc' = "erase" /\ m' = rec /\ after' = then
<1>1. pc' = "erase" /\ m' = rec /\ after' = then
  BY DEF StartWrite
<1>2. BootTypeOK'
  BY <1>1 DEF BootTypeOK, Base, TypeOK, PCs
<1>3. Written'
  BY <1>1 DEF Written
<1>4. Counted'
  BY <1>1 DEF Counted, TrialsAreCounted, Base
<1>5. ConfirmedRuns'
  BY SameSlot DEF ConfirmedRuns, Base
<1> QED BY <1>1, <1>2, <1>3, <1>4, <1>5

(* The same for Placed, when the rest of RAM stays as it is. *)
LEMMA WritePlaced ==
  ASSUME Base, pc' = "erase", exec' = exec, pc # "start",
         UNCHANGED <<g_status, dl, job>>,
         after' \in {"select", "jump", "confirmed", "told", "app", "reboot"},
         after' \in {"select", "jump"} => exec = NoSlot,
         after' \in {"confirmed", "told", "app"} => exec \in Slots
  PROVE  Placed'
  BY DEF Base, Placed

LEMMA JumpBase ==
  ASSUME Base, NEW s \in Slots, Jump(s), s = m.active,
         pc \in {"select", "jump"}, UNCHANGED <<ramVars, auto, job, hist>>
  PROVE  BootTypeOK' /\ Placed' /\ Written' /\ Counted' /\ ConfirmedRuns'
<1>1. /\ flash' = flash /\ meta' = meta /\ m' = m /\ after' = after
      /\ pc' \in {"start", "hung"}
      /\ trial' = [trial EXCEPT ![s] =
                     IF trial[s] \in {Confirmed, MaxAttempts + 1}
                       THEN trial[s] ELSE trial[s] + 1]
  BY DEF Jump
<1>2. exec = NoSlot /\ meta = m /\ m \in Record /\ meta # NoMeta
  <2>1. meta = m /\ m \in Record /\ exec = NoSlot
    BY DEF Base, Placed, Written, TypeOK
  <2> QED BY <2>1, BootAssumption
<1>3. trial'[s] \in Confirmed .. MaxAttempts + 1
      /\ (trial'[s] = Confirmed => trial[s] = Confirmed)
      /\ trial'[s] <= trial[s] + 1
  BY <1>1, BootAssumption DEF Base, TypeOK, Confirmed
<1>4. BootTypeOK'
  BY <1>1, <1>3 DEF BootTypeOK, Base, TypeOK, Jump, PCs, Slots, Other
<1>5. Placed'
  BY <1>1, <1>2, BootAssumption
     DEF Base, TypeOK, Placed, Jump, ramVars, Slots, Other
<1>6. Written'
  BY <1>1, <1>2 DEF Written
<1>7. Counted'
  <2>1. meta.pending => trial[s] < meta.attempts
    BY <1>2 DEF Base, Counted, Written
  <2>2. meta.pending => trial'[s] <= meta.attempts
    BY <1>1, <1>2, <2>1, BootAssumption DEF Base, TypeOK, Confirmed, Record
  <2> QED BY <1>1, <1>2, <2>2 DEF Counted, TrialsAreCounted
<1>8. ConfirmedRuns'
  <2>1. \A t \in Slots : trial'[t] = Confirmed => trial[t] = Confirmed
    BY <1>1, <1>3 DEF Base, TypeOK
  <2>2. \A t \in Slots : Runs(t)' = Runs(t)
    BY <1>1, SameSlot
  <2>3. exec' \in Slots => Runs(exec')
    BY <1>2, BootAssumption DEF Jump, Slots, Other
  <2>4. exec' \in Slots => Runs(exec)'
    BY <2>2, <2>3, <1>1 DEF Runs
  <2> QED BY <2>1, <2>2, <2>4 DEF ConfirmedRuns, Base
<1> QED BY <1>4, <1>5, <1>6, <1>7, <1>8

(* A step that leaves the application's RAM alone and, unless none executes, *)
(* the trials of the other slot.                                             *)
LEMMA RamKept ==
  ASSUME Base, UNCHANGED <<flash, ramVars, auto, job, hist>>,
         exec \in Slots /\ pc # "start" => trial'[Other(exec)] = trial[Other(exec)]
  PROVE  /\ StagingTypeOK' /\ StagedUntried'
         /\ \A s \in Slots : Runs(s)' = Runs(s)
         /\ BootTypeOK' => TypeOK'
<1>1. StagingTypeOK'
  BY DEF Base, TypeOK, StagingTypeOK, ramVars, uploadVars
<1>2. StagedUntried'
  BY DEF Base, TypeOK, StagingTypeOK, Placed, StagedUntried, ramVars
<1>3. \A s \in Slots : Runs(s)' = Runs(s)
  BY SameSlot
<1>4. BootTypeOK' => TypeOK'
  BY <1>1 DEF TypeOK, BootTypeOK, Base
<1> QED BY <1>1, <1>2, <1>3, <1>4

LEMMA MetaBase ==
  ASSUME Base, MetaErase \/ MetaProgram, UNCHANGED <<ramVars, auto, job, hist>>
  PROVE  Base'
<1>1. CASE MetaErase
  <2>1. /\ UNCHANGED <<flash, ramVars, auto, job, hist, trial, m, after, exec>>
        /\ pc = "erase" /\ pc' = "program" /\ meta' = NoMeta
    BY <1>1 DEF MetaErase
  <2>2. BootTypeOK'
    BY <2>1 DEF BootTypeOK, Base, TypeOK, PCs
  <2>3. Placed'
    BY <2>1 DEF Placed, Base, ramVars
  <2>4. Written' /\ Counted'
    BY <2>1 DEF Written, Counted, TrialsAreCounted, Base
  <2>5. ConfirmedRuns'
    BY <2>1, RamKept DEF ConfirmedRuns, Base, Runs
  <2> QED BY <2>1, <2>2, <2>3, <2>4, <2>5, RamKept DEF Base
<1>2. CASE MetaProgram
  <2>1. /\ UNCHANGED <<flash, ramVars, auto, job, hist, m, after, exec>>
        /\ pc = "program" /\ pc' = after /\ meta' = m
        /\ m \in Record /\ m # NoMeta
    BY <1>2, BootAssumption DEF MetaProgram, Base, TypeOK
  <2>2. after \in {"select", "jump", "confirmed", "told", "app", "reboot"}
    BY <2>1 DEF Base, Placed
  <2>3. /\ exec \in Slots => trial'[Other(exec)] = trial[Other(exec)]
        /\ trial' \in [Slots -> Confirmed .. MaxAttempts + 1]
        /\ \A s \in Slots : \/ trial'[s] = trial[s]
                            \/ (trial'[s] = Confirmed /\ s = exec)
    <3>1. trial \in [Slots -> Confirmed .. MaxAttempts + 1]
      BY DEF Base, TypeOK
    <3>2. trial' = trial \/ trial' = [trial EXCEPT ![exec] = Confirmed]
      BY <1>2 DEF MetaProgram
    <3>3. Confirmed \in Confirmed .. MaxAttempts + 1
      BY BootAssumption DEF Confirmed
    <3>4. \A s \in Slots : s # Other(s) /\ Other(s) \in Slots
      BY DEF Slots, Other
    <3>5. CASE trial' = trial
      <4>1. trial' \in [Slots -> Confirmed .. MaxAttempts + 1]
        BY <3>1, <3>5, Zenon
      <4>2. \A s : trial'[s] = trial[s]
        BY <3>5, Zenon
      <4> QED BY <4>1, <4>2, Zenon
    <3>6. CASE trial' = [trial EXCEPT ![exec] = Confirmed]
      <4>1. /\ DOMAIN trial' = Slots
            /\ \A s \in Slots : trial'[s] = IF s = exec THEN Confirmed ELSE trial[s]
        BY <3>1, <3>6
      <4>2. trial' \in [Slots -> Confirmed .. MaxAttempts + 1]
        <5>1. \A s \in Slots : trial'[s] \in Confirmed .. MaxAttempts + 1
          BY <3>1, <3>3, <4>1
        <5>2. trial' = [s \in Slots |-> trial'[s]]
          BY <3>1, <3>6
        <5> QED BY <5>1, <5>2
      <4>3. \A s \in Slots : \/ trial'[s] = trial[s]
                            \/ (trial'[s] = Confirmed /\ s = exec)
        BY <4>1, Zenon
      <4>4. exec \in Slots => trial'[Other(exec)] = trial[Other(exec)]
        BY <3>4, <4>1, Zenon
      <4> QED BY <4>2, <4>3, <4>4, Zenon
    <3> QED BY <3>2, <3>5, <3>6
  <2>4. BootTypeOK'
    BY <2>1, <2>2, <2>3 DEF BootTypeOK, Base, TypeOK, PCs
  <2>5. Placed'
    BY <2>1, <2>2 DEF Placed, Base, ramVars
  <2>6. Written'
    BY <2>1, <2>2 DEF Written, Base
  <2>7. Counted'
    <3>1. m.pending => trial'[m.active] <= m.attempts
      BY <2>1, <2>3 DEF Counted, Base, TypeOK, Record, Confirmed
    <3>2. after = "select" /\ m.pending => trial'[m.active] < m.attempts
      BY <2>1, <2>3 DEF Counted, Base, TypeOK, Record, Confirmed
    <3> QED BY <2>1, <2>2, <3>1, <3>2 DEF Counted, TrialsAreCounted
  <2>8. \A s \in Slots : Runs(s)' = Runs(s)
    BY <2>1, SameSlot
  <2>9. ConfirmedRuns'
    BY <2>1, <2>3, <2>8 DEF ConfirmedRuns, Base, Runs
  <2> QED BY <2>1, <2>3, <2>4, <2>5, <2>6, <2>7, <2>9, RamKept DEF Base
<1> QED BY <1>1, <1>2

(* The bootloader writes a counted record and goes on. *)
LEMMA BootWriteBase ==
  ASSUME Base, NEW rec \in Record, NEW then \in {"select", "jump", "reboot"},
         StartWrite(rec, then), exec = NoSlot, pc # "start",
         UNCHANGED <<flash, meta, exec, trial, ramVars, auto, job, hist>>,
         then = "jump" => ~rec.pending,
         rec.pending => /\ trial[rec.active] <= rec.attempts
                        /\ then = "select" => trial[rec.active] < rec.attempts
  PROVE  Base'
<1>1. then \in PCs /\ then \notin {"confirmed", "told", "app"}
  BY DEF PCs
<1>2. /\ BootTypeOK' /\ Written' /\ Counted' /\ ConfirmedRuns'
      /\ pc' = "erase" /\ m' = rec /\ after' = then
  BY <1>1, WriteBase
<1>3. Placed'
  BY <1>2, <1>1, WritePlaced DEF ramVars
<1> QED BY <1>2, <1>3, RamKept DEF Base

LEMMA BootloaderBase ==
  ASSUME Base, Bootloader, UNCHANGED <<ramVars, auto, job, hist>>
  PROVE  Base'
<1>1. /\ m \in Record /\ meta \in Record \cup {NoMeta}
      /\ trial \in [Slots -> Confirmed .. MaxAttempts + 1]
  BY DEF Base, TypeOK
<1>2. \A s \in Slots : Fresh(s) \in Record /\ ~Fresh(s).pending
  BY BootAssumption DEF Fresh, Record
<1>3. \A r \in Record : /\ r.active \in Slots /\ Other(r.active) \in Slots
                        /\ Flipped(r) \in Record /\ ~Flipped(r).pending
  BY <1>2 DEF Record, Slots, Other, Flipped
<1>4. CASE BootFresh
  BY <1>2, <1>4, BootWriteBase DEF BootFresh, Slots, Base, Placed
<1>5. CASE Rollback
  BY <1>1, <1>3, <1>5, BootWriteBase DEF Rollback, Base, Placed
<1>6. CASE FallBack
  BY <1>1, <1>3, <1>6, BootWriteBase DEF FallBack, Base, Placed
<1>7. CASE CountAttempt
  <2> DEFINE rec == [meta EXCEPT !.attempts = @ + 1]
  <2>1. /\ pc = "reset" /\ meta \in Record /\ meta.pending
        /\ ~(meta.attempts >= MaxAttempts) /\ StartWrite(rec, "select")
        /\ UNCHANGED <<flash, meta, exec, trial>>
    BY <1>1, <1>7 DEF CountAttempt, Exhausted
  <2>2. rec \in Record /\ rec.active = meta.active /\ rec.attempts = meta.attempts + 1
    BY <2>1, BootAssumption DEF Record
  <2>3. trial[meta.active] <= meta.attempts
    BY <2>1, BootAssumption DEF Base, Counted, TrialsAreCounted
  <2>4. trial[rec.active] <= rec.attempts /\ trial[rec.active] < rec.attempts
    BY <1>1, <1>3, <2>1, <2>2, <2>3 DEF Confirmed, Record
  <2> HIDE DEF rec
  <2> QED BY <2>1, <2>2, <2>4, BootWriteBase DEF Base, Placed
<1>8. CASE BootSettled
  <2>1. /\ pc = "reset" /\ meta \in Record /\ ~meta.pending /\ m' = meta
        /\ pc' = "select"
        /\ UNCHANGED <<flash, meta, after, exec, trial>>
    BY <1>1, <1>8 DEF BootSettled
  <2>2. BootTypeOK' /\ Placed' /\ Written' /\ Counted'
    BY <2>1 DEF BootTypeOK, Placed, Written, Counted, TrialsAreCounted, Base,
                TypeOK, PCs, ramVars
  <2>3. ConfirmedRuns'
    BY <2>1, RamKept DEF ConfirmedRuns, Base, Runs
  <2> QED BY <2>1, <2>2, <2>3, RamKept DEF Base
<1>9. CASE BootNothing \/ SelectNothing
  <2>1. /\ pc \in {"reset", "select"} /\ pc' = "bootsel"
        /\ UNCHANGED <<flash, meta, m, after, exec, trial>>
    BY <1>9 DEF BootNothing, SelectNothing
  <2>2. BootTypeOK' /\ Placed' /\ Written' /\ Counted'
    BY <2>1 DEF BootTypeOK, Placed, Written, Counted, TrialsAreCounted, Base,
                TypeOK, PCs, ramVars
  <2>3. ConfirmedRuns'
    BY <2>1, RamKept DEF ConfirmedRuns, Base, Runs
  <2> QED BY <2>1, <2>2, <2>3, RamKept DEF Base
<1>10. CASE JumpActive \/ JumpWritten
  <2>1. Jump(m.active) /\ pc \in {"select", "jump"} /\ exec = NoSlot
    BY <1>10 DEF JumpActive, JumpWritten, Base, Placed
  <2>2. BootTypeOK' /\ Placed' /\ Written' /\ Counted' /\ ConfirmedRuns'
    BY <1>1, <1>3, <2>1, JumpBase
  <2>3. exec \notin Slots /\ flash' = flash
    BY <2>1, BootAssumption DEF Jump
  <2> QED BY <2>2, <2>3, RamKept DEF Base
<1> QED BY <1>4, <1>5, <1>6, <1>7, <1>8, <1>9, <1>10 DEF Bootloader

LEMMA RestartBase ==
  ASSUME Base, Restart, hist' \in [torn : BOOLEAN, careless : BOOLEAN,
                                   mismatch : BOOLEAN, told : BOOLEAN]
  PROVE  Base'
<1>1. BootTypeOK'
  BY BootAssumption
     DEF Restart, BootTypeOK, Base, TypeOK, PCs, Unset, Record, Slots
<1>2. StagingTypeOK'
  <2>1. <<>> \in Seq(Byte)
    OBVIOUS
  <2>2. BootStatus(0, FALSE, 0) \in Status
    BY DEF BootStatus, Status, Slots, Other
  <2> QED BY <2>1, <2>2
          DEF Restart, StagingTypeOK, Base, TypeOK, BootStatus, Idle, Other
<1>3. TypeOK'
  BY <1>1, <1>2 DEF Restart, NoJob, TypeOK, BootTypeOK
<1>4. ~g_status'.update_in_progress /\ ~g_status'.image_ready /\ dl'.at = "idle"
  BY DEF Restart, BootStatus, Idle
<1>5. Placed' /\ StagedUntried'
  BY <1>4, BootAssumption DEF Restart, Placed, StagedUntried
<1>6. Written' /\ Counted'
  BY DEF Restart, Written, Counted, TrialsAreCounted, Base
<1>7. ConfirmedRuns'
  BY SameSlot, BootAssumption DEF Restart, ConfirmedRuns, Base
<1> QED BY <1>3, <1>5, <1>6, <1>7 DEF Base

(* What ota_confirm writes. *)
LEMMA SettledRecord ==
  ASSUME NEW r \in Record
  PROVE  LET c == [r EXCEPT !.pending = FALSE, !.attempts = 0]
         IN  c \in Record /\ ~c.pending /\ c.active = r.active
<1> DEFINE c == [r EXCEPT !.pending = FALSE, !.attempts = 0]
<1>1. c.active = r.active /\ c.attempts = 0
  BY DEF Record
<1>2. ~c.pending
  BY DEF Record
<1>3. c \in Record
  <2>1. 0 \in 0 .. MaxAttempts
    BY BootAssumption
  <2> QED BY <2>1 DEF Record
<1> QED BY <1>1, <1>2, <1>3

(* The application's steps outside a download. *)
LEMMA AppBase ==
  ASSUME Base,
         \/ OtaInit \/ Apply \/ ShellConfirm \/ AutoConfirm \/ ConfirmWritten
         \/ MetaWriteFails
  PROVE  Base'
<1>1. /\ meta \in Record \cup {NoMeta} /\ m \in Record
      /\ exec \in Slots \cup {NoSlot} /\ StagingTypeOK
      /\ trial \in [Slots -> Confirmed .. MaxAttempts + 1]
      /\ auto \in BOOLEAN /\ NoMeta \notin Record
      /\ job \in [file : Files \cup {NoFile}, digest : Files \cup {NoFile}]
      /\ hist \in [torn : BOOLEAN, careless : BOOLEAN,
                   mismatch : BOOLEAN, told : BOOLEAN]
  BY BootAssumption DEF Base, TypeOK
<1>2. \A s \in Slots : Fresh(s) \in Record /\ ~Fresh(s).pending
  BY BootAssumption DEF Fresh, Record
<1>3. CASE OtaInit
  <2>1. exec \in Slots /\ pc = "start" /\ meta \in Record
    BY <1>1, <1>3 DEF OtaInit, Base, Placed, Written
  <2>2. /\ g_status' = BootStatus(exec, meta.pending, meta.attempts)
        /\ pc' = "app" /\ auto' = TRUE
        /\ UNCHANGED <<flash, meta, m, after, exec, trial, uploadVars, dl,
                       spoiled, job, hist>>
    BY <1>1, <1>3, <2>1 DEF OtaInit
  <2>3. /\ g_status' \in Status /\ g_status'.active_slot = exec
        /\ g_status'.staging_slot = Other(g_status'.active_slot)
        /\ ~g_status'.update_in_progress /\ ~g_status'.image_ready
    BY <2>1, <2>2, BootAssumption DEF BootStatus, Status, Record, Slots, Other
  <2>4. StagingTypeOK'
    BY <1>1, <2>2, <2>3 DEF StagingTypeOK, uploadVars
  <2>5. TypeOK'
    BY <2>2, <2>4 DEF Base, TypeOK, PCs
  <2>6. Placed' /\ Written' /\ Counted' /\ StagedUntried'
    BY <2>1, <2>2, <2>3, BootAssumption
       DEF Base, Placed, Written, Counted, TrialsAreCounted, StagedUntried
  <2>7. ConfirmedRuns'
    BY <2>2, SameSlot DEF ConfirmedRuns, Base, Runs
  <2> QED BY <2>5, <2>6, <2>7 DEF Base
<1>4. CASE Apply
  <2> DEFINE rec == [active |-> g_status.staging_slot,
                     pending |-> TRUE, attempts |-> 0]
  <2>1. /\ pc = "app" /\ g_status.image_ready /\ StartWrite(rec, "reboot")
        /\ UNCHANGED <<flash, meta, exec, trial, ramVars, auto, job>>
    BY <1>4 DEF Apply
  <2>2. rec \in Record /\ trial[rec.active] <= rec.attempts
    BY <1>1, <2>1, BootAssumption
       DEF StagingTypeOK, Status, Record, Base, StagedUntried
  <2> HIDE DEF rec
  <2>3. /\ BootTypeOK' /\ Written' /\ Counted' /\ ConfirmedRuns'
        /\ pc' = "erase" /\ m' = rec /\ after' = "reboot"
    BY <2>1, <2>2, WriteBase DEF PCs
  <2>4. hist' \in [torn : BOOLEAN, careless : BOOLEAN,
                   mismatch : BOOLEAN, told : BOOLEAN]
    <3>1. \A b \in BOOLEAN :
            [hist EXCEPT !.told = FALSE, !.careless = b]
              \in [torn : BOOLEAN, careless : BOOLEAN,
                   mismatch : BOOLEAN, told : BOOLEAN]
      BY <1>1
    <3>2. (hist.careless \/ Mislinked(g_status.staging_slot)) \in BOOLEAN
      BY <1>1
    <3> QED BY <1>4, <3>1, <3>2 DEF Apply
  <2>5. StagingTypeOK' /\ StagedUntried'
    BY <1>1, <2>1 DEF StagingTypeOK, ramVars, uploadVars, StagedUntried, Base
  <2>6. Placed'
    BY <2>1, <2>3, WritePlaced DEF ramVars
  <2> QED BY <2>1, <2>3, <2>4, <2>5, <2>6, <1>1 DEF Base, TypeOK, BootTypeOK
<1>5. ASSUME NEW then \in {"told", "confirmed"}, StartConfirm(then),
             pc = "app", auto' \in BOOLEAN
      PROVE  Base'
  <2> DEFINE rec == [Current EXCEPT !.pending = FALSE, !.attempts = 0]
  <2>1. /\ StartWrite(rec, then)
        /\ UNCHANGED <<flash, meta, exec, trial, ramVars, job, hist>>
    BY <1>5 DEF StartConfirm
  <2>2. Current \in Record
    BY <1>1, <1>2 DEF Current, StagingTypeOK, Status
  <2>3. rec \in Record /\ ~rec.pending
    BY <2>2, SettledRecord
  <2>4. exec \in Slots /\ then \in PCs
    BY <1>5 DEF Base, Placed, PCs
  <2> HIDE DEF rec
  <2>5. /\ BootTypeOK' /\ Written' /\ Counted' /\ ConfirmedRuns'
        /\ pc' = "erase" /\ m' = rec /\ after' = then
    BY <2>1, <2>3, <2>4, WriteBase
  <2>6. StagingTypeOK' /\ StagedUntried'
    BY <1>1, <2>1 DEF StagingTypeOK, ramVars, uploadVars, StagedUntried, Base
  <2>7. Placed'
    BY <1>5, <2>1, <2>4, <2>5, WritePlaced DEF ramVars
  <2> QED BY <1>1, <1>5, <2>1, <2>5, <2>6, <2>7 DEF Base, TypeOK, BootTypeOK
<1>6. CASE ShellConfirm
  BY <1>1, <1>5, <1>6 DEF ShellConfirm
<1>7. CASE AutoConfirm
  <2>1. CASE OnProbation
    BY <1>5, <1>7, <2>1 DEF AutoConfirm
  <2>2. CASE ~OnProbation
    <3>1. auto' \in BOOLEAN /\ UNCHANGED <<flash, bootVars, ramVars, job, hist>>
      BY <1>7, <2>2 DEF AutoConfirm
    <3>2. TypeOK'
      BY <3>1 DEF Base, TypeOK, StagingTypeOK, bootVars, ramVars, uploadVars
    <3>3. Placed' /\ Written' /\ Counted' /\ StagedUntried'
      BY <3>1 DEF Base, Placed, Written, Counted, TrialsAreCounted,
                  StagedUntried, bootVars, ramVars
    <3>4. ConfirmedRuns'
      BY <3>1, SameSlot DEF ConfirmedRuns, Base, Runs, bootVars
    <3> QED BY <3>2, <3>3, <3>4 DEF Base
  <2> QED BY <2>1, <2>2
<1>8. CASE ConfirmWritten \/ MetaWriteFails
  <2>1. /\ pc' = "app" /\ exec \in Slots /\ g_status.active_slot = exec
        /\ UNCHANGED <<flash, meta, m, after, exec, trial, uploadVars, dl,
                       spoiled, auto, job>>
    <3>1. exec \in Slots /\ pc # "start"
      BY <1>1, <1>8 DEF ConfirmWritten, MetaWriteFails, Base, Placed
    <3> QED BY <1>8, <3>1 DEF ConfirmWritten, MetaWriteFails, ramVars, Base, Placed
  <2>2. /\ g_status' \in Status
        /\ g_status'.active_slot = g_status.active_slot
        /\ g_status'.staging_slot = g_status.staging_slot
        /\ g_status'.update_in_progress = g_status.update_in_progress
        /\ g_status'.image_ready = g_status.image_ready
    <3>1. \/ g_status' = g_status
          \/ g_status' = [g_status EXCEPT !.pending_verify = FALSE,
                                          !.boot_attempts = 0]
      BY <1>8 DEF ConfirmWritten, MetaWriteFails, ramVars
    <3>2. g_status \in Status
      BY <1>1 DEF StagingTypeOK
    <3>3. CASE g_status' = [g_status EXCEPT !.pending_verify = FALSE,
                                            !.boot_attempts = 0]
      BY <3>2, <3>3 DEF Status
    <3> QED BY <3>1, <3>2, <3>3
  <2>3. hist' \in [torn : BOOLEAN, careless : BOOLEAN,
                   mismatch : BOOLEAN, told : BOOLEAN]
    <3>1. \A b \in BOOLEAN : [hist EXCEPT !.told = b]
              \in [torn : BOOLEAN, careless : BOOLEAN,
                   mismatch : BOOLEAN, told : BOOLEAN]
      BY <1>1
    <3>2. /\ (hist.told \/ after = "told") \in BOOLEAN
          /\ (hist.told \/ pc = "told") \in BOOLEAN
      BY <1>1
    <3> QED BY <1>8, <3>1, <3>2 DEF ConfirmWritten, MetaWriteFails
  <2>4. StagingTypeOK'
    BY <1>1, <2>1, <2>2 DEF StagingTypeOK, uploadVars
  <2>5. TypeOK'
    BY <2>1, <2>3, <2>4 DEF Base, TypeOK, PCs
  <2>6. Placed' /\ Written' /\ Counted' /\ StagedUntried'
    BY <2>1, <2>2, BootAssumption
       DEF Base, Placed, Written, Counted, TrialsAreCounted, StagedUntried
  <2>7. ConfirmedRuns'
    BY <2>1, SameSlot DEF ConfirmedRuns, Base, Runs
  <2> QED BY <2>5, <2>6, <2>7 DEF Base
<1> QED BY <1>3, <1>4, <1>6, <1>7, <1>8

(* Which slot is which never changes while an application is up. *)
LEMMA SlotsKept ==
  ASSUME StagingTypeOK,
         \/ \E size \in Nat : \/ BeginOk(size)
                              \/ \E k \in 0 .. SlotSectors - 1 : BeginIo(size, k)
         \/ \E data \in Seq(Byte) : \/ ChunkOk(data) \/ ChunkRefused(data)
                                    \/ \E k \in Nat : ChunkIo(data, k)
         \/ FinalizeOk \/ FinalizeFailed
         \/ ShellAbort \/ DownloadAborts \/ FetchFailed
  PROVE  /\ g_status'.active_slot = g_status.active_slot
         /\ g_status'.staging_slot = g_status.staging_slot
<1> USE DEF Status, Cleared
<1>1. g_status \in Status
  BY DEF StagingTypeOK
<1>2. CASE \E size \in Nat : \/ BeginOk(size)
                             \/ \E k \in 0 .. SlotSectors - 1 : BeginIo(size, k)
  BY <1>1, <1>2 DEF BeginOk, BeginIo
<1>3. CASE \E data \in Seq(Byte) : \/ ChunkOk(data) \/ ChunkRefused(data)
                                   \/ \E k \in Nat : ChunkIo(data, k)
  BY <1>1, <1>3 DEF ChunkOk, ChunkIo, ChunkRefused, Absorb
<1>4. CASE FinalizeOk \/ FinalizeFailed
  BY <1>1, <1>4 DEF FinalizeOk, FinalizeFailed
<1>5. CASE ShellAbort \/ DownloadAborts \/ FetchFailed
  BY <1>1, <1>5 DEF ShellAbort, DownloadAborts, FetchFailed, Abort
<1> QED BY <1>2, <1>3, <1>4, <1>5

(* What every step of a download does to the two slots and their trials. *)
Stages ==
  /\ StagingTypeOK'
  /\ g_status'.active_slot = g_status.active_slot
  /\ g_status'.staging_slot = g_status.staging_slot
  /\ \A s \in Slots \ {g_status.staging_slot} : flash'[s] = flash[s]
  /\ trial' = trial \/ trial' = Replaced
  /\ \/ flash'[g_status.staging_slot] = flash[g_status.staging_slot]
     \/ trial'[g_status.staging_slot] = 0
  /\ g_status'.update_in_progress \/ g_status'.image_ready =>
       trial'[g_status.staging_slot] = 0
  /\ job' \in [file : Files \cup {NoFile}, digest : Files \cup {NoFile}]
  /\ dl'.at = "fetching" => job'.file \in Files
  /\ hist' \in [torn : BOOLEAN, careless : BOOLEAN,
                mismatch : BOOLEAN, told : BOOLEAN]

LEMMA StagesBase ==
  ASSUME Base, InApp, Stages
  PROVE  Base'
<1>1. /\ pc = "app" /\ UNCHANGED <<meta, m, pc, after, exec, auto>>
      /\ exec \in Slots /\ g_status.active_slot = exec
      /\ g_status.staging_slot = Other(exec) /\ Other(exec) \in Slots
      /\ Other(exec) # exec /\ StagingTypeOK
  BY BootAssumption
     DEF InApp, Base, Placed, TypeOK, StagingTypeOK, Slots, Other
<1>2. /\ trial' \in [Slots -> Confirmed .. MaxAttempts + 1]
      /\ \A s \in Slots : trial'[s] = trial[s] \/ trial'[s] = 0
      /\ \A s \in Slots \ {Other(exec)} : trial'[s] = trial[s]
  <2>1. trial \in [Slots -> Confirmed .. MaxAttempts + 1]
        /\ 0 \in Confirmed .. MaxAttempts + 1
    BY BootAssumption DEF Base, TypeOK, Confirmed
  <2>2. CASE trial' = trial
    BY <2>1, <2>2, Zenon
  <2>3. CASE trial' = Replaced
    <3>1. trial' = [trial EXCEPT ![Other(exec)] = 0]
      BY <1>1, <2>3, Zenon DEF Replaced
    <3> QED BY <1>1, <2>1, <3>1
  <2> QED BY <2>2, <2>3, Zenon DEF Stages
<1>3. TypeOK'
  BY <1>1, <1>2, Zenon DEF Stages, Base, TypeOK
<1>4. Placed' /\ Written'
  BY <1>1, BootAssumption DEF Stages, Base, Placed, Written
<1>5. Counted'
  <2>1. meta # NoMeta /\ meta.pending => trial'[meta.active] <= meta.attempts
    <3>1. meta # NoMeta => meta \in Record
      BY DEF Base, TypeOK
    <3> QED BY <1>2, <3>1, BootAssumption
            DEF Record, Base, Counted, TrialsAreCounted
  <2> QED BY <1>1, <2>1 DEF Counted, TrialsAreCounted
<1>6. StagedUntried'
  BY DEF Stages, StagedUntried
<1>7. ConfirmedRuns'
  <2>1. \A s \in Slots : flash'[s] = flash[s] => Runs(s)' = Runs(s)
    BY SameSlot
  <2>2. exec \in Slots \ {g_status.staging_slot}
    BY <1>1
  <2>3. Runs(exec)' = Runs(exec)
    <3>1. flash'[exec] = flash[exec] /\ exec' = exec
      BY <1>1, <2>2 DEF Stages
    <3> QED BY <3>1 DEF Runs, Holds
  <2>4. \A s \in Slots : trial'[s] = Confirmed => Runs(s)'
    <3> SUFFICES ASSUME NEW s \in Slots, trial'[s] = Confirmed PROVE Runs(s)'
      OBVIOUS
    <3>1. trial[s] = Confirmed /\ trial'[s] # 0
      BY <1>2 DEF Confirmed
    <3>2. flash'[s] = flash[s]
      BY <3>1 DEF Stages
    <3> QED BY <2>1, <3>1, <3>2 DEF Base, ConfirmedRuns
  <2>5. exec' = exec /\ Runs(exec)
    BY <1>1 DEF Base, ConfirmedRuns
  <2>6. exec' \in Slots => Runs(exec)'
    BY <2>3, <2>5
  <2> QED BY <2>4, <2>6 DEF ConfirmedRuns
<1> QED BY <1>3, <1>4, <1>5, <1>6, <1>7 DEF Base

(* Each step of `ota download`, and an `ota abort` beside it, is such a step. *)
LEMMA DownloadStages ==
  ASSUME Base,
         \/ \E f \in Files : \E d \in {NoFile, f} : Download(f, d)
         \/ DownloadEraseFails \/ Chunk \/ FetchEnds \/ Finish \/ OtherShellAborts
  PROVE  InApp /\ Stages
<1> DEFINE Jobs == [file : Files \cup {NoFile}, digest : Files \cup {NoFile}]
           Hists == [torn : BOOLEAN, careless : BOOLEAN,
                     mismatch : BOOLEAN, told : BOOLEAN]
<1>1. /\ StagingTypeOK /\ job \in Jobs /\ hist \in Hists
      /\ g_status \in Status /\ g_status.staging_slot \in Slots
      /\ trial \in [Slots -> Confirmed .. MaxAttempts + 1]
      /\ flash \in [Slots -> [Offsets -> Cell]]
  BY DEF Base, TypeOK, StagingTypeOK, Status
<1>2. Replaced[g_status.staging_slot] = 0
  BY <1>1 DEF Replaced
<1>3. g_status.update_in_progress \/ g_status.image_ready =>
        trial[g_status.staging_slot] = 0
  BY DEF Base, StagedUntried
<1>4. dl.at = "fetching" => job.file \in Files
  BY DEF Base, Placed
<1>5. ASSUME NEW f \in Files, NEW d \in {NoFile, f}, Download(f, d)
      PROVE  InApp /\ Stages
  <2>1. BeginOk(0) /\ InApp
    BY <1>5 DEF Download
  <2>2. /\ StagingTypeOK'
        /\ \A s \in Slots \ {g_status.staging_slot} : flash'[s] = flash[s]
    BY <1>1, <2>1, BeginType
  <2>3. /\ g_status'.active_slot = g_status.active_slot
        /\ g_status'.staging_slot = g_status.staging_slot
    BY <1>1, <2>1, SlotsKept
  <2>4. trial' = Replaced /\ job' \in Jobs /\ job'.file \in Files
    BY <1>5 DEF Download
  <2>5. hist' \in Hists
    <3>1. \A b \in BOOLEAN :
            [hist EXCEPT !.careless = b, !.mismatch = FALSE] \in Hists
      BY <1>1
    <3>2. (hist.careless \/ trial[exec] # Confirmed) \in BOOLEAN
      BY <1>1
    <3> QED BY <1>5, <3>1, <3>2 DEF Download
  <2> QED BY <1>2, <2>1, <2>2, <2>3, <2>4, <2>5 DEF Stages
<1>6. CASE DownloadEraseFails
  <2>1. PICK k \in 0 .. SlotSectors - 1 :
          BeginIo(0, k) /\ trial' = IF k = 0 THEN trial ELSE Replaced
    BY <1>6 DEF DownloadEraseFails
  <2>2. InApp /\ job' = job
    BY <1>6 DEF DownloadEraseFails
  <2>3. /\ StagingTypeOK'
        /\ \A s \in Slots \ {g_status.staging_slot} : flash'[s] = flash[s]
    BY <1>1, <2>1, BeginType
  <2>4. g_status' = g_status /\ dl' = dl
    BY <2>1 DEF BeginIo
  <2>5. \/ flash'[g_status.staging_slot] = flash[g_status.staging_slot]
        \/ trial'[g_status.staging_slot] = 0
    <3>1. CASE k = 0
      <4>1. EraseSectors(flash[g_status.staging_slot], 0) =
              flash[g_status.staging_slot]
        BY <1>1, SlotSizeNat DEF EraseSectors, Offsets
      <4> QED BY <1>1, <2>1, <3>1, <4>1 DEF BeginIo
    <3>2. CASE k # 0
      BY <1>2, <2>1, <3>2
    <3> QED BY <3>1, <3>2
  <2>6. hist' \in Hists
    <3>1. \A b \in BOOLEAN : [hist EXCEPT !.careless = b] \in Hists
      BY <1>1
    <3>2. (hist.careless \/ trial[exec] # Confirmed) \in BOOLEAN
      BY <1>1
    <3> QED BY <1>6, <3>1, <3>2 DEF DownloadEraseFails
  <2>7. trial' = trial \/ trial' = Replaced
    BY <2>1
  <2> QED BY <1>1, <1>2, <1>3, <1>4, <2>2, <2>3, <2>4, <2>5, <2>6, <2>7
          DEF Stages
<1>7. CASE Chunk
  <2>1. PICK n \in ChunkLens :
          /\ dl.bytes + n <= Length[job.file]
          /\ LET data == SubSeq(Image(job.file), dl.bytes + 1, dl.bytes + n)
             IN  \/ ChunkOk(data)
                 \/ \E k \in 0 .. n : ChunkIo(data, k)
                 \/ ChunkRefused(data)
    BY <1>7 DEF Chunk
  <2>2. InApp /\ dl.at = "fetching" /\ UNCHANGED <<trial, job, hist>>
    BY <1>7 DEF Chunk
  <2> DEFINE data == SubSeq(Image(job.file), dl.bytes + 1, dl.bytes + n)
  <2>3. data \in Seq(Byte)
    <3>1. n \in Nat \ {0} /\ job.file \in Files /\ dl.bytes \in Nat
      BY <1>1, <1>4, <2>2, SystemAssumption DEF StagingTypeOK
    <3> QED BY <2>1, <3>1, PieceType
  <2>4. \/ ChunkOk(data) \/ ChunkRefused(data)
        \/ \E k \in Nat : ChunkIo(data, k)
    <3>1. 0 .. n \subseteq Nat
      BY SystemAssumption
    <3> QED BY <2>1, <3>1
  <2> HIDE DEF data
  <2>5. /\ StagingTypeOK'
        /\ \A s \in Slots \ {g_status.staging_slot} : flash'[s] = flash[s]
    BY <1>1, <2>3, <2>4, ChunkType
  <2>6. /\ g_status'.active_slot = g_status.active_slot
        /\ g_status'.staging_slot = g_status.staging_slot
    BY <1>1, <2>3, <2>4, SlotsKept
  <2>7. /\ g_status'.update_in_progress = g_status.update_in_progress
        /\ g_status'.image_ready = g_status.image_ready
        /\ \/ flash' = flash
           \/ g_status.update_in_progress
    BY <1>1, <2>4
       DEF ChunkOk, ChunkIo, ChunkRefused, Absorb, Accepts, Status
  <2> QED BY <1>1, <1>3, <1>4, <2>2, <2>5, <2>6, <2>7 DEF Stages
<1>8. CASE Finish \/ FetchEnds \/ OtherShellAborts
  <2>1. /\ InApp /\ trial' = trial
        /\ \/ FinalizeOk \/ FinalizeFailed
           \/ ShellAbort \/ DownloadAborts \/ FetchFailed
    BY <1>8 DEF Finish, FetchEnds, OtherShellAborts
  <2>2. /\ StagingTypeOK'
        /\ \A s \in Slots \ {g_status.staging_slot} : flash'[s] = flash[s]
    BY <1>1, <2>1, FinalizeType, AbortType
  <2>3. /\ g_status'.active_slot = g_status.active_slot
        /\ g_status'.staging_slot = g_status.staging_slot
    BY <1>1, <2>1, SlotsKept
  <2>4. job' \in Jobs /\ hist' \in Hists
    <3>1. \A b \in BOOLEAN : [hist EXCEPT !.mismatch = b] \in Hists
      BY <1>1
    <3> DEFINE differs == job.digest # NoFile /\ g_sha # Image(job.digest)
    <3>2. differs \in BOOLEAN
      OBVIOUS
    <3>3. CASE Finish
      <4>1. job' = NoJob /\ hist' = [hist EXCEPT !.mismatch = differs]
        BY <3>3 DEF Finish
      <4>2. NoJob \in Jobs
        BY DEF NoJob
      <4> HIDE DEF differs
      <4> QED BY <3>1, <3>2, <4>1, <4>2, Zenon
    <3>4. CASE FetchEnds \/ OtherShellAborts
      BY <1>1, <3>4 DEF FetchEnds, OtherShellAborts
    <3> QED BY <1>8, <3>3, <3>4
  <2>5. dl'.at = "fetching" => dl.at = "fetching" /\ job' = job
    BY <1>1, <1>8
       DEF Finish, FetchEnds, OtherShellAborts, FinalizeOk, FinalizeFailed,
           ShellAbort, DownloadAborts, FetchFailed, Idle, StagingTypeOK
  <2>6. CASE FinalizeOk
    <3>1. g_status.update_in_progress
      BY <2>6 DEF FinalizeOk
    <3> QED BY <1>3, <1>4, <2>1, <2>2, <2>3, <2>4, <2>5, <3>1 DEF Stages
  <2>7. CASE ~FinalizeOk
    <3>1. flash' = flash
      BY <1>1, <2>1, <2>7, AbortType DEF FinalizeFailed
    <3>2. g_status'.update_in_progress \/ g_status'.image_ready =>
            g_status.update_in_progress \/ g_status.image_ready
      BY <1>1, <2>1, <2>7
         DEF FinalizeFailed, ShellAbort, DownloadAborts, FetchFailed, Abort,
             Cleared, Status
    <3> QED BY <1>3, <1>4, <2>1, <2>2, <2>3, <2>4, <2>5, <3>1, <3>2 DEF Stages
  <2> QED BY <2>6, <2>7
<1> QED BY <1>5, <1>6, <1>7, <1>8

LEMMA InitInv == Init => Inv
<1> SUFFICES ASSUME Init PROVE Inv
  OBVIOUS
<1>1. PICK f \in Healthy :
        /\ Link[f] = 0
        /\ flash = [s \in Slots |-> [i \in Offsets |->
                      IF s = 0 /\ i < Length[f] THEN <<f, i + 1>> ELSE FF]]
  BY DEF Init
<1>2. f \in Files /\ Length[f] \in Nat /\ Length[f] <= SlotSize
  BY BootAssumption, LayoutAssumption, SlotSizeNat
<1>3. flash \in [Slots -> [Offsets -> Cell]]
  <2>1. \A i \in Offsets : i < Length[f] => <<f, i + 1>> \in Byte
    BY <1>2, SystemAssumption, SlotSizeNat DEF Offsets
  <2> QED BY <1>1, <2>1 DEF Cell
<1>4. Holds(flash[0], Image(f))
  <2>1. Len(Image(f)) = Length[f]
    BY <1>2 DEF Image
  <2>2. \A i \in Offsets : i < Length[f] => Image(f)[i + 1] = <<f, i + 1>>
    BY <1>2, SlotSizeNat DEF Image, Offsets
  <2>3. \A i \in Offsets :
          flash[0][i] = IF i < Length[f] THEN <<f, i + 1>> ELSE FF
    BY <1>1 DEF Slots
  <2> QED BY <1>2, <2>1, <2>2, <2>3 DEF Holds
<1>5. Runs(0)
  BY <1>1, <1>4 DEF Runs
<1>6. StagingTypeOK
  <2>1. <<>> \in Seq(Byte)
    OBVIOUS
  <2>2. g_status = BootStatus(0, FALSE, 0)
    BY DEF Init
  <2>3. g_status \in Status /\ g_status.staging_slot = Other(g_status.active_slot)
    BY <2>2 DEF BootStatus, Status, Slots, Other
  <2> QED BY <1>3, <2>1, <2>3 DEF Init, StagingTypeOK, Idle
<1>7. /\ ~g_status.update_in_progress /\ ~g_status.image_ready /\ dl.at = "idle"
      /\ meta = NoMeta /\ pc = "reset" /\ exec = NoSlot
      /\ trial = [s \in Slots |-> IF s = 0 THEN Confirmed ELSE 0]
      /\ m = Unset /\ after = "reset" /\ job = NoJob
  BY DEF Init, BootStatus, Idle
<1>8. trial[0] = Confirmed /\ trial[1] = 0
  BY <1>7 DEF Slots
<1>9. TypeOK
  <2>1. m \in Record
    BY <1>7, BootAssumption DEF Unset, Record, Slots
  <2>2. trial \in [Slots -> Confirmed .. MaxAttempts + 1]
    BY <1>7, BootAssumption DEF Confirmed
  <2>3. job \in [file : Files \cup {NoFile}, digest : Files \cup {NoFile}]
    BY <1>7 DEF NoJob
  <2>4. /\ auto \in BOOLEAN
        /\ hist \in [torn : BOOLEAN, careless : BOOLEAN,
                    mismatch : BOOLEAN, told : BOOLEAN]
    BY DEF Init
  <2>5. pc \in PCs /\ after \in PCs /\ exec \in Slots \cup {NoSlot}
        /\ meta \in Record \cup {NoMeta}
    BY <1>7 DEF PCs
  <2> QED BY <1>6, <2>1, <2>2, <2>3, <2>4, <2>5, Zenon DEF TypeOK
<1>10. Placed /\ Written /\ Counted /\ StagedUntried
  BY <1>7, BootAssumption
     DEF Placed, Written, Counted, TrialsAreCounted, StagedUntried
<1>11. ConfirmedRuns
  BY <1>5, <1>7, <1>8, BootAssumption DEF ConfirmedRuns, Slots, Confirmed
<1>12. Careful
  BY <1>7, <1>8, BootAssumption
     DEF Careful, GoodRecord, GoodWrite, FirstBoot, RecordNamesExec,
         StagedBesideConfirmed, ProbationIsBounded, Slots, Confirmed
<1> QED BY <1>9, <1>10, <1>11, <1>12 DEF Inv, Base

LEMMA BaseStep == Base /\ [Next]_vars => Base'
<1> SUFFICES ASSUME Base, [Next]_vars PROVE Base'
  OBVIOUS
<1>1. CASE BootStep
  BY <1>1, MetaBase, BootloaderBase DEF BootStep
<1>2. CASE \/ OtaInit \/ Apply \/ ShellConfirm \/ AutoConfirm
           \/ ConfirmWritten \/ MetaWriteFails
  BY <1>2, AppBase
<1>3. CASE \/ \E f \in Files : \E d \in {NoFile, f} : Download(f, d)
           \/ DownloadEraseFails \/ Chunk \/ FetchEnds \/ Finish
           \/ OtherShellAborts
  BY <1>3, DownloadStages, StagesBase
<1>4. CASE Reboot \/ PowerLoss
  <2>1. hist' \in [torn : BOOLEAN, careless : BOOLEAN,
                   mismatch : BOOLEAN, told : BOOLEAN]
    <3> DEFINE Hists == [torn : BOOLEAN, careless : BOOLEAN,
                         mismatch : BOOLEAN, told : BOOLEAN]
               tears == hist.torn \/ pc = "program"
                        \/ (meta = NoMeta /\ exec # NoSlot)
    <3>1. hist \in Hists /\ tears \in BOOLEAN
      BY DEF Base, TypeOK
    <3>2. CASE Reboot
      BY <3>1, <3>2 DEF Reboot
    <3>3. CASE PowerLoss
      <4>1. hist' = [hist EXCEPT !.torn = tears, !.mismatch = FALSE]
        BY <3>3 DEF PowerLoss
      <4> HIDE DEF tears
      <4> QED BY <3>1, <4>1
    <3> QED BY <1>4, <3>2, <3>3
  <2> QED BY <1>4, <2>1, RestartBase DEF Reboot, PowerLoss
<1>5. CASE UNCHANGED vars
  <2>1. TypeOK'
    BY <1>5 DEF vars, uploadVars, bootVars, Base, TypeOK, StagingTypeOK
  <2>2. Placed' /\ Written' /\ Counted' /\ StagedUntried'
    BY <1>5 DEF vars, bootVars, Base, Placed, Written, Counted,
                TrialsAreCounted, StagedUntried
  <2>3. ConfirmedRuns'
    BY <1>5, SameSlot DEF vars, bootVars, Base, ConfirmedRuns, Runs
  <2> QED BY <2>1, <2>2, <2>3 DEF Base
<1> QED BY <1>1, <1>2, <1>3, <1>4, <1>5 DEF Next

-----------------------------------------------------------------------------
(* Careful: what holds until a record is lost or the operator slips. *)

(* A record stays good while the slots it judges stay as they are. *)
LEMMA GoodKept ==
  ASSUME NEW rec \in Record, Good(rec), flash' = flash, trial' = trial
  PROVE  Good(rec)'
<1>1. rec.active \in Slots
  BY DEF Record
<1>2. Mislinked(rec.active)' = Mislinked(rec.active)
  BY <1>1, SameSlot
<1> QED BY <1>2 DEF Good

LEMMA FlippedGood ==
  ASSUME NEW rec \in Record, rec.pending, Good(rec)
  PROVE  Good(Flipped(rec))
  BY DEF Good, Flipped, Fresh

(* Under a good record the bootloader always finds something to jump to. *)
LEMMA GoodBoots ==
  ASSUME Base, NEW rec \in Record, Good(rec)
  PROVE  /\ ~Mislinked(rec.active)
         /\ ~rec.pending => Runs(rec.active) /\ LooksValid(rec.active)
         /\ \E s \in Slots : LooksValid(s)
<1>1. rec.active \in Slots /\ Other(rec.active) \in Slots
  BY DEF Record, Slots, Other
<1>2. \A s \in Slots : trial[s] = Confirmed =>
        Runs(s) /\ LooksValid(s) /\ ~Mislinked(s)
  BY RunsLooksValid DEF Base, ConfirmedRuns
<1> QED BY <1>1, <1>2 DEF Good

LEMMA MetaCareful ==
  ASSUME Base, Careful, MetaErase \/ MetaProgram,
         UNCHANGED <<ramVars, auto, job, hist>>
  PROVE  Careful'
<1>1. CASE MetaErase
  <2>1. /\ UNCHANGED <<flash, ramVars, trial, m, after, exec>>
        /\ pc = "erase" /\ pc' = "program" /\ meta' = NoMeta
    BY <1>1 DEF MetaErase
  <2>2. m \in Record
    BY DEF Base, TypeOK
  <2>3. GoodWrite'
    BY <2>1, <2>2, GoodKept DEF Careful, GoodWrite
  <2>4. GoodRecord' /\ FirstBoot' /\ RecordNamesExec' /\ ProbationIsBounded'
    BY <2>1 DEF Careful, GoodRecord, FirstBoot, RecordNamesExec,
                ProbationIsBounded
  <2>5. StagedBesideConfirmed'
    BY <2>1 DEF Careful, StagedBesideConfirmed, ramVars
  <2> QED BY <2>1, <2>3, <2>4, <2>5 DEF Careful
<1>2. CASE MetaProgram
  <2>1. /\ UNCHANGED <<flash, ramVars, m, after, exec>>
        /\ pc = "program" /\ pc' = after /\ meta' = m
        /\ m \in Record /\ m # NoMeta
        /\ after \in {"select", "jump", "confirmed", "told", "app", "reboot"}
    BY <1>2, BootAssumption DEF MetaProgram, Base, TypeOK, Placed
  <2>2. CASE after \in {"confirmed", "told"}
    <3>1. /\ m.active = exec /\ exec \in Slots /\ ~m.pending
          /\ g_status.active_slot = exec
      BY <2>1, <2>2 DEF Careful, GoodWrite, Base, Placed, Written
    <3>2. trial' = [trial EXCEPT ![exec] = Confirmed]
      BY <1>2, <2>2 DEF MetaProgram
    <3>3. /\ trial'[exec] = Confirmed
          /\ \A s \in Slots : trial'[s] \in {trial[s], Confirmed}
      BY <3>1, <3>2 DEF Base, TypeOK
    <3>4. GoodRecord'
      BY <2>1, <3>1, <3>3 DEF GoodRecord, Good
    <3>5. StagedBesideConfirmed'
      BY <2>1, <3>1, <3>3 DEF StagedBesideConfirmed, ramVars
    <3>6. ProbationIsBounded'
      BY <3>3, BootAssumption DEF Careful, ProbationIsBounded, Confirmed
    <3> QED BY <2>1, <2>2, <3>1, <3>4, <3>5, <3>6
            DEF Careful, GoodWrite, FirstBoot, RecordNamesExec
  <2>3. CASE after \notin {"confirmed", "told"}
    <3>1. trial' = trial
      BY <1>2, <2>3 DEF MetaProgram
    <3>2. Good(m)
      BY <2>1, <2>3 DEF Careful, GoodWrite, Good, Base, Written
    <3>3. GoodRecord'
      BY <2>1, <3>1, <3>2, GoodKept DEF GoodRecord, Good
    <3>4. RecordNamesExec'
      BY <2>1, <2>3, BootAssumption
         DEF RecordNamesExec, Careful, GoodWrite, Base, Placed
    <3>5. StagedBesideConfirmed' /\ ProbationIsBounded'
      BY <2>1, <3>1 DEF Careful, StagedBesideConfirmed, ProbationIsBounded,
                        ramVars
    <3> QED BY <2>1, <2>3, <3>3, <3>4, <3>5 DEF Careful, GoodWrite, FirstBoot
  <2> QED BY <2>2, <2>3
<1> QED BY <1>1, <1>2

(* The bootloader writes a good record. *)
LEMMA BootWriteCareful ==
  ASSUME Base, Careful, NEW rec \in Record,
         NEW then \in {"select", "jump", "reboot"},
         StartWrite(rec, then), exec = NoSlot, Good(rec), pc # "program",
         UNCHANGED <<flash, meta, exec, trial, ramVars, auto, job, hist>>
  PROVE  Careful'
<1>1. pc' = "erase" /\ m' = rec /\ after' = then
  BY DEF StartWrite
<1>2. GoodRecord'
  <2>1. meta # NoMeta => meta \in Record
    BY DEF Base, TypeOK
  <2> QED BY <2>1, GoodKept DEF Careful, GoodRecord, Good
<1>3. GoodWrite'
  BY <1>1, GoodKept DEF GoodWrite, Good
<1>4. FirstBoot' /\ RecordNamesExec'
  BY <1>1, BootAssumption DEF Careful, FirstBoot, RecordNamesExec
<1>5. StagedBesideConfirmed' /\ ProbationIsBounded'
  BY DEF Careful, StagedBesideConfirmed, ProbationIsBounded, ramVars
<1> QED BY <1>1, <1>2, <1>3, <1>4, <1>5 DEF Careful

LEMMA JumpCareful ==
  ASSUME Base, Careful, JumpActive \/ JumpWritten,
         UNCHANGED <<ramVars, auto, job, hist>>
  PROVE  Careful'
<1> DEFINE s == m.active
<1>1. /\ Jump(s) /\ pc \in {"select", "jump"} /\ exec = NoSlot /\ meta = m
      /\ m \in Record /\ m # NoMeta /\ s \in Slots /\ Other(s) \in Slots
      /\ Other(s) # s
  BY BootAssumption DEF JumpActive, JumpWritten, Base, Placed, Written, TypeOK,
                        Record, Slots, Other
<1>2. Good(m)
  BY <1>1 DEF Careful, GoodRecord
<1>3. /\ flash' = flash /\ meta' = meta /\ m' = m /\ after' = after
      /\ trial' = [trial EXCEPT ![s] =
                     IF trial[s] \in {Confirmed, MaxAttempts + 1}
                       THEN trial[s] ELSE trial[s] + 1]
  BY <1>1 DEF Jump
<1>4. /\ trial'[Other(s)] = trial[Other(s)]
      /\ trial[s] = Confirmed => trial'[s] = Confirmed
      /\ m.pending => /\ trial'[s] >= 0
                      /\ trial'[s] <= MaxAttempts
  <2>1. trial \in [Slots -> Confirmed .. MaxAttempts + 1]
    BY DEF Base, TypeOK
  <2>2. trial'[Other(s)] = trial[Other(s)]
    BY <1>1, <1>3, <2>1
  <2>3. trial[s] = Confirmed => trial'[s] = Confirmed
    BY <1>1, <1>3, <2>1
  <2>4. ASSUME m.pending
        PROVE  trial'[s] >= 0 /\ trial'[s] <= MaxAttempts
    <3>1. trial[s] < m.attempts
      BY <1>1, <2>4 DEF Base, Counted, Written
    <3>2. trial[s] >= 0
      BY <1>2, <2>4 DEF Good
    <3>3. trial[s] \in Int /\ m.attempts \in 0 .. MaxAttempts
      BY <1>1, <2>1, BootAssumption DEF Record, Confirmed
    <3>4. trial[s] # Confirmed /\ trial[s] # MaxAttempts + 1
      BY <3>1, <3>2, <3>3, BootAssumption DEF Confirmed
    <3>5. trial'[s] = trial[s] + 1
      BY <1>1, <1>3, <2>1, <3>4
    <3> QED BY <3>1, <3>2, <3>3, <3>5, BootAssumption
  <2> QED BY <2>2, <2>3, <2>4
<1>5. Good(m)'
  <2>1. Mislinked(s)' = Mislinked(s)
    BY <1>1, <1>3, SameSlot
  <2> QED BY <1>2, <1>3, <1>4, <2>1 DEF Good
<1>6. GoodRecord'
  BY <1>1, <1>3, <1>5 DEF GoodRecord, Good
<1>7. \/ pc' = "start" /\ exec' = s
      \/ pc' = "hung" /\ exec' = exec /\ m.pending
  <2>1. ~Mislinked(s) /\ (~m.pending => Runs(s))
    BY <1>1, <1>2, GoodBoots
  <2> QED BY <1>1, <2>1 DEF Jump
<1>8. GoodWrite' /\ FirstBoot' /\ RecordNamesExec'
  BY <1>1, <1>3, <1>7, BootAssumption DEF GoodWrite, FirstBoot, RecordNamesExec
<1>9. StagedBesideConfirmed'
  <2>1. ~g_status'.update_in_progress /\ ~g_status'.image_ready
    BY <1>1 DEF Base, Placed, ramVars
  <2> QED BY <2>1, Zenon DEF StagedBesideConfirmed
<1>10. ProbationIsBounded'
  <2>1. trial'[Other(s)] <= MaxAttempts
    BY <1>1, <1>4 DEF Careful, ProbationIsBounded
  <2>2. trial'[s] <= MaxAttempts
    BY <1>2, <1>4, BootAssumption DEF Good, Confirmed
  <2>3. \A t \in Slots : t = s \/ t = Other(s)
    BY <1>1 DEF Slots, Other
  <2> QED BY <2>1, <2>2, <2>3 DEF ProbationIsBounded
<1> QED BY <1>3, <1>6, <1>7, <1>8, <1>9, <1>10 DEF Careful

LEMMA BootloaderCareful ==
  ASSUME Base, Careful, Bootloader, UNCHANGED <<ramVars, auto, job, hist>>
  PROVE  Careful'
<1>1. m \in Record /\ meta \in Record \cup {NoMeta}
  BY DEF Base, TypeOK
<1>2. pc \in {"reset", "select"} => exec = NoSlot /\ pc # "program"
  BY DEF Base, Placed
<1>3. pc = "select" => Good(m)
  BY <1>1, BootAssumption DEF Base, Written, Careful, GoodRecord
<1>4. CASE BootFresh
  <2>1. /\ pc = "reset" /\ meta = NoMeta /\ StartWrite(Fresh(0), "jump")
        /\ UNCHANGED <<flash, meta, exec, trial>>
    BY <1>4 DEF BootFresh
  <2>2. Fresh(0) \in Record /\ Good(Fresh(0))
    BY <1>2, <2>1, BootAssumption
       DEF Fresh, Record, Slots, Good, Careful, FirstBoot
  <2> QED BY <1>2, <2>1, <2>2, BootWriteCareful
<1>5. CASE Rollback
  <2>1. /\ pc = "reset" /\ meta \in Record /\ meta.pending
        /\ StartWrite(Flipped(meta), "reboot")
        /\ UNCHANGED <<flash, meta, exec, trial>>
    BY <1>1, <1>5 DEF Rollback, Exhausted
  <2>2. Flipped(meta) \in Record /\ Good(Flipped(meta))
    <3>1. Good(meta)
      BY <2>1, BootAssumption DEF Careful, GoodRecord
    <3> QED BY <2>1, <3>1, FlippedGood, BootAssumption
            DEF Flipped, Fresh, Record, Slots, Other
  <2> QED BY <1>2, <2>1, <2>2, BootWriteCareful
<1>6. CASE FallBack
  <2>1. /\ pc = "select" /\ ~LooksValid(m.active)
        /\ StartWrite(Flipped(m), "jump")
        /\ UNCHANGED <<flash, meta, exec, trial>>
    BY <1>6 DEF FallBack
  <2>2. Flipped(m) \in Record /\ Good(Flipped(m))
    <3>1. m.pending
      BY <1>1, <1>3, <2>1, GoodBoots
    <3> QED BY <1>1, <1>3, <2>1, <3>1, FlippedGood, BootAssumption
            DEF Flipped, Fresh, Record, Slots, Other
  <2> QED BY <1>2, <2>1, <2>2, BootWriteCareful
<1>7. CASE CountAttempt
  <2> DEFINE rec == [meta EXCEPT !.attempts = @ + 1]
  <2>1. /\ pc = "reset" /\ meta \in Record /\ meta.pending
        /\ ~(meta.attempts >= MaxAttempts) /\ StartWrite(rec, "select")
        /\ UNCHANGED <<flash, meta, exec, trial>>
    BY <1>1, <1>7 DEF CountAttempt, Exhausted
  <2>2. rec \in Record
    BY <2>1, BootAssumption DEF Record
  <2>3. rec.active = meta.active /\ rec.pending
    BY <2>1 DEF Record
  <2>4. Good(rec)
    <3>1. Good(meta)
      BY <2>1, BootAssumption DEF Careful, GoodRecord
    <3> HIDE DEF rec
    <3> QED BY <2>1, <2>3, <3>1 DEF Good
  <2> HIDE DEF rec
  <2> QED BY <1>2, <2>1, <2>2, <2>4, BootWriteCareful
<1>8. CASE BootSettled
  <2>1. /\ pc = "reset" /\ m' = meta /\ pc' = "select" /\ meta \in Record
        /\ UNCHANGED <<flash, meta, after, exec, trial>>
    BY <1>1, <1>8 DEF BootSettled
  <2>2. GoodRecord'
    BY <2>1, GoodKept, BootAssumption DEF Careful, GoodRecord, Good
  <2>3. FirstBoot' /\ RecordNamesExec' /\ GoodWrite'
    BY <1>2, <2>1, BootAssumption
       DEF Careful, FirstBoot, RecordNamesExec, GoodWrite
  <2>4. StagedBesideConfirmed' /\ ProbationIsBounded'
    BY <2>1 DEF Careful, StagedBesideConfirmed, ProbationIsBounded, ramVars
  <2> QED BY <2>1, <2>2, <2>3, <2>4 DEF Careful
<1>9. ~BootNothing
  <2>1. trial[0] = Confirmed => LooksValid(0)
    BY RunsLooksValid DEF Base, ConfirmedRuns, Slots
  <2> QED BY <1>2, <2>1 DEF BootNothing, Careful, FirstBoot
<1>10. ~SelectNothing
  BY <1>1, <1>3, GoodBoots DEF SelectNothing
<1>11. CASE JumpActive \/ JumpWritten
  BY <1>11, JumpCareful
<1> QED BY <1>4, <1>5, <1>6, <1>7, <1>8, <1>9, <1>10, <1>11 DEF Bootloader

(* A reset that did not cut a rewrite in two. *)
LEMMA RestartCareful ==
  ASSUME Base, Careful, Restart,
         ~(pc = "program" \/ (meta = NoMeta /\ exec # NoSlot))
  PROVE  Careful'
<1>1. /\ flash' = flash /\ meta' = meta /\ trial' = trial /\ pc' = "reset"
      /\ exec' = NoSlot
  BY DEF Restart
<1>2. GoodRecord'
  <2>1. meta # NoMeta => meta \in Record
    BY DEF Base, TypeOK
  <2> QED BY <1>1, <2>1, GoodKept DEF Careful, GoodRecord, Good
<1>3. FirstBoot' /\ RecordNamesExec' /\ GoodWrite' /\ ProbationIsBounded'
  BY <1>1, BootAssumption
     DEF Careful, FirstBoot, RecordNamesExec, GoodWrite, ProbationIsBounded
<1>4. StagedBesideConfirmed'
  <2>1. ~g_status'.update_in_progress /\ ~g_status'.image_ready
    BY DEF Restart, BootStatus
  <2> QED BY <2>1, Zenon DEF StagedBesideConfirmed
<1> QED BY <1>1, <1>2, <1>3, <1>4 DEF Careful

LEMMA AppCareful ==
  ASSUME Base, Careful, ~Mishap',
         \/ OtaInit \/ Apply \/ ShellConfirm \/ AutoConfirm \/ ConfirmWritten
         \/ MetaWriteFails
  PROVE  Careful'
<1>1. /\ meta \in Record \cup {NoMeta} /\ m \in Record /\ NoMeta \notin Record
      /\ g_status \in Status /\ g_status.staging_slot = Other(g_status.active_slot)
  BY BootAssumption DEF Base, TypeOK, StagingTypeOK
<1>2. UNCHANGED <<flash, meta, trial, exec>>
  BY DEF OtaInit, Apply, ShellConfirm, AutoConfirm, StartConfirm,
         ConfirmWritten, MetaWriteFails, bootVars
<1>3. GoodRecord' /\ ProbationIsBounded'
  BY <1>1, <1>2, GoodKept DEF Careful, GoodRecord, ProbationIsBounded, Good
<1>4. exec \in Slots /\ pc \notin {"reboot", "reset"}
  BY <1>1, BootAssumption
     DEF OtaInit, Apply, ShellConfirm, AutoConfirm, ConfirmWritten,
         MetaWriteFails, Base, Placed, TypeOK
<1>5. FirstBoot'
  BY <1>2, <1>4, BootAssumption DEF FirstBoot
<1>6. RecordNamesExec'
  BY <1>2, <1>4 DEF RecordNamesExec, Careful
<1>7. CASE OtaInit
  <2>1. /\ pc' = "app" /\ g_status' = BootStatus(exec, meta.pending, meta.attempts)
    BY <1>7 DEF OtaInit, Base, Written
  <2>2. ~g_status'.update_in_progress /\ ~g_status'.image_ready
    BY <2>1 DEF BootStatus
  <2>3. StagedBesideConfirmed'
    BY <2>2, Zenon DEF StagedBesideConfirmed
  <2> QED BY <1>3, <1>5, <1>6, <2>1, <2>3 DEF Careful, GoodWrite
<1>8. CASE Apply
  <2> DEFINE s == g_status.staging_slot
  <2>1. /\ pc = "app" /\ g_status.image_ready /\ pc' = "erase"
        /\ m' = [active |-> s, pending |-> TRUE, attempts |-> 0]
        /\ after' = "reboot" /\ UNCHANGED g_status
        /\ ~Mislinked(s)
    <3>1. hist'.careless = (hist.careless \/ Mislinked(s))
      BY <1>8 DEF Apply, Base, TypeOK
    <3>2. ~Mislinked(s)
      BY <3>1 DEF Mishap
    <3> QED BY <1>8, <3>2 DEF Apply, StartWrite, ramVars
  <2>2. s \in Slots /\ Other(s) = g_status.active_slot
    BY <1>1 DEF Status, Slots, Other
  <2>3. trial[s] = 0 /\ trial[Other(s)] = Confirmed
    BY <2>1, <2>2
       DEF Base, StagedUntried, Careful, StagedBesideConfirmed
  <2>4. Mislinked(s)' = Mislinked(s)
    <3>1. flash' = flash /\ s' = s
      BY <1>2, <2>1
    <3> QED BY <3>1 DEF Mislinked
  <2>5. /\ m'.pending /\ m'.active = s
    BY <2>1
  <2>6. ~Mislinked(m.active)'
    <3>1. flash' = flash /\ m'.active = s
      BY <1>2, <2>5
    <3> QED BY <2>1, <3>1 DEF Mislinked
  <2>7. Good(m)'
    BY <1>2, <2>3, <2>5, <2>6 DEF Good
  <2>8. GoodWrite'
    BY <2>1, <2>7 DEF GoodWrite
  <2>9. StagedBesideConfirmed'
    BY <1>2, <2>1 DEF Careful, StagedBesideConfirmed
  <2> QED BY <1>3, <1>5, <1>6, <2>1, <2>8, <2>9 DEF Careful
<1>9. ASSUME NEW then \in {"told", "confirmed"}, StartConfirm(then), pc = "app"
      PROVE  Careful'
  <2>1. /\ pc' = "erase" /\ after' = then /\ UNCHANGED g_status
        /\ m' = [Current EXCEPT !.pending = FALSE, !.attempts = 0]
    BY <1>9 DEF StartConfirm, StartWrite, ramVars
  <2>2. Current \in Record /\ Current.active = exec
    <3>1. g_status.active_slot = exec
      BY <1>4, <1>9 DEF Base, Placed
    <3>2. CASE meta = NoMeta
      BY <1>4, <3>1, <3>2, BootAssumption DEF Current, Fresh, Record
    <3>3. CASE meta # NoMeta
      BY <1>1, <1>4, <1>9, <3>3 DEF Current, Careful, RecordNamesExec
    <3> QED BY <3>2, <3>3
  <2>3. m'.active = exec
    BY <2>1, <2>2, SettledRecord
  <2>4. GoodWrite'
    BY <1>2, <2>1, <2>3 DEF GoodWrite
  <2>5. StagedBesideConfirmed'
    BY <1>2, <2>1 DEF Careful, StagedBesideConfirmed
  <2> QED BY <1>3, <1>5, <1>6, <2>1, <2>4, <2>5 DEF Careful
<1>10. CASE ShellConfirm
  BY <1>9, <1>10 DEF ShellConfirm
<1>11. CASE AutoConfirm
  <2>1. CASE OnProbation
    BY <1>9, <1>11, <2>1 DEF AutoConfirm
  <2>2. CASE ~OnProbation
    <3>1. UNCHANGED <<bootVars, g_status>>
      BY <1>11, <2>2 DEF AutoConfirm, ramVars
    <3>2. pc' = "app"
      BY <1>11, <3>1 DEF AutoConfirm, bootVars
    <3>3. StagedBesideConfirmed'
      BY <3>1 DEF Careful, StagedBesideConfirmed, bootVars
    <3> QED BY <1>3, <1>5, <1>6, <3>2, <3>3 DEF Careful, GoodWrite
  <2> QED BY <2>1, <2>2
<1>12. CASE ConfirmWritten \/ MetaWriteFails
  <2>1. /\ pc' = "app"
        /\ g_status'.active_slot = g_status.active_slot
        /\ g_status'.update_in_progress = g_status.update_in_progress
        /\ g_status'.image_ready = g_status.image_ready
    <3>1. \/ g_status' = g_status
          \/ g_status' = [g_status EXCEPT !.pending_verify = FALSE,
                                          !.boot_attempts = 0]
      BY <1>12 DEF ConfirmWritten, MetaWriteFails, ramVars
    <3>2. CASE g_status' = [g_status EXCEPT !.pending_verify = FALSE,
                                            !.boot_attempts = 0]
      <4>1. g_status'.active_slot = g_status.active_slot
        BY <1>1, <3>2 DEF Status
      <4>2. g_status'.update_in_progress = g_status.update_in_progress
        BY <1>1, <3>2 DEF Status
      <4>3. g_status'.image_ready = g_status.image_ready
        BY <1>1, <3>2 DEF Status
      <4> QED BY <1>12, <4>1, <4>2, <4>3 DEF ConfirmWritten, MetaWriteFails
    <3> QED BY <1>12, <3>1, <3>2 DEF ConfirmWritten, MetaWriteFails
  <2>2. StagedBesideConfirmed'
    BY <1>2, <2>1 DEF Careful, StagedBesideConfirmed
  <2> QED BY <1>3, <1>5, <1>6, <2>1, <2>2 DEF Careful, GoodWrite
<1> QED BY <1>7, <1>8, <1>10, <1>11, <1>12

LEMMA DownloadCareful ==
  ASSUME Base, Careful, ~Mishap',
         \/ \E f \in Files : \E d \in {NoFile, f} : Download(f, d)
         \/ DownloadEraseFails \/ Chunk \/ FetchEnds \/ Finish \/ OtherShellAborts
  PROVE  Careful'
<1>1. InApp /\ Stages
  BY DownloadStages
<1>2. /\ pc = "app" /\ UNCHANGED <<meta, m, pc, after, exec, auto>>
      /\ exec \in Slots /\ g_status.active_slot = exec
      /\ g_status.staging_slot = Other(exec) /\ Other(exec) \in Slots
      /\ Other(exec) # exec
      /\ trial \in [Slots -> Confirmed .. MaxAttempts + 1]
  BY <1>1, BootAssumption
     DEF InApp, Base, Placed, TypeOK, StagingTypeOK, Slots, Other
<1>3. /\ flash'[exec] = flash[exec] /\ trial'[exec] = trial[exec]
      /\ trial'[Other(exec)] \in {trial[Other(exec)], 0}
      /\ trial' # trial => trial' = [trial EXCEPT ![Other(exec)] = 0]
  BY <1>1, <1>2 DEF Stages, Replaced
<1>4. trial' # trial => trial[exec] = Confirmed
  <2>1. ASSUME NEW f \in Files, NEW d \in {NoFile, f}, Download(f, d)
        PROVE  trial[exec] = Confirmed
    <3>1. hist'.careless = (hist.careless \/ trial[exec] # Confirmed)
      BY <2>1 DEF Download, Base, TypeOK
    <3> QED BY <3>1 DEF Mishap
  <2>2. CASE DownloadEraseFails
    <3>1. hist'.careless = (hist.careless \/ trial[exec] # Confirmed)
      BY <2>2 DEF DownloadEraseFails, Base, TypeOK
    <3> QED BY <3>1 DEF Mishap
  <2>3. CASE Chunk \/ FetchEnds \/ Finish \/ OtherShellAborts
    BY <2>3 DEF Chunk, FetchEnds, Finish, OtherShellAborts
  <2> QED BY <2>1, <2>2, <2>3
<1>5. GoodRecord'
  <2>1. ASSUME meta # NoMeta PROVE Good(meta)'
    <3>1. Good(meta) /\ meta.active = exec /\ meta \in Record
      BY <1>2, <2>1 DEF Careful, GoodRecord, RecordNamesExec, Base, TypeOK
    <3>2. Mislinked(exec)' = Mislinked(exec)
      BY <1>2, <1>3 DEF Mislinked
    <3>3. CASE meta.pending
      <4>1. trial[exec] >= 0
        BY <3>1, <3>3 DEF Good
      <4>2. trial' = trial
        BY <1>4, <4>1 DEF Confirmed
      <4>3. ~Mislinked(exec)
        BY <3>1, <3>3 DEF Good
      <4>4. ~Mislinked(meta.active)'
        BY <1>2, <1>3, <3>1, <4>3 DEF Mislinked
      <4>5. meta' = meta
        BY <1>2
      <4> QED BY <3>1, <3>3, <4>2, <4>4, <4>5 DEF Good
    <3>4. CASE ~meta.pending
      BY <1>2, <1>3, <3>1, <3>4 DEF Good
    <3> QED BY <3>3, <3>4
  <2> QED BY <1>2, <2>1 DEF GoodRecord
<1>6. GoodWrite' /\ FirstBoot' /\ RecordNamesExec'
  BY <1>2, BootAssumption DEF Careful, GoodWrite, FirstBoot, RecordNamesExec
<1>7. ProbationIsBounded'
  <2>1. \A s \in Slots : trial'[s] \in {trial[s], 0}
    BY <1>2, <1>3 DEF Slots, Other
  <2> QED BY <2>1, BootAssumption DEF Careful, ProbationIsBounded
<1>8. StagedBesideConfirmed'
  <2>1. g_status'.active_slot = exec
    BY <1>1, <1>2 DEF Stages
  <2>2. g_status.update_in_progress \/ g_status.image_ready =>
          trial[exec] = Confirmed
    BY <1>2 DEF Careful, StagedBesideConfirmed
  <2>3. ASSUME NEW f \in Files, NEW d \in {NoFile, f}, Download(f, d)
        PROVE  trial[exec] = Confirmed
    <3>1. hist'.careless = (hist.careless \/ trial[exec] # Confirmed)
      BY <2>3 DEF Download, Base, TypeOK
    <3> QED BY <3>1 DEF Mishap
  <2>4. ASSUME g_status'.update_in_progress \/ g_status'.image_ready,
               DownloadEraseFails \/ Chunk \/ FetchEnds \/ Finish
                 \/ OtherShellAborts
        PROVE  g_status.update_in_progress \/ g_status.image_ready
    BY <2>4
       DEF DownloadEraseFails, Chunk, FetchEnds, Finish, OtherShellAborts,
           BeginIo, ChunkOk, ChunkIo, ChunkRefused, Absorb, Accepts,
           FetchFailed, FinalizeOk, FinalizeFailed, DownloadAborts, ShellAbort,
           Abort, Cleared, Base, TypeOK, StagingTypeOK, Status
  <2>5. g_status'.update_in_progress \/ g_status'.image_ready =>
          trial[exec] = Confirmed
    BY <2>2, <2>3, <2>4
  <2> QED BY <1>3, <2>1, <2>5 DEF StagedBesideConfirmed
<1> QED BY <1>2, <1>5, <1>6, <1>7, <1>8 DEF Careful

LEMMA StepInv == Inv /\ [Next]_vars => Inv'
<1> SUFFICES ASSUME Inv, [Next]_vars, ~Mishap' PROVE Careful'
  BY BaseStep DEF Inv
<1>1. Base /\ hist \in [torn : BOOLEAN, careless : BOOLEAN,
                        mismatch : BOOLEAN, told : BOOLEAN]
  BY DEF Inv, Base, TypeOK
<1>2. CASE BootStep
  <2>1. Careful
    BY <1>2 DEF Inv, BootStep, Mishap
  <2> QED BY <1>1, <1>2, <2>1, MetaCareful, BootloaderCareful DEF BootStep
<1>3. CASE \/ OtaInit \/ Apply \/ ShellConfirm \/ AutoConfirm
           \/ ConfirmWritten \/ MetaWriteFails
  <2>1. hist'.torn = hist.torn /\ (hist.careless => hist'.careless)
    BY <1>1, <1>3
       DEF OtaInit, Apply, ShellConfirm, AutoConfirm, StartConfirm,
           ConfirmWritten, MetaWriteFails
  <2>2. Careful
    BY <2>1 DEF Inv, Mishap
  <2> QED BY <1>1, <1>3, <2>2, AppCareful
<1>4. CASE \/ \E f \in Files : \E d \in {NoFile, f} : Download(f, d)
           \/ DownloadEraseFails \/ Chunk \/ FetchEnds \/ Finish
           \/ OtherShellAborts
  <2>1. hist'.torn = hist.torn /\ (hist.careless => hist'.careless)
    BY <1>1, <1>4
       DEF Download, DownloadEraseFails, Chunk, FetchEnds, Finish,
           OtherShellAborts
  <2>2. Careful
    BY <2>1 DEF Inv, Mishap
  <2> QED BY <1>1, <1>4, <2>2, DownloadCareful
<1>5. CASE Reboot
  <2>1. hist'.torn = hist.torn /\ hist'.careless = hist.careless
    BY <1>1, <1>5 DEF Reboot
  <2>2. Careful /\ pc = "reboot" /\ Restart
    BY <1>5, <2>1 DEF Inv, Mishap, Reboot
  <2>3. meta # NoMeta
    BY <1>1, <2>2, BootAssumption DEF Base, Written, TypeOK
  <2> QED BY <1>1, <2>2, <2>3, RestartCareful
<1>6. CASE PowerLoss
  <2>1. /\ hist'.torn = (\/ hist.torn \/ pc = "program"
                         \/ (meta = NoMeta /\ exec # NoSlot))
        /\ hist'.careless = hist.careless
    BY <1>1, <1>6 DEF PowerLoss
  <2>2. Careful /\ Restart /\ ~(pc = "program" \/ (meta = NoMeta /\ exec # NoSlot))
    BY <1>6, <2>1 DEF Inv, Mishap, PowerLoss
  <2> QED BY <1>1, <2>2, RestartCareful
<1>7. CASE UNCHANGED vars
  <2>1. Careful
    BY <1>7 DEF Inv, Mishap, vars
  <2>2. /\ UNCHANGED <<flash, meta, m, pc, after, exec, trial, g_status>>
        /\ meta \in Record \cup {NoMeta} /\ m \in Record
    BY <1>1, <1>7 DEF vars, bootVars, Base, TypeOK
  <2>3. GoodRecord'
    BY <2>1, <2>2, GoodKept DEF Careful, GoodRecord, Good
  <2>4. GoodWrite'
    BY <2>1, <2>2, GoodKept DEF Careful, GoodWrite, Good
  <2>5. FirstBoot' /\ RecordNamesExec' /\ StagedBesideConfirmed'
        /\ ProbationIsBounded'
    BY <2>1, <2>2 DEF Careful, FirstBoot, RecordNamesExec,
                      StagedBesideConfirmed, ProbationIsBounded
  <2> QED BY <2>1, <2>2, <2>3, <2>4, <2>5 DEF Careful
<1> QED BY <1>2, <1>3, <1>4, <1>5, <1>6, <1>7 DEF Next

-----------------------------------------------------------------------------
(* The state of the whole device is well typed in every reachable state.    *)
THEOREM SystemTypeCorrect == Spec => []TypeOK
<1>1. Inv => TypeOK
  BY DEF Inv, Base
<1> QED BY <1>1, InitInv, StepInv, PTL DEF Spec

(* boot_attempts, as the bootloader finds it after any power cycle, is      *)
(* never less than the boots the image on probation really had.             *)
THEOREM AttemptsNeverLost == Spec => []TrialsAreCounted
<1>1. Inv => TrialsAreCounted
  BY DEF Inv, Base, Counted
<1> QED BY <1>1, InitInv, StepInv, PTL DEF Spec

(* While no record was lost and the operator was careful, no image is       *)
(* booted more than OTA_MAX_BOOT_ATTEMPTS times without being confirmed.    *)
THEOREM ProbationEnds == Spec => []BoundedWithoutMishap
<1>1. Inv => BoundedWithoutMishap
  BY DEF Inv, Careful, BoundedWithoutMishap
<1> QED BY <1>1, InitInv, StepInv, PTL DEF Spec

(* Likewise, a slot that boots without probation was confirmed and runs.    *)
THEOREM SettledSlotWasConfirmed == Spec => []SettledMeansConfirmed
<1>1. Inv => SettledMeansConfirmed
  <2> SUFFICES ASSUME Inv, ~Mishap, meta # NoMeta, ~meta.pending
               PROVE  trial[meta.active] = Confirmed /\ Runs(meta.active)
    BY DEF SettledMeansConfirmed
  <2>1. trial[meta.active] = Confirmed
    BY DEF Inv, Careful, GoodRecord, Good
  <2>2. meta.active \in Slots
    BY DEF Inv, Base, TypeOK, Record
  <2> QED BY <2>1, <2>2 DEF Inv, Base, ConfirmedRuns
<1> QED BY <1>1, InitInv, StepInv, PTL DEF Spec

(* Likewise, the device is never left without an image to boot.             *)
THEOREM NeverNeedsACable == Spec => []NeverStranded
<1>1. Inv => NeverStranded
  BY DEF Inv, Careful, NeverStranded
<1> QED BY <1>1, InitInv, StepInv, PTL DEF Spec

(* No step erases or programs the slot that is being executed from.         *)
THEOREM ExecutionIsSafe == Spec => ExecutingSlotUntouched
<1>1. Inv /\ [Next]_vars =>
        [\A s \in Slots : exec = s => flash'[s] = flash[s]]_vars
  <2> SUFFICES ASSUME Inv, Next, NEW s \in Slots, exec = s
               PROVE  flash'[s] = flash[s]
    OBVIOUS
  <2>1. Base
    BY DEF Inv
  <2>2. CASE \/ \E f \in Files : \E d \in {NoFile, f} : Download(f, d)
             \/ DownloadEraseFails \/ Chunk \/ FetchEnds \/ Finish
             \/ OtherShellAborts
    <3>1. InApp /\ Stages
      BY <2>1, <2>2, DownloadStages
    <3>2. s \in Slots \ {g_status.staging_slot}
      BY <2>1, <3>1 DEF InApp, Base, Placed, TypeOK, StagingTypeOK, Slots, Other
    <3> QED BY <3>1, <3>2 DEF Stages
  <2>3. CASE BootStep
    BY <2>3 DEF BootStep, Bootloader, BootFresh, BootNothing, Rollback,
                CountAttempt, BootSettled, JumpActive, JumpWritten, Jump,
                FallBack, SelectNothing, MetaErase, MetaProgram
  <2>4. CASE OtaInit \/ Apply \/ ShellConfirm \/ AutoConfirm
             \/ ConfirmWritten \/ MetaWriteFails \/ Reboot \/ PowerLoss
    BY <2>4 DEF OtaInit, Apply, ShellConfirm, AutoConfirm, StartConfirm,
                ConfirmWritten, MetaWriteFails, Reboot, PowerLoss, Restart
  <2> QED BY <2>2, <2>3, <2>4 DEF Next
<1> QED BY <1>1, InitInv, StepInv, PTL DEF Spec, ExecutingSlotUntouched
=============================================================================

----------------------------- MODULE OtaSystem -----------------------------
(***************************************************************************)
(* The device under over-the-air update: the bootloader, the application   *)
(* half of ota.c that talks to it (ota_init, ota_apply, ota_confirm), the  *)
(* `ota` command of the shells, the auto-confirm timer of main.c, and loss *)
(* of power at any moment.                                                 *)
(*                                                                         *)
(* One `ota download` runs at a time.  While it waits for the network      *)
(* (dl.at = "fetching" or "failed"), the timer and the other shells run    *)
(* nested in it, so they interleave with its chunks.                       *)
(***************************************************************************)
EXTENDS OtaStaging, OtaBootloader

CONSTANTS
  NoFile,    \* `ota download` given no digest
  ChunkLens  \* how many bytes one piece of the body may have

ASSUME SystemAssumption ==
  /\ NoFile \notin Files
  /\ ChunkLens \subseteq Nat \ {0}
  /\ \A f \in Files : \A i \in 1 .. Length[f] : <<f, i>> \in Byte \ {FF}

VARIABLES
  auto,  \* the 30 s auto-confirm timer is armed
  job,   \* the file being downloaded, and the file of the digest given
  hist   \* history: what happened since the device was first set up

vars == <<flash, g_status, uploadVars, dl, spoiled, bootVars, auto, job, hist>>

ramVars == <<g_status, uploadVars, dl, spoiled>>

NoJob == [file |-> NoFile, digest |-> NoFile]

Init ==
  /\ \E f \in Healthy :
       /\ Link[f] = 0
       /\ flash = [s \in Slots |-> [i \in Offsets |->
                     IF s = 0 /\ i < Length[f] THEN <<f, i + 1>> ELSE FF]]
  /\ meta = NoMeta
  /\ m = Unset
  /\ pc = "reset"
  /\ after = "reset"
  /\ exec = NoSlot
  /\ trial = [s \in Slots |-> IF s = 0 THEN Confirmed ELSE 0]
  /\ g_status = BootStatus(0, FALSE, 0)
  /\ g_page_buf = <<>>
  /\ g_next_page_off = 0
  /\ g_sha = <<>>
  /\ dl = Idle
  /\ spoiled = FALSE
  /\ auto = FALSE
  /\ job = NoJob
  /\ hist = [torn |-> FALSE, careless |-> FALSE,
             mismatch |-> FALSE, told |-> FALSE]

-----------------------------------------------------------------------------
(* Leaving whatever ran: RAM is lost, the bootloader starts over. *)

Restart ==
  /\ pc' = "reset"
  /\ m' = Unset
  /\ after' = "reset"
  /\ exec' = NoSlot
  /\ g_status' = BootStatus(0, FALSE, 0)
  /\ g_page_buf' = <<>>
  /\ g_next_page_off' = 0
  /\ g_sha' = <<>>
  /\ dl' = Idle
  /\ spoiled' = FALSE
  /\ auto' = FALSE
  /\ job' = NoJob
  /\ UNCHANGED <<flash, meta, trial>>

(* Power fails, or the `reboot` command or a crash resets the chip. *)
PowerLoss ==
  /\ pc # "reset"
  /\ Restart
  /\ hist' = [hist EXCEPT
       !.torn = @ \/ pc = "program" \/ (meta = NoMeta /\ exec # NoSlot),
       !.mismatch = FALSE]

(* watchdog_reboot, at the end of ota_apply and of the rollback branch. *)
Reboot ==
  /\ pc = "reboot"
  /\ Restart
  /\ hist' = [hist EXCEPT !.mismatch = FALSE]

(* flash_safe_execute fails in write_metadata of ota.c: before the erase    *)
(* nothing has changed, after it the record is gone.                        *)
MetaWriteFails ==
  /\ pc \in {"erase", "program"}
  /\ exec # NoSlot
  /\ pc' = "app"
  /\ hist' = [hist EXCEPT !.told = @ \/ after = "told"]
  /\ UNCHANGED <<flash, meta, m, after, exec, trial, ramVars, auto, job>>

BootStep ==
  /\ Bootloader \/ MetaErase \/ MetaProgram
  /\ UNCHANGED <<ramVars, auto, job, hist>>

-----------------------------------------------------------------------------
(* ota_init and the rest of main: the application is up. *)

OtaInit ==
  /\ pc = "start"
  /\ IF meta = NoMeta
       THEN /\ g_status' = BootStatus(exec, FALSE, 0)
            /\ StartWrite(Fresh(exec), "app")
       ELSE /\ g_status' = BootStatus(exec, meta.pending, meta.attempts)
            /\ pc' = "app"
            /\ UNCHANGED <<m, after>>
  /\ auto' = TRUE
  /\ UNCHANGED <<flash, meta, exec, trial, uploadVars, dl, spoiled, job, hist>>

(* update_metadata: what the mutator starts from. *)
Current == IF meta = NoMeta THEN Fresh(g_status.active_slot) ELSE meta

(* ota_apply; cmd_apply makes the same check before it. *)
Apply ==
  /\ pc = "app"
  /\ g_status.image_ready
  /\ StartWrite([active |-> g_status.staging_slot,
                 pending |-> TRUE, attempts |-> 0], "reboot")
  /\ hist' = [hist EXCEPT !.told = FALSE,
                !.careless = @ \/ Mislinked(g_status.staging_slot)]
  /\ UNCHANGED <<flash, meta, exec, trial, ramVars, auto, job>>

OnProbation == g_status.pending_verify \/ g_status.boot_attempts # 0

(* ota_confirm up to its flash write; `then` tells the two callers apart. *)
StartConfirm(then) ==
  /\ StartWrite([Current EXCEPT !.pending = FALSE, !.attempts = 0], then)
  /\ UNCHANGED <<flash, meta, exec, trial, ramVars, job, hist>>

ShellConfirm ==
  /\ pc = "app"
  /\ OnProbation
  /\ StartConfirm("told")
  /\ UNCHANGED auto

(* ota_auto_confirm: the timer fires once and is not armed again. *)
AutoConfirm ==
  /\ pc = "app"
  /\ auto
  /\ auto' = FALSE
  /\ IF OnProbation
       THEN StartConfirm("confirmed")
       ELSE UNCHANGED <<flash, bootVars, ramVars, job, hist>>

(* ota_confirm after its write; cmd_confirm then says so to its user. *)
ConfirmWritten ==
  /\ pc \in {"confirmed", "told"}
  /\ pc' = "app"
  /\ g_status' = [g_status EXCEPT !.pending_verify = FALSE,
                                  !.boot_attempts = 0]
  /\ hist' = [hist EXCEPT !.told = @ \/ pc = "told"]
  /\ UNCHANGED <<flash, meta, m, after, exec, trial, uploadVars, dl, spoiled,
                 auto, job>>

-----------------------------------------------------------------------------
(* `ota download` and `ota abort`, in the application. *)

InApp == pc = "app" /\ UNCHANGED <<meta, m, pc, after, exec, auto>>

Replaced == [trial EXCEPT ![g_status.staging_slot] = 0]

Download(f, digest) ==
  /\ InApp
  /\ BeginOk(0)
  /\ job' = [file |-> f, digest |-> digest]
  /\ trial' = Replaced
  /\ hist' = [hist EXCEPT !.careless = @ \/ trial[exec] # Confirmed,
                          !.mismatch = FALSE]

DownloadEraseFails ==
  /\ InApp
  /\ \E k \in 0 .. SlotSectors - 1 :
       /\ BeginIo(0, k)
       /\ trial' = IF k = 0 THEN trial ELSE Replaced
  /\ hist' = [hist EXCEPT !.careless = @ \/ trial[exec] # Confirmed]
  /\ UNCHANGED job

Chunk ==
  /\ InApp
  /\ dl.at = "fetching"
  /\ \E n \in ChunkLens :
       /\ dl.bytes + n <= Length[job.file]
       /\ LET data == SubSeq(Image(job.file), dl.bytes + 1, dl.bytes + n)
          IN  \/ ChunkOk(data)
              \/ \E k \in 0 .. n : ChunkIo(data, k)
              \/ ChunkRefused(data)
  /\ UNCHANGED <<trial, job, hist>>

FetchEnds ==
  /\ InApp
  /\ FetchFailed \/ FinalizeFailed \/ DownloadAborts
  /\ UNCHANGED <<trial, job, hist>>

(* The end of the body, which may have come early; then ota_verify. *)
Finish ==
  /\ InApp
  /\ FinalizeOk
  /\ hist' = [hist EXCEPT !.mismatch =
                job.digest # NoFile /\ g_sha # Image(job.digest)]
  /\ job' = NoJob
  /\ UNCHANGED trial

OtherShellAborts ==
  /\ InApp
  /\ ShellAbort
  /\ UNCHANGED <<trial, job, hist>>

Next ==
  \/ BootStep \/ OtaInit
  \/ Apply \/ ShellConfirm \/ AutoConfirm \/ ConfirmWritten \/ MetaWriteFails
  \/ \E f \in Files : \E d \in {NoFile, f} : Download(f, d)
  \/ DownloadEraseFails \/ Chunk \/ FetchEnds \/ Finish \/ OtherShellAborts
  \/ Reboot \/ PowerLoss

Spec == Init /\ [][Next]_vars

-----------------------------------------------------------------------------
(* history: the device lost its record, or its operator broke a rule of the *)
(* README: replaced the only confirmed image, or used the other slot's .bin *)
Mishap == hist.torn \/ hist.careless

PCs == {"reset", "erase", "program", "select", "jump", "start", "app",
        "confirmed", "told", "reboot", "bootsel", "hung"}

TypeOK ==
  /\ StagingTypeOK
  /\ meta \in Record \cup {NoMeta}
  /\ m \in Record
  /\ pc \in PCs
  /\ after \in PCs
  /\ exec \in Slots \cup {NoSlot}
  /\ trial \in [Slots -> Confirmed .. MaxAttempts + 1]
  /\ auto \in BOOLEAN
  /\ job \in [file : Files \cup {NoFile}, digest : Files \cup {NoFile}]
  /\ hist \in [torn : BOOLEAN, careless : BOOLEAN,
               mismatch : BOOLEAN, told : BOOLEAN]

(* While a record says "pending", the slot it names has been booted at most *)
(* as often as the record says: boot_attempts is never lost or rewound.     *)
TrialsAreCounted ==
  (meta # NoMeta /\ meta.pending) => trial[meta.active] <= meta.attempts

(* ota.h: an image that was not confirmed gets OTA_MAX_BOOT_ATTEMPTS boots. *)
ProbationIsBounded == \A s \in Slots : trial[s] <= MaxAttempts
BoundedWithoutMishap == ~Mishap => ProbationIsBounded

(* A slot that is booted without probation holds an image that confirmed    *)
(* itself since it was written; rollback, fall-back and first boot included *)
SettledMeansConfirmed ==
  (~Mishap /\ meta # NoMeta /\ ~meta.pending) =>
     trial[meta.active] = Confirmed /\ Runs(meta.active)

(* Whatever was downloaded and applied, the device never needs a cable: it  *)
(* is never left in BOOTSEL, and hangs only in an image still on probation. *)
NeverStranded ==
  ~Mishap => /\ pc # "bootsel"
             /\ pc = "hung" => m.pending

(* No erase or program ever hits the slot that is being executed from.      *)
ExecutingSlotUntouched ==
  [][\A s \in Slots : exec = s => flash'[s] = flash[s]]_vars

-----------------------------------------------------------------------------
(* Loss of power does not cut every boot short at the same step (strong     *)
(* fairness of each), and somebody cycles the power of a board that hangs:  *)
(* the code arms no watchdog that would.                                    *)
At(places) == pc \in places /\ (BootStep \/ OtaInit)

Fairness ==
  /\ SF_vars(At({"reset"})) /\ SF_vars(At({"erase"})) /\ SF_vars(At({"program"}))
  /\ SF_vars(At({"select", "jump"})) /\ SF_vars(At({"start"}))
  /\ WF_vars(Reboot)
  /\ WF_vars(pc = "hung" /\ PowerLoss)

FairSpec == Spec /\ Fairness

(* An update that hangs is undone: the device comes back to an image that   *)
(* was confirmed, by power cycles alone.                                    *)
HungComesBack ==
  pc = "hung" ~> (Mishap \/ (pc = "app" /\ trial[exec] = Confirmed))

-----------------------------------------------------------------------------
(* What the documents and the program itself say, and the code does not do. *)

(* cmd_ota.c, after a download whose digest differs: "will not apply". *)
MismatchIsNotApplied ==
  (exec # NoSlot /\ pc \in {"erase", "program"} /\ after = "reboot") =>
     ~hist.mismatch

(* bootloader/main.c: "flip active_slot and reboot into the previous        *)
(* known-good image".                                                       *)
RollbackIsKnownGood ==
  (pc = "reboot" /\ exec = NoSlot /\ ~hist.torn) => trial[m.active] = Confirmed

(* cmd_ota.c, on every return from ota_confirm: "confirmed -- no rollback   *)
(* on next boot".                                                           *)
ToldMeansSettled == (hist.told /\ meta # NoMeta) => ~meta.pending

(* README.md: an image linked for the wrong slot fails its probation and is *)
(* rolled back; so it never becomes the settled one.                        *)
MislinkedIsRolledBack ==
  (meta # NoMeta /\ ~meta.pending /\ ~hist.torn) => ~Mislinked(meta.active)

(* ota.h: the bootloader gives a pending image OTA_MAX_BOOT_ATTEMPTS        *)
(* chances, however the power behaves.                                      *)
PowerLossKeepsProbation == ~hist.careless => ProbationIsBounded
=============================================================================

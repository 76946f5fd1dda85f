---------------------------- MODULE OtaDownload ----------------------------
(***************************************************************************)
(* An application that does nothing but `ota download`, one after another, *)
(* while other shells may run `ota abort`: the streaming half of ota.c and *)
(* its client as a closed system, with what is promised about the bytes    *)
(* that reach the staging slot.                                            *)
(***************************************************************************)
EXTENDS OtaStaging

CONSTANTS
  Chunks,   \* the pieces of an HTTP body that may arrive
  OldSlots  \* what a slot may hold before the first download

ASSUME DownloadAssumption ==
  /\ Chunks \subseteq Seq(Byte) \ {<<>>}
  /\ OldSlots \subseteq [Offsets -> Cell \ {Smear}]

Init ==
  /\ flash \in [Slots -> OldSlots]
  /\ \E self \in Slots : g_status = BootStatus(self, FALSE, 0)
  /\ g_page_buf = <<>>
  /\ g_next_page_off = 0
  /\ g_sha = <<>>
  /\ dl = Idle
  /\ spoiled = FALSE

(* The steps of cmd_download after the erase. *)
Fetch ==
  \/ \E data \in Chunks :
       \/ ChunkOk(data)
       \/ \E k \in 0 .. Len(data) : ChunkIo(data, k)
       \/ ChunkRefused(data)
  \/ FetchFailed
  \/ FinalizeOk
  \/ FinalizeFailed
  \/ DownloadAborts

Next ==
  \/ \E size \in ImageSizes :
       BeginOk(size) \/ \E k \in 0 .. SlotSectors - 1 : BeginIo(size, k)
  \/ Fetch
  \/ ShellAbort

Spec == Init /\ [][Next]_stagingVars

-----------------------------------------------------------------------------
(* While an update runs and no page was lost, the staging slot up to        *)
(* g_next_page_off and the page buffer after it are together exactly the    *)
(* bytes that were hashed, and the rest of the slot is still erased: what   *)
(* ota_write keeps true across chunks that split pages anywhere.            *)
ReceivedIsStored ==
  (g_status.update_in_progress /\ dl.at # "failed") =>
    /\ Len(g_sha) = g_status.bytes_written
    /\ Len(g_sha) = g_next_page_off + Len(g_page_buf)
    /\ \A i \in 1 .. Len(g_page_buf) :
         g_page_buf[i] = g_sha[g_next_page_off + i]
    /\ \A i \in Offsets :
         Staging[i] = IF i < g_next_page_off THEN g_sha[i + 1] ELSE FF

(* The digest ota_verify compares is that of the bytes the bootloader would *)
(* jump to, as long as no later ota_begin stopped half-way through erasing. *)
ReadyImageIsHashed ==
  (g_status.image_ready /\ ~spoiled) =>
    /\ Holds(Staging, g_status.computed_sha256)
    /\ Len(g_status.computed_sha256) = g_status.bytes_written

(* A page that is waiting to be programmed lies inside the staging slot:    *)
(* the length check in ota_write never lets the last, padded page reach the *)
(* next slot or the metadata sector behind slot B.                          *)
WaitingPageInSlot ==
  g_page_buf # <<>> => g_next_page_off + PageSize <= SlotSize

(* No flash page is programmed a second time without an erase, after any    *)
(* sequence of failed pages, aborted downloads and half-finished erases.    *)
NoDoubleProgram == \A s \in Slots, i \in Offsets : flash[s][i] # Smear

(* The slot the application executes from is never erased or programmed. *)
RunningSlotUntouched ==
  [][flash'[g_status.active_slot] = flash[g_status.active_slot]]_stagingVars

(* What the updater promises its caller, without pages and offsets. *)
Promise == INSTANCE StagingPromise WITH
  Capacity <- SlotSize,
  phase    <- IF g_status.update_in_progress THEN "receiving"
              ELSE IF g_status.image_ready /\ ~spoiled THEN "ready"
              ELSE "empty",
  accepted <- IF g_status.update_in_progress THEN g_sha ELSE <<>>,
  image    <- IF ~g_status.update_in_progress /\ g_status.image_ready /\ ~spoiled
                THEN [i \in 1 .. g_status.bytes_written |-> Staging[i - 1]]
                ELSE <<>>

(* ota.c keeps that promise: pages, failures and aborts included. *)
StagingRefinesPromise == Promise!Spec

(* ota.h: image_ready is "finalize succeeded, digest available", and        *)
(* ota_apply "Fails if no image is ready".  A ready image is really there.  *)
ReadyMeansStaged ==
  g_status.image_ready => Holds(Staging, g_status.computed_sha256)

(* When `ota download` has returned, an update is still marked as running   *)
(* (and every later download refused as busy) only if its last, partial     *)
(* page could not be programmed; all other failures end in ota_abort.       *)
BusyOnlyByLostTail ==
  (dl.at = "idle" /\ g_status.update_in_progress) => g_page_buf # <<>>

(* Whatever was refused, aborted or not programmed: the next page has room, *)
(* and a download that has returned leaves nothing running but a lost tail. *)
DownloadInv == WaitingPageInSlot /\ BusyOnlyByLostTail
=============================================================================

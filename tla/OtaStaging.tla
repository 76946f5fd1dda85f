----------------------------- MODULE OtaStaging -----------------------------
(***************************************************************************)
(* The streaming half of picow-ota/src/ota.c (ota_begin, ota_write,        *)
(* ota_finalize, ota_abort) together with its only client, `ota download`  *)
(* (cmd_ota.c).  The client is inside http_get while at = "fetching", and  *)
(* other shells may run commands there: their `ota abort` is ShellAbort.   *)
(*                                                                         *)
(* A digest is modelled by the bytes it was computed from.  Calls that are *)
(* refused without changing anything (OTA_ERR_BUSY, a wrong size) only     *)
(* show in what their client does next.                                    *)
(***************************************************************************)
EXTENDS OtaFlash

CONSTANTS
  ImageSizes,  \* the image_size arguments given to ota_begin; 0 is "unknown"
  NoDigest     \* computed_sha256 cleared to zeros

ASSUME StagingAssumption ==
  ImageSizes \subseteq Nat /\ NoDigest \notin Seq(Byte)

VARIABLES
  g_status,         \* ota_status_t
  g_page_buf,       \* the g_page_buf_len bytes waiting for their page
  g_next_page_off,  \* where that page goes in the staging slot
  g_sha,            \* every byte hashed since ota_begin
  dl,               \* `ota download`: where it is, and dl_state_t.bytes
  spoiled           \* history: an ota_begin failed part-way since finalize

uploadVars  == <<g_page_buf, g_next_page_off, g_sha>>
stagingVars == <<flash, g_status, uploadVars, dl, spoiled>>

Idle    == [at |-> "idle", bytes |-> 0]
Staging == flash[g_status.staging_slot]

(* slip: the staging slot is the one the image was built for *)
StagingIsSelf(self, pending, attempts) ==
  [active_slot |-> Other(self), staging_slot |-> self,
   update_in_progress |-> FALSE, image_ready |-> FALSE,
   pending_verify |-> pending, boot_attempts |-> attempts,
   staging_size |-> 0, bytes_written |-> 0, computed_sha256 |-> NoDigest]

(* g_status as ota_init leaves it in an image built for slot `self`. *)
BootStatus(self, pending, attempts) ==
  [active_slot |-> self, staging_slot |-> Other(self),
   update_in_progress |-> FALSE, image_ready |-> FALSE,
   pending_verify |-> pending, boot_attempts |-> attempts,
   staging_size |-> 0, bytes_written |-> 0, computed_sha256 |-> NoDigest]

(* slip: image_ready survives *)
ClearedStillReady(st, running, size) ==
  [st EXCEPT !.update_in_progress = running, !.staging_size = size,
             !.bytes_written = 0, !.computed_sha256 = NoDigest]

(* slip: the whole of g_status is zeroed, the slots with it *)
ClearedAll(st, running, size) ==
  [BootStatus(0, FALSE, 0) EXCEPT !.staging_slot = 0,
     !.update_in_progress = running, !.staging_size = size]

(* g_status after ota_begin, and after ota_abort, start from a clean sheet. *)
Cleared(st, running, size) ==
  [st EXCEPT !.update_in_progress = running, !.image_ready = FALSE,
             !.staging_size = size, !.bytes_written = 0,
             !.computed_sha256 = NoDigest]

-----------------------------------------------------------------------------
(* ota_begin: erases every sector of the staging slot, one at a time. *)

BeginOk(size) ==
  /\ dl.at = "idle"
  /\ ~g_status.update_in_progress
  /\ size <= SlotSize
  /\ flash' = [flash EXCEPT ![g_status.staging_slot] =
                              EraseSectors(@, SlotSectors)]
  /\ g_status' = Cleared(g_status, TRUE, size)
  /\ g_page_buf' = <<>>
  /\ g_next_page_off' = 0
  /\ g_sha' = <<>>
  /\ dl' = [at |-> "fetching", bytes |-> 0]
  /\ spoiled' = FALSE

(* The erase of sector k failed: OTA_ERR_IO, g_status left as it was. *)
BeginIo(size, k) ==
  /\ dl.at = "idle"
  /\ ~g_status.update_in_progress
  /\ size <= SlotSize
  /\ flash' = [flash EXCEPT ![g_status.staging_slot] = EraseSectors(@, k)]
  /\ spoiled' = g_status.image_ready
  /\ UNCHANGED <<g_status, uploadVars, dl>>

-----------------------------------------------------------------------------
(* ota_write, called by on_chunk for each piece of the HTTP body. *)

(* slip: one byte too many when the size is unknown *)
LimitOffByOne ==
  IF g_status.staging_size # 0 THEN g_status.staging_size ELSE SlotSize + 1

Limit ==
  IF g_status.staging_size # 0 THEN g_status.staging_size ELSE SlotSize

Accepts(offset, data) ==
  /\ g_status.update_in_progress
  /\ data # <<>>
  /\ offset = g_status.bytes_written
  /\ offset + Len(data) <= Limit

(* The bytes that fill whole pages when n bytes are waiting. *)
WholePages(n) == (n \div PageSize) * PageSize

(* `waiting` is the page buffer followed by data: its first n bytes reach   *)
(* the flash, and those after them, up to `kept`, stay in the buffer.       *)
Absorb(data, n, kept) ==
  LET waiting == g_page_buf \o data
  IN  /\ flash' = [flash EXCEPT ![g_status.staging_slot] =
                     Program(@, g_next_page_off, SubSeq(waiting, 1, n))]
      /\ g_page_buf' = SubSeq(waiting, n + 1, kept)
      /\ g_next_page_off' = g_next_page_off + n
      /\ g_sha' = g_sha \o data
      /\ g_status' = [g_status EXCEPT !.bytes_written = @ + Len(data)]
      /\ UNCHANGED spoiled

(* slip: what does not fill a page is dropped *)
ChunkLosesTail(data) ==
  LET whole == WholePages(Len(g_page_buf) + Len(data))
  IN  /\ dl.at = "fetching"
      /\ Accepts(dl.bytes, data)
      /\ Absorb(data, whole, whole)
      /\ dl' = [dl EXCEPT !.bytes = @ + Len(data)]

ChunkOk(data) ==
  LET waiting == Len(g_page_buf) + Len(data)
  IN  /\ dl.at = "fetching"
      /\ Accepts(dl.bytes, data)
      /\ Absorb(data, WholePages(waiting), waiting)
      /\ dl' = [dl EXCEPT !.bytes = @ + Len(data)]

(* Page k of those this chunk completes could not be programmed: the page   *)
(* stays in the buffer, the bytes behind it are dropped.                     *)
ChunkIo(data, k) ==
  /\ dl.at = "fetching"
  /\ Accepts(dl.bytes, data)
  /\ (k + 1) * PageSize <= Len(g_page_buf) + Len(data)
  /\ Absorb(data, k * PageSize, (k + 1) * PageSize)
  /\ dl' = [dl EXCEPT !.at = "failed"]

ChunkRefused(data) ==
  /\ dl.at = "fetching"
  /\ ~Accepts(dl.bytes, data)
  /\ dl' = [dl EXCEPT !.at = "failed"]
  /\ UNCHANGED <<flash, g_status, uploadVars, spoiled>>

(* http_get reports an error or its timeout, or Wi-Fi is down after erasing. *)
FetchFailed ==
  /\ dl.at = "fetching"
  /\ dl' = [dl EXCEPT !.at = "failed"]
  /\ UNCHANGED <<flash, g_status, uploadVars, spoiled>>

-----------------------------------------------------------------------------
(* ota_finalize, when http_get returned HTTP_OK. *)

(* slip: the last, partial page is forgotten *)
NotFlushed == flash

Flushed ==
  [flash EXCEPT ![g_status.staging_slot] =
                  Program(@, g_next_page_off, g_page_buf)]

FinalizeOk ==
  /\ dl.at = "fetching"
  /\ g_status.update_in_progress
  /\ flash' = Flushed
  /\ g_next_page_off' =
       IF g_page_buf = <<>> THEN g_next_page_off ELSE g_next_page_off + PageSize
  /\ g_page_buf' = <<>>
  /\ g_status' = [g_status EXCEPT !.update_in_progress = FALSE,
                                  !.image_ready = TRUE,
                                  !.computed_sha256 = g_sha]
  /\ dl' = Idle
  /\ UNCHANGED <<g_sha, spoiled>>

(* OTA_ERR_IO or OTA_ERR_NOT_STARTED: `ota download` returns without        *)
(* ota_abort, so an update that was in progress stays so.                   *)
FinalizeFailed ==
  /\ dl.at = "fetching"
  /\ g_page_buf # <<>> \/ ~g_status.update_in_progress
  /\ dl' = Idle
  /\ UNCHANGED <<flash, g_status, uploadVars, spoiled>>

-----------------------------------------------------------------------------
(* ota_abort. *)

Abort ==
  /\ IF g_status.update_in_progress
       THEN /\ g_status' = Cleared(g_status, FALSE, 0)
            /\ g_page_buf' = <<>>
            /\ g_next_page_off' = 0
       ELSE UNCHANGED <<g_status, g_page_buf, g_next_page_off>>
  /\ UNCHANGED <<flash, g_sha, spoiled>>

(* slip: a failed download just returns *)
DownloadReturns ==
  dl.at = "failed" /\ dl' = Idle /\ UNCHANGED <<flash, g_status, uploadVars, spoiled>>

DownloadAborts == dl.at = "failed" /\ Abort /\ dl' = Idle

ShellAbort == Abort /\ UNCHANGED dl

-----------------------------------------------------------------------------
(* The types of ota.c's state, and that staging is always the other slot. *)
Status ==
  [active_slot : Slots, staging_slot : Slots,
   update_in_progress : BOOLEAN, image_ready : BOOLEAN,
   pending_verify : BOOLEAN, boot_attempts : Nat,
   staging_size : Nat, bytes_written : Nat,
   computed_sha256 : Seq(Byte) \cup {NoDigest}]

StagingTypeOK ==
  /\ flash \in [Slots -> [Offsets -> Cell]]
  /\ g_status \in Status
  /\ g_status.staging_slot = Other(g_status.active_slot)
  /\ g_page_buf \in Seq(Byte)
  /\ g_next_page_off \in Nat
  /\ g_sha \in Seq(Byte)
  /\ dl \in [at : {"idle", "fetching", "failed"}, bytes : Nat]
  /\ spoiled \in BOOLEAN
=============================================================================

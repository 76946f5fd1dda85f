------------------------- MODULE OtaDownloadProofs -------------------------
(***************************************************************************)
(* What OtaDownload.cfg checks on a slot of six bytes, for every layout,   *)
(* every set of bytes and every way of cutting a body into chunks.         *)
(***************************************************************************)
EXTENDS OtaDownload, OtaStagingProofs

(* While an update runs it is not also announced, and it fits its slot. *)
RunningFits ==
  g_status.update_in_progress =>
    /\ ~g_status.image_ready
    /\ g_status.staging_size <= SlotSize
    /\ g_status.bytes_written <= SlotSize

Inv ==
  /\ StagingTypeOK
  /\ RunningFits
  /\ ReceivedIsStored
  /\ ReadyImageIsHashed
  /\ NoDoubleProgram

(* Programming where the slot is erased from `off` on stores the data there. *)
LEMMA ProgramErased ==
  ASSUME NEW slot \in [Offsets -> Cell], NEW off \in Nat, NEW data \in Seq(Byte),
         \A i \in Offsets : i >= off => slot[i] = FF
  PROVE  \A i \in Offsets :
           Program(slot, off, data)[i] =
             IF i < off THEN slot[i]
             ELSE IF i < off + Len(data) THEN data[i - off + 1] ELSE FF
<1> SUFFICES ASSUME NEW i \in Offsets
             PROVE  Program(slot, off, data)[i] =
                      IF i < off THEN slot[i]
                      ELSE IF i < off + Len(data) THEN data[i - off + 1] ELSE FF
  OBVIOUS
<1>1. i \in Nat /\ Len(data) \in Nat
  BY SlotSizeNat, LenProperties DEF Offsets
<1>2. Program(slot, off, data)[i] =
        IF i \in off .. off + Len(data) - 1
          THEN Burn(slot[i], data[i - off + 1]) ELSE slot[i]
  BY DEF Program
<1> QED BY <1>1, <1>2 DEF Burn

LEMMA InitInv == Init => Inv
<1> SUFFICES ASSUME Init PROVE Inv
  OBVIOUS
<1>1. PICK self \in Slots : g_status = BootStatus(self, FALSE, 0)
  BY DEF Init
<1>2. g_status \in Status /\ g_status.staging_slot = Other(g_status.active_slot)
  BY <1>1 DEF BootStatus, Status, Slots, Other
<1>3. \A s \in Slots : flash[s] \in [Offsets -> Cell \ {Smear}]
  BY DownloadAssumption DEF Init
<1>4. flash \in [Slots -> [Offsets -> Cell]]
  BY <1>3, DownloadAssumption DEF Init
<1>5. NoDoubleProgram
  BY <1>3 DEF NoDoubleProgram
<1>6. ~g_status.update_in_progress /\ ~g_status.image_ready
  BY <1>1 DEF BootStatus
<1>7. StagingTypeOK
  <2>1. <<>> \in Seq(Byte)
    OBVIOUS
  <2>2. g_page_buf = <<>> /\ g_sha = <<>> /\ g_next_page_off = 0 /\ spoiled = FALSE
        /\ dl \in [at : {"idle", "fetching", "failed"}, bytes : Nat]
    BY DEF Init, Idle
  <2> QED BY <1>2, <1>4, <2>1, <2>2 DEF StagingTypeOK
<1> QED BY <1>5, <1>6, <1>7
        DEF Inv, RunningFits, ReceivedIsStored, ReadyImageIsHashed

-----------------------------------------------------------------------------
(* ota_write: the bytes of a chunk end up behind those already received. *)

LEMMA AbsorbStores ==
  ASSUME Inv, g_status.update_in_progress, dl.at # "failed",
         NEW data \in Seq(Byte), NEW n \in Nat, NEW kept \in Nat,
         n <= kept, kept <= Len(g_page_buf) + Len(data),
         Absorb(data, n, kept)
  PROVE  /\ NoDoubleProgram'
         /\ \A i \in Offsets :
              Staging'[i] = IF i < g_next_page_off' THEN g_sha'[i + 1] ELSE FF
         /\ \A i \in 1 .. Len(g_page_buf') :
              g_page_buf'[i] = g_sha'[g_next_page_off' + i]
         /\ Len(g_page_buf') = kept - n
         /\ Len(g_sha') = Len(g_sha) + Len(data)
         /\ Len(g_sha) = g_next_page_off + Len(g_page_buf)
         /\ g_next_page_off' = g_next_page_off + n
<1> DEFINE waiting == g_page_buf \o data
           page    == SubSeq(waiting, 1, n)
           slot    == g_status.staging_slot
<1>1. /\ g_page_buf \in Seq(Byte) /\ g_sha \in Seq(Byte) /\ g_next_page_off \in Nat
      /\ slot \in Slots /\ Staging \in [Offsets -> Cell]
      /\ flash \in [Slots -> [Offsets -> Cell]]
  BY DEF Inv, StagingTypeOK, Status, Staging
<1>2. /\ Len(g_sha) = g_next_page_off + Len(g_page_buf)
      /\ \A i \in 1 .. Len(g_page_buf) : g_page_buf[i] = g_sha[g_next_page_off + i]
      /\ \A i \in Offsets :
           Staging[i] = IF i < g_next_page_off THEN g_sha[i + 1] ELSE FF
  BY DEF Inv, ReceivedIsStored
<1>3. /\ waiting \in Seq(Byte) /\ Len(waiting) = Len(g_page_buf) + Len(data)
      /\ \A i \in 1 .. Len(waiting) :
           waiting[i] = IF i <= Len(g_page_buf) THEN g_page_buf[i]
                        ELSE data[i - Len(g_page_buf)]
  BY <1>1, ConcatProperties
<1>4. /\ Len(g_sha \o data) = Len(g_sha) + Len(data)
      /\ \A i \in 1 .. Len(g_sha) + Len(data) :
           (g_sha \o data)[i] = IF i <= Len(g_sha) THEN g_sha[i]
                                ELSE data[i - Len(g_sha)]
  BY <1>1, ConcatProperties
<1>5. Len(g_page_buf) \in Nat /\ Len(data) \in Nat /\ Len(g_sha) \in Nat
  BY <1>1, LenProperties
<1>6. \A i \in 1 .. Len(waiting) : waiting[i] = (g_sha \o data)[g_next_page_off + i]
  BY <1>1, <1>2, <1>3, <1>4, <1>5
<1>7. /\ page \in Seq(Byte) /\ Len(page) = n
      /\ \A i \in 1 .. n : page[i] = waiting[i]
  BY <1>3, <1>5, SubSeqProperties
<1>8. /\ Len(SubSeq(waiting, n + 1, kept)) = kept - n
      /\ \A i \in 1 .. kept - n : SubSeq(waiting, n + 1, kept)[i] = waiting[n + i]
  BY <1>3, <1>5, SubSeqProperties
<1>9. /\ g_page_buf' = SubSeq(waiting, n + 1, kept)
      /\ g_next_page_off' = g_next_page_off + n
      /\ g_sha' = g_sha \o data
      /\ flash' = [flash EXCEPT ![slot] = Program(Staging, g_next_page_off, page)]
      /\ g_status'.staging_slot = slot
  <2>1. g_status' = [g_status EXCEPT !.bytes_written =
                                      g_status.bytes_written + Len(data)]
    BY DEF Absorb
  <2>2. g_status'.staging_slot = slot
    BY <2>1 DEF Inv, StagingTypeOK, Status
  <2> QED BY <2>2 DEF Absorb, Staging
<1>10. Staging' = Program(Staging, g_next_page_off, page)
  BY <1>1, <1>9 DEF Staging
<1>11. \A i \in Offsets : i \in Nat
  BY SlotSizeNat DEF Offsets
<1>12. \A i \in Offsets :
         Staging'[i] = IF i < g_next_page_off THEN Staging[i]
                       ELSE IF i < g_next_page_off + n
                         THEN page[i - g_next_page_off + 1] ELSE FF
  <2>1. \A i \in Offsets : i >= g_next_page_off => Staging[i] = FF
    BY <1>1, <1>2, <1>11
  <2> QED BY <1>1, <1>7, <1>10, <2>1, ProgramErased
<1>13. \A i \in Offsets :
         Staging'[i] = IF i < g_next_page_off' THEN g_sha'[i + 1] ELSE FF
  <2> TAKE i \in Offsets
  <2>1. i \in Nat
    BY <1>11
  <2>2. CASE i < g_next_page_off
    <3>1. Staging'[i] = g_sha[i + 1]
      BY <1>2, <1>12, <2>2
    <3>2. g_sha'[i + 1] = g_sha[i + 1]
      BY <1>1, <1>2, <1>4, <1>5, <1>9, <2>1, <2>2
    <3> QED BY <1>1, <1>9, <2>1, <2>2, <3>1, <3>2
  <2>3. CASE i >= g_next_page_off /\ i < g_next_page_off + n
    <3>1. i - g_next_page_off + 1 \in 1 .. n
      BY <1>1, <2>1, <2>3
    <3>2. Staging'[i] = waiting[i - g_next_page_off + 1]
      <4>1. Staging'[i] = page[i - g_next_page_off + 1]
        BY <1>1, <1>12, <2>1, <2>3
      <4> QED BY <1>7, <3>1, <4>1
    <3>3. i - g_next_page_off + 1 \in 1 .. Len(waiting)
      BY <1>3, <1>5, <3>1
    <3>4. g_next_page_off + (i - g_next_page_off + 1) = i + 1
      BY <1>1, <2>1
    <3>5. waiting[i - g_next_page_off + 1] = (g_sha \o data)[i + 1]
      BY <1>6, <3>3, <3>4
    <3> QED BY <1>9, <2>3, <3>2, <3>5
  <2>4. CASE i >= g_next_page_off + n
    <3>1. ~(i < g_next_page_off) /\ ~(i < g_next_page_off + n)
      BY <1>1, <2>1, <2>4
    <3>2. Staging'[i] = FF
      BY <1>12, <3>1
    <3> QED BY <1>9, <3>1, <3>2
  <2> QED BY <1>1, <2>1, <2>2, <2>3, <2>4
<1>14. \A i \in 1 .. Len(g_page_buf') :
         g_page_buf'[i] = g_sha'[g_next_page_off' + i]
  <2> TAKE i \in 1 .. Len(g_page_buf')
  <2>1. i \in 1 .. kept - n
    BY <1>8, <1>9
  <2>2. g_page_buf'[i] = waiting[n + i]
    BY <1>8, <1>9, <2>1
  <2>3. n + i \in 1 .. Len(waiting)
    BY <1>3, <1>5, <2>1
  <2>4. waiting[n + i] = (g_sha \o data)[g_next_page_off + (n + i)]
    BY <1>6, <2>3
  <2>5. g_next_page_off + (n + i) = g_next_page_off' + i
    BY <1>1, <1>9, <2>1
  <2> QED BY <1>9, <2>2, <2>4, <2>5
<1>15. NoDoubleProgram'
  <2>1. \A i \in Offsets : Staging'[i] # Smear
    <3> TAKE i \in Offsets
    <3>1. i \in Nat /\ Staging[i] # Smear
      BY <1>1, <1>11 DEF Inv, NoDoubleProgram, Staging
    <3>2. CASE i >= g_next_page_off /\ i < g_next_page_off + n
      <4>1. i - g_next_page_off + 1 \in 1 .. Len(page)
        BY <1>1, <1>7, <3>1, <3>2
      <4>2. page[i - g_next_page_off + 1] \in Byte
        BY <1>7, <4>1
      <4> QED BY <1>1, <1>12, <3>1, <3>2, <4>2, LayoutAssumption
    <3> QED BY <1>1, <1>12, <3>1, <3>2, LayoutAssumption
  <2>2. \A s \in Slots \ {slot} : flash'[s] = flash[s]
    BY <1>1, <1>9
  <2> QED BY <1>9, <2>1, <2>2 DEF Inv, NoDoubleProgram, Staging
<1> QED BY <1>2, <1>4, <1>8, <1>9, <1>13, <1>14, <1>15

-----------------------------------------------------------------------------
(* Each step keeps the invariant. *)

LEMMA BeginInv ==
  ASSUME Inv, NEW size \in Nat,
         BeginOk(size) \/ \E k \in 0 .. SlotSectors - 1 : BeginIo(size, k)
  PROVE  Inv'
<1>1. StagingTypeOK' /\ \A s \in Slots \ {g_status.staging_slot} : flash'[s] = flash[s]
  BY BeginType DEF Inv
<1>2. /\ g_status \in Status /\ g_status.staging_slot \in Slots
      /\ flash \in [Slots -> [Offsets -> Cell]] /\ Staging \in [Offsets -> Cell]
  BY DEF Inv, StagingTypeOK, Status, Staging
<1>3. ASSUME NEW k \in Nat,
             flash' = [flash EXCEPT ![g_status.staging_slot] = EraseSectors(Staging, k)]
      PROVE  NoDoubleProgram'
  <2>1. \A i \in Offsets : EraseSectors(Staging, k)[i] \in {FF, Staging[i]}
    BY <1>2, EraseType
  <2> QED BY <1>1, <1>2, <1>3, <2>1, LayoutAssumption
          DEF Inv, NoDoubleProgram, Staging
<1>4. CASE BeginOk(size)
  <2>1. /\ g_status' = Cleared(g_status, TRUE, size) /\ size <= SlotSize
        /\ g_page_buf' = <<>> /\ g_sha' = <<>> /\ g_next_page_off' = 0
        /\ flash' = [flash EXCEPT ![g_status.staging_slot] =
                                    EraseSectors(Staging, SlotSectors)]
    BY <1>4 DEF BeginOk, Staging
  <2>2. /\ g_status'.update_in_progress /\ ~g_status'.image_ready
        /\ g_status'.staging_size = size /\ g_status'.bytes_written = 0
        /\ g_status'.staging_slot = g_status.staging_slot
    BY <1>2, <2>1 DEF Cleared, Status
  <2>3. NoDoubleProgram'
    BY <1>3, <2>1, LayoutAssumption
  <2>4. \A i \in Offsets : Staging'[i] = FF
    <3>1. Staging' = EraseSectors(Staging, SlotSectors)
      BY <1>2, <2>1, <2>2 DEF Staging
    <3>2. SlotSectors \in Nat
      BY LayoutAssumption
    <3>3. \A i \in Offsets : EraseSectors(Staging, SlotSectors)[i] = FF
      BY <1>2, <3>2, EraseType
    <3> QED BY <3>1, <3>3
  <2>5. RunningFits' /\ ReadyImageIsHashed'
    <3>1. RunningFits'
      <4>1. ~g_status'.image_ready
        BY <2>2, Zenon
      <4>2. g_status'.staging_size <= SlotSize /\ g_status'.bytes_written <= SlotSize
        <5>1. g_status'.staging_size = size /\ g_status'.bytes_written = 0
          BY <2>2, Zenon
        <5> QED BY <5>1, <2>1, SlotSizeNat
      <4> QED BY <4>1, <4>2, Zenon DEF RunningFits
    <3>2. ~g_status'.image_ready
      BY <2>2, Zenon
    <3>3. ReadyImageIsHashed'
      BY <3>2, Zenon DEF ReadyImageIsHashed
    <3> QED BY <3>1, <3>3
  <2>6. ReceivedIsStored'
    <3>1. Len(g_sha') = 0 /\ Len(g_page_buf') = 0
      BY <2>1
    <3>2. \A i \in Offsets : ~(i < g_next_page_off')
      BY <2>1, SlotSizeNat DEF Offsets
    <3>3. \A i \in 1 .. Len(g_page_buf') :
            g_page_buf'[i] = g_sha'[g_next_page_off' + i]
      BY <3>1
    <3>4. /\ Len(g_sha') = g_status'.bytes_written
          /\ Len(g_sha') = g_next_page_off' + Len(g_page_buf')
      <4>1. g_status'.bytes_written = 0
        BY <2>2, Zenon
      <4> QED BY <4>1, <2>1, <3>1
    <3>5. \A i \in Offsets :
            Staging'[i] = IF i < g_next_page_off' THEN g_sha'[i + 1] ELSE FF
      BY <2>4, <3>2
    <3> QED BY <3>3, <3>4, <3>5 DEF ReceivedIsStored
  <2> QED BY <1>1, <2>3, <2>5, <2>6 DEF Inv
<1>5. ASSUME NEW k \in 0 .. SlotSectors - 1, BeginIo(size, k) PROVE Inv'
  <2>1. /\ g_status' = g_status /\ ~g_status.update_in_progress
        /\ spoiled' = g_status.image_ready
        /\ flash' = [flash EXCEPT ![g_status.staging_slot] = EraseSectors(Staging, k)]
    BY <1>5 DEF BeginIo, Staging
  <2>2. NoDoubleProgram'
    <3>1. k \in Nat
      BY LayoutAssumption
    <3> QED BY <1>3, <2>1, <3>1
  <2> QED BY <1>1, <2>1, <2>2
          DEF Inv, RunningFits, ReceivedIsStored, ReadyImageIsHashed
<1> QED BY <1>4, <1>5

LEMMA ChunkInv ==
  ASSUME Inv, NEW data \in Seq(Byte),
         \/ ChunkOk(data)
         \/ \E k \in Nat : ChunkIo(data, k)
         \/ ChunkRefused(data)
  PROVE  Inv'
<1> DEFINE waiting == Len(g_page_buf) + Len(data)
<1>1. StagingTypeOK'
  BY ChunkType DEF Inv
<1>2. waiting \in Nat /\ Len(data) \in Nat /\ g_status \in Status
  BY LenProperties DEF Inv, StagingTypeOK
<1>3. ASSUME NEW n \in Nat, NEW kept \in Nat,
             Absorb(data, n, kept), Accepts(dl.bytes, data)
      PROVE  /\ RunningFits' /\ ReadyImageIsHashed'
             /\ g_status'.bytes_written = g_status.bytes_written + Len(data)
             /\ g_status.update_in_progress
  <2>1. g_status' = [g_status EXCEPT !.bytes_written =
                                      g_status.bytes_written + Len(data)]
    BY <1>3 DEF Absorb
  <2>2. /\ g_status'.bytes_written = g_status.bytes_written + Len(data)
        /\ g_status'.update_in_progress = g_status.update_in_progress
        /\ g_status'.image_ready = g_status.image_ready
        /\ g_status'.staging_size = g_status.staging_size
    BY <1>2, <2>1 DEF Status
  <2>3. /\ g_status.update_in_progress
        /\ ~g_status.image_ready
        /\ g_status.staging_size <= SlotSize
    BY <1>3 DEF Accepts, Inv, RunningFits
  <2>4. g_status.bytes_written + Len(data) <= SlotSize
    BY <1>2, <1>3, <2>3, SlotSizeNat DEF Accepts, Limit, Status
  <2> QED BY <2>2, <2>3, <2>4 DEF RunningFits, ReadyImageIsHashed
<1>4. CASE ChunkOk(data)
  <2>1. /\ Absorb(data, WholePages(waiting), waiting) /\ Accepts(dl.bytes, data)
        /\ dl.at # "failed"
    BY <1>4 DEF ChunkOk
  <2>2. WholePages(waiting) \in Nat /\ WholePages(waiting) <= waiting
    BY <1>2, WholePagesBound
  <2>3. /\ RunningFits' /\ ReadyImageIsHashed'
        /\ g_status'.bytes_written = g_status.bytes_written + Len(data)
        /\ g_status.update_in_progress
    BY <1>2, <1>3, <2>1, <2>2
  <2>4. /\ NoDoubleProgram'
        /\ \A i \in Offsets :
             Staging'[i] = IF i < g_next_page_off' THEN g_sha'[i + 1] ELSE FF
        /\ \A i \in 1 .. Len(g_page_buf') :
             g_page_buf'[i] = g_sha'[g_next_page_off' + i]
        /\ Len(g_page_buf') = waiting - WholePages(waiting)
        /\ Len(g_sha') = Len(g_sha) + Len(data)
        /\ Len(g_sha) = g_next_page_off + Len(g_page_buf)
        /\ g_next_page_off' = g_next_page_off + WholePages(waiting)
    BY <1>2, <2>1, <2>2, <2>3, AbsorbStores
  <2>5. Len(g_sha) = g_status.bytes_written
    BY <2>1, <2>3 DEF Inv, ReceivedIsStored
  <2>6. Len(g_page_buf) \in Nat /\ g_next_page_off \in Nat /\ Len(g_sha) \in Nat
    BY LenProperties DEF Inv, StagingTypeOK
  <2>7. Len(g_sha') = g_next_page_off' + Len(g_page_buf')
    BY <1>2, <2>2, <2>4, <2>6
  <2>8. ReceivedIsStored'
    BY <2>3, <2>4, <2>5, <2>7 DEF ReceivedIsStored
  <2> QED BY <1>1, <2>3, <2>4, <2>8 DEF Inv
<1>5. ASSUME NEW k \in Nat, ChunkIo(data, k) PROVE Inv'
  <2>1. /\ Absorb(data, k * PageSize, (k + 1) * PageSize)
        /\ Accepts(dl.bytes, data) /\ dl.at # "failed"
        /\ (k + 1) * PageSize <= waiting
    BY <1>5 DEF ChunkIo
  <2>2. /\ k * PageSize \in Nat
        /\ (k + 1) * PageSize \in Nat
        /\ k * PageSize <= (k + 1) * PageSize
    BY LayoutAssumption
  <2>3. RunningFits' /\ ReadyImageIsHashed' /\ g_status.update_in_progress
    BY <1>3, <2>1, <2>2
  <2>4. NoDoubleProgram'
    BY <1>2, <2>1, <2>2, <2>3, AbsorbStores
  <2>5. dl'.at = "failed"
    BY <1>5 DEF ChunkIo, Inv, StagingTypeOK
  <2> QED BY <1>1, <2>3, <2>4, <2>5 DEF Inv, ReceivedIsStored
<1>6. CASE ChunkRefused(data)
  <2>1. /\ UNCHANGED <<flash, g_status, uploadVars, spoiled>>
        /\ dl'.at = "failed"
    BY <1>6 DEF ChunkRefused, Inv, StagingTypeOK
  <2> QED BY <1>1, <2>1 DEF Inv, RunningFits, ReceivedIsStored,
             ReadyImageIsHashed, NoDoubleProgram, Staging, uploadVars
<1> QED BY <1>4, <1>5, <1>6

LEMMA FinalizeInv ==
  ASSUME Inv, FinalizeOk \/ FinalizeFailed
  PROVE  Inv'
<1>1. StagingTypeOK' /\ \A s \in Slots \ {g_status.staging_slot} : flash'[s] = flash[s]
  BY FinalizeType DEF Inv
<1>2. /\ g_status \in Status /\ g_status.staging_slot \in Slots
      /\ flash \in [Slots -> [Offsets -> Cell]] /\ Staging \in [Offsets -> Cell]
      /\ g_page_buf \in Seq(Byte) /\ g_sha \in Seq(Byte) /\ g_next_page_off \in Nat
  BY DEF Inv, StagingTypeOK, Status, Staging
<1>3. CASE FinalizeOk
  <2>1. /\ g_status.update_in_progress /\ dl.at # "failed"
        /\ flash' = [flash EXCEPT ![g_status.staging_slot] =
                       Program(Staging, g_next_page_off, g_page_buf)]
        /\ g_status' = [g_status EXCEPT !.update_in_progress = FALSE,
                                        !.image_ready = TRUE,
                                        !.computed_sha256 = g_sha]
    BY <1>3 DEF FinalizeOk, Flushed, Staging
  <2>2. /\ ~g_status'.update_in_progress /\ g_status'.computed_sha256 = g_sha
        /\ g_status'.bytes_written = g_status.bytes_written
        /\ g_status'.staging_slot = g_status.staging_slot
    BY <1>2, <2>1 DEF Status
  <2>3. /\ Len(g_sha) = g_status.bytes_written
        /\ Len(g_sha) = g_next_page_off + Len(g_page_buf)
        /\ \A i \in 1 .. Len(g_page_buf) :
             g_page_buf[i] = g_sha[g_next_page_off + i]
        /\ \A i \in Offsets :
             Staging[i] = IF i < g_next_page_off THEN g_sha[i + 1] ELSE FF
        /\ g_status.bytes_written <= SlotSize
    BY <2>1 DEF Inv, ReceivedIsStored, RunningFits
  <2>4. Len(g_page_buf) \in Nat /\ \A i \in Offsets : i \in Nat
    BY <1>2, LenProperties, SlotSizeNat DEF Offsets
  <2>5. \A i \in Offsets : i >= g_next_page_off => Staging[i] = FF
    BY <1>2, <2>3, <2>4
  <2>6. \A i \in Offsets :
          Staging'[i] = IF i < g_next_page_off THEN Staging[i]
                        ELSE IF i < g_next_page_off + Len(g_page_buf)
                          THEN g_page_buf[i - g_next_page_off + 1] ELSE FF
    <3>1. Staging' = Program(Staging, g_next_page_off, g_page_buf)
      BY <1>2, <2>1, <2>2 DEF Staging
    <3> QED BY <1>2, <2>5, <3>1, ProgramErased
  <2>7. \A i \in Offsets : Staging'[i] = IF i < Len(g_sha) THEN g_sha[i + 1] ELSE FF
    <3> TAKE i \in Offsets
    <3>1. i \in Nat
      BY <2>4
    <3>2. CASE i < g_next_page_off
      <4>1. Staging'[i] = g_sha[i + 1]
        BY <2>3, <2>6, <3>2
      <4> QED BY <1>2, <2>3, <2>4, <3>1, <3>2, <4>1
    <3>3. CASE i >= g_next_page_off /\ i < g_next_page_off + Len(g_page_buf)
      <4>1. i - g_next_page_off + 1 \in 1 .. Len(g_page_buf)
        BY <1>2, <2>4, <3>1, <3>3
      <4>2. g_next_page_off + (i - g_next_page_off + 1) = i + 1
        BY <1>2, <3>1
      <4>3. g_page_buf[i - g_next_page_off + 1] = g_sha[i + 1]
        BY <2>3, <4>1, <4>2
      <4>4. Staging'[i] = g_page_buf[i - g_next_page_off + 1]
        BY <1>2, <2>6, <3>1, <3>3
      <4> QED BY <2>3, <3>3, <4>3, <4>4
    <3>4. CASE i >= g_next_page_off + Len(g_page_buf)
      <4>1. ~(i < g_next_page_off) /\ ~(i < g_next_page_off + Len(g_page_buf))
        BY <1>2, <2>4, <3>1, <3>4
      <4> QED BY <2>3, <2>6, <4>1
    <3> QED BY <1>2, <2>4, <3>1, <3>2, <3>3, <3>4
  <2>8. ReadyImageIsHashed'
    <3>1. Holds(Staging', g_sha)
      BY <2>3, <2>7 DEF Holds
    <3>2. Holds(Staging', g_status'.computed_sha256)
      BY <2>2, <3>1
    <3>3. Len(g_status'.computed_sha256) = g_status'.bytes_written
      BY <2>2, <2>3
    <3> QED BY <3>2, <3>3 DEF ReadyImageIsHashed
  <2>9. NoDoubleProgram'
    <3>1. \A i \in Offsets : Staging'[i] # Smear
      <4> TAKE i \in Offsets
      <4>1. CASE i < Len(g_sha)
        <5>1. i + 1 \in 1 .. Len(g_sha)
          BY <1>2, <2>4, <4>1, LenProperties
        <5>2. g_sha[i + 1] \in Byte
          BY <1>2, <5>1
        <5> QED BY <2>7, <4>1, <5>2, LayoutAssumption
      <4>2. CASE ~(i < Len(g_sha))
        BY <2>7, <4>2, LayoutAssumption
      <4> QED BY <4>1, <4>2
    <3>2. flash'[g_status.staging_slot] = Staging'
      BY <2>2 DEF Staging
    <3> QED BY <1>1, <3>1, <3>2 DEF Inv, NoDoubleProgram
  <2> QED BY <1>1, <2>2, <2>8, <2>9 DEF Inv, RunningFits, ReceivedIsStored
<1>4. CASE FinalizeFailed
  <2>1. UNCHANGED <<flash, g_status, uploadVars, spoiled>> /\ dl.at # "failed"
    BY <1>4 DEF FinalizeFailed
  <2> QED BY <1>1, <2>1 DEF Inv, RunningFits, ReceivedIsStored,
             ReadyImageIsHashed, NoDoubleProgram, Staging, uploadVars
<1> QED BY <1>3, <1>4

LEMMA AbortInv ==
  ASSUME Inv, ShellAbort \/ DownloadAborts \/ FetchFailed
  PROVE  Inv'
<1>1. StagingTypeOK' /\ flash' = flash
  BY AbortType DEF Inv
<1>2. NoDoubleProgram'
  BY <1>1 DEF Inv, NoDoubleProgram
<1>3. CASE FetchFailed
  <2>1. UNCHANGED <<flash, g_status, uploadVars, spoiled>> /\ dl'.at = "failed"
    BY <1>3 DEF FetchFailed, Inv, StagingTypeOK
  <2> QED BY <1>1, <1>2, <2>1 DEF Inv, RunningFits, ReceivedIsStored,
             ReadyImageIsHashed, Staging, uploadVars
<1>4. CASE Abort /\ g_status.update_in_progress
  <2>1. g_status' = Cleared(g_status, FALSE, 0)
    BY <1>4 DEF Abort
  <2>2. ~g_status'.update_in_progress /\ ~g_status'.image_ready
    BY <2>1 DEF Cleared, Inv, StagingTypeOK, Status
  <2> QED BY <1>1, <1>2, <2>2 DEF Inv, RunningFits, ReceivedIsStored,
             ReadyImageIsHashed
<1>5. CASE Abort /\ ~g_status.update_in_progress
  <2>1. UNCHANGED <<flash, g_status, spoiled>>
    BY <1>5 DEF Abort
  <2> QED BY <1>1, <1>2, <1>5, <2>1 DEF Inv, RunningFits, ReceivedIsStored,
             ReadyImageIsHashed, Staging
<1> QED BY <1>3, <1>4, <1>5 DEF ShellAbort, DownloadAborts

-----------------------------------------------------------------------------
LEMMA StepInv == Inv /\ [Next]_stagingVars => Inv'
<1> SUFFICES ASSUME Inv, [Next]_stagingVars PROVE Inv'
  OBVIOUS
<1>1. ASSUME NEW size \in ImageSizes,
             BeginOk(size) \/ \E k \in 0 .. SlotSectors - 1 : BeginIo(size, k)
      PROVE  Inv'
  <2>1. size \in Nat
    BY StagingAssumption
  <2> QED BY <1>1, <2>1, BeginInv
<1>2. ASSUME NEW data \in Chunks,
             \/ ChunkOk(data)
             \/ \E k \in 0 .. Len(data) : ChunkIo(data, k)
             \/ ChunkRefused(data)
      PROVE  Inv'
  <2>1. data \in Seq(Byte)
    BY DownloadAssumption
  <2>2. 0 .. Len(data) \subseteq Nat
    BY <2>1, LenProperties
  <2> QED BY <1>2, <2>1, <2>2, ChunkInv
<1>3. CASE FinalizeOk \/ FinalizeFailed
  BY <1>3, FinalizeInv
<1>4. CASE ShellAbort \/ DownloadAborts \/ FetchFailed
  BY <1>4, AbortInv
<1>5. CASE UNCHANGED stagingVars
  BY <1>5 DEF stagingVars, uploadVars, Inv, StagingTypeOK, RunningFits,
     ReceivedIsStored, ReadyImageIsHashed, NoDoubleProgram, Staging
<1> QED BY <1>1, <1>2, <1>3, <1>4, <1>5 DEF Next, Fetch

(* The state of the updater is well typed, and staging is the slot the      *)
(* application does not run from.                                           *)
THEOREM StagingTypeCorrect == Spec => []StagingTypeOK
<1>1. Inv => StagingTypeOK
  BY DEF Inv
<1> QED BY <1>1, InitInv, StepInv, PTL DEF Spec

(* ota_write stores exactly the bytes that were hashed, in order.           *)
THEOREM ReceivedBytesAreStored == Spec => []ReceivedIsStored
<1>1. Inv => ReceivedIsStored
  BY DEF Inv
<1> QED BY <1>1, InitInv, StepInv, PTL DEF Spec

(* An announced image is in the slot, byte for byte what the digest is of.  *)
THEOREM ReadyImageIsTheHashedOne == Spec => []ReadyImageIsHashed
<1>1. Inv => ReadyImageIsHashed
  BY DEF Inv
<1> QED BY <1>1, InitInv, StepInv, PTL DEF Spec

(* No page is programmed twice without an erase.                            *)
THEOREM EveryPageProgrammedOnce == Spec => []NoDoubleProgram
<1>1. Inv => NoDoubleProgram
  BY DEF Inv
<1> QED BY <1>1, InitInv, StepInv, PTL DEF Spec

(* The slot the application runs from is left alone by every step.          *)
THEOREM UpdaterSparesRunningSlot == Spec => RunningSlotUntouched
<1>1. Inv /\ [Next]_stagingVars =>
        [flash'[g_status.active_slot] = flash[g_status.active_slot]]_stagingVars
  <2> SUFFICES ASSUME Inv, Next
               PROVE  flash'[g_status.active_slot] = flash[g_status.active_slot]
    OBVIOUS
  <2>1. g_status.active_slot \in Slots \ {g_status.staging_slot}
    BY DEF Inv, StagingTypeOK, Status, Slots, Other
  <2>2. ASSUME NEW size \in ImageSizes,
               BeginOk(size) \/ \E k \in 0 .. SlotSectors - 1 : BeginIo(size, k)
        PROVE  flash'[g_status.active_slot] = flash[g_status.active_slot]
    BY <2>1, <2>2, StagingAssumption, BeginType DEF Inv
  <2>3. ASSUME NEW data \in Chunks,
               \/ ChunkOk(data)
               \/ \E k \in 0 .. Len(data) : ChunkIo(data, k)
               \/ ChunkRefused(data)
        PROVE  flash'[g_status.active_slot] = flash[g_status.active_slot]
    <3>1. data \in Seq(Byte)
      BY DownloadAssumption
    <3>2. 0 .. Len(data) \subseteq Nat
      BY <3>1, LenProperties
    <3> QED BY <2>1, <2>3, <3>1, <3>2, ChunkType DEF Inv
  <2>4. CASE FinalizeOk \/ FinalizeFailed
    BY <2>1, <2>4, FinalizeType DEF Inv
  <2>5. CASE ShellAbort \/ DownloadAborts \/ FetchFailed
    BY <2>5, AbortType DEF Inv
  <2> QED BY <2>2, <2>3, <2>4, <2>5 DEF Next, Fetch
<1> QED BY <1>1, InitInv, StepInv, PTL DEF Spec, RunningSlotUntouched
-----------------------------------------------------------------------------
(* Where the next page goes: on a page boundary, and inside the slot. *)

Aligned == \E q \in Nat : g_next_page_off = q * PageSize

PageInv ==
  /\ Inv
  /\ Aligned
  /\ WaitingPageInSlot
  /\ BusyOnlyByLostTail

(* Between two multiples of the page size there is room for a page. *)
LEMMA MultiplesApart ==
  ASSUME NEW a \in Nat, NEW b \in Nat, a * PageSize < b * PageSize
  PROVE  a * PageSize + PageSize <= b * PageSize
<1>1. a < b
  <2> SUFFICES ASSUME b <= a PROVE FALSE
    OBVIOUS
  <2>1. PICK d \in Nat : a = b + d
    <3>1. a - b \in Nat /\ a = b + (a - b)
      OBVIOUS
    <3> QED BY <3>1
  <2>2. a * PageSize = b * PageSize + d * PageSize /\ d * PageSize \in Nat
        /\ b * PageSize \in Nat
    BY <2>1, LayoutAssumption
  <2> QED BY <2>2
<1>2. PICK d \in Nat : b = a + 1 + d
  <2>1. b - a - 1 \in Nat /\ b = a + 1 + (b - a - 1)
    BY <1>1
  <2> QED BY <2>1
<1>3. /\ b * PageSize = a * PageSize + PageSize + d * PageSize
      /\ d * PageSize \in Nat /\ a * PageSize \in Nat
  BY <1>2, LayoutAssumption
<1> QED BY <1>3, LayoutAssumption

(* A slot is a whole number of pages. *)
LEMMA SlotIsPages == \E q \in Nat : SlotSize = q * PageSize
<1>1. SlotSectors * SectorPages \in Nat
  BY LayoutAssumption
<1>2. SlotSize = (SlotSectors * SectorPages) * PageSize
  BY LayoutAssumption DEF SlotSize, SectorSize
<1> QED BY <1>1, <1>2

LEMMA PageInit == Init => PageInv
<1> SUFFICES ASSUME Init PROVE PageInv
  OBVIOUS
<1>1. g_page_buf = <<>> /\ g_next_page_off = 0 /\ ~g_status.update_in_progress
  BY DEF Init, BootStatus
<1>2. Aligned
  BY <1>1, LayoutAssumption DEF Aligned
<1> QED BY <1>1, <1>2, InitInv DEF PageInv, WaitingPageInSlot, BusyOnlyByLostTail

(* A chunk moves the offset by whole pages, and stops short of the slot's end. *)
LEMMA ChunkPages ==
  ASSUME PageInv, NEW data \in Seq(Byte),
         \/ ChunkOk(data)
         \/ \E k \in Nat : ChunkIo(data, k)
         \/ ChunkRefused(data)
  PROVE  Aligned' /\ WaitingPageInSlot' /\ BusyOnlyByLostTail'
<1> DEFINE waiting == Len(g_page_buf) + Len(data)
<1>1. /\ g_page_buf \in Seq(Byte) /\ Len(g_page_buf) \in Nat /\ Len(data) \in Nat
      /\ waiting \in Nat /\ g_next_page_off \in Nat /\ g_status \in Status
      /\ dl \in [at : {"idle", "fetching", "failed"}, bytes : Nat]
  BY LenProperties DEF PageInv, Inv, StagingTypeOK
<1>2. PICK q \in Nat : g_next_page_off = q * PageSize
  BY DEF PageInv, Aligned
<1>3. PICK m \in Nat : SlotSize = m * PageSize
  BY SlotIsPages
<1>4. ASSUME dl.at = "fetching", Accepts(dl.bytes, data)
      PROVE  /\ g_next_page_off + waiting <= SlotSize
             /\ g_status.update_in_progress
  <2>1. /\ g_status.update_in_progress
        /\ dl.bytes = g_status.bytes_written
        /\ dl.bytes + Len(data) <= Limit
    BY <1>4 DEF Accepts
  <2>2. Limit \in Nat /\ Limit <= SlotSize
    BY <1>1, <2>1, SlotSizeNat DEF Limit, PageInv, Inv, RunningFits, Status
  <2>3. g_status.bytes_written = g_next_page_off + Len(g_page_buf)
    BY <1>4, <2>1 DEF PageInv, Inv, ReceivedIsStored
  <2> QED BY <1>1, <2>1, <2>2, <2>3, SlotSizeNat
<1>5. CASE ChunkOk(data)
  <2> DEFINE n == WholePages(waiting)
  <2>1. /\ g_page_buf' = SubSeq(g_page_buf \o data, n + 1, waiting)
        /\ g_next_page_off' = g_next_page_off + n
        /\ dl.at = "fetching" /\ Accepts(dl.bytes, data)
        /\ dl' = [dl EXCEPT !.bytes = @ + Len(data)]
    BY <1>5 DEF ChunkOk, Absorb
  <2>2. n \in Nat /\ n <= waiting
    BY <1>1, WholePagesBound
  <2>3. PICK w \in Nat : n = w * PageSize
    <3>1. waiting \div PageSize \in Nat
      BY <1>1, LayoutAssumption
    <3> QED BY <3>1 DEF WholePages
  <2> HIDE DEF n
  <2>4. Len(g_page_buf') = waiting - n
    <3>1. g_page_buf \o data \in Seq(Byte) /\ Len(g_page_buf \o data) = waiting
      BY <1>1, ConcatProperties
    <3> QED BY <2>1, <2>2, <3>1, <1>1, SubSeqProperties
  <2>5. g_next_page_off' = (q + w) * PageSize /\ q + w \in Nat
    BY <1>2, <2>1, <2>3, LayoutAssumption
  <2>6. Aligned'
    BY <2>5 DEF Aligned
  <2>7. WaitingPageInSlot'
    <3> SUFFICES ASSUME g_page_buf' # <<>>
                 PROVE  g_next_page_off' + PageSize <= SlotSize
      BY DEF WaitingPageInSlot
    <3>1. waiting - n # 0
      <4> SUFFICES ASSUME waiting - n = 0 PROVE FALSE
        OBVIOUS
      <4>1. SubSeq(g_page_buf \o data, n + 1, waiting) = <<>>
        BY <1>1, <2>2, SubSeqEmpty
      <4> QED BY <2>1, <4>1
    <3>2. g_next_page_off' < SlotSize
      BY <1>1, <1>4, <2>1, <2>2, <3>1, SlotSizeNat
    <3> QED BY <1>3, <2>5, <3>2, MultiplesApart
  <2>8. BusyOnlyByLostTail'
    BY <1>1, <2>1 DEF BusyOnlyByLostTail
  <2> QED BY <2>6, <2>7, <2>8
<1>6. ASSUME NEW k \in Nat, ChunkIo(data, k)
      PROVE  Aligned' /\ WaitingPageInSlot' /\ BusyOnlyByLostTail'
  <2>1. /\ g_next_page_off' = g_next_page_off + k * PageSize
        /\ dl.at = "fetching" /\ Accepts(dl.bytes, data)
        /\ (k + 1) * PageSize <= waiting
        /\ dl' = [dl EXCEPT !.at = "failed"]
    BY <1>6 DEF ChunkIo, Absorb
  <2>2. g_next_page_off' = (q + k) * PageSize /\ q + k \in Nat
    BY <1>2, <2>1, LayoutAssumption
  <2>3. WaitingPageInSlot'
    <3>1. (k + 1) * PageSize = k * PageSize + PageSize /\ k * PageSize \in Nat
      BY LayoutAssumption
    <3>2. g_next_page_off + waiting <= SlotSize
      BY <1>4, <2>1
    <3> DEFINE skipped == k * PageSize
    <3>3. /\ g_next_page_off' = g_next_page_off + skipped
          /\ skipped + PageSize <= waiting /\ skipped \in Nat
      BY <2>1, <3>1
    <3> HIDE DEF skipped, waiting
    <3>4. g_next_page_off' + PageSize <= SlotSize
      BY <1>1, <3>2, <3>3, SlotSizeNat, LayoutAssumption
    <3> QED BY <3>4 DEF WaitingPageInSlot
  <2>4. BusyOnlyByLostTail'
    BY <1>1, <2>1 DEF BusyOnlyByLostTail
  <2> QED BY <2>2, <2>3, <2>4 DEF Aligned
<1>7. CASE ChunkRefused(data)
  <2>1. UNCHANGED <<flash, g_status, uploadVars, spoiled>> /\ dl'.at = "failed"
    BY <1>1, <1>7 DEF ChunkRefused
  <2> QED BY <2>1 DEF PageInv, Aligned, WaitingPageInSlot, BusyOnlyByLostTail, uploadVars
<1> QED BY <1>5, <1>6, <1>7

LEMMA PageStep == PageInv /\ [Next]_stagingVars => PageInv'
<1> SUFFICES ASSUME PageInv, [Next]_stagingVars
             PROVE  Aligned' /\ WaitingPageInSlot' /\ BusyOnlyByLostTail'
  BY StepInv DEF PageInv
<1>1. /\ g_status \in Status /\ g_next_page_off \in Nat
      /\ dl \in [at : {"idle", "fetching", "failed"}, bytes : Nat]
  BY DEF PageInv, Inv, StagingTypeOK
<1>2. ASSUME g_page_buf' = <<>>, g_next_page_off' = 0
      PROVE  Aligned' /\ WaitingPageInSlot'
  BY <1>2, LayoutAssumption DEF Aligned, WaitingPageInSlot
<1>3. ASSUME UNCHANGED <<g_page_buf, g_next_page_off>>
      PROVE  Aligned' /\ WaitingPageInSlot'
  BY <1>3 DEF PageInv, Aligned, WaitingPageInSlot
<1>4. ASSUME NEW size \in ImageSizes, BeginOk(size)
      PROVE  Aligned' /\ WaitingPageInSlot' /\ BusyOnlyByLostTail'
  <2>1. g_page_buf' = <<>> /\ g_next_page_off' = 0 /\ dl'.at = "fetching"
    BY <1>4 DEF BeginOk
  <2> QED BY <1>2, <2>1 DEF BusyOnlyByLostTail
<1>5. ASSUME NEW size \in ImageSizes, NEW k \in 0 .. SlotSectors - 1, BeginIo(size, k)
      PROVE  Aligned' /\ WaitingPageInSlot' /\ BusyOnlyByLostTail'
  BY <1>3, <1>5 DEF BeginIo, uploadVars, BusyOnlyByLostTail
<1>6. ASSUME NEW data \in Chunks,
             \/ ChunkOk(data)
             \/ \E k \in 0 .. Len(data) : ChunkIo(data, k)
             \/ ChunkRefused(data)
      PROVE  Aligned' /\ WaitingPageInSlot' /\ BusyOnlyByLostTail'
  <2>1. data \in Seq(Byte)
    BY DownloadAssumption
  <2>2. 0 .. Len(data) \subseteq Nat
    BY <2>1, LenProperties
  <2> QED BY <1>6, <2>1, <2>2, ChunkPages
<1>7. CASE FetchFailed
  <2>1. UNCHANGED <<g_page_buf, g_next_page_off>> /\ dl'.at = "failed"
    BY <1>1, <1>7 DEF FetchFailed, uploadVars
  <2> QED BY <1>3, <2>1 DEF BusyOnlyByLostTail
<1>8. CASE FinalizeOk
  <2>1. /\ g_page_buf' = <<>> /\ ~g_status'.update_in_progress
        /\ g_next_page_off' \in {g_next_page_off, g_next_page_off + PageSize}
    BY <1>1, <1>8 DEF FinalizeOk, Status
  <2>2. PICK q \in Nat : g_next_page_off = q * PageSize
    BY DEF PageInv, Aligned
  <2>3. g_next_page_off + PageSize = (q + 1) * PageSize /\ q + 1 \in Nat
    BY <2>2, LayoutAssumption
  <2> QED BY <2>1, <2>2, <2>3 DEF Aligned, WaitingPageInSlot, BusyOnlyByLostTail
<1>9. CASE FinalizeFailed
  <2>1. UNCHANGED <<g_status, g_page_buf, g_next_page_off>>
        /\ (g_page_buf # <<>> \/ ~g_status.update_in_progress)
    BY <1>9 DEF FinalizeFailed, uploadVars
  <2> QED BY <1>3, <2>1 DEF BusyOnlyByLostTail
<1>10. ASSUME Abort, UNCHANGED dl \/ dl' = Idle
       PROVE  Aligned' /\ WaitingPageInSlot' /\ (~g_status'.update_in_progress)
  <2>1. CASE g_status.update_in_progress
    <3>1. g_page_buf' = <<>> /\ g_next_page_off' = 0 /\ g_status' = Cleared(g_status, FALSE, 0)
      BY <1>10, <2>1 DEF Abort
    <3>2. ~g_status'.update_in_progress
      BY <1>1, <3>1 DEF Cleared, Status
    <3> QED BY <1>2, <3>1, <3>2
  <2>2. CASE ~g_status.update_in_progress
    BY <1>3, <1>10, <2>2 DEF Abort
  <2> QED BY <2>1, <2>2
<1>11. CASE ShellAbort \/ DownloadAborts
  BY <1>10, <1>11 DEF ShellAbort, DownloadAborts, BusyOnlyByLostTail
<1>12. CASE UNCHANGED stagingVars
  BY <1>3, <1>12 DEF stagingVars, uploadVars, PageInv, BusyOnlyByLostTail
<1> QED BY <1>4, <1>5, <1>6, <1>7, <1>8, <1>9, <1>11, <1>12 DEF Next, Fetch

(* Whatever was refused, aborted or not programmed, the next page has room  *)
(* in its slot, and a download that has returned leaves nothing running but *)
(* a lost tail: ota_write's length check and cmd_download's error paths.    *)
THEOREM NextPageHasRoom == Spec => []DownloadInv
<1>1. PageInv => DownloadInv
  BY DEF PageInv, DownloadInv
<1> QED BY <1>1, PageInit, PageStep, PTL DEF Spec

-----------------------------------------------------------------------------
(* Each step of the updater is a step of what ota.h promises, or none. *)

LEMMA PromiseInit == Init => Promise!Init
<1> SUFFICES ASSUME Init PROVE Promise!Init
  OBVIOUS
<1>1. ~g_status.update_in_progress /\ ~g_status.image_ready
  BY DEF Init, BootStatus
<1> QED BY <1>1 DEF Promise!Init

(* Any step after which nothing runs and nothing is announced drops it all. *)
LEMMA DropStep ==
  ASSUME ~g_status'.update_in_progress, ~(g_status'.image_ready /\ ~spoiled')
  PROVE  Promise!Next
BY DEF Promise!Next, Promise!Drop

LEMMA StutterStep ==
  ASSUME UNCHANGED <<flash, g_status, g_sha, spoiled>>
  PROVE  UNCHANGED Promise!vars
BY DEF Promise!vars, Staging

LEMMA AcceptStep ==
  ASSUME Inv, NEW data \in Seq(Byte), NEW n \in Nat, NEW kept \in Nat,
         dl.at = "fetching", Accepts(dl.bytes, data), Absorb(data, n, kept)
  PROVE  Promise!Next
<1>1. /\ g_status \in Status /\ g_sha \in Seq(Byte) /\ Len(g_sha) \in Nat
      /\ Len(data) \in Nat
  BY LenProperties DEF Inv, StagingTypeOK
<1>2. /\ g_sha' = g_sha \o data
      /\ g_status' = [g_status EXCEPT !.bytes_written = @ + Len(data)]
  BY DEF Absorb
<1>3. g_status.update_in_progress /\ g_status'.update_in_progress
  BY <1>1, <1>2 DEF Accepts, Status
<1>4. Len(g_sha) + Len(data) <= SlotSize /\ Len(data) >= 1
  <2>1. /\ g_status.bytes_written + Len(data) <= Limit /\ data # <<>>
    BY DEF Accepts
  <2>2. Limit \in Nat /\ Limit <= SlotSize
    BY <1>1, <1>3, SlotSizeNat DEF Limit, Inv, RunningFits, Status
  <2>3. Len(g_sha) = g_status.bytes_written
    BY <1>3 DEF Inv, ReceivedIsStored
  <2>4. Len(data) # 0
    BY <2>1, EmptySeq
  <2> QED BY <1>1, <2>1, <2>2, <2>3, <2>4, SlotSizeNat
<1>5. /\ g_sha' \in Seq(Byte) /\ Len(g_sha') = Len(g_sha) + Len(data)
      /\ SubSeq(g_sha', 1, Len(g_sha)) = g_sha
  <2>1. /\ g_sha \o data \in Seq(Byte) /\ Len(g_sha \o data) = Len(g_sha) + Len(data)
        /\ \A i \in 1 .. Len(g_sha) : (g_sha \o data)[i] = g_sha[i]
    BY <1>1, ConcatProperties
  <2>2. SubSeq(g_sha \o data, 1, Len(g_sha)) = g_sha
    <3> DEFINE front == SubSeq(g_sha \o data, 1, Len(g_sha))
    <3>1. /\ front \in Seq(Byte) /\ Len(front) = Len(g_sha)
          /\ \A i \in 1 .. Len(g_sha) : front[i] = (g_sha \o data)[i]
      BY <1>1, <2>1, SubSeqProperties
    <3> HIDE DEF front
    <3> QED BY <1>1, <2>1, <3>1, SeqEqual
  <2> QED BY <1>2, <2>1, <2>2
<1>6. Len(g_sha') \in Len(g_sha) + 1 .. SlotSize
  BY <1>1, <1>4, <1>5, SlotSizeNat
<1>7. Promise!Accept
  BY <1>3, <1>5, <1>6 DEF Promise!Accept
<1> QED BY <1>7 DEF Promise!Next

LEMMA AnnounceStep ==
  ASSUME Inv, Inv', FinalizeOk
  PROVE  Promise!Next
<1>1. /\ g_status.update_in_progress /\ ~g_status'.update_in_progress
      /\ g_status'.image_ready /\ g_status'.computed_sha256 = g_sha
  BY DEF FinalizeOk, Inv, StagingTypeOK, Status
<1>2. CASE spoiled'
  BY <1>1, <1>2, DropStep
<1>3. CASE ~spoiled'
  <2>1. g_sha \in Seq(Byte) /\ Len(g_sha) \in Nat
    BY LenProperties DEF Inv, StagingTypeOK
  <2>2. /\ Len(g_sha) = g_status'.bytes_written
        /\ Len(g_sha) <= SlotSize
        /\ \A i \in Offsets : i < Len(g_sha) => Staging'[i] = g_sha[i + 1]
    BY <1>1, <1>3 DEF Inv, ReadyImageIsHashed, Holds
  <2>3. [i \in 1 .. g_status'.bytes_written |-> Staging'[i - 1]] = g_sha
    <3>1. \A i \in 1 .. Len(g_sha) : Staging'[i - 1] = g_sha[i]
      <4> TAKE i \in 1 .. Len(g_sha)
      <4>1. i - 1 \in Offsets /\ i - 1 < Len(g_sha) /\ (i - 1) + 1 = i
        BY <2>1, <2>2, SlotSizeNat DEF Offsets
      <4> QED BY <2>2, <4>1
    <3>2. g_sha = [i \in 1 .. Len(g_sha) |-> g_sha[i]]
      BY <2>1
    <3> QED BY <2>2, <3>1, <3>2
  <2>4. Promise!Announce
    BY <1>1, <1>3, <2>3 DEF Promise!Announce
  <2> QED BY <2>4 DEF Promise!Next
<1> QED BY <1>2, <1>3

LEMMA PromiseStep ==
  Inv /\ Inv' /\ [Next]_stagingVars => [Promise!Next]_(Promise!vars)
<1> SUFFICES ASSUME Inv, Inv', [Next]_stagingVars
             PROVE  Promise!Next \/ UNCHANGED Promise!vars
  OBVIOUS
<1>1. g_status \in Status
  BY DEF Inv, StagingTypeOK
<1>2. ASSUME NEW size \in ImageSizes, BeginOk(size) PROVE Promise!Next
  <2>1. /\ ~g_status.update_in_progress /\ g_sha' = <<>>
        /\ g_status' = Cleared(g_status, TRUE, size)
    BY <1>2 DEF BeginOk
  <2>2. g_status'.update_in_progress
    BY <1>1, <2>1 DEF Cleared, Status
  <2>3. Promise!Start
    BY <2>1, <2>2 DEF Promise!Start
  <2> QED BY <2>3 DEF Promise!Next
<1>3. ASSUME NEW size \in ImageSizes, NEW k \in 0 .. SlotSectors - 1, BeginIo(size, k)
      PROVE  Promise!Next
  <2>1. /\ ~g_status'.update_in_progress
        /\ ~(g_status'.image_ready /\ ~spoiled')
    BY <1>3 DEF BeginIo
  <2> QED BY <2>1, DropStep
<1>4. ASSUME NEW data \in Chunks, ChunkOk(data) PROVE Promise!Next
  <2> DEFINE waiting == Len(g_page_buf) + Len(data)
  <2>1. data \in Seq(Byte) /\ waiting \in Nat
    BY DownloadAssumption, LenProperties DEF Inv, StagingTypeOK
  <2>2. WholePages(waiting) \in Nat
    BY <2>1, WholePagesBound
  <2>3. dl.at = "fetching" /\ Accepts(dl.bytes, data)
        /\ Absorb(data, WholePages(waiting), waiting)
    BY <1>4 DEF ChunkOk
  <2> QED BY <2>1, <2>2, <2>3, AcceptStep
<1>5. ASSUME NEW data \in Chunks, NEW k \in 0 .. Len(data), ChunkIo(data, k)
      PROVE  Promise!Next
  <2>1. data \in Seq(Byte) /\ k \in Nat
    BY DownloadAssumption, LenProperties
  <2>2. k * PageSize \in Nat /\ (k + 1) * PageSize \in Nat
    BY <2>1, LayoutAssumption
  <2>3. dl.at = "fetching" /\ Accepts(dl.bytes, data)
        /\ Absorb(data, k * PageSize, (k + 1) * PageSize)
    BY <1>5 DEF ChunkIo
  <2> QED BY <2>1, <2>2, <2>3, AcceptStep
<1>6. ASSUME NEW data \in Chunks, ChunkRefused(data) PROVE UNCHANGED Promise!vars
  <2>1. UNCHANGED <<flash, g_status, g_sha, spoiled>>
    BY <1>6 DEF ChunkRefused, uploadVars
  <2> QED BY <2>1, StutterStep
<1>7. CASE FetchFailed \/ FinalizeFailed
  <2>1. UNCHANGED <<flash, g_status, g_sha, spoiled>>
    BY <1>7 DEF FetchFailed, FinalizeFailed, uploadVars
  <2> QED BY <2>1, StutterStep
<1>8. CASE FinalizeOk
  BY <1>8, AnnounceStep
<1>9. CASE ShellAbort \/ DownloadAborts
  <2>1. CASE g_status.update_in_progress
    <3>1. g_status' = Cleared(g_status, FALSE, 0)
      BY <1>9, <2>1 DEF ShellAbort, DownloadAborts, Abort
    <3>2. ~g_status'.update_in_progress /\ ~g_status'.image_ready
      BY <1>1, <3>1 DEF Cleared, Status
    <3> QED BY <3>2, DropStep
  <2>2. CASE ~g_status.update_in_progress
    <3>1. UNCHANGED <<flash, g_status, g_sha, spoiled>>
      BY <1>9, <2>2 DEF ShellAbort, DownloadAborts, Abort
    <3> QED BY <3>1, StutterStep
  <2> QED BY <2>1, <2>2
<1>10. CASE UNCHANGED stagingVars
  BY <1>10, StutterStep DEF stagingVars, uploadVars
<1> QED BY <1>2, <1>3, <1>4, <1>5, <1>6, <1>7, <1>8, <1>9, <1>10 DEF Next, Fetch

(* ota.c keeps the promise of ota.h: bytes are accepted in order, and what  *)
(* is announced is exactly what was accepted, whatever pages fail, downloads *)
(* abort or erases stop half-way.                                           *)
THEOREM UpdaterKeepsPromise == Spec => StagingRefinesPromise
<1> QED BY InitInv, StepInv, PromiseInit, PromiseStep, PTL
        DEF Spec, StagingRefinesPromise, Promise!Spec
=============================================================================

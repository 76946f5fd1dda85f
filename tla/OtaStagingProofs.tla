-------------------------- MODULE OtaStagingProofs --------------------------
(***************************************************************************)
(* Facts about the helpers and the steps of OtaStaging, for every layout   *)
(* of the flash, that the proofs about the closed systems rest on.         *)
(***************************************************************************)
EXTENDS OtaStaging, SequenceTheorems, TLAPS

LEMMA SlotSizeNat == SlotSize \in Nat /\ SectorSize \in Nat
<1>1. SectorSize \in Nat
  BY LayoutAssumption DEF SectorSize
<1> QED BY <1>1, LayoutAssumption DEF SlotSize

(* Erasing all sectors erases every cell; erasing k of them keeps a slot a slot *)
LEMMA EraseType ==
  ASSUME NEW slot \in [Offsets -> Cell], NEW k \in Nat
  PROVE  /\ EraseSectors(slot, k) \in [Offsets -> Cell]
         /\ \A i \in Offsets : EraseSectors(slot, k)[i] \in {FF, slot[i]}
         /\ \A i \in Offsets : EraseSectors(slot, SlotSectors)[i] = FF
  BY SlotSizeNat, LayoutAssumption DEF EraseSectors, Cell, Offsets, SlotSize

LEMMA ProgramType ==
  ASSUME NEW slot \in [Offsets -> Cell], NEW off \in Nat, NEW data \in Seq(Byte)
  PROVE  Program(slot, off, data) \in [Offsets -> Cell]
<1> SUFFICES ASSUME NEW i \in Offsets
             PROVE  Program(slot, off, data)[i] \in Cell
  BY DEF Program
<1>1. CASE i \in off .. off + Len(data) - 1
  <2>1. i - off + 1 \in 1 .. Len(data)
    BY <1>1, SlotSizeNat DEF Offsets
  <2>2. data[i - off + 1] \in Byte
    BY <2>1
  <2> QED BY <1>1, <2>2 DEF Program, Burn, Cell
<1>2. CASE i \notin off .. off + Len(data) - 1
  BY <1>2 DEF Program
<1> QED BY <1>1, <1>2

(* The length of the whole pages of n bytes, and what is left over. *)
LEMMA WholePagesBound ==
  ASSUME NEW n \in Nat
  PROVE  /\ WholePages(n) \in 0 .. n
         /\ n - WholePages(n) < PageSize
<1> DEFINE q == n \div PageSize
           r == n % PageSize
<1>1. q \in Nat /\ r \in 0 .. PageSize - 1 /\ n = PageSize * q + r
  BY LayoutAssumption
<1>2. WholePages(n) = PageSize * q
  BY <1>1, LayoutAssumption DEF WholePages
<1>3. PageSize * q \in Nat
  BY <1>1, LayoutAssumption
<1> QED BY <1>1, <1>2, <1>3, LayoutAssumption

-----------------------------------------------------------------------------
(* Every step of the updater keeps the types of its state, which slot is    *)
(* staging included, and leaves every other slot as it is.                  *)

LEMMA BeginType ==
  ASSUME StagingTypeOK, NEW size \in Nat,
         BeginOk(size) \/ \E k \in 0 .. SlotSectors - 1 : BeginIo(size, k)
  PROVE  /\ StagingTypeOK'
         /\ \A s \in Slots \ {g_status.staging_slot} : flash'[s] = flash[s]
<1> USE DEF StagingTypeOK, Status
<1>1. CASE BeginOk(size)
  <2>1. EraseSectors(Staging, SlotSectors) \in [Offsets -> Cell]
    BY EraseType, LayoutAssumption DEF Staging
  <2>2. flash' \in [Slots -> [Offsets -> Cell]]
    BY <1>1, <2>1 DEF BeginOk, Staging
  <2>3. g_status' \in Status /\ g_status'.staging_slot = g_status.staging_slot
                            /\ g_status'.active_slot = g_status.active_slot
    BY <1>1 DEF BeginOk, Cleared
  <2>4. <<>> \in Seq(Byte)
    OBVIOUS
  <2> QED BY <1>1, <2>2, <2>3, <2>4 DEF BeginOk
<1>2. ASSUME NEW k \in 0 .. SlotSectors - 1, BeginIo(size, k)
      PROVE  /\ StagingTypeOK'
             /\ \A s \in Slots \ {g_status.staging_slot} : flash'[s] = flash[s]
  <2>1. EraseSectors(Staging, k) \in [Offsets -> Cell]
    BY EraseType, LayoutAssumption DEF Staging
  <2> QED BY <1>2, <2>1 DEF BeginIo, Staging, uploadVars
<1> QED BY <1>1, <1>2

LEMMA AbsorbType ==
  ASSUME StagingTypeOK, NEW data \in Seq(Byte), NEW n \in Nat, NEW kept \in Nat,
         n <= kept, kept <= Len(g_page_buf) + Len(data),
         Absorb(data, n, kept)
  PROVE  /\ flash' \in [Slots -> [Offsets -> Cell]]
         /\ g_status' \in Status
         /\ g_status'.staging_slot = g_status.staging_slot
         /\ g_status'.active_slot = g_status.active_slot
         /\ g_page_buf' \in Seq(Byte)
         /\ g_next_page_off' \in Nat
         /\ g_sha' \in Seq(Byte)
         /\ \A s \in Slots \ {g_status.staging_slot} : flash'[s] = flash[s]
<1> USE DEF StagingTypeOK, Status
<1> DEFINE waiting == g_page_buf \o data
<1>1. waiting \in Seq(Byte) /\ Len(waiting) = Len(g_page_buf) + Len(data)
  BY ConcatProperties
<1>2. SubSeq(waiting, 1, n) \in Seq(Byte) /\ SubSeq(waiting, n + 1, kept) \in Seq(Byte)
  BY <1>1, SubSeqProperties
<1>3. Program(Staging, g_next_page_off, SubSeq(waiting, 1, n)) \in [Offsets -> Cell]
  BY <1>2, ProgramType DEF Staging
<1>4. Len(data) \in Nat
  BY LenProperties
<1>5. flash' \in [Slots -> [Offsets -> Cell]]
      /\ \A s \in Slots \ {g_status.staging_slot} : flash'[s] = flash[s]
  BY <1>3 DEF Absorb, Staging
<1>6. /\ g_status' \in Status
      /\ g_status'.staging_slot = g_status.staging_slot
      /\ g_status'.active_slot = g_status.active_slot
  <2>1. g_status.bytes_written + Len(data) \in Nat
    BY <1>4
  <2>2. g_status' = [g_status EXCEPT !.bytes_written =
                                      g_status.bytes_written + Len(data)]
    BY DEF Absorb
  <2> QED BY <2>1, <2>2
<1>7. g_page_buf' \in Seq(Byte) /\ g_next_page_off' \in Nat
  <2>1. g_page_buf' = SubSeq(waiting, n + 1, kept)
    BY DEF Absorb
  <2>2. g_next_page_off' = g_next_page_off + n
    BY DEF Absorb
  <2>3. g_next_page_off' \in Nat
    BY <2>2
  <2> QED BY <1>2, <2>1, <2>3
<1>8. g_sha' \in Seq(Byte)
  <2>1. g_sha' = g_sha \o data /\ g_sha \in Seq(Byte)
    BY DEF Absorb
  <2> HIDE DEF StagingTypeOK
  <2> QED BY <2>1, ConcatProperties
<1> QED BY <1>5, <1>6, <1>7, <1>8

LEMMA ChunkType ==
  ASSUME StagingTypeOK, NEW data \in Seq(Byte),
         \/ ChunkOk(data)
         \/ \E k \in Nat : ChunkIo(data, k)
         \/ ChunkRefused(data)
  PROVE  /\ StagingTypeOK'
         /\ \A s \in Slots \ {g_status.staging_slot} : flash'[s] = flash[s]
<1> USE DEF StagingTypeOK
<1> DEFINE waiting == Len(g_page_buf) + Len(data)
<1>1. waiting \in Nat /\ Len(data) \in Nat
  BY LenProperties
<1>2. CASE ChunkOk(data)
  <2>1. WholePages(waiting) \in 0 .. waiting
    BY <1>1, WholePagesBound
  <2>2. Absorb(data, WholePages(waiting), waiting)
    BY <1>2 DEF ChunkOk
  <2>3. dl' \in [at : {"idle", "fetching", "failed"}, bytes : Nat]
        /\ spoiled' \in BOOLEAN
    <3>1. dl.bytes + Len(data) \in Nat
      BY <1>1
    <3>2. dl' = [dl EXCEPT !.bytes = dl.bytes + Len(data)] /\ spoiled' = spoiled
      BY <1>2 DEF ChunkOk, Absorb
    <3> QED BY <3>1, <3>2
  <2> QED BY <1>1, <2>1, <2>2, <2>3, AbsorbType
<1>3. ASSUME NEW k \in Nat, ChunkIo(data, k)
      PROVE  /\ StagingTypeOK'
             /\ \A s \in Slots \ {g_status.staging_slot} : flash'[s] = flash[s]
  <2>1. /\ k * PageSize \in Nat
        /\ (k + 1) * PageSize \in Nat
        /\ k * PageSize <= (k + 1) * PageSize
    BY LayoutAssumption
  <2>2. Absorb(data, k * PageSize, (k + 1) * PageSize)
        /\ (k + 1) * PageSize <= waiting
    BY <1>3 DEF ChunkIo
  <2>3. dl' \in [at : {"idle", "fetching", "failed"}, bytes : Nat]
        /\ spoiled' \in BOOLEAN
    BY <1>3 DEF ChunkIo, Absorb
  <2> QED BY <1>1, <2>1, <2>2, <2>3, AbsorbType
<1>4. CASE ChunkRefused(data)
  BY <1>4 DEF ChunkRefused, uploadVars
<1> QED BY <1>2, <1>3, <1>4

LEMMA FinalizeType ==
  ASSUME StagingTypeOK, FinalizeOk \/ FinalizeFailed
  PROVE  /\ StagingTypeOK'
         /\ \A s \in Slots \ {g_status.staging_slot} : flash'[s] = flash[s]
<1> USE DEF StagingTypeOK, Status
<1>1. CASE FinalizeOk
  <2>1. Program(Staging, g_next_page_off, g_page_buf) \in [Offsets -> Cell]
    BY ProgramType DEF Staging
  <2>2. flash' \in [Slots -> [Offsets -> Cell]]
        /\ \A s \in Slots \ {g_status.staging_slot} : flash'[s] = flash[s]
    BY <1>1, <2>1 DEF FinalizeOk, Flushed, Staging
  <2>3. g_status' \in Status /\ g_status'.staging_slot = g_status.staging_slot
                            /\ g_status'.active_slot = g_status.active_slot
    BY <1>1 DEF FinalizeOk
  <2>4. g_next_page_off' \in Nat /\ g_page_buf' \in Seq(Byte)
    BY <1>1, LayoutAssumption DEF FinalizeOk
  <2> QED BY <1>1, <2>2, <2>3, <2>4 DEF FinalizeOk, Idle
<1>2. CASE FinalizeFailed
  BY <1>2 DEF FinalizeFailed, uploadVars, Idle
<1> QED BY <1>1, <1>2

LEMMA AbortType ==
  ASSUME StagingTypeOK, ShellAbort \/ DownloadAborts \/ FetchFailed
  PROVE  /\ StagingTypeOK'
         /\ flash' = flash
<1> USE DEF StagingTypeOK, Status
<1>1. CASE FetchFailed
  BY <1>1 DEF FetchFailed, uploadVars
<1>2. ASSUME Abort PROVE  /\ flash' = flash /\ g_sha' = g_sha /\ spoiled' = spoiled
                          /\ g_status' \in Status
                          /\ g_status'.staging_slot = g_status.staging_slot
                          /\ g_status'.active_slot = g_status.active_slot
                          /\ g_page_buf' \in Seq(Byte) /\ g_next_page_off' \in Nat
  <2>1. CASE g_status.update_in_progress
    <3>1. /\ g_status' = Cleared(g_status, FALSE, 0)
          /\ g_page_buf' = <<>> /\ g_next_page_off' = 0
          /\ UNCHANGED <<flash, g_sha, spoiled>>
      BY <1>2, <2>1 DEF Abort
    <3>2. g_status' \in Status
      BY <3>1 DEF Cleared
    <3>3. /\ g_status'.staging_slot = g_status.staging_slot
          /\ g_status'.active_slot = g_status.active_slot
      BY <3>1 DEF Cleared
    <3>4. <<>> \in Seq(Byte)
      OBVIOUS
    <3> QED BY <3>1, <3>2, <3>3, <3>4
  <2>2. CASE ~g_status.update_in_progress
    BY <1>2, <2>2 DEF Abort
  <2> QED BY <2>1, <2>2
<1>3. CASE ShellAbort
  BY <1>2, <1>3 DEF ShellAbort
<1>4. CASE DownloadAborts
  BY <1>2, <1>4 DEF DownloadAborts, Idle
<1> QED BY <1>1, <1>3, <1>4
=============================================================================

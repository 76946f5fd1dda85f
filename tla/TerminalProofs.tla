--------------------------- MODULE TerminalProofs ---------------------------
(***************************************************************************)
(* The two ends of the terminal.  What a peer is sent (BleNus), for every  *)
(* size of the transmit buffer, every payload, any number of connections   *)
(* and any amount of output: the bound of the buffer, that no wake-up is   *)
(* lost, and that a peer gets its own stream and nothing else.  What a     *)
(* line becomes (CommandLine), for every line, every length limit and      *)
(* every mix of packets: the two cursors of cli_parse never collide, no    *)
(* buffer is overrun, the variables behind the line are a map, and the     *)
(* words that run are the words that were entered, expanded; reading a     *)
(* line comes to an end.                                                   *)
(***************************************************************************)
EXTENDS CommandLine, BleNus, SequenceTheorems, FiniteSetTheorems, WellFoundedInduction, TLAPS

(* Queues: what the operators on the buffer return *)

(* What is taken of a write fits the space that is left.                   *)
LEMMA FitsType ==
  ASSUME BleAssumption, BleTypeOK, NEW len \in Nat
  PROVE  Queueable(len) \in Nat /\ Queueable(len) <= len /\ Len(tx) + Queueable(len) <= TxBufSize
BY DEF Queueable, BleTypeOK, BleAssumption

(* The part of the buffer that is sent and the part that stays are the     *)
(* buffer.                                                                 *)
LEMMA CutInTwo ==
  ASSUME NEW S, NEW s \in Seq(S), NEW n \in 1 .. Len(s)
  PROVE  SubSeq(s, 1, n) \o SubSeq(s, n + 1, Len(s)) = s
<1> DEFINE t == SubSeq(s, 1, n) \o SubSeq(s, n + 1, Len(s))
<1>1. SubSeq(s, 1, n) \in Seq(S) /\ Len(SubSeq(s, 1, n)) = n
  OBVIOUS
<1>2. SubSeq(s, n + 1, Len(s)) \in Seq(S) /\ Len(SubSeq(s, n + 1, Len(s))) = Len(s) - n
  OBVIOUS
<1>3. t \in Seq(S) /\ Len(t) = Len(s)
  BY <1>1, <1>2, ConcatProperties
<1>4. ASSUME NEW i \in 1 .. Len(s) PROVE t[i] = s[i]
  <2>1. t[i] = IF i <= n THEN SubSeq(s, 1, n)[i] ELSE SubSeq(s, n + 1, Len(s))[i - n]
    <3>1. i \in 1 .. Len(SubSeq(s, 1, n)) + Len(SubSeq(s, n + 1, Len(s)))
      BY <1>1, <1>2
    <3> QED
      BY <3>1, <1>1, <1>2, ConcatProperties
  <2>2. i <= n => SubSeq(s, 1, n)[i] = s[i]
    OBVIOUS
  <2>3. ~(i <= n) => SubSeq(s, n + 1, Len(s))[i - n] = s[i]
    OBVIOUS
  <2> QED
    BY <2>1, <2>2, <2>3
<1> HIDE DEF t
<1>5. t = s
  BY <1>3, <1>4, SeqEqual
<1> QED
  BY <1>5 DEF t

(* Moving the head of a queue to the end of what was sent moves nothing    *)
(* else.                                                                   *)
LEMMA HeadMoves ==
  ASSUME NEW S, NEW r \in Seq(S), NEW s \in Seq(S), NEW n \in 1 .. Len(s)
  PROVE  (r \o SubSeq(s, 1, n)) \o SubSeq(s, n + 1, Len(s)) = r \o s
<1> DEFINE h == SubSeq(s, 1, n)
           t == SubSeq(s, n + 1, Len(s))
<1>1. h \in Seq(S) /\ t \in Seq(S)
  OBVIOUS
<1>2. h \o t = s
  BY CutInTwo
<1> HIDE DEF h, t
<1>3. (r \o h) \o t = r \o (h \o t)
  BY <1>1, ConcatAssociative
<1> QED
  BY <1>2, <1>3 DEF h, t

(* An empty queue is a queue of any kind.                                  *)
LEMMA EmptyQueueType ==
  /\ \A S : <<>> \in Seq(S)
  /\ Len(<<>>) = 0
OBVIOUS

-----------------------------------------------------------------------------
(* Types *)

(* One write keeps the types, and leaves the buffer within its bound. *)
LEMMA SendLenType ==
  ASSUME BleAssumption, BleTypeOK, NEW len \in Nat \ {0}, subscribed' \in BOOLEAN, SendLen(len)
  PROVE  /\ tx' \in Seq(1 .. MaxBytes) /\ Len(tx') <= TxBufSize
         /\ accepted' \in Seq(1 .. MaxBytes)
         /\ offered' \in 0 .. MaxBytes /\ requested' \in BOOLEAN
<1> DEFINE bytes == [k \in 1 .. Queueable(len) |-> offered + k]
<1>1. Queueable(len) \in Nat /\ Queueable(len) <= len /\ Len(tx) + Queueable(len) <= TxBufSize
  BY FitsType
<1>2. offered \in Nat /\ offered + len <= MaxBytes
  BY DEF SendLen, BleTypeOK
<1>3. \A k \in 1 .. Queueable(len) : offered + k \in 1 .. MaxBytes
  BY <1>1, <1>2 DEF BleAssumption
<1>4. bytes \in Seq(1 .. MaxBytes) /\ Len(bytes) = Queueable(len)
  BY <1>1, <1>3
<1> HIDE DEF bytes
<1>5. tx' = tx \o bytes /\ accepted' = accepted \o bytes /\ offered' = offered + len
      /\ requested' = RequestFlush
  BY DEF SendLen, bytes
<1>6. tx \in Seq(1 .. MaxBytes) /\ accepted \in Seq(1 .. MaxBytes) /\ requested \in BOOLEAN
      /\ connected \in BOOLEAN
  BY DEF BleTypeOK
<1>7. tx' \in Seq(1 .. MaxBytes) /\ Len(tx') = Len(tx) + Len(bytes)
      /\ accepted' \in Seq(1 .. MaxBytes)
  BY <1>4, <1>5, <1>6, ConcatProperties
<1>8. RequestFlush \in BOOLEAN
  BY <1>6 DEF RequestFlush
<1>9. offered' \in 0 .. MaxBytes
  BY <1>2, <1>5 DEF BleAssumption
<1> QED
  BY <1>1, <1>4, <1>5, <1>6, <1>7, <1>8, <1>9 DEF BleTypeOK

(* The three properties are inductive together. *)
BleInv == BleTypeOK /\ NoLostWakeup /\ StreamIsOwn

(* The power-on state. *)
LEMMA BleInitInv == BleAssumption /\ BleInit => BleInv
<1> SUFFICES ASSUME BleAssumption, BleInit PROVE BleInv
  OBVIOUS
<1>1. tx = <<>> /\ <<>> \in Seq(1 .. MaxBytes) /\ Len(tx) = 0
  BY DEF BleInit
<1>2. tx \in Seq(1 .. MaxBytes) /\ accepted \in Seq(1 .. MaxBytes)
      /\ received \in Seq(1 .. MaxBytes) /\ Len(tx) <= TxBufSize
  BY <1>1 DEF BleInit, BleAssumption
<1>3. offered \in 0 .. MaxBytes /\ links \in 0 .. MaxLinks
  BY DEF BleInit, BleAssumption
<1>4. BleTypeOK
  BY <1>2, <1>3 DEF BleInit, BleTypeOK
<1> QED
  BY <1>1, <1>4 DEF BleInit, BleInv, NoLostWakeup, StreamIsOwn

(* A write asks for an event when it has to, and queues for the peer what   *)
(* it counts as queued for it.                                              *)
LEMMA SendLenKeeps ==
  ASSUME BleAssumption, BleInv, NEW len \in Nat \ {0}, SendLen(len),
         connected' = connected, subscribed' \in BOOLEAN, received' = received
  PROVE  NoLostWakeup' /\ StreamIsOwn'
<1> DEFINE bytes == [k \in 1 .. Queueable(len) |-> offered + k]
<1>1. NoLostWakeup'
  BY DEF NoLostWakeup, SendLen, RequestFlush
<1>2. Queueable(len) \in Nat
  BY FitsType DEF BleInv
<1>3. bytes \in Seq(Nat)
  <2>1. offered \in Nat
    BY DEF BleInv, BleTypeOK
  <2> QED
    BY <1>2, <2>1
<1> HIDE DEF bytes
<1>4. tx' = tx \o bytes /\ accepted' = accepted \o bytes
  BY DEF SendLen, bytes
<1>5. tx \in Seq(Nat) /\ received \in Seq(Nat)
  BY DEF BleInv, BleTypeOK, BleAssumption
<1>6. received \o (tx \o bytes) = (received \o tx) \o bytes
  BY <1>3, <1>5, ConcatAssociative
<1>7. StreamIsOwn'
  BY <1>4, <1>6 DEF BleInv, StreamIsOwn
<1> QED
  BY <1>1, <1>7

(* A notification moves the head of the buffer to the peer, and asks for    *)
(* the next event if anything is left.                                      *)
LEMMA FlushKeeps ==
  ASSUME BleAssumption, BleInv, NEW taken \in BOOLEAN, Flush(taken)
  PROVE  BleInv'
<1>1. /\ connected' = connected /\ subscribed' = subscribed /\ offered' = offered
      /\ links' = links /\ accepted' = accepted /\ connected
  BY DEF Flush
<1>2. CASE ~(subscribed /\ tx # <<>>)
  <2>1. requested' = FALSE /\ tx' = tx /\ received' = received
    BY <1>2 DEF Flush
  <2>2. BleTypeOK' /\ StreamIsOwn'
    BY <1>1, <2>1 DEF BleInv, BleTypeOK, StreamIsOwn
  <2>3. NoLostWakeup'
    BY <1>1, <1>2, <2>1 DEF NoLostWakeup
  <2> QED
    BY <2>2, <2>3 DEF BleInv
<1>3. CASE subscribed /\ tx # <<>>
  <2>1. requested' = (tx' # <<>>)
    BY <1>3 DEF Flush, AskedAgain
  <2>2. NoLostWakeup'
    BY <2>1 DEF NoLostWakeup
  <2>3. CASE ~taken
    <3>1. tx' = tx /\ received' = received
      BY <1>3, <2>3 DEF Flush
    <3> QED
      BY <1>1, <2>1, <2>2, <3>1 DEF BleInv, BleTypeOK, StreamIsOwn
  <2>4. CASE taken
    <3>1. PICK p \in Payloads : Notified(IF Len(tx) < p THEN Len(tx) ELSE p)
      BY <1>3, <2>4 DEF Flush
    <3> DEFINE n == IF Len(tx) < p THEN Len(tx) ELSE p
    <3>2. tx \in Seq(1 .. MaxBytes) /\ Len(tx) # 0 /\ Len(tx) \in Nat
      BY <1>3 DEF BleInv, BleTypeOK
    <3>3. n \in 1 .. Len(tx)
      BY <3>2 DEF BleAssumption
    <3>4. received' = received \o SubSeq(tx, 1, n) /\ tx' = Dequeue(n)
      BY <3>1 DEF Notified
    <3> HIDE DEF n
    <3>5. tx' = SubSeq(tx, n + 1, Len(tx))
      BY <3>2, <3>3, <3>4 DEF Dequeue
    <3>6. SubSeq(tx, 1, n) \in Seq(1 .. MaxBytes) /\ tx' \in Seq(1 .. MaxBytes)
          /\ Len(tx') <= Len(tx)
      BY <3>2, <3>3, <3>5
    <3>7. received \in Seq(1 .. MaxBytes)
      BY DEF BleInv, BleTypeOK
    <3>8. received' \o tx' = received \o tx
      BY <3>2, <3>3, <3>4, <3>5, <3>7, HeadMoves
    <3>9. received' \in Seq(1 .. MaxBytes) /\ requested' \in BOOLEAN /\ Len(tx') <= TxBufSize
      BY <2>1, <3>4, <3>6, <3>7, <3>2 DEF BleInv, BleTypeOK, BleAssumption
    <3>10. BleTypeOK'
      BY <1>1, <3>6, <3>9 DEF BleInv, BleTypeOK
    <3>11. StreamIsOwn'
      BY <1>1, <3>8 DEF BleInv, StreamIsOwn
    <3> QED
      BY <2>2, <3>10, <3>11 DEF BleInv
  <2> QED
    BY <2>3, <2>4
<1> QED
  BY <1>2, <1>3

(* Every step keeps the types, the wake-up and the stream. *)
LEMMA BleNextInv == BleAssumption /\ BleInv /\ [BleNext]_bleVars => BleInv'
<1> SUFFICES ASSUME BleAssumption, BleInv, [BleNext]_bleVars PROVE BleInv'
  OBVIOUS
<1>1. CASE Send
  <2>1. PICK len \in Writes : SendLen(len)
    BY <1>1 DEF Send
  <2>2. len \in Nat \ {0}
    BY DEF BleAssumption
  <2>3. connected' = connected /\ subscribed' = subscribed /\ links' = links
        /\ received' = received
    BY <1>1 DEF Send
  <2>4. NoLostWakeup' /\ StreamIsOwn'
    BY <2>1, <2>2, <2>3, SendLenKeeps DEF BleInv, BleTypeOK
  <2>5. BleTypeOK'
    BY <2>1, <2>2, <2>3, SendLenType DEF BleInv, BleTypeOK
  <2> QED
    BY <2>4, <2>5 DEF BleInv
<1>2. CASE Subscribe
  <2>1. /\ SendLen(Greeting) /\ connected' = connected /\ subscribed' = TRUE
        /\ links' = links /\ received' = received
    BY <1>2 DEF Subscribe
  <2>2. Greeting \in Nat \ {0}
    BY DEF BleAssumption
  <2>3. NoLostWakeup' /\ StreamIsOwn'
    BY <2>1, <2>2, SendLenKeeps
  <2>4. BleTypeOK'
    BY <2>1, <2>2, SendLenType DEF BleInv, BleTypeOK
  <2> QED
    BY <2>3, <2>4 DEF BleInv
<1>3. CASE Unsubscribe
  BY <1>3 DEF Unsubscribe, BleInv, BleTypeOK, NoLostWakeup, StreamIsOwn
<1>4. CASE ConnectionComplete
  <2>1. tx' = <<>> /\ accepted' = <<>> /\ received' = <<>> /\ connected' = TRUE
        /\ subscribed' = FALSE /\ links' = links + 1 /\ links < MaxLinks
        /\ requested' = requested /\ offered' = offered
    BY <1>4 DEF ConnectionComplete, TxReset
  <2>2. BleTypeOK'
    <3>1. tx' \in Seq(1 .. MaxBytes) /\ accepted' \in Seq(1 .. MaxBytes)
          /\ received' \in Seq(1 .. MaxBytes) /\ Len(tx') <= TxBufSize
      BY <2>1, EmptyQueueType DEF BleAssumption
    <3>2. links' \in 0 .. MaxLinks /\ offered' \in 0 .. MaxBytes
      BY <2>1 DEF BleInv, BleTypeOK, BleAssumption
    <3>3. connected' \in BOOLEAN /\ subscribed' \in BOOLEAN /\ requested' \in BOOLEAN
      BY <2>1 DEF BleInv, BleTypeOK
    <3> QED
      BY <3>1, <3>2, <3>3 DEF BleTypeOK
  <2>3. received' \o tx' = accepted'
    BY <2>1
  <2> QED
    BY <2>1, <2>2, <2>3 DEF BleInv, NoLostWakeup, StreamIsOwn
<1>5. CASE DisconnectionComplete
  <2>1. tx' = <<>> /\ accepted' = <<>> /\ received' = <<>> /\ connected' = FALSE
        /\ subscribed' = FALSE /\ requested' = FALSE /\ links' = links /\ offered' = offered
    BY <1>5 DEF DisconnectionComplete
  <2>2. BleTypeOK'
    <3>1. tx' \in Seq(1 .. MaxBytes) /\ accepted' \in Seq(1 .. MaxBytes)
          /\ received' \in Seq(1 .. MaxBytes) /\ Len(tx') <= TxBufSize
      BY <2>1, EmptyQueueType DEF BleAssumption
    <3>2. links' \in 0 .. MaxLinks /\ offered' \in 0 .. MaxBytes
      BY <2>1 DEF BleInv, BleTypeOK, BleAssumption
    <3>3. connected' \in BOOLEAN /\ subscribed' \in BOOLEAN /\ requested' \in BOOLEAN
      BY <2>1 DEF BleInv, BleTypeOK
    <3> QED
      BY <3>1, <3>2, <3>3 DEF BleTypeOK
  <2> QED
    BY <2>1, <2>2 DEF BleInv, NoLostWakeup, StreamIsOwn
<1>6. CASE CanSendNow
  BY <1>6, FlushKeeps DEF CanSendNow
<1>7. CASE UNCHANGED bleVars
  BY <1>7 DEF bleVars, BleInv, BleTypeOK, NoLostWakeup, StreamIsOwn
<1> QED
  BY <1>1, <1>2, <1>3, <1>4, <1>5, <1>6, <1>7 DEF BleNext

-----------------------------------------------------------------------------
(* ... and hold in every reachable state. *)
THEOREM BleInvHolds == BleSpec => []BleInv
<1>1. BleInit => BleInv
  BY BleInitInv, BleAssumption
<1>2. BleInv /\ [BleNext]_bleVars => BleInv'
  BY BleNextInv, BleAssumption
<1> QED
  BY <1>1, <1>2, PTL DEF BleSpec

(* g_tx_len never passes the end of g_tx_buf, whatever is written when.     *)
THEOREM BleTypeCorrect == BleSpec => []BleTypeOK
BY BleInvHolds, PTL DEF BleInv

(* Output that waits for a subscribed peer always has an event on its way.  *)
THEOREM WakeUpNeverLost == BleSpec => []NoLostWakeup
BY BleInvHolds, PTL DEF BleInv

(* A peer is sent what was queued for it, in order, once, and nothing that  *)
(* was queued for another.                                                  *)
THEOREM EachPeerGetsItsStream == BleSpec => []StreamIsOwn
BY BleInvHolds, PTL DEF BleInv

-----------------------------------------------------------------------------
(* CommandLine *)

\* Everything a line may hold, the terminator included
Bytes == Keys \cup {Nul, PacketEnd}

NoNul(s) == s \in Seq(Bytes) /\ \A k \in 1 .. Len(s) : s[k] # Nul

\* What holds while cli_parse runs: the write cursor is behind the read cursor, or both
\* are at the end; what is still to be read stands as it was entered.
ParseInv ==
  /\ buf \in Seq(Bytes) /\ Len(buf) = Len(line) + 1
  /\ src \in 1 .. Len(buf) /\ dst \in Nat \ {0}
  /\ dst <= src \/ (phase = "between" /\ src = Len(buf))
  /\ \A k \in 1 .. Len(buf) : k >= src => buf[k] = Append(line, Nul)[k]

Parsing == phase \in {"between", "word"}
LineInv == NoNul(line) /\ NoNul(packet) /\ (Parsing => ParseInv)

-----------------------------------------------------------------------------
(* Sequences *)

LEMMA AppendAt ==
  ASSUME NEW S, NEW s \in Seq(S), NEW c \in S
  PROVE  /\ Append(s, c) \in Seq(S) /\ Len(Append(s, c)) = Len(s) + 1 /\ Len(s) \in Nat
         /\ \A k \in 1 .. Len(s) + 1 : Append(s, c)[k] = IF k <= Len(s) THEN s[k] ELSE c
<1>1. Len(s) \in Nat
  BY LenProperties
<1>2. /\ Append(s, c) \in Seq(S) /\ Len(Append(s, c)) = Len(s) + 1
      /\ \A k \in 1 .. Len(s) : Append(s, c)[k] = s[k]
      /\ Append(s, c)[Len(s) + 1] = c
  BY AppendProperties
<1> QED BY <1>1, <1>2

LEMMA FrontAt ==
  ASSUME NEW S, NEW s \in Seq(S), s # <<>>
  PROVE  /\ SubSeq(s, 1, Len(s) - 1) \in Seq(S) /\ Len(SubSeq(s, 1, Len(s) - 1)) = Len(s) - 1
         /\ \A k \in 1 .. Len(s) - 1 : SubSeq(s, 1, Len(s) - 1)[k] = s[k]
<1>1. Len(s) \in Nat \ {0}
  BY EmptySeq
<1>2. \A i \in 1 .. Len(s) - 1 : s[i] \in S
  BY <1>1, ElementOfSeq
<1> DEFINE n == Len(s) - 1
<1>3. n \in Int /\ 1 \in Int /\ n >= 0
  BY <1>1
<1>4. /\ SubSeq(s, 1, n) \in Seq(S)
      /\ Len(SubSeq(s, 1, n)) = IF 1 <= n THEN n - 1 + 1 ELSE 0
      /\ \A i \in 1 .. n - 1 + 1 : SubSeq(s, 1, n)[i] = s[1 + i - 1]
  <2> HIDE DEF n
  <2> QED BY <1>2, <1>3, SubSeqProperties DEF n
<1> HIDE DEF n
<1>5. Len(SubSeq(s, 1, n)) = n /\ \A k \in 1 .. n : SubSeq(s, 1, n)[k] = s[k]
  BY <1>3, <1>4
<1> QED BY <1>4, <1>5 DEF n

LEMMA TailAt ==
  ASSUME NEW S, NEW s \in Seq(S), s # <<>>
  PROVE  /\ Tail(s) \in Seq(S) /\ Len(Tail(s)) = Len(s) - 1 /\ Len(s) \in Nat \ {0}
         /\ \A k \in 1 .. Len(s) - 1 : Tail(s)[k] = s[k + 1]
         /\ Head(s) = s[1]
BY EmptySeq, HeadTailProperties

LEMMA AppendAvoids ==
  ASSUME NEW S, NEW z, NEW s \in Seq(S), \A k \in 1 .. Len(s) : s[k] # z,
         NEW c \in S, c # z
  PROVE  \A k \in 1 .. Len(Append(s, c)) : Append(s, c)[k] # z
BY AppendAt

LEMMA AppendNoNul ==
  ASSUME NEW s, NoNul(s), NEW c \in Bytes, c # Nul
  PROVE  NoNul(Append(s, c))
BY AppendAt, AppendAvoids DEF NoNul

LEMMA TailNoNul ==
  ASSUME NEW s, NoNul(s), s # <<>>
  PROVE  NoNul(Tail(s)) /\ Head(s) \in Bytes /\ Head(s) # Nul
<1> USE DEF NoNul
<1>1. /\ Tail(s) \in Seq(Bytes) /\ Len(Tail(s)) = Len(s) - 1 /\ Len(s) \in Nat \ {0}
      /\ \A k \in 1 .. Len(s) - 1 : Tail(s)[k] = s[k + 1]
      /\ Head(s) = s[1]
  BY TailAt
<1>2. s[1] \in Bytes
  BY <1>1, ElementOfSeq
<1> QED BY <1>1, <1>2

LEMMA FrontNoNul ==
  ASSUME NEW s, NoNul(s), s # <<>>
  PROVE  NoNul(SubSeq(s, 1, Len(s) - 1))
<1>1. s \in Seq(Bytes) /\ Len(s) \in Nat \ {0}
  BY EmptySeq DEF NoNul
<1>2. /\ SubSeq(s, 1, Len(s) - 1) \in Seq(Bytes) /\ Len(SubSeq(s, 1, Len(s) - 1)) = Len(s) - 1
      /\ \A k \in 1 .. Len(s) - 1 : SubSeq(s, 1, Len(s) - 1)[k] = s[k]
  BY <1>1, FrontAt DEF NoNul
<1> QED BY <1>1, <1>2 DEF NoNul

LEMMA NulIsByte == Nul \in Bytes
BY DEF Nul, Bytes

\* The line as cli_parse gets it: its last byte, and no other, is Nul.
LEMMA Terminated ==
  ASSUME NEW s, NoNul(s)
  PROVE  /\ Append(s, Nul) \in Seq(Bytes) /\ Len(Append(s, Nul)) = Len(s) + 1
         /\ Len(s) \in Nat
         /\ Append(s, Nul)[Len(s) + 1] = Nul
         /\ \A k \in 1 .. Len(s) : Append(s, Nul)[k] # Nul
<1>1. /\ Append(s, Nul) \in Seq(Bytes) /\ Len(Append(s, Nul)) = Len(s) + 1 /\ Len(s) \in Nat
      /\ \A k \in 1 .. Len(s) + 1 : Append(s, Nul)[k] = IF k <= Len(s) THEN s[k] ELSE Nul
  BY NulIsByte, AppendAt DEF NoNul
<1> QED BY <1>1 DEF NoNul

-----------------------------------------------------------------------------
(* cli_parse *)

LEMMA NulIsLast ==
  ASSUME LineInv, Parsing, NEW k \in 1 .. Len(buf), k >= src
  PROVE  buf[k] = Nul <=> k = Len(buf)
<1>1. ParseInv /\ NoNul(line)
  BY DEF LineInv
<1>2. buf[k] = Append(line, Nul)[k] /\ Len(buf) = Len(line) + 1
  BY <1>1 DEF ParseInv
<1>3. /\ Len(line) \in Nat /\ Append(line, Nul)[Len(line) + 1] = Nul
      /\ \A j \in 1 .. Len(line) : Append(line, Nul)[j] # Nul
  BY <1>1, Terminated
<1> QED BY <1>2, <1>3

\* A byte is kept at dst and the read cursor goes past the byte it came from.
LEMMA KeepParses ==
  ASSUME LineInv, phase = "word", NEW from \in src .. Len(buf) - 1, Keep(from)
  PROVE  LineInv'
<1>1. ParseInv /\ NoNul(line) /\ NoNul(packet)
  BY DEF LineInv, Parsing
<1>2. /\ buf \in Seq(Bytes) /\ Len(buf) \in Nat /\ src \in Nat /\ dst \in Nat /\ dst >= 1
      /\ dst <= src /\ src <= Len(buf) /\ Len(buf) = Len(line) + 1 /\ src >= 1
      /\ \A k \in 1 .. Len(buf) : k >= src => buf[k] = Append(line, Nul)[k]
  <2>1. buf \in Seq(Bytes)
    BY <1>1 DEF ParseInv
  <2>2. Len(buf) \in Nat
    BY <2>1, LenProperties
  <2> QED BY <1>1, <2>1, <2>2 DEF ParseInv
<1>3. /\ buf' = [buf EXCEPT ![dst] = buf[from]] /\ dst' = dst + 1 /\ src' = from + 1
      /\ phase' = "word" /\ line' = line /\ packet' = packet
  BY DEF Keep, KeepsRest, feedVars
<1>4. buf[from] \in Bytes
  BY <1>2, ElementOfSeq
<1>5. buf' \in Seq(Bytes) /\ Len(buf') = Len(buf)
      /\ \A k \in 1 .. Len(buf) : buf'[k] = IF k = dst THEN buf[from] ELSE buf[k]
  <2>1. dst \in 1 .. Len(buf)
    BY <1>2
  <2> QED BY <1>2, <1>3, <1>4, <2>1, ExceptSeq
<1>6. \A k \in 1 .. Len(buf') : k >= src' => buf'[k] = Append(line', Nul)[k]
  BY <1>2, <1>3, <1>5
<1>7. ParseInv'
  BY <1>2, <1>3, <1>5, <1>6 DEF ParseInv
<1> QED BY <1>1, <1>3, <1>7 DEF LineInv, NoNul

LEMMA StartWordParses ==
  ASSUME LineInv, StartWord
  PROVE  LineInv'
<1>1. ParseInv /\ NoNul(line) /\ NoNul(packet) /\ Parsing /\ phase = "between" /\ buf[src] # Nul
  BY DEF LineInv, Parsing, StartWord, Current
<1>2. src \in 1 .. Len(buf) /\ src >= src
  BY <1>1 DEF ParseInv
<1>3. src # Len(buf)
  BY <1>1, <1>2, NulIsLast
<1>4. /\ line' = line /\ packet' = packet /\ buf' = buf /\ src' = src /\ dst' = dst
      /\ phase' \in {"word", "toomany"}
  BY DEF StartWord, KeepsRest, feedVars
<1>5. ParseInv'
  BY <1>1, <1>3, <1>4 DEF ParseInv
<1> QED BY <1>1, <1>4, <1>5 DEF LineInv, NoNul

LEMMA EscapedParses ==
  ASSUME LineInv, TakeEscaped
  PROVE  LineInv'
<1>1. ParseInv /\ phase = "word" /\ Parsing
  BY DEF LineInv, Parsing, TakeEscaped, InWord
<1>2. src \in 1 .. Len(buf) /\ Len(buf) \in Nat /\ src >= src
  BY <1>1, LenProperties DEF ParseInv
<1>3. buf[src] # Nul /\ buf[src + 1] # Nul
  BY DEF TakeEscaped, Escaped, Current, Escape, Quote, Nul
<1>4. src # Len(buf)
  BY <1>1, <1>2, <1>3, NulIsLast
<1>5. src + 1 \in 1 .. Len(buf) /\ src + 1 >= src
  BY <1>2, <1>4
<1>6. src + 1 # Len(buf)
  BY <1>1, <1>3, <1>5, NulIsLast
<1>7. src + 1 \in src .. Len(buf) - 1
  BY <1>2, <1>5, <1>6
<1> QED BY <1>1, <1>7, KeepParses DEF TakeEscaped

LEMMA SymbolParses ==
  ASSUME LineInv, TakeSymbol
  PROVE  LineInv'
<1>1. ParseInv /\ phase = "word" /\ Parsing /\ buf[src] # Nul
  BY DEF LineInv, Parsing, TakeSymbol, InWord, Current
<1>2. src \in 1 .. Len(buf) /\ Len(buf) \in Nat /\ src >= src
  BY <1>1, LenProperties DEF ParseInv
<1>3. src # Len(buf)
  BY <1>1, <1>2, NulIsLast
<1>4. src \in src .. Len(buf) - 1
  BY <1>2, <1>3
<1> QED BY <1>1, <1>4, KeepParses DEF TakeSymbol

\* The read cursor alone moves on, over a byte that is not the terminator.
LEMMA SkipParses ==
  ASSUME LineInv, SkipSpace \/ TakeQuote
  PROVE  LineInv'
<1>1. ParseInv /\ NoNul(line) /\ NoNul(packet) /\ Parsing
  BY DEF LineInv, Parsing, SkipSpace, TakeQuote, InWord
<1>2. buf[src] # Nul
  BY DEF SkipSpace, TakeQuote, Current, Space, Quote, Nul
<1>3. src \in 1 .. Len(buf) /\ Len(buf) \in Nat /\ src >= src
  BY <1>1, LenProperties DEF ParseInv
<1>4. src # Len(buf)
  BY <1>1, <1>2, <1>3, NulIsLast
<1>5. /\ line' = line /\ packet' = packet /\ buf' = buf /\ src' = src + 1 /\ dst' = dst
      /\ phase' = phase
  BY DEF SkipSpace, TakeQuote, InWord, KeepsRest, feedVars
<1>6. dst <= src'
  BY <1>1, <1>3, <1>4, <1>5 DEF ParseInv
<1>7. ParseInv'
  BY <1>1, <1>3, <1>4, <1>5, <1>6 DEF ParseInv
<1> QED BY <1>1, <1>5, <1>7 DEF LineInv, NoNul

\* The byte that ends the word is passed before the terminator is written at dst, which
\* may be that very byte.
LEMMA EndWordParses ==
  ASSUME LineInv, EndWord
  PROVE  LineInv'
<1>1. ParseInv /\ NoNul(line) /\ NoNul(packet) /\ Parsing /\ phase = "word"
  BY DEF LineInv, Parsing, EndWord, InWord
<1>2. /\ buf \in Seq(Bytes) /\ Len(buf) \in Nat /\ src \in 1 .. Len(buf) /\ dst \in 1 .. src
      /\ Len(buf) = Len(line) + 1 /\ src >= src
      /\ \A k \in 1 .. Len(buf) : k >= src => buf[k] = Append(line, Nul)[k]
  <2>1. buf \in Seq(Bytes)
    BY <1>1 DEF ParseInv
  <2>2. Len(buf) \in Nat
    BY <2>1, LenProperties
  <2> QED BY <1>1, <2>1, <2>2 DEF ParseInv
<1>3. /\ line' = line /\ packet' = packet /\ buf' = [buf EXCEPT ![dst] = Nul]
      /\ dst' = dst + 1 /\ phase' = "between"
      /\ src' = IF buf[src] # Nul THEN src + 1 ELSE src
  BY DEF EndWord, Current, KeepsRest, feedVars
<1>4. buf[src] = Nul <=> src = Len(buf)
  BY <1>1, <1>2, NulIsLast
<1>5. buf' \in Seq(Bytes) /\ Len(buf') = Len(buf)
      /\ \A k \in 1 .. Len(buf) : buf'[k] = IF k = dst THEN Nul ELSE buf[k]
  <2>1. dst \in 1 .. Len(buf)
    BY <1>2
  <2> QED BY <1>2, <1>3, <2>1, NulIsByte, ExceptSeq
<1>6. \A k \in 1 .. Len(buf') : k >= src' => buf'[k] = Append(line', Nul)[k]
  <2>1. CASE src # Len(buf)
    BY <1>2, <1>3, <1>4, <1>5, <2>1
  <2>2. CASE src = Len(buf)
    BY <1>2, <1>3, <1>4, <1>5, <2>2
  <2> QED BY <2>1, <2>2
<1>7. src' \in 1 .. Len(buf') /\ (dst' <= src' \/ src' = Len(buf'))
  BY <1>2, <1>3, <1>4, <1>5
<1>8. ParseInv'
  BY <1>2, <1>3, <1>5, <1>6, <1>7 DEF ParseInv
<1> QED BY <1>1, <1>3, <1>8 DEF LineInv, NoNul

-----------------------------------------------------------------------------
(* Feeding, and what never touches the line *)

LEMMA ArriveKeeps ==
  ASSUME LineInv, NEW p \in Packets, Arrive(p)
  PROVE  LineInv'
<1>1. p \in Seq(Keys) /\ Nul \notin Keys
  BY CommandLineAssumption
<1>2. p \in Seq(Bytes)
  BY <1>1, SeqMonotonic, Keys \subseteq Bytes DEF Bytes
<1>3. \A k \in 1 .. Len(p) : p[k] # Nul
  BY <1>1, ElementOfSeq
<1>4. NoNul(p)
  BY <1>2, <1>3 DEF NoNul
<1>5. PacketEnd \in Bytes /\ PacketEnd # Nul
  BY DEF Bytes, PacketEnd, Nul
<1>6. NoNul(Append(p, PacketEnd))
  BY <1>4, <1>5, AppendNoNul
<1>7. packet' \in {p, Append(p, PacketEnd)} /\ line' = line /\ phase' = "feed"
  BY DEF Arrive
<1> QED BY <1>4, <1>6, <1>7 DEF LineInv, NoNul, Parsing

LEMMA FeedKeeps ==
  ASSUME LineInv, FeedByte \/ FeedNothing
  PROVE  LineInv'
<1>1. NoNul(line) /\ NoNul(packet) /\ packet # <<>> /\ packet' = Tail(packet) /\ phase' = "feed"
  BY DEF LineInv, FeedByte, FeedNothing, Feeding
<1>2. NoNul(packet') /\ NextKey \in Bytes /\ NextKey # Nul
  BY <1>1, TailNoNul DEF NextKey
<1>3. line' \in {line, SubSeq(line, 1, Len(line) - 1), Append(line, NextKey)}
      /\ (line' = SubSeq(line, 1, Len(line) - 1) => line # <<>> \/ line' = line)
  BY DEF FeedByte, FeedNothing
<1>4. NoNul(line')
  BY <1>1, <1>2, <1>3, AppendNoNul, FrontNoNul
<1> QED BY <1>1, <1>2, <1>4 DEF LineInv, NoNul, Parsing
LEMMA EndOfLineParses ==
  ASSUME LineInv, EndOfLine
  PROVE  LineInv'
<1>1. /\ NoNul(line) /\ NoNul(packet) /\ packet # <<>> /\ packet' = Tail(packet)
      /\ line' = line /\ phase' = "between" /\ buf' = Append(line, Nul) /\ src' = 1 /\ dst' = 1
  BY DEF LineInv, EndOfLine, Feeding
<1>2. NoNul(packet')
  BY <1>1, TailNoNul
<1>3. buf' \in Seq(Bytes) /\ Len(buf') = Len(line') + 1 /\ Len(line) \in Nat
  BY <1>1, Terminated
<1>4. ParseInv'
  BY <1>1, <1>3 DEF ParseInv
<1> QED BY <1>1, <1>2, <1>4 DEF LineInv, NoNul

\* Finish, and every other step, ends cli_parse or comes after it.
LEMMA OthersKeep ==
  ASSUME LineInv,
         \/ Reconnect \/ Refused \/ Unclosed \/ ParseDone \/ Expand \/ Run
  PROVE  LineInv'
<1>1. NoNul(line) /\ NoNul(packet) /\ NoNul(<<>>)
  <2>1. <<>> \in Seq(Bytes) /\ Len(<<>>) = 0
    BY EmptySeq
  <2>2. NoNul(<<>>)
    BY <2>1 DEF NoNul
  <2> QED BY <2>2 DEF LineInv
<1>2. CASE Reconnect
  BY <1>1, <1>2 DEF Reconnect, LineInv, NoNul, Parsing
<1>3. ASSUME Finish PROVE LineInv'
  BY <1>1, <1>3 DEF Finish, LineInv, NoNul, Parsing
<1>4. CASE Refused
  BY <1>3, <1>4 DEF Refused
<1>5. CASE Unclosed
  BY <1>1, <1>5 DEF Unclosed, KeepsRest, feedVars, LineInv, NoNul, Parsing
<1>6. CASE ParseDone
  <2>1. CASE argv = <<>>
    BY <1>3, <1>6, <2>1 DEF ParseDone
  <2>2. CASE argv # <<>>
    BY <1>1, <1>6, <2>2 DEF ParseDone, feedVars, LineInv, NoNul, Parsing
  <2> QED BY <2>1, <2>2
<1>7. ASSUME UNCHANGED <<line, packet>>, phase' \notin {"between", "word"} PROVE LineInv'
  BY <1>1, <1>7 DEF LineInv, NoNul, Parsing
<1>8. CASE Expand
  <2>1. UNCHANGED <<line, packet>> /\ phase' \in {phase, "overflow", "run"} /\ phase = "expand"
    BY <1>8 DEF Expand, ExpandNext, ExpandWordDone, Expanding, feedVars
  <2> QED BY <1>7, <2>1
<1>9. CASE Run
  <2>1. CASE LineDone
    BY <1>3, <2>1 DEF LineDone
  <2>2. CASE ~LineDone
    <3>1. \A rc : Returns(rc) => UNCHANGED <<line, packet, phase>>
      BY DEF Returns, feedVars
    <3>2. phase = "run" /\ UNCHANGED <<line, packet, phase>>
      <4>1. CASE RunSetWords
        BY <3>1, <4>1 DEF RunSetWords, Assign, Calling
      <4>2. CASE RunSetPair
        BY <3>1, <4>2 DEF RunSetPair, Assign, Calling
      <4>3. CASE RunUnset
        BY <3>1, <4>3 DEF RunUnset, Calling
      <4>4. CASE RunRepeat
        BY <3>1, <4>4 DEF RunRepeat, Calling, feedVars
      <4>5. CASE RunUnknown
        BY <3>1, <4>5 DEF RunUnknown
      <4>6. CASE RepeatDone
        BY <4>6 DEF RepeatDone, feedVars
      <4> QED BY <1>9, <2>2, <4>1, <4>2, <4>3, <4>4, <4>5, <4>6 DEF Run
    <3> QED BY <1>7, <3>2
  <2> QED BY <2>1, <2>2
<1> QED BY <1>2, <1>4, <1>5, <1>6, <1>8, <1>9

LEMMA LineInvNext == LineInv /\ [Next]_vars => LineInv'
<1> SUFFICES ASSUME LineInv, [Next]_vars PROVE LineInv'
  OBVIOUS
<1>1. CASE Feed
  BY <1>1, ArriveKeeps, FeedKeeps, EndOfLineParses, OthersKeep DEF Feed
<1>2. CASE Parse
  BY <1>2, SkipParses, StartWordParses, EscapedParses, SymbolParses, EndWordParses, OthersKeep
     DEF Parse
<1>3. CASE Refused \/ Expand \/ Run
  BY <1>3, OthersKeep
<1>4. CASE UNCHANGED vars
  BY <1>4 DEF vars, feedVars, parseVars, LineInv, NoNul, Parsing, ParseInv
<1> QED BY <1>1, <1>2, <1>3, <1>4 DEF Next

LEMMA LineInvInit == Init => LineInv
<1> SUFFICES ASSUME Init PROVE LineInv
  OBVIOUS
<1>1. <<>> \in Seq(Bytes) /\ Len(<<>>) = 0
  BY EmptySeq
<1>2. line = <<>> /\ packet = <<>> /\ phase = "feed"
  BY DEF Init
<1> QED BY <1>1, <1>2 DEF LineInv, NoNul, Parsing

LEMMA LineInvAlways == Spec => []LineInv
BY LineInvInit, LineInvNext, PTL DEF Spec

\* Whatever a line quotes and escapes, and however long it is, cli_parse reads it as it
\* was entered although it writes its words into the same bytes.
THEOREM UnreadNeverOverwritten == Spec => []UnreadIsIntact
<1>1. LineInv => UnreadIsIntact
  <2> SUFFICES ASSUME LineInv, Parsing, NEW k \in src .. Len(buf)
               PROVE  buf[k] = Append(line, Nul)[k]
    BY DEF UnreadIsIntact, Parsing
  <2>1. ParseInv
    BY DEF LineInv
  <2>2. k \in 1 .. Len(buf) /\ k >= src
    BY <2>1 DEF ParseInv
  <2> QED BY <2>1, <2>2 DEF ParseInv
<1> QED BY <1>1, LineInvAlways, PTL
-----------------------------------------------------------------------------
(* Words and scans *)

\* Whatever a buffer or a variable may hold
Symbols == Bytes \cup DigitSet

LEMMA LeastIn ==
  ASSUME NEW S \in SUBSET Nat, S # {}
  PROVE  \E m \in S : \A k \in S : m <= k
<1>1. PICK m \in S : \A k \in S : ~(<<k, m>> \in OpToRel(<, Nat))
  BY NatLessThanWellFounded, WFMin
<1>2. \A k \in S : m <= k
  <2> TAKE k \in S
  <2>1. ~(k < m)
    BY <1>1 DEF OpToRel
  <2>2. k \in Nat /\ m \in Nat
    OBVIOUS
  <2> QED BY <2>1, <2>2
<1> QED BY <1>2

LEMMA FirstOfIs ==
  ASSUME NEW S \in SUBSET Nat
  PROVE  \/ S = {} /\ FirstOf(S) = NoSlot
         \/ S # {} /\ FirstOf(S) \in S /\ \A k \in S : FirstOf(S) <= k
<1>1. CASE S = {}
  BY <1>1 DEF FirstOf
<1>2. CASE S # {}
  <2>1. \E m \in S : \A k \in S : m <= k
    BY <1>2, LeastIn
  <2>2. FirstOf(S) = CHOOSE m \in S : \A k \in S : m <= k
    BY <1>2 DEF FirstOf
  <2> QED BY <1>2, <2>1, <2>2
<1> QED BY <1>1, <1>2

\* A pointer into a buffer points at a word: there is a Nul behind it, or the end.
LEMMA NulFromIs ==
  ASSUME NEW S, NEW s \in Seq(S), NEW p \in 1 .. Len(s) + 1
  PROVE  NulFrom(s, p) \in p .. Len(s) + 1 /\ \A j \in p .. NulFrom(s, p) - 1 : s[j] # Nul
<1> DEFINE Z == {k \in p .. Len(s) + 1 : Symbol(s, k) = Nul}
<1>0. Len(s) \in Nat
  BY LenProperties
<1>1. Len(s) + 1 \in Z
  BY <1>0 DEF Symbol
<1>2. PICK m \in Z : \A k \in Z : m <= k
  <2>1. Z \in SUBSET Nat
    BY <1>0
  <2> HIDE DEF Z
  <2> QED BY <1>1, <2>1, LeastIn
<1>3. m \in p .. Len(s) + 1 /\ Symbol(s, m) = Nul
  OBVIOUS
<1>4. \A j \in p .. m - 1 : s[j] # Nul
  <2> TAKE j \in p .. m - 1
  <2>1. j \in p .. Len(s) + 1 /\ ~(m <= j) /\ j <= Len(s)
    BY <1>0, <1>3
  <2>2. j \notin Z
    BY <1>2, <2>1
  <2>3. Symbol(s, j) # Nul
    BY <2>1, <2>2
  <2> QED BY <2>1, <2>3 DEF Symbol
<1>5. \E k \in p .. Len(s) + 1 : Symbol(s, k) = Nul /\ \A j \in p .. k - 1 : s[j] # Nul
  BY <1>3, <1>4
<1> QED BY <1>5 DEF NulFrom

LEMMA SubSeqIs ==
  ASSUME NEW S, NEW s \in Seq(S), NEW m \in Nat \ {0}, NEW n \in Nat, n <= Len(s), m <= n + 1
  PROVE  /\ SubSeq(s, m, n) \in Seq(S) /\ Len(SubSeq(s, m, n)) = n - m + 1
         /\ \A i \in 1 .. n - m + 1 : SubSeq(s, m, n)[i] = s[m + i - 1]
<1>1. Len(s) \in Nat
  BY LenProperties
<1>2. \A i \in m .. n : s[i] \in S
  BY <1>1, ElementOfSeq
<1> QED BY <1>1, <1>2, SubSeqProperties

LEMMA WordIs ==
  ASSUME NEW S, NEW s \in Seq(S), NEW p \in 1 .. Len(s) + 1
  PROVE  Word(s, p) \in Seq(S)
<1>0. Len(s) \in Nat
  BY LenProperties
<1> DEFINE n == NulFrom(s, p) - 1
<1>1. n \in Nat /\ n <= Len(s) /\ p <= n + 1 /\ p \in Nat \ {0}
  BY <1>0, NulFromIs
<1>2. Word(s, p) = SubSeq(s, p, n)
  BY DEF Word
<1> HIDE DEF n
<1> QED BY <1>1, <1>2, SubSeqIs

LEMMA WordsOfIs ==
  ASSUME NEW S, NEW s \in Seq(S), NEW ps \in Seq(Nat), \A i \in 1 .. Len(ps) : ps[i] \in 1 .. Len(s) + 1
  PROVE  /\ WordsOf(s, ps) \in Seq(Seq(S)) /\ Len(WordsOf(s, ps)) = Len(ps)
         /\ \A i \in 1 .. Len(ps) : WordsOf(s, ps)[i] = Word(s, ps[i])
<1>1. Len(ps) \in Nat
  BY LenProperties
<1>2. \A i \in 1 .. Len(ps) : Word(s, ps[i]) \in Seq(S)
  BY WordIs
<1> DEFINE f == WordsOf(s, ps)
<1>3. f = [i \in 1 .. Len(ps) |-> Word(s, ps[i])]
  BY DEF WordsOf
<1>4. f \in [1 .. Len(ps) -> Seq(S)]
  BY <1>2, <1>3
<1> HIDE DEF f
<1>5. f \in Seq(Seq(S))
  BY <1>1, <1>4, SeqDef
<1>6. Len(f) = Len(ps)
  BY <1>1, <1>4, <1>5, LenProperties
<1> QED BY <1>3, <1>5, <1>6 DEF f

-----------------------------------------------------------------------------
(* The types of CommandLine *)

TLine ==
  /\ phase \in Phases /\ status \in {OK, USAGE, ARG} /\ Len(line) <= LineMax
  /\ phase # "feed" => buf \in Seq(Bytes) /\ src \in 1 .. Len(buf) /\ dst \in 1 .. Len(buf) + 1
  /\ wasCr => line = <<>> \/ phase # "feed"

\* argv points into buf, words into out, up to the place where the next word begins.
TWords ==
  /\ argv \in Seq(Nat \ {0}) /\ Len(argv) <= MaxArgs
  /\ words \in Seq(Nat \ {0}) /\ Len(words) <= Len(argv)
  /\ out \in Seq(Symbols) /\ Len(out) <= ExpandSize
  /\ \A i \in 1 .. Len(words) : words[i] <= Len(out) + 1
  /\ at \in Nat \ {0} /\ (phase = "expand" => Len(words) >= 1)

\* A handler that may run again has a word to be dispatched by.
TLoops ==
  /\ loops \in Seq([first : Nat \ {0}, left : Nat])
  /\ loops = <<>> <=> phase # "run"
  /\ \A k \in 1 .. Len(loops) : loops[k].first <= Len(words)

TSlots ==
  /\ slots \in [SlotIds -> [used : BOOLEAN, name : Seq(Symbols), value : Seq(Symbols)]]
  /\ \A i \in SlotIds : slots[i].used => ValidName(slots[i].name) /\ Len(slots[i].value) <= ValueMax

Shape == TLine /\ TWords /\ TLoops /\ TSlots

LEMMA EmptyIs ==
  ASSUME NEW S
  PROVE  <<>> \in Seq(S) /\ Len(<<>>) = 0
BY EmptySeq

LEMMA OneIs ==
  ASSUME NEW S, NEW c \in S
  PROVE  <<c>> \in Seq(S) /\ Len(<<c>>) = 1 /\ <<c>>[1] = c
OBVIOUS

LEMMA ShapeInit == Init => Shape
<1> SUFFICES ASSUME Init PROVE Shape
  OBVIOUS
<1>1. /\ line = <<>> /\ wasCr = FALSE /\ phase = "feed" /\ argv = <<>> /\ words = <<>> /\ out = <<>>
      /\ at = 1 /\ loops = <<>> /\ status = OK
      /\ slots = [i \in SlotIds |-> [used |-> FALSE, name |-> <<>>, value |-> <<>>]]
  BY DEF Init
<1>2. TLine
  BY <1>1, EmptyIs, CommandLineAssumption DEF TLine, Phases
<1>3. TWords
  BY <1>1, EmptyIs, CommandLineAssumption DEF TWords
<1>4. TLoops
  BY <1>1, EmptyIs DEF TLoops
<1>5. TSlots
  <2>1. <<>> \in Seq(Symbols)
    BY EmptyIs
  <2>2. [used |-> FALSE, name |-> <<>>, value |-> <<>>]
          \in [used : BOOLEAN, name : Seq(Symbols), value : Seq(Symbols)]
    BY <2>1
  <2> QED BY <1>1, <2>2 DEF TSlots
<1> QED BY <1>2, <1>3, <1>4, <1>5 DEF Shape

LEMMA FinishShape ==
  ASSUME Shape, Finish, UNCHANGED shellVars
  PROVE  Shape'
<1>1. /\ phase' = "feed" /\ line' = <<>> /\ argv' = <<>> /\ out' = <<>> /\ at' = 1
      /\ words' = <<>> /\ loops' = <<>> /\ slots' = slots /\ status' = status
  BY DEF Finish, shellVars
<1>2. TLine'
  BY <1>1, EmptyIs, CommandLineAssumption DEF TLine, Phases, Shape
<1>3. TWords'
  BY <1>1, EmptyIs, CommandLineAssumption DEF TWords
<1>4. TLoops'
  BY <1>1, EmptyIs DEF TLoops
<1>5. TSlots'
  BY <1>1 DEF Shape, TSlots
<1> QED BY <1>2, <1>3, <1>4, <1>5 DEF Shape

LEMMA FeedShape ==
  ASSUME LineInv, Shape,
         \/ (\E p \in Packets : Arrive(p)) \/ FeedByte \/ FeedNothing \/ EndOfLine \/ Reconnect
  PROVE  Shape'
<1>1. /\ phase = "feed" /\ phase' \in {"feed", "between"}
      /\ UNCHANGED <<argv, words, out, at, loops, slots, status>>
  BY DEF Arrive, FeedByte, FeedNothing, EndOfLine, Reconnect, Feeding, parseVars, expandVars,
         shellVars
<1>2. TWords' /\ TSlots'
  BY <1>1 DEF Shape, TWords, TSlots
<1>3. TLoops'
  BY <1>1 DEF Shape, TLoops
<1>4. NoNul(line) /\ line \in Seq(Bytes) /\ Len(line) \in Nat
  BY LenProperties DEF LineInv, NoNul
<1>5. CASE EndOfLine
  <2>1. phase' = "between" /\ buf' = Append(line, Nul) /\ src' = 1 /\ dst' = 1 /\ line' = line
    BY <1>5 DEF EndOfLine
  <2>2. buf' \in Seq(Bytes) /\ Len(buf') = Len(line) + 1
    BY <1>4, <2>1, Terminated
  <2>3. TLine'
    BY <1>1, <1>4, <2>1, <2>2 DEF Shape, TLine, Phases
  <2> QED BY <1>2, <1>3, <2>3 DEF Shape
<1>6. CASE ~EndOfLine
  <2>1. phase' = "feed"
    BY <1>1, <1>6 DEF Arrive, FeedByte, FeedNothing, Reconnect
  <2>2. Len(line') <= LineMax /\ (wasCr' => line' = <<>>)
    <3>1. CASE \E p \in Packets : Arrive(p)
      BY <1>1, <3>1 DEF Arrive, Shape, TLine
    <3>2. CASE FeedByte
      <4>1. /\ wasCr' = FALSE
            /\ line' = CASE NextKey = Erase /\ line # <<>> -> SubSeq(line, 1, Len(line) - 1)
                         [] NextKey \notin {Erase, Control} /\ Len(line) < LineMax -> Append(line, NextKey)
                         [] OTHER -> line
        BY <3>2 DEF FeedByte
      <4>2. CASE NextKey = Erase /\ line # <<>>
        <5>1. Len(line') = Len(line) - 1
          BY <1>4, <4>1, <4>2, FrontAt
        <5> QED BY <1>4, <4>1, <5>1, CommandLineAssumption DEF Shape, TLine
      <4>3. CASE NextKey \notin {Erase, Control} /\ Len(line) < LineMax
        <5>1. packet # <<>> /\ NoNul(packet)
          BY <3>2 DEF FeedByte, Feeding, LineInv
        <5>2. NextKey \in Bytes
          BY <5>1, TailNoNul DEF NextKey
        <5>3. line' = Append(line, NextKey)
          BY <4>1, <4>3
        <5>4. Len(line') = Len(line) + 1
          BY <1>4, <5>2, <5>3, AppendAt
        <5> QED BY <1>4, <4>1, <4>3, <5>4, CommandLineAssumption
      <4>4. CASE ~(NextKey = Erase /\ line # <<>>) /\ ~(NextKey \notin {Erase, Control} /\ Len(line) < LineMax)
        BY <4>1, <4>4 DEF Shape, TLine
      <4> QED BY <4>2, <4>3, <4>4
    <3>3. CASE FeedNothing
      BY <1>1, <3>3 DEF FeedNothing, Shape, TLine
    <3>4. CASE Reconnect
      BY <3>4, EmptyIs, CommandLineAssumption DEF Reconnect
    <3> QED BY <1>6, <3>1, <3>2, <3>3, <3>4
  <2>3. TLine'
    BY <1>1, <2>1, <2>2 DEF Shape, TLine
  <2> QED BY <1>2, <1>3, <2>3 DEF Shape
<1> QED BY <1>5, <1>6

\* A step of cli_parse leaves everything but its cursors, the line and argv alone.
LEMMA ParseShape ==
  ASSUME LineInv, LineInv', Shape,
         \/ SkipSpace \/ StartWord \/ TakeEscaped \/ TakeSymbol \/ TakeQuote \/ EndWord \/ Unclosed
  PROVE  Shape'
<1>1. ParseInv /\ Parsing /\ Len(buf) \in Nat
  <2>1. Parsing
    BY DEF SkipSpace, StartWord, TakeEscaped, TakeSymbol, TakeQuote, EndWord, Unclosed, InWord, Parsing
  <2> QED BY <2>1, LenProperties DEF LineInv, ParseInv
<1>2. UNCHANGED <<line, wasCr, words, out, at, loops, slots, status>>
  BY DEF SkipSpace, StartWord, TakeEscaped, TakeSymbol, TakeQuote, EndWord, Unclosed, KeepsRest, Keep,
         feedVars, expandVars, shellVars
<1>3. phase' \in {"between", "word", "toomany", "unclosed"}
  BY DEF SkipSpace, StartWord, TakeEscaped, TakeSymbol, TakeQuote, EndWord, Unclosed, InWord, Keep
<1>4. buf' \in Seq(Bytes) /\ src' \in 1 .. Len(buf') /\ Len(buf') = Len(buf)
  <2>1. CASE phase' \in {"between", "word"}
    <3>1. ParseInv'
      BY <2>1 DEF LineInv, Parsing
    <3> QED BY <1>1, <1>2, <3>1 DEF ParseInv
  <2>2. CASE phase' \in {"toomany", "unclosed"}
    <3>1. buf' = buf /\ src' = src
      BY <1>3, <2>2 DEF SkipSpace, StartWord, TakeEscaped, TakeSymbol, TakeQuote, EndWord, Unclosed,
         InWord, Keep, parseVars
    <3> QED BY <1>1, <3>1 DEF ParseInv
  <2> QED BY <1>3, <2>1, <2>2
<1>5. dst' \in 1 .. Len(buf') + 1
  <2>1. dst \in 1 .. Len(buf) + 1 /\ (phase = "word" => dst <= src) /\ src <= Len(buf)
    BY <1>1 DEF Shape, TLine, ParseInv, Parsing
  <2>2. dst' = dst \/ (phase = "word" /\ dst' = dst + 1)
    BY DEF SkipSpace, StartWord, TakeEscaped, TakeSymbol, TakeQuote, EndWord, Unclosed, InWord, Keep,
           parseVars
  <2> QED BY <1>1, <1>4, <2>1, <2>2 DEF ParseInv
<1>6. TLine'
  BY <1>2, <1>3, <1>4, <1>5 DEF Shape, TLine, Phases
<1>7. argv' \in Seq(Nat \ {0}) /\ Len(argv') <= MaxArgs /\ Len(argv) <= Len(argv')
  <2>1. argv \in Seq(Nat \ {0}) /\ Len(argv) <= MaxArgs /\ Len(argv) \in Nat /\ dst \in Nat \ {0}
    BY <1>1, LenProperties DEF Shape, TWords, ParseInv
  <2>2. argv' = argv \/ (argv' = Append(argv, dst) /\ ~(Len(argv) >= MaxArgs))
    BY DEF SkipSpace, StartWord, TakeEscaped, TakeSymbol, TakeQuote, EndWord, Unclosed, Keep, parseVars
  <2>3. Append(argv, dst) \in Seq(Nat \ {0}) /\ Len(Append(argv, dst)) = Len(argv) + 1
    BY <2>1, AppendAt
  <2>4. MaxArgs \in Nat
    BY CommandLineAssumption
  <2>5. CASE argv' = argv
    BY <2>1, <2>5
  <2>6. CASE argv' = Append(argv, dst) /\ ~(Len(argv) >= MaxArgs)
    BY <2>1, <2>3, <2>4, <2>6
  <2> QED BY <2>2, <2>5, <2>6
<1>8. TWords'
  <2>1. Len(words) \in Nat /\ Len(argv) \in Nat /\ Len(argv') \in Nat
    BY <1>7, LenProperties DEF Shape, TWords
  <2> QED BY <1>2, <1>3, <1>7, <2>1 DEF Shape, TWords
<1>9. TLoops'
  BY <1>1, <1>2, <1>3 DEF Shape, TLoops, Parsing
<1>10. TSlots'
  BY <1>2 DEF Shape, TSlots
<1> QED BY <1>6, <1>8, <1>9, <1>10 DEF Shape

LEMMA ParseDoneShape ==
  ASSUME LineInv, Shape, ParseDone
  PROVE  Shape'
<1>1. CASE argv = <<>>
  BY <1>1, FinishShape DEF ParseDone
<1>2. CASE argv # <<>>
  <2>1. /\ phase = "between" /\ phase' = "expand" /\ at' = argv[1] /\ words' = <<1>>
        /\ UNCHANGED <<line, wasCr, buf, src, dst, argv, out, loops, slots, status>>
    BY <1>2 DEF ParseDone, feedVars, parseVars, shellVars
  <2>2. argv \in Seq(Nat \ {0}) /\ Len(argv) \in Nat \ {0}
    BY <1>2, EmptySeq DEF Shape, TWords
  <2>3. argv[1] \in Nat \ {0}
    BY <2>2, ElementOfSeq
  <2>4. words' \in Seq(Nat \ {0}) /\ Len(words') = 1 /\ words'[1] = 1
    BY <2>1
  <2>5. Len(out) \in Nat
    BY LenProperties DEF Shape, TWords
  <2>6. TWords'
    BY <2>1, <2>2, <2>3, <2>4, <2>5 DEF Shape, TWords
  <2>7. TLine' /\ TSlots'
    BY <2>1 DEF Shape, TLine, TSlots, Phases
  <2>8. TLoops'
    <3>1. loops = <<>> /\ Len(loops) = 0
      BY <2>1, EmptyIs DEF Shape, TLoops
    <3> QED BY <2>1, <3>1 DEF Shape, TLoops
  <2> QED BY <2>6, <2>7, <2>8 DEF Shape
<1> QED BY <1>1, <1>2

-----------------------------------------------------------------------------
(* expand_argv *)

LEMMA NulNames == ~NameRest(Nul) /\ Nul \notin Letters
BY CommandLineAssumption DEF NameRest, DigitSet, Digits, Nul

LEMMA NameEndIs ==
  ASSUME NEW s \in Seq(Bytes), NEW p \in 1 .. Len(s) + 1
  PROVE  NameEnd(s, p) \in p .. Len(s) + 1
<1> DEFINE Z == {k \in p .. Len(s) + 1 : ~NameRest(Symbol(s, k))}
<1>0. Len(s) \in Nat
  BY LenProperties
<1>1. Len(s) + 1 \in Z
  BY <1>0, NulNames DEF Symbol
<1>2. PICK m \in Z : \A k \in Z : m <= k
  <2>1. Z \in SUBSET Nat
    BY <1>0
  <2> HIDE DEF Z
  <2> QED BY <1>1, <2>1, LeastIn
<1>3. m \in p .. Len(s) + 1 /\ ~NameRest(Symbol(s, m))
  OBVIOUS
<1>4. \A j \in p .. m - 1 : NameRest(s[j])
  <2> TAKE j \in p .. m - 1
  <2>1. j \in p .. Len(s) + 1 /\ ~(m <= j) /\ j <= Len(s)
    BY <1>0, <1>3
  <2>2. j \notin Z
    BY <1>2, <2>1
  <2>3. NameRest(Symbol(s, j))
    BY <2>1, <2>2
  <2> QED BY <2>1, <2>3 DEF Symbol
<1>5. \E e \in p .. Len(s) + 1 : ~NameRest(Symbol(s, e)) /\ \A j \in p .. e - 1 : NameRest(s[j])
  BY <1>3, <1>4
<1> QED BY <1>5 DEF NameEnd

LEMMA DigitIs ==
  ASSUME NEW n \in 0 .. 9
  PROVE  Digits[n + 1] \in Symbols /\ Numeral(n) \in Seq(Symbols)
<1>1. Digits[n + 1] \in DigitSet
  BY DEF DigitSet
<1> QED BY <1>1 DEF Symbols, Numeral

LEMMA ArgsAre == Args \in Seq(Seq(Symbols)) /\ Len(Args) \in 0 .. 10
<1>1. Args \in Seq(Seq(Keys)) /\ Len(Args) <= 10
  BY CommandLineAssumption
<1>2. Keys \subseteq Symbols
  BY DEF Symbols, Bytes
<1>3. Seq(Keys) \subseteq Seq(Symbols)
  BY <1>2, SeqMonotonic
<1>4. Len(Args) \in Nat
  BY <1>1, LenProperties
<1>5. Seq(Seq(Keys)) \subseteq Seq(Seq(Symbols))
  BY <1>3, SeqMonotonic
<1>6. Args \in Seq(Seq(Symbols))
  BY <1>1, <1>5, Zenon
<1>7. Len(Args) \in 0 .. 10
  <2> DEFINE n == Len(Args)
  <2>1. n \in Nat /\ n <= 10
    BY <1>1, <1>4
  <2> HIDE DEF n
  <2>2. n \in 0 .. 10
    BY <2>1
  <2> QED BY <2>2 DEF n
<1> QED BY <1>6, <1>7

LEMMA ValueOfIs ==
  ASSUME TSlots, NEW n
  PROVE  ValueOf(n) \in Seq(Symbols)
<1> DEFINE S == {i \in SlotIds : slots[i].used /\ slots[i].name = n}
<1>1. S \in SUBSET Nat /\ S \subseteq SlotIds
  BY CommandLineAssumption DEF SlotIds
<1>2. FindSlot(n) = FirstOf(S)
  BY DEF FindSlot
<1> HIDE DEF S
<1>3. FindSlot(n) = NoSlot \/ FindSlot(n) \in SlotIds
  BY <1>1, <1>2, FirstOfIs
<1> QED BY <1>3, EmptyIs DEF ValueOf, TSlots

LEMMA SpecialIs ==
  ASSUME status \in {OK, USAGE, ARG}, NEW c, IsSpecial(c)
  PROVE  SpecialValue(c) \in Seq(Symbols)
<1>1. CASE c = "?"
  <2>1. status \in 0 .. 9
    BY DEF OK, USAGE, ARG
  <2> QED BY <1>1, <2>1, DigitIs DEF SpecialValue
<1>2. CASE c # "?" /\ c = "#"
  <2> DEFINE n == IF Args = <<>> THEN 0 ELSE Len(Args) - 1
  <2>1. n \in 0 .. 9
    BY ArgsAre, EmptySeq
  <2>2. SpecialValue(c) = Numeral(n)
    BY <1>2 DEF SpecialValue
  <2> HIDE DEF n
  <2> QED BY <2>1, <2>2, DigitIs
<1>3. CASE c # "?" /\ c # "#"
  <2> DEFINE idx == CHOOSE d \in 1 .. 10 : Digits[d] = c
  <2>1. \E d \in 1 .. 10 : Digits[d] = c
    BY <1>3 DEF IsSpecial, DigitSet
  <2>2. idx \in 1 .. 10
    BY <2>1
  <2>3. SpecialValue(c) = IF idx > Len(Args) THEN <<>> ELSE Args[idx]
    BY <1>3 DEF SpecialValue
  <2> HIDE DEF idx
  <2>4. idx <= Len(Args) => Args[idx] \in Seq(Symbols)
    BY <2>2, ArgsAre, ElementOfSeq
  <2> QED BY <2>2, <2>3, <2>4, ArgsAre, EmptyIs
<1> QED BY <1>1, <1>2, <1>3

\* What a `$` stands for; a literal is one symbol.
LEMMA ReferenceIs ==
  ASSUME TSlots, status \in {OK, USAGE, ARG}, NEW s \in Seq(Bytes), NEW i \in 1 .. Len(s)
  PROVE  /\ Reference(s, i).kind \in {"value", "toolong", "literal"}
         /\ Reference(s, i).text \in Seq(Symbols \cup {Dollar})
         /\ Reference(s, i).kind = "literal" => Reference(s, i).text = <<Dollar>>
         /\ Reference(s, i).next \in Nat \ {0}
<1> DEFINE braced == Symbol(s, i + 1) = "{"
           first == IF braced THEN i + 2 ELSE i + 1
           c == Symbol(s, first)
           end == IF IsSpecial(c) THEN first + 1 ELSE NameEnd(s, first)
           next == IF braced /\ Symbol(s, end) = "}" THEN end + 1 ELSE end
           r == Reference(s, i)
<1>0. Len(s) \in Nat /\ i \in Nat \ {0}
  BY LenProperties
<1>1. r = CASE IsSpecial(c) -> [kind |-> "value", text |-> SpecialValue(c), next |-> next]
            [] c \in Letters /\ end - first <= NameMax ->
                 [kind |-> "value", text |-> ValueOf(SubSeq(s, first, end - 1)), next |-> next]
            [] c \in Letters /\ end - first > NameMax ->
                 [kind |-> "toolong", text |-> <<>>, next |-> next]
            [] OTHER -> [kind |-> "literal", text |-> <<Dollar>>, next |-> i + 1]
  BY DEF Reference
<1>2. first \in 1 .. Len(s) + 1
  <2>0. first = IF braced THEN i + 2 ELSE i + 1
    OBVIOUS
  <2> HIDE DEF first
  <2>1. CASE braced
    <3>1. i + 1 <= Len(s)
      <4>1. Symbol(s, i + 1) # Nul
        BY <2>1 DEF Nul
      <4> QED BY <4>1 DEF Symbol
    <3> HIDE DEF braced
    <3> QED BY <1>0, <2>0, <2>1, <3>1
  <2>2. CASE ~braced
    <3> HIDE DEF braced
    <3> QED BY <1>0, <2>0, <2>2
  <2> QED BY <2>1, <2>2
<1> HIDE DEF first
<1>3. end \in Nat \ {0}
  <2>1. NameEnd(s, first) \in first .. Len(s) + 1
    BY <1>2, NameEndIs
  <2> QED BY <1>0, <1>2, <2>1
<1> HIDE DEF end, c
<1>4. next \in Nat \ {0}
  <2> DEFINE close == Symbol(s, end) = "}"
  <2>1. next = IF braced /\ close THEN end + 1 ELSE end
    OBVIOUS
  <2> HIDE DEF close, braced, next
  <2> QED BY <1>3, <2>1
<1> HIDE DEF next, r
<1>5. Seq(Symbols) \subseteq Seq(Symbols \cup {Dollar})
  BY SeqMonotonic
<1>6. /\ r.kind \in {"value", "toolong", "literal"}
      /\ r.text \in Seq(Symbols \cup {Dollar})
      /\ r.kind = "literal" => r.text = <<Dollar>>
      /\ r.next \in Nat \ {0}
  <2>1. CASE IsSpecial(c)
    <3> DEFINE t == SpecialValue(c)
    <3>1. t \in Seq(Symbols)
      BY <2>1, SpecialIs
    <3>2. c \notin Letters
      BY <2>1, CommandLineAssumption DEF IsSpecial
    <3>3. r = [kind |-> "value", text |-> t, next |-> next]
      BY <1>1, <2>1, <3>2
    <3> HIDE DEF t
    <3> QED BY <1>4, <1>5, <3>1, <3>3
  <2>2. CASE ~IsSpecial(c) /\ c \in Letters /\ end - first <= NameMax
    <3> DEFINE t == ValueOf(SubSeq(s, first, end - 1))
    <3>1. t \in Seq(Symbols)
      BY ValueOfIs
    <3>2. first \in Nat /\ NameMax \in Nat /\ ~(end - first > NameMax)
      BY <1>0, <1>2, <1>3, <2>2, CommandLineAssumption
    <3>3. r = [kind |-> "value", text |-> t, next |-> next]
      BY <1>1, <2>2, <3>2
    <3> HIDE DEF t
    <3> QED BY <1>4, <1>5, <3>1, <3>3
  <2>3. CASE ~IsSpecial(c) /\ c \in Letters /\ ~(end - first <= NameMax)
    <3>1. end - first > NameMax
      BY <1>2, <1>3, <2>3, CommandLineAssumption
    <3>2. r = [kind |-> "toolong", text |-> <<>>, next |-> next]
      BY <1>1, <2>3, <3>1
    <3> QED BY <1>4, <3>2
  <2>4. CASE ~IsSpecial(c) /\ c \notin Letters
    <3>1. r = [kind |-> "literal", text |-> <<Dollar>>, next |-> i + 1]
      BY <1>1, <2>4
    <3> QED BY <1>0, <3>1
  <2> QED BY <2>1, <2>2, <2>3, <2>4
<1> QED BY <1>6 DEF r

LEMMA HereIs ==
  ASSUME Shape, Expanding, Pending # Nul
  PROVE  /\ Here.text \in Seq(Symbols) /\ Here.next \in Nat \ {0}
         /\ Here.kind = "literal" => Len(Here.text) = 1
<1>1. buf \in Seq(Bytes) /\ at \in Nat \ {0} /\ TSlots /\ status \in {OK, USAGE, ARG}
  BY DEF Shape, TLine, TWords, Expanding
<1>2. at \in 1 .. Len(buf) /\ Pending = buf[at]
  BY <1>1, LenProperties DEF Pending, Symbol
<1>3. Pending \in Symbols
  BY <1>1, <1>2, ElementOfSeq DEF Symbols
<1>4. CASE Pending = Dollar
  <2>1. Here = Reference(buf, at) /\ Symbols \cup {Dollar} = Symbols
    BY <1>3, <1>4 DEF Here
  <2>2. Here.text \in Seq(Symbols) /\ Here.next \in Nat \ {0}
        /\ (Here.kind = "literal" => Here.text = <<Dollar>>)
    BY <1>1, <1>2, <2>1, ReferenceIs
  <2> QED BY <2>2
<1>5. CASE Pending # Dollar
  <2>1. Here = [kind |-> "literal", text |-> <<Pending>>, next |-> at + 1]
    BY <1>5 DEF Here
  <2>2. <<Pending>> \in Seq(Symbols) /\ Len(<<Pending>>) = 1
    BY <1>3, OneIs
  <2> QED BY <1>1, <2>1, <2>2
<1> QED BY <1>4, <1>5

LEMMA ExpandNextShape ==
  ASSUME Shape, ExpandNext
  PROVE  Shape'
<1>1. /\ phase = "expand" /\ Pending # Nul
      /\ UNCHANGED <<line, wasCr, buf, src, dst, argv, words, loops, slots, status>>
  BY DEF ExpandNext, Expanding, feedVars, parseVars, shellVars
<1>2. TSlots'
  BY <1>1 DEF Shape, TSlots
<1>3. CASE Here.kind # "toolong" /\ Fits(Here)
  <2> DEFINE t == Here.text
  <2>1. out' = out \o t /\ at' = Here.next /\ phase' = phase
    BY <1>3 DEF ExpandNext
  <2>2. t \in Seq(Symbols) /\ Here.next \in Nat \ {0} /\ (Here.kind = "literal" => Len(t) = 1)
    BY <1>1, HereIs DEF Expanding
  <2>3. Len(out) + Len(t) <= ExpandSize
    <3>1. Len(out) \in Nat /\ Len(t) \in Nat /\ ExpandSize \in Nat
      BY <2>2, LenProperties, CommandLineAssumption DEF Shape, TWords
    <3>2. CASE Here.kind = "literal"
      <4>1. Len(out) < ExpandSize - 1 /\ Len(t) = 1
        BY <1>3, <2>2, <3>2 DEF Fits
      <4> QED BY <3>1, <4>1
    <3>3. CASE Here.kind # "literal"
      <4>1. Len(out) + Len(t) < ExpandSize
        BY <1>3, <3>3 DEF Fits
      <4> QED BY <3>1, <4>1
    <3> QED BY <3>2, <3>3
  <2> HIDE DEF t
  <2>4. out' \in Seq(Symbols) /\ Len(out') = Len(out) + Len(t) /\ Len(out) \in Nat /\ Len(t) \in Nat
    BY <2>1, <2>2, ConcatProperties, LenProperties DEF Shape, TWords
  <2>5. words \in Seq(Nat \ {0}) /\ Len(words) \in Nat
    BY LenProperties DEF Shape, TWords
  <2>6. \A i \in 1 .. Len(words) : words[i] <= Len(out') + 1
    <3> TAKE i \in 1 .. Len(words)
    <3>1. words[i] \in Nat /\ words[i] <= Len(out) + 1
      BY <2>5, ElementOfSeq DEF Shape, TWords
    <3> QED BY <2>4, <3>1
  <2>7. TWords'
    BY <1>1, <2>1, <2>2, <2>3, <2>4, <2>6 DEF Shape, TWords
  <2>8. TLine' /\ TLoops'
    BY <1>1, <2>1 DEF Shape, TLine, TLoops
  <2> QED BY <1>2, <2>7, <2>8 DEF Shape
<1>4. CASE ~(Here.kind # "toolong" /\ Fits(Here))
  <2>1. phase' = "overflow" /\ UNCHANGED <<out, at>>
    BY <1>4 DEF ExpandNext
  <2>2. TLine' /\ TLoops' /\ TWords'
    BY <1>1, <2>1 DEF Shape, TLine, TLoops, TWords, Phases
  <2> QED BY <1>2, <2>2 DEF Shape
<1> QED BY <1>3, <1>4

LEMMA ExpandWordDoneShape ==
  ASSUME Shape, ExpandWordDone
  PROVE  Shape'
<1>1. /\ phase = "expand"
      /\ UNCHANGED <<line, wasCr, buf, src, dst, argv, slots, status>>
  BY DEF ExpandWordDone, Expanding, feedVars, parseVars, shellVars
<1>2. TSlots'
  BY <1>1 DEF Shape, TSlots
<1>3. /\ argv \in Seq(Nat \ {0}) /\ words \in Seq(Nat \ {0}) /\ out \in Seq(Symbols)
      /\ Len(words) \in Nat /\ Len(argv) \in Nat /\ Len(out) \in Nat /\ ExpandSize \in Nat
      /\ Len(words) <= Len(argv)
      /\ \A i \in 1 .. Len(words) : words[i] \in Nat /\ words[i] <= Len(out) + 1
  BY LenProperties, ElementOfSeq, CommandLineAssumption DEF Shape, TWords
<1>4. CASE Len(out) >= ExpandSize
  <2>1. phase' = "overflow" /\ UNCHANGED <<out, at, words, loops>>
    BY <1>4 DEF ExpandWordDone
  <2>2. TLine' /\ TLoops' /\ TWords'
    BY <1>1, <2>1 DEF Shape, TLine, TLoops, TWords, Phases
  <2> QED BY <1>2, <2>2 DEF Shape
<1>5. CASE ~(Len(out) >= ExpandSize)
  <2>1. out' = Append(out, Nul) /\ Nul \in Symbols
    BY <1>5, NulIsByte DEF ExpandWordDone, Symbols
  <2>2. out' \in Seq(Symbols) /\ Len(out') = Len(out) + 1 /\ Len(out') <= ExpandSize
    BY <1>3, <1>5, <2>1, AppendAt
  <2>3. CASE Len(words) < Len(argv)
    <3>1. /\ words' = Append(words, Len(out) + 2) /\ at' = argv[Len(words) + 1]
          /\ UNCHANGED <<phase, loops>>
      BY <1>5, <2>3 DEF ExpandWordDone
    <3>2. Len(out) + 2 \in Nat \ {0}
      BY <1>3
    <3>3. /\ words' \in Seq(Nat \ {0}) /\ Len(words') = Len(words) + 1
          /\ \A k \in 1 .. Len(words) + 1 : words'[k] = IF k <= Len(words) THEN words[k] ELSE Len(out) + 2
      BY <1>3, <3>1, <3>2, AppendAt
    <3>4. Len(words) + 1 \in 1 .. Len(argv)
      BY <1>3, <2>3
    <3>5. at' \in Nat \ {0}
      BY <1>3, <3>1, <3>4, ElementOfSeq
    <3>6. \A k \in 1 .. Len(words') : words'[k] <= Len(out') + 1
      <4> TAKE k \in 1 .. Len(words')
      <4>1. CASE k <= Len(words)
        <5>1. k \in 1 .. Len(words) /\ words'[k] = words[k]
          BY <1>3, <3>3, <4>1
        <5> QED BY <1>3, <2>2, <5>1
      <4>2. CASE ~(k <= Len(words))
        <5>1. words'[k] = Len(out) + 2
          BY <1>3, <3>3, <4>2
        <5> QED BY <1>3, <2>2, <5>1
      <4> QED BY <4>1, <4>2
    <3>7. TWords'
      BY <1>1, <1>3, <2>2, <2>3, <3>3, <3>5, <3>6 DEF Shape, TWords
    <3>8. TLine'
      BY <1>1, <3>1 DEF Shape, TLine
    <3>9. TLoops'
      <4>1. loops = <<>> /\ Len(loops) = 0
        BY <1>1, EmptyIs DEF Shape, TLoops
      <4> QED BY <1>1, <3>1, <4>1 DEF Shape, TLoops
    <3> QED BY <1>2, <3>7, <3>8, <3>9 DEF Shape
  <2>4. CASE ~(Len(words) < Len(argv))
    <3>1. /\ phase' = "run" /\ loops' = <<[first |-> 1, left |-> 1]>>
          /\ UNCHANGED <<words, at>>
      BY <1>5, <2>4 DEF ExpandWordDone
    <3>2. TWords'
      BY <1>1, <1>3, <2>2, <3>1 DEF Shape, TWords
    <3>3. TLine'
      BY <1>1, <3>1 DEF Shape, TLine, Phases
    <3>4. TLoops'
      <4>1. loops' \in Seq([first : Nat \ {0}, left : Nat]) /\ Len(loops') = 1 /\ loops'[1].first = 1
        BY <3>1
      <4>2. Len(words') >= 1
        BY <1>1, <3>1 DEF Shape, TWords
      <4>3. phase' = "run" /\ loops' # <<>>
        BY <3>1, <4>1
      <4> QED BY <4>1, <4>2, <4>3 DEF TLoops
    <3> QED BY <1>2, <3>2, <3>3, <3>4 DEF Shape
  <2> QED BY <2>3, <2>4
<1> QED BY <1>4, <1>5

-----------------------------------------------------------------------------
(* The handlers *)

LEMMA TopIs ==
  ASSUME Shape, phase = "run"
  PROVE  /\ Len(loops) \in Nat \ {0} /\ Top \in [first : Nat \ {0}, left : Nat]
         /\ Top.first <= Len(words) /\ Len(words) \in Nat
<1>1. loops # <<>> /\ loops \in Seq([first : Nat \ {0}, left : Nat])
  BY DEF Shape, TLoops
<1>2. Len(loops) \in Nat \ {0}
  BY <1>1, EmptySeq
<1>3. Len(loops) \in 1 .. Len(loops)
  BY <1>2
<1>4. Top \in [first : Nat \ {0}, left : Nat]
  BY <1>1, <1>3, ElementOfSeq DEF Top
<1>5. Top.first <= Len(words)
  BY <1>3 DEF Shape, TLoops, Top
<1>6. Len(words) \in Nat
  BY LenProperties DEF Shape, TWords
<1> QED BY <1>2, <1>4, <1>5, <1>6

LEMMA ArgWordsAre ==
  ASSUME Shape, phase = "run"
  PROVE  /\ ArgWords \in Seq(Seq(Symbols)) /\ Len(ArgWords) = Len(words) - Top.first + 1
         /\ Len(ArgWords) \in Nat \ {0}
         /\ \A i \in 1 .. Len(ArgWords) : ArgWords[i] = Word(out, words[Top.first + i - 1])
<1> DEFINE f == Top.first
           n == Len(words)
           ps == SubSeq(words, f, n)
<1>1. f \in Nat \ {0} /\ n \in Nat /\ f <= n
  BY TopIs
<1>2. words \in Seq(Nat \ {0}) /\ words \in Seq(Nat) /\ out \in Seq(Symbols) /\ Len(out) \in Nat
  <2>1. words \in Seq(Nat \ {0}) /\ out \in Seq(Symbols)
    BY DEF Shape, TWords
  <2>2. Seq(Nat \ {0}) \subseteq Seq(Nat)
    BY SeqMonotonic
  <2> QED BY <2>1, <2>2, LenProperties
<1>3. \A i \in 1 .. n : words[i] \in 1 .. Len(out) + 1
  <2> TAKE i \in 1 .. n
  <2>1. words[i] \in Nat \ {0} /\ words[i] <= Len(out) + 1
    BY <1>2, ElementOfSeq DEF Shape, TWords
  <2> QED BY <1>2, <2>1
<1>4. ps \in Seq(Nat) /\ Len(ps) = n - f + 1 /\ \A i \in 1 .. n - f + 1 : ps[i] = words[f + i - 1]
  <2>1. n <= Len(words) /\ f <= n + 1
    BY <1>1
  <2> HIDE DEF f, n
  <2> QED BY <1>1, <1>2, <2>1, SubSeqIs
<1>5. \A i \in 1 .. Len(ps) : ps[i] \in 1 .. Len(out) + 1
  <2> TAKE i \in 1 .. Len(ps)
  <2>1. i \in 1 .. n - f + 1 /\ ps[i] = words[f + i - 1]
    BY <1>4
  <2>2. f + i - 1 \in 1 .. n
    BY <1>1, <2>1
  <2> QED BY <1>3, <2>1, <2>2
<1>6. ArgWords = WordsOf(out, ps)
  BY DEF ArgWords
<1> HIDE DEF ps
<1>7. /\ ArgWords \in Seq(Seq(Symbols)) /\ Len(ArgWords) = Len(ps)
      /\ \A i \in 1 .. Len(ps) : ArgWords[i] = Word(out, ps[i])
  BY <1>2, <1>4, <1>5, <1>6, WordsOfIs
<1>8. n - f + 1 \in Nat \ {0}
  BY <1>1
<1> QED BY <1>4, <1>7, <1>8

\* A handler has returned: its words stay where they are, and so does what is above.
LEMMA ReturnShape ==
  ASSUME Shape, phase = "run", Top.left > 0, NEW rc \in {OK, USAGE, ARG}, Returns(rc),
         out' \in Seq(Symbols), Len(out') = Len(out), TSlots'
  PROVE  Shape'
<1>1. /\ status' = rc /\ loops' = Called
      /\ UNCHANGED <<line, wasCr, phase, buf, src, dst, argv, at, words>>
  BY DEF Returns, feedVars, parseVars
<1>2. TLine'
  BY <1>1 DEF Shape, TLine
<1>3. TWords'
  BY <1>1 DEF Shape, TWords
<1>4. TLoops'
  <2> DEFINE R == [first : Nat \ {0}, left : Nat]
             n == Len(loops)
             e == [first |-> Top.first, left |-> Top.left - 1]
  <2>1. n \in Nat \ {0} /\ Top \in R /\ loops \in Seq(R) /\ loops[n] = Top
    BY TopIs DEF Shape, TLoops, Top
  <2>2. [Top EXCEPT !.left = @ - 1] = e /\ e \in R
    BY <2>1
  <2>3. Called = [loops EXCEPT ![n] = e]
    BY <2>1, <2>2 DEF Called
  <2> HIDE DEF R, n, e
  <2>4. Called \in Seq(R) /\ Len(Called) = n /\ \A k \in 1 .. n : Called[k] = IF k = n THEN e ELSE loops[k]
    <3>1. n \in 1 .. Len(loops)
      BY <2>1 DEF n
    <3> QED BY <2>1, <2>2, <2>3, <3>1, ExceptSeq DEF n
  <2>5. Called # <<>>
    BY <2>1, <2>4, EmptyIs
  <2>6. \A k \in 1 .. n : Called[k].first <= Len(words)
    <3>1. e.first <= Len(words)
      BY TopIs DEF e
    <3> QED BY <2>4, <3>1 DEF Shape, TLoops, n
  <2> QED BY <1>1, <2>4, <2>5, <2>6 DEF TLoops, R
<1> QED BY <1>2, <1>3, <1>4 DEF Shape

LEMMA SlotForIs ==
  ASSUME NEW n, NEW v \in Seq(Symbols), SlotFor(n, v) # NoSlot
  PROVE  SlotFor(n, v) \in SlotIds /\ ValidName(n) /\ Len(v) <= ValueMax
<1> DEFINE S == {i \in SlotIds : slots[i].used /\ slots[i].name = n}
           F == {i \in SlotIds : ~slots[i].used}
<1>1. S \in SUBSET Nat /\ F \in SUBSET Nat /\ S \subseteq SlotIds /\ F \subseteq SlotIds
  BY CommandLineAssumption DEF SlotIds
<1>2. FindSlot(n) = FirstOf(S) /\ FreeSlot = FirstOf(F)
  BY DEF FindSlot, FreeSlot
<1> HIDE DEF S, F
<1>3. (FindSlot(n) = NoSlot \/ FindSlot(n) \in SlotIds) /\ (FreeSlot = NoSlot \/ FreeSlot \in SlotIds)
  BY <1>1, <1>2, FirstOfIs
<1>4. ValidName(n) /\ Len(v) <= ValueMax
  <2>1. ValidName(n) /\ ~(Len(v) > ValueMax)
    BY DEF SlotFor
  <2>2. Len(v) \in Nat /\ ValueMax \in Nat
    BY LenProperties, CommandLineAssumption
  <2> QED BY <2>1, <2>2
<1> QED BY <1>3, <1>4 DEF SlotFor

LEMMA AssignSlots ==
  ASSUME TSlots, NEW n \in Seq(Symbols), NEW v \in Seq(Symbols), Assign(n, v)
  PROVE  TSlots' /\ (Returns(ARG) \/ Returns(OK))
<1> DEFINE i == SlotFor(n, v)
<1>1. CASE i = NoSlot
  BY <1>1 DEF Assign, TSlots
<1>2. CASE i # NoSlot
  <2>1. slots' = [slots EXCEPT ![i] = Variable(n, v)] /\ Returns(OK)
    BY <1>2 DEF Assign
  <2>2. i \in SlotIds /\ ValidName(n) /\ Len(v) <= ValueMax
    BY <1>2, SlotForIs
  <2> HIDE DEF i
  <2>3. /\ Variable(n, v) \in [used : BOOLEAN, name : Seq(Symbols), value : Seq(Symbols)]
        /\ Variable(n, v).name = n /\ Variable(n, v).value = v
    BY DEF Variable
  <2> QED BY <2>1, <2>2, <2>3 DEF TSlots
<1> QED BY <1>1, <1>2

LEMMA RunSetWordsShape ==
  ASSUME Shape, RunSetWords
  PROVE  Shape'
<1>1. phase = "run" /\ Top.left > 0 /\ Len(ArgWords) # 2 /\ out' = out
  BY DEF RunSetWords, Calling
<1>2. ArgWords \in Seq(Seq(Symbols)) /\ Len(ArgWords) \in Nat \ {0}
  BY <1>1, ArgWordsAre
<1>3. TSlots /\ out \in Seq(Symbols)
  BY DEF Shape, TWords
<1>4. CASE Len(ArgWords) = 1
  <2>1. Returns(OK) /\ slots' = slots
    BY <1>4 DEF RunSetWords
  <2>2. TSlots'
    BY <1>3, <2>1 DEF TSlots
  <2> QED BY <1>1, <1>3, <2>1, <2>2, ReturnShape
<1>5. CASE Len(ArgWords) # 1
  <2>1. Assign(ArgWords[2], ArgWords[3])
    BY <1>5 DEF RunSetWords
  <2>2. 2 \in 1 .. Len(ArgWords) /\ 3 \in 1 .. Len(ArgWords)
    <3> DEFINE n == Len(ArgWords)
    <3>1. n \in Nat \ {0} /\ n # 2 /\ n # 1
      BY <1>1, <1>2, <1>5
    <3> HIDE DEF n
    <3>2. 2 \in 1 .. n /\ 3 \in 1 .. n
      BY <3>1
    <3> QED BY <3>2 DEF n
  <2>3. ArgWords[2] \in Seq(Symbols) /\ ArgWords[3] \in Seq(Symbols)
    BY <1>2, <2>2, ElementOfSeq
  <2>4. TSlots' /\ (Returns(ARG) \/ Returns(OK))
    BY <1>3, <2>1, <2>3, AssignSlots
  <2> QED BY <1>1, <1>3, <2>4, ReturnShape
<1> QED BY <1>4, <1>5

LEMMA RunSetPairShape ==
  ASSUME Shape, RunSetPair
  PROVE  Shape'
<1> DEFINE word == ArgWords[2]
           S == {k \in 1 .. Len(word) : word[k] = "="}
           eq == FirstOf(S)
           j == words[Top.first + 1] + eq - 1
<1>1. phase = "run" /\ Top.left > 0 /\ Len(ArgWords) = 2
  BY DEF RunSetPair, Calling
<1>2. ArgWords \in Seq(Seq(Symbols))
  BY <1>1, ArgWordsAre
<1>3. TSlots /\ out \in Seq(Symbols)
  BY DEF Shape, TWords
<1>4. word \in Seq(Symbols) /\ Len(word) \in Nat
  <2>1. 2 \in 1 .. Len(ArgWords)
    BY <1>1
  <2>2. word \in Seq(Symbols)
    BY <1>2, <2>1, ElementOfSeq
  <2> QED BY <2>2, LenProperties
<1>5. IF eq = NoSlot THEN UNCHANGED <<out, slots>> /\ Returns(USAGE)
      ELSE /\ out' = [out EXCEPT ![j] = Nul]
           /\ Assign(SubSeq(word, 1, eq - 1), SubSeq(word, eq + 1, Len(word)))
  BY DEF RunSetPair
<1>6. S \in SUBSET Nat /\ S \subseteq 1 .. Len(word)
  BY <1>4
<1> HIDE DEF word, S, j
<1>7. CASE eq = NoSlot
  <2>1. Returns(USAGE) /\ slots' = slots /\ out' = out
    BY <1>5, <1>7
  <2>2. TSlots'
    BY <1>3, <2>1 DEF TSlots
  <2> QED BY <1>1, <1>3, <2>1, <2>2, ReturnShape
<1>8. CASE eq # NoSlot
  <2>1. eq \in 1 .. Len(word)
    BY <1>6, <1>8, FirstOfIs
  <2> HIDE DEF eq
  <2>2. SubSeq(word, 1, eq - 1) \in Seq(Symbols) /\ SubSeq(word, eq + 1, Len(word)) \in Seq(Symbols)
    <3>1. eq - 1 \in Nat /\ eq - 1 <= Len(word) /\ 1 <= eq - 1 + 1
      BY <1>4, <2>1
    <3>2. eq + 1 \in Nat \ {0} /\ Len(word) <= Len(word) /\ eq + 1 <= Len(word) + 1
      BY <1>4, <2>1
    <3>3. SubSeq(word, 1, eq - 1) \in Seq(Symbols)
      BY <1>4, <3>1, SubSeqIs
    <3>4. SubSeq(word, eq + 1, Len(word)) \in Seq(Symbols)
      BY <1>4, <3>2, SubSeqIs
    <3> QED BY <3>3, <3>4
  <2>3. TSlots' /\ (Returns(ARG) \/ Returns(OK))
    BY <1>3, <1>5, <1>8, <2>2, AssignSlots
  <2>4. out' \in Seq(Symbols) /\ Len(out') = Len(out)
    <3>1. out' = [out EXCEPT ![j] = Nul] /\ Nul \in Symbols
      BY <1>5, <1>8, NulIsByte DEF Symbols
    <3>2. CASE j \in 1 .. Len(out)
      BY <1>3, <3>1, <3>2, ExceptSeq
    <3>3. CASE j \notin 1 .. Len(out)
      <4>1. DOMAIN out = 1 .. Len(out)
        BY <1>3, LenProperties
      <4>2. out' = out
        BY <1>3, <3>1, <3>3, <4>1
      <4> QED BY <1>3, <4>2
    <3> QED BY <3>2, <3>3
  <2> QED BY <1>1, <1>3, <2>3, <2>4, ReturnShape
<1> QED BY <1>7, <1>8

LEMMA UnsetSlots ==
  ASSUME TSlots, NEW names
  PROVE  UnsetAll(names) \in [SlotIds -> [used : BOOLEAN, name : Seq(Symbols), value : Seq(Symbols)]]
         /\ \A i \in SlotIds :
              UnsetAll(names)[i] = IF \E k \in 1 .. Len(names) : FindSlot(names[k]) = i
                                   THEN [slots[i] EXCEPT !.used = FALSE] ELSE slots[i]
BY DEF UnsetAll, TSlots

LEMMA RunRepeatShape ==
  ASSUME Shape, RunRepeat
  PROVE  Shape'
<1>1. phase = "run" /\ Top.left > 0 /\ out' = out /\ slots' = slots
  BY DEF RunRepeat, Calling
<1>2. TSlots' /\ out \in Seq(Symbols)
  BY <1>1 DEF Shape, TWords, TSlots
<1> DEFINE bad == Len(ArgWords) < 3 \/ ArgWords[2] \notin Counts
<1>3. CASE bad
  <2>1. Returns(USAGE) \/ Returns(ARG)
    BY <1>3 DEF RunRepeat
  <2> QED BY <1>1, <1>2, <2>1, ReturnShape
<1>4. CASE ~bad
  <2> DEFINE R == [first : Nat \ {0}, left : Nat]
             n == Len(loops)
             e == [first |-> Top.first, left |-> Top.left - 1]
             l == [first |-> Top.first + 2, left |-> CountOf(ArgWords[2])]
  <2>1. /\ loops' = Append(Called, l)
        /\ UNCHANGED <<line, wasCr, phase, buf, src, dst, argv, at, words, status>>
    BY <1>4 DEF RunRepeat, feedVars, parseVars
  <2>2. n \in Nat \ {0} /\ Top \in R /\ loops \in Seq(R) /\ loops[n] = Top /\ Top.first <= Len(words)
        /\ Len(words) \in Nat
    BY <1>1, TopIs DEF Shape, TLoops, Top
  <2>3. Top.first + 2 <= Len(words)
    <3>1. Len(ArgWords) = Len(words) - Top.first + 1 /\ ~(Len(ArgWords) < 3)
      BY <1>1, <1>4, ArgWordsAre
    <3> QED BY <2>2, <3>1
  <2>4. CountOf(ArgWords[2]) \in Nat
    <3>1. \E d \in 2 .. 10 : ArgWords[2] = <<Digits[d]>>
      BY <1>4 DEF Counts
    <3> DEFINE d == CHOOSE d \in 2 .. 10 : ArgWords[2] = <<Digits[d]>>
    <3>2. d \in 2 .. 10
      BY <3>1
    <3>3. CountOf(ArgWords[2]) = d - 1
      BY DEF CountOf
    <3> HIDE DEF d
    <3> QED BY <3>2, <3>3
  <2>5. e \in R /\ l \in R /\ e.first <= Len(words) /\ l.first <= Len(words)
    BY <1>1, <2>2, <2>3, <2>4
  <2>6. Called = [loops EXCEPT ![n] = e]
    <3>1. [Top EXCEPT !.left = @ - 1] = e
      BY <2>2
    <3> QED BY <2>2, <3>1 DEF Called
  <2> HIDE DEF R, n, e, l
  <2>7. Called \in Seq(R) /\ Len(Called) = n /\ \A k \in 1 .. n : Called[k] = IF k = n THEN e ELSE loops[k]
    <3>1. n \in 1 .. Len(loops)
      BY <2>2 DEF n
    <3> QED BY <2>2, <2>5, <2>6, <3>1, ExceptSeq DEF n
  <2>8. loops' \in Seq(R) /\ Len(loops') = n + 1
        /\ \A k \in 1 .. n + 1 : loops'[k] = IF k <= n THEN Called[k] ELSE l
    BY <2>1, <2>5, <2>7, AppendAt
  <2>9. \A k \in 1 .. n + 1 : loops'[k].first <= Len(words)
    <3> TAKE k \in 1 .. n + 1
    <3>1. CASE k <= n
      <4>1. k \in 1 .. n
        BY <2>2, <3>1
      <4>2. loops'[k] = IF k = n THEN e ELSE loops[k]
        BY <2>7, <2>8, <3>1, <4>1
      <4> QED BY <2>5, <4>1, <4>2 DEF Shape, TLoops, n
    <3>2. CASE ~(k <= n)
      BY <2>5, <2>8, <3>2
    <3> QED BY <3>1, <3>2
  <2>10. loops' # <<>>
    BY <2>2, <2>8, EmptyIs
  <2>11. TLoops'
    BY <1>1, <2>1, <2>8, <2>9, <2>10 DEF TLoops, R
  <2>12. TLine' /\ TWords'
    BY <1>1, <2>1 DEF Shape, TLine, TWords
  <2> QED BY <1>2, <2>11, <2>12 DEF Shape
<1> QED BY <1>3, <1>4

LEMMA RepeatDoneShape ==
  ASSUME Shape, RepeatDone
  PROVE  Shape'
<1>1. /\ phase = "run" /\ Len(loops) > 1 /\ loops' = SubSeq(loops, 1, Len(loops) - 1) /\ status' = OK
      /\ UNCHANGED <<line, wasCr, phase, buf, src, dst, argv, out, at, words, slots>>
  BY DEF RepeatDone, feedVars, parseVars, expandVars
<1> DEFINE R == [first : Nat \ {0}, left : Nat]
<1>2. loops \in Seq(R) /\ loops # <<>> /\ Len(loops) \in Nat
  BY <1>1, LenProperties DEF Shape, TLoops
<1>3. /\ loops' \in Seq(R) /\ Len(loops') = Len(loops) - 1
      /\ \A k \in 1 .. Len(loops) - 1 : loops'[k] = loops[k]
  BY <1>1, <1>2, FrontAt
<1>4. loops' # <<>>
  <2>1. Len(<< >>) = 0
    OBVIOUS
  <2>2. Len(loops') # 0
    BY <1>1, <1>2, <1>3
  <2> QED BY <2>1, <2>2
<1>5. \A k \in 1 .. Len(loops') : loops'[k].first <= Len(words)
  <2> TAKE k \in 1 .. Len(loops')
  <2>1. k \in 1 .. Len(loops) /\ loops'[k] = loops[k]
    BY <1>2, <1>3
  <2> QED BY <2>1 DEF Shape, TLoops
<1>6. TLoops'
  BY <1>1, <1>3, <1>4, <1>5 DEF TLoops
<1>7. TLine' /\ TWords' /\ TSlots'
  BY <1>1 DEF Shape, TLine, TWords, TSlots
<1> QED BY <1>6, <1>7 DEF Shape

LEMMA RunShape ==
  ASSUME Shape, Run
  PROVE  Shape'
<1>1. CASE RunUnset
  <2>1. phase = "run" /\ Top.left > 0 /\ out' = out /\ TSlots /\ out \in Seq(Symbols)
    BY <1>1 DEF RunUnset, Calling, Shape, TWords
  <2>2. (Returns(USAGE) /\ slots' = slots) \/ (Returns(OK) /\ \E names : slots' = UnsetAll(names))
    BY <1>1 DEF RunUnset
  <2>3. TSlots'
    <3>1. CASE slots' = slots
      BY <2>1, <3>1 DEF TSlots
    <3>2. CASE \E names : slots' = UnsetAll(names)
      <4>1. PICK names : slots' = UnsetAll(names)
        BY <3>2
      <4>2. /\ slots' \in [SlotIds -> [used : BOOLEAN, name : Seq(Symbols), value : Seq(Symbols)]]
            /\ \A i \in SlotIds : slots'[i] \in {slots[i], [slots[i] EXCEPT !.used = FALSE]}
        BY <2>1, <4>1, UnsetSlots
      <4>3. ASSUME NEW i \in SlotIds, slots'[i].used
            PROVE  ValidName(slots'[i].name) /\ Len(slots'[i].value) <= ValueMax
        BY <2>1, <4>2, <4>3 DEF TSlots
      <4> QED BY <4>2, <4>3 DEF TSlots
    <3> QED BY <2>2, <3>1, <3>2
  <2> QED BY <2>1, <2>2, <2>3, ReturnShape
<1>2. CASE RunUnknown
  <2>1. /\ phase = "run" /\ Top.left > 0 /\ out' = out /\ slots' = slots /\ Returns(ARG)
        /\ TSlots /\ out \in Seq(Symbols)
    BY <1>2 DEF RunUnknown, Shape, TWords
  <2>2. TSlots'
    BY <2>1 DEF TSlots
  <2> QED BY <2>1, <2>2, ReturnShape
<1>3. CASE LineDone
  BY <1>3, FinishShape DEF LineDone
<1> QED BY <1>1, <1>2, <1>3, RunSetWordsShape, RunSetPairShape, RunRepeatShape, RepeatDoneShape DEF Run

LEMMA ShapeNext == LineInv /\ Shape /\ [Next]_vars => Shape'
<1> SUFFICES ASSUME LineInv, Shape, [Next]_vars PROVE Shape'
  OBVIOUS
<1>1. LineInv'
  BY LineInvNext
<1>2. CASE Feed
  BY <1>2, FeedShape DEF Feed
<1>3. CASE Parse
  BY <1>1, <1>3, ParseShape, ParseDoneShape DEF Parse
<1>4. CASE Refused
  BY <1>4, FinishShape DEF Refused
<1>5. CASE Expand
  BY <1>5, ExpandNextShape, ExpandWordDoneShape DEF Expand
<1>6. CASE Run
  BY <1>6, RunShape
<1>7. CASE UNCHANGED vars
  BY <1>7 DEF vars, feedVars, parseVars, expandVars, shellVars, Shape, TLine, TWords, TLoops, TSlots
<1> QED BY <1>2, <1>3, <1>4, <1>5, <1>6, <1>7 DEF Next

LEMMA ShapeAlways == Spec => []Shape
<1>1. LineInv /\ Shape /\ [Next]_vars => LineInv' /\ Shape'
  BY LineInvNext, ShapeNext
<1> QED BY <1>1, LineInvInit, ShapeInit, PTL DEF Spec

\* The cursors stay in the line, g_expand_buf is never overrun whatever the variables and
\* arguments hold, and argv never has more than CLI_MAX_ARGS words.
THEOREM LineTypeCorrect == Spec => []TypeOK
<1>1. Shape => TypeOK
  BY DEF Shape, TLine, TWords, TSlots, TypeOK
<1> QED BY <1>1, ShapeAlways, PTL

-----------------------------------------------------------------------------
(* The variables as a map *)

\* No two slots in use carry the same name.
Distinct ==
  \A i, j \in SlotIds : slots[i].used /\ slots[j].used /\ slots[i].name = slots[j].name => i = j

Held == [n \in UsedNames |-> ValueOf(n)]

LEMMA FindSlotIs ==
  ASSUME NEW n
  PROVE  \/ FindSlot(n) = NoSlot /\ \A i \in SlotIds : ~(slots[i].used /\ slots[i].name = n)
         \/ FindSlot(n) \in SlotIds /\ slots[FindSlot(n)].used /\ slots[FindSlot(n)].name = n
<1> DEFINE S == {i \in SlotIds : slots[i].used /\ slots[i].name = n}
<1>1. S \in SUBSET Nat /\ FindSlot(n) = FirstOf(S)
  BY CommandLineAssumption DEF SlotIds, FindSlot
<1>2. \/ S = {} /\ FirstOf(S) = NoSlot
      \/ S # {} /\ FirstOf(S) \in S
  <2> HIDE DEF S
  <2> QED BY <1>1, FirstOfIs
<1> QED BY <1>1, <1>2

LEMMA FreeSlotIs ==
  \/ FreeSlot = NoSlot /\ \A i \in SlotIds : slots[i].used
  \/ FreeSlot \in SlotIds /\ ~slots[FreeSlot].used
<1> DEFINE S == {i \in SlotIds : ~slots[i].used}
<1>1. S \in SUBSET Nat /\ FreeSlot = FirstOf(S)
  BY CommandLineAssumption DEF SlotIds, FreeSlot
<1>2. \/ S = {} /\ FirstOf(S) = NoSlot
      \/ S # {} /\ FirstOf(S) \in S
  <2> HIDE DEF S
  <2> QED BY <1>1, FirstOfIs
<1> QED BY <1>1, <1>2

LEMMA NoSlotIsNone == NoSlot \notin SlotIds
BY DEF NoSlot, SlotIds

\* A slot in use is the one its name is found in.
LEMMA OwnValue ==
  ASSUME Distinct, NEW i \in SlotIds, slots[i].used
  PROVE  slots[i].name \in UsedNames /\ FindSlot(slots[i].name) = i
         /\ ValueOf(slots[i].name) = slots[i].value
<1>1. FindSlot(slots[i].name) = i
  BY FindSlotIs DEF Distinct
<1> QED BY <1>1, NoSlotIsNone DEF ValueOf, UsedNames

OwnValues == \A x : \A i \in SlotIds : slots[i].used /\ slots[i].name = x => ValueOf(x) = slots[i].value

LEMMA DistinctOwn == Distinct => OwnValues
BY OwnValue DEF OwnValues

LEMMA NameIsUsed ==
  ASSUME NEW n
  PROVE  n \in UsedNames <=> FindSlot(n) # NoSlot
BY FindSlotIs, NoSlotIsNone DEF UsedNames

\* As many names are set as slots are in use: a free slot is room for one more.
LEMMA RoomIsFreeSlot ==
  ASSUME Distinct
  PROVE  Cardinality(UsedNames) < SlotCount <=> FreeSlot # NoSlot
<1> DEFINE U == {j \in SlotIds : slots[j].used}
           f == [j \in U |-> slots[j].name]
<1>1. IsFiniteSet(SlotIds) /\ Cardinality(SlotIds) = SlotCount /\ SlotCount \in Nat
  <2>1. SlotCount \in Nat /\ 1 \in Int /\ SlotCount \in Int
    BY CommandLineAssumption
  <2>2. IsFiniteSet(1 .. SlotCount) /\ Cardinality(1 .. SlotCount) = IF 1 > SlotCount THEN 0 ELSE SlotCount - 1 + 1
    BY <2>1, FS_Interval
  <2> QED BY <2>1, <2>2 DEF SlotIds
<1>2. IsFiniteSet(U) /\ Cardinality(U) <= SlotCount /\ (Cardinality(U) = SlotCount => U = SlotIds)
      /\ Cardinality(U) \in Nat
  <2>1. U \in SUBSET SlotIds
    OBVIOUS
  <2> HIDE DEF U
  <2>2. IsFiniteSet(U) /\ Cardinality(U) <= Cardinality(SlotIds) /\ (Cardinality(SlotIds) = Cardinality(U) => SlotIds = U)
    BY <1>1, <2>1, FS_Subset
  <2> QED BY <1>1, <2>2, FS_CardinalityType
<1>3. f \in Bijection(U, UsedNames)
  <2>1. f \in [U -> UsedNames]
    BY DEF UsedNames
  <2>2. \A a, b \in U : f[a] = f[b] => a = b
    BY DEF Distinct
  <2>3. \A t \in UsedNames : \E s \in U : f[s] = t
    BY DEF UsedNames
  <2> QED BY <2>1, <2>2, <2>3 DEF Bijection, Injection, Surjection, IsInjective
<1>4. Cardinality(UsedNames) = Cardinality(U)
  <2> HIDE DEF U, f
  <2> QED BY <1>2, <1>3, FS_Bijection DEF ExistsBijection
<1>5. U = SlotIds <=> FreeSlot = NoSlot
  BY FreeSlotIs, NoSlotIsNone
<1>6. U = SlotIds => Cardinality(U) = SlotCount
  BY <1>1
<1> HIDE DEF U, f
<1> QED BY <1>1, <1>2, <1>4, <1>5, <1>6

-----------------------------------------------------------------------------
(* An assignment *)

\* What the map of vars.h answers to an assignment
Assigned(n, v) == [x \in UsedNames \cup {n} |-> IF x = n THEN v ELSE Held[x]]
Accepted(n, v) ==
  ValidName(n) /\ Len(v) <= ValueMax /\ (n \in UsedNames \/ Cardinality(UsedNames) < SlotCount)

LEMMA SameSlots ==
  ASSUME slots' = slots
  PROVE  Held' = Held /\ (Distinct => Distinct')
BY DEF Held, UsedNames, ValueOf, FindSlot, Distinct

LEMMA AssignAnswer ==
  ASSUME TSlots, Distinct, NEW n, NEW v \in Seq(Symbols), Assign(n, v)
  PROVE  Distinct' /\ Held' = IF Accepted(n, v) THEN Assigned(n, v) ELSE Held
<1> DEFINE i == SlotFor(n, v)
<1>0. Len(v) \in Nat /\ ValueMax \in Nat
  BY LenProperties, CommandLineAssumption
<1>1. Accepted(n, v) <=> i # NoSlot
  BY <1>0, NameIsUsed, RoomIsFreeSlot DEF Accepted, SlotFor
<1>2. CASE i = NoSlot
  <2>1. slots' = slots
    BY <1>2 DEF Assign
  <2> QED BY <1>1, <1>2, <2>1, SameSlots
<1>3. CASE i # NoSlot
  <2>1. slots' = [slots EXCEPT ![i] = Variable(n, v)]
    BY <1>3 DEF Assign
  <2>2. /\ i \in SlotIds
        /\ \/ slots[i].used /\ slots[i].name = n
           \/ ~slots[i].used /\ n \notin UsedNames
    <3>1. ~(~ValidName(n) \/ Len(v) > ValueMax)
      BY <1>3 DEF SlotFor
    <3>2. CASE FindSlot(n) # NoSlot
      <4>1. i = FindSlot(n)
        BY <3>1, <3>2 DEF SlotFor
      <4> QED BY <3>2, <4>1, FindSlotIs
    <3>3. CASE FindSlot(n) = NoSlot
      <4>1. i = FreeSlot
        BY <3>1, <3>3 DEF SlotFor
      <4> QED BY <1>3, <3>3, <4>1, FreeSlotIs, NameIsUsed
    <3> QED BY <3>2, <3>3
  <2> HIDE DEF i
  <2>3. /\ \A j \in SlotIds \ {i} : slots'[j] = slots[j]
        /\ slots'[i] = Variable(n, v)
    BY <2>1, <2>2 DEF TSlots
  <2>4. slots'[i].used /\ slots'[i].name = n /\ slots'[i].value = v
    BY <2>3 DEF Variable
  <2>5. \A j \in SlotIds \ {i} : slots[j].used => slots[j].name # n
    BY <2>2 DEF Distinct, UsedNames
  <2>6. Distinct'
    BY <2>3, <2>4, <2>5 DEF Distinct
  <2>7. UsedNames' = UsedNames \cup {n}
    <3>1. ASSUME NEW j \in SlotIds, slots'[j].used PROVE slots'[j].name \in UsedNames \cup {n}
      BY <2>3, <2>4, <3>1 DEF UsedNames
    <3>2. ASSUME NEW j \in SlotIds, slots[j].used PROVE slots[j].name \in UsedNames'
      <4>1. CASE j = i
        BY <2>2, <2>4, <3>2, <4>1 DEF UsedNames
      <4>2. CASE j # i
        BY <2>3, <3>2, <4>2 DEF UsedNames
      <4> QED BY <4>1, <4>2
    <3>3. n \in UsedNames'
      BY <2>2, <2>4 DEF UsedNames
    <3> QED BY <3>1, <3>2, <3>3 DEF UsedNames
  <2>8. \A x : \A j \in SlotIds : slots'[j].used /\ slots'[j].name = x => ValueOf(x)' = slots'[j].value
    <3>1. (Distinct => OwnValues)'
      BY DistinctOwn, PTL
    <3> QED BY <2>6, <3>1 DEF OwnValues
  <2>9. ASSUME NEW x \in UsedNames \cup {n}
        PROVE  ValueOf(x)' = IF x = n THEN v ELSE Held[x]
    <3>1. CASE x = n
      BY <2>2, <2>4, <2>8, <3>1
    <3>2. CASE x # n
      <4>1. PICK j \in SlotIds : slots[j].used /\ slots[j].name = x
        BY <2>9, <3>2 DEF UsedNames
      <4>2. j # i
        BY <2>2, <3>2, <4>1
      <4>3. slots'[j] = slots[j]
        BY <2>3, <4>2
      <4>4. ValueOf(x)' = slots[j].value
        BY <2>8, <4>1, <4>3
      <4>5. Held[x] = slots[j].value
        BY <4>1, OwnValue DEF Held
      <4> QED BY <3>2, <4>4, <4>5
    <3> QED BY <3>1, <3>2
  <2>10. Held' = [x \in UsedNames' |-> ValueOf(x)']
    BY DEF Held
  <2>11. Held' = Assigned(n, v)
    BY <2>7, <2>9, <2>10 DEF Assigned
  <2> QED BY <1>1, <1>3, <2>6, <2>11 DEF i
<1> QED BY <1>2, <1>3

-----------------------------------------------------------------------------
(* What the map answers, and what vars.c does *)

LEMMA HeldDomain == DOMAIN Held = UsedNames
BY DEF Held

\* The instance carries its own copy of Cardinality.
LEMMA SameCardinality ==
  ASSUME NEW S
  PROVE  Promise!Cardinality(S) = Cardinality(S)
BY DEF Promise!Cardinality, Cardinality

LEMMA NothingAnswered ==
  ASSUME Asked = [does |-> "nothing"], Held' = Held
  PROVE  Promise!Next
<1>1. Asked.does = "nothing"
  OBVIOUS
<1>2. Promise!Answer = Held
  BY <1>1 DEF Promise!Answer, Held
<1> QED BY <1>2 DEF Promise!Next, Held

LEMMA AssignAnswered ==
  ASSUME NEW n, NEW v, Asked = [does |-> "assign", name |-> n, value |-> v],
         Held' = IF Accepted(n, v) THEN Assigned(n, v) ELSE Held
  PROVE  Promise!Next
<1>1. Asked.does = "assign" /\ Asked.name = n /\ Asked.value = v
  OBVIOUS
<1>2. Promise!Accepts(n, v) <=> Accepted(n, v)
  <2>1. Promise!Accepts(n, v) <=>
          ValidName(n) /\ IsValue(v) /\ (n \in DOMAIN Held \/ Promise!Cardinality(DOMAIN Held) < SlotCount)
    BY DEF Promise!Accepts, Held
  <2>2. IsValue(v) <=> Len(v) <= ValueMax
    BY DEF IsValue
  <2> QED BY <2>1, <2>2, HeldDomain, SameCardinality DEF Accepted
<1>3. Promise!Answer = IF Accepted(n, v) THEN Assigned(n, v) ELSE Held
  <2>1. CASE Accepted(n, v)
    BY <1>1, <1>2, <2>1, HeldDomain DEF Promise!Answer, Held, Assigned
  <2>2. CASE ~Accepted(n, v)
    BY <1>1, <1>2, <2>2 DEF Promise!Answer, Held
  <2> QED BY <2>1, <2>2
<1> QED BY <1>3 DEF Promise!Next, Held

LEMMA ForgetAnswered ==
  ASSUME NEW names, Asked = [does |-> "forget", names |-> names],
         Held' = [x \in UsedNames \ names |-> Held[x]]
  PROVE  Promise!Next
<1>1. Asked.does = "forget" /\ Asked.names = names
  OBVIOUS
<1>2. Promise!Answer = [x \in UsedNames \ names |-> Held[x]]
  BY <1>1, HeldDomain DEF Promise!Answer, Held
<1> QED BY <1>2 DEF Promise!Next, Held

\* No handler of set or unset is called: nothing is asked of the map.
LEMMA NoHandler ==
  ASSUME Distinct, slots' = slots, ~Calling("s"), ~Calling("u")
  PROVE  Distinct' /\ Promise!Next
<1>1. Asked = [does |-> "nothing"]
  BY DEF Asked
<1> QED BY <1>1, SameSlots, NothingAnswered

\* What is left of the map when names are forgotten
Without(names) == [x \in UsedNames \ names |-> Held[x]]
NamesIn(ws) == {ws[k] : k \in 1 .. Len(ws)}

\* unset gives up the slot of every name that is set; a name given twice, or one that is
\* not set, makes no difference.
LEMMA UnsetAnswer ==
  ASSUME TSlots, Distinct, NEW names, slots' = UnsetAll(names)
  PROVE  Distinct' /\ Held' = Without(NamesIn(names))
<1> DEFINE S == NamesIn(names)
<1>0. \A n : n \in S <=> \E k \in 1 .. Len(names) : n = names[k]
  BY DEF NamesIn
<1> HIDE DEF S
<1>1. \A i \in SlotIds : slots'[i] = IF \E k \in 1 .. Len(names) : FindSlot(names[k]) = i
                                     THEN [slots[i] EXCEPT !.used = FALSE] ELSE slots[i]
  BY UnsetSlots
<1>2. ASSUME NEW i \in SlotIds
      PROVE  /\ slots'[i].used <=> slots[i].used /\ slots[i].name \notin S
             /\ slots'[i].name = slots[i].name /\ slots'[i].value = slots[i].value
  <2> DEFINE gone == \E k \in 1 .. Len(names) : FindSlot(names[k]) = i
  <2>0. slots[i] \in [used : BOOLEAN, name : Seq(Symbols), value : Seq(Symbols)]
    BY DEF TSlots
  <2>1. CASE gone
    <3>1. PICK k \in 1 .. Len(names) : FindSlot(names[k]) = i
      BY <2>1
    <3>2. slots[i].used /\ slots[i].name = names[k]
      BY <3>1, FindSlotIs, NoSlotIsNone
    <3>3. slots'[i] = [slots[i] EXCEPT !.used = FALSE]
      BY <1>1, <2>1
    <3> QED BY <2>0, <1>0, <3>2, <3>3
  <2>2. CASE ~gone
    <3>1. slots'[i] = slots[i]
      BY <1>1, <2>2
    <3>2. ASSUME slots[i].used, slots[i].name \in S PROVE FALSE
      <4>1. PICK k \in 1 .. Len(names) : slots[i].name = names[k]
        BY <1>0, <3>2
      <4>2. FindSlot(names[k]) = i
        BY <3>2, <4>1, OwnValue
      <4> QED BY <2>2, <4>2
    <3> QED BY <3>1, <3>2
  <2> QED BY <2>1, <2>2
<1>3. Distinct'
  BY <1>2 DEF Distinct
<1>4. UsedNames' = UsedNames \ S
  BY <1>2 DEF UsedNames
<1>5. ASSUME NEW x \in UsedNames \ S
      PROVE  ValueOf(x)' = Held[x]
  <2>1. PICK i \in SlotIds : slots[i].used /\ slots[i].name = x
    BY DEF UsedNames
  <2>2. Held[x] = slots[i].value
    BY <2>1, OwnValue DEF Held
  <2>3. slots'[i].used /\ slots'[i].name = x /\ slots'[i].value = slots[i].value
    BY <1>2, <2>1
  <2>4. (Distinct => OwnValues)'
    BY DistinctOwn, PTL
  <2>5. ValueOf(x)' = slots'[i].value
    BY <1>3, <2>3, <2>4 DEF OwnValues
  <2> QED BY <2>2, <2>3, <2>5
<1>6. Held' = [x \in UsedNames' |-> ValueOf(x)']
  BY DEF Held
<1>7. Held' = Without(S)
  BY <1>4, <1>5, <1>6 DEF Without
<1> QED BY <1>3, <1>7 DEF S

LEMMA HandlersDiffer == <<"s">> # <<"u">> /\ <<"s">> # <<"r">> /\ <<"u">> # <<"r">>
OBVIOUS

LEMMA RunSetWordsAnswer ==
  ASSUME Shape, Distinct, RunSetWords
  PROVE  Distinct' /\ Promise!Next
<1>1. phase = "run" /\ Calling("s") /\ Len(ArgWords) # 2 /\ ~Calling("u")
  BY HandlersDiffer DEF RunSetWords, Calling
<1>2. ArgWords \in Seq(Seq(Symbols)) /\ Len(ArgWords) \in Nat \ {0}
  BY <1>1, ArgWordsAre
<1>3. CASE Len(ArgWords) = 1
  <2>1. slots' = slots
    BY <1>3 DEF RunSetWords
  <2>2. Asked = [does |-> "nothing"]
    BY <1>1, <1>3 DEF Asked
  <2> QED BY <2>1, <2>2, SameSlots, NothingAnswered
<1>4. CASE Len(ArgWords) # 1
  <2> DEFINE len == Len(ArgWords)
  <2>1. len > 2 /\ 3 \in 1 .. len
    <3>1. len \in Nat \ {0} /\ len # 1 /\ len # 2
      BY <1>1, <1>2, <1>4
    <3> HIDE DEF len
    <3> QED BY <3>1
  <2>2. Asked = [does |-> "assign", name |-> ArgWords[2], value |-> ArgWords[3]]
    BY <1>1, <2>1 DEF Asked
  <2>3. Assign(ArgWords[2], ArgWords[3])
    BY <1>1, <1>4 DEF RunSetWords
  <2>4. ArgWords[3] \in Seq(Symbols)
    BY <1>2, <2>1, ElementOfSeq
  <2> QED BY <2>2, <2>3, <2>4, AssignAnswer, AssignAnswered DEF Shape
<1> QED BY <1>3, <1>4

LEMMA RunSetPairAnswer ==
  ASSUME Shape, Distinct, RunSetPair
  PROVE  Distinct' /\ Promise!Next
<1> DEFINE word == ArgWords[2]
           S == {k \in 1 .. Len(word) : word[k] = "="}
           eq == FirstOf(S)
           Least(k) == k \in 1 .. Len(word) /\ word[k] = "=" /\ \A j \in 1 .. k - 1 : word[j] # "="
<1>1. phase = "run" /\ Calling("s") /\ Len(ArgWords) = 2 /\ ~Calling("u") /\ ~(Len(ArgWords) > 2)
  BY HandlersDiffer DEF RunSetPair, Calling
<1>2. word \in Seq(Symbols) /\ Len(word) \in Nat
  <2>1. ArgWords \in Seq(Seq(Symbols)) /\ 2 \in 1 .. Len(ArgWords)
    BY <1>1, ArgWordsAre
  <2>2. word \in Seq(Symbols)
    BY <2>1, ElementOfSeq
  <2> QED BY <2>2, LenProperties
<1>3. S \in SUBSET Nat
  BY <1>2
<1>4. IF eq = NoSlot THEN UNCHANGED <<out, slots>> /\ Returns(USAGE)
      ELSE Assign(SubSeq(word, 1, eq - 1), SubSeq(word, eq + 1, Len(word)))
  BY DEF RunSetPair
<1>5. eq = NoSlot <=> S = {}
  <2> HIDE DEF word
  <2> QED BY <1>2, <1>3, FirstOfIs DEF NoSlot
<1>6. CASE eq = NoSlot
  <2>1. slots' = slots
    BY <1>4, <1>6
  <2>2. ~(\E k \in 1 .. Len(ArgWords[2]) : ArgWords[2][k] = "=")
    BY <1>5, <1>6
  <2>3. Asked = [does |-> "nothing"]
    BY <1>1, <2>2 DEF Asked
  <2> QED BY <2>1, <2>3, SameSlots, NothingAnswered
<1>7. CASE eq # NoSlot
  <2>1. eq \in S /\ \A k \in S : eq <= k
    <3> HIDE DEF S
    <3> QED BY <1>3, <1>5, <1>7, FirstOfIs
  <2>2. Least(eq)
    <3>1. eq \in 1 .. Len(word) /\ word[eq] = "="
      BY <2>1
    <3>2. ASSUME NEW j \in 1 .. eq - 1 PROVE word[j] # "="
      <4> HIDE DEF word, eq
      <4>1. j \in 1 .. Len(word) /\ ~(eq <= j)
        BY <1>2, <3>1
      <4> QED BY <2>1, <4>1
    <3> QED BY <3>1, <3>2
  <2>3. ASSUME NEW k, Least(k) PROVE k = eq
    <3> HIDE DEF word, eq
    <3>1. k \in S /\ eq <= k
      BY <2>1, <2>3
    <3>2. ~(eq \in 1 .. k - 1)
      BY <2>1, <2>3
    <3> QED BY <1>2, <2>1, <3>1, <3>2
  <2>4. eq = CHOOSE k \in 1 .. Len(word) : word[k] = "=" /\ \A j \in 1 .. k - 1 : word[j] # "="
    <3> HIDE DEF word, eq
    <3> QED BY <2>2, <2>3
  <2>5. \E k \in 1 .. Len(ArgWords[2]) : ArgWords[2][k] = "="
    BY <2>2
  <2>6. Asked = [does |-> "assign", name |-> SubSeq(word, 1, eq - 1),
                 value |-> SubSeq(word, eq + 1, Len(word))]
    <3> HIDE DEF eq
    <3> QED BY <1>1, <2>4, <2>5 DEF Asked
  <2>7. SubSeq(word, eq + 1, Len(word)) \in Seq(Symbols)
    <3> HIDE DEF word, eq
    <3>1. eq \in 1 .. Len(word)
      BY <2>2
    <3>2. eq + 1 \in Nat \ {0} /\ Len(word) <= Len(word) /\ eq + 1 <= Len(word) + 1
      BY <1>2, <3>1
    <3> QED BY <1>2, <3>2, SubSeqIs
  <2>8. Assign(SubSeq(word, 1, eq - 1), SubSeq(word, eq + 1, Len(word)))
    BY <1>4, <1>7
  <2> HIDE DEF word, eq
  <2> QED BY <2>6, <2>7, <2>8, AssignAnswer, AssignAnswered DEF Shape
<1> QED BY <1>6, <1>7

LEMMA RunUnsetAnswer ==
  ASSUME Shape, Distinct, RunUnset
  PROVE  Distinct' /\ Promise!Next
<1>1. phase = "run" /\ Calling("u") /\ ~Calling("s")
  BY HandlersDiffer DEF RunUnset, Calling
<1>2. ArgWords \in Seq(Seq(Symbols)) /\ Len(ArgWords) \in Nat \ {0}
  BY <1>1, ArgWordsAre
<1> DEFINE asked == {ArgWords[k] : k \in 2 .. Len(ArgWords)}
<1>3. Asked = [does |-> "forget", names |-> asked]
  BY <1>1 DEF Asked
<1>4. CASE Len(ArgWords) < 2
  <2>1. slots' = slots
    BY <1>4 DEF RunUnset
  <2>2. asked = {}
    <3> DEFINE len == Len(ArgWords)
    <3>1. len \in Nat /\ len < 2
      BY <1>2, <1>4
    <3> HIDE DEF len
    <3>2. 2 .. len = {}
      BY <3>1
    <3> QED BY <3>2 DEF len
  <2>3. Held' = Held /\ Distinct'
    BY <2>1, SameSlots
  <2>4. Held = [x \in UsedNames \ asked |-> Held[x]]
    BY <2>2 DEF Held
  <2> HIDE DEF asked
  <2> QED BY <1>3, <2>3, <2>4, ForgetAnswered
<1>5. CASE ~(Len(ArgWords) < 2)
  <2>1. slots' = UnsetAll(Tail(ArgWords))
    BY <1>5 DEF RunUnset
  <2>2. asked = {Tail(ArgWords)[k] : k \in 1 .. Len(Tail(ArgWords))}
    <3> DEFINE ws == ArgWords
    <3>1. ws \in Seq(Seq(Symbols)) /\ ws # <<>> /\ Len(ws) \in Nat \ {0}
      BY <1>2
    <3> HIDE DEF ws
    <3>2. Len(Tail(ws)) = Len(ws) - 1 /\ \A k \in 1 .. Len(ws) - 1 : Tail(ws)[k] = ws[k + 1]
      BY <3>1, HeadTailProperties
    <3>3. {ws[k] : k \in 2 .. Len(ws)} = {Tail(ws)[k] : k \in 1 .. Len(Tail(ws))}
      <4>1. ASSUME NEW k \in 2 .. Len(ws) PROVE k - 1 \in 1 .. Len(Tail(ws)) /\ Tail(ws)[k - 1] = ws[k]
        BY <3>1, <3>2
      <4>2. ASSUME NEW k \in 1 .. Len(Tail(ws)) PROVE k + 1 \in 2 .. Len(ws) /\ Tail(ws)[k] = ws[k + 1]
        BY <3>1, <3>2
      <4> QED BY <4>1, <4>2
    <3> QED BY <3>3 DEF ws
  <2>3. Distinct' /\ Held' = Without(NamesIn(Tail(ArgWords)))
    BY <2>1, UnsetAnswer DEF Shape
  <2>4. Held' = [x \in UsedNames \ asked |-> Held[x]]
    BY <2>2, <2>3 DEF Without, NamesIn
  <2> HIDE DEF asked
  <2> QED BY <1>3, <2>3, <2>4, ForgetAnswered
<1> QED BY <1>4, <1>5

LEMMA AnswerNext ==
  ASSUME Shape, Distinct, [Next]_vars
  PROVE  Distinct' /\ [Promise!Next]_<<Held, Asked>>
<1>1. CASE ~(RunSetWords \/ RunSetPair \/ RunUnset) /\ Next
  <2>1. slots' = slots /\ ~Calling("s") /\ ~Calling("u")
    <3>1. CASE Run
      <4>1. CASE RunRepeat
        BY <4>1, HandlersDiffer DEF RunRepeat, Calling
      <4>2. CASE RunUnknown
        BY <4>2 DEF RunUnknown, Calling
      <4>3. CASE RepeatDone
        BY <4>3 DEF RepeatDone, Calling
      <4>4. CASE LineDone
        BY <4>4 DEF LineDone, Calling, shellVars
      <4> QED BY <1>1, <3>1, <4>1, <4>2, <4>3, <4>4 DEF Run
    <3>2. CASE Feed \/ Parse \/ Refused \/ Expand
      <4>1. phase # "run"
        BY <3>2 DEF Feed, Parse, Refused, Expand, Arrive, FeedByte, FeedNothing, EndOfLine, Reconnect,
             Feeding, SkipSpace, StartWord, TakeEscaped, TakeSymbol, TakeQuote, EndWord, Unclosed,
             InWord, ParseDone, ExpandNext, ExpandWordDone, Expanding
      <4>2. slots' = slots
        BY <3>2 DEF Feed, Parse, Refused, Expand, Arrive, FeedByte, FeedNothing, EndOfLine, Reconnect,
             SkipSpace, StartWord, TakeEscaped, TakeSymbol, TakeQuote, EndWord, Unclosed, Keep,
             KeepsRest, ParseDone, ExpandNext, ExpandWordDone, shellVars
      <4> QED BY <4>1, <4>2 DEF Calling
    <3> QED BY <1>1, <3>1, <3>2 DEF Next
  <2> QED BY <2>1, NoHandler
<1>2. CASE UNCHANGED vars
  <2>1. slots' = slots /\ phase' = phase /\ out' = out /\ words' = words /\ loops' = loops
    BY <1>2 DEF vars, expandVars, shellVars
  <2>2. Asked' = Asked
    BY <2>1 DEF Asked, Calling, ArgWords, Top
  <2> QED BY <2>1, <2>2, SameSlots
<1> QED BY <1>1, <1>2, RunSetWordsAnswer, RunSetPairAnswer, RunUnsetAnswer

LEMMA DistinctInit == Init => Distinct /\ UsedNames = {}
BY DEF Init, Distinct, UsedNames

\* No two slots of g_slots ever hold the same name.
LEMMA DistinctAlways == Spec => []Distinct
<1>1. Shape /\ Distinct /\ [Next]_vars => Distinct'
  BY AnswerNext
<1> QED BY <1>1, DistinctInit, ShapeAlways, PTL DEF Spec

\* The slots of vars.c, taken, given up by unset and taken again, answer every set and
\* unset as a map from names to values of SlotCount entries does: an assignment is refused
\* only when the name or the value is out of range or no slot is free, changes the value of
\* its own name only, and what unset forgets is not found again.
THEOREM VariablesAreAMap == Spec => TableKeepsPromise
<1>1. Init => Promise!Init
  BY DistinctInit, HeldDomain DEF Promise!Init, Held
<1>2. Shape /\ Distinct /\ [Next]_vars => [Promise!Next]_<<Held, Asked>>
  BY AnswerNext
<1> QED BY <1>1, <1>2, ShapeAlways, DistinctAlways, PTL
    DEF Spec, TableKeepsPromise, Promise!Spec, Held

-----------------------------------------------------------------------------
(* What is read of a line, and what it means *)

\* Words and values without a terminator in them
Texts == {w \in Seq(Bytes) : \A k \in 1 .. Len(w) : w[k] # Nul}
Clean == {t \in Seq(Symbols) : \A k \in 1 .. Len(t) : t[k] # Nul}

\* What a reading may be after any part of a line
Readings ==
  {l \in [done : Seq(Texts), word : Texts,
          mode : {"between", "plain", "quoted", "escaped", "toomany"}] :
     /\ Len(l.done) <= MaxArgs
     /\ l.mode = "between" => l.word = <<>>
     /\ l.mode \in {"plain", "quoted", "escaped"} => Len(l.done) < MaxArgs
     /\ l.mode = "escaped" => Escape \in Bytes}

\* The buffer b holds the word w at p, terminated.
Spells(b, p, w) == b[p + Len(w)] = Nul /\ \A j \in 1 .. Len(w) : b[p + j - 1] = w[j]

\* The words ws are where the pointers ps say, all of them before position d.
Laid(b, d, ps, ws) ==
  \A i \in 1 .. Len(ws) : ps[i] + Len(ws[i]) < d /\ Spells(b, ps[i], ws[i])

\* What has been read of the line, as parser.h reads it
SoFar == Lexed(line)[src - 1]

\* The last word may lack the blank that ends it.
Between ==
  \/ /\ SoFar.mode = "between"
     /\ Len(argv) = Len(SoFar.done) /\ Laid(buf, dst, argv, SoFar.done)
  \/ /\ SoFar.mode = "plain" /\ src = Len(buf)
     /\ Len(argv) = Len(SoFar.done) + 1 /\ Laid(buf, dst, argv, Append(SoFar.done, SoFar.word))

\* A word has been begun, and w is what has been kept of it: a backslash is kept before
\* it is known to be one, and the first symbol is still to be read when argv points there.
Growing(w) ==
  /\ Len(argv) = Len(SoFar.done) + 1 /\ Laid(buf, dst, argv, SoFar.done)
  /\ argv[Len(argv)] + Len(w) = dst
  /\ \A j \in 1 .. Len(w) : buf[argv[Len(argv)] + j - 1] = w[j]
  /\ \/ /\ SoFar.mode = "between" /\ w = <<>> /\ ~quoted
        /\ buf[src] \notin {Space, Nul} /\ Len(SoFar.done) < MaxArgs
     \/ SoFar.mode = "plain" /\ w = SoFar.word /\ ~quoted
     \/ SoFar.mode = "quoted" /\ w = SoFar.word /\ quoted
     \/ SoFar.mode = "escaped" /\ w = Append(SoFar.word, Escape) /\ quoted
        /\ buf[src] \notin {Quote, Escape}

Parsed == phase \in {"expand", "overflow", "run"}
ReadInv ==
  /\ phase = "feed" => argv = <<>>
  /\ phase = "between" => Between
  /\ phase = "word" => \E w \in Texts : Growing(w)
  /\ phase \in {"unclosed", "toomany"} => Meant.verdict = phase
  /\ Parsed => /\ Meant.verdict = "expand" /\ Meant.words \in Seq(Texts) \ {<<>>}
               /\ Len(argv) = Len(Meant.words) /\ Laid(buf, Len(buf) + 1, argv, Meant.words)

-----------------------------------------------------------------------------
(* Recursions: what a recursive function of the reference readings is *)

\* What holds at the bottom and is handed on holds at the top.
LEMMA Climb ==
  ASSUME NEW n \in Nat, NEW T, 0 \in T, \A k \in 0 .. n - 1 : k \in T => k + 1 \in T
  PROVE  n \in T
<1> DEFINE S == {k \in 0 .. n : k \notin T}
<1> SUFFICES ASSUME n \notin T PROVE FALSE
  OBVIOUS
<1>1. PICK m \in S : \A k \in S : m <= k
  <2>1. S \in SUBSET Nat /\ S # {}
    OBVIOUS
  <2> HIDE DEF S
  <2> QED BY <2>1, LeastIn
<1>2. m \in 0 .. n /\ m \notin T /\ m # 0
  OBVIOUS
<1>3. m - 1 \in 0 .. n - 1 /\ ~(m <= m - 1)
  BY <1>2
<1>4. m - 1 \in T
  BY <1>1, <1>3
<1>5. (m - 1) + 1 \in T /\ (m - 1) + 1 = m
  BY <1>2, <1>3, <1>4
<1> QED BY <1>2, <1>5

LEMMA LexedIs ==
  ASSUME NEW s, Len(s) \in Nat
  PROVE  /\ Lexed(s)[0] = Unread
         /\ \A k \in 1 .. Len(s) : Lexed(s)[k] = Lex(Lexed(s)[k - 1], s[k])
<1> DEFINE n == Len(s)
           Rec(f, m) == f = [k \in 0 .. m |-> IF k = 0 THEN Unread ELSE Lex(f[k - 1], s[k])]
           T == {m \in 0 .. n : \E f : Rec(f, m)}
<1>1. 0 \in T
  <2>1. Rec([k \in 0 .. 0 |-> Unread], 0)
    OBVIOUS
  <2>2. \E f : Rec(f, 0)
    <3> HIDE DEF Rec
    <3> QED BY <2>1
  <2> QED BY <2>2
<1>2. ASSUME NEW m \in 0 .. n - 1, m \in T PROVE m + 1 \in T
  <2>1. PICK f : Rec(f, m)
    BY <1>2
  <2> DEFINE g == [k \in 0 .. m + 1 |-> IF k = m + 1 THEN Lex(f[m], s[m + 1]) ELSE f[k]]
  <2>2. Rec(g, m + 1)
    BY <2>1
  <2>3. m + 1 \in 0 .. n
    OBVIOUS
  <2> HIDE DEF g, Rec
  <2> QED BY <2>2, <2>3
<1>3. n \in T
  <2> HIDE DEF T
  <2> QED BY <1>1, <1>2, Climb
<1>4. \E f : Rec(f, n)
  BY <1>3
<1>5. Lexed(s) = CHOOSE f : Rec(f, n)
  BY DEF Lexed
<1>6. Rec(Lexed(s), n)
  <2> HIDE DEF Rec
  <2> QED BY <1>4, <1>5
<1> HIDE DEF n
<1>7. Lexed(s) = [k \in 0 .. n |-> IF k = 0 THEN Unread ELSE Lex(Lexed(s)[k - 1], s[k])]
  BY <1>6
<1>8. n \in Nat /\ n = Len(s)
  BY DEF n
<1> QED BY <1>7, <1>8

LEMMA SizesAre ==
  ASSUME NEW ws, Len(ws) \in Nat
  PROVE  /\ Sizes(ws)[0] = 0
         /\ \A k \in 1 .. Len(ws) : Sizes(ws)[k] = Sizes(ws)[k - 1] + Len(Expanded(ws[k])) + 1
<1> DEFINE n == Len(ws)
           Rec(f, m) == f = [i \in 0 .. m |-> IF i = 0 THEN 0 ELSE f[i - 1] + Len(Expanded(ws[i])) + 1]
           T == {m \in 0 .. n : \E f : Rec(f, m)}
<1>1. 0 \in T
  <2>1. Rec([k \in 0 .. 0 |-> 0], 0)
    OBVIOUS
  <2>2. \E f : Rec(f, 0)
    <3> HIDE DEF Rec
    <3> QED BY <2>1
  <2> QED BY <2>2
<1>2. ASSUME NEW m \in 0 .. n - 1, m \in T PROVE m + 1 \in T
  <2>1. PICK f : Rec(f, m)
    BY <1>2
  <2> DEFINE g == [k \in 0 .. m + 1 |-> IF k = m + 1 THEN f[m] + Len(Expanded(ws[m + 1])) + 1 ELSE f[k]]
  <2>2. Rec(g, m + 1)
    BY <2>1
  <2>3. m + 1 \in 0 .. n
    OBVIOUS
  <2> HIDE DEF g, Rec
  <2> QED BY <2>2, <2>3
<1>3. n \in T
  <2> HIDE DEF T
  <2> QED BY <1>1, <1>2, Climb
<1>4. \E f : Rec(f, n)
  BY <1>3
<1>5. Sizes(ws) = CHOOSE f : Rec(f, n)
  BY DEF Sizes
<1>6. Rec(Sizes(ws), n)
  <2> HIDE DEF Rec
  <2> QED BY <1>4, <1>5
<1> HIDE DEF n
<1>7. Sizes(ws) = [i \in 0 .. n |-> IF i = 0 THEN 0 ELSE Sizes(ws)[i - 1] + Len(Expanded(ws[i])) + 1]
  BY <1>6
<1>8. n \in Nat /\ n = Len(ws)
  BY DEF n
<1> QED BY <1>7, <1>8

\* A word is read from the left; each step goes on where the last one said.
Stops(w) == \A i \in 1 .. Len(w) : w[i] = Dollar => Reference(w, i).next \in i + 1 .. Len(w) + 1

LEMMA AheadIs ==
  ASSUME NEW w, Len(w) \in Nat, Stops(w)
  PROVE  /\ Ahead(w)[Len(w) + 1] = <<>>
         /\ \A i \in 1 .. Len(w) :
              Ahead(w)[i] = IF w[i] = Dollar THEN Reference(w, i).text \o Ahead(w)[Reference(w, i).next]
                            ELSE <<w[i]>> \o Ahead(w)[i + 1]
<1> DEFINE n == Len(w)
           next(i) == IF w[i] = Dollar THEN Reference(w, i).next ELSE i + 1
           text(i) == IF w[i] = Dollar THEN Reference(w, i).text ELSE <<w[i]>>
           Rec(f, m) == f = [i \in n + 1 - m .. n + 1 |->
                               IF i > n THEN <<>>
                               ELSE IF w[i] = Dollar THEN Reference(w, i).text \o f[Reference(w, i).next]
                               ELSE <<w[i]>> \o f[i + 1]]
           T == {m \in 0 .. n : \E f : Rec(f, m)}
<1>0. n \in Nat /\ \A i \in 1 .. n : next(i) \in i + 1 .. n + 1
  BY DEF Stops
<1>1. 0 \in T
  <2>0. n + 1 - 0 = n + 1 /\ \A i \in n + 1 .. n + 1 : i > n
    BY <1>0
  <2>1. Rec([i \in n + 1 - 0 .. n + 1 |-> <<>>], 0)
    <3> HIDE DEF n
    <3> QED BY <2>0
  <2>2. \E f : Rec(f, 0)
    <3> HIDE DEF Rec
    <3> QED BY <2>1
  <2>3. 0 \in 0 .. n
    BY <1>0
  <2> HIDE DEF Rec, n
  <2> QED BY <2>2, <2>3
<1>2. ASSUME NEW m \in 0 .. n - 1, m \in T PROVE m + 1 \in T
  <2>1. PICK f : Rec(f, m)
    BY <1>2
  <2> DEFINE p == n - m
             g == [i \in p .. n + 1 |-> IF i = p THEN text(p) \o f[next(p)] ELSE f[i]]
  <2>2. p \in 1 .. n /\ next(p) \in p + 1 .. n + 1 /\ n + 1 - (m + 1) = p /\ n + 1 - m = p + 1
    <3>1. p \in 1 .. n /\ n + 1 - (m + 1) = p /\ n + 1 - m = p + 1
      BY <1>0
    <3> HIDE DEF p, next
    <3> QED BY <1>0, <3>1
  <2>3. \A i \in p .. n + 1 : g[i] = IF i = p THEN text(p) \o f[next(p)] ELSE f[i]
    <3> HIDE DEF p, text, next
    <3> QED OBVIOUS
  <2>4. \A i \in p + 1 .. n + 1 : f[i] = IF i > n THEN <<>> ELSE text(i) \o f[next(i)]
    <3> HIDE DEF p
    <3>1. f = [i \in p + 1 .. n + 1 |->
                               IF i > n THEN <<>>
                               ELSE IF w[i] = Dollar THEN Reference(w, i).text \o f[Reference(w, i).next]
                               ELSE <<w[i]>> \o f[i + 1]]
      BY <2>1, <2>2
    <3> QED BY <3>1
  <2>5. \A i \in p .. n + 1 : g[i] = IF i > n THEN <<>> ELSE text(i) \o g[next(i)]
    <3> TAKE i \in p .. n + 1
    <3>1. CASE i > n
      <4>1. i \in p + 1 .. n + 1 /\ i # p
        BY <1>0, <2>2, <3>1
      <4> HIDE DEF g, text, next, p
      <4> QED BY <2>3, <2>4, <3>1, <4>1
    <3>2. CASE ~(i > n)
      <4> HIDE DEF g, text, next, p
      <4>1. i \in 1 .. n /\ next(i) \in i + 1 .. n + 1 /\ p \in Nat
        BY <1>0, <2>2, <3>2
      <4>2. next(i) \in p .. n + 1 /\ next(i) # p
        BY <1>0, <4>1
      <4>3. g[next(i)] = f[next(i)]
        BY <2>3, <4>2
      <4>4. CASE i = p
        BY <2>2, <2>3, <3>2, <4>3, <4>4
      <4>5. CASE i # p
        <5>1. i \in p + 1 .. n + 1
          BY <1>0, <4>1, <4>5
        <5> QED BY <2>3, <2>4, <3>2, <4>3, <4>5, <5>1
      <4> QED BY <4>4, <4>5
    <3> QED BY <3>1, <3>2
  <2>6. Rec(g, m + 1)
    <3>1. g = [i \in p .. n + 1 |-> IF i > n THEN <<>> ELSE text(i) \o g[next(i)]]
      <4>1. g = [i \in p .. n + 1 |-> g[i]]
        <5> HIDE DEF p, text, next
        <5> QED OBVIOUS
      <4> HIDE DEF g, text, next, p
      <4> QED BY <2>5, <4>1
    <3> HIDE DEF g, p
    <3>2. g = [i \in p .. n + 1 |->
                               IF i > n THEN <<>>
                               ELSE IF w[i] = Dollar THEN Reference(w, i).text \o g[Reference(w, i).next]
                               ELSE <<w[i]>> \o g[i + 1]]
      BY <3>1
    <3> QED BY <2>2, <3>2
  <2>7. m + 1 \in 0 .. n
    OBVIOUS
  <2> HIDE DEF g, Rec
  <2> QED BY <2>6, <2>7
<1>3. n \in T
  <2> HIDE DEF T
  <2> QED BY <1>0, <1>1, <1>2, Climb
<1>4. \E f : Rec(f, n)
  BY <1>3
<1>5. Ahead(w) = CHOOSE f : f = [i \in 1 .. n + 1 |->
                               IF i > n THEN <<>>
                               ELSE IF w[i] = Dollar THEN Reference(w, i).text \o f[Reference(w, i).next]
                               ELSE <<w[i]>> \o f[i + 1]]
  BY DEF Ahead
<1>6. \E f : f = [i \in 1 .. n + 1 |->
                               IF i > n THEN <<>>
                               ELSE IF w[i] = Dollar THEN Reference(w, i).text \o f[Reference(w, i).next]
                               ELSE <<w[i]>> \o f[i + 1]]
  <2>1. n + 1 - n = 1
    BY <1>0
  <2> QED BY <1>4, <2>1
<1> DEFINE R(f) == f = [i \in 1 .. n + 1 |->
                               IF i > n THEN <<>>
                               ELSE IF w[i] = Dollar THEN Reference(w, i).text \o f[Reference(w, i).next]
                               ELSE <<w[i]>> \o f[i + 1]]
<1>7. R(Ahead(w))
  <2>1. Ahead(w) = CHOOSE f : R(f)
    BY <1>5
  <2>2. \E f : R(f)
    BY <1>6
  <2> HIDE DEF R
  <2> QED BY <2>1, <2>2
<1> HIDE DEF n
<1>8. Ahead(w) = [i \in 1 .. n + 1 |->
                               IF i > n THEN <<>>
                               ELSE IF w[i] = Dollar THEN Reference(w, i).text \o Ahead(w)[Reference(w, i).next]
                               ELSE <<w[i]>> \o Ahead(w)[i + 1]]
  BY <1>7
<1>9. n \in Nat /\ n = Len(w)
  BY DEF n
<1>10. n + 1 \in 1 .. n + 1 /\ n + 1 > n /\ \A i \in 1 .. n : i \in 1 .. n + 1 /\ ~(i > n)
  BY <1>9
<1>11. Ahead(w)[n + 1] = <<>>
  BY <1>8, <1>10
<1>12. \A i \in 1 .. n :
         Ahead(w)[i] = IF w[i] = Dollar THEN Reference(w, i).text \o Ahead(w)[Reference(w, i).next]
                       ELSE <<w[i]>> \o Ahead(w)[i + 1]
  BY <1>8, <1>10
<1> QED BY <1>9, <1>11, <1>12

-----------------------------------------------------------------------------
(* Reading a line as parser.h says *)

LEMMA TextIs ==
  /\ <<>> \in Texts
  /\ \A w \in Texts : \A c \in Bytes \ {Nul} : Append(w, c) \in Texts
  /\ \A c \in Bytes \ {Nul} : <<c>> \in Texts
  /\ \A w \in Texts : w \in Seq(Bytes) /\ Len(w) \in Nat
<1>1. <<>> \in Texts
  BY EmptyIs DEF Texts
<1>2. ASSUME NEW w \in Texts, NEW c \in Bytes \ {Nul} PROVE Append(w, c) \in Texts
  <2>1. w \in Seq(Bytes) /\ (\A k \in 1 .. Len(w) : w[k] # Nul) /\ c \in Bytes /\ c # Nul
    BY DEF Texts
  <2>2. Append(w, c) \in Seq(Bytes) /\ \A k \in 1 .. Len(Append(w, c)) : Append(w, c)[k] # Nul
    BY <2>1, AppendNoNul DEF NoNul
  <2> QED BY <2>2 DEF Texts
<1>3. ASSUME NEW c \in Bytes \ {Nul} PROVE <<c>> \in Texts
  BY OneIs DEF Texts
<1>4. \A w \in Texts : w \in Seq(Bytes) /\ Len(w) \in Nat
  BY LenProperties DEF Texts
<1> QED BY <1>1, <1>2, <1>3, <1>4

LEMMA ReadingFields ==
  ASSUME NEW l \in Readings
  PROVE  /\ l = [done |-> l.done, word |-> l.word, mode |-> l.mode]
         /\ l.done \in Seq(Texts) /\ Len(l.done) \in Nat /\ Len(l.done) <= MaxArgs /\ l.word \in Texts
         /\ l.mode \in {"between", "plain", "quoted", "escaped", "toomany"}
         /\ l.mode = "between" => l.word = <<>>
         /\ l.mode \in {"plain", "quoted", "escaped"} => Len(l.done) < MaxArgs
         /\ l.mode = "escaped" => Escape \in Bytes
BY LenProperties DEF Readings

Reading(d, w, m) == [done |-> d, word |-> w, mode |-> m]

LEMMA ReadingMade ==
  ASSUME NEW d \in Seq(Texts), Len(d) <= MaxArgs, NEW w \in Texts,
         NEW m \in {"between", "plain", "quoted", "escaped", "toomany"},
         m = "between" => w = <<>>, m \in {"plain", "quoted", "escaped"} => Len(d) < MaxArgs,
         m = "escaped" => Escape \in Bytes
  PROVE  Reading(d, w, m) \in Readings
BY DEF Reading, Readings

\* Lex, mode by mode
LEMMA LexCases ==
  ASSUME NEW l \in Readings, NEW c
  PROVE  /\ l.mode = "toomany" => Lex(l, c) = l
         /\ l.mode = "between" =>
              /\ c = Space => Lex(l, c) = l
              /\ c # Space /\ Len(l.done) = MaxArgs => Lex(l, c) = Reading(l.done, l.word, "toomany")
              /\ c # Space /\ Len(l.done) < MaxArgs =>
                   Lex(l, c) = IF c = Quote THEN Reading(l.done, l.word, "quoted")
                               ELSE Reading(l.done, <<c>>, "plain")
         /\ l.mode = "plain" =>
              /\ c = Space => Lex(l, c) = Reading(Append(l.done, l.word), <<>>, "between")
              /\ c = Quote => Lex(l, c) = Reading(l.done, l.word, "quoted")
              /\ c \notin {Space, Quote} => Lex(l, c) = Reading(l.done, Append(l.word, c), "plain")
         /\ l.mode = "quoted" =>
              /\ c = Quote => Lex(l, c) = Reading(l.done, l.word, "plain")
              /\ c = Escape => Lex(l, c) = Reading(l.done, l.word, "escaped")
              /\ c \notin {Quote, Escape} => Lex(l, c) = Reading(l.done, Append(l.word, c), "quoted")
         /\ l.mode = "escaped" =>
              /\ c \in {Quote, Escape} => Lex(l, c) = Reading(l.done, Append(l.word, c), "quoted")
              /\ c \notin {Quote, Escape} =>
                   Lex(l, c) = Reading(l.done, Append(Append(l.word, Escape), c), "quoted")
<1>0. Space # Quote /\ Space # Escape /\ Quote # Escape
  BY DEF Space, Quote, Escape
<1>1. /\ Len(l.done) \in Nat /\ Len(l.done) <= MaxArgs /\ MaxArgs \in Nat /\ l.word \in Texts
      /\ l = [done |-> l.done, word |-> l.word, mode |-> l.mode]
  BY ReadingFields, CommandLineAssumption
<1>2. CASE l.mode = "toomany"
  BY <1>2 DEF Lex
<1>3. CASE l.mode = "between"
  <2>1. c = Space => Lex(l, c) = l
    BY <1>3 DEF Lex
  <2>2. c # Space /\ Len(l.done) = MaxArgs => Lex(l, c) = Reading(l.done, l.word, "toomany")
    BY <1>1, <1>3 DEF Lex, Reading
  <2>3. c # Space /\ Len(l.done) < MaxArgs /\ c = Quote => Lex(l, c) = Reading(l.done, l.word, "quoted")
    BY <1>1, <1>3 DEF Lex, Reading
  <2>4. ASSUME c # Space, Len(l.done) < MaxArgs, c # Quote PROVE Lex(l, c) = Reading(l.done, <<c>>, "plain")
    <3>1. Lex(l, c) = [l EXCEPT !.mode = "plain", !.word = <<c>>]
      BY <1>1, <1>3, <2>4 DEF Lex
    <3> DEFINE w == <<c>>
    <3>2. Lex(l, c) = [l EXCEPT !.mode = "plain", !.word = w]
      BY <3>1
    <3> HIDE DEF w
    <3>3. Lex(l, c) = Reading(l.done, w, "plain")
      BY <1>1, <3>2 DEF Reading
    <3> QED BY <3>3 DEF w
  <2> QED BY <1>3, <2>1, <2>2, <2>3, <2>4
<1>4. CASE l.mode = "plain"
  BY <1>0, <1>1, <1>4 DEF Lex, Reading
<1>5. CASE l.mode = "quoted"
  BY <1>0, <1>1, <1>5 DEF Lex, Reading
<1>6. CASE l.mode = "escaped"
  <2>1. l.word \o <<Escape, c>> = Append(Append(l.word, Escape), c)
    <3>1. \E S : l.word \in Seq(S) /\ Escape \in S /\ c \in S
      <4> DEFINE S == Bytes \cup {Escape, c}
      <4>1. Seq(Bytes) \subseteq Seq(S)
        BY SeqMonotonic
      <4>2. l.word \in Seq(S)
        BY <1>1, <4>1, TextIs
      <4>3. Escape \in S /\ c \in S
        OBVIOUS
      <4> HIDE DEF S
      <4> QED BY <4>2, <4>3
    <3>2. PICK S : l.word \in Seq(S) /\ Escape \in S /\ c \in S
      BY <3>1
    <3> QED BY <3>2
  <2> QED BY <1>0, <1>1, <1>6, <2>1 DEF Lex, Reading
<1> QED BY <1>2, <1>3, <1>4, <1>5, <1>6

LEMMA LexKeeps ==
  ASSUME NEW l \in Readings, NEW c \in Bytes \ {Nul}
  PROVE  Lex(l, c) \in Readings
<1>0. Space # Quote /\ Space # Escape /\ Quote # Escape /\ MaxArgs \in Nat
  BY CommandLineAssumption DEF Space, Quote, Escape
<1>1. /\ l.done \in Seq(Texts) /\ Len(l.done) \in Nat /\ Len(l.done) <= MaxArgs /\ l.word \in Texts
      /\ l.mode \in {"between", "plain", "quoted", "escaped", "toomany"}
      /\ l.mode = "between" => l.word = <<>>
      /\ l.mode \in {"plain", "quoted", "escaped"} => Len(l.done) < MaxArgs
      /\ l.mode = "escaped" => Escape \in Bytes \ {Nul}
  BY ReadingFields DEF Escape, Nul
<1>2. Append(l.word, c) \in Texts /\ <<>> \in Texts /\ <<c>> \in Texts
      /\ (l.mode = "escaped" => Append(Append(l.word, Escape), c) \in Texts)
  BY <1>1, TextIs
<1>3. CASE l.mode = "toomany"
  BY <1>3, LexCases
<1>4. CASE l.mode = "between"
  <2>1. CASE c = Space
    BY <1>4, <2>1, LexCases
  <2>2. CASE c # Space /\ Len(l.done) = MaxArgs
    BY <1>1, <1>4, <2>2, LexCases, ReadingMade
  <2>3. CASE c # Space /\ Len(l.done) < MaxArgs /\ c = Quote
    BY <1>1, <1>4, <2>3, LexCases, ReadingMade
  <2>4. CASE c # Space /\ Len(l.done) < MaxArgs /\ c # Quote
    BY <1>1, <1>2, <1>4, <2>4, LexCases, ReadingMade
  <2>5. Len(l.done) = MaxArgs \/ Len(l.done) < MaxArgs
    BY <1>0, <1>1
  <2> QED BY <2>1, <2>2, <2>3, <2>4, <2>5
<1>5. CASE l.mode = "plain"
  <2>1. CASE c = Space
    <3>1. Append(l.done, l.word) \in Seq(Texts) /\ Len(Append(l.done, l.word)) = Len(l.done) + 1
      BY <1>1, AppendAt
    <3>2. Len(Append(l.done, l.word)) <= MaxArgs
      BY <1>0, <1>1, <1>5, <3>1
    <3>3. Lex(l, c) = Reading(Append(l.done, l.word), <<>>, "between")
      BY <1>5, <2>1, LexCases
    <3>4. Reading(Append(l.done, l.word), <<>>, "between") \in Readings
      BY <1>2, <3>1, <3>2, ReadingMade
    <3> QED BY <3>3, <3>4
  <2>2. CASE c = Quote
    BY <1>1, <1>5, <2>2, LexCases, ReadingMade
  <2>3. CASE c \notin {Space, Quote}
    BY <1>1, <1>2, <1>5, <2>3, LexCases, ReadingMade
  <2> QED BY <2>1, <2>2, <2>3
<1>6. CASE l.mode = "quoted"
  <2>1. CASE c = Quote
    BY <1>1, <1>6, <2>1, LexCases, ReadingMade
  <2>2. CASE c = Escape
    BY <1>1, <1>6, <2>2, LexCases, ReadingMade
  <2>3. CASE c \notin {Escape, Quote}
    BY <1>1, <1>2, <1>6, <2>3, LexCases, ReadingMade
  <2> QED BY <2>1, <2>2, <2>3
<1>7. CASE l.mode = "escaped"
  <2>1. CASE c \in {Quote, Escape}
    BY <1>1, <1>2, <1>7, <2>1, LexCases, ReadingMade
  <2>2. CASE c \notin {Quote, Escape}
    BY <1>1, <1>2, <1>7, <2>2, LexCases, ReadingMade
  <2> QED BY <2>1, <2>2
<1> QED BY <1>1, <1>3, <1>4, <1>5, <1>6, <1>7

\* Every reading of a part of the line is one.
LEMMA ReadingsAre ==
  ASSUME NEW s, NoNul(s)
  PROVE  \A k \in 0 .. Len(s) : Lexed(s)[k] \in Readings
<1>1. s \in Seq(Bytes) /\ Len(s) \in Nat /\ \A k \in 1 .. Len(s) : s[k] \in Bytes \ {Nul}
  BY LenProperties, ElementOfSeq DEF NoNul
<1>2. /\ Lexed(s)[0] = Unread
      /\ \A k \in 1 .. Len(s) : Lexed(s)[k] = Lex(Lexed(s)[k - 1], s[k])
  BY <1>1, LexedIs
<1> DEFINE T == {k \in 0 .. Len(s) : Lexed(s)[k] \in Readings}
<1>3. 0 \in T
  <2>1. <<>> \in Seq(Texts) /\ Len(<<>>) = 0 /\ <<>> \in Texts /\ MaxArgs \in Nat
    BY EmptyIs, TextIs, CommandLineAssumption
  <2>2. Reading(<<>>, <<>>, "between") \in Readings
    <3> DEFINE d == <<>>
    <3>1. d \in Seq(Texts) /\ Len(d) <= MaxArgs /\ d \in Texts
      BY <2>1
    <3> HIDE DEF d
    <3>2. Reading(d, d, "between") \in Readings
      <4>1. [done |-> d, word |-> d, mode |-> "between"] \in Readings
        BY <2>1, <3>1 DEF Readings, d
      <4> QED BY <4>1 DEF Reading
    <3> QED BY <3>2 DEF d
  <2>3. Unread \in Readings
    BY <2>2 DEF Unread, Reading
  <2> QED BY <1>1, <1>2, <2>3
<1>4. ASSUME NEW k \in Nat, k < Len(s), k \in T PROVE k + 1 \in T
  <2>1. k + 1 \in 1 .. Len(s) /\ (k + 1) - 1 = k /\ k + 1 \in 0 .. Len(s)
    BY <1>1, <1>4
  <2>2. Lexed(s)[k + 1] = Lex(Lexed(s)[k], s[k + 1])
    BY <1>2, <2>1
  <2>3. Lexed(s)[k] \in Readings
    BY <1>4
  <2>4. Lexed(s)[k + 1] \in Readings
    BY <1>1, <2>1, <2>2, <2>3, LexKeeps
  <2> QED BY <2>1, <2>4
<1> SUFFICES ASSUME NEW k \in 0 .. Len(s) PROVE k \in T
  OBVIOUS
<1>5. \A j \in 0 .. k - 1 : j \in Nat /\ j < Len(s)
  BY <1>1
<1>6. k \in Nat
  BY <1>1
<1> HIDE DEF T
<1> QED BY <1>3, <1>4, <1>5, <1>6, Climb

\* Once there are too many words there are too many words.
LEMMA ToomanyStays ==
  ASSUME NEW s, NoNul(s), NEW m \in 0 .. Len(s), Lexed(s)[m].mode = "toomany"
  PROVE  Lexed(s)[Len(s)].mode = "toomany"
<1>1. s \in Seq(Bytes) /\ Len(s) \in Nat
  BY LenProperties DEF NoNul
<1>2. \A k \in 1 .. Len(s) : Lexed(s)[k] = Lex(Lexed(s)[k - 1], s[k])
  BY <1>1, LexedIs
<1> DEFINE n == Len(s) - m
           T == {j \in 0 .. n : Lexed(s)[m + j].mode = "toomany"}
<1>3. 0 \in T /\ n \in Nat /\ m + n = Len(s)
  <2>1. m + 0 = m /\ n \in Nat /\ m + n = Len(s)
    BY <1>1
  <2> HIDE DEF n
  <2> QED BY <2>1
<1>4. ASSUME NEW j \in 0 .. n - 1, j \in T PROVE j + 1 \in T
  <2> HIDE DEF n
  <2>1. m + (j + 1) \in 1 .. Len(s) /\ (m + (j + 1)) - 1 = m + j /\ j + 1 \in 0 .. n /\ m + j \in 0 .. Len(s)
    BY <1>1, <1>3
  <2>2. Lexed(s)[m + (j + 1)] = Lex(Lexed(s)[m + j], s[m + (j + 1)])
    BY <1>2, <2>1
  <2>3. Lexed(s)[m + j].mode = "toomany"
    BY <1>4
  <2>4. Lexed(s)[m + (j + 1)] = Lexed(s)[m + j]
    BY <2>1, <2>2, <2>3, ReadingsAre, LexCases
  <2> QED BY <2>1, <2>3, <2>4
<1>5. n \in T
  <2> HIDE DEF T, n
  <2> QED BY <1>3, <1>4, Climb
<1> HIDE DEF n
<1> QED BY <1>3, <1>5

-----------------------------------------------------------------------------
(* cli_parse finds those words *)

\* Where the cursors are, and what the next symbol adds to the reading
LEMMA Cursors ==
  ASSUME LineInv, Parsing
  PROVE  /\ Len(line) \in Nat /\ Len(buf) = Len(line) + 1 /\ buf \in Seq(Bytes)
         /\ src \in 1 .. Len(line) + 1 /\ dst \in Nat \ {0}
         /\ dst <= src \/ (phase = "between" /\ src = Len(buf))
         /\ SoFar \in Readings
         /\ Current = Nul <=> src = Len(line) + 1
         /\ src <= Len(line) =>
              /\ Current \in Bytes \ {Nul} /\ Lexed(line)[src] = Lex(SoFar, Current)
              /\ Lexed(line)[src] \in Readings
              /\ buf[src + 1] = Nul <=> src = Len(line)
         /\ src < Len(line) =>
              buf[src + 1] \in Bytes \ {Nul} /\ Lexed(line)[src + 1] = Lex(Lexed(line)[src], buf[src + 1])
<1>1. ParseInv /\ NoNul(line)
  BY DEF LineInv
<1>2. /\ Len(line) \in Nat /\ Len(buf) = Len(line) + 1 /\ buf \in Seq(Bytes)
      /\ src \in 1 .. Len(line) + 1 /\ dst \in Nat \ {0}
      /\ dst <= src \/ (phase = "between" /\ src = Len(buf))
      /\ \A k \in 1 .. Len(buf) : k >= src => buf[k] = Append(line, Nul)[k]
  BY <1>1, LenProperties DEF ParseInv, NoNul
<1>3. \A k \in 0 .. Len(line) : Lexed(line)[k] \in Readings
  BY <1>1, ReadingsAre
<1>4. \A k \in 1 .. Len(line) : Lexed(line)[k] = Lex(Lexed(line)[k - 1], line[k])
  BY <1>2, LexedIs
<1>5. ASSUME NEW k \in 1 .. Len(line), k >= src
      PROVE  buf[k] = line[k] /\ buf[k] \in Bytes \ {Nul}
  <2>1. k \in 1 .. Len(buf) /\ k # Len(buf)
    BY <1>2
  <2>2. buf[k] = Append(line, Nul)[k] /\ buf[k] # Nul
    BY <1>2, <1>5, <2>1, NulIsLast
  <2>3. Append(line, Nul)[k] = line[k]
    BY <1>1, <1>2, NulIsByte, AppendAt DEF NoNul
  <2>4. buf[k] \in Bytes
    BY <1>2, <2>1, ElementOfSeq
  <2> QED BY <2>2, <2>3, <2>4
<1>6. Current = Nul <=> src = Len(line) + 1
  BY <1>2, NulIsLast DEF Current
<1>7. SoFar \in Readings
  <2>1. src - 1 \in 0 .. Len(line)
    BY <1>2
  <2> QED BY <1>3, <2>1 DEF SoFar
<1>8. ASSUME src <= Len(line)
      PROVE  /\ Current \in Bytes \ {Nul} /\ Lexed(line)[src] = Lex(SoFar, Current)
             /\ Lexed(line)[src] \in Readings
             /\ buf[src + 1] = Nul <=> src = Len(line)
  <2>1. src \in 1 .. Len(line) /\ src >= src /\ src \in 0 .. Len(line)
        /\ src + 1 \in 1 .. Len(buf) /\ src + 1 >= src /\ (src = Len(line) <=> src + 1 = Len(buf))
    BY <1>2, <1>8
  <2>2. buf[src] = line[src] /\ buf[src] \in Bytes \ {Nul}
    BY <1>5, <2>1
  <2>3. Lexed(line)[src] = Lex(Lexed(line)[src - 1], line[src])
    BY <1>4, <2>1
  <2>4. buf[src + 1] = Nul <=> src = Len(line)
    BY <2>1, NulIsLast
  <2> QED BY <1>3, <2>1, <2>2, <2>3, <2>4 DEF SoFar, Current
<1>9. ASSUME src < Len(line)
      PROVE  buf[src + 1] \in Bytes \ {Nul} /\ Lexed(line)[src + 1] = Lex(Lexed(line)[src], buf[src + 1])
  <2>1. src + 1 \in 1 .. Len(line) /\ src + 1 >= src /\ (src + 1) - 1 = src
    BY <1>2, <1>9
  <2>2. buf[src + 1] = line[src + 1] /\ buf[src + 1] \in Bytes \ {Nul}
    BY <1>5, <2>1
  <2>3. Lexed(line)[src + 1] = Lex(Lexed(line)[src], line[src + 1])
    BY <1>4, <2>1
  <2> QED BY <2>2, <2>3
<1> QED BY <1>2, <1>6, <1>7, <1>8, <1>9

\* Words that are laid down stay where they are while nothing below the write cursor
\* changes.
LEMMA LaidKept ==
  ASSUME NEW ws \in Seq(Texts), NEW ps, NEW qs, NEW b, NEW c, NEW d \in Nat, NEW e \in Nat, d <= e,
         \A i \in 1 .. Len(ws) : ps[i] \in Nat \ {0} /\ qs[i] = ps[i],
         \A k \in 1 .. d - 1 : c[k] = b[k],
         Laid(b, d, ps, ws)
  PROVE  Laid(c, e, qs, ws)
<1> SUFFICES ASSUME NEW i \in 1 .. Len(ws)
             PROVE  qs[i] + Len(ws[i]) < e /\ Spells(c, qs[i], ws[i])
  BY DEF Laid
<1> DEFINE w == ws[i]
           p == ps[i]
<1>1. w \in Texts /\ Len(w) \in Nat /\ p \in Nat \ {0} /\ qs[i] = p
  BY ElementOfSeq, TextIs
<1>2. p + Len(w) < d /\ Spells(b, p, w)
  BY DEF Laid
<1> HIDE DEF w, p
<1>3. p + Len(w) \in 1 .. d - 1 /\ \A j \in 1 .. Len(w) : p + j - 1 \in 1 .. d - 1
  BY <1>1, <1>2
<1>4. Spells(c, p, w)
  BY <1>2, <1>3 DEF Spells
<1>5. p + Len(w) < e
  BY <1>1, <1>2
<1> QED BY <1>1, <1>4, <1>5 DEF w, p

\* The line that is dispatched has not been read yet.
LEMMA EndOfLineReads ==
  ASSUME LineInv, ReadInv, EndOfLine
  PROVE  ReadInv'
<1>1. /\ phase' = "between" /\ line' = line /\ src' = 1 /\ argv' = argv /\ argv = <<>>
  BY DEF EndOfLine, Feeding, ReadInv
<1>2. Len(line) \in Nat
  BY LenProperties DEF LineInv, NoNul
<1>3. SoFar' = Unread
  BY <1>1, <1>2, LexedIs DEF SoFar
<1>4. Between'
  <2>1. Len(<<>>) = 0
    BY EmptyIs
  <2>2. SoFar'.mode = "between" /\ SoFar'.done = <<>>
    BY <1>3 DEF Unread
  <2>3. Laid(buf', dst', argv', <<>>)
    BY <2>1 DEF Laid
  <2> QED BY <1>1, <2>1, <2>2, <2>3 DEF Between
<1> QED BY <1>1, <1>4 DEF ReadInv, Parsed

LEMMA SkipSpaceReads ==
  ASSUME LineInv, ReadInv, SkipSpace
  PROVE  ReadInv'
<1>1. /\ phase = "between" /\ phase' = "between" /\ Current = Space /\ src' = src + 1
      /\ UNCHANGED <<line, buf, dst, argv>>
  BY DEF SkipSpace, KeepsRest, feedVars
<1>2. Parsing /\ Space # Nul
  BY <1>1 DEF Parsing, Space, Nul
<1>3. src \in Nat /\ Len(line) \in Nat /\ src <= Len(line) /\ Len(buf) = Len(line) + 1 /\ SoFar \in Readings
      /\ Lexed(line)[src] = Lex(SoFar, Current)
  BY <1>1, <1>2, Cursors
<1>4. SoFar.mode = "between" /\ Len(argv) = Len(SoFar.done) /\ Laid(buf, dst, argv, SoFar.done)
  BY <1>1, <1>3 DEF ReadInv, Between
<1>5. SoFar' = Lexed(line)[src]
  <2>1. src' - 1 = src
    BY <1>1, <1>3
  <2> QED BY <1>1, <2>1 DEF SoFar
<1>6. SoFar' = SoFar
  BY <1>1, <1>3, <1>4, <1>5, LexCases
<1>7. Between'
  BY <1>1, <1>4, <1>6 DEF Between
<1> QED BY <1>1, <1>7 DEF ReadInv, Parsed

LEMMA StartWordReads ==
  ASSUME LineInv, Shape, ReadInv, StartWord
  PROVE  ReadInv'
<1>1. /\ phase = "between" /\ Current \notin {Space, Nul}
      /\ UNCHANGED <<line, buf, src, dst>>
  BY DEF StartWord, KeepsRest, feedVars
<1>2. Parsing
  BY <1>1 DEF Parsing
<1>3. /\ src \in Nat /\ Len(line) \in Nat /\ src <= Len(line) /\ Len(buf) = Len(line) + 1
      /\ SoFar \in Readings /\ Lexed(line)[src] = Lex(SoFar, Current) /\ dst \in Nat \ {0}
      /\ src \in 0 .. Len(line)
  BY <1>1, <1>2, Cursors
<1>4. SoFar.mode = "between" /\ Len(argv) = Len(SoFar.done) /\ Laid(buf, dst, argv, SoFar.done)
  BY <1>1, <1>3 DEF ReadInv, Between
<1>5. SoFar' = SoFar
  BY <1>1 DEF SoFar
<1>6. Len(SoFar.done) \in Nat /\ Len(SoFar.done) <= MaxArgs /\ MaxArgs \in Nat /\ SoFar.done \in Seq(Texts)
  BY <1>3, ReadingFields, CommandLineAssumption
<1>7. CASE Len(argv) >= MaxArgs
  <2>1. phase' = "toomany"
    BY <1>7 DEF StartWord
  <2>2. Len(SoFar.done) = MaxArgs
    BY <1>4, <1>6, <1>7
  <2>3. Lexed(line)[src].mode = "toomany"
    BY <1>1, <1>3, <1>4, <2>2, LexCases DEF Reading
  <2>4. Lexed(line)[Len(line)].mode = "toomany"
    BY <1>3, <2>3, ToomanyStays DEF LineInv
  <2>5. Meant.verdict = "toomany"
    BY <2>4 DEF Meant
  <2>6. Meant' = Meant
    BY <1>1 DEF Meant
  <2> QED BY <2>1, <2>5, <2>6 DEF ReadInv, Parsed
<1>8. CASE ~(Len(argv) >= MaxArgs)
  <2>1. phase' = "word" /\ argv' = Append(argv, dst) /\ quoted' = FALSE
    BY <1>8 DEF StartWord
  <2>2. argv \in Seq(Nat \ {0})
    BY DEF Shape, TWords
  <2>3. Len(argv') = Len(argv) + 1 /\ \A k \in 1 .. Len(argv) + 1 : argv'[k] = IF k <= Len(argv) THEN argv[k] ELSE dst
    BY <1>3, <2>1, <2>2, AppendAt
  <2>4. Laid(buf, dst, argv', SoFar.done)
    <3>1. \A i \in 1 .. Len(SoFar.done) : argv[i] \in Nat \ {0} /\ argv'[i] = argv[i]
      BY <1>4, <1>6, <2>2, <2>3, ElementOfSeq
    <3>2. dst \in Nat /\ dst <= dst
      BY <1>3
    <3> QED BY <1>4, <1>6, <3>1, <3>2, LaidKept
  <2>5. argv'[Len(argv')] = dst
    BY <1>4, <1>6, <2>3
  <2>6. Growing(<<>>)'
    <3>1. Len(<<>>) = 0 /\ dst + 0 = dst
      BY <1>3, EmptyIs
    <3>2. Len(SoFar.done) < MaxArgs
      BY <1>4, <1>6, <1>8
    <3>3. \A j \in 1 .. Len(<<>>) : buf'[argv'[Len(argv')] + j - 1] = <<>>[j]
      BY <3>1
    <3> QED BY <1>1, <1>4, <1>5, <2>1, <2>3, <2>4, <2>5, <3>1, <3>2, <3>3 DEF Growing, Current
  <2>7. <<>> \in Texts
    BY TextIs
  <2>8. phase' = "word" /\ \E w \in Texts : Growing(w)'
    BY <2>1, <2>6, <2>7
  <2> QED BY <2>8 DEF ReadInv, Parsed
<1> QED BY <1>7, <1>8

\* One more symbol of the word is at the write cursor.
LEMMA GrowsBy ==
  ASSUME LineInv, Shape, phase = "word", NEW w \in Texts, Growing(w), NEW c \in Bytes \ {Nul},
         buf' = [buf EXCEPT ![dst] = c], dst' = dst + 1, argv' = argv
  PROVE  /\ Len(argv') = Len(SoFar.done) + 1 /\ Laid(buf', dst', argv', SoFar.done)
         /\ argv'[Len(argv')] + Len(Append(w, c)) = dst'
         /\ \A j \in 1 .. Len(Append(w, c)) : buf'[argv'[Len(argv')] + j - 1] = Append(w, c)[j]
<1> DEFINE v == Append(w, c)
           a == argv[Len(argv)]
<1>1. /\ buf \in Seq(Bytes) /\ dst \in 1 .. Len(buf) /\ SoFar \in Readings /\ Len(buf) \in Nat
  BY Cursors DEF Parsing
<1>2. /\ Len(argv) = Len(SoFar.done) + 1 /\ Laid(buf, dst, argv, SoFar.done)
      /\ a + Len(w) = dst /\ \A j \in 1 .. Len(w) : buf[a + j - 1] = w[j]
  BY DEF Growing
<1>3. SoFar.done \in Seq(Texts) /\ Len(SoFar.done) \in Nat /\ argv \in Seq(Nat \ {0})
  BY <1>1, ReadingFields DEF Shape, TWords
<1>4. Len(argv) \in 1 .. Len(argv)
  BY <1>2, <1>3
<1>5. a \in Nat \ {0}
  BY <1>3, <1>4, ElementOfSeq
<1>6. w \in Seq(Bytes) /\ Len(w) \in Nat /\ c \in Bytes
  BY TextIs
<1>7. Len(v) = Len(w) + 1 /\ \A k \in 1 .. Len(w) + 1 : v[k] = IF k <= Len(w) THEN w[k] ELSE c
  BY <1>6, AppendAt
<1>8. \A k \in 1 .. Len(buf) : buf'[k] = IF k = dst THEN c ELSE buf[k]
  BY <1>1, <1>6, ExceptSeq
<1> HIDE DEF v, a
<1>9. Laid(buf', dst', argv', SoFar.done)
  <2>1. \A i \in 1 .. Len(SoFar.done) : argv[i] \in Nat \ {0} /\ argv[i] = argv[i]
    BY <1>2, <1>3, ElementOfSeq
  <2>2. dst \in Nat /\ dst + 1 \in Nat /\ dst <= dst + 1
    BY <1>1
  <2>3. \A k \in 1 .. dst - 1 : buf'[k] = buf[k]
    BY <1>1, <1>8
  <2>4. Laid(buf, dst, argv, SoFar.done) /\ SoFar.done \in Seq(Texts)
    BY <1>2, <1>3
  <2>5. Laid(buf', dst + 1, argv, SoFar.done)
    BY <2>1, <2>2, <2>3, <2>4, LaidKept
  <2> QED BY <2>5
<1>10. a + Len(v) = dst'
  <2>1. a + Len(w) = dst /\ Len(v) = Len(w) + 1 /\ dst' = dst + 1 /\ Len(w) \in Nat /\ a \in Nat
    BY <1>2, <1>5, <1>6, <1>7
  <2> QED BY <2>1
<1>11. ASSUME NEW j \in 1 .. Len(v) PROVE buf'[a + j - 1] = v[j]
  <2>1. CASE j <= Len(w)
    <3>1. j \in 1 .. Len(w) /\ a + j - 1 \in 1 .. Len(buf) /\ a + j - 1 # dst
      BY <1>1, <1>2, <1>5, <1>6, <1>7, <2>1
    <3> QED BY <1>2, <1>7, <1>8, <2>1, <3>1
  <2>2. CASE ~(j <= Len(w))
    <3>1. a + j - 1 = dst
      BY <1>1, <1>2, <1>5, <1>6, <1>7, <2>2
    <3> QED BY <1>1, <1>7, <1>8, <2>2, <3>1
  <2> QED BY <2>1, <2>2
<1> QED BY <1>2, <1>9, <1>10, <1>11 DEF v, a

\* The word goes on: what was read of it is what has been kept of it.
LEMMA GrowsTo ==
  ASSUME ReadInv, NEW w \in Texts, phase' = "word", Growing(w)'
  PROVE  ReadInv'
<1>1. \E v \in Texts : Growing(v)'
  OBVIOUS
<1> QED BY <1>1 DEF ReadInv, Parsed

\* A word in the making, by what the reading says of it
LEMMA GrowingIs ==
  ASSUME NEW w, Growing(w)
  PROVE  \/ /\ SoFar.mode = "between" /\ w = <<>> /\ ~quoted
            /\ buf[src] \notin {Space, Nul} /\ Len(SoFar.done) < MaxArgs
         \/ SoFar.mode = "plain" /\ w = SoFar.word /\ ~quoted
         \/ SoFar.mode = "quoted" /\ w = SoFar.word /\ quoted
         \/ SoFar.mode = "escaped" /\ w = Append(SoFar.word, Escape) /\ quoted
            /\ buf[src] \notin {Quote, Escape}
BY DEF Growing

LEMMA SymbolKept ==
  ASSUME LineInv, Shape, phase = "word", NEW w \in Texts, Growing(w), TakeSymbol
  PROVE  \E v \in Texts : Growing(v)'
<1> DEFINE c == Current
           v == Append(w, c)
<1>0. Parsing /\ Space # Quote /\ Space # Escape /\ Quote # Escape
  BY DEF Parsing, Space, Quote, Escape
<1>1. /\ ~Escaped /\ c \notin {Nul, Quote} /\ (c = Space => quoted)
      /\ buf' = [buf EXCEPT ![dst] = c] /\ dst' = dst + 1 /\ src' = src + 1
      /\ UNCHANGED <<line, quoted, argv>> /\ phase' = "word"
  BY DEF TakeSymbol, Keep, KeepsRest, feedVars, Current
<1>2. /\ src \in Nat \ {0} /\ Len(line) \in Nat /\ src <= Len(line) /\ Len(buf) = Len(line) + 1
      /\ dst \in Nat \ {0} /\ dst <= src /\ buf \in Seq(Bytes)
      /\ SoFar \in Readings /\ c \in Bytes \ {Nul} /\ Lexed(line)[src] = Lex(SoFar, c)
  BY <1>0, <1>1, Cursors
<1>3. SoFar' = Lex(SoFar, c)
  <2>1. src' - 1 = src
    BY <1>1, <1>2
  <2> QED BY <1>1, <1>2, <2>1 DEF SoFar
<1>4. /\ Len(argv') = Len(SoFar.done) + 1 /\ Laid(buf', dst', argv', SoFar.done)
      /\ argv'[Len(argv')] + Len(v) = dst'
      /\ \A j \in 1 .. Len(v) : buf'[argv'[Len(argv')] + j - 1] = v[j]
  BY <1>1, <1>2, GrowsBy
<1>5. Append(w, c) \in Texts
  BY <1>2, TextIs
<1>6. /\ SoFar'.done = SoFar.done
      /\ \/ SoFar'.mode = "plain" /\ v = SoFar'.word /\ ~quoted'
         \/ SoFar'.mode = "quoted" /\ v = SoFar'.word /\ quoted'
         \/ SoFar'.mode = "escaped" /\ v = Append(SoFar'.word, Escape) /\ quoted'
            /\ buf'[src'] \notin {Quote, Escape}
  <2>1. CASE SoFar.mode = "between" /\ w = <<>> /\ ~quoted /\ Len(SoFar.done) < MaxArgs
    <3>1. SoFar' = Reading(SoFar.done, <<c>>, "plain")
      BY <1>1, <1>2, <1>3, <2>1, LexCases
    <3>2. v = <<c>>
      BY <2>1
    <3> HIDE DEF c, v
    <3>3. ~quoted'
      BY <1>1, <2>1
    <3> QED BY <3>1, <3>2, <3>3 DEF Reading
  <2>2. CASE SoFar.mode = "plain" /\ w = SoFar.word /\ ~quoted
    <3>1. SoFar' = Reading(SoFar.done, v, "plain")
      BY <1>1, <1>2, <1>3, <2>2, LexCases
    <3> HIDE DEF v
    <3>2. ~quoted'
      BY <1>1, <2>2
    <3> QED BY <3>1, <3>2 DEF Reading
  <2>3. CASE SoFar.mode = "quoted" /\ w = SoFar.word /\ quoted /\ c = Escape
    <3>1. SoFar' = Reading(SoFar.done, w, "escaped")
      BY <1>3, <1>2, <2>3, LexCases
    <3>2. buf[src + 1] \notin {Quote, Escape}
      BY <1>1, <2>3 DEF Escaped
    <3>3. buf'[src'] = buf[src + 1]
      <4>1. src + 1 \in 1 .. Len(buf) /\ src + 1 # dst
        BY <1>2
      <4>2. DOMAIN buf = 1 .. Len(buf)
        BY <1>2, LenProperties
      <4> QED BY <1>1, <4>1, <4>2
    <3>4. quoted'
      BY <1>1, <2>3
    <3>5. v = Append(w, Escape)
      BY <2>3
    <3> HIDE DEF c, v
    <3> QED BY <3>1, <3>2, <3>3, <3>4, <3>5 DEF Reading
  <2>4. CASE SoFar.mode = "quoted" /\ w = SoFar.word /\ quoted /\ c # Escape
    <3>1. SoFar' = Reading(SoFar.done, v, "quoted")
      BY <1>1, <1>3, <1>2, <2>4, LexCases
    <3>2. quoted'
      BY <1>1, <2>4
    <3> HIDE DEF v
    <3> QED BY <3>1, <3>2 DEF Reading
  <2>5. CASE SoFar.mode = "escaped" /\ w = Append(SoFar.word, Escape) /\ quoted /\ c \notin {Quote, Escape}
    <3>1. SoFar' = Reading(SoFar.done, v, "quoted")
      BY <1>3, <1>2, <2>5, LexCases
    <3>2. quoted'
      BY <1>1, <2>5
    <3> HIDE DEF v
    <3> QED BY <3>1, <3>2 DEF Reading
  <2>6. buf[src] = c
    BY DEF Current
  <2> HIDE DEF c, v
  <2> QED BY <2>1, <2>2, <2>3, <2>4, <2>5, <2>6, GrowingIs
<1> HIDE DEF c, v
<1>7. PICK u \in Texts : u = v
  BY <1>5 DEF c, v
<1>8. Growing(u)'
  BY <1>4, <1>6, <1>7 DEF Growing
<1> QED BY <1>8

LEMMA EscapedKept ==
  ASSUME LineInv, Shape, phase = "word", NEW w \in Texts, Growing(w), TakeEscaped
  PROVE  \E v \in Texts : Growing(v)'
<1> DEFINE c == buf[src + 1]
           v == Append(w, c)
<1>0. Parsing /\ Quote # Escape /\ Nul # Escape /\ Nul # Quote
  BY DEF Parsing, Nul, Quote, Escape
<1>1. /\ quoted /\ Current = Escape /\ c \in {Quote, Escape}
      /\ buf' = [buf EXCEPT ![dst] = c] /\ dst' = dst + 1 /\ src' = (src + 1) + 1
      /\ UNCHANGED <<line, quoted, argv>> /\ phase' = "word"
  BY DEF TakeEscaped, Escaped, Keep, KeepsRest, feedVars
<1>2. src \in Nat \ {0} /\ Len(line) \in Nat /\ SoFar \in Readings /\ src <= Len(line)
  BY <1>0, <1>1, Cursors
<1>3. /\ Lexed(line)[src] = Lex(SoFar, Escape) /\ Lexed(line)[src] \in Readings
      /\ src < Len(line)
  <2>1. /\ Lexed(line)[src] = Lex(SoFar, Escape) /\ Lexed(line)[src] \in Readings
        /\ buf[src + 1] = Nul <=> src = Len(line)
    BY <1>0, <1>1, <1>2, Cursors
  <2> QED BY <1>0, <1>1, <1>2, <2>1
<1>4. c \in Bytes \ {Nul} /\ Lexed(line)[src + 1] = Lex(Lexed(line)[src], c)
  BY <1>0, <1>3, Cursors
<1>5. SoFar' = Lexed(line)[src + 1]
  <2>1. src' - 1 = src + 1
    BY <1>1, <1>2
  <2> QED BY <1>1, <2>1 DEF SoFar
<1>6. SoFar.mode = "quoted" /\ w = SoFar.word
  BY <1>1, GrowingIs DEF Current
<1>7. Lexed(line)[src] = Reading(SoFar.done, w, "escaped")
  BY <1>2, <1>3, <1>6, LexCases
<1> HIDE DEF c, v
<1>8. SoFar' = Reading(SoFar.done, v, "quoted")
  <2> DEFINE l == Lexed(line)[src]
  <2>1. l.mode = "escaped" /\ l.word = w /\ l.done = SoFar.done
    BY <1>7 DEF Reading
  <2>2. l \in Readings
    BY <1>3
  <2>3. SoFar' = Lex(l, c)
    BY <1>4, <1>5
  <2> HIDE DEF l
  <2>4. SoFar' = Reading(l.done, Append(l.word, c), "quoted")
    BY <1>1, <2>1, <2>2, <2>3, LexCases
  <2> QED BY <2>1, <2>4 DEF v
<1>9. /\ Len(argv') = Len(SoFar.done) + 1 /\ Laid(buf', dst', argv', SoFar.done)
      /\ argv'[Len(argv')] + Len(v) = dst'
      /\ \A j \in 1 .. Len(v) : buf'[argv'[Len(argv')] + j - 1] = v[j]
  BY <1>1, <1>4, GrowsBy DEF v
<1>10. v \in Texts
  BY <1>4, TextIs DEF v
<1>11. SoFar'.done = SoFar.done /\ SoFar'.mode = "quoted" /\ SoFar'.word = v /\ quoted'
  BY <1>1, <1>8 DEF Reading
<1>12. PICK u \in Texts : u = v
  BY <1>10
<1>13. Growing(u)'
  BY <1>9, <1>11, <1>12 DEF Growing
<1> QED BY <1>13

LEMMA QuoteTaken ==
  ASSUME LineInv, Shape, phase = "word", NEW w \in Texts, Growing(w), TakeQuote
  PROVE  Growing(w)'
<1>0. Parsing /\ Quote # Escape /\ Nul # Quote /\ Space # Quote
  BY DEF Parsing, Nul, Quote, Escape, Space
<1>1. /\ Current = Quote /\ quoted' = ~quoted /\ src' = src + 1
      /\ UNCHANGED <<line, buf, dst, argv>> /\ phase' = "word"
  BY DEF TakeQuote, KeepsRest, feedVars
<1>2. /\ src \in Nat \ {0} /\ Len(line) \in Nat /\ SoFar \in Readings /\ src <= Len(line)
      /\ Lexed(line)[src] = Lex(SoFar, Quote)
  BY <1>0, <1>1, Cursors
<1>3. SoFar' = Lex(SoFar, Quote)
  <2>1. src' - 1 = src
    BY <1>1, <1>2
  <2> QED BY <1>1, <1>2, <2>1 DEF SoFar
<1>4. /\ SoFar'.done = SoFar.done
      /\ \/ SoFar'.mode = "plain" /\ w = SoFar'.word /\ ~quoted'
         \/ SoFar'.mode = "quoted" /\ w = SoFar'.word /\ quoted'
  <2>1. CASE SoFar.mode = "between" /\ w = <<>> /\ ~quoted /\ Len(SoFar.done) < MaxArgs
    <3>1. SoFar' = Reading(SoFar.done, SoFar.word, "quoted")
      BY <1>0, <1>2, <1>3, <2>1, LexCases
    <3>2. w = SoFar.word
      BY <1>2, <2>1, ReadingFields
    <3>3. quoted'
      BY <1>1, <2>1
    <3> QED BY <3>1, <3>2, <3>3 DEF Reading
  <2>2. CASE SoFar.mode = "plain" /\ w = SoFar.word /\ ~quoted
    <3>1. SoFar' = Reading(SoFar.done, w, "quoted")
      BY <1>2, <1>3, <2>2, LexCases
    <3>2. quoted'
      BY <1>1, <2>2
    <3> QED BY <3>1, <3>2 DEF Reading
  <2>3. CASE SoFar.mode = "quoted" /\ w = SoFar.word /\ quoted
    <3>1. SoFar' = Reading(SoFar.done, w, "plain")
      BY <1>2, <1>3, <2>3, LexCases
    <3>2. ~quoted'
      BY <1>1, <2>3
    <3> QED BY <3>1, <3>2 DEF Reading
  <2> QED BY <1>1, <2>1, <2>2, <2>3, GrowingIs DEF Current
<1> QED BY <1>1, <1>4 DEF Growing

LEMMA WordReads ==
  ASSUME LineInv, Shape, ReadInv, TakeSymbol \/ TakeEscaped \/ TakeQuote
  PROVE  ReadInv'
<1>1. phase = "word" /\ phase' = "word"
  BY DEF TakeSymbol, TakeEscaped, TakeQuote, InWord, Keep
<1>2. PICK w \in Texts : Growing(w)
  BY <1>1 DEF ReadInv
<1>3. CASE TakeSymbol
  BY <1>1, <1>2, <1>3, SymbolKept, GrowsTo
<1>4. CASE TakeEscaped
  BY <1>1, <1>2, <1>4, EscapedKept, GrowsTo
<1>5. CASE TakeQuote
  BY <1>1, <1>2, <1>5, QuoteTaken, GrowsTo
<1> QED BY <1>3, <1>4, <1>5

\* A finished word is laid down with the terminator behind it.
LEMMA WordLaid ==
  ASSUME LineInv, Shape, phase = "word", Growing(SoFar.word), SoFar.mode = "plain",
         buf' = [buf EXCEPT ![dst] = Nul], dst' = dst + 1, argv' = argv
  PROVE  /\ Append(SoFar.done, SoFar.word) \in Seq(Texts)
         /\ Len(argv') = Len(Append(SoFar.done, SoFar.word)) /\ Len(argv') = Len(SoFar.done) + 1
         /\ Laid(buf', dst', argv', Append(SoFar.done, SoFar.word))
<1> DEFINE w == SoFar.word
           ws == Append(SoFar.done, w)
           a == argv[Len(argv)]
<1>1. /\ buf \in Seq(Bytes) /\ dst \in 1 .. Len(buf) /\ SoFar \in Readings /\ Len(buf) \in Nat
  BY Cursors DEF Parsing
<1>2. /\ Len(argv) = Len(SoFar.done) + 1 /\ Laid(buf, dst, argv, SoFar.done)
      /\ a + Len(w) = dst /\ \A j \in 1 .. Len(w) : buf[a + j - 1] = w[j]
  BY DEF Growing
<1>3. SoFar.done \in Seq(Texts) /\ Len(SoFar.done) \in Nat /\ argv \in Seq(Nat \ {0}) /\ w \in Texts
  BY <1>1, ReadingFields DEF Shape, TWords
<1>4. Len(argv) \in 1 .. Len(argv)
  BY <1>2, <1>3
<1>5. a \in Nat \ {0} /\ Len(w) \in Nat
  BY <1>3, <1>4, ElementOfSeq, TextIs
<1>6. /\ ws \in Seq(Texts) /\ Len(ws) = Len(SoFar.done) + 1
      /\ \A k \in 1 .. Len(SoFar.done) + 1 : ws[k] = IF k <= Len(SoFar.done) THEN SoFar.done[k] ELSE w
  BY <1>3, AppendAt
<1>7. \A k \in 1 .. Len(buf) : buf'[k] = IF k = dst THEN Nul ELSE buf[k]
  BY <1>1, NulIsByte, ExceptSeq
<1> HIDE DEF ws, w, a
<1>8. Laid(buf', dst + 1, argv, SoFar.done)
  <2>1. \A i \in 1 .. Len(SoFar.done) : argv[i] \in Nat \ {0} /\ argv[i] = argv[i]
    BY <1>2, <1>3, ElementOfSeq
  <2>2. dst \in Nat /\ dst + 1 \in Nat /\ dst <= dst + 1
    BY <1>1
  <2>3. \A k \in 1 .. dst - 1 : buf'[k] = buf[k]
    BY <1>1, <1>7
  <2>4. Laid(buf, dst, argv, SoFar.done) /\ SoFar.done \in Seq(Texts)
    BY <1>2, <1>3
  <2> QED BY <2>1, <2>2, <2>3, <2>4, LaidKept
<1>9. a + Len(w) < dst + 1 /\ Spells(buf', a, w)
  <2>1. a + Len(w) < dst + 1 /\ buf'[a + Len(w)] = Nul
    BY <1>1, <1>2, <1>7
  <2>2. ASSUME NEW j \in 1 .. Len(w) PROVE buf'[a + j - 1] = w[j]
    <3>1. a + j - 1 \in 1 .. Len(buf) /\ a + j - 1 # dst
      BY <1>1, <1>2, <1>5
    <3> QED BY <1>2, <1>7, <3>1
  <2> QED BY <2>1, <2>2 DEF Spells
<1>10. ASSUME NEW i \in 1 .. Len(ws) PROVE argv[i] + Len(ws[i]) < dst + 1 /\ Spells(buf', argv[i], ws[i])
  <2>1. CASE i <= Len(SoFar.done)
    <3>1. i \in 1 .. Len(SoFar.done) /\ ws[i] = SoFar.done[i]
      BY <1>3, <1>6, <2>1
    <3> QED BY <1>8, <3>1 DEF Laid
  <2>2. CASE ~(i <= Len(SoFar.done))
    <3>1. i = Len(argv) /\ ws[i] = w
      BY <1>2, <1>3, <1>6, <2>2
    <3> QED BY <1>9, <3>1 DEF a
  <2> QED BY <2>1, <2>2
<1>11. Laid(buf', dst', argv', ws)
  BY <1>10 DEF Laid
<1>12. Len(argv') = Len(ws) /\ Len(argv') = Len(SoFar.done) + 1
  BY <1>2, <1>6
<1> QED BY <1>6, <1>11, <1>12 DEF ws, w

LEMMA EndWordReads ==
  ASSUME LineInv, Shape, ReadInv, EndWord
  PROVE  ReadInv'
<1>1. /\ phase = "word" /\ ~quoted /\ Current \in {Space, Nul}
      /\ src' = IF Current # Nul THEN src + 1 ELSE src
      /\ buf' = [buf EXCEPT ![dst] = Nul] /\ dst' = dst + 1 /\ phase' = "between"
      /\ UNCHANGED <<line, argv>>
  BY DEF EndWord, InWord, KeepsRest, feedVars
<1>2. Parsing /\ Space # Nul
  BY <1>1 DEF Parsing, Space, Nul
<1>3. /\ src \in Nat \ {0} /\ Len(line) \in Nat /\ Len(buf) = Len(line) + 1 /\ SoFar \in Readings
      /\ Current = Nul <=> src = Len(line) + 1
      /\ src <= Len(line) => Lexed(line)[src] = Lex(SoFar, Current)
      /\ src <= Len(line) + 1 /\ buf \in Seq(Bytes)
  BY <1>2, Cursors
<1>4. PICK w \in Texts : Growing(w)
  BY <1>1 DEF ReadInv
<1>5. SoFar.mode = "plain" /\ w = SoFar.word
  BY <1>1, <1>4, GrowingIs DEF Current
<1> DEFINE ws == Append(SoFar.done, SoFar.word)
<1>6. ws \in Seq(Texts) /\ Len(argv') = Len(ws) /\ Len(argv') = Len(SoFar.done) + 1
      /\ Laid(buf', dst', argv', ws)
  BY <1>1, <1>4, <1>5, WordLaid
<1> HIDE DEF ws
<1>7. Between'
  <2>1. CASE Current = Space
    <3>1. src <= Len(line) /\ src' = src + 1
      BY <1>1, <1>2, <1>3, <2>1
    <3>2. SoFar' = Lexed(line)[src]
      <4>1. src' - 1 = src
        BY <1>3, <3>1
      <4> QED BY <1>1, <4>1 DEF SoFar
    <3>3. SoFar' = Reading(ws, <<>>, "between")
      BY <1>3, <1>5, <2>1, <3>1, <3>2, LexCases DEF ws
    <3>4. SoFar'.mode = "between" /\ SoFar'.done = ws
      BY <3>3 DEF Reading
    <3> QED BY <1>6, <3>4 DEF Between
  <2>2. CASE Current = Nul
    <3>1. src' = src /\ src = Len(line) + 1
      BY <1>1, <1>3, <2>2
    <3>2. SoFar' = SoFar
      BY <1>1, <3>1 DEF SoFar
    <3>3. Len(buf') = Len(buf)
      BY <1>1, <1>3, NulIsByte, ExceptSeq
    <3>4. src' = Len(buf')
      BY <1>3, <3>1, <3>3
    <3> QED BY <1>5, <1>6, <3>2, <3>4 DEF Between, ws
  <2> QED BY <1>1, <2>1, <2>2
<1> QED BY <1>1, <1>7 DEF ReadInv, Parsed

LEMMA UnclosedReads ==
  ASSUME LineInv, ReadInv, Unclosed
  PROVE  ReadInv'
<1>1. phase = "word" /\ quoted /\ Current = Nul /\ phase' = "unclosed" /\ line' = line
  BY DEF Unclosed, InWord, KeepsRest, feedVars
<1>2. Len(line) \in Nat /\ src = Len(line) + 1
  BY <1>1, Cursors DEF Parsing
<1>3. SoFar = Lexed(line)[Len(line)]
  <2>1. src - 1 = Len(line)
    BY <1>2
  <2> QED BY <2>1 DEF SoFar
<1>4. SoFar.mode \in {"quoted", "escaped"}
  <2>1. PICK w \in Texts : Growing(w)
    BY <1>1 DEF ReadInv
  <2> QED BY <1>1, <2>1, GrowingIs
<1>5. Meant.verdict = "unclosed"
  BY <1>3, <1>4 DEF Meant
<1>6. Meant' = Meant
  BY <1>1 DEF Meant
<1> QED BY <1>1, <1>5, <1>6 DEF ReadInv, Parsed

\* The words cli_parse hands on are the words of the line.
LEMMA WordsAreMeant ==
  ASSUME LineInv, Shape, ReadInv, phase = "between", Current = Nul
  PROVE  /\ Meant.verdict = "expand" /\ Meant.words \in Seq(Texts)
         /\ Len(argv) = Len(Meant.words) /\ Laid(buf, Len(buf) + 1, argv, Meant.words)
<1>1. Parsing /\ Between
  BY DEF ReadInv, Parsing
<1>2. Len(line) \in Nat /\ src = Len(line) + 1 /\ SoFar \in Readings /\ Len(buf) = Len(line) + 1
      /\ dst \in Nat
  BY <1>1, Cursors
<1>3. SoFar = Lexed(line)[Len(line)]
  <2>1. src - 1 = Len(line)
    BY <1>2
  <2> QED BY <2>1 DEF SoFar
<1>4. SoFar.done \in Seq(Texts) /\ SoFar.word \in Texts
  BY <1>2, ReadingFields
<1>5. /\ Meant.verdict = "expand" /\ Meant.words \in Seq(Texts)
      /\ Len(argv) = Len(Meant.words) /\ Laid(buf, dst, argv, Meant.words)
  <2>1. CASE SoFar.mode = "between" /\ Len(argv) = Len(SoFar.done) /\ Laid(buf, dst, argv, SoFar.done)
    <3>1. Meant = [verdict |-> "expand", words |-> SoFar.done]
      BY <1>3, <2>1 DEF Meant
    <3> QED BY <1>4, <2>1, <3>1
  <2>2. CASE /\ SoFar.mode = "plain" /\ src = Len(buf) /\ Len(argv) = Len(SoFar.done) + 1
             /\ Laid(buf, dst, argv, Append(SoFar.done, SoFar.word))
    <3> DEFINE ws == Append(SoFar.done, SoFar.word)
    <3>1. Meant = [verdict |-> "expand", words |-> ws]
      BY <1>3, <2>2 DEF Meant
    <3>2. ws \in Seq(Texts) /\ Len(ws) = Len(SoFar.done) + 1
      BY <1>4, AppendAt
    <3>3. Laid(buf, dst, argv, ws) /\ Len(argv) = Len(SoFar.done) + 1
      BY <2>2
    <3> HIDE DEF ws
    <3> QED BY <3>1, <3>2, <3>3
  <2> QED BY <1>1, <2>1, <2>2 DEF Between
<1>6. \A i \in 1 .. Len(Meant.words) : argv[i] \in Nat \ {0} /\ argv[i] = argv[i]
  <2>1. argv \in Seq(Nat \ {0})
    BY DEF Shape, TWords
  <2> QED BY <1>5, <2>1, ElementOfSeq
<1>7. Len(buf) + 1 \in Nat /\ dst <= Len(buf) + 1
  BY <1>2 DEF Shape, TLine
<1>8. Laid(buf, Len(buf) + 1, argv, Meant.words)
  BY <1>2, <1>5, <1>6, <1>7, LaidKept
<1> QED BY <1>5, <1>8

LEMMA FinishReads ==
  ASSUME Finish
  PROVE  ReadInv'
BY DEF Finish, ReadInv, Parsed

LEMMA ParseDoneReads ==
  ASSUME LineInv, Shape, ReadInv, ParseDone
  PROVE  ReadInv'
<1>1. CASE argv = <<>>
  BY <1>1, FinishReads DEF ParseDone
<1>2. CASE argv # <<>>
  <2>1. phase = "between" /\ Current = Nul /\ phase' = "expand" /\ UNCHANGED <<line, buf, argv>>
    BY <1>2 DEF ParseDone, feedVars, parseVars
  <2>2. /\ Meant.verdict = "expand" /\ Meant.words \in Seq(Texts)
        /\ Len(argv) = Len(Meant.words) /\ Laid(buf, Len(buf) + 1, argv, Meant.words)
    BY <2>1, WordsAreMeant
  <2>3. Meant' = Meant
    BY <2>1 DEF Meant
  <2>4. Meant.words # <<>>
    <3>1. argv \in Seq(Nat \ {0}) /\ Len(<<>>) = 0
      BY EmptyIs DEF Shape, TWords
    <3>2. Len(argv) # 0
      BY <1>2, <3>1, EmptySeq
    <3> QED BY <2>2, <3>1, <3>2
  <2> QED BY <2>1, <2>2, <2>3, <2>4 DEF ReadInv, Parsed
<1> QED BY <1>1, <1>2

LEMMA ReadInvNext == LineInv /\ Shape /\ ReadInv /\ [Next]_vars => ReadInv'
<1> SUFFICES ASSUME LineInv, Shape, ReadInv, [Next]_vars PROVE ReadInv'
  OBVIOUS
<1>1. CASE Feed
  <2>1. CASE EndOfLine
    BY <2>1, EndOfLineReads
  <2>2. CASE ~EndOfLine
    <3>1. phase = "feed" /\ phase' = "feed" /\ argv' = argv
      BY <1>1, <2>2 DEF Feed, Arrive, FeedByte, FeedNothing, Reconnect, Feeding, parseVars
    <3> QED BY <3>1 DEF ReadInv, Parsed
  <2> QED BY <2>1, <2>2
<1>2. CASE Parse
  BY <1>2, SkipSpaceReads, StartWordReads, WordReads, EndWordReads, UnclosedReads, ParseDoneReads DEF Parse
<1>3. CASE Refused
  BY <1>3, FinishReads DEF Refused
<1>4. ASSUME Parsed, Parsed', UNCHANGED <<line, buf, argv>> PROVE ReadInv'
  <2>1. Meant' = Meant
    BY <1>4 DEF Meant
  <2>2. phase' \notin {"feed", "between", "word", "unclosed", "toomany"}
    BY <1>4 DEF Parsed
  <2> QED BY <1>4, <2>1, <2>2 DEF ReadInv
<1>5. CASE Expand
  <2>1. Parsed /\ Parsed' /\ UNCHANGED <<line, buf, argv>>
    BY <1>5 DEF Expand, ExpandNext, ExpandWordDone, Expanding, feedVars, parseVars, Parsed
  <2> QED BY <1>4, <2>1
<1>6. CASE Run
  <2>1. CASE LineDone
    BY <2>1, FinishReads DEF LineDone
  <2>2. CASE ~LineDone
    <3>1. Parsed /\ Parsed' /\ UNCHANGED <<line, buf, argv>>
      BY <1>6, <2>2 DEF Run, RunSetWords, RunSetPair, RunUnset, RunRepeat, RunUnknown, RepeatDone,
         Calling, Assign, Returns, feedVars, parseVars, Parsed
    <3> QED BY <1>4, <3>1
  <2> QED BY <2>1, <2>2
<1>7. CASE UNCHANGED vars
  <2>1. UNCHANGED <<line, phase, buf, src, dst, quoted, argv>>
    BY <1>7 DEF vars, feedVars, parseVars
  <2>2. Meant' = Meant /\ SoFar' = SoFar
    BY <2>1 DEF Meant, SoFar
  <2>3. (\A w \in Texts : Growing(w)' <=> Growing(w)) /\ (Between' <=> Between) /\ (Parsed' <=> Parsed)
    BY <2>1, <2>2 DEF Growing, Between, Parsed
  <2> QED BY <2>1, <2>2, <2>3 DEF ReadInv
<1> QED BY <1>1, <1>2, <1>3, <1>5, <1>6, <1>7 DEF Next

LEMMA ReadInvInit == Init => ReadInv
BY DEF Init, ReadInv, Parsed

LEMMA ReadInvAlways == Spec => []ReadInv
<1>1. LineInv /\ Shape /\ ReadInv /\ [Next]_vars => ReadInv'
  BY ReadInvNext
<1> QED BY <1>1, ReadInvInit, LineInvAlways, ShapeAlways, PTL DEF Spec

-----------------------------------------------------------------------------
(* Words in a buffer *)

\* What a pointer points at is the word that is spelled there.
LEMMA SpellsWord ==
  ASSUME NEW S, NEW s \in Seq(S), NEW w \in Seq(S), \A j \in 1 .. Len(w) : w[j] # Nul,
         NEW p \in Nat \ {0}, p + Len(w) <= Len(s), Spells(s, p, w)
  PROVE  Word(s, p) = w
<1> DEFINE m == p + Len(w)
           Ends(k) == Symbol(s, k) = Nul /\ \A j \in p .. k - 1 : s[j] # Nul
<1>1. Len(s) \in Nat /\ Len(w) \in Nat
  BY LenProperties
<1>2. /\ s[m] = Nul /\ m \in p .. Len(s) /\ m \in Nat
      /\ \A k \in p .. m - 1 : s[k] = w[k - p + 1] /\ s[k] # Nul
  <2>1. s[m] = Nul /\ m \in p .. Len(s) /\ m \in Nat
    BY <1>1 DEF Spells
  <2>2. ASSUME NEW k \in p .. m - 1 PROVE s[k] = w[k - p + 1] /\ s[k] # Nul
    <3>1. k - p + 1 \in 1 .. Len(w) /\ p + (k - p + 1) - 1 = k
      BY <1>1
    <3>2. s[k] = w[k - p + 1]
      BY <3>1 DEF Spells
    <3> QED BY <3>1, <3>2
  <2> QED BY <2>1, <2>2
<1> HIDE DEF m
<1>3. Ends(m)
  BY <1>1, <1>2 DEF Symbol
<1>4. ASSUME NEW k \in p .. Len(s) + 1, Ends(k) PROVE k = m
  <2>1. CASE k < m
    <3>1. k \in p .. m - 1 /\ k <= Len(s)
      BY <1>1, <1>2, <2>1
    <3> QED BY <1>2, <1>4, <3>1 DEF Symbol
  <2>2. CASE m < k
    <3>1. m \in p .. k - 1
      BY <1>1, <1>2, <2>2
    <3> QED BY <1>2, <1>4, <3>1
  <2> QED BY <1>1, <1>2, <2>1, <2>2
<1>5. NulFrom(s, p) = m
  <2>1. NulFrom(s, p) = CHOOSE k \in p .. Len(s) + 1 : Ends(k)
    BY DEF NulFrom
  <2>2. m \in p .. Len(s) + 1
    BY <1>1, <1>2
  <2> HIDE DEF Ends
  <2> QED BY <1>3, <1>4, <2>1, <2>2
<1>6. /\ SubSeq(s, p, m - 1) \in Seq(S) /\ Len(SubSeq(s, p, m - 1)) = Len(w)
      /\ \A i \in 1 .. Len(w) : SubSeq(s, p, m - 1)[i] = w[i]
  <2>1. m - 1 \in Nat /\ m - 1 <= Len(s) /\ p <= (m - 1) + 1 /\ (m - 1) - p + 1 = Len(w)
    BY <1>1, <1>2 DEF m
  <2>2. /\ SubSeq(s, p, m - 1) \in Seq(S) /\ Len(SubSeq(s, p, m - 1)) = Len(w)
        /\ \A i \in 1 .. Len(w) : SubSeq(s, p, m - 1)[i] = s[p + i - 1]
    BY <2>1, SubSeqIs
  <2> QED BY <2>2 DEF Spells
<1>7. SubSeq(s, p, m - 1) = w
  BY <1>6, SeqEqual
<1> QED BY <1>5, <1>7 DEF Word

\* In whatever phase follows cli_parse the pointers stand for the words of the line.
LEMMA WordsFound ==
  ASSUME Shape, ReadInv, Parsed
  PROVE  WordsOf(buf, argv) = Meant.words
<1> DEFINE ws == Meant.words
<1>1. ws \in Seq(Texts) /\ Len(argv) = Len(ws) /\ Laid(buf, Len(buf) + 1, argv, ws)
  BY DEF ReadInv
<1>2. buf \in Seq(Bytes) /\ argv \in Seq(Nat \ {0}) /\ Len(argv) \in Nat /\ Len(buf) \in Nat
  BY LenProperties DEF Shape, TLine, TWords, Parsed
<1> HIDE DEF ws
<1>3. ASSUME NEW i \in 1 .. Len(argv) PROVE Word(buf, argv[i]) = ws[i]
  <2>1. ws[i] \in Texts /\ argv[i] \in Nat \ {0}
    BY <1>1, <1>2, ElementOfSeq
  <2>2. argv[i] + Len(ws[i]) < Len(buf) + 1 /\ Spells(buf, argv[i], ws[i])
    BY <1>1 DEF Laid
  <2>3. ws[i] \in Seq(Bytes) /\ Len(ws[i]) \in Nat /\ \A j \in 1 .. Len(ws[i]) : ws[i][j] # Nul
    BY <2>1, LenProperties DEF Texts
  <2>4. argv[i] + Len(ws[i]) <= Len(buf)
    BY <1>2, <2>1, <2>2, <2>3
  <2> QED BY <1>2, <2>1, <2>2, <2>3, <2>4, SpellsWord
<1>4. WordsOf(buf, argv) = [i \in 1 .. Len(argv) |-> ws[i]]
  BY <1>3 DEF WordsOf
<1>5. ws = [i \in 1 .. Len(ws) |-> ws[i]]
  BY <1>1
<1> QED BY <1>1, <1>4, <1>5 DEF ws

LEMMA ParsedAsMeant ==
  ASSUME Shape, ReadInv
  PROVE  ParsesAsMeant
<1>1. phase \in {"unclosed", "toomany", "expand"} => Meant.verdict = phase
  BY DEF ReadInv, Parsed
<1>2. phase = "expand" => WordsOf(buf, argv) = Meant.words
  BY WordsFound DEF Parsed
<1> QED BY <1>1, <1>2 DEF ParsesAsMeant

-----------------------------------------------------------------------------
(* What a `$` stands for does not depend on where the word is *)

Braced(s, i) == Symbol(s, i + 1) = "{"
NameAt(s, i) == IF Braced(s, i) THEN i + 2 ELSE i + 1
LeadAt(s, i) == Symbol(s, NameAt(s, i))
EndAt(s, i) == IF IsSpecial(LeadAt(s, i)) THEN NameAt(s, i) + 1 ELSE NameEnd(s, NameAt(s, i))
NextAt(s, i) == IF Braced(s, i) /\ Symbol(s, EndAt(s, i)) = "}" THEN EndAt(s, i) + 1 ELSE EndAt(s, i)

LEMMA ReferenceParts ==
  ASSUME NEW s, NEW i
  PROVE  Reference(s, i) =
           CASE IsSpecial(LeadAt(s, i)) ->
                  [kind |-> "value", text |-> SpecialValue(LeadAt(s, i)), next |-> NextAt(s, i)]
             [] LeadAt(s, i) \in Letters /\ EndAt(s, i) - NameAt(s, i) <= NameMax ->
                  [kind |-> "value", text |-> ValueOf(SubSeq(s, NameAt(s, i), EndAt(s, i) - 1)),
                   next |-> NextAt(s, i)]
             [] LeadAt(s, i) \in Letters /\ EndAt(s, i) - NameAt(s, i) > NameMax ->
                  [kind |-> "toolong", text |-> <<>>, next |-> NextAt(s, i)]
             [] OTHER -> [kind |-> "literal", text |-> <<Dollar>>, next |-> i + 1]
BY DEF Reference, Braced, NameAt, LeadAt, EndAt, NextAt

LEMMA NulIsNothing ==
  /\ Nul # "{" /\ Nul # "}" /\ Nul # Dollar /\ ~NameRest(Nul) /\ ~IsSpecial(Nul) /\ Nul \notin Letters
  /\ "{" # Dollar /\ "}" # Dollar
  /\ \A c : NameRest(c) \/ IsSpecial(c) => c # Dollar
BY CommandLineAssumption, NulNames DEF Nul, Dollar, IsSpecial, NameRest, DigitSet, Digits

\* The end of a name: the first symbol that cannot belong to it
Scans(s, k, e) == ~NameRest(Symbol(s, e)) /\ \A j \in k .. e - 1 : NameRest(s[j])

LEMMA NameEndScans ==
  ASSUME NEW s \in Seq(Bytes), NEW p \in 1 .. Len(s) + 1
  PROVE  NameEnd(s, p) \in p .. Len(s) + 1 /\ Scans(s, p, NameEnd(s, p))
<1> DEFINE Z == {k \in p .. Len(s) + 1 : ~NameRest(Symbol(s, k))}
<1>0. Len(s) \in Nat
  BY LenProperties
<1>1. Len(s) + 1 \in Z
  BY <1>0, NulNames DEF Symbol
<1>2. PICK m \in Z : \A k \in Z : m <= k
  <2>1. Z \in SUBSET Nat
    BY <1>0
  <2> HIDE DEF Z
  <2> QED BY <1>1, <2>1, LeastIn
<1>3. m \in p .. Len(s) + 1 /\ ~NameRest(Symbol(s, m))
  OBVIOUS
<1>4. \A j \in p .. m - 1 : NameRest(s[j])
  <2> TAKE j \in p .. m - 1
  <2>1. j \in p .. Len(s) + 1 /\ ~(m <= j) /\ j <= Len(s)
    BY <1>0, <1>3
  <2>2. j \notin Z
    BY <1>2, <2>1
  <2>3. NameRest(Symbol(s, j))
    BY <2>1, <2>2
  <2> QED BY <2>1, <2>3 DEF Symbol
<1>5. Scans(s, p, m)
  BY <1>3, <1>4 DEF Scans
<1>6. NameEnd(s, p) = CHOOSE e \in p .. Len(s) + 1 : Scans(s, p, e)
  BY DEF NameEnd, Scans
<1> QED BY <1>3, <1>5, <1>6

LEMMA NameEndUnique ==
  ASSUME NEW s \in Seq(Bytes), NEW p \in 1 .. Len(s) + 1, NEW e \in p .. Len(s) + 1, Scans(s, p, e)
  PROVE  NameEnd(s, p) = e
<1> DEFINE f == NameEnd(s, p)
<1>1. f \in p .. Len(s) + 1 /\ Scans(s, p, f) /\ Len(s) \in Nat
  BY NameEndScans, LenProperties
<1> HIDE DEF f
<1>2. ASSUME f < e PROVE FALSE
  <2>1. f \in p .. e - 1 /\ f <= Len(s)
    BY <1>1, <1>2
  <2> QED BY <1>1, <2>1 DEF Scans, Symbol
<1>3. ASSUME e < f PROVE FALSE
  <2>1. e \in p .. f - 1 /\ e <= Len(s)
    BY <1>1, <1>3
  <2> QED BY <1>1, <2>1 DEF Scans, Symbol
<1>4. f = e
  <2>1. f \in Nat /\ e \in Nat /\ p \in Nat
    BY <1>1
  <2>2. ~(f < e) /\ ~(e < f)
    BY <1>2, <1>3
  <2> QED BY <2>1, <2>2
<1> QED BY <1>4 DEF f

\* Where a reference's parts are: never past the end of the word
LEMMA PartsAre ==
  ASSUME NEW w \in Seq(Bytes), NEW i \in 1 .. Len(w)
  PROVE  /\ Len(w) \in Nat /\ NameAt(w, i) \in i + 1 .. Len(w) + 1
         /\ EndAt(w, i) \in NameAt(w, i) .. Len(w) + 1
         /\ NextAt(w, i) \in EndAt(w, i) .. Len(w) + 1
         /\ \A j \in i + 1 .. NextAt(w, i) - 1 : w[j] # Dollar
         /\ LeadAt(w, i) \in Letters \/ IsSpecial(LeadAt(w, i)) => NextAt(w, i) > i + 1
<1>0. Len(w) \in Nat /\ i \in Nat
  BY LenProperties
<1>1. ASSUME Braced(w, i) PROVE i + 2 <= Len(w) + 1 /\ w[i + 1] = "{"
  <2>1. i + 1 <= Len(w) /\ w[i + 1] = "{"
    BY <1>1, NulIsNothing DEF Braced, Symbol
  <2> DEFINE l == Len(w)
  <2>2. l \in Nat /\ i \in Nat /\ i + 1 <= l
    BY <1>0, <2>1
  <2> HIDE DEF l
  <2>3. i + 2 <= l + 1
    BY <2>2
  <2> QED BY <2>1, <2>3 DEF l
<1>2. NameAt(w, i) \in i + 1 .. Len(w) + 1 /\ \A j \in i + 1 .. NameAt(w, i) - 1 : w[j] # Dollar
  <2>1. CASE Braced(w, i)
    <3>1. NameAt(w, i) = i + 2 /\ i + 2 <= Len(w) + 1 /\ w[i + 1] # Dollar
      BY <1>1, <2>1, NulIsNothing DEF NameAt
    <3>2. \A j \in i + 1 .. (i + 2) - 1 : j = i + 1
      BY <1>0
    <3> QED BY <1>0, <3>1, <3>2
  <2>2. CASE ~Braced(w, i)
    <3>1. NameAt(w, i) = i + 1
      BY <2>2 DEF NameAt
    <3> QED BY <1>0, <3>1
  <2> QED BY <2>1, <2>2
<1> DEFINE a == NameAt(w, i)
           e == EndAt(w, i)
           n == NextAt(w, i)
           c == LeadAt(w, i)
<1>3. a \in 1 .. Len(w) + 1
  BY <1>0, <1>2
<1>4. c = Symbol(w, a) /\ (e = IF IsSpecial(c) THEN a + 1 ELSE NameEnd(w, a))
      /\ (n = IF Braced(w, i) /\ Symbol(w, e) = "}" THEN e + 1 ELSE e)
  BY DEF LeadAt, EndAt, NextAt
<1> HIDE DEF a, e, n, c
<1>5. e \in a .. Len(w) + 1 /\ (\A j \in a .. e - 1 : w[j] # Dollar)
      /\ (c \in Letters \/ IsSpecial(c) => e > a)
  <2>1. CASE IsSpecial(c)
    <3>1. a <= Len(w) /\ c = w[a]
      BY <1>4, <2>1, NulIsNothing DEF Symbol
    <3>2. w[a] # Dollar /\ e = a + 1
      BY <1>4, <2>1, <3>1, NulIsNothing
    <3>3. \A j \in a .. (a + 1) - 1 : j = a
      BY <1>3
    <3> QED BY <1>0, <1>3, <3>1, <3>2, <3>3
  <2>2. CASE ~IsSpecial(c)
    <3>1. e = NameEnd(w, a)
      BY <1>4, <2>2
    <3>2. e \in a .. Len(w) + 1 /\ Scans(w, a, e)
      BY <1>3, <3>1, NameEndScans
    <3>3. \A j \in a .. e - 1 : w[j] # Dollar
      BY <3>2, NulIsNothing DEF Scans
    <3>4. c \in Letters => e # a
      <4>1. c \in Letters => NameRest(c)
        BY DEF NameRest
      <4> QED BY <1>4, <3>2, <4>1 DEF Scans
    <3> QED BY <1>0, <1>3, <2>2, <3>2, <3>3, <3>4
  <2> QED BY <2>1, <2>2
<1>6. n \in e .. Len(w) + 1 /\ \A j \in e .. n - 1 : w[j] # Dollar
  <2>1. CASE Symbol(w, e) = "}" /\ n = e + 1
    <3>1. e <= Len(w) /\ w[e] # Dollar
      BY <2>1, NulIsNothing DEF Symbol
    <3>2. \A j \in e .. (e + 1) - 1 : j = e
      BY <1>0, <1>3, <1>5
    <3>3. n \in e .. Len(w) + 1
      <4>1. n = e + 1 /\ e <= Len(w) /\ e \in Nat
        <5>1. e \in Nat
          BY <1>0, <1>3, <1>5
        <5> QED BY <2>1, <3>1, <5>1
      <4> QED BY <1>0, <4>1
    <3> QED BY <2>1, <3>1, <3>2, <3>3
  <2>2. CASE n = e
    BY <1>0, <1>3, <1>5, <2>2
  <2> QED BY <1>4, <2>1, <2>2
<1>7. ASSUME NEW j \in i + 1 .. n - 1 PROVE w[j] # Dollar
  <2>1. CASE j <= a - 1
    <3>1. j \in i + 1 .. a - 1
      BY <1>0, <1>3, <1>5, <1>6, <2>1
    <3> QED BY <1>2, <3>1 DEF a
  <2>2. CASE a - 1 < j /\ j <= e - 1
    <3>1. j \in a .. e - 1
      BY <1>0, <1>3, <1>5, <1>6, <2>2
    <3> QED BY <1>5, <3>1
  <2>3. CASE e - 1 < j
    <3>1. j \in e .. n - 1
      BY <1>0, <1>3, <1>5, <1>6, <2>3
    <3> QED BY <1>6, <3>1
  <2>4. j <= a - 1 \/ (a - 1 < j /\ j <= e - 1) \/ e - 1 < j
    BY <1>0, <1>3, <1>5, <1>6
  <2> QED BY <2>1, <2>2, <2>3, <2>4
<1>8. a \in i + 1 .. Len(w) + 1
  BY <1>2 DEF a
<1>9. c \in Letters \/ IsSpecial(c) => n > i + 1
  BY <1>0, <1>3, <1>5, <1>6, <1>8
<1> QED BY <1>0, <1>5, <1>6, <1>7, <1>8, <1>9 DEF a, e, n, c

\* The four things a `$` can be
LEMMA ReferenceCases ==
  ASSUME NEW w \in Seq(Bytes), NEW i \in 1 .. Len(w)
  PROVE  \/ /\ IsSpecial(LeadAt(w, i))
            /\ Reference(w, i) = [kind |-> "value", text |-> SpecialValue(LeadAt(w, i)), next |-> NextAt(w, i)]
         \/ /\ ~IsSpecial(LeadAt(w, i)) /\ LeadAt(w, i) \in Letters
            /\ EndAt(w, i) - NameAt(w, i) <= NameMax
            /\ Reference(w, i) = [kind |-> "value",
                                  text |-> ValueOf(SubSeq(w, NameAt(w, i), EndAt(w, i) - 1)),
                                  next |-> NextAt(w, i)]
         \/ /\ ~IsSpecial(LeadAt(w, i)) /\ LeadAt(w, i) \in Letters
            /\ ~(EndAt(w, i) - NameAt(w, i) <= NameMax)
            /\ Reference(w, i) = [kind |-> "toolong", text |-> <<>>, next |-> NextAt(w, i)]
         \/ /\ ~IsSpecial(LeadAt(w, i)) /\ LeadAt(w, i) \notin Letters
            /\ Reference(w, i) = [kind |-> "literal", text |-> <<Dollar>>, next |-> i + 1]
<1> DEFINE a == NameAt(w, i)
           e == EndAt(w, i)
           n == NextAt(w, i)
           c == LeadAt(w, i)
           r == Reference(w, i)
           v == ValueOf(SubSeq(w, a, e - 1))
           s == SpecialValue(c)
<1>1. a \in Nat /\ e \in Nat /\ NameMax \in Nat
  BY PartsAre, CommandLineAssumption
<1>2. r = CASE IsSpecial(c) -> [kind |-> "value", text |-> s, next |-> n]
             [] c \in Letters /\ e - a <= NameMax -> [kind |-> "value", text |-> v, next |-> n]
             [] c \in Letters /\ e - a > NameMax -> [kind |-> "toolong", text |-> <<>>, next |-> n]
             [] OTHER -> [kind |-> "literal", text |-> <<Dollar>>, next |-> i + 1]
  BY ReferenceParts
<1>3. IsSpecial(c) => c \notin Letters
  BY CommandLineAssumption DEF IsSpecial
<1> HIDE DEF a, e, n, c, r, v, s
<1>4. \/ IsSpecial(c) /\ r = [kind |-> "value", text |-> s, next |-> n]
      \/ ~IsSpecial(c) /\ c \in Letters /\ e - a <= NameMax /\ r = [kind |-> "value", text |-> v, next |-> n]
      \/ ~IsSpecial(c) /\ c \in Letters /\ ~(e - a <= NameMax) /\ r = [kind |-> "toolong", text |-> <<>>, next |-> n]
      \/ ~IsSpecial(c) /\ c \notin Letters /\ r = [kind |-> "literal", text |-> <<Dollar>>, next |-> i + 1]
  <2>1. CASE IsSpecial(c)
    BY <1>2, <1>3, <2>1
  <2>2. CASE ~IsSpecial(c) /\ c \in Letters /\ e - a <= NameMax
    <3>1. ~(e - a > NameMax)
      BY <1>1, <2>2
    <3> QED BY <1>2, <2>2, <3>1
  <2>3. CASE ~IsSpecial(c) /\ c \in Letters /\ ~(e - a <= NameMax)
    <3>1. e - a > NameMax
      BY <1>1, <2>3
    <3> QED BY <1>2, <2>3, <3>1
  <2>4. CASE ~IsSpecial(c) /\ c \notin Letters
    BY <1>2, <2>4
  <2> QED BY <2>1, <2>2, <2>3, <2>4
<1> QED BY <1>4 DEF a, e, n, c, r, v, s

\* A `$` moves the reading on, within the word, over nothing that is a `$` itself.
LEMMA ReferenceGoesOn ==
  ASSUME NEW w \in Seq(Bytes), NEW i \in 1 .. Len(w)
  PROVE  /\ Reference(w, i).next \in i + 1 .. Len(w) + 1
         /\ \A j \in i + 1 .. Reference(w, i).next - 1 : w[j] # Dollar
<1> DEFINE n == NextAt(w, i)
           r == Reference(w, i)
<1>1. r.next = n \/ r.next = i + 1
  <2> HIDE DEF n
  <2> QED BY ReferenceCases DEF n
<1>2. Len(w) \in Nat /\ n \in i + 1 .. Len(w) + 1 /\ \A j \in i + 1 .. n - 1 : w[j] # Dollar
  BY PartsAre
<1> HIDE DEF n, r
<1>3. CASE r.next = n
  BY <1>2, <1>3 DEF r
<1>4. CASE r.next = i + 1
  BY <1>2, <1>4 DEF r
<1> QED BY <1>1, <1>3, <1>4

\* Where a word of the line stands in the rewritten line, a `$` stands for the same.
Stands(b, p, w) == p + Len(w) <= Len(b) /\ Spells(b, p, w)

LEMMA SymbolMoves ==
  ASSUME NEW b \in Seq(Bytes), NEW w \in Texts, NEW p \in Nat \ {0}, Stands(b, p, w),
         NEW k \in 1 .. Len(w) + 1
  PROVE  /\ Symbol(b, k + (p - 1)) = Symbol(w, k)
         /\ k <= Len(w) => b[k + (p - 1)] = w[k]
<1>1. Len(w) \in Nat /\ Len(b) \in Nat
  BY TextIs, LenProperties
<1>2. k + (p - 1) = p + k - 1 /\ k + (p - 1) <= Len(b)
  BY <1>1 DEF Stands
<1>3. CASE k <= Len(w)
  <2>1. k \in 1 .. Len(w)
    BY <1>1, <1>3
  <2> QED BY <1>2, <1>3, <2>1 DEF Stands, Spells, Symbol
<1>4. CASE ~(k <= Len(w))
  <2>1. k = Len(w) + 1 /\ k + (p - 1) = p + Len(w)
    BY <1>1, <1>4
  <2> QED BY <1>2, <1>4, <2>1 DEF Stands, Spells, Symbol
<1> QED BY <1>3, <1>4

LEMMA NameEndMoves ==
  ASSUME NEW b \in Seq(Bytes), NEW w \in Texts, NEW p \in Nat \ {0}, Stands(b, p, w),
         NEW a \in 1 .. Len(w) + 1
  PROVE  NameEnd(b, a + (p - 1)) = NameEnd(w, a) + (p - 1)
<1> DEFINE e == NameEnd(w, a)
<1>1. Len(w) \in Nat /\ Len(b) \in Nat /\ w \in Seq(Bytes) /\ p + Len(w) <= Len(b)
  BY TextIs, LenProperties DEF Stands
<1>2. e \in a .. Len(w) + 1 /\ Scans(w, a, e)
  BY <1>1, NameEndScans
<1> HIDE DEF e
<1>3. e \in 1 .. Len(w) + 1 /\ e + (p - 1) \in a + (p - 1) .. Len(b) + 1 /\ a + (p - 1) \in 1 .. Len(b) + 1
  BY <1>1, <1>2
<1>4. ~NameRest(Symbol(b, e + (p - 1)))
  <2>1. Symbol(b, e + (p - 1)) = Symbol(w, e)
    BY <1>3, SymbolMoves
  <2> QED BY <1>2, <2>1 DEF Scans
<1>5. ASSUME NEW j \in a + (p - 1) .. (e + (p - 1)) - 1 PROVE NameRest(b[j])
  <2> DEFINE k == j - (p - 1)
  <2>1. k \in a .. e - 1 /\ k \in 1 .. Len(w) + 1 /\ k <= Len(w) /\ k + (p - 1) = j
    BY <1>1, <1>2, <1>3
  <2> HIDE DEF k
  <2>2. b[j] = w[k]
    BY <2>1, SymbolMoves
  <2> QED BY <1>2, <2>1, <2>2 DEF Scans
<1>6. Scans(b, a + (p - 1), e + (p - 1))
  BY <1>4, <1>5 DEF Scans
<1>7. NameEnd(b, a + (p - 1)) = e + (p - 1)
  BY <1>3, <1>6, NameEndUnique
<1> QED BY <1>7 DEF e

LEMMA PartsMove ==
  ASSUME NEW b \in Seq(Bytes), NEW w \in Texts, NEW p \in Nat \ {0}, Stands(b, p, w),
         NEW i \in 1 .. Len(w)
  PROVE  /\ NameAt(b, i + (p - 1)) = NameAt(w, i) + (p - 1)
         /\ LeadAt(b, i + (p - 1)) = LeadAt(w, i)
         /\ EndAt(b, i + (p - 1)) = EndAt(w, i) + (p - 1)
         /\ NextAt(b, i + (p - 1)) = NextAt(w, i) + (p - 1)
<1> DEFINE q == i + (p - 1)
           a == NameAt(w, i)
           e == EndAt(w, i)
           c == LeadAt(w, i)
<1>1. /\ Len(w) \in Nat /\ a \in i + 1 .. Len(w) + 1 /\ e \in a .. Len(w) + 1 /\ w \in Seq(Bytes)
  BY TextIs, PartsAre
<1>2. a \in 1 .. Len(w) + 1 /\ e \in 1 .. Len(w) + 1 /\ i + 1 \in 1 .. Len(w) + 1
  <2> HIDE DEF a, e
  <2> QED BY <1>1
<1>3. Braced(b, q) <=> Braced(w, i)
  <2>1. (i + 1) + (p - 1) = q + 1
    BY <1>1
  <2>2. Symbol(b, (i + 1) + (p - 1)) = Symbol(w, i + 1)
    BY <1>2, SymbolMoves
  <2> HIDE DEF q
  <2> QED BY <2>1, <2>2 DEF Braced
<1>4. q + 1 = (i + 1) + (p - 1) /\ q + 2 = (i + 2) + (p - 1) /\ i \in Nat
  BY <1>1
<1> HIDE DEF q
<1>5. NameAt(b, q) = a + (p - 1)
  <2>1. CASE Braced(w, i)
    BY <1>3, <1>4, <2>1 DEF NameAt
  <2>2. CASE ~Braced(w, i)
    BY <1>3, <1>4, <2>2 DEF NameAt
  <2> QED BY <2>1, <2>2
<1> HIDE DEF a, e
<1>6. LeadAt(b, q) = c
  <2>1. Symbol(b, a + (p - 1)) = Symbol(w, a)
    BY <1>2, SymbolMoves
  <2> QED BY <1>5, <2>1 DEF LeadAt, a
<1> HIDE DEF c
<1>7. EndAt(b, q) = e + (p - 1)
  <2>1. CASE IsSpecial(c)
    <3>1. e = a + 1 /\ EndAt(b, q) = (a + (p - 1)) + 1
      BY <1>5, <1>6, <2>1 DEF EndAt, e, a, c
    <3>2. (a + (p - 1)) + 1 = (a + 1) + (p - 1)
      BY <1>2
    <3> QED BY <3>1, <3>2
  <2>2. CASE ~IsSpecial(c)
    <3>1. e = NameEnd(w, a) /\ EndAt(b, q) = NameEnd(b, a + (p - 1))
      BY <1>5, <1>6, <2>2 DEF EndAt, e, a, c
    <3> QED BY <1>2, <3>1, NameEndMoves
  <2> QED BY <2>1, <2>2
<1>8. NextAt(b, q) = NextAt(w, i) + (p - 1)
  <2>1. Symbol(b, e + (p - 1)) = Symbol(w, e)
    BY <1>2, SymbolMoves
  <2>2. (e + (p - 1)) + 1 = (e + 1) + (p - 1)
    BY <1>2
  <2>3. NextAt(w, i) = IF Braced(w, i) /\ Symbol(w, e) = "}" THEN e + 1 ELSE e
    BY DEF NextAt, e
  <2>4. NextAt(b, q) = IF Braced(w, i) /\ Symbol(w, e) = "}" THEN (e + (p - 1)) + 1 ELSE e + (p - 1)
    BY <1>3, <1>7, <2>1 DEF NextAt
  <2>5. CASE Braced(w, i) /\ Symbol(w, e) = "}"
    BY <2>2, <2>3, <2>4, <2>5
  <2>6. CASE ~(Braced(w, i) /\ Symbol(w, e) = "}")
    BY <2>3, <2>4, <2>6
  <2> QED BY <2>5, <2>6
<1> QED BY <1>5, <1>6, <1>7, <1>8 DEF q, a, e, c

LEMMA PartMoves ==
  ASSUME NEW b \in Seq(Bytes), NEW w \in Texts, NEW p \in Nat \ {0}, Stands(b, p, w),
         NEW a \in 1 .. Len(w) + 1, NEW e \in a .. Len(w) + 1
  PROVE  SubSeq(b, a + (p - 1), (e + (p - 1)) - 1) = SubSeq(w, a, e - 1)
<1>1. Len(w) \in Nat /\ Len(b) \in Nat /\ w \in Seq(Bytes) /\ p + Len(w) <= Len(b)
  BY TextIs, LenProperties DEF Stands
<1>2. /\ SubSeq(w, a, e - 1) \in Seq(Bytes) /\ Len(SubSeq(w, a, e - 1)) = e - a
      /\ \A i \in 1 .. e - a : SubSeq(w, a, e - 1)[i] = w[a + i - 1]
  <2>1. a \in Nat \ {0} /\ e - 1 \in Nat /\ e - 1 <= Len(w) /\ a <= (e - 1) + 1 /\ (e - 1) - a + 1 = e - a
    BY <1>1
  <2> QED BY <1>1, <2>1, SubSeqIs
<1>3. /\ SubSeq(b, a + (p - 1), (e + (p - 1)) - 1) \in Seq(Bytes)
      /\ Len(SubSeq(b, a + (p - 1), (e + (p - 1)) - 1)) = e - a
      /\ \A i \in 1 .. e - a : SubSeq(b, a + (p - 1), (e + (p - 1)) - 1)[i] = b[(a + (p - 1)) + i - 1]
  <2> DEFINE m == a + (p - 1)
             n == (e + (p - 1)) - 1
  <2>1. m \in Nat \ {0} /\ n \in Nat /\ n <= Len(b) /\ m <= n + 1 /\ n - m + 1 = e - a
    BY <1>1
  <2> HIDE DEF m, n
  <2>2. /\ SubSeq(b, m, n) \in Seq(Bytes) /\ Len(SubSeq(b, m, n)) = e - a
        /\ \A i \in 1 .. e - a : SubSeq(b, m, n)[i] = b[m + i - 1]
    BY <1>1, <2>1, SubSeqIs
  <2> QED BY <2>2 DEF m, n
<1>4. ASSUME NEW i \in 1 .. e - a PROVE b[(a + (p - 1)) + i - 1] = w[a + i - 1]
  <2> DEFINE k == a + i - 1
  <2>1. k \in 1 .. Len(w) + 1 /\ k <= Len(w) /\ (a + (p - 1)) + i - 1 = k + (p - 1)
    BY <1>1
  <2> HIDE DEF k
  <2>2. b[k + (p - 1)] = w[k]
    BY <2>1, SymbolMoves
  <2> QED BY <2>1, <2>2 DEF k
<1> DEFINE s == SubSeq(b, a + (p - 1), (e + (p - 1)) - 1)
           t == SubSeq(w, a, e - 1)
<1>5. s \in Seq(Bytes) /\ t \in Seq(Bytes) /\ Len(s) = Len(t) /\ \A i \in 1 .. Len(s) : s[i] = t[i]
  BY <1>2, <1>3, <1>4
<1> HIDE DEF s, t
<1>6. s = t
  BY <1>5, SeqEqual
<1> QED BY <1>6 DEF s, t

LEMMA ReferenceMoves ==
  ASSUME NEW b \in Seq(Bytes), NEW w \in Texts, NEW p \in Nat \ {0}, Stands(b, p, w),
         NEW i \in 1 .. Len(w)
  PROVE  /\ Reference(b, i + (p - 1)).kind = Reference(w, i).kind
         /\ Reference(b, i + (p - 1)).text = Reference(w, i).text
         /\ Reference(b, i + (p - 1)).next = Reference(w, i).next + (p - 1)
<1> DEFINE q == i + (p - 1)
           a == NameAt(w, i)
           e == EndAt(w, i)
           n == NextAt(w, i)
           c == LeadAt(w, i)
           r == Reference(w, i)
           x == Reference(b, q)
           t == SubSeq(w, a, e - 1)
<1>1. Len(w) \in Nat /\ Len(b) \in Nat /\ w \in Seq(Bytes) /\ p + Len(w) <= Len(b)
  BY TextIs, LenProperties DEF Stands
<1>2. q \in 1 .. Len(b) /\ q + 1 = (i + 1) + (p - 1)
  BY <1>1
<1>3. NameAt(b, q) = a + (p - 1) /\ LeadAt(b, q) = c /\ EndAt(b, q) = e + (p - 1) /\ NextAt(b, q) = n + (p - 1)
  BY PartsMove
<1>4. a \in 1 .. Len(w) + 1 /\ e \in a .. Len(w) + 1
  <2>1. a \in i + 1 .. Len(w) + 1 /\ e \in a .. Len(w) + 1
    BY <1>1, PartsAre
  <2> HIDE DEF a, e
  <2> QED BY <1>1, <2>1
<1>5. SubSeq(b, a + (p - 1), (e + (p - 1)) - 1) = t
  BY <1>4, PartMoves
<1>6. (e + (p - 1)) - (a + (p - 1)) = e - a
  <2> HIDE DEF a, e
  <2> QED BY <1>1, <1>4
<1>7. \/ IsSpecial(c) /\ r = [kind |-> "value", text |-> SpecialValue(c), next |-> n]
      \/ /\ ~IsSpecial(c) /\ c \in Letters /\ e - a <= NameMax
         /\ r = [kind |-> "value", text |-> ValueOf(t), next |-> n]
      \/ /\ ~IsSpecial(c) /\ c \in Letters /\ ~(e - a <= NameMax)
         /\ r = [kind |-> "toolong", text |-> <<>>, next |-> n]
      \/ ~IsSpecial(c) /\ c \notin Letters /\ r = [kind |-> "literal", text |-> <<Dollar>>, next |-> i + 1]
  BY <1>1, ReferenceCases
<1> HIDE DEF a, e, n, c, r, t
<1>8. \/ IsSpecial(c) /\ x = [kind |-> "value", text |-> SpecialValue(c), next |-> n + (p - 1)]
      \/ /\ ~IsSpecial(c) /\ c \in Letters /\ e - a <= NameMax
         /\ x = [kind |-> "value", text |-> ValueOf(t), next |-> n + (p - 1)]
      \/ /\ ~IsSpecial(c) /\ c \in Letters /\ ~(e - a <= NameMax)
         /\ x = [kind |-> "toolong", text |-> <<>>, next |-> n + (p - 1)]
      \/ /\ ~IsSpecial(c) /\ c \notin Letters
         /\ x = [kind |-> "literal", text |-> <<Dollar>>, next |-> (i + 1) + (p - 1)]
  <2> HIDE DEF q
  <2> QED BY <1>2, <1>3, <1>5, <1>6, ReferenceCases
<1> HIDE DEF x
<1>9. x.kind = r.kind /\ x.text = r.text /\ x.next = r.next + (p - 1)
  <2>1. CASE IsSpecial(c)
    BY <1>7, <1>8, <2>1
  <2>2. CASE ~IsSpecial(c) /\ c \in Letters /\ e - a <= NameMax
    BY <1>7, <1>8, <2>2
  <2>3. CASE ~IsSpecial(c) /\ c \in Letters /\ ~(e - a <= NameMax)
    BY <1>7, <1>8, <2>3
  <2>4. CASE ~IsSpecial(c) /\ c \notin Letters
    BY <1>7, <1>8, <2>4
  <2> QED BY <2>1, <2>2, <2>3, <2>4
<1> QED BY <1>9 DEF x, r, q

-----------------------------------------------------------------------------
(* What is copied, and what of it is clean: no value brings a terminator along *)

CleanSlots == \A i \in SlotIds : slots[i].used => slots[i].value \in Clean

\* What expand_argv takes at position i of a word
Taken(w, i) ==
  IF w[i] = Dollar THEN Reference(w, i) ELSE [kind |-> "literal", text |-> <<w[i]>>, next |-> i + 1]

Possible(w, j) == w[j] = Dollar => Reference(w, j).kind # "toolong"

\* Words 1 to n are in g_expand_buf, expanded.
Copies(ws, n) ==
  \A i \in 1 .. n :
    /\ words[i] + Len(Expanded(ws[i])) <= Len(out) /\ Spells(out, words[i], Expanded(ws[i]))
    /\ \A j \in 1 .. Len(ws[i]) : Possible(ws[i], j)

\* Of word i the first k symbols have been read, t has been copied, and the rest is ahead.
Copied(ws, i, k, t) ==
  /\ i = Len(words) /\ at = argv[i] + k /\ k <= Len(ws[i])
  /\ t \o Ahead(ws[i])[k + 1] = Expanded(ws[i])
  /\ words[i] = Sizes(ws)[i - 1] + 1
  /\ words[i] + Len(t) = Len(out) + 1 /\ \A j \in 1 .. Len(t) : out[words[i] + j - 1] = t[j]
  /\ Copies(ws, i - 1) /\ \A j \in 1 .. k : Possible(ws[i], j)

Copying(ws) ==
  /\ phase = "expand" => \E i \in 1 .. Len(ws) : \E k \in Nat : \E t \in Clean : Copied(ws, i, k, t)
  /\ phase = "overflow" => ~CanExpand(ws)
  /\ Unrun => CanExpand(ws) /\ Len(words) = Len(ws) /\ Copies(ws, Len(ws))

\* The command of the line is called once: its handler does not find the words unrun.
CalledOnce == phase = "run" => loops[1].left <= (IF Len(loops) = 1 THEN 1 ELSE 0)

CopyInv ==
  /\ CleanSlots /\ CalledOnce
  /\ ~Parsed => out = <<>>
  /\ \A ws \in {Meant.words} : Copying(ws)

LEMMA CleanIs ==
  /\ <<>> \in Clean
  /\ \A t \in Clean : \A u \in Clean : t \o u \in Clean
  /\ \A c \in Symbols \ {Nul} : <<c>> \in Clean
  /\ \A t \in Clean : t \in Seq(Symbols) /\ Len(t) \in Nat
<1>1. <<>> \in Clean
  BY EmptyIs DEF Clean
<1>2. ASSUME NEW t \in Clean, NEW u \in Clean PROVE t \o u \in Clean
  <2>1. /\ t \in Seq(Symbols) /\ u \in Seq(Symbols) /\ Len(t) \in Nat /\ Len(u) \in Nat
        /\ \A k \in 1 .. Len(t) : t[k] # Nul
        /\ \A k \in 1 .. Len(u) : u[k] # Nul
    BY LenProperties DEF Clean
  <2>2. /\ t \o u \in Seq(Symbols) /\ Len(t \o u) = Len(t) + Len(u)
        /\ \A k \in 1 .. Len(t) + Len(u) : (t \o u)[k] = IF k <= Len(t) THEN t[k] ELSE u[k - Len(t)]
    BY <2>1, ConcatProperties
  <2>3. ASSUME NEW k \in 1 .. Len(t) + Len(u) PROVE (t \o u)[k] # Nul
    <3>1. CASE k <= Len(t)
      <4>1. k \in 1 .. Len(t)
        BY <2>1, <3>1
      <4> QED BY <2>1, <2>2, <3>1, <4>1
    <3>2. CASE ~(k <= Len(t))
      <4>1. k - Len(t) \in 1 .. Len(u)
        BY <2>1, <3>2
      <4> QED BY <2>1, <2>2, <3>2, <4>1
    <3> QED BY <3>1, <3>2
  <2> QED BY <2>2, <2>3 DEF Clean
<1>3. ASSUME NEW c \in Symbols \ {Nul} PROVE <<c>> \in Clean
  BY OneIs DEF Clean
<1>4. \A t \in Clean : t \in Seq(Symbols) /\ Len(t) \in Nat
  BY LenProperties DEF Clean
<1> QED BY <1>1, <1>2, <1>3, <1>4

LEMMA SpecialClean ==
  ASSUME status \in {OK, USAGE, ARG}, NEW c, IsSpecial(c)
  PROVE  SpecialValue(c) \in Clean
<1>0. ASSUME NEW n \in 0 .. 9 PROVE Numeral(n) \in Clean
  <2>1. Digits[n + 1] \in DigitSet
    BY DEF DigitSet
  <2>2. \A d \in DigitSet : d \in Symbols \ {Nul}
    BY DEF DigitSet, Digits, Symbols, Nul
  <2> QED BY <2>1, <2>2, CleanIs DEF Numeral
<1>1. CASE c = "?"
  <2>1. status \in 0 .. 9
    BY DEF OK, USAGE, ARG
  <2> QED BY <1>0, <1>1, <2>1 DEF SpecialValue
<1>2. CASE c # "?" /\ c = "#"
  <2> DEFINE n == IF Args = <<>> THEN 0 ELSE Len(Args) - 1
  <2>1. n \in 0 .. 9
    BY ArgsAre, EmptySeq
  <2>2. SpecialValue(c) = Numeral(n)
    BY <1>2 DEF SpecialValue
  <2> HIDE DEF n
  <2> QED BY <1>0, <2>1, <2>2
<1>3. CASE c # "?" /\ c # "#"
  <2> DEFINE idx == CHOOSE d \in 1 .. 10 : Digits[d] = c
  <2>1. \E d \in 1 .. 10 : Digits[d] = c
    BY <1>3 DEF IsSpecial, DigitSet
  <2>2. idx \in 1 .. 10
    BY <2>1
  <2>3. SpecialValue(c) = IF idx > Len(Args) THEN <<>> ELSE Args[idx]
    BY <1>3 DEF SpecialValue
  <2> HIDE DEF idx
  <2>4. ASSUME idx <= Len(Args) PROVE Args[idx] \in Clean
    <3>1. Args[idx] \in Seq(Keys)
      <4>1. Args \in Seq(Seq(Keys)) /\ idx \in 1 .. Len(Args)
        BY <2>2, <2>4, ArgsAre, CommandLineAssumption
      <4> QED BY <4>1, ElementOfSeq
    <3>2. Nul \notin Keys /\ Keys \subseteq Symbols
      BY CommandLineAssumption DEF Symbols, Bytes
    <3>3. Args[idx] \in Seq(Symbols)
      BY <3>1, <3>2, SeqMonotonic
    <3>4. \A k \in 1 .. Len(Args[idx]) : Args[idx][k] # Nul
      BY <3>1, <3>2, ElementOfSeq
    <3> QED BY <3>3, <3>4 DEF Clean
  <2>5. CASE idx > Len(Args)
    BY <2>3, <2>5, CleanIs
  <2>6. CASE ~(idx > Len(Args))
    <3>1. idx <= Len(Args)
      BY <2>2, <2>6, ArgsAre
    <3> QED BY <2>3, <2>4, <2>6, <3>1
  <2> QED BY <2>5, <2>6
<1> QED BY <1>1, <1>2, <1>3

LEMMA ValueClean ==
  ASSUME CleanSlots, NEW n
  PROVE  ValueOf(n) \in Clean
<1> DEFINE S == {i \in SlotIds : slots[i].used /\ slots[i].name = n}
<1>1. S \in SUBSET Nat /\ \A i \in S : i \in SlotIds /\ slots[i].used
  BY CommandLineAssumption DEF SlotIds
<1>2. FindSlot(n) = FirstOf(S)
  BY DEF FindSlot
<1> HIDE DEF S
<1>3. FindSlot(n) = NoSlot \/ (FindSlot(n) \in SlotIds /\ slots[FindSlot(n)].used)
  BY <1>1, <1>2, FirstOfIs
<1> QED BY <1>3, CleanIs DEF ValueOf, CleanSlots

LEMMA TakenIs ==
  ASSUME CleanSlots, status \in {OK, USAGE, ARG}, NEW w \in Texts, NEW i \in 1 .. Len(w)
  PROVE  /\ Taken(w, i).text \in Clean
         /\ Taken(w, i).next \in i + 1 .. Len(w) + 1
         /\ \A j \in i + 1 .. Taken(w, i).next - 1 : w[j] # Dollar
         /\ Taken(w, i).kind = "literal" => Len(Taken(w, i).text) = 1
         /\ Taken(w, i).kind = "toolong" <=> ~Possible(w, i)
<1>1. w \in Seq(Bytes) /\ Len(w) \in Nat /\ w[i] \in Symbols \ {Nul}
  BY LenProperties, ElementOfSeq DEF Texts, Symbols
<1>2. CASE w[i] = Dollar
  <2> DEFINE r == Reference(w, i)
  <2>1. r.next \in i + 1 .. Len(w) + 1 /\ \A j \in i + 1 .. r.next - 1 : w[j] # Dollar
    BY <1>1, ReferenceGoesOn
  <2>2. r.text \in Clean /\ (r.kind = "literal" => Len(r.text) = 1)
    <3> DEFINE c == LeadAt(w, i)
    <3>1. IsSpecial(c) => SpecialValue(c) \in Clean
      BY SpecialClean
    <3>2. \A n : ValueOf(n) \in Clean
      BY ValueClean
    <3>3. <<Dollar>> \in Clean /\ Len(<<Dollar>>) = 1 /\ <<>> \in Clean
      BY <1>1, <1>2, CleanIs, OneIs
    <3> HIDE DEF c, r
    <3>4. \/ r.kind = "value" /\ r.text \in Clean
          \/ r.kind = "toolong" /\ r.text = <<>>
          \/ r.kind = "literal" /\ r.text = <<Dollar>>
      BY <1>1, <3>1, <3>2, ReferenceCases DEF c, r
    <3> QED BY <3>3, <3>4
  <2>3. Taken(w, i) = r
    BY <1>2 DEF Taken
  <2>4. Possible(w, i) <=> r.kind # "toolong"
    BY <1>2 DEF Possible
  <2> HIDE DEF r
  <2> QED BY <2>1, <2>2, <2>3, <2>4
<1>3. CASE w[i] # Dollar
  <2> DEFINE c == w[i]
  <2>1. Taken(w, i) = [kind |-> "literal", text |-> <<c>>, next |-> i + 1]
    BY <1>3 DEF Taken
  <2>2. <<c>> \in Clean /\ Len(<<c>>) = 1
    BY <1>1, CleanIs, OneIs
  <2>3. Possible(w, i)
    BY <1>3 DEF Possible
  <2>4. i + 1 \in i + 1 .. Len(w) + 1 /\ \A j \in i + 1 .. (i + 1) - 1 : FALSE
    BY <1>1
  <2> DEFINE t == <<c>>
  <2>5. Taken(w, i) = [kind |-> "literal", text |-> t, next |-> i + 1] /\ t \in Clean /\ Len(t) = 1
    BY <2>1, <2>2
  <2> HIDE DEF t, c
  <2> QED BY <2>3, <2>4, <2>5
<1> QED BY <1>2, <1>3

LEMMA AheadStep ==
  ASSUME NEW w \in Texts
  PROVE  /\ Ahead(w)[Len(w) + 1] = <<>>
         /\ \A i \in 1 .. Len(w) : Ahead(w)[i] = Taken(w, i).text \o Ahead(w)[Taken(w, i).next]
<1>1. w \in Seq(Bytes) /\ Len(w) \in Nat
  BY TextIs
<1>2. Stops(w)
  BY <1>1, ReferenceGoesOn DEF Stops
<1>3. /\ Ahead(w)[Len(w) + 1] = <<>>
      /\ \A i \in 1 .. Len(w) :
           Ahead(w)[i] = IF w[i] = Dollar THEN Reference(w, i).text \o Ahead(w)[Reference(w, i).next]
                         ELSE <<w[i]>> \o Ahead(w)[i + 1]
  BY <1>1, <1>2, AheadIs
<1>4. ASSUME NEW i \in 1 .. Len(w) PROVE Ahead(w)[i] = Taken(w, i).text \o Ahead(w)[Taken(w, i).next]
  <2>1. CASE w[i] = Dollar
    BY <1>3, <2>1 DEF Taken
  <2>2. CASE w[i] # Dollar
    <3>1. Taken(w, i).text = <<w[i]>> /\ Taken(w, i).next = i + 1
      BY <2>2 DEF Taken
    <3> QED BY <1>3, <2>2, <3>1
  <2> QED BY <2>1, <2>2
<1> QED BY <1>3, <1>4

\* What a word becomes holds no terminator, from wherever one starts to read it.
LEMMA AheadClean ==
  ASSUME CleanSlots, status \in {OK, USAGE, ARG}, NEW w \in Texts
  PROVE  (\A i \in 1 .. Len(w) + 1 : Ahead(w)[i] \in Clean) /\ Expanded(w) \in Clean
<1> DEFINE n == Len(w)
           T == {m \in 0 .. n : \A i \in n + 1 - m .. n + 1 : Ahead(w)[i] \in Clean}
<1>1. n \in Nat
  BY TextIs
<1>2. 0 \in T
  <2>1. \A i \in n + 1 - 0 .. n + 1 : i = n + 1
    BY <1>1
  <2>2. Ahead(w)[n + 1] \in Clean
    BY AheadStep, CleanIs
  <2> QED BY <1>1, <2>1, <2>2
<1>3. ASSUME NEW m \in 0 .. n - 1, m \in T PROVE m + 1 \in T
  <2> DEFINE p == n - m
  <2>1. p \in 1 .. n /\ n + 1 - (m + 1) = p /\ n + 1 - m = p + 1 /\ m + 1 \in 0 .. n
    BY <1>1
  <2>2. \A i \in p + 1 .. n + 1 : Ahead(w)[i] \in Clean
    <3> HIDE DEF p, n
    <3> QED BY <1>3, <2>1
  <2> HIDE DEF p
  <2>3. Taken(w, p).next \in p + 1 .. n + 1 /\ Taken(w, p).text \in Clean
    BY <2>1, TakenIs
  <2>4. Ahead(w)[p] \in Clean
    BY <2>1, <2>2, <2>3, AheadStep, CleanIs
  <2>5. \A i \in p .. n + 1 : i = p \/ i \in p + 1 .. n + 1
    BY <1>1, <2>1
  <2> HIDE DEF n
  <2> QED BY <2>1, <2>2, <2>4, <2>5
<1>4. n \in T
  <2> HIDE DEF T, n
  <2> QED BY <1>1, <1>2, <1>3, Climb
<1> HIDE DEF n
<1>5. n + 1 - n = 1 /\ 1 \in 1 .. n + 1
  BY <1>1
<1>6. \A i \in 1 .. n + 1 : Ahead(w)[i] \in Clean
  BY <1>4, <1>5
<1> QED BY <1>5, <1>6 DEF n, Expanded

\* What the cursor reads in the line is what stands there in the word.
LEMMA HereIsTaken ==
  ASSUME buf \in Seq(Bytes), NEW w \in Texts, NEW p \in Nat \ {0}, Stands(buf, p, w),
         NEW k \in Nat, k <= Len(w), at = p + k
  PROVE  /\ Pending = Nul <=> k = Len(w)
         /\ k < Len(w) => /\ Here.kind = Taken(w, k + 1).kind /\ Here.text = Taken(w, k + 1).text
                          /\ Here.next = Taken(w, k + 1).next + (p - 1)
<1>1. Len(w) \in Nat /\ k + 1 \in 1 .. Len(w) + 1 /\ at = (k + 1) + (p - 1)
  BY TextIs
<1>2. Pending = Symbol(w, k + 1)
  <2> DEFINE m == k + 1
  <2>1. m \in 1 .. Len(w) + 1 /\ at = m + (p - 1)
    BY <1>1
  <2> HIDE DEF m
  <2>2. Symbol(buf, m + (p - 1)) = Symbol(w, m)
    BY <2>1, SymbolMoves
  <2> QED BY <2>1, <2>2 DEF Pending, m
<1>3. CASE k = Len(w)
  BY <1>1, <1>2, <1>3 DEF Symbol
<1>4. CASE k < Len(w)
  <2>1. k + 1 \in 1 .. Len(w) /\ Pending = w[k + 1] /\ k # Len(w)
    BY <1>1, <1>2, <1>4 DEF Symbol
  <2>2. Pending # Nul
    BY <2>1 DEF Texts
  <2>3. CASE w[k + 1] = Dollar
    <3>1. Here = Reference(buf, (k + 1) + (p - 1)) /\ Taken(w, k + 1) = Reference(w, k + 1)
      BY <1>1, <2>1, <2>3 DEF Here, Taken
    <3> QED BY <2>1, <2>2, <3>1, ReferenceMoves
  <2>4. CASE w[k + 1] # Dollar
    <3> DEFINE t == <<w[k + 1]>>
    <3>1. /\ Here = [kind |-> "literal", text |-> t, next |-> at + 1]
          /\ Taken(w, k + 1) = [kind |-> "literal", text |-> t, next |-> (k + 1) + 1]
      BY <2>1, <2>4 DEF Here, Taken
    <3>2. at + 1 = ((k + 1) + 1) + (p - 1)
      BY <1>1
    <3> HIDE DEF t
    <3> QED BY <2>1, <2>2, <3>1, <3>2
  <2> QED BY <2>3, <2>4
<1> QED BY <1>1, <1>3, <1>4

-----------------------------------------------------------------------------
(* expand_argv copies what the line means *)

\* While no variable and no status changes, words mean what they meant.
LEMMA ExpansionKept ==
  ASSUME UNCHANGED shellVars, NEW w
  PROVE  /\ Ahead(w)' = Ahead(w) /\ Expanded(w)' = Expanded(w)
         /\ \A j : Possible(w, j)' <=> Possible(w, j)
<1>0. slots' = slots /\ status' = status
  BY DEF shellVars
<1>1. Ahead(w)' = Ahead(w)
  BY <1>0 DEF Ahead, Reference, ValueOf, FindSlot, SpecialValue
<1>2. Expanded(w)' = Expanded(w)
  BY <1>1 DEF Expanded
<1>3. ASSUME NEW j PROVE Possible(w, j)' <=> Possible(w, j)
  <2>1. Reference(w, j)' = Reference(w, j)
    BY <1>0 DEF Reference, ValueOf, FindSlot, SpecialValue
  <2> QED BY <2>1 DEF Possible
<1> QED BY <1>1, <1>2, <1>3

LEMMA SizesKept ==
  ASSUME UNCHANGED shellVars, NEW ws
  PROVE  Sizes(ws)' = Sizes(ws) /\ (CanExpand(ws)' <=> CanExpand(ws))
<1>0. slots' = slots /\ status' = status
  BY DEF shellVars
<1>1. Sizes(ws)' = Sizes(ws)
  BY <1>0 DEF Sizes, Expanded, Ahead, Reference, ValueOf, FindSlot, SpecialValue
<1>2. Room(ws)' = Room(ws)
  BY <1>1 DEF Room
<1>3. \A w : \A j : Reference(w, j)' = Reference(w, j)
  BY <1>0 DEF Reference, ValueOf, FindSlot, SpecialValue
<1>4. CanExpand(ws)' <=> CanExpand(ws)
  BY <1>2, <1>3 DEF CanExpand
<1> QED BY <1>1, <1>4

\* The words with their terminators need no less room than the first of them.
LEMMA SizesGrow ==
  ASSUME CleanSlots, status \in {OK, USAGE, ARG}, NEW ws \in Seq(Texts)
  PROVE  /\ Len(ws) \in Nat /\ Sizes(ws)[0] = 0
         /\ \A i \in 0 .. Len(ws) : Sizes(ws)[i] \in Nat
         /\ \A i \in 1 .. Len(ws) :
              /\ Expanded(ws[i]) \in Clean
              /\ Sizes(ws)[i] = Sizes(ws)[i - 1] + Len(Expanded(ws[i])) + 1
              /\ Sizes(ws)[i] <= Room(ws)
<1> DEFINE n == Len(ws)
<1>1. n \in Nat
  BY LenProperties
<1>2. /\ Sizes(ws)[0] = 0
      /\ \A i \in 1 .. n : Sizes(ws)[i] = Sizes(ws)[i - 1] + Len(Expanded(ws[i])) + 1
  BY <1>1, SizesAre
<1>3. \A i \in 1 .. n : Expanded(ws[i]) \in Clean /\ Len(Expanded(ws[i])) \in Nat
  BY ElementOfSeq, AheadClean, CleanIs
<1> HIDE DEF n
<1>4. \A i \in 0 .. n : Sizes(ws)[i] \in Nat
  <2> DEFINE T == {i \in 0 .. n : Sizes(ws)[i] \in Nat}
  <2>1. 0 \in T
    BY <1>1, <1>2
  <2>2. ASSUME NEW k \in Nat, k < n, k \in T PROVE k + 1 \in T
    <3>1. k + 1 \in 1 .. n /\ (k + 1) - 1 = k /\ k + 1 \in 0 .. n
      BY <1>1, <2>2
    <3>2. Sizes(ws)[k + 1] = Sizes(ws)[k] + Len(Expanded(ws[k + 1])) + 1 /\ Len(Expanded(ws[k + 1])) \in Nat
      BY <1>2, <1>3, <3>1
    <3>3. Sizes(ws)[k + 1] \in Nat
      BY <2>2, <3>2
    <3> QED BY <3>1, <3>3
  <2> SUFFICES ASSUME NEW k \in 0 .. n PROVE k \in T
    OBVIOUS
  <2>3. k \in Nat /\ \A j \in 0 .. k - 1 : j \in Nat /\ j < n
    BY <1>1
  <2> HIDE DEF T
  <2> QED BY <2>1, <2>2, <2>3, Climb
<1>5. ASSUME NEW i \in 1 .. n PROVE Sizes(ws)[i] <= Sizes(ws)[n]
  <2> DEFINE m == n - i
             T == {j \in 0 .. m : Sizes(ws)[i] <= Sizes(ws)[i + j]}
  <2>1. m \in Nat /\ i + m = n /\ i \in Nat /\ i + 0 = i
    BY <1>1
  <2>2. i \in 0 .. n
    BY <1>1
  <2> HIDE DEF m
  <2>3. 0 \in T
    <3>1. Sizes(ws)[i] <= Sizes(ws)[i]
      BY <1>4, <2>2
    <3> QED BY <2>1, <3>1
  <2>4. ASSUME NEW j \in 0 .. m - 1, j \in T PROVE j + 1 \in T
    <3>1. i + (j + 1) \in 1 .. n /\ (i + (j + 1)) - 1 = i + j /\ i + j \in 0 .. n /\ j + 1 \in 0 .. m
      BY <1>1, <2>1
    <3>2. Sizes(ws)[i + (j + 1)] = Sizes(ws)[i + j] + Len(Expanded(ws[i + (j + 1)])) + 1
          /\ Len(Expanded(ws[i + (j + 1)])) \in Nat
      BY <1>2, <1>3, <3>1
    <3>3. Sizes(ws)[i] <= Sizes(ws)[i + j] /\ Sizes(ws)[i] \in Nat /\ Sizes(ws)[i + j] \in Nat
      BY <1>4, <2>2, <2>4, <3>1
    <3>4. Sizes(ws)[i] <= Sizes(ws)[i + (j + 1)]
      BY <3>2, <3>3
    <3> QED BY <3>1, <3>4
  <2>5. m \in T
    <3> HIDE DEF T
    <3> QED BY <2>1, <2>3, <2>4, Climb
  <2> QED BY <2>1, <2>5
<1> QED BY <1>1, <1>2, <1>3, <1>4, <1>5 DEF n, Room

\* What has been copied stays while the buffer only grows.
LEMMA CopiesKept ==
  ASSUME NEW ws \in Seq(Texts), NEW n \in Nat, n <= Len(ws), CleanSlots, status \in {OK, USAGE, ARG},
         UNCHANGED shellVars, Copies(ws, n),
         \A i \in 1 .. n : words'[i] = words[i] /\ words[i] \in Nat \ {0},
         Len(out) \in Nat, Len(out') \in Nat, Len(out) <= Len(out'),
         \A k \in 1 .. Len(out) : out'[k] = out[k]
  PROVE  Copies(ws, n)'
<1> SUFFICES ASSUME NEW i \in 1 .. n
             PROVE  /\ words'[i] + Len(Expanded(ws[i])') <= Len(out')
                    /\ Spells(out', words'[i], Expanded(ws[i])')
                    /\ \A j \in 1 .. Len(ws[i]) : Possible(ws[i], j)'
  BY DEF Copies
<1> DEFINE w == ws[i]
<1>1. Expanded(w)' = Expanded(w) /\ \A j : Possible(w, j)' <=> Possible(w, j)
  BY ExpansionKept
<1>2. Len(ws) \in Nat
  BY LenProperties
<1>3. w \in Texts
  <2>1. i \in 1 .. Len(ws)
    BY <1>2
  <2> QED BY <2>1, ElementOfSeq
<1>4. /\ words[i] + Len(Expanded(w)) <= Len(out) /\ Spells(out, words[i], Expanded(w))
      /\ \A j \in 1 .. Len(w) : Possible(w, j)
  BY DEF Copies
<1> HIDE DEF w
<1> DEFINE e == Expanded(w)
           p == words[i]
<1>5. Len(e) \in Nat /\ p \in Nat \ {0} /\ words'[i] = p
  BY <1>3, AheadClean, CleanIs
<1>6. p + Len(e) <= Len(out) /\ Spells(out, p, e)
  BY <1>4
<1> HIDE DEF e, p
<1>7. p + Len(e) \in 1 .. Len(out) /\ \A j \in 1 .. Len(e) : p + j - 1 \in 1 .. Len(out)
  BY <1>5, <1>6
<1>8. p + Len(e) <= Len(out') /\ Spells(out', p, e)
  <2>1. p + Len(e) <= Len(out')
    BY <1>5, <1>6
  <2>2. Spells(out', p, e)
    BY <1>6, <1>7 DEF Spells
  <2> QED BY <2>1, <2>2
<1> QED BY <1>1, <1>4, <1>5, <1>8 DEF w, e, p

-----------------------------------------------------------------------------
(* Once a handler is entered, the words are not unrun again, and values stay clean *)

LEMMA CalledIs ==
  ASSUME Shape, CalledOnce, phase = "run", Top.left > 0
  PROVE  /\ Called \in Seq([first : Nat \ {0}, left : Nat]) /\ Len(Called) = Len(loops)
         /\ Len(loops) \in Nat \ {0} /\ Called[1].left = 0
<1> DEFINE R == [first : Nat \ {0}, left : Nat]
           n == Len(loops)
           e == [first |-> Top.first, left |-> Top.left - 1]
<1>1. n \in Nat \ {0} /\ Top \in R /\ loops \in Seq(R) /\ loops[n] = Top
  BY TopIs DEF Shape, TLoops, Top
<1>2. [Top EXCEPT !.left = @ - 1] = e /\ e \in R
  BY <1>1
<1>3. Called = [loops EXCEPT ![n] = e]
  BY <1>1, <1>2 DEF Called
<1>4. 1 \in 1 .. n /\ n \in 1 .. Len(loops)
  BY <1>1
<1>5. loops[1] \in R /\ loops[1].left <= (IF n = 1 THEN 1 ELSE 0)
  BY <1>1, <1>4, ElementOfSeq DEF CalledOnce
<1>6. e.left = Top.left - 1 /\ Top.left \in Nat
  BY <1>1
<1> HIDE DEF R, e
<1>7. Called \in Seq(R) /\ Len(Called) = n /\ \A k \in 1 .. n : Called[k] = IF k = n THEN e ELSE loops[k]
  <2> HIDE DEF n
  <2> QED BY <1>1, <1>2, <1>3, <1>4, ExceptSeq DEF n
<1>8. Called[1].left = 0
  <2>1. CASE n = 1
    <3>1. Called[1] = e /\ loops[1] = Top
      BY <1>1, <1>4, <1>7, <2>1
    <3>2. Top.left <= 1
      BY <1>5, <2>1, <3>1
    <3> QED BY <1>6, <3>1, <3>2
  <2>2. CASE n # 1
    <3>1. Called[1] = loops[1] /\ loops[1].left \in Nat
      BY <1>4, <1>5, <1>7, <2>2 DEF R
    <3> QED BY <1>5, <2>2, <3>1
  <2> QED BY <2>1, <2>2
<1> QED BY <1>1, <1>7, <1>8 DEF R

LEMMA HandlersEnter ==
  ASSUME Shape, CalledOnce, Run, ~LineDone
  PROVE  phase = "run" /\ phase' = "run" /\ loops'[1].left = 0
<1>1. CASE RepeatDone
  <2>1. /\ phase = "run" /\ phase' = phase /\ Len(loops) > 1
        /\ loops' = SubSeq(loops, 1, Len(loops) - 1)
    BY <1>1 DEF RepeatDone
  <2> DEFINE R == [first : Nat \ {0}, left : Nat]
  <2>2. loops \in Seq(R) /\ loops # <<>> /\ Len(loops) \in Nat \ {0}
    BY <2>1, TopIs DEF Shape, TLoops
  <2>3. loops'[1] = loops[1]
    <3>1. 1 \in 1 .. Len(loops) - 1
      BY <2>1, <2>2
    <3> QED BY <2>1, <2>2, <3>1, FrontAt
  <2>4. loops[1].left \in Nat /\ loops[1].left <= 0
    <3>1. 1 \in 1 .. Len(loops) /\ Len(loops) # 1
      BY <2>1, <2>2
    <3>2. loops[1] \in R
      BY <2>2, <3>1, ElementOfSeq
    <3> QED BY <2>1, <3>1, <3>2 DEF CalledOnce
  <2> QED BY <2>1, <2>3, <2>4
<1>2. ASSUME NEW rc, Returns(rc), phase = "run", Top.left > 0 PROVE phase' = "run" /\ loops'[1].left = 0
  BY <1>2, CalledIs DEF Returns
<1>3. CASE RunRepeat
  <2>1. phase = "run" /\ Top.left > 0
    BY <1>3 DEF RunRepeat, Calling
  <2> DEFINE l == [first |-> Top.first + 2, left |-> CountOf(ArgWords[2])]
  <2>2. Returns(USAGE) \/ Returns(ARG) \/ (phase' = phase /\ loops' = Append(Called, l))
    BY <1>3 DEF RunRepeat
  <2> HIDE DEF l
  <2>3. CASE phase' = phase /\ loops' = Append(Called, l)
    <3>1. /\ Called \in Seq([first : Nat \ {0}, left : Nat]) /\ Len(Called) \in Nat \ {0}
          /\ Called[1].left = 0
      BY <2>1, CalledIs
    <3>2. Append(Called, l)[1] = Called[1]
      <4>1. \E S : Called \in Seq(S) /\ l \in S
        <5>1. Seq([first : Nat \ {0}, left : Nat]) \subseteq Seq([first : Nat \ {0}, left : Nat] \cup {l})
          BY SeqMonotonic
        <5> QED BY <3>1, <5>1
      <4>2. 1 \in 1 .. Len(Called)
        BY <3>1
      <4> QED BY <4>1, <4>2, AppendProperties
    <3> QED BY <2>1, <2>3, <3>1, <3>2
  <2> QED BY <1>2, <2>1, <2>2, <2>3
<1>4. CASE RunSetWords
  BY <1>2, <1>4 DEF RunSetWords, Calling, Assign
<1>5. CASE RunSetPair
  BY <1>2, <1>5 DEF RunSetPair, Calling, Assign
<1>6. CASE RunUnset \/ RunUnknown
  BY <1>2, <1>6 DEF RunUnset, RunUnknown, Calling
<1> QED BY <1>1, <1>2, <1>3, <1>4, <1>5, <1>6 DEF Run, RepeatDone, RunRepeat, RunSetWords, RunSetPair, RunUnset,
                                                  RunUnknown, Calling

\* A word that is handed on ends before the next terminator.
LEMMA WordClean ==
  ASSUME NEW s \in Seq(Symbols), NEW p \in 1 .. Len(s) + 1
  PROVE  Word(s, p) \in Clean
<1> DEFINE n == NulFrom(s, p) - 1
<1>1. Len(s) \in Nat /\ p \in Nat \ {0}
  BY LenProperties
<1>2. NulFrom(s, p) \in p .. Len(s) + 1 /\ \A j \in p .. n : s[j] # Nul
  BY NulFromIs
<1>3. n \in Nat /\ n <= Len(s) /\ p <= n + 1 /\ Word(s, p) = SubSeq(s, p, n)
  BY <1>1, <1>2 DEF Word
<1> HIDE DEF n
<1>4. /\ Word(s, p) \in Seq(Symbols) /\ Len(Word(s, p)) = n - p + 1
      /\ \A i \in 1 .. n - p + 1 : Word(s, p)[i] = s[p + i - 1]
  BY <1>1, <1>3, SubSeqIs
<1>5. ASSUME NEW i \in 1 .. Len(Word(s, p)) PROVE Word(s, p)[i] # Nul
  <2>1. i \in 1 .. n - p + 1 /\ p + i - 1 \in p .. n
    BY <1>1, <1>3, <1>4
  <2> QED BY <1>2, <1>4, <2>1
<1> QED BY <1>4, <1>5 DEF Clean

LEMMA PartClean ==
  ASSUME NEW t \in Clean, NEW m \in Nat \ {0}, m <= Len(t) + 1
  PROVE  SubSeq(t, m, Len(t)) \in Clean
<1> DEFINE n == Len(t)
<1>1. t \in Seq(Symbols) /\ n \in Nat /\ \A k \in 1 .. n : t[k] # Nul
  BY LenProperties DEF Clean
<1>2. n <= Len(t) /\ m <= n + 1
  BY <1>1
<1> HIDE DEF n
<1>3. /\ SubSeq(t, m, n) \in Seq(Symbols) /\ Len(SubSeq(t, m, n)) = n - m + 1
      /\ \A i \in 1 .. n - m + 1 : SubSeq(t, m, n)[i] = t[m + i - 1]
  BY <1>1, <1>2, SubSeqIs
<1>4. ASSUME NEW i \in 1 .. n - m + 1 PROVE SubSeq(t, m, n)[i] # Nul
  <2>1. m + i - 1 \in 1 .. n
    BY <1>1
  <2> QED BY <1>1, <1>3, <2>1
<1>5. SubSeq(t, m, n) \in Clean
  BY <1>3, <1>4 DEF Clean
<1> QED BY <1>5 DEF n

LEMMA ArgWordClean ==
  ASSUME Shape, phase = "run", NEW i \in 1 .. Len(ArgWords)
  PROVE  ArgWords[i] \in Clean
<1>1. /\ Len(ArgWords) = Len(words) - Top.first + 1 /\ ArgWords[i] = Word(out, words[Top.first + i - 1])
      /\ Top.first \in Nat \ {0} /\ Len(words) \in Nat /\ Top.first <= Len(words)
  BY ArgWordsAre, TopIs
<1> DEFINE j == Top.first + i - 1
<1>2. j \in 1 .. Len(words)
  BY <1>1
<1> HIDE DEF j
<1>3. words[j] \in 1 .. Len(out) + 1 /\ out \in Seq(Symbols)
  <2>1. words \in Seq(Nat \ {0}) /\ out \in Seq(Symbols) /\ words[j] <= Len(out) + 1
    BY <1>2 DEF Shape, TWords
  <2>2. words[j] \in Nat \ {0} /\ Len(out) \in Nat
    BY <1>2, <2>1, ElementOfSeq, LenProperties
  <2> QED BY <2>1, <2>2
<1>4. Word(out, words[j]) \in Clean
  BY <1>3, WordClean
<1> QED BY <1>1, <1>4 DEF j

LEMMA AssignClean ==
  ASSUME TSlots, CleanSlots, NEW n, NEW v \in Clean, Assign(n, v)
  PROVE  CleanSlots'
<1> DEFINE i == SlotFor(n, v)
<1>1. CASE i = NoSlot
  BY <1>1 DEF Assign, CleanSlots
<1>2. CASE i # NoSlot
  <2>1. slots' = [slots EXCEPT ![i] = Variable(n, v)]
    BY <1>2 DEF Assign
  <2> HIDE DEF i
  <2>2. Variable(n, v).value = v
    BY DEF Variable
  <2> QED BY <2>1, <2>2 DEF TSlots, CleanSlots
<1> QED BY <1>1, <1>2

LEMMA HandlersClean ==
  ASSUME Shape, CleanSlots, Run
  PROVE  CleanSlots'
<1>0. TSlots
  BY DEF Shape
<1>1. CASE slots' = slots
  BY <1>1 DEF CleanSlots
<1>2. CASE RunSetWords /\ slots' # slots
  <2>1. phase = "run" /\ Len(ArgWords) # 2 /\ Len(ArgWords) # 1 /\ Assign(ArgWords[2], ArgWords[3])
    BY <1>2 DEF RunSetWords, Calling
  <2>2. 3 \in 1 .. Len(ArgWords)
    <3> DEFINE n == Len(ArgWords)
    <3>1. n \in Nat \ {0} /\ n # 2 /\ n # 1
      BY <2>1, ArgWordsAre
    <3> HIDE DEF n
    <3>2. 3 \in 1 .. n
      BY <3>1
    <3> QED BY <3>2 DEF n
  <2> QED BY <1>0, <2>1, <2>2, ArgWordClean, AssignClean
<1>3. CASE RunSetPair /\ slots' # slots
  <2> DEFINE word == ArgWords[2]
             S == {k \in 1 .. Len(word) : word[k] = "="}
             eq == FirstOf(S)
  <2>1. /\ phase = "run" /\ Len(ArgWords) = 2 /\ eq # NoSlot
        /\ Assign(SubSeq(word, 1, eq - 1), SubSeq(word, eq + 1, Len(word)))
    BY <1>3 DEF RunSetPair, Calling
  <2>2. word \in Clean
    <3>1. 2 \in 1 .. Len(ArgWords)
      BY <2>1
    <3> QED BY <2>1, <3>1, ArgWordClean
  <2>3. Len(word) \in Nat
    BY <2>2, CleanIs
  <2> HIDE DEF word
  <2>4. eq \in 1 .. Len(word)
    <3>1. S \in SUBSET Nat /\ S \subseteq 1 .. Len(word)
      BY <2>3
    <3> HIDE DEF S
    <3> QED BY <2>1, <3>1, FirstOfIs
  <2> HIDE DEF eq
  <2>5. eq + 1 \in Nat \ {0} /\ eq + 1 <= Len(word) + 1
    BY <2>3, <2>4
  <2>6. SubSeq(word, eq + 1, Len(word)) \in Clean
    BY <2>2, <2>5, PartClean
  <2> QED BY <1>0, <2>1, <2>6, AssignClean
<1>4. CASE RunUnset /\ slots' # slots
  <2>1. PICK names : slots' = UnsetAll(names)
    BY <1>4 DEF RunUnset
  <2>2. \A i \in SlotIds : slots'[i] \in {slots[i], [slots[i] EXCEPT !.used = FALSE]}
    BY <1>0, <2>1, UnsetSlots
  <2>3. ASSUME NEW i \in SlotIds, slots'[i].used PROVE slots'[i].value \in Clean
    BY <1>0, <2>2, <2>3 DEF CleanSlots, TSlots
  <2> QED BY <2>3 DEF CleanSlots
<1>5. CASE RunRepeat \/ RunUnknown \/ RepeatDone \/ LineDone
  BY <1>1, <1>5 DEF RunRepeat, RunUnknown, RepeatDone, LineDone, shellVars
<1> QED BY <1>1, <1>2, <1>3, <1>4, <1>5 DEF Run

-----------------------------------------------------------------------------
(* A step of expand_argv *)

\* What is known while a word is being copied: all of it stands in the line.
LEMMA CopyPoint ==
  ASSUME Shape, ReadInv, CleanSlots, phase = "expand", NEW ws, ws = Meant.words,
         NEW i \in 1 .. Len(ws), NEW k \in Nat, NEW t \in Clean, Copied(ws, i, k, t)
  PROVE  /\ ws \in Seq(Texts) /\ Len(ws) \in Nat /\ Len(argv) = Len(ws) /\ ws[i] \in Texts
         /\ Len(ws[i]) \in Nat /\ status \in {OK, USAGE, ARG}
         /\ argv[i] \in Nat \ {0} /\ Len(words) = i
         /\ Pending = Nul <=> k = Len(ws[i])
         /\ k < Len(ws[i]) => /\ Here.kind = Taken(ws[i], k + 1).kind
                              /\ Here.text = Taken(ws[i], k + 1).text
                              /\ Here.next = Taken(ws[i], k + 1).next + (argv[i] - 1)
<1>1. ws \in Seq(Texts) /\ Len(argv) = Len(ws) /\ Laid(buf, Len(buf) + 1, argv, ws)
  BY DEF ReadInv, Parsed
<1>2. Len(ws) \in Nat /\ ws[i] \in Texts
  BY <1>1, LenProperties, ElementOfSeq
<1>3. buf \in Seq(Bytes) /\ Len(buf) \in Nat /\ argv \in Seq(Nat \ {0}) /\ status \in {OK, USAGE, ARG}
  BY LenProperties DEF Shape, TLine, TWords
<1>4. argv[i] \in Nat \ {0}
  BY <1>1, <1>3, ElementOfSeq
<1> DEFINE w == ws[i]
           p == argv[i]
<1>5. Len(w) \in Nat
  BY <1>2, TextIs
<1>6. p + Len(w) < Len(buf) + 1 /\ Spells(buf, p, w)
  BY <1>1 DEF Laid
<1>7. at = p + k /\ k <= Len(w) /\ i = Len(words)
  BY DEF Copied
<1>8. w \in Texts /\ p \in Nat \ {0}
  BY <1>2, <1>4
<1> HIDE DEF w, p
<1>9. Stands(buf, p, w)
  <2>1. p + Len(w) <= Len(buf)
    BY <1>3, <1>5, <1>6, <1>8
  <2> QED BY <1>6, <2>1 DEF Stands
<1>10. /\ Pending = Nul <=> k = Len(w)
       /\ k < Len(w) => /\ Here.kind = Taken(w, k + 1).kind /\ Here.text = Taken(w, k + 1).text
                        /\ Here.next = Taken(w, k + 1).next + (p - 1)
  BY <1>3, <1>7, <1>8, <1>9, HereIsTaken
<1> QED BY <1>1, <1>2, <1>3, <1>4, <1>5, <1>7, <1>10 DEF w, p

\* The words before the one that is copied stay as they are.
LEMMA EarlierKept ==
  ASSUME Shape, Shape', CleanSlots, NEW ws \in Seq(Texts), NEW i \in 1 .. Len(ws), i = Len(words),
         Copies(ws, i - 1), UNCHANGED shellVars, \A j \in 1 .. i : words'[j] = words[j],
         NEW u \in Seq(Symbols), out' = out \o u
  PROVE  /\ Copies(ws, i - 1)' /\ Len(out') = Len(out) + Len(u) /\ Len(out) \in Nat /\ Len(u) \in Nat
         /\ \A j \in 1 .. Len(out) : out'[j] = out[j]
         /\ \A j \in 1 .. Len(u) : out'[Len(out) + j] = u[j]
         /\ words[i] \in Nat \ {0}
<1>1. out \in Seq(Symbols) /\ Len(out) \in Nat /\ Len(u) \in Nat /\ status \in {OK, USAGE, ARG}
      /\ words \in Seq(Nat \ {0})
  BY LenProperties DEF Shape, TLine, TWords
<1>2. /\ Len(out') = Len(out) + Len(u)
      /\ \A j \in 1 .. Len(out) + Len(u) : out'[j] = IF j <= Len(out) THEN out[j] ELSE u[j - Len(out)]
  BY <1>1, ConcatProperties
<1>3. \A j \in 1 .. Len(out) : out'[j] = out[j]
  BY <1>1, <1>2
<1>4. \A j \in 1 .. Len(u) : out'[Len(out) + j] = u[j]
  <2> TAKE j \in 1 .. Len(u)
  <2> DEFINE m == Len(out) + j
  <2>1. m \in 1 .. Len(out) + Len(u) /\ ~(m <= Len(out)) /\ m - Len(out) = j
    BY <1>1
  <2> HIDE DEF m
  <2>2. out'[m] = u[j]
    BY <1>2, <2>1
  <2> QED BY <2>2 DEF m
<1>5. \A j \in 1 .. i : words[j] \in Nat \ {0}
  BY <1>1, ElementOfSeq
<1>6. i - 1 \in Nat /\ i - 1 <= Len(ws) /\ i \in 1 .. i /\ \A j \in 1 .. i - 1 : j \in 1 .. i
  BY LenProperties
<1>7. Copies(ws, i - 1)'
  <2> DEFINE n == i - 1
  <2>1. n \in Nat /\ n <= Len(ws) /\ Copies(ws, n)
        /\ \A j \in 1 .. n : words'[j] = words[j] /\ words[j] \in Nat \ {0}
    BY <1>5, <1>6
  <2>2. Len(out') \in Nat /\ Len(out) <= Len(out')
    BY <1>1, <1>2
  <2> HIDE DEF n
  <2>3. Copies(ws, n)'
    BY <1>1, <1>3, <2>1, <2>2, CopiesKept
  <2> QED BY <2>3 DEF n
<1> QED BY <1>1, <1>2, <1>3, <1>4, <1>5, <1>6, <1>7

LEMMA NextCopies ==
  ASSUME Shape, Shape', ReadInv, CleanSlots, ExpandNext, Here.kind # "toolong" /\ Fits(Here),
         NEW ws, ws = Meant.words,
         NEW i \in 1 .. Len(ws), NEW k \in Nat, NEW t \in Clean, Copied(ws, i, k, t)
  PROVE  \E k2 \in Nat : \E t2 \in Clean : Copied(ws, i, k2, t2)'
<1>1. /\ phase = "expand" /\ Pending # Nul /\ out' = out \o Here.text /\ at' = Here.next
      /\ UNCHANGED <<argv, words>> /\ UNCHANGED shellVars
  BY DEF ExpandNext, Expanding, parseVars
<1> DEFINE w == ws[i]
           r == Taken(w, k + 1)
           e == r.next
           x == r.text
           k2 == e - 1
           t2 == t \o x
<1>2. /\ ws \in Seq(Texts) /\ Len(ws) \in Nat /\ w \in Texts /\ Len(w) \in Nat
      /\ status \in {OK, USAGE, ARG} /\ argv[i] \in Nat \ {0} /\ Len(words) = i
      /\ Pending = Nul <=> k = Len(w)
  BY <1>1, CopyPoint
<1>3. /\ i = Len(words) /\ at = argv[i] + k /\ k <= Len(w)
      /\ t \o Ahead(w)[k + 1] = Expanded(w)
      /\ words[i] = Sizes(ws)[i - 1] + 1
      /\ words[i] + Len(t) = Len(out) + 1 /\ \A j \in 1 .. Len(t) : out[words[i] + j - 1] = t[j]
      /\ Copies(ws, i - 1) /\ \A j \in 1 .. k : Possible(w, j)
  BY DEF Copied
<1>4. k < Len(w) /\ k + 1 \in 1 .. Len(w)
  BY <1>1, <1>2, <1>3
<1>5. Here.kind = r.kind /\ Here.text = x /\ Here.next = e + (argv[i] - 1)
  BY <1>1, <1>4, CopyPoint
<1>6. /\ x \in Clean /\ e \in k + 2 .. Len(w) + 1
      /\ \A j \in k + 2 .. e - 1 : w[j] # Dollar
      /\ Possible(w, k + 1)
  <2> DEFINE m == k + 1
  <2>1. m \in 1 .. Len(w)
    BY <1>4
  <2>2. r = Taken(w, m) /\ m + 1 = k + 2
    OBVIOUS
  <2> HIDE DEF m, w, r
  <2>3. /\ r.text \in Clean /\ r.next \in m + 1 .. Len(w) + 1
        /\ \A j \in m + 1 .. r.next - 1 : w[j] # Dollar /\ (r.kind = "toolong" <=> ~Possible(w, m))
    BY <1>2, <2>1, <2>2, TakenIs
  <2>4. r.kind = "toolong" <=> ~Possible(w, m)
    BY <1>2, <2>1, <2>2, TakenIs
  <2> QED BY <1>5, <2>2, <2>3, <2>4 DEF m
<1>7. Ahead(w)[k + 1] = x \o Ahead(w)[e] /\ Ahead(w)[e] \in Clean
  <2>1. Ahead(w)[k + 1] = x \o Ahead(w)[e]
    BY <1>2, <1>4, AheadStep
  <2>2. e \in 1 .. Len(w) + 1
    BY <1>6
  <2> HIDE DEF w, e
  <2> QED BY <1>2, <2>1, <2>2, AheadClean
<1>8. t \in Seq(Symbols) /\ Len(t) \in Nat /\ x \in Seq(Symbols) /\ Len(x) \in Nat /\ t2 \in Clean
  BY <1>6, CleanIs
<1>9. t2 \o Ahead(w)[k2 + 1] = Expanded(w)
  <2>1. k2 + 1 = e
    BY <1>6
  <2>2. Ahead(w)[e] \in Seq(Symbols)
    BY <1>7, CleanIs
  <2> DEFINE a == Ahead(w)[e]
  <2>3. (t \o x) \o a = t \o (x \o a)
    <3>1. t \in Seq(Symbols) /\ x \in Seq(Symbols) /\ a \in Seq(Symbols)
      BY <1>8, <2>2
    <3> HIDE DEF x, a
    <3> QED BY <3>1, ConcatAssociative
  <2>4. t \o (x \o a) = Expanded(w)
    BY <1>3, <1>7
  <2> HIDE DEF w, e, x, k2
  <2> QED BY <2>1, <2>3, <2>4
<1>10. /\ Copies(ws, i - 1)' /\ Len(out') = Len(out) + Len(x) /\ Len(out) \in Nat
       /\ \A j \in 1 .. Len(out) : out'[j] = out[j]
       /\ \A j \in 1 .. Len(x) : out'[Len(out) + j] = x[j]
       /\ words[i] \in Nat \ {0}
  <2>1. out' = out \o x
    BY <1>1, <1>5
  <2> HIDE DEF x
  <2> QED BY <1>1, <1>2, <1>3, <1>8, <2>1, EarlierKept
<1>11. /\ Len(t2) = Len(t) + Len(x)
       /\ \A j \in 1 .. Len(t) + Len(x) : t2[j] = IF j <= Len(t) THEN t[j] ELSE x[j - Len(t)]
  <2> HIDE DEF x
  <2> QED BY <1>8, ConcatProperties
<1> DEFINE b == words[i]
<1>12. b + Len(t2) = Len(out') + 1
  <2>1. b + Len(t) = Len(out) + 1 /\ b \in Nat
    BY <1>3, <1>10
  <2>2. Len(t) \in Nat /\ Len(x) \in Nat /\ Len(out) \in Nat /\ Len(out') = Len(out) + Len(x)
    BY <1>8, <1>10
  <2>3. Len(t2) = Len(t) + Len(x)
    BY <1>11
  <2> HIDE DEF b, x, t2
  <2> QED BY <2>1, <2>2, <2>3
<1>13. \A j \in 1 .. Len(t2) : out'[b + j - 1] = t2[j]
  <2>0. b + Len(t) = Len(out) + 1 /\ b \in Nat \ {0} /\ \A j \in 1 .. Len(t) : out[b + j - 1] = t[j]
    BY <1>3, <1>10
  <2>3. Len(t) \in Nat /\ Len(x) \in Nat /\ Len(out) \in Nat /\ Len(t2) = Len(t) + Len(x)
    BY <1>8, <1>10, <1>11
  <2> HIDE DEF b, x, t2
  <2> TAKE j \in 1 .. Len(t2)
  <2>1. CASE j <= Len(t)
    <3>1. j \in 1 .. Len(t) /\ b + j - 1 \in 1 .. Len(out) /\ j \in 1 .. Len(t) + Len(x)
      BY <2>3, <2>0, <2>1
    <3> QED BY <1>10, <1>11, <2>0, <2>1, <3>1
  <2>2. CASE ~(j <= Len(t))
    <3> DEFINE m == j - Len(t)
    <3>1. m \in 1 .. Len(x) /\ Len(out) + m = b + j - 1 /\ j \in 1 .. Len(t) + Len(x)
      <4>1. b + Len(t) = Len(out) + 1 /\ b \in Nat \ {0}
        BY <2>0
      <4>2. j \in Nat \ {0} /\ j <= Len(t) + Len(x)
        BY <2>3
      <4>3. m \in 1 .. Len(x)
        BY <2>3, <2>2, <4>2
      <4> QED BY <2>3, <2>2, <4>1, <4>2, <4>3
    <3>2. out'[Len(out) + m] = x[m]
      BY <1>10, <3>1
    <3>3. t2[j] = x[m]
      BY <1>11, <2>2, <3>1
    <3> QED BY <3>1, <3>2, <3>3
  <2> QED BY <2>1, <2>2
<1>14. /\ Ahead(w)' = Ahead(w) /\ Expanded(w)' = Expanded(w)
       /\ \A j : Possible(w, j)' <=> Possible(w, j)
  BY <1>1, ExpansionKept
<1>15. Sizes(ws)' = Sizes(ws)
  BY <1>1, SizesKept
<1>16. \A j \in 1 .. k2 : Possible(w, j)
  <2> HIDE DEF w, e
  <2> TAKE j \in 1 .. k2
  <2>1. j \in 1 .. k \/ j = k + 1 \/ j \in k + 2 .. e - 1
    BY <1>2, <1>6
  <2> QED BY <1>3, <1>6, <2>1 DEF Possible
<1>17. k2 \in Nat /\ at' = argv[i] + k2 /\ k2 <= Len(w)
  <2>1. at' = e + (argv[i] - 1) /\ e \in Nat \ {0} /\ e <= Len(w) + 1 /\ argv[i] \in Nat
    BY <1>1, <1>2, <1>5, <1>6
  <2> HIDE DEF e, w
  <2> QED BY <1>2, <2>1
<1>18. k2 \in Nat /\ t2 \in Clean
  BY <1>8, <1>17
<1>19. ASSUME NEW m \in Nat, NEW u \in Clean, m = k2, u = t2 PROVE Copied(ws, i, m, u)'
  <2> SUFFICES /\ i = Len(words') /\ at' = argv'[i] + m /\ m <= Len(w)
               /\ u \o Ahead(w)'[m + 1] = Expanded(w)'
               /\ words'[i] = Sizes(ws)'[i - 1] + 1
               /\ words'[i] + Len(u) = Len(out') + 1 /\ \A j \in 1 .. Len(u) : out'[words'[i] + j - 1] = u[j]
               /\ Copies(ws, i - 1)' /\ \A j \in 1 .. m : Possible(w, j)'
    BY DEF Copied
  <2>1. argv' = argv /\ words' = words
    BY <1>1
  <2>2. u \o Ahead(w)'[m + 1] = Expanded(w)'
    <3> HIDE DEF w, k2, t2
    <3> QED BY <1>9, <1>14, <1>19
  <2>3. \A j \in 1 .. m : Possible(w, j)'
    <3> HIDE DEF w, k2, t2
    <3> QED BY <1>14, <1>16, <1>19
  <2> HIDE DEF w, k2, t2, e, x, r
  <2> QED BY <1>3, <1>10, <1>12, <1>13, <1>15, <1>17, <1>19, <2>1, <2>2, <2>3
<1> HIDE DEF k2, t2
<1> QED BY <1>18, <1>19

\* How full the buffer is: as full as the words copied so far make it.
LEMMA FilledSoFar ==
  ASSUME Shape, CleanSlots, NEW ws \in Seq(Texts), NEW i \in 1 .. Len(ws), NEW k \in Nat,
         NEW t \in Clean, Copied(ws, i, k, t)
  PROVE  /\ Len(out) = Sizes(ws)[i - 1] + Len(t) /\ Len(t) \in Nat /\ Len(out) \in Nat
         /\ Sizes(ws)[i] = Sizes(ws)[i - 1] + Len(Expanded(ws[i])) + 1
         /\ Len(Expanded(ws[i])) \in Nat /\ Sizes(ws)[i - 1] \in Nat
         /\ Sizes(ws)[i] <= Room(ws) /\ Room(ws) \in Nat
<1>1. status \in {OK, USAGE, ARG} /\ Len(out) \in Nat
  BY LenProperties DEF Shape, TLine, TWords
<1>2. /\ Len(ws) \in Nat /\ Expanded(ws[i]) \in Clean
      /\ \A j \in 0 .. Len(ws) : Sizes(ws)[j] \in Nat
      /\ Sizes(ws)[i] = Sizes(ws)[i - 1] + Len(Expanded(ws[i])) + 1 /\ Sizes(ws)[i] <= Room(ws)
  BY <1>1, SizesGrow
<1>3. i - 1 \in 0 .. Len(ws) /\ Len(ws) \in 0 .. Len(ws)
  BY <1>2
<1>4. Sizes(ws)[i - 1] \in Nat /\ Room(ws) \in Nat
  BY <1>2, <1>3 DEF Room
<1>5. Len(t) \in Nat /\ Len(Expanded(ws[i])) \in Nat
  BY <1>2, CleanIs
<1>6. Len(out) = Sizes(ws)[i - 1] + Len(t)
  <2>1. words[i] = Sizes(ws)[i - 1] + 1 /\ words[i] + Len(t) = Len(out) + 1
    BY DEF Copied
  <2> QED BY <1>1, <1>4, <1>5, <2>1
<1> QED BY <1>1, <1>2, <1>4, <1>5, <1>6

\* What does not fit is more than there is room for, whatever comes after it.
LEMMA NextOverflows ==
  ASSUME Shape, ReadInv, CleanSlots, ExpandNext, ~(Here.kind # "toolong" /\ Fits(Here)),
         NEW ws, ws = Meant.words,
         NEW i \in 1 .. Len(ws), NEW k \in Nat, NEW t \in Clean, Copied(ws, i, k, t)
  PROVE  ~CanExpand(ws)
<1>1. phase = "expand" /\ Pending # Nul
  BY DEF ExpandNext, Expanding
<1> DEFINE w == ws[i]
           r == Taken(w, k + 1)
           x == r.text
<1>2. /\ ws \in Seq(Texts) /\ Len(ws) \in Nat /\ w \in Texts /\ Len(w) \in Nat
      /\ status \in {OK, USAGE, ARG} /\ (Pending = Nul <=> k = Len(w))
  BY <1>1, CopyPoint
<1>3. k <= Len(w) /\ t \o Ahead(w)[k + 1] = Expanded(w)
  BY DEF Copied
<1>4. k < Len(w) /\ k + 1 \in 1 .. Len(w)
  BY <1>1, <1>2, <1>3
<1>5. Here.kind = r.kind /\ Here.text = x
  BY <1>1, <1>4, CopyPoint
<1>6. /\ x \in Clean /\ (r.kind = "literal" => Len(x) = 1) /\ (r.kind = "toolong" <=> ~Possible(w, k + 1))
      /\ r.next \in 1 .. Len(w) + 1
  <2> DEFINE m == k + 1
  <2>1. m \in 1 .. Len(w) /\ r = Taken(w, m)
    BY <1>4
  <2> HIDE DEF m, w, r
  <2>2. r.next \in m + 1 .. Len(w) + 1 /\ r.text \in Clean /\ (r.kind = "literal" => Len(r.text) = 1)
    BY <1>2, <2>1, TakenIs
  <2>3. r.kind = "toolong" <=> ~Possible(w, m)
    BY <1>2, <2>1, TakenIs
  <2>4. r.next \in 1 .. Len(w) + 1
    BY <1>2, <2>1, <2>2
  <2> QED BY <2>2, <2>3, <2>4 DEF m
<1>7. CASE r.kind = "toolong"
  <2>1. w[k + 1] = Dollar /\ Reference(w, k + 1).kind = "toolong"
    BY <1>6, <1>7 DEF Possible
  <2> QED BY <1>4, <2>1 DEF CanExpand
<1>8. CASE r.kind # "toolong"
  <2>1. ~Fits(Here)
    BY <1>5, <1>8
  <2>2. Ahead(w)[k + 1] = x \o Ahead(w)[r.next] /\ Ahead(w)[r.next] \in Clean
    <3>1. Ahead(w)[k + 1] = x \o Ahead(w)[r.next]
      BY <1>2, <1>4, AheadStep
    <3> HIDE DEF w, r
    <3> QED BY <1>2, <1>6, <3>1, AheadClean
  <2> DEFINE a == Ahead(w)[r.next]
  <2>3. Len(Expanded(w)) = Len(t) + (Len(x) + Len(a)) /\ Len(t) \in Nat /\ Len(x) \in Nat /\ Len(a) \in Nat
    <3>1. t \in Seq(Symbols) /\ x \in Seq(Symbols) /\ a \in Seq(Symbols)
          /\ Len(t) \in Nat /\ Len(x) \in Nat /\ Len(a) \in Nat
      BY <1>6, <2>2, CleanIs
    <3>2. Expanded(w) = t \o (x \o a)
      BY <1>3, <2>2
    <3> HIDE DEF x, a, w
    <3>3. x \o a \in Seq(Symbols) /\ Len(x \o a) = Len(x) + Len(a)
      BY <3>1, ConcatProperties
    <3>4. Len(t \o (x \o a)) = Len(t) + Len(x \o a)
      BY <3>1, <3>3, ConcatProperties
    <3> QED BY <3>1, <3>2, <3>3, <3>4
  <2>4. /\ Len(out) = Sizes(ws)[i - 1] + Len(t) /\ Len(out) \in Nat
        /\ Sizes(ws)[i] = Sizes(ws)[i - 1] + Len(Expanded(w)) + 1
        /\ Sizes(ws)[i - 1] \in Nat /\ Sizes(ws)[i] <= Room(ws) /\ Room(ws) \in Nat
    BY <1>2, FilledSoFar
  <2>5. ExpandSize \in Nat
    BY CommandLineAssumption
  <2>6. IF r.kind = "literal" THEN ~(Len(out) < ExpandSize - 1) /\ Len(x) = 1
        ELSE ~(Len(out) + Len(x) < ExpandSize)
    BY <1>5, <1>6, <2>1 DEF Fits
  <2>7. Len(out) + Len(x) >= ExpandSize
    <3> DEFINE n == Len(x)
    <3>1. n \in Nat
      BY <2>3
    <3>2. IF r.kind = "literal" THEN ~(Len(out) < ExpandSize - 1) /\ n = 1
          ELSE ~(Len(out) + n < ExpandSize)
      BY <2>6
    <3> HIDE DEF n, r
    <3>3. Len(out) + n >= ExpandSize
      BY <2>4, <2>5, <3>1, <3>2
    <3> QED BY <3>3 DEF n
  <2>8. ~(Room(ws) <= ExpandSize)
    <3> DEFINE nx == Len(x)
               na == Len(a)
               ne == Len(Expanded(w))
               z == Sizes(ws)[i - 1]
               y == Sizes(ws)[i]
    <3>1. nx \in Nat /\ na \in Nat /\ ne = Len(t) + (nx + na) /\ Len(t) \in Nat /\ Len(out) + nx >= ExpandSize
      BY <2>3, <2>7
    <3>2. Len(out) = z + Len(t) /\ y = z + ne + 1 /\ z \in Nat /\ y <= Room(ws) /\ Room(ws) \in Nat
          /\ Len(out) \in Nat
      BY <2>4
    <3> HIDE DEF nx, na, ne, z, y
    <3> QED BY <2>5, <3>1, <3>2
  <2> QED BY <2>8 DEF CanExpand
<1> QED BY <1>7, <1>8

\* The last symbol of a word has been read: all of it has been copied.
LEMMA WordIsCopied ==
  ASSUME Shape, ReadInv, CleanSlots, phase = "expand", Pending = Nul, NEW ws, ws = Meant.words,
         NEW i \in 1 .. Len(ws), NEW k \in Nat, NEW t \in Clean, Copied(ws, i, k, t)
  PROVE  t = Expanded(ws[i]) /\ k = Len(ws[i]) /\ Sizes(ws)[i] = Len(out) + 1
<1> DEFINE w == ws[i]
<1>1. ws \in Seq(Texts) /\ w \in Texts /\ k = Len(w)
  BY CopyPoint
<1>2. t \o Ahead(w)[k + 1] = Expanded(w) /\ Ahead(w)[k + 1] = <<>>
  BY <1>1, AheadStep DEF Copied
<1>3. t \in Seq(Symbols)
  BY CleanIs
<1> HIDE DEF w
<1>4. t = Expanded(w)
  BY <1>2, <1>3
<1>5. /\ Len(out) = Sizes(ws)[i - 1] + Len(t) /\ Len(t) \in Nat
      /\ Sizes(ws)[i] = Sizes(ws)[i - 1] + Len(Expanded(w)) + 1 /\ Sizes(ws)[i - 1] \in Nat
  BY <1>1, FilledSoFar DEF w
<1>6. Sizes(ws)[i] = Len(out) + 1
  <2> DEFINE n == Len(t)
             z == Sizes(ws)[i - 1]
  <2>1. Len(out) = z + n /\ n \in Nat /\ Sizes(ws)[i] = z + n + 1 /\ z \in Nat
    BY <1>4, <1>5
  <2> HIDE DEF n, z
  <2> QED BY <2>1
<1> QED BY <1>1, <1>4, <1>6 DEF w

\* With its terminator the word is in the buffer like those before it.
LEMMA OneMoreWord ==
  ASSUME Shape, Shape', ReadInv, CleanSlots, phase = "expand", Pending = Nul, NEW ws, ws = Meant.words,
         NEW i \in 1 .. Len(ws), NEW k \in Nat, NEW t \in Clean, Copied(ws, i, k, t),
         out' = Append(out, Nul), UNCHANGED shellVars, \A j \in 1 .. i : words'[j] = words[j]
  PROVE  Copies(ws, i)' /\ Len(out') = Len(out) + 1 /\ Len(out) \in Nat
<1> DEFINE w == ws[i]
           b == words[i]
<1>1. ws \in Seq(Texts) /\ w \in Texts /\ Len(words) = i /\ out \in Seq(Symbols)
  BY CopyPoint DEF Shape, TWords
<1>2. t = Expanded(w) /\ k = Len(w)
  BY WordIsCopied
<1>3. /\ b + Len(t) = Len(out) + 1 /\ \A j \in 1 .. Len(t) : out[b + j - 1] = t[j]
      /\ Copies(ws, i - 1) /\ \A j \in 1 .. k : Possible(w, j)
  BY DEF Copied
<1>4. <<Nul>> \in Seq(Symbols) /\ Len(<<Nul>>) = 1 /\ <<Nul>>[1] = Nul /\ out' = out \o <<Nul>>
  BY <1>1, NulIsByte DEF Symbols
<1>5. /\ Copies(ws, i - 1)' /\ Len(out') = Len(out) + 1 /\ Len(out) \in Nat
      /\ \A j \in 1 .. Len(out) : out'[j] = out[j]
      /\ out'[Len(out) + 1] = Nul /\ b \in Nat \ {0}
  <2> DEFINE u == <<Nul>>
  <2>1. u \in Seq(Symbols) /\ Len(u) = 1 /\ u[1] = Nul /\ out' = out \o u /\ 1 \in 1 .. Len(u)
    BY <1>4
  <2> HIDE DEF u
  <2>2. /\ Copies(ws, i - 1)' /\ Len(out') = Len(out) + Len(u) /\ Len(out) \in Nat
        /\ \A j \in 1 .. Len(out) : out'[j] = out[j]
        /\ \A j \in 1 .. Len(u) : out'[Len(out) + j] = u[j]
        /\ b \in Nat \ {0}
    BY <1>1, <1>3, <2>1, EarlierKept
  <2> QED BY <2>1, <2>2
<1>6. Len(t) \in Nat
  BY CleanIs
<1> HIDE DEF w, b
<1>7. b + Len(t) <= Len(out') /\ Spells(out', b, t)
  <2>1. ASSUME NEW j \in 1 .. Len(t) PROVE out'[b + j - 1] = t[j]
    <3>1. b + j - 1 \in 1 .. Len(out)
      BY <1>3, <1>5, <1>6
    <3> QED BY <1>3, <1>5, <3>1
  <2> QED BY <1>3, <1>5, <2>1 DEF Spells
<1>8. /\ Expanded(w)' = Expanded(w) /\ \A j : Possible(w, j)' <=> Possible(w, j)
  BY ExpansionKept
<1>9. words'[i] = b
  <2>1. i \in 1 .. i
    BY LenProperties, <1>1
  <2> QED BY <2>1 DEF b
<1>10. /\ words'[i] + Len(Expanded(w)') <= Len(out') /\ Spells(out', words'[i], Expanded(w)')
       /\ \A j \in 1 .. Len(w) : Possible(w, j)'
  BY <1>2, <1>3, <1>7, <1>8, <1>9
<1>11. ASSUME NEW j \in 1 .. i
       PROVE  /\ words'[j] + Len(Expanded(ws[j])') <= Len(out')
              /\ Spells(out', words'[j], Expanded(ws[j])')
              /\ \A m \in 1 .. Len(ws[j]) : Possible(ws[j], m)'
  <2>1. CASE j = i
    BY <1>10, <2>1 DEF w
  <2>2. CASE j # i
    <3>1. j \in 1 .. i - 1
      BY <2>2
    <3> QED BY <1>5, <3>1 DEF Copies
  <2> QED BY <2>1, <2>2
<1>12. Copies(ws, i)'
  BY <1>11 DEF Copies
<1> QED BY <1>5, <1>12

LEMMA WordDoneCopies ==
  ASSUME Shape, Shape', ReadInv, CopyInv, ExpandWordDone,
         NEW ws, ws = Meant.words,
         NEW i \in 1 .. Len(ws), NEW k \in Nat, NEW t \in Clean, Copied(ws, i, k, t)
  PROVE  CopyInv'
<1>0. CleanSlots /\ CalledOnce
  BY DEF CopyInv
<1>1. /\ phase = "expand" /\ Pending = Nul
      /\ UNCHANGED <<line, argv>> /\ UNCHANGED shellVars
  BY DEF ExpandWordDone, Expanding, feedVars, parseVars
<1>2. /\ ws \in Seq(Texts) /\ Len(ws) \in Nat /\ Len(argv) = Len(ws) /\ Len(words) = i
      /\ status \in {OK, USAGE, ARG}
  BY <1>0, <1>1, CopyPoint
<1>3. t = Expanded(ws[i]) /\ k = Len(ws[i]) /\ Sizes(ws)[i] = Len(out) + 1
  BY <1>0, <1>1, WordIsCopied
<1>4. Meant' = Meant
  BY <1>1 DEF Meant
<1>5. CleanSlots'
  BY <1>0, <1>1 DEF CleanSlots, shellVars
<1>6. Len(out) \in Nat /\ ExpandSize \in Nat /\ Sizes(ws)[i] <= Room(ws) /\ Room(ws) \in Nat
  BY <1>0, <1>2, FilledSoFar, CommandLineAssumption
<1>7. SUFFICES CalledOnce' /\ Parsed' /\ Copying(ws)'
  <2>1. \A u \in {Meant.words}' : u = ws
    BY <1>4
  <2>2. Copying(ws)' => \A u \in {Meant'.words} : Copying(u)'
    BY <1>4
  <2> QED BY <1>5, <2>1, <2>2 DEF CopyInv
<1>8. CASE Len(out) >= ExpandSize
  <2>1. phase' = "overflow"
    BY <1>8 DEF ExpandWordDone
  <2>2. ~(Room(ws) <= ExpandSize)
    BY <1>3, <1>6, <1>8
  <2>3. ~CanExpand(ws)'
    BY <1>1, <2>2, SizesKept DEF CanExpand
  <2> QED BY <2>1, <2>3 DEF CalledOnce, Parsed, Copying, Unrun
<1>9. CASE ~(Len(out) >= ExpandSize) /\ Len(words) < Len(argv)
  <2>1. /\ out' = Append(out, Nul) /\ words' = Append(words, Len(out) + 2)
        /\ at' = argv[Len(words) + 1] /\ phase' = phase
    BY <1>9 DEF ExpandWordDone
  <2>2. words \in Seq(Nat \ {0}) /\ Len(out) + 2 \in Nat \ {0}
    BY <1>6 DEF Shape, TWords
  <2>3. /\ Len(words') = i + 1 /\ words'[i + 1] = Len(out) + 2
        /\ \A j \in 1 .. i : words'[j] = words[j]
    <3>1. /\ Len(words') = Len(words) + 1
          /\ \A j \in 1 .. Len(words) + 1 : words'[j] = IF j <= Len(words) THEN words[j] ELSE Len(out) + 2
      BY <2>1, <2>2, AppendAt
    <3>2. i + 1 \in 1 .. i + 1 /\ ~(i + 1 <= i) /\ \A j \in 1 .. i : j \in 1 .. i + 1 /\ j <= i
      OBVIOUS
    <3> QED BY <1>2, <3>1, <3>2
  <2>4. Copies(ws, i)' /\ Len(out') = Len(out) + 1
    BY <1>0, <1>1, <2>1, <2>3, OneMoreWord
  <2> DEFINE n == i + 1
  <2>5. n \in 1 .. Len(ws) /\ n - 1 = i /\ n \in Nat
    BY <1>2, <1>9
  <2>6. ws[n] \in Texts /\ Len(ws[n]) \in Nat /\ Expanded(ws[n]) \in Clean /\ argv[n] \in Nat
    <3>1. ws[n] \in Texts
      BY <1>2, <2>5, ElementOfSeq
    <3>2. argv \in Seq(Nat \ {0}) /\ n \in 1 .. Len(argv)
      BY <1>2, <2>5 DEF Shape, TWords
    <3>3. argv[n] \in Nat
      BY <3>2, ElementOfSeq
    <3> HIDE DEF n
    <3> QED BY <1>0, <1>2, <3>1, <3>3, AheadClean, TextIs
  <2>7. /\ Ahead(ws[n])' = Ahead(ws[n]) /\ Expanded(ws[n])' = Expanded(ws[n])
        /\ Sizes(ws)' = Sizes(ws)
    BY <1>1, ExpansionKept, SizesKept
  <2>8. <<>> \in Clean /\ Len(<<>>) = 0 /\ <<>> \o Expanded(ws[n]) = Expanded(ws[n]) /\ 0 \in Nat
    <3>1. Expanded(ws[n]) \in Seq(Symbols)
      BY <2>6, CleanIs
    <3> DEFINE e == Expanded(ws[n])
    <3> HIDE DEF e
    <3>2. e \in Seq(Symbols) => <<>> \o e = e
      OBVIOUS
    <3> QED BY <3>1, <3>2, CleanIs DEF e
  <2>9. ASSUME NEW u, u = <<>> PROVE Copied(ws, n, 0, u)'
    <3> SUFFICES /\ n = Len(words') /\ at' = argv'[n] + 0 /\ 0 <= Len(ws[n])
                 /\ u \o Ahead(ws[n])'[0 + 1] = Expanded(ws[n])'
                 /\ words'[n] = Sizes(ws)'[n - 1] + 1
                 /\ words'[n] + Len(u) = Len(out') + 1
                 /\ \A j \in 1 .. Len(u) : out'[words'[n] + j - 1] = u[j]
                 /\ Copies(ws, n - 1)' /\ \A j \in 1 .. 0 : Possible(ws[n], j)'
      BY DEF Copied
    <3>1. n = Len(words') /\ at' = argv[n] /\ words'[n] = Len(out) + 2
      BY <1>2, <2>1, <2>3
    <3>2. u \o Ahead(ws[n])'[0 + 1] = Expanded(ws[n])'
      <4>1. Ahead(ws[n])[0 + 1] = Expanded(ws[n])
        BY DEF Expanded
      <4> QED BY <2>7, <2>8, <2>9, <4>1
    <3>3. words'[n] = Sizes(ws)'[n - 1] + 1
      BY <1>3, <1>6, <2>5, <2>7, <3>1
    <3>4. Len(u) = 0
      BY <2>8, <2>9
    <3>5. words'[n] + Len(u) = Len(out') + 1
      BY <1>6, <2>4, <3>1, <3>4
    <3>6. \A j \in 1 .. Len(u) : out'[words'[n] + j - 1] = u[j]
      BY <3>4
    <3>7. Copies(ws, n - 1)'
      BY <2>4, <2>5
    <3> HIDE DEF n
    <3> QED BY <1>1, <2>6, <3>1, <3>2, <3>3, <3>5, <3>6, <3>7
  <2>10. \E m \in 1 .. Len(ws) : \E c \in Nat : \E u \in Clean : Copied(ws, m, c, u)'
    <3> HIDE DEF n
    <3> QED BY <2>5, <2>8, <2>9
  <2> QED BY <1>1, <2>1, <2>10 DEF CalledOnce, Parsed, Copying, Unrun
<1>10. CASE ~(Len(out) >= ExpandSize) /\ ~(Len(words) < Len(argv))
  <2>1. /\ out' = Append(out, Nul) /\ words' = words /\ phase' = "run"
        /\ loops' = <<[first |-> 1, left |-> 1]>>
    BY <1>10 DEF ExpandWordDone
  <2>2. Copies(ws, i)' /\ Len(out') = Len(out) + 1
    BY <1>0, <1>1, <2>1, OneMoreWord
  <2>3. i = Len(ws)
    BY <1>2, <1>10
  <2>4. CanExpand(ws)'
    <3>1. Room(ws) <= ExpandSize
      BY <1>3, <1>6, <1>10, <2>3 DEF Room
    <3>2. \A j \in 1 .. Len(ws) : \A m \in 1 .. Len(ws[j]) : Possible(ws[j], m)
      <4>1. \A j \in 1 .. Len(ws) : \A m \in 1 .. Len(ws[j]) : Possible(ws[j], m)'
        BY <2>2, <2>3 DEF Copies
      <4> QED BY <1>1, <4>1, ExpansionKept
    <3>3. CanExpand(ws)
      BY <3>1, <3>2 DEF CanExpand, Possible
    <3> QED BY <1>1, <3>3, SizesKept
  <2>5. Len(words') = Len(ws) /\ Copies(ws, Len(ws))'
    BY <1>2, <2>1, <2>2, <2>3
  <2>6. Copying(ws)'
    BY <2>1, <2>4, <2>5 DEF Copying
  <2>7. CalledOnce'
    <3>1. Len(loops') = 1 /\ loops'[1].left = 1
      BY <2>1
    <3> QED BY <3>1 DEF CalledOnce
  <2> QED BY <2>1, <2>6, <2>7 DEF Parsed
<1> QED BY <1>8, <1>9, <1>10

\* What is not yet expanded has left nothing in the buffer.
LEMMA NothingCopied ==
  ASSUME CleanSlots', ~Parsed', out' = <<>>
  PROVE  CopyInv'
BY DEF CopyInv, Parsed, Copying, Unrun, CalledOnce

LEMMA ParseDoneCopies ==
  ASSUME LineInv, Shape, Shape', ReadInv, CopyInv, ParseDone
  PROVE  CopyInv'
<1>1. CASE argv = <<>>
  <2>1. phase' = "feed" /\ out' = <<>> /\ UNCHANGED shellVars
    BY <1>1 DEF ParseDone, Finish
  <2>2. CleanSlots'
    BY <2>1 DEF CopyInv, CleanSlots, shellVars
  <2> QED BY <2>1, <2>2, NothingCopied DEF Parsed
<1>2. CASE argv # <<>>
  <2>1. /\ phase = "between" /\ Current = Nul /\ phase' = "expand" /\ at' = argv[1] /\ words' = <<1>>
        /\ UNCHANGED <<line, argv, out>> /\ UNCHANGED shellVars
    BY <1>2 DEF ParseDone, feedVars, parseVars
  <2>2. out = <<>> /\ CleanSlots
    BY <2>1 DEF CopyInv, Parsed
  <2>3. PICK ws : ws = Meant.words
    OBVIOUS
  <2>4. ws \in Seq(Texts) /\ Len(argv) = Len(ws)
    BY <2>1, <2>3, WordsAreMeant
  <2>5. /\ status \in {OK, USAGE, ARG} /\ argv \in Seq(Nat \ {0}) /\ Len(argv) \in Nat
    BY LenProperties DEF Shape, TLine, TWords
  <2>6. 1 \in 1 .. Len(ws) /\ 1 \in 1 .. Len(argv)
    BY <1>2, <2>4, <2>5, EmptySeq
  <2>7. ws[1] \in Texts /\ argv[1] \in Nat
    BY <2>4, <2>5, <2>6, ElementOfSeq
  <2>8. Len(ws[1]) \in Nat /\ Expanded(ws[1]) \in Clean /\ Sizes(ws)[0] = 0
    BY <2>2, <2>4, <2>5, <2>7, TextIs, AheadClean, SizesGrow
  <2>9. /\ Ahead(ws[1])' = Ahead(ws[1]) /\ Expanded(ws[1])' = Expanded(ws[1])
        /\ Sizes(ws)' = Sizes(ws)
    BY <2>1, ExpansionKept, SizesKept
  <2>10. <<>> \in Clean /\ Len(<<>>) = 0 /\ <<>> \o Expanded(ws[1]) = Expanded(ws[1]) /\ 0 \in Nat
    <3> DEFINE e == Expanded(ws[1])
    <3>1. e \in Seq(Symbols)
      BY <2>8, CleanIs
    <3> HIDE DEF e
    <3>2. <<>> \o e = e
      BY <3>1
    <3> QED BY <3>2, CleanIs DEF e
  <2>11. ASSUME NEW u, u = <<>> PROVE Copied(ws, 1, 0, u)'
    <3> SUFFICES /\ 1 = Len(words') /\ at' = argv'[1] + 0 /\ 0 <= Len(ws[1])
                 /\ u \o Ahead(ws[1])'[0 + 1] = Expanded(ws[1])'
                 /\ words'[1] = Sizes(ws)'[1 - 1] + 1
                 /\ words'[1] + Len(u) = Len(out') + 1
                 /\ \A j \in 1 .. Len(u) : out'[words'[1] + j - 1] = u[j]
                 /\ Copies(ws, 1 - 1)' /\ \A j \in 1 .. 0 : Possible(ws[1], j)'
      BY DEF Copied
    <3>1. Len(words') = 1 /\ words'[1] = 1
      BY <2>1
    <3>2. at' = argv'[1] + 0 /\ 0 <= Len(ws[1])
      BY <2>1, <2>7, <2>8
    <3>3. u \o Ahead(ws[1])'[0 + 1] = Expanded(ws[1])'
      <4>1. Ahead(ws[1])[0 + 1] = Expanded(ws[1])
        BY DEF Expanded
      <4> QED BY <2>9, <2>10, <2>11, <4>1
    <3>4. words'[1] = Sizes(ws)'[1 - 1] + 1
      BY <2>8, <2>9, <3>1
    <3>5. Len(u) = 0 /\ Len(out') = 0
      BY <2>1, <2>2, <2>10, <2>11
    <3>6. Copies(ws, 1 - 1)'
      BY DEF Copies
    <3> QED BY <3>1, <3>2, <3>3, <3>4, <3>5, <3>6
  <2>12. Copying(ws)'
    <3>1. \E m \in 1 .. Len(ws) : \E c \in Nat : \E u \in Clean : Copied(ws, m, c, u)'
      BY <2>6, <2>10, <2>11
    <3> QED BY <2>1, <3>1 DEF Copying, Unrun
  <2>13. Meant' = Meant
    BY <2>1 DEF Meant
  <2>14. CleanSlots'
    BY <2>1, <2>2 DEF CleanSlots, shellVars
  <2>15. \A u \in {Meant'.words} : Copying(u)'
    BY <2>3, <2>12, <2>13
  <2> QED BY <2>1, <2>14, <2>15 DEF CopyInv, CalledOnce, Parsed
<1> QED BY <1>1, <1>2

-----------------------------------------------------------------------------
(* What runs is what was entered *)

LEMMA ExpandCopies ==
  ASSUME Shape, Shape', ReadInv, CopyInv, Expand
  PROVE  CopyInv'
<1>1. phase = "expand" /\ line' = line /\ UNCHANGED shellVars
  BY DEF Expand, ExpandNext, ExpandWordDone, Expanding, feedVars
<1>2. CleanSlots /\ CalledOnce /\ Parsed
  BY <1>1 DEF CopyInv, Parsed
<1>3. PICK ws : ws = Meant.words
  OBVIOUS
<1>4. Copying(ws)
  BY <1>3 DEF CopyInv
<1>5. PICK i \in 1 .. Len(ws), k \in Nat, t \in Clean : Copied(ws, i, k, t)
  BY <1>1, <1>4 DEF Copying
<1>6. Meant' = Meant
  BY <1>1 DEF Meant
<1>7. CleanSlots'
  BY <1>1, <1>2 DEF CleanSlots, shellVars
<1>8. CASE ExpandNext /\ Here.kind # "toolong" /\ Fits(Here)
  <2>1. phase' = "expand"
    BY <1>1, <1>8 DEF ExpandNext
  <2>2. \E m \in Nat : \E u \in Clean : Copied(ws, i, m, u)'
    BY <1>2, <1>3, <1>5, <1>8, NextCopies
  <2>3. Copying(ws)'
    <3>1. \E j \in 1 .. Len(ws) : \E m \in Nat : \E u \in Clean : Copied(ws, j, m, u)'
      BY <2>2
    <3> QED BY <2>1, <3>1 DEF Copying, Unrun
  <2>4. \A u \in {Meant'.words} : Copying(u)'
    BY <1>3, <1>6, <2>3
  <2> QED BY <1>7, <2>1, <2>4 DEF CopyInv, CalledOnce, Parsed
<1>9. CASE ExpandNext /\ ~(Here.kind # "toolong" /\ Fits(Here))
  <2>1. phase' = "overflow"
    BY <1>9 DEF ExpandNext
  <2>2. ~CanExpand(ws)
    BY <1>2, <1>3, <1>5, <1>9, NextOverflows
  <2>3. ~CanExpand(ws)'
    BY <1>1, <2>2, SizesKept
  <2>4. Copying(ws)'
    BY <2>1, <2>3 DEF Copying, Unrun
  <2>5. \A u \in {Meant'.words} : Copying(u)'
    BY <1>3, <1>6, <2>4
  <2> QED BY <1>7, <2>1, <2>5 DEF CopyInv, CalledOnce, Parsed
<1>10. CASE ExpandWordDone
  BY <1>3, <1>5, <1>10, WordDoneCopies
<1> QED BY <1>8, <1>9, <1>10 DEF Expand

LEMMA RunCopies ==
  ASSUME Shape, CopyInv, Run
  PROVE  CopyInv'
<1>1. CleanSlots /\ CalledOnce
  BY DEF CopyInv
<1>2. CleanSlots'
  BY <1>1, HandlersClean
<1>3. CASE LineDone
  BY <1>2, <1>3, NothingCopied DEF LineDone, Finish, Parsed
<1>4. CASE ~LineDone
  <2>1. phase' = "run" /\ loops'[1].left = 0
    BY <1>1, <1>4, HandlersEnter
  <2>2. ~Unrun'
    <3>1. <<[first |-> 1, left |-> 1]>>[1].left = 1
      OBVIOUS
    <3> QED BY <2>1, <3>1 DEF Unrun
  <2>3. CalledOnce'
    BY <2>1 DEF CalledOnce
  <2> QED BY <1>2, <2>1, <2>2, <2>3 DEF CopyInv, Copying, Parsed
<1> QED BY <1>3, <1>4

LEMMA CopyInvNext ==
  LineInv /\ Shape /\ ReadInv /\ CopyInv /\ [Next]_vars => CopyInv'
<1> SUFFICES ASSUME LineInv, Shape, ReadInv, CopyInv, [Next]_vars PROVE CopyInv'
  OBVIOUS
<1>0. Shape' /\ CleanSlots
  BY ShapeNext DEF CopyInv
<1>1. CASE Feed \/ (Parse /\ ~ParseDone)
  <2>1. phase \in {"feed", "between", "word"} /\ phase' \in {"feed", "between", "word", "unclosed", "toomany"}
        /\ out' = out /\ slots' = slots
    <3>1. CASE Feed
      BY <3>1 DEF Feed, Arrive, FeedByte, FeedNothing, EndOfLine, Reconnect, Feeding, expandVars, shellVars
    <3>2. CASE Parse /\ ~ParseDone
      BY <3>2 DEF Parse, SkipSpace, StartWord, TakeEscaped, TakeSymbol, TakeQuote, EndWord, Unclosed,
                  Keep, KeepsRest, InWord, expandVars, shellVars
    <3> QED BY <1>1, <3>1, <3>2
  <2>2. out = <<>>
    BY <2>1 DEF CopyInv, Parsed
  <2>3. CleanSlots' /\ ~Parsed'
    BY <1>0, <2>1 DEF CleanSlots, Parsed
  <2> QED BY <2>1, <2>2, <2>3, NothingCopied
<1>2. CASE ParseDone
  BY <1>0, <1>2, ParseDoneCopies
<1>3. CASE Refused
  <2>1. phase' = "feed" /\ out' = <<>> /\ slots' = slots
    BY <1>3 DEF Refused, Finish, shellVars
  <2>2. CleanSlots' /\ ~Parsed'
    BY <1>0, <2>1 DEF CleanSlots, Parsed
  <2> QED BY <2>1, <2>2, NothingCopied
<1>4. CASE Expand
  BY <1>0, <1>4, ExpandCopies
<1>5. CASE Run
  BY <1>5, RunCopies
<1>6. CASE UNCHANGED vars
  <2>1. UNCHANGED <<phase, line, argv, out, at, words, loops>> /\ UNCHANGED shellVars
    BY <1>6 DEF vars, feedVars, parseVars, expandVars
  <2>2. Meant' = Meant
    BY <2>1 DEF Meant
  <2>3. CleanSlots' /\ CalledOnce' /\ (Parsed' <=> Parsed)
    BY <2>1 DEF CopyInv, CleanSlots, CalledOnce, Parsed, shellVars
  <2>4. /\ \A w : Ahead(w)' = Ahead(w) /\ Expanded(w)' = Expanded(w) /\ \A j : Possible(w, j)' <=> Possible(w, j)
        /\ \A ws : Sizes(ws)' = Sizes(ws) /\ (CanExpand(ws)' <=> CanExpand(ws))
    BY <2>1, ExpansionKept, SizesKept
  <2>5. \A ws : \A n : Copies(ws, n)' <=> Copies(ws, n)
    BY <2>1, <2>4 DEF Copies
  <2>6. ASSUME NEW ws, NEW i, NEW k, NEW t PROVE Copied(ws, i, k, t)' <=> Copied(ws, i, k, t)
    <3>1. /\ Ahead(ws[i])' = Ahead(ws[i]) /\ Expanded(ws[i])' = Expanded(ws[i])
          /\ Sizes(ws)' = Sizes(ws) /\ (Copies(ws, i - 1)' <=> Copies(ws, i - 1))
      BY <2>4, <2>5
    <3>2. (\A j \in 1 .. k : Possible(ws[i], j)') <=> (\A j \in 1 .. k : Possible(ws[i], j))
      BY <2>4
    <3> QED BY <2>1, <3>1, <3>2 DEF Copied
  <2>7. \A ws : Copying(ws)' <=> Copying(ws)
    BY <2>1, <2>4, <2>5, <2>6 DEF Copying, Unrun
  <2>8. \A ws \in {Meant'.words} : Copying(ws)'
    BY <2>2, <2>7 DEF CopyInv
  <2> QED BY <2>1, <2>3, <2>8 DEF CopyInv
<1> QED BY <1>1, <1>2, <1>3, <1>4, <1>5, <1>6 DEF Next

LEMMA CopyInvInit == Init => CopyInv
<1> SUFFICES ASSUME Init PROVE CopyInv
  OBVIOUS
<1>1. phase = "feed" /\ out = <<>> /\ \A i \in SlotIds : ~slots[i].used
  BY DEF Init
<1> QED BY <1>1 DEF CopyInv, CleanSlots, CalledOnce, Copying, Unrun, Parsed

\* The words that run are the words of the line, expanded.
LEMMA ExpandedAsMeant ==
  ASSUME Shape, ReadInv, CopyInv
  PROVE  ExpandsAsMeant
<1>1. PICK ws : ws = Meant.words
  OBVIOUS
<1>2. Copying(ws) /\ CleanSlots
  BY <1>1 DEF CopyInv
<1>3. CASE Unrun
  <2>1. Parsed
    BY <1>3 DEF Unrun, Parsed
  <2>2. WordsOf(buf, argv) = ws
    BY <1>1, <2>1, WordsFound
  <2>3. ws \in Seq(Texts) /\ Len(ws) \in Nat
    BY <1>1, <2>1, LenProperties DEF ReadInv
  <2>4. CanExpand(ws) /\ Len(words) = Len(ws) /\ Copies(ws, Len(ws))
    BY <1>2, <1>3 DEF Copying
  <2>5. out \in Seq(Symbols) /\ words \in Seq(Nat \ {0}) /\ status \in {OK, USAGE, ARG}
    BY DEF Shape, TLine, TWords
  <2>6. ASSUME NEW i \in 1 .. Len(ws) PROVE Word(out, words[i]) = Expanded(ws[i])
    <3> DEFINE e == Expanded(ws[i])
               p == words[i]
    <3>1. p + Len(e) <= Len(out) /\ Spells(out, p, e)
      BY <2>4 DEF Copies
    <3>2. e \in Clean
      BY <1>2, <2>3, <2>5, ElementOfSeq, AheadClean
    <3>3. p \in Nat \ {0}
      BY <2>4, <2>5, ElementOfSeq
    <3> HIDE DEF e, p
    <3>4. e \in Seq(Symbols) /\ \A j \in 1 .. Len(e) : e[j] # Nul
      BY <3>2 DEF Clean
    <3>5. Word(out, p) = e
      BY <2>5, <3>1, <3>3, <3>4, SpellsWord
    <3> QED BY <3>5 DEF e, p
  <2>7. WordsOf(out, words) = [i \in 1 .. Len(ws) |-> Expanded(ws[i])]
    BY <2>4, <2>6 DEF WordsOf
  <2>8. phase # "overflow"
    BY <1>3 DEF Unrun
  <2> QED BY <2>2, <2>4, <2>7, <2>8 DEF ExpandsAsMeant
<1>4. CASE phase = "overflow"
  <2>1. WordsOf(buf, argv) = ws
    BY <1>1, <1>4, WordsFound DEF Parsed
  <2>2. ~CanExpand(ws)
    BY <1>2, <1>4 DEF Copying
  <2> QED BY <1>4, <2>1, <2>2 DEF ExpandsAsMeant, Unrun
<1> QED BY <1>3, <1>4 DEF ExpandsAsMeant

\* What is entered is what runs, for every line, every variable and every size of the
\* buffers: the words cli_parse cuts out of the line in place are those parser.h
\* describes, expand_argv leaves each of them in g_expand_buf with its references
\* replaced, and a line is refused only for the reasons cli.c gives.
THEOREM LinesAreReadAsMeant == Spec => []ReadsAsMeant
<1>1. LineInv /\ Shape /\ ReadInv /\ CopyInv /\ [Next]_vars => CopyInv'
  BY CopyInvNext
<1>2. Spec => []CopyInv
  BY <1>1, CopyInvInit, LineInvAlways, ShapeAlways, ReadInvAlways, PTL DEF Spec
<1>3. Shape /\ ReadInv /\ CopyInv => ReadsAsMeant
  BY ParsedAsMeant, ExpandedAsMeant DEF ReadsAsMeant
<1> QED BY <1>2, <1>3, ShapeAlways, ReadInvAlways, PTL

-----------------------------------------------------------------------------
(* No line is read forever *)

\* How much cli_parse still has to do
ToGo == 3 * (Len(buf) - src) + (IF phase = "word" THEN 1 ELSE IF Current = Nul THEN 0 ELSE 2)

\* expand_argv goes from word to word, and in a word from left to right.
Onward ==
  /\ Parsing /\ Parsing' => ToGo' < ToGo
  /\ Expanding /\ Expanding' =>
       \/ Len(words') = Len(words) + 1 /\ Len(words') <= Len(argv) /\ argv' = argv
       \/ words' = words /\ at < at' /\ at' <= Len(buf') /\ buf' = buf

LEMMA ToGoIs ==
  ASSUME LineInv, Parsing
  PROVE  ToGo \in Nat /\ Len(buf) \in Nat /\ src \in Nat /\ src <= Len(buf)
<1>1. Len(buf) \in Nat /\ src \in 1 .. Len(buf)
  BY Cursors
<1> DEFINE n == Len(buf) - src
<1>2. n \in Nat
  BY <1>1
<1> HIDE DEF n
<1>3. 3 * n + 1 \in Nat /\ 3 * n + 0 \in Nat /\ 3 * n + 2 \in Nat
  BY <1>2
<1> QED BY <1>1, <1>3 DEF ToGo, n

LEMMA OnwardNext == LineInv /\ Shape /\ ReadInv /\ CopyInv /\ [Next]_vars => [Onward]_vars
<1> SUFFICES ASSUME LineInv, LineInv', Shape, Shape', ReadInv, CopyInv, Next PROVE Onward
  BY LineInvNext, ShapeNext DEF Next
<1>1. ASSUME Parsing, Parsing' PROVE ToGo' < ToGo
  <2>1. phase \in {"between", "word"} /\ phase' \in {"between", "word"}
    BY <1>1 DEF Parsing
  <2>2. Parse /\ ~ParseDone /\ ~Unclosed
    BY <2>1 DEF Next, Feed, Arrive, FeedByte, FeedNothing, EndOfLine, Reconnect, Feeding, Refused, Expand,
                ExpandNext, ExpandWordDone, Expanding, Run, RunSetWords, RunSetPair, RunUnset, RunRepeat,
                RunUnknown, RepeatDone, LineDone, Calling, Parse, ParseDone, Finish, Unclosed
  <2>3. /\ Len(buf) \in Nat /\ src \in 1 .. Len(buf) /\ Len(buf') \in Nat /\ src' \in 1 .. Len(buf')
        /\ buf \in Seq(Bytes) /\ buf' \in Seq(Bytes)
    <3>1. ParseInv /\ ParseInv'
      BY <1>1 DEF LineInv
    <3> QED BY <3>1, LenProperties DEF ParseInv
  <2>4. Len(buf') = Len(buf)
    <3>1. ASSUME NEW j, NEW c, buf' = [buf EXCEPT ![j] = c] PROVE Len(buf') = Len(buf)
      <4>1. buf' \in Seq(Bytes) /\ DOMAIN buf' = DOMAIN buf
        BY <2>3, <3>1
      <4> QED BY <2>3, <4>1, LenProperties
    <3> QED BY <2>2, <3>1 DEF Parse, SkipSpace, StartWord, TakeEscaped, TakeSymbol, TakeQuote, EndWord, Keep
  <2> DEFINE n == Len(buf) - src
             m == Len(buf') - src'
             x == IF phase = "word" THEN 1 ELSE IF Current = Nul THEN 0 ELSE 2
             y == IF phase' = "word" THEN 1 ELSE IF Current' = Nul THEN 0 ELSE 2
  <2>5. ToGo = 3 * n + x /\ ToGo' = 3 * m + y /\ n \in Nat /\ m \in Nat /\ x \in 0 .. 2 /\ y \in 0 .. 2
    BY <2>3 DEF ToGo
  <2>6. CASE src' > src
    <3>1. m < n
      BY <2>3, <2>4, <2>6
    <3> HIDE DEF n, m, x, y
    <3> QED BY <2>5, <3>1
  <2>7. CASE ~(src' > src)
    <3>1. StartWord \/ (EndWord /\ Current = Nul)
      BY <2>2, <2>3, <2>7 DEF Parse, SkipSpace, TakeEscaped, TakeSymbol, TakeQuote, EndWord, Keep
    <3>2. src' = src /\ m = n
      BY <2>3, <2>4, <3>1 DEF StartWord, EndWord
    <3>3. CASE StartWord
      <4>1. x = 2 /\ y = 1
        BY <2>1, <3>3 DEF StartWord
      <4> HIDE DEF n, m, x, y
      <4> QED BY <2>5, <3>2, <4>1
    <3>4. CASE EndWord /\ Current = Nul
      <4>1. Current' = Nul /\ phase' = "between" /\ phase = "word"
        <5>1. phase = "word" /\ phase' = "between" /\ buf' = [buf EXCEPT ![dst] = Nul] /\ buf[src] = Nul
          BY <3>4 DEF EndWord, InWord, Current
        <5>2. buf'[src] = Nul
          BY <2>3, <5>1
        <5> QED BY <3>2, <5>1, <5>2 DEF Current
      <4>2. x = 1 /\ y = 0
        BY <4>1
      <4> HIDE DEF n, m, x, y
      <4> QED BY <2>5, <3>2, <4>2
    <3> QED BY <3>1, <3>3, <3>4
  <2> QED BY <2>6, <2>7
<1>2. ASSUME Expanding, Expanding'
      PROVE  \/ Len(words') = Len(words) + 1 /\ Len(words') <= Len(argv) /\ argv' = argv
             \/ words' = words /\ at < at' /\ at' <= Len(buf') /\ buf' = buf
  <2>1. phase = "expand" /\ phase' = "expand"
    BY <1>2 DEF Expanding
  <2>2. Expand
    BY <2>1 DEF Next, Feed, Arrive, FeedByte, FeedNothing, EndOfLine, Reconnect, Feeding, Refused, Run,
                RunSetWords, RunSetPair, RunUnset, RunRepeat, RunUnknown, RepeatDone, LineDone, Calling,
                Parse, SkipSpace, StartWord, TakeEscaped, TakeSymbol, TakeQuote, EndWord, Unclosed,
                ParseDone, InWord
  <2>3. CASE ExpandWordDone
    <3>1. words' = Append(words, Len(out) + 2) /\ Len(words) < Len(argv) /\ argv' = argv
      BY <2>1, <2>3 DEF ExpandWordDone, parseVars
    <3>2. words \in Seq(Nat \ {0}) /\ Len(out) + 2 \in Nat \ {0} /\ Len(argv) \in Nat
      BY LenProperties DEF Shape, TWords
    <3>3. Len(words') = Len(words) + 1 /\ Len(words) \in Nat
      BY <3>1, <3>2, AppendAt
    <3> QED BY <3>1, <3>2, <3>3
  <2>4. CASE ExpandNext
    <3>1. Pending # Nul /\ at' = Here.next /\ words' = words /\ buf' = buf
      BY <2>1, <2>4 DEF ExpandNext, parseVars
    <3>2. PICK ws : ws = Meant.words
      OBVIOUS
    <3>3. CleanSlots /\ Copying(ws)
      BY <3>2 DEF CopyInv
    <3>4. PICK i \in 1 .. Len(ws), k \in Nat, t \in Clean : Copied(ws, i, k, t)
      BY <2>1, <3>3 DEF Copying
    <3> DEFINE w == ws[i]
               e == Taken(w, k + 1).next
               p == argv[i]
    <3>5. /\ w \in Texts /\ Len(w) \in Nat /\ status \in {OK, USAGE, ARG} /\ p \in Nat \ {0}
          /\ Pending = Nul <=> k = Len(w)
          /\ k < Len(w) => Here.next = e + (p - 1)
      BY <2>1, <3>2, <3>3, <3>4, CopyPoint
    <3>6. at = p + k /\ k <= Len(w)
      BY <3>4 DEF Copied
    <3>7. k < Len(w) /\ at' = e + (p - 1)
      BY <3>1, <3>5, <3>6
    <3>8. e \in k + 2 .. Len(w) + 1
      <4> DEFINE m == k + 1
      <4>1. m \in 1 .. Len(w) /\ e = Taken(w, m).next /\ m + 1 = k + 2
        BY <3>5, <3>7
      <4> HIDE DEF m, w, e
      <4>2. Taken(w, m).next \in m + 1 .. Len(w) + 1
        BY <3>3, <3>5, <4>1, TakenIs
      <4> QED BY <4>1, <4>2
    <3>9. p + Len(w) < Len(buf) + 1 /\ Len(buf) \in Nat
      <4>1. Laid(buf, Len(buf) + 1, argv, ws) /\ buf \in Seq(Bytes)
        BY <2>1, <3>2 DEF ReadInv, Parsed, Shape, TLine
      <4> QED BY <4>1, LenProperties DEF Laid
    <3>10. at < at' /\ at' <= Len(buf)
      <4> HIDE DEF w, e, p
      <4> QED BY <3>5, <3>6, <3>7, <3>8, <3>9
    <3> QED BY <3>1, <3>10
  <2> QED BY <2>2, <2>3, <2>4 DEF Expand
<1> QED BY <1>1, <1>2 DEF Onward

\* Whatever was entered, cli_parse reaches the end of the line although it rewrites the
\* line while it reads it, and expand_argv the end of the last word: every step leaves
\* less to do, and the cursors stay in the line.
THEOREM LinesAreReadToTheEnd == Spec => [](Parsing => ToGo \in Nat) /\ [][Onward]_vars
<1>1. LineInv /\ Shape /\ ReadInv /\ CopyInv /\ [Next]_vars => CopyInv'
  BY CopyInvNext
<1>2. LineInv => (Parsing => ToGo \in Nat)
  BY ToGoIs
<1>3. LineInv /\ Shape /\ ReadInv /\ CopyInv /\ [Next]_vars => [Onward]_vars
  BY OnwardNext
<1>4. Spec => []CopyInv
  BY <1>1, CopyInvInit, LineInvAlways, ShapeAlways, ReadInvAlways, PTL DEF Spec
<1> QED BY <1>2, <1>3, <1>4, LineInvAlways, ShapeAlways, ReadInvAlways, PTL DEF Spec
=============================================================================

------------------------------- MODULE BleNus -------------------------------
(***************************************************************************)
(* The Nordic UART service: src/ble/ble_nus.c over BTstack's ATT server.   *)
(*                                                                         *)
(* Output is queued in one buffer and leaves one notification at a time,   *)
(* each on an event that has to be asked for.  Connections, subscriptions  *)
(* and output interleave freely: a command that waits pumps the stack, so  *)
(* its output may come after its peer has gone and another one is there.   *)
(*                                                                         *)
(* Data: a byte is the number of its place in everything offered.          *)
(***************************************************************************)
EXTENDS Naturals, Sequences

CONSTANTS
  TxBufSize,   \* TX_BUF_SIZE
  Payloads,    \* what the negotiated MTU leaves for a notification
  Writes,      \* lengths of writes
  Greeting,    \* length of the greeting
  MaxBytes,    \* how many bytes are offered (bound)
  MaxLinks     \* how many connections are made (bound)

ASSUME BleAssumption ==
  /\ TxBufSize \in Nat \ {0}
  /\ Payloads \subseteq Nat \ {0} /\ Writes \subseteq Nat \ {0}
  /\ Greeting \in Nat \ {0} /\ MaxBytes \in Nat /\ MaxLinks \in Nat

VARIABLES
  connected,   \* g_con_handle is valid
  subscribed,  \* g_notifications_enabled
  tx,          \* g_tx_buf, up to g_tx_len
  requested,   \* BTstack owes an ATT_EVENT_CAN_SEND_NOW
  offered,     \* how many bytes were offered so far
  links,       \* how many connections were made so far
  accepted,    \* history: what was queued since this connection began
  received     \* history: what the peer of this connection was sent

bleVars == <<connected, subscribed, tx, requested, offered, links, accepted, received>>

BleInit ==
  /\ connected = FALSE /\ subscribed = FALSE /\ tx = <<>> /\ requested = FALSE
  /\ offered = 0 /\ links = 0 /\ accepted = <<>> /\ received = <<>>

-----------------------------------------------------------------------------
\* slip: the length of the write is not cut to the space
QueueableAnyway(len) == len

\* tx_enqueue: how much of a write is taken
Queueable(len) == IF len > TxBufSize - Len(tx) THEN TxBufSize - Len(tx) ELSE len

\* slip: the rest of a notification cut short is dropped with it
DequeueAll(n) == <<>>

\* tx_dequeue
Dequeue(n) == IF n >= Len(tx) THEN <<>> ELSE SubSeq(tx, n + 1, Len(tx))

\* slip: only an empty buffer asks for an event
RequestsFirst == requested \/ (connected /\ subscribed' /\ tx = <<>> /\ tx' # <<>>)

\* request_tx_flush, in the state the caller leaves
RequestFlush == requested \/ (connected /\ subscribed' /\ tx' # <<>>)

\* ble_nus_send: queue what fits, and ask to send.
SendLen(len) ==
  LET bytes == [k \in 1 .. Queueable(len) |-> offered + k] IN
  /\ offered + len <= MaxBytes
  /\ tx' = tx \o bytes
  /\ accepted' = accepted \o bytes
  /\ offered' = offered + len
  /\ requested' = RequestFlush

\* Output of the shell, at any time, with or without a peer.
Send == /\ UNCHANGED <<connected, subscribed, links, received>>
        /\ \E len \in Writes : SendLen(len)

-----------------------------------------------------------------------------
(* att_write_callback, for the client configuration *)

\* The first subscription greets, through on_ble_connect.
Subscribe ==
  /\ connected /\ ~subscribed
  /\ subscribed' = TRUE
  /\ SendLen(Greeting)
  /\ UNCHANGED <<connected, links, received>>

Unsubscribe ==
  /\ connected /\ subscribed
  /\ subscribed' = FALSE
  /\ UNCHANGED <<connected, tx, requested, offered, links, accepted, received>>

-----------------------------------------------------------------------------
(* packet_handler *)

\* slip: the buffer is emptied on disconnection only
KeepsTx == tx

\* tx_reset
TxReset == <<>>

\* The controller accepts one connection at a time.
ConnectionComplete ==
  /\ ~connected /\ links < MaxLinks
  /\ connected' = TRUE /\ subscribed' = FALSE /\ tx' = TxReset
  /\ links' = links + 1
  /\ accepted' = <<>> /\ received' = <<>>
  /\ UNCHANGED <<requested, offered>>

\* BTstack forgets what it owed the connection.
DisconnectionComplete ==
  /\ connected
  /\ connected' = FALSE /\ subscribed' = FALSE /\ tx' = <<>> /\ requested' = FALSE
  /\ accepted' = <<>> /\ received' = <<>>
  /\ UNCHANGED <<offered, links>>

\* tx_flush: one notification, taken or refused by the stack.
Notified(n) == /\ received' = received \o SubSeq(tx, 1, n)
               /\ tx' = Dequeue(n)

\* slip: a notification that is refused is not tried again
AskedOnSuccess == tx' # <<>> /\ tx' # tx

AskedAgain == tx' # <<>>

Flush(taken) ==
  /\ connected /\ requested
  /\ IF subscribed /\ tx # <<>>
     THEN /\ IF taken
             THEN \E p \in Payloads : Notified(IF Len(tx) < p THEN Len(tx) ELSE p)
             ELSE UNCHANGED <<tx, received>>
          /\ requested' = AskedAgain
     ELSE requested' = FALSE /\ UNCHANGED <<tx, received>>
  /\ UNCHANGED <<connected, subscribed, offered, links, accepted>>

CanSendNow == \E taken \in BOOLEAN : Flush(taken)

-----------------------------------------------------------------------------
BleNext == Send \/ Subscribe \/ Unsubscribe \/ ConnectionComplete \/ DisconnectionComplete
        \/ CanSendNow

BleSpec == BleInit /\ [][BleNext]_bleVars

\* What BTstack owes it delivers once the controller has a free buffer, and a
\* notification that finds one is taken.
BleFairSpec == BleSpec /\ SF_bleVars(Flush(TRUE))

-----------------------------------------------------------------------------
(* Properties *)

\* Types, and g_tx_len never passes the end of g_tx_buf.
BleTypeOK ==
  /\ connected \in BOOLEAN /\ subscribed \in BOOLEAN /\ requested \in BOOLEAN
  /\ tx \in Seq(1 .. MaxBytes) /\ Len(tx) <= TxBufSize
  /\ offered \in 0 .. MaxBytes /\ links \in 0 .. MaxLinks
  /\ accepted \in Seq(1 .. MaxBytes) /\ received \in Seq(1 .. MaxBytes)

\* Whenever a subscribed peer has output waiting, an event is on its way: no order of
\* writes, subscriptions, refusals and reconnections loses the wake-up of tx_flush.
NoLostWakeup == connected /\ subscribed /\ tx # <<>> => requested

\* What a peer has received and what still waits for it are together exactly what was
\* queued since it connected: nothing twice, nothing skipped, and nothing that was
\* queued for the peer before it, or for nobody.
StreamIsOwn == connected => received \o tx = accepted

\* A subscribed peer that stays gets everything that was queued for it.
Drains == (connected /\ subscribed /\ tx # <<>>) ~> (tx = <<>> \/ ~subscribed)
=============================================================================

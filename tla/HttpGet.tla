------------------------------- MODULE HttpGet -------------------------------
(***************************************************************************)
(* The HTTP/1.1 GET client, src/network/http_get.c.                        *)
(*                                                                         *)
(* http_get blocks its caller in a loop that pumps lwIP (cyw43_arch_poll)  *)
(* until a callback sets ctx.complete or the deadline passes.  The context *)
(* is ONE static record, cleared by every call, and every lwIP object ever *)
(* created keeps a pointer to it: a name query, a connection that is still *)
(* open after its call returned, one that is closed and not yet forgotten. *)
(* The pump also runs the other shells, so a call may begin inside another *)
(* one.                                                                    *)
(*                                                                         *)
(* Data: a response is a stream of header units (the first is the status   *)
(* line, the last holds Content-Length and the blank line) followed by     *)
(* body units; lwIP hands over any number of units at a time.              *)
(***************************************************************************)
EXTENDS Integers, Sequences, FiniteSets

CONSTANTS
  NCalls,      \* how many calls of http_get are made (bound)
  MaxDepth,    \* how many of them may be nested (bound)
  Responses,   \* what servers answer: [ok, hdr, len, body], len 0 = no Content-Length
  HdrMax,      \* HDR_MAX, in header units
  DnsOutlives  \* whether a name query may still be pending at the deadline

Calls == 1 .. NCalls
None == 0

ASSUME HttpAssumption ==
  /\ NCalls \in Nat /\ MaxDepth \in Nat \ {0} /\ HdrMax \in Nat \ {0}
  /\ DnsOutlives \in BOOLEAN
  /\ Responses \subseteq [ok : BOOLEAN, hdr : Nat \ {0}, len : Nat, body : Nat]

VARIABLES
  ctx,        \* the static ctx_t; pcb and owner (chunk_cb and user) name a call
  conns,      \* the connection begun for each call's name query
  dns,        \* the calls whose name query lwIP has not answered
  stack,      \* the calls that have not returned, innermost last
  started,    \* how many calls have been made
  accepted,   \* history: the body units each call's chunk_cb took
  returned,   \* history: the result each call returned, "none" before
  alone,      \* history: calls that began on a quiet client and were not nested into
  sole,       \* history: calls that began with no connection open
  late        \* history: calls that ended at their deadline

vars == <<ctx, conns, dns, stack, started, accepted, returned, alone, sole, late>>

Results == {"OK", "PARSE", "DNS", "CONNECT", "STATUS", "ABORTED", "TIMEOUT",
            "NOMEM", "INTERNAL"}
States == {"INIT", "CONNECT", "HEADERS", "BODY", "DONE", "ERROR"}
Units == Calls \X (Nat \ {0})
Contexts ==   \* ctx_t
  [state : States, pcb : Calls \cup {None}, hdr : Seq(Units), ok : BOOLEAN,
   len : Nat, got : Nat, owner : Calls \cup {None}, result : Results, complete : BOOLEAN]
Connections ==   \* lwIP's connection, the call whose request it carries, its answer
  [phase : {"free", "connecting", "open", "stuck", "closing", "closed"},
   req : Calls \cup {None},
   pos : Nat, resp : [ok : BOOLEAN, hdr : Nat, len : Nat, body : Nat]]
Waiting == {stack[i] : i \in 1 .. Len(stack)}
Top == stack[Len(stack)]

-----------------------------------------------------------------------------
(* The context *)

Fresh(c) ==   \* memset, then the four assignments that follow it
  [state |-> "INIT", pcb |-> None, hdr |-> <<>>, ok |-> FALSE, len |-> 0,
   got |-> 0, owner |-> c, result |-> "INTERNAL", complete |-> FALSE]

\* mark_complete: the first verdict stands.
Mark(x, r) ==
  IF x.complete THEN x
  ELSE [x EXCEPT !.result = r, !.complete = TRUE,
                 !.state = IF r = "OK" THEN "DONE" ELSE "ERROR"]

\* slip: the pcb lwIP has freed stays in the context
ErrKeepsPcb(x) == Mark(x, "ABORTED")

\* tcp_err_cb, also run by tcp_abort
Err(x) == Mark([x EXCEPT !.pcb = None], "ABORTED")

-----------------------------------------------------------------------------
(* Connections: lwIP's side *)

NoConn == [phase |-> "free", req |-> None, pos |-> 0,
           resp |-> [ok |-> FALSE, hdr |-> 1, len |-> 0, body |-> 0]]
Live == {"connecting", "open", "stuck"}
\* tcp_close was called (its last ACK is still due: only tcp_err_cb can come), or freed
Gone == {"closing", "closed"}
Total(r) == r.hdr + r.body
Closed(c) == [conns EXCEPT ![c].phase = "closed"]

\* No call is under way, and no connection of an earlier one can start or deliver
\* anything any more.  It may be open still, close or fail: a finished transfer leaves
\* its connection so (http_get.c:290).
Quiet ==
  /\ stack = <<>> /\ dns = {}
  /\ \A c \in Calls : /\ conns[c].phase # "connecting"
                      /\ conns[c].phase = "open" => conns[c].pos = Total(conns[c].resp)
NoneOpen == \A c \in Calls : conns[c].phase # "open"

\* start_connect for the name asked by call c, on the context x: out of pcbs,
\* refused by tcp_connect (the pcb is never freed), or on its way.
StartConnect(x, c) ==
  \/ ctx' = Mark(x, "NOMEM") /\ UNCHANGED conns
  \/ /\ ctx' = Mark([x EXCEPT !.pcb = c, !.state = "CONNECT"], "CONNECT")
     /\ conns' = [conns EXCEPT ![c].phase = "stuck"]
  \/ /\ ctx' = [x EXCEPT !.pcb = c, !.state = "CONNECT"]
     /\ conns' = [conns EXCEPT ![c].phase = "connecting"]

-----------------------------------------------------------------------------
(* Parsing: feed_header_bytes and parse_response_headers *)

Unit(c, i) == <<c, i>>
Stretch(c, from, k) == [i \in 1 .. k |-> Unit(c, from + i)]

\* The status is read at the start of the buffer, Content-Length from the last
\* header line, the one that came with the terminator.
ParsedHeaders(x, h, r) ==
  LET first == h[1] IN
  [x EXCEPT !.hdr = h, !.state = "BODY", !.len = r.len,
            !.ok = first[2] = 1 /\ conns[first[1]].resp.ok]

\* How many of k units the header parser takes: up to its terminator, if it is there.
HeaderUnits(c, k) ==
  LET r == conns[c].resp   p == conns[c].pos IN
  IF p < r.hdr /\ r.hdr - p < k THEN r.hdr - p ELSE k

\* slip: one unit too many fits the buffer
FedPastEnd(x, c, k) ==
  LET n == HeaderUnits(c, k)
      h == x.hdr \o Stretch(c, conns[c].pos, n) IN
  IF Len(h) > HdrMax + 1 THEN [x EXCEPT !.result = "PARSE", !.state = "ERROR"]
  ELSE IF conns[c].pos + n = conns[c].resp.hdr THEN ParsedHeaders(x, h, conns[c].resp)
  ELSE [x EXCEPT !.hdr = h]

FedHeaders(x, c, k) ==
  LET n == HeaderUnits(c, k)
      h == x.hdr \o Stretch(c, conns[c].pos, n) IN
  IF Len(h) > HdrMax   \* overflow: the result is set, complete is not
  THEN [x EXCEPT !.hdr = SubSeq(h, 1, HdrMax), !.result = "PARSE", !.state = "ERROR"]
  ELSE IF conns[c].pos + n = conns[c].resp.hdr THEN ParsedHeaders(x, h, conns[c].resp)
  ELSE [x EXCEPT !.hdr = h]

\* slip: bytes past Content-Length are handed on
TakeAll(x, rest) == rest

\* The body units of a segment that are handed on.  content_length -
\* body_received is unsigned: once it wraps it bounds nothing.
Take(x, rest) ==
  IF x.len > 0 /\ x.got <= x.len /\ x.len - x.got < rest THEN x.len - x.got ELSE rest

\* slip: the end of a body is success whatever the status line said
WholeIsOk(x) == IF x.len > 0 /\ x.got = x.len THEN Mark(x, "OK") ELSE x

WholeBody(x) ==
  IF x.len > 0 /\ x.got = x.len THEN Mark(x, IF x.ok THEN "OK" ELSE "STATUS") ELSE x

-----------------------------------------------------------------------------
(* lwIP callbacks, all run inside cyw43_arch_poll *)

\* dns_cb
DnsAnswer(c) ==
  /\ c \in dns
  /\ dns' = dns \ {c}
  /\ \/ ctx' = Mark(ctx, "DNS") /\ UNCHANGED conns
     \/ StartConnect(ctx, c)
  /\ UNCHANGED <<stack, started, accepted, returned, alone, sole, late>>

\* tcp_connected_cb and send_request, which writes to the context's pcb, whichever
\* connection that is by now: the request of the context's owner may be queued
\* on another connection, on none, or fail.  A NULL pcb (one that another connection's
\* callback has cleared) tcp_write refuses (external): e is not ERR_OK, :210-212.
TcpConnected(c) ==
  /\ conns[c].phase = "connecting"
  /\ LET x == [ctx EXCEPT !.state = "HEADERS"]
         up == [conns EXCEPT ![c].phase = "open"] IN
     \/ ctx' = Mark(x, "NOMEM") /\ conns' = up
     \/ /\ x.pcb # None
        /\ ctx' = x
        /\ \E r \in Responses :
             conns' = IF conns[x.pcb].req # None \/ conns[x.pcb].phase = "stuck" THEN up
                      ELSE [up EXCEPT ![x.pcb].req = x.owner, ![x.pcb].resp = r]
  /\ UNCHANGED <<dns, stack, started, accepted, returned, alone, sole, late>>

\* tcp_recv_cb with data: k units of connection c.
TcpReceive(c, k) ==
  LET r == conns[c].resp
      p == conns[c].pos
      atHeaders == ~ctx.complete /\ ctx.state = "HEADERS"
      x == IF atHeaders THEN FedHeaders(ctx, c, k) ELSE ctx
      used == IF atHeaders THEN HeaderUnits(c, k) ELSE 0
      take == Take(x, k - used)   \* nothing, if the context already has its length
      body == ~x.complete /\ x.state = "BODY" /\ k > used IN
  /\ conns[c].phase = "open" /\ conns[c].req # None
  /\ k <= Total(r) - p
  /\ conns' = [conns EXCEPT ![c].pos = p + k]
  /\ \/ /\ ~body
        /\ ctx' = x
        /\ UNCHANGED accepted
     \/ /\ body
        /\ ctx' = WholeBody([x EXCEPT !.got = @ + take])
        /\ accepted' = [accepted EXCEPT ![x.owner] = @ \o Stretch(c, p + used, take)]
     \/ /\ body /\ take > 0         \* chunk_cb is called and returns false
        /\ ctx' = Mark(x, "ABORTED")
        /\ UNCHANGED accepted
  /\ UNCHANGED <<dns, stack, started, returned, alone, sole, late>>

\* slip: a closed connection is success once the status was good
CloseIsOk(x) == x.state = "BODY" /\ x.ok

\* What tcp_recv_cb asks of the transfer when the peer closes.
CloseOk(x) == x.state = "BODY" /\ (x.len = 0 \/ x.got = x.len) /\ x.ok

\* tcp_recv_cb with p == NULL: the peer closed.  tcp_close leaves the pcb with lwIP
\* until its own FIN is acknowledged, with the context and tcp_err_cb (:309-310).
PeerCloses(c) ==
  /\ conns[c].phase = "open"
  /\ ctx' = [Mark(ctx, IF CloseOk(ctx) THEN "OK"
                       ELSE IF ctx.ok THEN "ABORTED" ELSE "STATUS") EXCEPT !.pcb = None]
  /\ conns' = [conns EXCEPT ![c].phase = "closing"]
  /\ UNCHANGED <<dns, stack, started, accepted, returned, alone, sole, late>>

\* tcp_err_cb: a reset, or lwIP gave up, even on a pcb tcp_recv_cb has closed; it clears
\* the pcb of the context, whichever connection that is by now.
TcpError(c) ==
  /\ conns[c].phase \in {"connecting", "open", "closing"}
  /\ ctx' = Err(ctx)
  /\ conns' = Closed(c)
  /\ UNCHANGED <<dns, stack, started, accepted, returned, alone, sole, late>>

-----------------------------------------------------------------------------
(* http_get *)

Enter(c) ==
  /\ c = started + 1 /\ c \in Calls /\ Len(stack) < MaxDepth
  /\ started' = c
  /\ alone' = (IF Quiet THEN alone \cup {c} ELSE alone) \ Waiting
  /\ sole' = IF NoneOpen THEN sole \cup {c} ELSE sole
  /\ UNCHANGED <<accepted, late>>

\* An early return: the context is cleared, its callback installed, complete false.
Refused(c, r) ==
  /\ Enter(c)
  /\ ctx' = Fresh(c)
  /\ returned' = [returned EXCEPT ![c] = r]
  /\ UNCHANGED <<conns, dns, stack>>

\* parse_url refuses the URL.
BadUrl(c) == Refused(c, "PARSE")

\* dns_gethostbyname fails at once.
NoName(c) == Refused(c, "DNS")

\* The name is being looked up.
CallAsks(c) ==
  /\ Enter(c)
  /\ ctx' = Fresh(c)
  /\ dns' = dns \cup {c}
  /\ stack' = Append(stack, c)
  /\ UNCHANGED <<conns, returned>>

\* The name is cached: straight to start_connect.
CallConnects(c) ==
  /\ Enter(c)
  /\ StartConnect(Fresh(c), c)
  /\ stack' = Append(stack, c)
  /\ UNCHANGED <<dns, returned>>

Leave(r) ==
  /\ returned' = [returned EXCEPT ![Top] = r]
  /\ stack' = SubSeq(stack, 1, Len(stack) - 1)
  /\ UNCHANGED <<dns, started, accepted, alone, sole>>

\* The wait loop sees complete.
Return ==
  /\ stack # <<>> /\ ctx.complete
  /\ Leave(ctx.result)
  /\ UNCHANGED <<ctx, conns, late>>

\* slip: a caller that gives no timeout waits for lwIP alone
NoDeadline == FALSE

\* The wait loop sees the deadline: tcp_abort runs tcp_err_cb before it returns.
Deadline ==
  /\ stack # <<>> /\ ~ctx.complete
  /\ DnsOutlives \/ Top \notin dns
  /\ LET x == Mark(IF ctx.pcb # None THEN Err(ctx) ELSE ctx, "TIMEOUT") IN
     /\ ctx' = x
     /\ Leave(x.result)
  /\ conns' = IF ctx.pcb # None THEN Closed(ctx.pcb) ELSE conns
  /\ late' = late \cup {Top}

-----------------------------------------------------------------------------
Init ==
  /\ ctx = [Fresh(None) EXCEPT !.result = "OK"]   \* a static record: all zero
  /\ conns = [c \in Calls |-> NoConn]
  /\ dns = {} /\ stack = <<>> /\ started = 0
  /\ accepted = [c \in Calls |-> <<>>]
  /\ returned = [c \in Calls |-> "none"]
  /\ alone = {} /\ sole = {} /\ late = {}

Lwip == \E c \in Calls :
  \/ DnsAnswer(c) \/ TcpConnected(c) \/ PeerCloses(c) \/ TcpError(c)
  \/ \E k \in 1 .. Total(conns[c].resp) : TcpReceive(c, k)

Next == \/ Lwip
        \/ \E c \in Calls : BadUrl(c) \/ NoName(c) \/ CallAsks(c) \/ CallConnects(c)
        \/ Return
        \/ Deadline

Spec == Init /\ [][Next]_vars

\* The wait loop is never left to one side: it is what pumps everything else, and
\* lwIP answers or gives up every query (external).
FairSpec ==
  /\ Spec
  /\ WF_vars(Return) /\ WF_vars(Deadline)
  /\ \A c \in Calls : WF_vars(DnsAnswer(c))

-----------------------------------------------------------------------------
(* Properties *)

\* Types of the context, the connections and the histories; the header buffer is
\* never overrun (hdr_len of feed_header_bytes).
TypeOK ==
  /\ ctx \in Contexts /\ Len(ctx.hdr) <= HdrMax /\ conns \in [Calls -> Connections]
  /\ dns \subseteq Calls /\ stack \in Seq(Calls) /\ started \in 0 .. NCalls
  /\ accepted \in [Calls -> Seq(Units)]
  /\ returned \in [Calls -> Results \cup {"none"}]
  /\ alone \subseteq Calls /\ sole \subseteq Calls /\ late \subseteq Calls

\* However calls nest and whatever old connections do, the pcb the context holds is
\* one lwIP has not freed: tcp_abort (http_get.c:368) and tcp_write (:209) never use
\* a dangling pointer.
PcbIsLive == ctx.pcb # None => conns[ctx.pcb].phase \in Live

\* A call that began on a quiet client, and that no other call began inside of, gets the
\* body of its own response, in order and without a gap, and never more than
\* Content-Length promised.
OwnBodyInOrder ==
  \A c \in alone :
    LET r == conns[c].resp IN
    /\ \A i \in 1 .. Len(accepted[c]) : accepted[c][i] = Unit(c, r.hdr + i)
    /\ r.len > 0 => Len(accepted[c]) <= r.len

\* For such a call HTTP_OK means a 2xx answer to its own request, received whole when
\* the server said how long it is.  When it did not, the close is what ends the answer
\* (http_get.c:235-238), and any connection's close will do: only if none was open when
\* the call began is it the call's own, after everything that came.
OkMeansReceived ==
  \A c \in alone : returned[c] = "OK" =>
    LET r == conns[c].resp IN
    /\ conns[c].req = c /\ r.ok
    /\ r.len > 0 => Len(accepted[c]) = r.len
    /\ r.len = 0 /\ c \in sole =>
         conns[c].phase \in Gone /\ Len(accepted[c]) = conns[c].pos - r.hdr

\* What an undisturbed caller gets, also while connections of earlier calls close, are
\* reset or time out under it: its own body, in order, and OK only for all of it.  It says
\* nothing of a call that another one is nested into, or that begins while a name query,
\* a connection attempt or undelivered data of an earlier call is outstanding: those do
\* reach it, through the one static context.
AnswerIsOwn == OwnBodyInOrder /\ OkMeansReceived

\* Every call returns, also one whose server stalls or overflows the header buffer
\* (which sets no verdict).
EveryCallReturns == \A c \in Calls : (c \in Waiting) ~> (returned[c] # "none")

(* What the documentation says, and the code does not do *)

\* http_get.h:3-5: the caller sits on the thread until its whole body was received.
BodyOrError ==
  \A c \in Calls : returned[c] = "OK" =>
    conns[c].req = c /\ \A i \in 1 .. conns[c].resp.len :
                          \E j \in 1 .. Len(accepted[c]) :
                            accepted[c][j] = Unit(c, conns[c].resp.hdr + i)

\* http_get.c:233-234: a close is success if the whole body was received, and truncates
\* the transfer otherwise.
OkAtOwnClose ==
  \A c \in alone : returned[c] = "OK" /\ conns[c].resp.len = 0 => conns[c].phase \in Gone

\* http_get.h:3-5 again: chunk_cb runs while its caller is waiting, so its user
\* pointer (a local of the caller) is alive.
CallbackOnlyWhileWaiting ==
  [][\A c \in Calls : accepted'[c] # accepted[c] => c \in Waiting]_vars

\* http_get.h:29: HTTP_ERR_TIMEOUT is the overall deadline hit.
DeadlineSaysTimeout == \A c \in late : returned[c] = "TIMEOUT"
=============================================================================

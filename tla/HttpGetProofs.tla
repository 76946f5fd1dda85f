---------------------------- MODULE HttpGetProofs ----------------------------
(***************************************************************************)
(* Proofs about HttpGet, for any number of calls, any nesting, any answers *)
(* and any behaviour of the network: its types, with the bound of the      *)
(* header buffer; that the context never holds a freed pcb; and that an    *)
(* undisturbed caller gets its own answer and nothing else.                *)
(***************************************************************************)
EXTENDS HttpGet, SequenceTheorems, TLAPS

(* The operators on the context keep its type and its pcb *)

LEMMA MarkType ==
  ASSUME NEW x \in Contexts, NEW r \in Results
  PROVE  /\ Mark(x, r) \in Contexts
         /\ Mark(x, r).pcb = x.pcb /\ Mark(x, r).hdr = x.hdr
BY DEF Mark, Contexts, States, Results

LEMMA StretchType ==
  ASSUME NEW c \in Calls, NEW from \in Nat, NEW k \in Nat
  PROVE  /\ Stretch(c, from, k) \in Seq(Units)
         /\ Len(Stretch(c, from, k)) = k
BY DEF Stretch, Unit, Units

LEMMA HeaderUnitsType ==
  ASSUME NEW c \in Calls, conns \in [Calls -> Connections], NEW k \in Nat
  PROVE  HeaderUnits(c, k) \in 0 .. k
BY DEF HeaderUnits, Connections

LEMMA FedType ==
  ASSUME HttpAssumption, conns \in [Calls -> Connections], NEW x \in Contexts,
         Len(x.hdr) <= HdrMax, NEW c \in Calls, NEW k \in Nat
  PROVE  /\ FedHeaders(x, c, k) \in Contexts
         /\ FedHeaders(x, c, k).pcb = x.pcb
         /\ Len(FedHeaders(x, c, k).hdr) <= HdrMax
<1> DEFINE n == HeaderUnits(c, k)
           h == x.hdr \o Stretch(c, conns[c].pos, n)
<1>1. n \in Nat
  BY HeaderUnitsType
<1>2. conns[c].pos \in Nat /\ conns[c].resp \in [ok : BOOLEAN, hdr : Nat, len : Nat, body : Nat]
  BY DEF Connections
<1>3. x.hdr \in Seq(Units)
  BY DEF Contexts
<1> HIDE DEF n
<1>s. Stretch(c, conns[c].pos, n) \in Seq(Units)
  BY <1>1, <1>2, StretchType
<1>4. h \in Seq(Units)
  BY <1>s, <1>3
<1> HIDE DEF h
<1>5. CASE Len(h) > HdrMax
  <2> DEFINE y == [x EXCEPT !.hdr = SubSeq(h, 1, HdrMax), !.result = "PARSE", !.state = "ERROR"]
  <2>1. SubSeq(h, 1, HdrMax) \in Seq(Units) /\ Len(SubSeq(h, 1, HdrMax)) = HdrMax
    BY <1>4, <1>5 DEF HttpAssumption
  <2>2. FedHeaders(x, c, k) = y
    BY <1>5 DEF FedHeaders, n, h
  <2>3. y \in Contexts /\ y.pcb = x.pcb /\ y.hdr = SubSeq(h, 1, HdrMax)
    BY <2>1 DEF Contexts, Results, States
  <2> QED
    BY <2>1, <2>2, <2>3 DEF HttpAssumption
<1>6. CASE ~(Len(h) > HdrMax) /\ conns[c].pos + n = conns[c].resp.hdr
  <2> DEFINE r == conns[c].resp
             b == h[1][2] = 1 /\ conns[h[1][1]].resp.ok
             y == [x EXCEPT !.hdr = h, !.state = "BODY", !.len = r.len, !.ok = b]
  <2>1. b \in BOOLEAN
    OBVIOUS
  <2>2. FedHeaders(x, c, k) = y
    BY <1>6, Zenon DEF FedHeaders, n, h, ParsedHeaders
  <2> HIDE DEF b
  <2>3. y \in Contexts /\ y.pcb = x.pcb /\ y.hdr = h
    BY <2>1, <1>2, <1>4 DEF Contexts, States
  <2> QED
    BY <2>2, <2>3, <1>4, <1>6 DEF HttpAssumption
<1>7. CASE ~(Len(h) > HdrMax) /\ ~(conns[c].pos + n = conns[c].resp.hdr)
  <2> DEFINE y == [x EXCEPT !.hdr = h]
  <2>1. FedHeaders(x, c, k) = y
    BY <1>7, Zenon DEF FedHeaders, n, h
  <2>2. y \in Contexts /\ y.pcb = x.pcb /\ y.hdr = h
    BY <1>4 DEF Contexts
  <2> HIDE DEF y
  <2>3. Len(h) \in Nat
    BY <1>4
  <2>4. Len(h) <= HdrMax
    BY <1>7, <2>3 DEF HttpAssumption
  <2> QED
    BY <2>1, <2>2, <2>4, Zenon
<1> QED
  BY <1>4, <1>5, <1>6, <1>7 DEF HttpAssumption

LEMMA TakeType ==
  ASSUME NEW x \in Contexts, NEW rest \in Nat
  PROVE  Take(x, rest) \in Nat
BY DEF Take, Contexts

LEMMA WholeBodyType ==
  ASSUME NEW x \in Contexts
  PROVE  /\ WholeBody(x) \in Contexts
         /\ WholeBody(x).pcb = x.pcb /\ WholeBody(x).hdr = x.hdr
BY MarkType DEF WholeBody, Results

LEMMA ErrType ==
  ASSUME NEW x \in Contexts
  PROVE  Err(x) \in Contexts /\ Err(x).pcb = None /\ Err(x).hdr = x.hdr
<1> DEFINE y == [x EXCEPT !.pcb = None]
<1>1. y \in Contexts /\ y.pcb = None /\ y.hdr = x.hdr
  BY DEF Contexts
<1> QED
  BY <1>1, MarkType DEF Err, Results

LEMMA FreshType ==
  ASSUME NEW c \in Calls \cup {None}
  PROVE  Fresh(c) \in Contexts /\ Fresh(c).pcb = None /\ Fresh(c).hdr = <<>>
BY DEF Fresh, Contexts, States, Results

-----------------------------------------------------------------------------
(* The inductive invariant: types, and a live pcb.  Inv is the part that the   *)
(* actions on the context and the connections can disturb.                     *)

Core == /\ ctx \in Contexts /\ Len(ctx.hdr) <= HdrMax
        /\ conns \in [Calls -> Connections]
        /\ PcbIsLive
Rest == /\ dns \subseteq Calls /\ stack \in Seq(Calls) /\ started \in 0 .. NCalls
        /\ accepted \in [Calls -> Seq(Units)]
        /\ returned \in [Calls -> Results \cup {"none"}]
        /\ alone \subseteq Calls /\ sole \subseteq Calls /\ late \subseteq Calls

\* A context that keeps its pcb, over connections that only gain liveness.
LEMMA CoreKept ==
  ASSUME Core, ctx' \in Contexts, Len(ctx'.hdr) <= HdrMax, ctx'.pcb \in {ctx.pcb, None},
         conns' \in [Calls -> Connections],
         \A c \in Calls : conns[c].phase \in Live => conns'[c].phase \in Live
  PROVE  Core'
BY DEF Core, PcbIsLive, Contexts

LEMMA StartConnectKeeps ==
  ASSUME HttpAssumption, Core, NEW c \in Calls, NEW x \in Contexts,
         x.pcb \in {ctx.pcb, None}, Len(x.hdr) <= HdrMax, StartConnect(x, c)
  PROVE  Core'
<1> DEFINE y == [x EXCEPT !.pcb = c, !.state = "CONNECT"]
<1>1. y \in Contexts /\ y.pcb = c /\ y.hdr = x.hdr
  BY DEF Contexts, States
<1>2. CASE ctx' = Mark(x, "NOMEM") /\ UNCHANGED conns
  BY <1>2, CoreKept, MarkType DEF Core, Results
<1>3. ASSUME NEW p \in {"stuck", "connecting"}, conns' = [conns EXCEPT ![c].phase = p],
             ctx' \in {Mark(y, "CONNECT"), y}
      PROVE  Core'
  <2> DEFINE z == Mark(y, "CONNECT")
  <2> HIDE DEF y
  <2>0. z \in Contexts /\ z.pcb = y.pcb /\ z.hdr = y.hdr
    BY <1>1, MarkType DEF Results
  <2> HIDE DEF z
  <2>1. ctx' \in Contexts /\ ctx'.pcb = c /\ ctx'.hdr = x.hdr
    <3>1. CASE ctx' = z
      BY <1>1, <2>0, <3>1
    <3>2. CASE ctx' = y
      BY <1>1, <3>2
    <3> QED
      BY <1>3, <3>1, <3>2 DEF z
  <2>2. conns' \in [Calls -> Connections] /\ conns'[c].phase = p
    BY <1>3 DEF Core, Connections
  <2> QED
    BY <2>1, <2>2 DEF Core, PcbIsLive, Live
<1> QED
  BY <1>2, <1>3 DEF StartConnect

\* Closing the connection the context held, or any other, for good or with its last ACK due.
LEMMA ClosingKeeps ==
  ASSUME Core, NEW c \in Calls, NEW p \in Gone, conns' = [conns EXCEPT ![c].phase = p],
         ctx' \in Contexts, Len(ctx'.hdr) <= HdrMax, ctx'.pcb = None
  PROVE  Core'
BY DEF Core, Connections, PcbIsLive, Gone

-----------------------------------------------------------------------------
(* Each action keeps the invariant *)

LEMMA DnsAnswerKeeps ==
  ASSUME HttpAssumption, Core, Rest, NEW c \in Calls, DnsAnswer(c)
  PROVE  Core' /\ Rest'
<1>1. Rest'
  BY DEF DnsAnswer, Rest
<1>2. CASE ctx' = Mark(ctx, "DNS") /\ UNCHANGED conns
  <2>1. /\ ctx \in Contexts /\ Len(ctx.hdr) <= HdrMax /\ "DNS" \in Results
        /\ conns' \in [Calls -> Connections]
    BY <1>2 DEF Core, Results
  <2>2. ctx' \in Contexts /\ ctx'.pcb = ctx.pcb /\ ctx'.hdr = ctx.hdr
    BY <1>2, <2>1, MarkType
  <2> QED
    BY <1>2, <1>1, <2>1, <2>2, CoreKept
<1>3. CASE StartConnect(ctx, c)
  <2>1. ctx \in Contexts /\ Len(ctx.hdr) <= HdrMax
    BY DEF Core
  <2> QED
    BY <1>3, <1>1, <2>1, StartConnectKeeps
<1> QED
  BY <1>1, <1>2, <1>3 DEF DnsAnswer

LEMMA TcpConnectedKeeps ==
  ASSUME HttpAssumption, Core, Rest, NEW c \in Calls, TcpConnected(c)
  PROVE  Core' /\ Rest'
<1> DEFINE x == [ctx EXCEPT !.state = "HEADERS"]
           up == [conns EXCEPT ![c].phase = "open"]
<1>1. x \in Contexts /\ x.pcb = ctx.pcb /\ x.hdr = ctx.hdr /\ x.owner = ctx.owner
  BY DEF Core, Contexts, States
<1>2. up \in [Calls -> Connections]
  BY DEF Core, Connections
<1>3. \A d \in Calls : conns[d].phase \in Live => up[d].phase \in Live
  BY DEF Core, Connections, Live
<1>4. Rest'
  BY DEF TcpConnected, Rest
<1>5. CASE ctx' = Mark(x, "NOMEM") /\ conns' = up
  <2> HIDE DEF up, x
  <2> QED
    BY <1>1, <1>2, <1>3, <1>4, <1>5, CoreKept, MarkType DEF Core, Results
<1>6. CASE ctx' = x /\ conns' = up
  <2> HIDE DEF up, x
  <2> QED
    BY <1>1, <1>2, <1>3, <1>4, <1>6, CoreKept DEF Core
<1>7. ASSUME x.pcb # None, ctx' = x, NEW r \in Responses,
             conns' = [up EXCEPT ![x.pcb].req = x.owner, ![x.pcb].resp = r]
      PROVE  Core'
  <2>1. r \in [ok : BOOLEAN, hdr : Nat, len : Nat, body : Nat]
    BY DEF HttpAssumption
  <2>2. x.pcb \in Calls /\ x.owner \in Calls \cup {None}
    BY <1>1, <1>7 DEF Contexts
  <2> HIDE DEF up, x
  <2>3. conns' \in [Calls -> Connections]
    BY <1>2, <1>7, <2>1, <2>2 DEF Connections
  <2>4. \A d \in Calls : conns'[d].phase = up[d].phase
    BY <1>2, <1>7, <2>2 DEF Connections
  <2> QED
    BY <1>1, <1>3, <1>7, <2>3, <2>4, CoreKept DEF Core
<1> QED
  BY <1>4, <1>5, <1>6, <1>7 DEF TcpConnected

LEMMA TcpReceiveKeeps ==
  ASSUME HttpAssumption, Core, Rest, NEW c \in Calls, NEW k \in Nat, TcpReceive(c, k)
  PROVE  Core' /\ Rest'
<1> DEFINE p == conns[c].pos
           atHeaders == ~ctx.complete /\ ctx.state = "HEADERS"
           x == IF atHeaders THEN FedHeaders(ctx, c, k) ELSE ctx
           used == IF atHeaders THEN HeaderUnits(c, k) ELSE 0
           take == Take(x, k - used)
           y == [x EXCEPT !.got = @ + take]
<1>1. x \in Contexts /\ x.pcb = ctx.pcb /\ Len(x.hdr) <= HdrMax
  BY FedType DEF Core
<1>2. used \in 0 .. k
  BY HeaderUnitsType DEF Core
<1>3. p \in Nat
  BY DEF Core, Connections
<1>c. conns' = [conns EXCEPT ![c].pos = p + k]
  BY DEF TcpReceive
<1> HIDE DEF x, used
<1>4. take \in Nat
  BY <1>1, <1>2, TakeType
<1> HIDE DEF take
<1>5. y \in Contexts /\ y.pcb = x.pcb /\ y.hdr = x.hdr
  BY <1>1, <1>4 DEF Contexts
<1> HIDE DEF y
<1>7. /\ conns' \in [Calls -> Connections]
      /\ \A d \in Calls : conns'[d].phase = conns[d].phase
  <2> HIDE DEF p
  <2>1. p + k \in Nat
    BY <1>3
  <2> QED
    BY <1>c, <2>1 DEF Core, Connections
<1>8. /\ ctx' \in {x, WholeBody(y), Mark(x, "ABORTED")}
      /\ accepted' \in {accepted, [accepted EXCEPT ![x.owner] = @ \o Stretch(c, p + used, take)]}
  BY DEF TcpReceive, x, used, take, y
<1>9. ctx' \in Contexts /\ ctx'.pcb = ctx.pcb /\ Len(ctx'.hdr) <= HdrMax
  BY <1>1, <1>5, <1>8, MarkType, WholeBodyType DEF Results
<1>10. Core'
  BY <1>7, <1>9, CoreKept DEF Core
<1>11. accepted' \in [Calls -> Seq(Units)]
  <2>0. p + used \in Nat
    BY <1>2, <1>3
  <2>1. Stretch(c, p + used, take) \in Seq(Units)
    BY <1>4, <2>0, StretchType
  <2> DEFINE S == Stretch(c, p + used, take)
  <2> HIDE DEF S
  <2>2. accepted \in [Calls -> Seq(Units)]
    BY DEF Rest
  <2>3. ASSUME NEW d \in Calls PROVE accepted[d] \o S \in Seq(Units)
    BY <2>1, <2>2 DEF S
  <2>4. [accepted EXCEPT ![x.owner] = @ \o S] \in [Calls -> Seq(Units)]
    BY <2>2, <2>3
  <2> QED
    BY <1>8, <2>2, <2>4 DEF S
<1> QED
  BY <1>10, <1>11 DEF TcpReceive, Rest

LEMMA PeerClosesKeeps ==
  ASSUME HttpAssumption, Core, Rest, NEW c \in Calls, PeerCloses(c)
  PROVE  Core' /\ Rest'
<1> DEFINE r == IF CloseOk(ctx) THEN "OK" ELSE IF ctx.ok THEN "ABORTED" ELSE "STATUS"
           y == Mark(ctx, r)
<1>1. r \in Results
  BY DEF Results
<1> HIDE DEF r
<1>2. y \in Contexts /\ y.hdr = ctx.hdr
  BY <1>1, MarkType DEF Core
<1> HIDE DEF y
<1>3. ctx' = [y EXCEPT !.pcb = None]
  BY DEF PeerCloses, y, r
<1>4. ctx' \in Contexts /\ ctx'.pcb = None /\ ctx'.hdr = ctx.hdr
  BY <1>2, <1>3 DEF Contexts
<1> QED
  BY <1>4, ClosingKeeps DEF PeerCloses, Rest, Core, Gone

LEMMA TcpErrorKeeps ==
  ASSUME HttpAssumption, Core, Rest, NEW c \in Calls, TcpError(c)
  PROVE  Core' /\ Rest'
BY ErrType, ClosingKeeps DEF TcpError, Closed, Rest, Core, Gone

LEMMA EnterKeeps ==
  ASSUME HttpAssumption, Rest, NEW c \in Calls, Enter(c)
  PROVE  /\ started' \in 0 .. NCalls /\ accepted' = accepted
         /\ alone' \subseteq Calls /\ sole' \subseteq Calls /\ late' = late
<1>1. started' = c /\ accepted' = accepted /\ late' = late
  BY DEF Enter
<1>2. /\ alone' = (IF Quiet THEN alone \cup {c} ELSE alone) \ Waiting
      /\ sole' = IF NoneOpen THEN sole \cup {c} ELSE sole
  BY DEF Enter
<1>3. alone \subseteq Calls /\ sole \subseteq Calls
  BY DEF Rest
<1>4. c \in 0 .. NCalls
  BY DEF Calls, HttpAssumption
<1> QED
  BY <1>1, <1>2, <1>3, <1>4

LEMMA CallKeeps ==
  ASSUME HttpAssumption, Core, Rest, NEW c \in Calls,
         BadUrl(c) \/ NoName(c) \/ CallAsks(c) \/ CallConnects(c)
  PROVE  Core' /\ Rest'
<1>1. Fresh(c) \in Contexts /\ Fresh(c).pcb = None /\ Len(Fresh(c).hdr) <= HdrMax
  BY FreshType DEF HttpAssumption
<1>2. Append(stack, c) \in Seq(Calls)
  BY DEF Rest
<1>3. CASE BadUrl(c) \/ NoName(c)
  BY <1>1, <1>3, EnterKeeps, CoreKept DEF BadUrl, NoName, Refused, Core, Rest, Results
<1>4. CASE CallAsks(c)
  BY <1>1, <1>2, <1>4, EnterKeeps, CoreKept DEF CallAsks, Core, Rest
<1>5. CASE CallConnects(c)
  BY <1>1, <1>2, <1>5, EnterKeeps, StartConnectKeeps DEF CallConnects, Rest
<1> QED
  BY <1>3, <1>4, <1>5

LEMMA LeaveKeeps ==
  ASSUME Rest, NEW r \in Results, stack # <<>>, Leave(r),
         late' = late \/ late' = late \cup {Top}
  PROVE  Rest'
<1>1. Top \in Calls /\ SubSeq(stack, 1, Len(stack) - 1) \in Seq(Calls)
  BY DEF Rest, Top
<1> QED
  BY <1>1 DEF Leave, Rest

LEMMA ReturnKeeps ==
  ASSUME HttpAssumption, Core, Rest, Return
  PROVE  Core' /\ Rest'
<1>1. ctx.result \in Results
  BY DEF Core, Contexts
<1> QED
  BY <1>1, LeaveKeeps DEF Return, Core, PcbIsLive

LEMMA DeadlineKeeps ==
  ASSUME HttpAssumption, Core, Rest, Deadline
  PROVE  Core' /\ Rest'
<1> DEFINE z == IF ctx.pcb # None THEN Err(ctx) ELSE ctx
           x == Mark(z, "TIMEOUT")
<1>1. z \in Contexts /\ z.pcb = None /\ z.hdr = ctx.hdr
  BY ErrType DEF Core
<1> HIDE DEF z
<1>2. x \in Contexts /\ x.pcb = None /\ x.hdr = ctx.hdr
  BY <1>1, MarkType DEF Results
<1> HIDE DEF x
<1>3. /\ ctx' = x /\ Leave(x.result) /\ late' = late \cup {Top} /\ stack # <<>>
      /\ conns' = IF ctx.pcb # None THEN Closed(ctx.pcb) ELSE conns
  BY DEF Deadline, x, z
<1>4. ctx.pcb # None => ctx.pcb \in Calls
  BY DEF Core, Contexts
<1>5. Core'
  <2>1. CASE ctx.pcb # None
    BY <1>2, <1>3, <1>4, <2>1, ClosingKeeps DEF Core, Closed, Gone
  <2>2. CASE ctx.pcb = None
    BY <1>2, <1>3, <2>2, CoreKept DEF Core
  <2> QED
    BY <2>1, <2>2
<1>6. x.result \in Results
  BY <1>2 DEF Contexts
<1> QED
  BY <1>3, <1>5, <1>6, LeaveKeeps

-----------------------------------------------------------------------------
LEMMA InitHolds ==
  ASSUME HttpAssumption, Init
  PROVE  Core /\ Rest
<1> DEFINE f == Fresh(None)
<1>1. f \in Contexts /\ f.pcb = None /\ f.hdr = <<>>
  BY FreshType
<1> HIDE DEF f
<1>2. ctx = [f EXCEPT !.result = "OK"]
  BY DEF Init, f
<1>3. ctx \in Contexts /\ ctx.pcb = None /\ ctx.hdr = <<>>
  BY <1>1, <1>2 DEF Contexts, Results
<1>4. conns \in [Calls -> Connections]
  BY DEF Init, NoConn, Connections
<1> QED
  BY <1>3, <1>4 DEF Init, Core, Rest, PcbIsLive, HttpAssumption, Results

LEMMA StepKeeps ==
  ASSUME HttpAssumption, Core, Rest, [Next]_vars
  PROVE  Core' /\ Rest'
<1>1. CASE Lwip
  <2>1. \A c \in Calls : 1 .. Total(conns[c].resp) \subseteq Nat
    OBVIOUS
  <2> QED
    BY <1>1, <2>1, DnsAnswerKeeps, TcpConnectedKeeps, PeerClosesKeeps, TcpErrorKeeps,
       TcpReceiveKeeps DEF Lwip
<1>2. CASE \E c \in Calls : BadUrl(c) \/ NoName(c) \/ CallAsks(c) \/ CallConnects(c)
  BY <1>2, CallKeeps
<1>3. CASE Return
  BY <1>3, ReturnKeeps
<1>4. CASE Deadline
  BY <1>4, DeadlineKeeps
<1>5. CASE UNCHANGED vars
  BY <1>5 DEF vars, Core, Rest, PcbIsLive
<1> QED
  BY <1>1, <1>2, <1>3, <1>4, <1>5 DEF Next

\* Types hold and the header buffer is never overrun, whatever servers send.
THEOREM HttpTypeCorrect == Spec => []TypeOK
<1>1. Init => Core /\ Rest
  BY InitHolds, HttpAssumption
<1>2. Core /\ Rest /\ [Next]_vars => Core' /\ Rest'
  BY StepKeeps, HttpAssumption
<1>3. Core /\ Rest => TypeOK
  BY DEF Core, Rest, TypeOK
<1> QED
  BY <1>1, <1>2, <1>3, PTL DEF Spec

\* The pcb of the context is never one lwIP has freed, however calls nest, overlap
\* and leave connections behind.
THEOREM HttpPcbIsLive == Spec => []PcbIsLive
<1>1. Init => Core /\ Rest
  BY InitHolds, HttpAssumption
<1>2. Core /\ Rest /\ [Next]_vars => Core' /\ Rest'
  BY StepKeeps, HttpAssumption
<1>3. Core /\ Rest => PcbIsLive
  BY DEF Core
<1> QED
  BY <1>1, <1>2, <1>3, PTL DEF Spec
-----------------------------------------------------------------------------
(* The answer of an undisturbed call is its own.                            *)
(*                                                                          *)
(* Present says how far the transfer of the last call has come, when that   *)
(* call began on a quiet client: of the other connections lwIP may only say *)
(* that they closed or failed.  Past is what a call of that kind keeps once *)
(* other calls have taken the context over.                                 *)

\* Of a call that has not begun nothing is known, and the context is the last call's.
Order ==
  /\ \A c \in Calls : c > started =>
       /\ conns[c] = NoConn /\ c \notin dns /\ c \notin alone /\ c \notin sole
       /\ accepted[c] = <<>> /\ returned[c] = "none"
  /\ ctx.owner = started
  /\ \A c \in Waiting : c <= started /\ (c \in alone => c = started)

\* A connection that has not begun carries nothing; the name comes before it.
FreeIsEmpty ==
  \A c \in Calls : /\ c \in dns => conns[c].phase = "free"
                   /\ conns[c].phase = "free" => conns[c].req = None /\ conns[c].pos = 0

OwnUnits(c) ==
  LET r == conns[c].resp IN
  /\ \A i \in 1 .. Len(accepted[c]) : accepted[c][i] = Unit(c, r.hdr + i)
  /\ r.len > 0 => Len(accepted[c]) <= r.len
  /\ accepted[c] # <<>> => conns[c].req # None

Received(c) ==
  LET r == conns[c].resp IN
  /\ conns[c].req = c /\ r.ok
  /\ r.len > 0 => Len(accepted[c]) = r.len
  /\ r.len = 0 /\ c \in sole =>
       conns[c].phase \in Gone /\ Len(accepted[c]) = conns[c].pos - r.hdr

PastOf(c) == OwnUnits(c) /\ (returned[c] = "OK" => Received(c))
Past == \A c \in alone : PastOf(c)

\* The connections of other calls are not being made, and deliver nothing more.
OthersSilent(o) ==
  \A c \in Calls \ {o} :
    /\ conns[c].phase # "connecting"
    /\ conns[c].phase = "open" => o \notin sole /\ conns[c].pos = Total(conns[c].resp)

OnlyOwn(o) ==
  /\ dns \subseteq {o} /\ stack \in {<<>>, <<o>>} /\ ctx.pcb \in {None, o}
  /\ OthersSilent(o)
  /\ (ctx.complete /\ ctx.result = "OK") => Received(o)
  /\ ~ctx.complete => returned[o] # "OK"
  /\ (conns[o].phase = "connecting" /\ ~ctx.complete) =>
       conns[o].req = None /\ conns[o].pos = 0 /\ ctx.pcb = o

NothingYet(o) == accepted[o] = <<>> /\ ctx.got = 0 /\ ~ctx.ok

InHeaders(o) ==
  /\ conns[o].req = o /\ Len(ctx.hdr) = conns[o].pos /\ conns[o].pos < conns[o].resp.hdr
  /\ \A i \in 1 .. Len(ctx.hdr) : ctx.hdr[i] = Unit(o, i)

InBody(o) ==
  LET r == conns[o].resp IN
  /\ conns[o].req = o /\ ctx.ok = r.ok /\ ctx.len = r.len
  /\ ctx.got = Len(accepted[o]) /\ conns[o].pos = r.hdr + ctx.got
  /\ ctx.len > 0 => ctx.got < ctx.len

UnderWay(o) ==
  ~ctx.complete =>
    \/ /\ ctx.state \in {"INIT", "CONNECT"} /\ conns[o].phase # "open"
       /\ ctx.hdr = <<>> /\ NothingYet(o)
    \/ /\ ctx.state = "HEADERS" /\ conns[o].phase = "open"
       /\ InHeaders(o) /\ NothingYet(o)
    \/ ctx.state = "BODY" /\ conns[o].phase = "open" /\ InBody(o)
    \/ ctx.state = "ERROR" /\ conns[o].phase = "open" /\ NothingYet(o)

Present == \A o \in alone : o = ctx.owner => OnlyOwn(o) /\ UnderWay(o)

-----------------------------------------------------------------------------
(* The connections *)

\* What no step does to a connection that carries a request, or is closed
ConnsKept ==
  \A c \in Calls :
    /\ conns[c].req # None =>
         conns'[c].req = conns[c].req /\ conns'[c].resp = conns[c].resp
    /\ conns[c].phase \in Gone =>
         conns'[c].phase \in Gone /\ conns'[c].pos = conns[c].pos

LEMMA MarkEffect ==
  ASSUME NEW x \in Contexts, NEW r \in Results
  PROVE  /\ Mark(x, r) \in Contexts /\ Mark(x, r).owner = x.owner /\ Mark(x, r).pcb = x.pcb
         /\ Mark(x, r).complete
         /\ x.complete => Mark(x, r) = x
         /\ ~x.complete => Mark(x, r).result = r
BY DEF Mark, Contexts, States, Results

\* A verdict that is not OK, on a context that is not OK
LEMMA MarkNotOk ==
  ASSUME NEW x \in Contexts, NEW r \in Results \ {"OK"}, x.complete => x.result # "OK"
  PROVE  Mark(x, r).complete /\ Mark(x, r).result # "OK" /\ Mark(x, r).pcb = x.pcb
BY MarkEffect

LEMMA StartConnectConns ==
  ASSUME Core, FreeIsEmpty, NEW c \in Calls, NEW x \in Contexts, conns[c].phase = "free",
         StartConnect(x, c)
  PROVE  /\ ConnsKept
         /\ \A d \in Calls \ {c} : conns'[d] = conns[d]
         /\ conns'[c].phase = "free" => conns'[c] = conns[c]
         /\ conns'[c].req = None /\ conns'[c].pos = 0 /\ conns'[c].phase # "open"
         /\ ctx'.owner = x.owner
<1>1. conns \in [Calls -> Connections]
  BY DEF Core
<1>2. conns[c].req = None /\ conns[c].pos = 0
  BY DEF FreeIsEmpty
<1>3. ASSUME NEW p \in {"stuck", "connecting"}, conns' = [conns EXCEPT ![c].phase = p]
      PROVE  /\ \A d \in Calls \ {c} : conns'[d] = conns[d]
             /\ conns'[c].phase = p /\ conns'[c].req = None /\ conns'[c].pos = 0
  BY <1>1, <1>2, <1>3 DEF Connections
<1>4. /\ \A d \in Calls \ {c} : conns'[d] = conns[d]
      /\ conns'[c].phase \in {"free", "stuck", "connecting"}
      /\ conns'[c].phase = "free" => conns'[c] = conns[c]
      /\ conns'[c].req = None /\ conns'[c].pos = 0
  BY <1>1, <1>2, <1>3 DEF StartConnect
<1>5. ConnsKept
  BY <1>2, <1>4 DEF ConnsKept, Gone
<1>6. ctx'.owner = x.owner
  <2> DEFINE y == [x EXCEPT !.pcb = c, !.state = "CONNECT"]
  <2>1. y \in Contexts /\ y.owner = x.owner
    BY DEF Contexts, States
  <2>2. ctx' \in {Mark(x, "NOMEM"), Mark(y, "CONNECT"), y}
    BY DEF StartConnect
  <2> HIDE DEF y
  <2> QED BY <2>1, <2>2, MarkEffect DEF Results
<1> QED BY <1>4, <1>5, <1>6

LEMMA ClosedConns ==
  ASSUME Core, FreeIsEmpty, NEW c \in Calls, conns[c].phase # "free", NEW p \in Gone,
         conns' = [conns EXCEPT ![c].phase = p]
  PROVE  /\ ConnsKept /\ \A d \in Calls \ {c} : conns'[d] = conns[d]
         /\ conns'[c].phase = p /\ conns'[c].pos = conns[c].pos
         /\ conns'[c].req = conns[c].req /\ conns'[c].resp = conns[c].resp
<1>1. conns \in [Calls -> Connections]
  BY DEF Core
<1>2. /\ \A d \in Calls \ {c} : conns'[d] = conns[d]
      /\ conns'[c].phase = p /\ conns'[c].pos = conns[c].pos
      /\ conns'[c].req = conns[c].req /\ conns'[c].resp = conns[c].resp
  BY <1>1 DEF Connections
<1> QED BY <1>2 DEF ConnsKept

(* What a step that respects the connections leaves of a call's record *)
LEMMA PastKept ==
  ASSUME Core, ConnsKept, NEW c \in Calls, conns' \in [Calls -> Connections],
         c \in sole' => c \in sole, accepted'[c] = accepted[c], returned'[c] = "OK" => returned[c] = "OK", PastOf(c)
  PROVE  PastOf(c)'
<1>1. conns[c] \in Connections /\ conns'[c] \in Connections
  BY DEF Core
<1>2. CASE conns[c].req = None
  <2>1. accepted[c] = <<>> /\ returned'[c] # "OK"
    BY <1>2 DEF PastOf, OwnUnits, Received, Calls, None
  <2>2. Len(accepted'[c]) = 0 /\ conns'[c].resp.len \in Nat
    BY <1>1, <2>1 DEF Connections
  <2> QED BY <2>1, <2>2 DEF PastOf, OwnUnits
<1>3. CASE conns[c].req # None
  BY <1>3 DEF ConnsKept, PastOf, OwnUnits, Received
<1> QED BY <1>2, <1>3

LEMMA ReceivedKept ==
  ASSUME ConnsKept, NEW c \in Calls, UNCHANGED sole, accepted'[c] = accepted[c], Received(c)
  PROVE  Received(c)'
BY DEF ConnsKept, Received, Calls, None

\* Of the other connections, what becomes of them is that they are gone.
LEMMA OthersKept ==
  ASSUME NEW o \in Calls, OthersSilent(o), UNCHANGED sole,
         \A d \in Calls \ {o} : conns'[d] = conns[d] \/ conns'[d].phase \in Gone
  PROVE  OthersSilent(o)'
BY DEF OthersSilent, Gone

-----------------------------------------------------------------------------
(* Callbacks: a name is answered, a connection is up, closed or in error *)

Whole == HttpAssumption /\ Core /\ Rest /\ Order /\ FreeIsEmpty /\ Past /\ Present

\* The histories, and the calls under way, are as they were.
Unmoved == UNCHANGED <<stack, started, accepted, returned, alone, sole, late>>

LEMMA OrderKept ==
  ASSUME Order, Unmoved, ctx'.owner = ctx.owner, dns' \subseteq dns,
         \A c \in Calls : conns[c] = NoConn /\ c \notin dns => conns'[c] = conns[c]
  PROVE  Order'
<1>1. \A c \in Calls : c > started => conns'[c] = NoConn
  BY DEF Order
<1> QED BY <1>1 DEF Order, Unmoved, Waiting

LEMMA AllPastKept ==
  ASSUME Core, Rest, ConnsKept, conns' \in [Calls -> Connections], Past, Unmoved
  PROVE  Past'
<1>1. \A c \in alone : PastOf(c)'
  BY PastKept DEF Unmoved, Past, Rest
<1> QED BY <1>1 DEF Past, Unmoved

LEMMA DnsAnswerOwn ==
  ASSUME Whole, NEW c \in Calls, DnsAnswer(c)
  PROVE  Order' /\ FreeIsEmpty' /\ Past' /\ Present'
<1>1. /\ c \in dns /\ dns' = dns \ {c} /\ Unmoved
      /\ \/ ctx' = Mark(ctx, "DNS") /\ UNCHANGED conns
         \/ StartConnect(ctx, c)
  BY DEF DnsAnswer, Unmoved
<1>2. /\ ctx \in Contexts /\ conns \in [Calls -> Connections]
      /\ conns[c].phase = "free" /\ conns[c].req = None /\ conns[c].pos = 0
      /\ Core' /\ conns' \in [Calls -> Connections]
  BY <1>1, DnsAnswerKeeps DEF Whole, Core, FreeIsEmpty
<1>3. /\ ConnsKept /\ ctx'.owner = ctx.owner
      /\ \A d \in Calls \ {c} : conns'[d] = conns[d]
      /\ conns'[c].phase = "free" => conns'[c] = conns[c]
      /\ conns'[c].req = None /\ conns'[c].pos = 0 /\ conns'[c].phase # "open"
  <2>1. CASE ctx' = Mark(ctx, "DNS") /\ UNCHANGED conns
    BY <1>2, <2>1, MarkEffect DEF ConnsKept, Results
  <2>2. CASE StartConnect(ctx, c)
    BY <1>2, <2>2, StartConnectConns DEF Whole
  <2> QED BY <1>1, <2>1, <2>2
<1>4. Past'
  BY <1>1, <1>2, <1>3, AllPastKept DEF Whole
<1>5. FreeIsEmpty'
  BY <1>1, <1>2, <1>3 DEF Whole, FreeIsEmpty
<1>6. Order'
  BY <1>1, <1>3, OrderKept DEF Whole
<1>7. Present'
  <2> SUFFICES ASSUME NEW o \in alone, o = ctx.owner PROVE OnlyOwn(o)' /\ UnderWay(o)'
    BY <1>1, <1>3 DEF Present, Unmoved
  <2>1. OnlyOwn(o) /\ UnderWay(o) /\ o = c /\ o \in Calls
    BY <1>1 DEF Whole, Present, OnlyOwn, Rest
  <2>2. dns' \subseteq {o} /\ stack' \in {<<>>, <<o>>} /\ accepted' = accepted
        /\ OthersSilent(o)' /\ returned' = returned
    BY <1>1, <1>3, <2>1, OthersKept DEF OnlyOwn, Unmoved
  <2>3. ~Received(o)
    BY <1>2, <2>1 DEF Received, Calls, None
  <2>4. ctx.complete => ctx.result # "OK"
    BY <2>1, <2>3 DEF OnlyOwn
  <2>5. ~ctx.complete =>
          ctx.state \in {"INIT", "CONNECT"} /\ ctx.hdr = <<>> /\ NothingYet(o)
    BY <1>2, <2>1 DEF UnderWay
  <2>6. ASSUME ctx'.complete, ctx'.result # "OK", ctx'.pcb \in {None, o}
        PROVE  OnlyOwn(o)' /\ UnderWay(o)'
    BY <2>2, <2>6 DEF OnlyOwn, UnderWay
  <2>7. CASE ctx' \in {Mark(ctx, "DNS"), Mark(ctx, "NOMEM")}
    <3>1. ctx'.complete /\ ctx'.result # "OK" /\ ctx'.pcb = ctx.pcb
      <4>1. "DNS" \in Results \ {"OK"} /\ "NOMEM" \in Results \ {"OK"}
        BY DEF Results
      <4> QED BY <1>2, <2>4, <2>7, <4>1, MarkNotOk
    <3> QED BY <2>1, <2>6, <3>1 DEF OnlyOwn
  <2> DEFINE y == [ctx EXCEPT !.pcb = c, !.state = "CONNECT"]
  <2>8. /\ y \in Contexts /\ y.pcb = o /\ y.state = "CONNECT" /\ y.complete = ctx.complete
        /\ y.result = ctx.result /\ y.hdr = ctx.hdr /\ y.got = ctx.got /\ y.ok = ctx.ok
    BY <1>2, <2>1 DEF Contexts, States
  <2>9. CASE ctx' = Mark(y, "CONNECT")
    <3> HIDE DEF y
    <3>1. ctx'.complete /\ ctx'.result # "OK" /\ ctx'.pcb = o
      <4>1. "CONNECT" \in Results \ {"OK"}
        BY DEF Results
      <4>2. Mark(y, "CONNECT").complete /\ Mark(y, "CONNECT").result # "OK"
            /\ Mark(y, "CONNECT").pcb = y.pcb
        BY <2>4, <2>8, <4>1, MarkNotOk
      <4> QED BY <2>8, <2>9, <4>2
    <3> QED BY <2>6, <3>1
  <2>10. CASE ctx' = y
    <3> HIDE DEF y
    <3>1. OnlyOwn(o)'
      BY <1>3, <2>1, <2>2, <2>4, <2>8, <2>10 DEF OnlyOwn
    <3>2. UnderWay(o)'
      BY <1>3, <2>1, <2>2, <2>5, <2>8, <2>10 DEF UnderWay, NothingYet
    <3> QED BY <3>1, <3>2
  <2>11. ctx' \in {Mark(ctx, "DNS"), Mark(ctx, "NOMEM"), Mark(y, "CONNECT"), y}
    BY <1>1 DEF StartConnect
  <2> QED BY <2>7, <2>9, <2>10, <2>11
<1> QED BY <1>4, <1>5, <1>6, <1>7

LEMMA TcpConnectedOwn ==
  ASSUME Whole, NEW c \in Calls, TcpConnected(c)
  PROVE  Order' /\ FreeIsEmpty' /\ Past' /\ Present'
<1> DEFINE x == [ctx EXCEPT !.state = "HEADERS"]
           up == [conns EXCEPT ![c].phase = "open"]
<1>1. /\ conns[c].phase = "connecting" /\ UNCHANGED dns /\ Unmoved
      /\ ctx \in Contexts /\ conns \in [Calls -> Connections]
      /\ Core' /\ conns' \in [Calls -> Connections]
  BY TcpConnectedKeeps DEF TcpConnected, Unmoved, Whole, Core
<1>2. /\ x \in Contexts /\ x.pcb = ctx.pcb /\ x.owner = ctx.owner /\ x.complete = ctx.complete
      /\ x.result = ctx.result /\ x.hdr = ctx.hdr /\ x.got = ctx.got /\ x.ok = ctx.ok
      /\ x.state = "HEADERS"
  BY <1>1 DEF Contexts, States
<1>3. /\ up \in [Calls -> Connections]
      /\ \A d \in Calls \ {c} : up[d] = conns[d]
      /\ up[c].phase = "open" /\ up[c].req = conns[c].req /\ up[c].pos = conns[c].pos
      /\ up[c].resp = conns[c].resp
  BY <1>1 DEF Connections
<1>4. \/ ctx' = Mark(x, "NOMEM") /\ conns' = up
      \/ /\ x.pcb # None /\ ctx' = x
         /\ \E r \in Responses :
              conns' = IF conns[x.pcb].req # None \/ conns[x.pcb].phase = "stuck" THEN up
                       ELSE [up EXCEPT ![x.pcb].req = x.owner, ![x.pcb].resp = r]
  BY DEF TcpConnected
<1>p. x.pcb # None => x.pcb \in Calls /\ conns[x.pcb].phase \in Live
  BY <1>2 DEF Whole, Core, PcbIsLive, Contexts
<1> HIDE DEF x, up
<1>5. /\ \A d \in Calls : conns'[d].phase = up[d].phase /\ conns'[d].pos = up[d].pos
      /\ \A d \in Calls : \/ conns'[d] = up[d]
                          \/ d = x.pcb /\ conns[d].req = None
  <2>1. CASE conns' = up
    BY <2>1
  <2>2. ASSUME NEW r \in Responses, x.pcb # None, conns[x.pcb].req = None,
               conns' = [up EXCEPT ![x.pcb].req = x.owner, ![x.pcb].resp = r]
        PROVE  /\ \A d \in Calls : conns'[d].phase = up[d].phase /\ conns'[d].pos = up[d].pos
               /\ \A d \in Calls : d # x.pcb => conns'[d] = up[d]
    BY <1>p, <1>3, <2>2 DEF Connections
  <2> QED BY <1>4, <2>1, <2>2
<1>6. ConnsKept
  <2>1. \A d \in Calls : conns[d].req # None => conns'[d] = up[d]
    BY <1>5
  <2>2. \A d \in Calls : conns[d].phase \in Gone => d # c
    BY <1>1 DEF Gone
  <2> QED BY <1>1, <1>3, <1>5, <2>1, <2>2 DEF ConnsKept
<1>7. ctx'.owner = ctx.owner
  BY <1>2, <1>4, MarkEffect DEF Results
<1>8. Past'
  BY <1>1, <1>6, AllPastKept DEF Whole
<1>9. \A d \in Calls : conns[d].phase = "free" => conns'[d] = conns[d]
  <2> SUFFICES ASSUME NEW d \in Calls, conns[d].phase = "free" PROVE conns'[d] = conns[d]
    OBVIOUS
  <2>1. d # c /\ d # x.pcb
    BY <1>1, <1>p DEF Live, Calls, None
  <2> QED BY <1>3, <1>5, <2>1
<1>10. FreeIsEmpty'
  BY <1>1, <1>3, <1>5, <1>9 DEF Whole, FreeIsEmpty
<1>11. Order'
  BY <1>1, <1>7, <1>9, OrderKept DEF Whole, NoConn
<1>12. Present'
  <2> SUFFICES ASSUME NEW o \in alone, o = ctx.owner PROVE OnlyOwn(o)' /\ UnderWay(o)'
    BY <1>1, <1>7 DEF Present, Unmoved
  <2>1. OnlyOwn(o) /\ UnderWay(o) /\ o = c /\ o \in Calls
    BY <1>1 DEF Whole, Present, OnlyOwn, OthersSilent, Rest
  <2>2. /\ dns' \subseteq {o} /\ stack' \in {<<>>, <<o>>} /\ accepted' = accepted
        /\ OthersSilent(o)' /\ conns'[o].phase = "open" /\ returned' = returned
    <3>1. \A d \in Calls \ {o} : conns'[d] = conns[d]
      BY <1>2, <1>3, <1>5, <2>1 DEF OnlyOwn, None, Calls
    <3> QED BY <1>1, <1>3, <1>5, <2>1, <3>1, OthersKept DEF OnlyOwn, Unmoved
  <2>3. Received(o) => Received(o)'
    BY <1>1, <1>6, <2>1, <2>2, ReceivedKept DEF Unmoved
  <2>4. CASE ctx' = Mark(x, "NOMEM")
    <3>1. "NOMEM" \in Results /\ "NOMEM" # "OK"
      BY DEF Results
    <3>2. /\ ctx'.complete /\ ctx'.pcb = ctx.pcb
          /\ ctx'.result = "OK" => ctx.complete /\ ctx.result = "OK"
      BY <1>2, <2>4, <3>1, MarkEffect
    <3> QED BY <2>1, <2>2, <2>3, <3>2 DEF OnlyOwn, UnderWay
  <2>5. CASE ctx' = x /\ ctx.complete
    BY <1>2, <2>1, <2>2, <2>3, <2>5 DEF OnlyOwn, UnderWay
  <2>6. CASE x.pcb # None /\ ctx' = x /\ ~ctx.complete
    <3>1. /\ conns[o].req = None /\ conns[o].pos = 0 /\ ctx.pcb = o
          /\ ctx.hdr = <<>> /\ NothingYet(o)
      BY <1>1, <2>1, <2>6 DEF OnlyOwn, UnderWay
    <3>2. PICK r \in Responses : conns' = [up EXCEPT ![o].req = x.owner, ![o].resp = r]
      <4>1. x.pcb = o /\ conns[x.pcb].req = None /\ conns[x.pcb].phase # "stuck"
        BY <1>1, <1>2, <2>1, <3>1
      <4>2. ctx' # Mark(x, "NOMEM")
        BY <1>2, <2>6, MarkEffect DEF Results
      <4> QED BY <1>4, <4>1, <4>2
    <3>3. /\ conns'[o].req = o /\ conns'[o].resp = r /\ conns'[o].pos = 0
          /\ r.hdr \in Nat \ {0}
      <4>1. r \in [ok : BOOLEAN, hdr : Nat \ {0}, len : Nat, body : Nat]
        BY DEF Whole, HttpAssumption
      <4> QED BY <1>2, <1>3, <2>1, <3>1, <3>2, <4>1 DEF Connections
    <3>4. Len(ctx'.hdr) = 0 /\ ctx'.state = "HEADERS" /\ NothingYet(o)'
      BY <1>2, <2>2, <2>6, <3>1 DEF NothingYet
    <3>5. InHeaders(o)'
      BY <3>3, <3>4 DEF InHeaders
    <3>6. UnderWay(o)'
      BY <2>2, <3>4, <3>5 DEF UnderWay
    <3>7. OnlyOwn(o)'
      BY <1>2, <2>1, <2>2, <2>6 DEF OnlyOwn
    <3> QED BY <3>6, <3>7
  <2> QED BY <1>4, <2>4, <2>5, <2>6
<1> QED BY <1>8, <1>10, <1>11, <1>12

\* A connection is closed under a context that then has its verdict: the one it had, or
\* one that is not OK, or OK for what was received.
LEMMA ClosingOwn ==
  ASSUME Whole, NEW c \in Calls, conns[c].phase \in {"connecting", "open", "closing"},
         NEW p \in Gone, conns' = [conns EXCEPT ![c].phase = p],
         Unmoved, UNCHANGED dns, Core', ctx'.owner = ctx.owner,
         ctx'.complete, ctx'.pcb = None,
         ctx'.result = "OK" => \/ ctx.complete /\ ctx.result = "OK"
                               \/ ~ctx.complete /\ CloseOk(ctx) /\ conns[c].phase = "open"
  PROVE  Order' /\ FreeIsEmpty' /\ Past' /\ Present'
<1>1. /\ ConnsKept /\ \A d \in Calls \ {c} : conns'[d] = conns[d]
      /\ conns'[c].phase \in Gone /\ conns'[c].pos = conns[c].pos
      /\ conns'[c].req = conns[c].req /\ conns'[c].resp = conns[c].resp
  BY ClosedConns DEF Whole
<1>2. conns' \in [Calls -> Connections] /\ conns \in [Calls -> Connections] /\ ctx \in Contexts
  BY DEF Whole, Core
<1>3. Past'
  BY <1>1, <1>2, AllPastKept DEF Whole
<1>4. FreeIsEmpty'
  BY <1>1 DEF Whole, FreeIsEmpty, Gone
<1>5. Order'
  BY <1>1, OrderKept DEF Whole, NoConn
<1>6. Present'
  <2> SUFFICES ASSUME NEW o \in alone, o = ctx.owner PROVE OnlyOwn(o)' /\ UnderWay(o)'
    BY DEF Present, Unmoved
  <2>1. OnlyOwn(o) /\ UnderWay(o) /\ o \in Calls
    BY DEF Whole, Present, Rest
  <2>2. OthersSilent(o)'
    BY <1>1, <2>1, OthersKept DEF OnlyOwn, Unmoved
  <2>3. ASSUME ctx'.result = "OK" PROVE Received(o)'
    <3>1. CASE ctx.complete /\ ctx.result = "OK"
      BY <1>1, <2>1, <3>1, ReceivedKept DEF OnlyOwn, Unmoved
    <3>2. CASE ~ctx.complete /\ CloseOk(ctx) /\ conns[c].phase = "open"
      <4>1. InBody(o) /\ ctx.ok /\ (ctx.len = 0 \/ ctx.got = ctx.len)
        BY <2>1, <3>2 DEF UnderWay, CloseOk
      <4>2. /\ ctx.len = 0 /\ conns[o].req = o /\ conns[o].resp.ok /\ conns[o].resp.len = 0
            /\ Len(accepted[o]) = ctx.got /\ conns[o].pos = conns[o].resp.hdr + ctx.got
        BY <1>2, <4>1 DEF InBody, Contexts
      <4>3. Len(accepted[o]) = conns[o].pos - conns[o].resp.hdr
        BY <1>2, <2>1, <4>2 DEF Contexts, Connections
      <4>4. o \in sole => o = c
        BY <2>1, <3>2 DEF OnlyOwn, OthersSilent
      <4>5. conns'[o].req = o /\ conns'[o].resp = conns[o].resp /\ conns'[o].pos = conns[o].pos
        BY <1>1, <2>1, <4>2
      <4> QED BY <1>1, <4>2, <4>3, <4>4, <4>5 DEF Received, Unmoved
    <3> QED BY <2>3, <3>1, <3>2
  <2> QED BY <1>1, <2>1, <2>2, <2>3 DEF OnlyOwn, UnderWay, Unmoved
<1> QED BY <1>3, <1>4, <1>5, <1>6

LEMMA PeerClosesOwn ==
  ASSUME Whole, NEW c \in Calls, PeerCloses(c)
  PROVE  Order' /\ FreeIsEmpty' /\ Past' /\ Present'
<1> DEFINE r == IF CloseOk(ctx) THEN "OK" ELSE IF ctx.ok THEN "ABORTED" ELSE "STATUS"
           y == Mark(ctx, r)
<1>1. /\ conns[c].phase = "open" /\ ctx' = [y EXCEPT !.pcb = None]
      /\ conns' = [conns EXCEPT ![c].phase = "closing"] /\ "closing" \in Gone
      /\ UNCHANGED dns /\ Unmoved /\ Core'
  BY PeerClosesKeeps DEF PeerCloses, Unmoved, Whole, Gone
<1>2. ctx \in Contexts /\ r \in Results /\ (r = "OK" => CloseOk(ctx))
  BY DEF Whole, Core, Results
<1> HIDE DEF r
<1>3. /\ y \in Contexts /\ y.owner = ctx.owner /\ y.complete
      /\ ctx.complete => y.result = ctx.result
      /\ ~ctx.complete => y.result = r
  BY <1>2, MarkEffect
<1> HIDE DEF y
<1>4. ctx'.owner = ctx.owner /\ ctx'.complete /\ ctx'.pcb = None /\ ctx'.result = y.result
  BY <1>1, <1>3 DEF Contexts
<1> QED BY <1>1, <1>2, <1>3, <1>4, ClosingOwn

\* tcp_err_cb never leaves a verdict of OK behind that was not there.
LEMMA ErrEffect ==
  ASSUME NEW x \in Contexts
  PROVE  /\ Err(x) \in Contexts /\ Err(x).owner = x.owner /\ Err(x).complete /\ Err(x).pcb = None
         /\ Err(x).result = "OK" => x.complete /\ x.result = "OK"
<1> DEFINE y == [x EXCEPT !.pcb = None]
<1>1. /\ y \in Contexts /\ y.pcb = None /\ y.owner = x.owner /\ y.complete = x.complete
      /\ y.result = x.result
  BY DEF Contexts
<1>2. Err(x) = Mark(y, "ABORTED") /\ "ABORTED" \in Results /\ "ABORTED" # "OK"
  BY DEF Err, Results
<1> HIDE DEF y
<1> QED BY <1>1, <1>2, MarkEffect

LEMMA TcpErrorOwn ==
  ASSUME Whole, NEW c \in Calls, TcpError(c)
  PROVE  Order' /\ FreeIsEmpty' /\ Past' /\ Present'
<1>1. /\ conns[c].phase \in {"connecting", "open", "closing"} /\ ctx' = Err(ctx)
      /\ conns' = [conns EXCEPT ![c].phase = "closed"] /\ "closed" \in Gone
      /\ UNCHANGED dns /\ Unmoved /\ Core' /\ ctx \in Contexts
  BY TcpErrorKeeps DEF TcpError, Closed, Unmoved, Whole, Core, Gone
<1> QED BY <1>1, ErrEffect, ClosingOwn

-----------------------------------------------------------------------------
(* The wait loop *)

LEMMA WithoutTop ==
  ASSUME NEW s \in Seq(Calls), s # <<>>
  PROVE  /\ Len(SubSeq(s, 1, Len(s) - 1)) = Len(s) - 1
         /\ \A i \in 1 .. Len(s) - 1 : SubSeq(s, 1, Len(s) - 1)[i] = s[i]
<1> DEFINE n == Len(s) - 1
<1>1. Len(s) \in Nat \ {0} /\ n \in Int /\ 1 \in Int /\ n >= 0
  BY EmptySeq
<1>2. \A i \in 1 .. n : s[i] \in Calls
  BY <1>1, ElementOfSeq
<1>3. /\ Len(SubSeq(s, 1, n)) = IF 1 <= n THEN n - 1 + 1 ELSE 0
      /\ \A i \in 1 .. n - 1 + 1 : SubSeq(s, 1, n)[i] = s[1 + i - 1]
  <2> HIDE DEF n
  <2> QED BY <1>1, <1>2, SubSeqProperties DEF n
<1> HIDE DEF n
<1>4. Len(SubSeq(s, 1, n)) = n /\ \A i \in 1 .. n : SubSeq(s, 1, n)[i] = s[i]
  BY <1>1, <1>3
<1> QED BY <1>4 DEF n

LEMMA LeavesOwn ==
  ASSUME Whole, NEW r \in Results, stack # <<>>, Leave(r)
  PROVE  /\ Top \in Calls /\ Top \in Waiting /\ (Top \in alone => Top = ctx.owner)
         /\ returned' = [returned EXCEPT ![Top] = r]
         /\ Waiting' \subseteq Waiting
         /\ \A o \in Calls : stack \in {<<>>, <<o>>} => stack' = <<>>
         /\ UNCHANGED <<dns, started, accepted, alone, sole>>
         /\ \A d \in Calls : d > started => returned'[d] = returned[d]
<1>1. stack \in Seq(Calls) /\ Len(stack) \in Nat \ {0}
  BY DEF Whole, Rest
<1>2. Top \in Calls /\ Top \in Waiting
  BY <1>1 DEF Top, Waiting
<1>3. /\ stack' = SubSeq(stack, 1, Len(stack) - 1) /\ returned' = [returned EXCEPT ![Top] = r]
      /\ UNCHANGED <<dns, started, accepted, alone, sole>>
  BY DEF Leave
<1>4. /\ Len(stack') = Len(stack) - 1
      /\ \A i \in 1 .. Len(stack) - 1 : stack'[i] = stack[i]
  BY <1>3, WithoutTop DEF Whole, Rest
<1>5. Waiting' \subseteq Waiting
  BY <1>1, <1>4 DEF Waiting
<1>6. \A o \in Calls : stack \in {<<>>, <<o>>} => stack' = <<>>
  BY <1>1, <1>3
<1>7. ASSUME NEW d \in Calls, d > started PROVE returned'[d] = returned[d]
  <2>1. Top <= started /\ Top \in Nat /\ d \in Nat /\ started \in Nat
    BY <1>2 DEF Whole, Order, Rest, Calls
  <2>2. d # Top
    BY <1>7, <2>1
  <2> QED BY <1>3, <2>2 DEF Whole, Rest
<1> QED BY <1>2, <1>3, <1>5, <1>6, <1>7 DEF Whole, Order

LEMMA ReturnOwn ==
  ASSUME Whole, Return
  PROVE  Order' /\ FreeIsEmpty' /\ Past' /\ Present'
<1>1. stack # <<>> /\ ctx.complete /\ Leave(ctx.result) /\ UNCHANGED <<ctx, conns, late>>
      /\ ctx.result \in Results /\ returned \in [Calls -> Results \cup {"none"}]
      /\ alone \subseteq Calls
  BY DEF Return, Whole, Core, Rest, Contexts
<1>2. /\ Top \in Calls /\ (Top \in alone => Top = ctx.owner)
      /\ returned' = [returned EXCEPT ![Top] = ctx.result]
      /\ Waiting' \subseteq Waiting
      /\ \A o \in Calls : stack \in {<<>>, <<o>>} => stack' = <<>>
      /\ UNCHANGED <<dns, started, accepted, alone, sole>>
      /\ \A d \in Calls : d > started => returned'[d] = returned[d]
  BY <1>1, LeavesOwn DEF Waiting
<1>3. Order' /\ FreeIsEmpty'
  BY <1>1, <1>2 DEF Whole, Order, FreeIsEmpty
<1>4. Past'
  <2> SUFFICES ASSUME NEW c \in alone PROVE PastOf(c)'
    BY <1>2 DEF Past
  <2>1. c \in Calls /\ PastOf(c)
    BY <1>1 DEF Whole, Past
  <2>2. CASE c = Top
    <3>1. ctx.result = "OK" => Received(c)
      BY <1>1, <1>2, <2>2 DEF Whole, Present, OnlyOwn
    <3> QED BY <1>1, <1>2, <2>1, <2>2, <3>1 DEF PastOf, OwnUnits, Received
  <2>3. CASE c # Top
    BY <1>1, <1>2, <2>1, <2>3 DEF PastOf, OwnUnits, Received
  <2> QED BY <2>2, <2>3
<1>5. Present'
  <2> SUFFICES ASSUME NEW o \in alone, o = ctx.owner PROVE OnlyOwn(o)' /\ UnderWay(o)'
    BY <1>1, <1>2 DEF Present
  <2> QED BY <1>1, <1>2 DEF Whole, Present, OnlyOwn, OthersSilent, UnderWay, Received
<1> QED BY <1>3, <1>4, <1>5

LEMMA DeadlineOwn ==
  ASSUME Whole, Deadline
  PROVE  Order' /\ FreeIsEmpty' /\ Past' /\ Present'
<1> DEFINE z == IF ctx.pcb # None THEN Err(ctx) ELSE ctx
           x == Mark(z, "TIMEOUT")
<1>1. /\ stack # <<>> /\ ~ctx.complete /\ ctx' = x /\ Leave(x.result)
      /\ conns' = IF ctx.pcb # None THEN Closed(ctx.pcb) ELSE conns
      /\ ctx \in Contexts /\ returned \in [Calls -> Results \cup {"none"}]
      /\ alone \subseteq Calls /\ conns \in [Calls -> Connections]
  BY DEF Deadline, Whole, Core, Rest
<1>2. /\ z \in Contexts /\ z.owner = ctx.owner /\ z.pcb = None
      /\ z.complete => z.result # "OK"
  BY <1>1, ErrEffect
<1> HIDE DEF z
<1>3. /\ x \in Contexts /\ x.owner = ctx.owner /\ x.complete /\ x.result # "OK" /\ x.pcb = None
      /\ x.result \in Results
  <2>1. "TIMEOUT" \in Results /\ "TIMEOUT" # "OK"
    BY DEF Results
  <2>2. /\ x \in Contexts /\ x.owner = ctx.owner /\ x.complete /\ x.pcb = None
        /\ z.complete => x = z
        /\ ~z.complete => x.result = "TIMEOUT"
    BY <1>2, <2>1, MarkEffect
  <2> QED BY <1>2, <2>1, <2>2 DEF Contexts
<1> HIDE DEF x
<1>4. /\ Top \in Calls /\ (Top \in alone => Top = ctx.owner)
      /\ returned' = [returned EXCEPT ![Top] = x.result]
      /\ Waiting' \subseteq Waiting
      /\ \A o \in Calls : stack \in {<<>>, <<o>>} => stack' = <<>>
      /\ UNCHANGED <<dns, started, accepted, alone, sole>>
      /\ \A d \in Calls : d > started => returned'[d] = returned[d]
  BY <1>1, <1>3, LeavesOwn
<1>5. /\ ConnsKept /\ conns' \in [Calls -> Connections]
      /\ \A c \in Calls : \/ conns'[c] = conns[c]
                          \/ conns[c].phase \in Live /\ conns'[c].phase = "closed"
  <2>1. CASE ctx.pcb # None
    <3>1. ctx.pcb \in Calls /\ conns[ctx.pcb].phase \in Live
      BY <1>1, <2>1 DEF Whole, Core, PcbIsLive, Contexts
    <3>2. conns' \in [Calls -> Connections]
      BY <1>1, <2>1, <3>1 DEF Closed, Connections
    <3>3. conns' = [conns EXCEPT ![ctx.pcb].phase = "closed"] /\ "closed" \in Gone
      BY <1>1, <2>1 DEF Closed, Gone
    <3>4. conns[ctx.pcb].phase # "free"
      BY <3>1 DEF Live
    <3>5. /\ ConnsKept /\ \A d \in Calls \ {ctx.pcb} : conns'[d] = conns[d]
          /\ conns'[ctx.pcb].phase = "closed"
      BY <3>1, <3>3, <3>4, ClosedConns DEF Whole
    <3> QED BY <3>1, <3>2, <3>5
  <2>2. CASE ctx.pcb = None
    BY <1>1, <2>2 DEF ConnsKept
  <2> QED BY <2>1, <2>2
<1>6. FreeIsEmpty'
  BY <1>4, <1>5 DEF Whole, FreeIsEmpty, Live
<1>7. Order'
  <2>1. \A c \in Calls : conns[c] = NoConn => conns'[c] = NoConn
    BY <1>5 DEF NoConn, Live
  <2> QED BY <1>1, <1>3, <1>4, <2>1 DEF Whole, Order
<1>8. Past'
  <2>1. \A c \in Calls : returned'[c] = "OK" => returned[c] = "OK"
    BY <1>1, <1>3, <1>4
  <2>2. \A c \in alone : PastOf(c)'
    BY <1>1, <1>4, <1>5, <2>1, PastKept DEF Whole, Past
  <2> QED BY <1>4, <2>2 DEF Past
<1>9. Present'
  <2> SUFFICES ASSUME NEW o \in alone, o = ctx.owner PROVE OnlyOwn(o)' /\ UnderWay(o)'
    BY <1>1, <1>3, <1>4 DEF Present
  <2>1. OnlyOwn(o) /\ o \in Calls
    BY <1>1 DEF Whole, Present
  <2>2. OthersSilent(o)'
    BY <1>4, <1>5, <2>1, OthersKept DEF OnlyOwn, Gone
  <2> QED BY <1>1, <1>3, <1>4, <1>5, <2>1, <2>2 DEF OnlyOwn, UnderWay
<1> QED BY <1>6, <1>7, <1>8, <1>9

-----------------------------------------------------------------------------
(* Data *)

\* A segment moves the position of an open connection, and nothing else of it.
LEMMA MovedConns ==
  ASSUME Core, NEW c \in Calls, NEW q \in Nat, conns' = [conns EXCEPT ![c].pos = q],
         conns[c].phase = "open", conns[c].req # None
  PROVE  /\ conns' \in [Calls -> Connections] /\ ConnsKept
         /\ \A d \in Calls \ {c} : conns'[d] = conns[d]
         /\ \A d \in Calls : /\ conns'[d].phase = conns[d].phase /\ conns'[d].req = conns[d].req
                             /\ conns'[d].resp = conns[d].resp
         /\ conns'[c].pos = q
<1>1. conns \in [Calls -> Connections]
  BY DEF Core
<1>2. /\ conns' \in [Calls -> Connections]
      /\ \A d \in Calls \ {c} : conns'[d] = conns[d]
      /\ conns'[c].phase = conns[c].phase /\ conns'[c].req = conns[c].req
      /\ conns'[c].resp = conns[c].resp /\ conns'[c].pos = q
  BY <1>1 DEF Connections
<1>3. ConnsKept
  BY <1>2 DEF ConnsKept, Gone
<1> QED BY <1>2, <1>3

LEMMA TakeBound ==
  ASSUME NEW x \in Contexts, NEW rest \in Nat, x.len > 0 => x.got < x.len
  PROVE  /\ Take(x, rest) \in 0 .. rest
         /\ x.len > 0 => x.got + Take(x, rest) <= x.len
         /\ Take(x, rest) < rest => x.len > 0 /\ x.got + Take(x, rest) = x.len
         /\ Take(x, rest) = 0 => rest = 0
BY DEF Take, Contexts

\* The units of a stretch that follow those a call already has
LEMMA StretchFollows ==
  ASSUME NEW o \in Calls, NEW a \in Seq(Units), NEW n \in Nat, NEW t \in Nat,
         \A i \in 1 .. Len(a) : a[i] = Unit(o, n + i)
  PROVE  /\ Len(a \o Stretch(o, n + Len(a), t)) = Len(a) + t
         /\ \A i \in 1 .. Len(a) + t : (a \o Stretch(o, n + Len(a), t))[i] = Unit(o, n + i)
<1> DEFINE m == n + Len(a)
           s == Stretch(o, m, t)
<1>1. m \in Nat /\ Len(a) \in Nat
  OBVIOUS
<1>2. s \in Seq(Units) /\ Len(s) = t
  BY <1>1, StretchType
<1>3. \A j \in 1 .. t : s[j] = Unit(o, m + j)
  BY DEF Stretch
<1> HIDE DEF s
<1>4. /\ Len(a \o s) = Len(a) + t
      /\ \A i \in 1 .. Len(a) + t : (a \o s)[i] = IF i <= Len(a) THEN a[i] ELSE s[i - Len(a)]
  BY <1>1, <1>2
<1>5. ASSUME NEW i \in 1 .. Len(a) + t PROVE (a \o s)[i] = Unit(o, n + i)
  <2>1. CASE i <= Len(a)
    BY <1>1, <1>4, <2>1
  <2>2. CASE i > Len(a)
    <3>1. i - Len(a) \in 1 .. t /\ m + (i - Len(a)) = n + i
      BY <1>1, <2>2
    <3>2. (a \o s)[i] = s[i - Len(a)]
      BY <1>1, <1>4, <2>2
    <3>3. s[i - Len(a)] = Unit(o, m + (i - Len(a)))
      BY <1>3, <3>1
    <3>4. Unit(o, m + (i - Len(a))) = Unit(o, n + i)
      <4> HIDE DEF m
      <4> QED BY <3>1, Zenon
    <3> QED BY <3>2, <3>3, <3>4, Zenon
  <2>3. i <= Len(a) \/ i > Len(a)
    BY <1>1
  <2> QED BY <2>1, <2>2, <2>3, Zenon
<1> QED BY <1>4, <1>5 DEF s

\* Units of the body, taken while no more than Content-Length of them have come.
LEMMA BodyOwn ==
  ASSUME Whole, NEW o \in Calls, NEW x \in Contexts, NEW used \in Nat, NEW rest \in Nat,
         OnlyOwn(o), OwnUnits(o), returned[o] # "OK",
         ~x.complete, x.state = "BODY", x.pcb = ctx.pcb,
         conns[o].phase = "open", conns[o].req = o,
         x.ok = conns[o].resp.ok, x.len = conns[o].resp.len, x.got = Len(accepted[o]),
         conns[o].pos + used = conns[o].resp.hdr + x.got, x.len > 0 => x.got < x.len,
         conns' = [conns EXCEPT ![o].pos = conns[o].pos + (used + rest)],
         UNCHANGED <<dns, stack, started, returned, alone, sole, late>>,
         \/ Take(x, rest) = 0 /\ ctx' = x /\ UNCHANGED accepted
         \/ /\ ctx' = WholeBody([x EXCEPT !.got = @ + Take(x, rest)])
            /\ accepted' = [accepted EXCEPT
                              ![o] = @ \o Stretch(o, conns[o].pos + used, Take(x, rest))]
         \/ ctx' = Mark(x, "ABORTED") /\ UNCHANGED accepted
  PROVE  PastOf(o)' /\ OnlyOwn(o)' /\ UnderWay(o)'
<1> DEFINE t == Take(x, rest)
           y == [x EXCEPT !.got = @ + t]
           r == conns[o].resp
<1>0. /\ accepted \in [Calls -> Seq(Units)] /\ o # None
      /\ r.hdr \in Nat /\ r.len \in Nat /\ conns[o].pos \in Nat /\ x.got \in Nat /\ x.len \in Nat
      /\ accepted[o] \in Seq(Units) /\ ctx.pcb = x.pcb
  <2>1. conns[o] \in Connections /\ o # None
    BY DEF Whole, Core, Calls, None
  <2>2. r.hdr \in Nat /\ r.len \in Nat /\ conns[o].pos \in Nat
    BY <2>1 DEF Connections
  <2>3. x.got \in Nat /\ x.len \in Nat
    BY DEF Contexts
  <2>4. accepted \in [Calls -> Seq(Units)] /\ accepted[o] \in Seq(Units)
    BY DEF Whole, Rest
  <2> QED BY <2>1, <2>2, <2>3, <2>4
<1>1. /\ conns'[o].phase = "open" /\ conns'[o].req = o /\ conns'[o].resp = r
      /\ conns'[o].pos = conns[o].pos + (used + rest)
      /\ \A d \in Calls \ {o} : conns'[d] = conns[d]
  <2> DEFINE q == conns[o].pos + (used + rest)
  <2>1. q \in Nat
    BY <1>0
  <2> HIDE DEF q
  <2>2. conns' = [conns EXCEPT ![o].pos = q] /\ conns[o].req # None
    BY <1>0 DEF q
  <2> QED BY <2>1, <2>2, MovedConns DEF Whole, q
<1>2. /\ t \in 0 .. rest
      /\ x.len > 0 => x.got + t <= x.len
      /\ t < rest => x.len > 0 /\ x.got + t = x.len
      /\ t = 0 => rest = 0
  BY TakeBound
<1>3. /\ dns' \subseteq {o} /\ stack' \in {<<>>, <<o>>}
      /\ OthersSilent(o)' /\ ctx.pcb \in {None, o} /\ returned'[o] # "OK"
  BY <1>1, OthersKept DEF OnlyOwn
<1>4. \A i \in 1 .. Len(accepted[o]) : accepted[o][i] = Unit(o, r.hdr + i)
  BY DEF OwnUnits
<1> HIDE DEF t
<1>5. CASE t = 0 /\ ctx' = x /\ UNCHANGED accepted
  <2>1. conns'[o].pos = r.hdr + x.got
    BY <1>0, <1>1, <1>2, <1>5
  <2> QED BY <1>1, <1>3, <1>5, <2>1 DEF PastOf, OwnUnits, OnlyOwn, UnderWay, InBody
<1>6. CASE ctx' = Mark(x, "ABORTED") /\ UNCHANGED accepted
  <2>1. ctx'.complete /\ ctx'.result # "OK" /\ ctx'.pcb = x.pcb
    BY <1>6, MarkEffect DEF Results
  <2> QED BY <1>1, <1>3, <1>6, <2>1 DEF PastOf, OwnUnits, OnlyOwn, UnderWay
<1>7. CASE /\ ctx' = WholeBody(y)
           /\ accepted' = [accepted EXCEPT ![o] = @ \o Stretch(o, conns[o].pos + used, t)]
  <2>1. /\ y \in Contexts /\ y.got = x.got + t /\ y.complete = x.complete /\ y.state = x.state
        /\ y.pcb = x.pcb /\ y.ok = x.ok /\ y.len = x.len
    <3>1. x.got + t \in Nat
      BY <1>0, <1>2
    <3> QED BY <3>1 DEF Contexts
  <2>2. /\ Len(accepted'[o]) = x.got + t
        /\ \A i \in 1 .. x.got + t : accepted'[o][i] = Unit(o, r.hdr + i)
    <3>1. accepted'[o] = accepted[o] \o Stretch(o, r.hdr + Len(accepted[o]), t)
      BY <1>0, <1>7
    <3>2. t \in Nat
      BY <1>2
    <3>3. /\ Len(accepted'[o]) = Len(accepted[o]) + t
          /\ \A i \in 1 .. Len(accepted[o]) + t : accepted'[o][i] = Unit(o, r.hdr + i)
      <4> DEFINE a == accepted[o]
                 n == r.hdr
      <4>1. a \in Seq(Units) /\ n \in Nat /\ \A i \in 1 .. Len(a) : a[i] = Unit(o, n + i)
        BY <1>0, <1>4
      <4>2. accepted'[o] = a \o Stretch(o, n + Len(a), t)
        BY <3>1
      <4> HIDE DEF a, n
      <4> DEFINE b == a \o Stretch(o, n + Len(a), t)
      <4>3. /\ Len(b) = Len(a) + t
            /\ \A i \in 1 .. Len(a) + t : b[i] = Unit(o, n + i)
        BY <3>2, <4>1, StretchFollows
      <4> HIDE DEF b
      <4>4. accepted'[o] = b
        BY <4>2 DEF b
      <4> QED BY <4>3, <4>4 DEF a, n
    <3> QED BY <3>3
  <2>3. PastOf(o)'
    BY <1>0, <1>1, <1>2, <1>3, <2>2 DEF PastOf, OwnUnits
  <2> HIDE DEF y
  <2>4. CASE x.len > 0 /\ x.got + t = x.len
    <3>1. ctx' = Mark(y, IF y.ok THEN "OK" ELSE "STATUS")
      BY <1>7, <2>1, <2>4 DEF WholeBody
    <3>2. ctx'.complete /\ ctx'.pcb = x.pcb /\ (ctx'.result = "OK" => x.ok)
      BY <2>1, <3>1, MarkEffect DEF Results
    <3>3. x.ok => Received(o)'
      <4> DEFINE n == Len(accepted'[o])
      <4>1. n = r.len /\ r.len # 0
        BY <1>0, <2>2, <2>4
      <4>2. conns'[o].req = o /\ conns'[o].resp = r
        BY <1>1
      <4> HIDE DEF n
      <4> QED BY <4>1, <4>2 DEF Received, n
    <3> QED BY <1>1, <1>3, <2>3, <3>2, <3>3 DEF OnlyOwn, UnderWay
  <2>5. CASE ~(x.len > 0 /\ x.got + t = x.len)
    <3>1. ctx' = y
      BY <1>7, <2>1, <2>5 DEF WholeBody
    <3>2. t = rest /\ conns'[o].pos = r.hdr + (x.got + t) /\ (x.len > 0 => x.got + t < x.len)
      <4>1. t \in Nat /\ ~(t < rest) /\ t = rest
        BY <1>2, <2>5
      <4>2. conns[o].pos + (used + t) = r.hdr + (x.got + t)
        <5> DEFINE p == conns[o].pos
                   h == r.hdr
                   g == x.got
        <5>1. p \in Nat /\ h \in Nat /\ g \in Nat /\ p + used = h + g
          BY <1>0
        <5> HIDE DEF p, h, g
        <5>2. p + (used + t) = h + (g + t)
          BY <4>1, <5>1
        <5> QED BY <5>2 DEF p, h, g
      <4>3. x.len > 0 => x.got + t < x.len
        BY <1>0, <1>2, <2>5, <4>1
      <4> QED BY <1>1, <4>1, <4>2, <4>3
    <3> QED BY <1>1, <1>3, <2>1, <2>2, <2>3, <3>1, <3>2 DEF OnlyOwn, UnderWay, InBody
  <2> QED BY <2>4, <2>5
<1> QED BY <1>5, <1>6, <1>7 DEF t

LEMMA FedOwner ==
  ASSUME NEW x \in Contexts, NEW c \in Calls, NEW k \in Nat
  PROVE  FedHeaders(x, c, k).owner = x.owner
<1> DEFINE h == x.hdr \o Stretch(c, conns[c].pos, HeaderUnits(c, k))
           r == conns[c].resp
           b == h[1][2] = 1 /\ conns[h[1][1]].resp.ok
           y1 == [x EXCEPT !.hdr = SubSeq(h, 1, HdrMax), !.result = "PARSE", !.state = "ERROR"]
           y2 == [x EXCEPT !.hdr = h, !.state = "BODY", !.len = r.len, !.ok = b]
           y3 == [x EXCEPT !.hdr = h]
<1>1. FedHeaders(x, c, k) \in {y1, y2, y3}
  BY Zenon DEF FedHeaders, ParsedHeaders
<1>2. y1.owner = x.owner /\ y2.owner = x.owner /\ y3.owner = x.owner
  <2> HIDE DEF h, r, b
  <2> QED BY DEF Contexts
<1> HIDE DEF y1, y2, y3
<1> QED BY <1>1, <1>2

\* What the header parser makes of a stretch of the last call's own answer
LEMMA FedOwn ==
  ASSUME Whole, NEW o \in Calls, NEW k \in Nat, InHeaders(o), NothingYet(o),
         ~ctx.complete, ctx.state = "HEADERS"
  PROVE  LET x == FedHeaders(ctx, o, k)
             n == HeaderUnits(o, k)
             r == conns[o].resp IN
         /\ x.pcb = ctx.pcb /\ ~x.complete /\ x.got = 0 /\ n \in 0 .. k
         /\ \/ x.state = "ERROR" /\ ~x.ok
            \/ /\ x.state = "HEADERS" /\ ~x.ok /\ n = k
               /\ Len(x.hdr) = conns[o].pos + k /\ conns[o].pos + k < r.hdr
               /\ \A i \in 1 .. Len(x.hdr) : x.hdr[i] = Unit(o, i)
            \/ x.state = "BODY" /\ x.ok = r.ok /\ x.len = r.len /\ conns[o].pos + n = r.hdr
<1> DEFINE x == FedHeaders(ctx, o, k)
           n == HeaderUnits(o, k)
           r == conns[o].resp
           p == conns[o].pos
           h == ctx.hdr \o Stretch(o, p, n)
<1>1. /\ p \in Nat /\ r.hdr \in Nat /\ ctx \in Contexts /\ ctx.hdr \in Seq(Units)
      /\ Len(ctx.hdr) = p /\ p < r.hdr /\ ctx.got = 0 /\ ~ctx.ok
      /\ \A i \in 1 .. Len(ctx.hdr) : ctx.hdr[i] = Unit(o, 0 + i)
  <2>1. conns[o] \in Connections /\ ctx \in Contexts
    BY DEF Whole, Core
  <2>2. p \in Nat /\ r.hdr \in Nat /\ ctx.hdr \in Seq(Units)
    BY <2>1 DEF Connections, Contexts
  <2>3. \A i \in 1 .. Len(ctx.hdr) : ctx.hdr[i] = Unit(o, 0 + i)
    <3> SUFFICES ASSUME NEW i \in 1 .. Len(ctx.hdr) PROVE ctx.hdr[i] = Unit(o, 0 + i)
      OBVIOUS
    <3>1. 0 + i = i
      BY <2>2
    <3> QED BY <3>1 DEF InHeaders
  <2> QED BY <2>1, <2>2, <2>3 DEF InHeaders, NothingYet
<1>2. /\ n \in 0 .. k
      /\ p + n = r.hdr \/ (n = k /\ p + k < r.hdr)
  <2> DEFINE q == r.hdr
  <2>1. n = IF p < q /\ q - p < k THEN q - p ELSE k
    BY DEF HeaderUnits
  <2>2. p \in Nat /\ q \in Nat /\ p < q
    BY <1>1
  <2> HIDE DEF n, p, q
  <2>3. n \in 0 .. k /\ (p + n = q \/ (n = k /\ p + k < q))
    BY <2>1, <2>2
  <2> QED BY <2>3 DEF q
<1> HIDE DEF p, n
<1>3. /\ Len(h) = p + n
      /\ \A i \in 1 .. p + n : h[i] = Unit(o, i)
  <2> DEFINE a == ctx.hdr
             b == a \o Stretch(o, 0 + Len(a), n)
  <2>1. /\ n \in Nat /\ 0 \in Nat /\ a \in Seq(Units) /\ Len(a) = p
        /\ \A i \in 1 .. Len(a) : a[i] = Unit(o, 0 + i)
    BY <1>1, <1>2
  <2>2. Len(b) = Len(a) + n /\ \A i \in 1 .. Len(a) + n : b[i] = Unit(o, 0 + i)
    <3> HIDE DEF a
    <3> QED BY <2>1, StretchFollows
  <2>3. h = b
    <3>1. 0 + Len(a) = p
      BY <1>1, <2>1
    <3> HIDE DEF a
    <3> QED BY <3>1, Zenon DEF a
  <2> HIDE DEF a, b, h
  <2>4. ASSUME NEW i \in 1 .. p + n PROVE h[i] = Unit(o, i)
    <3>1. 0 + i = i /\ i \in 1 .. Len(a) + n
      BY <2>1
    <3>2. h[i] = Unit(o, 0 + i)
      BY <2>2, <2>3, <3>1
    <3> QED BY <3>1, <3>2
  <2> QED BY <2>1, <2>2, <2>3, <2>4
<1> HIDE DEF h
<1>4. CASE Len(h) > HdrMax
  <2> DEFINE y == [ctx EXCEPT !.hdr = SubSeq(h, 1, HdrMax), !.result = "PARSE", !.state = "ERROR"]
  <2>1. x = y
    BY <1>4 DEF FedHeaders, n, h, p
  <2>2. y.pcb = ctx.pcb /\ ~y.complete /\ y.got = 0 /\ y.state = "ERROR" /\ ~y.ok
    BY <1>1 DEF Contexts
  <2> QED BY <1>2, <2>1, <2>2, Zenon DEF n
<1>5. CASE ~(Len(h) > HdrMax) /\ p + n = r.hdr
  <2> DEFINE b == h[1][2] = 1 /\ conns[h[1][1]].resp.ok
             y == [ctx EXCEPT !.hdr = h, !.state = "BODY", !.len = r.len, !.ok = b]
  <2>1. x = y
    BY <1>5, Zenon DEF FedHeaders, n, h, p, ParsedHeaders
  <2>2. b = r.ok
    <3>1. h[1] = <<o, 1>>
      <4>1. 1 \in 1 .. p + n
        BY <1>1, <1>2, <1>5
      <4> QED BY <1>3, <4>1 DEF Unit
    <3>2. r.ok \in BOOLEAN
      BY DEF Whole, Core, Connections
    <3> QED BY <3>1, <3>2
  <2> HIDE DEF b, r
  <2>3. /\ y.pcb = ctx.pcb /\ ~y.complete /\ y.got = 0 /\ y.state = "BODY" /\ y.ok = b
        /\ y.len = r.len
    BY <1>1 DEF Contexts
  <2> HIDE DEF y
  <2> QED BY <1>2, <1>5, <2>1, <2>2, <2>3, Zenon DEF n, r, p
<1>6. CASE ~(Len(h) > HdrMax) /\ ~(p + n = r.hdr)
  <2> DEFINE y == [ctx EXCEPT !.hdr = h]
  <2>1. x = y
    BY <1>6, Zenon DEF FedHeaders, n, h, p
  <2>2. y.pcb = ctx.pcb /\ ~y.complete /\ y.got = 0 /\ y.state = "HEADERS" /\ ~y.ok /\ y.hdr = h
    BY <1>1 DEF Contexts
  <2>3. n = k /\ p + k < r.hdr
    BY <1>2, <1>6
  <2> HIDE DEF y
  <2>4. Len(y.hdr) = p + k /\ \A i \in 1 .. Len(y.hdr) : y.hdr[i] = Unit(o, i)
    BY <1>3, <2>2, <2>3
  <2> QED BY <1>2, <2>1, <2>2, <2>3, <2>4, Zenon DEF n, p
<1> QED BY <1>4, <1>5, <1>6

\* Data for a call that is no longer alone, or not the last, changes nothing of the others.
LEMMA ReceiveElsewhere ==
  ASSUME Whole, NEW c \in Calls, NEW k \in Nat, TcpReceive(c, k)
  PROVE  /\ Order' /\ FreeIsEmpty' /\ Core' /\ ctx'.owner = ctx.owner
         /\ \A d \in alone : d # ctx.owner => PastOf(d)'
<1> DEFINE atHeaders == ~ctx.complete /\ ctx.state = "HEADERS"
           x == IF atHeaders THEN FedHeaders(ctx, c, k) ELSE ctx
           used == IF atHeaders THEN HeaderUnits(c, k) ELSE 0
           take == Take(x, k - used)
           y == [x EXCEPT !.got = @ + take]
           q == conns[c].pos + k
           S == Stretch(c, conns[c].pos + used, take)
<1>1. /\ conns' = [conns EXCEPT ![c].pos = q] /\ conns[c].phase = "open" /\ conns[c].req # None
      /\ UNCHANGED <<dns, stack, started, returned, alone, sole, late>>
      /\ ctx' \in {x, WholeBody(y), Mark(x, "ABORTED")}
      /\ accepted' \in {accepted, [accepted EXCEPT ![x.owner] = @ \o S]}
  BY DEF TcpReceive
<1>2. ctx \in Contexts /\ x \in Contexts /\ x.owner = ctx.owner
  BY FedType, FedOwner DEF Whole, Core
<1>3. Core' /\ q \in Nat
  <2>1. conns[c] \in Connections
    BY DEF Whole, Core
  <2> QED BY <2>1, TcpReceiveKeeps DEF Whole, Connections
<1>4. used \in 0 .. k /\ take \in Nat
  <2>1. used \in 0 .. k
    BY HeaderUnitsType DEF Whole, Core
  <2> HIDE DEF used, x
  <2> QED BY <1>2, <2>1, TakeType
<1> HIDE DEF x, used, q, S, take
<1>5. y \in Contexts /\ y.owner = x.owner
  <2>1. x.got + take \in Nat
    BY <1>2, <1>4 DEF Contexts
  <2> QED BY <1>2, <2>1 DEF Contexts
<1> HIDE DEF y
<1>6. ctx'.owner = ctx.owner
  BY <1>1, <1>2, <1>5, MarkEffect DEF WholeBody, Results
<1>7. \A d \in Calls : d # ctx.owner => accepted'[d] = accepted[d]
  BY <1>1, <1>2 DEF Whole, Rest
<1>8. /\ conns' \in [Calls -> Connections] /\ ConnsKept
      /\ \A d \in Calls \ {c} : conns'[d] = conns[d]
      /\ \A d \in Calls : /\ conns'[d].phase = conns[d].phase /\ conns'[d].req = conns[d].req
                          /\ conns'[d].resp = conns[d].resp
  BY <1>1, <1>3, MovedConns DEF Whole
<1>9. Order'
  <2>1. \A d \in Calls : conns[d] = NoConn => d # c
    BY <1>1 DEF NoConn
  <2>2. \A d \in Calls : d > started => d # ctx.owner
    BY DEF Whole, Order, Rest, Calls, HttpAssumption
  <2> QED BY <1>1, <1>6, <1>7, <1>8, <2>1, <2>2 DEF Whole, Order, Waiting
<1>10. FreeIsEmpty'
  BY <1>1, <1>8 DEF Whole, FreeIsEmpty
<1>11. \A d \in alone : d # ctx.owner => PastOf(d)'
  BY <1>1, <1>7, <1>8, PastKept DEF Whole, Past, Rest
<1> QED BY <1>3, <1>6, <1>9, <1>10, <1>11

LEMMA TcpReceiveOwn ==
  ASSUME Whole, NEW c \in Calls, NEW k \in Nat \ {0}, TcpReceive(c, k)
  PROVE  Order' /\ FreeIsEmpty' /\ Past' /\ Present'
<1> DEFINE p == conns[c].pos
           atHeaders == ~ctx.complete /\ ctx.state = "HEADERS"
           x == IF atHeaders THEN FedHeaders(ctx, c, k) ELSE ctx
           used == IF atHeaders THEN HeaderUnits(c, k) ELSE 0
           rest == k - used
           body == ~x.complete /\ x.state = "BODY" /\ k > used
<1>1. /\ conns' = [conns EXCEPT ![c].pos = p + k]
      /\ conns[c].phase = "open" /\ conns[c].req # None
      /\ UNCHANGED <<dns, stack, started, returned, alone, sole, late>>
      /\ \/ ~body /\ ctx' = x /\ UNCHANGED accepted
         \/ /\ body /\ ctx' = WholeBody([x EXCEPT !.got = @ + Take(x, rest)])
            /\ accepted' = [accepted EXCEPT ![x.owner] = @ \o Stretch(c, p + used, Take(x, rest))]
         \/ body /\ ctx' = Mark(x, "ABORTED") /\ UNCHANGED accepted
  BY DEF TcpReceive
<1>2. /\ Order' /\ FreeIsEmpty' /\ ctx'.owner = ctx.owner
      /\ \A d \in alone : d # ctx.owner => PastOf(d)'
  BY ReceiveElsewhere
<1>3. /\ ctx \in Contexts /\ x \in Contexts /\ x.owner = ctx.owner
      /\ p \in Nat /\ p + k \in Nat /\ used \in 0 .. k /\ rest \in Nat /\ alone \subseteq Calls
  <2>1. ctx \in Contexts /\ x \in Contexts /\ x.owner = ctx.owner
    BY FedType, FedOwner DEF Whole, Core
  <2>2. conns[c] \in Connections
    BY DEF Whole, Core
  <2>3. used \in 0 .. k
    BY HeaderUnitsType DEF Whole, Core
  <2>4. p \in Nat
    BY <2>2 DEF Connections
  <2> HIDE DEF x, used
  <2> QED BY <2>1, <2>3, <2>4 DEF Whole, Rest
<1>4. /\ ConnsKept
      /\ \A d \in Calls : conns'[d].phase = conns[d].phase /\ conns'[d].req = conns[d].req
      /\ \A d \in Calls \ {c} : conns'[d] = conns[d]
      /\ conns'[c].pos = p + k /\ conns'[c].resp = conns[c].resp
  BY <1>1, <1>3, MovedConns DEF Whole
<1>5. ASSUME NEW o \in alone, o = ctx.owner
      PROVE  PastOf(o)' /\ OnlyOwn(o)' /\ UnderWay(o)'
  <2>1. OnlyOwn(o) /\ UnderWay(o) /\ PastOf(o) /\ o \in Calls /\ o # None
    BY <1>3, <1>5 DEF Whole, Present, Past, Calls, None
  <2>2. o = c
    <3> SUFFICES ASSUME o # c PROVE FALSE
      OBVIOUS
    <3>1. p = Total(conns[c].resp)
      BY <1>1, <2>1 DEF OnlyOwn, OthersSilent
    <3>2. k <= Total(conns[c].resp) - p
      BY DEF TcpReceive
    <3> QED BY <1>3, <3>1, <3>2
  <2>o. OthersSilent(o)'
    BY <1>1, <1>4, <2>1, <2>2, OthersKept DEF OnlyOwn
  <2>3. ASSUME ctx' = ctx, UNCHANGED accepted
        PROVE  PastOf(o)' /\ OnlyOwn(o)'
    <3>1. PastOf(o)'
      <4>1. conns' \in [Calls -> Connections]
        BY <1>1, <1>3, MovedConns DEF Whole
      <4> QED BY <1>1, <1>4, <2>1, <2>3, <4>1, PastKept DEF Whole
    <3>2. OnlyOwn(o)'
      BY <1>1, <1>4, <2>1, <2>2, <2>o, <2>3, ReceivedKept DEF OnlyOwn
    <3> QED BY <3>1, <3>2
  <2>4. CASE ctx.complete
    <3>1. x = ctx /\ ~body
      BY <2>4
    <3>2. ctx' = ctx /\ UNCHANGED accepted
      BY <1>1, <3>1
    <3> QED BY <2>3, <2>4, <3>2 DEF UnderWay
  <2>5. ASSUME ~ctx.complete PROVE returned[o] # "OK"
    BY <2>1, <2>5 DEF OnlyOwn
  <2>6. CASE ~ctx.complete /\ ctx.state = "ERROR"
    <3>1. x = ctx /\ ~body
      BY <2>6
    <3>2. ctx' = ctx /\ UNCHANGED accepted
      BY <1>1, <3>1
    <3>3. NothingYet(o)
      BY <2>1, <2>6 DEF UnderWay
    <3> QED BY <1>1, <1>4, <2>2, <2>3, <2>6, <3>2, <3>3 DEF UnderWay, NothingYet
  <2> DEFINE Body == /\ x.ok = conns[o].resp.ok /\ x.len = conns[o].resp.len
                     /\ x.got = Len(accepted[o]) /\ p + used = conns[o].resp.hdr + x.got
                     /\ x.len > 0 => x.got < x.len
  <2>7. ASSUME ~ctx.complete, ~x.complete, x.state = "BODY", x.pcb = ctx.pcb, Body,
               conns[o].req = o
        PROVE  PastOf(o)' /\ OnlyOwn(o)' /\ UnderWay(o)'
    <3>1. returned[o] # "OK" /\ OwnUnits(o) /\ conns[o].phase = "open"
      BY <1>1, <2>1, <2>2, <2>5, <2>7 DEF PastOf
    <3>2. used \in Nat /\ p + k = conns[o].pos + (used + rest) /\ Take(x, rest) \in Nat
      <4>1. used \in Nat
        BY <1>3
      <4>2. Take(x, rest) \in Nat
        BY <1>3, TakeType
      <4> HIDE DEF used, x
      <4>3. used + rest = k
        BY <1>3, <4>1
      <4> QED BY <2>2, <4>1, <4>2, <4>3
    <3>3. \/ Take(x, rest) = 0 /\ ctx' = x /\ UNCHANGED accepted
          \/ /\ ctx' = WholeBody([x EXCEPT !.got = @ + Take(x, rest)])
             /\ accepted' = [accepted EXCEPT
                              ![o] = @ \o Stretch(o, conns[o].pos + used, Take(x, rest))]
          \/ ctx' = Mark(x, "ABORTED") /\ UNCHANGED accepted
      <4> DEFINE t == Take(x, rest)
                 w == WholeBody([x EXCEPT !.got = @ + t])
                 S == Stretch(o, conns[o].pos + used, t)
      <4>1. \/ ~body /\ ctx' = x /\ UNCHANGED accepted
            \/ ctx' = w /\ accepted' = [accepted EXCEPT ![o] = @ \o S]
            \/ ctx' = Mark(x, "ABORTED") /\ UNCHANGED accepted
        <5>1. x.owner = o /\ o = c
          BY <1>3, <1>5, <2>2
        <5> HIDE DEF x, used, rest
        <5> QED BY <1>1, <5>1, Zenon
      <4>2. ~body => t = 0
        <5> SUFFICES ASSUME ~body PROVE t = 0
          OBVIOUS
        <5>1. x.len > 0 => x.got < x.len
          BY <2>7
        <5>2. x \in Contexts /\ rest \in Nat /\ used \in Nat /\ ~(k > used)
          BY <1>3, <2>7
        <5> HIDE DEF x, used
        <5>3. rest = 0
          BY <5>2
        <5>4. t \in 0 .. rest
          <6> HIDE DEF rest
          <6> QED BY <5>1, <5>2, TakeBound
        <5> QED BY <5>3, <5>4
      <4> HIDE DEF w, S, body, x, rest
      <4>3. \/ t = 0 /\ ctx' = x /\ UNCHANGED accepted
            \/ ctx' = w /\ accepted' = [accepted EXCEPT ![o] = @ \o S]
            \/ ctx' = Mark(x, "ABORTED") /\ UNCHANGED accepted
        BY <4>1, <4>2, Zenon
      <4> QED BY <4>3, Zenon DEF w, S
    <3>4. conns' = [conns EXCEPT ![o].pos = conns[o].pos + (used + rest)]
      BY <1>1, <2>2, <3>2
    <3>5. /\ x.ok = conns[o].resp.ok /\ x.len = conns[o].resp.len
          /\ x.got = Len(accepted[o]) /\ conns[o].pos + used = conns[o].resp.hdr + x.got
          /\ x.len > 0 => x.got < x.len
      BY <2>2, <2>7
    <3>6. x \in Contexts /\ rest \in Nat
      BY <1>3
    <3> HIDE DEF x, used, rest, Body
    <3> QED BY <1>1, <2>1, <2>7, <3>1, <3>2, <3>3, <3>4, <3>5, <3>6, BodyOwn
  <2>8. CASE ~ctx.complete /\ ctx.state = "BODY"
    <3>1. x = ctx /\ used = 0
      BY <2>8
    <3>2. InBody(o)
      BY <2>1, <2>8 DEF UnderWay
    <3>3. Body /\ conns[o].req = o
      <4> HIDE DEF x, used
      <4>1. p + 0 = p /\ p = conns[o].pos
        BY <1>3, <2>2
      <4> QED BY <3>1, <3>2, <4>1 DEF InBody
    <3> QED BY <2>7, <2>8, <3>1, <3>3
  <2>9. CASE ~ctx.complete /\ ctx.state = "HEADERS"
    <3>1. InHeaders(o) /\ NothingYet(o) /\ conns[o].req = o
      BY <2>1, <2>9 DEF UnderWay, InHeaders
    <3>2. x = FedHeaders(ctx, o, k) /\ used = HeaderUnits(o, k)
      BY <2>2, <2>9
    <3>3. /\ x.pcb = ctx.pcb /\ ~x.complete /\ x.got = 0
          /\ \/ x.state = "ERROR" /\ ~x.ok
             \/ /\ x.state = "HEADERS" /\ ~x.ok /\ used = k
                /\ Len(x.hdr) = p + k /\ p + k < conns[o].resp.hdr
                /\ \A i \in 1 .. Len(x.hdr) : x.hdr[i] = Unit(o, i)
             \/ /\ x.state = "BODY" /\ x.ok = conns[o].resp.ok /\ x.len = conns[o].resp.len
                /\ p + used = conns[o].resp.hdr
      BY <2>1, <2>2, <2>9, <3>1, <3>2, FedOwn
    <3> HIDE DEF x, used
    <3>4. accepted[o] = <<>> /\ Len(accepted[o]) = 0
      BY <3>1 DEF NothingYet
    <3>5. CASE x.state \in {"ERROR", "HEADERS"}
      <4>1. ctx' = x /\ UNCHANGED accepted
        BY <1>1, <3>5
      <4>2. PastOf(o)'
        BY <1>1, <1>4, <2>2, <2>5, <2>9, <3>4, <4>1 DEF PastOf, OwnUnits, Whole, Core, Connections
      <4>3. OnlyOwn(o)'
        BY <1>1, <1>4, <2>1, <2>2, <2>5, <2>9, <2>o, <3>3, <4>1 DEF OnlyOwn
      <4>4. UnderWay(o)'
        BY <1>1, <1>4, <2>2, <3>1, <3>3, <3>4, <3>5, <4>1 DEF UnderWay, NothingYet, InHeaders
      <4> QED BY <4>2, <4>3, <4>4
    <3>6. CASE x.state = "BODY"
      <4>1. conns[o].resp.hdr \in Nat
        BY <2>1 DEF Whole, Core, Connections
      <4>2. Body
        BY <3>3, <3>4, <3>6, <4>1
      <4> QED BY <2>7, <2>9, <3>1, <3>3, <3>6, <4>2 DEF x, used
    <3> QED BY <3>3, <3>5, <3>6
  <2>10. ctx.state \in {"ERROR", "BODY", "HEADERS"} \/ ctx.complete
    BY <1>1, <2>1, <2>2 DEF UnderWay
  <2> QED BY <2>4, <2>6, <2>8, <2>9, <2>10
<1>6. Past' /\ Present'
  BY <1>1, <1>2, <1>5 DEF Past, Present
<1> QED BY <1>2, <1>6

-----------------------------------------------------------------------------
(* A call begins *)

\* What the four ways to begin a call have in common
Begins(c) ==
  /\ Enter(c) /\ ConnsKept /\ conns' \in [Calls -> Connections]
  /\ \A d \in Calls \ {c} : conns'[d] = conns[d]
  /\ conns'[c].req = None /\ conns'[c].pos = 0 /\ conns'[c].phase # "open"
  /\ dns' = dns \/ (dns' = dns \cup {c} /\ conns'[c].phase = "free")
  /\ stack' = stack \/ stack' = Append(stack, c)
  /\ \A d \in Calls \ {c} : returned'[d] = returned[d]
  /\ returned'[c] # "OK"
  /\ ctx'.owner = c /\ ctx'.pcb \in {None, c}
  /\ ctx'.complete => ctx'.result # "OK"
  /\ ~ctx'.complete => /\ ctx'.state \in {"INIT", "CONNECT"} /\ ctx'.hdr = <<>>
                       /\ ctx'.got = 0 /\ ~ctx'.ok
                       /\ conns'[c].phase = "connecting" => ctx'.pcb = c

LEMMA BeginsOwn ==
  ASSUME Whole, NEW c \in Calls, Begins(c)
  PROVE  Order' /\ FreeIsEmpty' /\ Past' /\ Present'
<1>1. /\ c = started + 1 /\ started' = c /\ UNCHANGED <<accepted, late>>
      /\ alone' = (IF Quiet THEN alone \cup {c} ELSE alone) \ Waiting
      /\ sole' = IF NoneOpen THEN sole \cup {c} ELSE sole
  BY DEF Begins, Enter
<1>2. /\ started \in Nat /\ stack \in Seq(Calls) /\ c > started /\ c \notin alone \cup sole
      /\ alone \subseteq Calls /\ c # None /\ accepted[c] = <<>>
      /\ \A d \in Calls : d > c => d > started /\ d # c
  <2>1. started \in Nat /\ c \in Nat \ {0}
    BY DEF Whole, Rest, HttpAssumption, Calls
  <2>2. c > started
    BY <1>1, <2>1
  <2>3. \A d \in Calls : d > c => d > started /\ d # c
    BY <1>1, <2>1 DEF Calls
  <2> QED BY <2>1, <2>2, <2>3 DEF Whole, Rest, Order, None
<1>3. Waiting' \subseteq Waiting \cup {c}
  <2>1. CASE stack' = stack
    BY <2>1 DEF Waiting
  <2>2. CASE stack' = Append(stack, c)
    <3>1. /\ Len(stack') = Len(stack) + 1 /\ Len(stack) \in Nat
          /\ \A i \in 1 .. Len(stack) + 1 : stack'[i] = IF i <= Len(stack) THEN stack[i] ELSE c
      BY <1>2, <2>2
    <3> QED BY <3>1 DEF Waiting
  <2> QED BY <2>1, <2>2 DEF Begins
<1>4. Order'
  <2>1. ASSUME NEW d \in Calls, d > c
        PROVE  /\ conns'[d] = NoConn /\ d \notin dns' /\ d \notin alone' /\ d \notin sole'
               /\ accepted'[d] = <<>> /\ returned'[d] = "none"
    BY <1>1, <1>2, <2>1 DEF Whole, Order, Begins
  <2>2. ASSUME NEW d \in Waiting' PROVE d <= c /\ (d \in alone' => d = c)
    <3>1. CASE d = c
      BY <1>2, <3>1 DEF Calls
    <3>2. CASE d \in Waiting
      <4>1. d <= started /\ d \in Nat
        BY <1>2, <3>2 DEF Whole, Order, Waiting, Calls
      <4> QED BY <1>1, <1>2, <3>2, <4>1
    <3> QED BY <1>3, <2>2, <3>1, <3>2
  <2> QED BY <1>1, <2>1, <2>2 DEF Order, Begins
<1>5. FreeIsEmpty'
  <2> SUFFICES ASSUME NEW d \in Calls
               PROVE  /\ d \in dns' => conns'[d].phase = "free"
                      /\ conns'[d].phase = "free" => conns'[d].req = None /\ conns'[d].pos = 0
    BY DEF FreeIsEmpty
  <2>1. CASE d = c
    BY <1>2, <2>1 DEF Begins, Whole, Order
  <2>2. CASE d # c
    BY <2>2 DEF Begins, Whole, FreeIsEmpty
  <2> QED BY <2>1, <2>2
<1>6. Past'
  <2> SUFFICES ASSUME NEW d \in alone' PROVE PastOf(d)'
    BY DEF Past
  <2>1. d \in alone \cup {c}
    BY <1>1
  <2>2. CASE d = c
    <3>1. conns'[c].resp.len \in Nat /\ accepted'[c] = <<>> /\ Len(accepted'[c]) = 0
      BY <1>1, <1>2 DEF Begins, Connections
    <3> QED BY <2>2, <3>1 DEF PastOf, OwnUnits, Begins
  <2>3. CASE d # c
    <3>1. d \in Calls /\ PastOf(d) /\ returned'[d] = returned[d]
      BY <1>2, <2>1, <2>3 DEF Whole, Past, Begins
    <3>2. d \in sole' => d \in sole
      BY <1>1, <2>3
    <3> QED BY <1>1, <3>1, <3>2, PastKept DEF Whole, Begins
  <2> QED BY <2>2, <2>3
<1>7. Present'
  <2> SUFFICES ASSUME NEW o \in alone', o = ctx'.owner PROVE OnlyOwn(o)' /\ UnderWay(o)'
    BY DEF Present
  <2>1. o = c /\ Quiet
    BY <1>1, <1>2 DEF Begins
  <2>2. stack' \in {<<>>, <<c>>}
    BY <2>1 DEF Begins, Quiet
  <2>3. dns' \subseteq {c} /\ OthersSilent(c)'
    BY <1>1, <1>2, <2>1 DEF Begins, Quiet, NoneOpen, OthersSilent
  <2>4. OnlyOwn(c)'
    BY <2>2, <2>3 DEF OnlyOwn, Begins
  <2>5. UnderWay(c)'
    BY <1>1, <1>2 DEF UnderWay, NothingYet, Begins
  <2> QED BY <2>1, <2>4, <2>5
<1> QED BY <1>4, <1>5, <1>6, <1>7

LEMMA CallsOwn ==
  ASSUME Whole, NEW c \in Calls, BadUrl(c) \/ NoName(c) \/ CallAsks(c) \/ CallConnects(c)
  PROVE  Order' /\ FreeIsEmpty' /\ Past' /\ Present'
<1> DEFINE f == Fresh(c)
<1>1. /\ f \in Contexts /\ f.owner = c /\ f.pcb = None /\ ~f.complete /\ f.state = "INIT"
      /\ f.hdr = <<>> /\ f.got = 0 /\ ~f.ok
  BY FreshType DEF Fresh
<1>2. Enter(c) /\ conns \in [Calls -> Connections] /\ Core'
  BY CallKeeps DEF Whole, Core, BadUrl, NoName, Refused, CallAsks, CallConnects
<1>3. /\ conns[c] = NoConn /\ returned[c] = "none"
      /\ returned \in [Calls -> Results \cup {"none"}]
  <2>1. c > started
    BY <1>2 DEF Enter, Whole, Rest, Calls, HttpAssumption
  <2> QED BY <2>1 DEF Whole, Order, Rest
<1> HIDE DEF f
<1>4. ASSUME ctx' = f, UNCHANGED conns PROVE /\ ConnsKept /\ conns' \in [Calls -> Connections]
                                             /\ \A d \in Calls \ {c} : conns'[d] = conns[d]
                                             /\ conns'[c] = NoConn
  BY <1>2, <1>3, <1>4 DEF ConnsKept
<1>5. CASE BadUrl(c) \/ NoName(c)
  <2>1. PICK r \in {"PARSE", "DNS"} : Refused(c, r)
    BY <1>5 DEF BadUrl, NoName
  <2>2. Begins(c)
    BY <1>1, <1>2, <1>3, <1>4, <2>1 DEF Begins, Refused, NoConn, f
  <2> QED BY <2>2, BeginsOwn
<1>6. CASE CallAsks(c)
  <2>1. Begins(c)
    BY <1>1, <1>2, <1>3, <1>4, <1>6 DEF Begins, CallAsks, NoConn, f
  <2> QED BY <2>1, BeginsOwn
<1>7. CASE CallConnects(c)
  <2> DEFINE y == [f EXCEPT !.pcb = c, !.state = "CONNECT"]
  <2>1. StartConnect(f, c) /\ stack' = Append(stack, c) /\ UNCHANGED <<dns, returned>>
    BY <1>7 DEF CallConnects, f
  <2>2. /\ ConnsKept /\ \A d \in Calls \ {c} : conns'[d] = conns[d]
        /\ conns'[c].req = None /\ conns'[c].pos = 0 /\ conns'[c].phase # "open"
        /\ ctx'.owner = c /\ conns' \in [Calls -> Connections]
    BY <1>1, <1>2, <1>3, <2>1, StartConnectConns DEF Whole, Core, NoConn
  <2>3. /\ y \in Contexts /\ y.pcb = c /\ ~y.complete /\ y.state = "CONNECT" /\ y.hdr = <<>>
        /\ y.got = 0 /\ ~y.ok
    BY <1>1 DEF Contexts, States
  <2>4. \/ ctx' = Mark(f, "NOMEM") /\ UNCHANGED conns
        \/ ctx' \in {Mark(y, "CONNECT"), y}
    BY <2>1 DEF StartConnect
  <2> HIDE DEF y
  <2>5. /\ ctx'.pcb \in {None, c}
        /\ ctx'.complete => ctx'.result # "OK"
        /\ ~ctx'.complete => /\ ctx'.state \in {"INIT", "CONNECT"} /\ ctx'.hdr = <<>>
                             /\ ctx'.got = 0 /\ ~ctx'.ok
                             /\ conns'[c].phase = "connecting" => ctx'.pcb = c
    <3>1. "NOMEM" \in Results /\ "CONNECT" \in Results
      BY DEF Results
    <3>2. CASE ctx' = Mark(f, "NOMEM")
      BY <1>1, <3>1, <3>2, MarkEffect
    <3>3. CASE ctx' = Mark(y, "CONNECT")
      BY <2>3, <3>1, <3>3, MarkEffect
    <3>4. CASE ctx' = y
      BY <2>3, <3>4
    <3> QED BY <2>4, <3>2, <3>3, <3>4
  <2>6. Begins(c)
    BY <1>2, <1>3, <2>1, <2>2, <2>5 DEF Begins
  <2> QED BY <2>6, BeginsOwn
<1> QED BY <1>5, <1>6, <1>7

-----------------------------------------------------------------------------
LEMMA WholeHoldsInitially ==
  ASSUME HttpAssumption, Init
  PROVE  Whole
<1>1. Core /\ Rest
  BY InitHolds
<1>2. ctx.owner = 0
  BY DEF Init, Fresh, None
<1>3. Order
  BY <1>2 DEF Init, Order, Waiting
<1>4. FreeIsEmpty /\ Past /\ Present
  BY DEF Init, FreeIsEmpty, NoConn, Past, Present
<1> QED BY <1>1, <1>3, <1>4 DEF Whole

LEMMA WholeKept ==
  ASSUME Whole, [Next]_vars
  PROVE  Whole'
<1>1. Core' /\ Rest' /\ HttpAssumption'
  BY StepKeeps DEF Whole, HttpAssumption
<1>2. CASE Lwip
  <2>1. \A c \in Calls : 1 .. Total(conns[c].resp) \subseteq Nat \ {0}
    OBVIOUS
  <2>2. Order' /\ FreeIsEmpty' /\ Past' /\ Present'
    BY <1>2, <2>1, DnsAnswerOwn, TcpConnectedOwn, PeerClosesOwn, TcpErrorOwn,
       TcpReceiveOwn DEF Lwip
  <2> QED BY <1>1, <2>2 DEF Whole
<1>3. CASE \E c \in Calls : BadUrl(c) \/ NoName(c) \/ CallAsks(c) \/ CallConnects(c)
  BY <1>1, <1>3, CallsOwn DEF Whole
<1>4. CASE Return
  BY <1>1, <1>4, ReturnOwn DEF Whole
<1>5. CASE Deadline
  BY <1>1, <1>5, DeadlineOwn DEF Whole
<1>6. CASE UNCHANGED vars
  BY <1>1, <1>6 DEF vars, Whole, Order, Waiting, FreeIsEmpty, Past, PastOf, OwnUnits, Received,
     Present, OnlyOwn, OthersSilent, UnderWay, NothingYet, InHeaders, InBody
<1> QED BY <1>2, <1>3, <1>4, <1>5, <1>6 DEF Next

\* A caller that began when no call, name query or connection attempt was under way and no
\* older connection had data to deliver, and that no call was nested into, gets the units
\* of its own answer's body, in order, and HTTP_OK only for all of them, even if connections
\* of earlier calls, open or closed by tcp_recv_cb, close or fail under it.  (Where the
\* answer has no Content-Length: for all of them if none of those was open.)
THEOREM HttpAnswerIsOwn == Spec => []AnswerIsOwn
<1>1. Init => Whole
  BY WholeHoldsInitially, HttpAssumption
<1>2. Whole /\ [Next]_vars => Whole'
  BY WholeKept
<1>3. Whole => AnswerIsOwn
  BY DEF Whole, Past, PastOf, OwnUnits, Received, AnswerIsOwn, OwnBodyInOrder, OkMeansReceived
<1> QED BY <1>1, <1>2, <1>3, PTL DEF Spec
=============================================================================

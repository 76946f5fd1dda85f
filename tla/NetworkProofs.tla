---------------------------- MODULE NetworkProofs ----------------------------
(***************************************************************************)
(* However many shells, probes, lines and restarts there are: what nests   *)
(* in each other's waits does not mix up verdicts, connections or the      *)
(* credentials of an undisturbed join.                                     *)
(***************************************************************************)
EXTENDS Network, SequenceTheorems, TLAPS

Words == Creds \cup {Stray}
Frames == [who : Shells \cup {Timer}, does : {"join", "test", "arp"},
           creds : Words \cup {Nothing}, intact : BOOLEAN,
           id : Probes \cup {NoProbe}, alone : BOOLEAN]
Memories == [complete : BOOLEAN, connected : BOOLEAN]

TypeInv ==
  /\ stack \in Seq(Frames) /\ held \in BOOLEAN /\ (held => Busy(Ble))
  /\ radio \in Words \cup {Nothing} /\ link \in Creds \cup {Nothing}
  /\ timer \in BOOLEAN /\ saved \in Words \cup {Nothing}
  /\ pcbs \in [Probes -> {"none", "syn", "closing", "leaked", "freed"}]
  /\ memory \in [Probes -> Memories] /\ probes \in 0 .. MaxProbes
  /\ fate \in [Probes -> {"none", "connected", "failed", "aborted"}]
  /\ said \in [Probes -> Verdicts]

\* Every waiting test has a probe of its own, one that was made.
StackInv ==
  /\ \A k \in 1 .. Len(stack) : stack[k].does = "test" <=> stack[k].id # NoProbe
  /\ \A k \in 1 .. Len(stack) : stack[k].id <= probes
  /\ \A k, l \in 1 .. Len(stack) : stack[k].id = stack[l].id /\ stack[k].id # NoProbe => k = l

\* What a waiting test finds in its probe_t is what its connection did.
Truthful(i) ==
  /\ ~memory[i].complete => pcbs[i] = "syn" /\ ~memory[i].connected
  /\ i \notin struck =>
       /\ memory[i].complete => fate[i] = IF memory[i].connected THEN "connected" ELSE "failed"
       /\ pcbs[i] = "closing" => memory[i].complete /\ memory[i].connected
ProbeInv ==
  /\ \A k \in 1 .. Len(stack) : stack[k].does = "test" => Truthful(stack[k].id)
  /\ \A i \in Probes : pcbs[i] = "syn" => fate[i] = "none"
  /\ \A i \in Probes : i > probes => pcbs[i] = "none" /\ fate[i] = "none" /\ said[i] = "none"
  /\ VerdictIsOwn

\* Only the innermost wait can be undisturbed; then its words, the radio and the link are
\* those it began with.
AloneInv ==
  \A k \in 1 .. Len(stack) : stack[k].alone =>
    /\ k = Len(stack)
    /\ stack[k].does = "join" =>
         /\ stack[k].intact
         /\ radio \in {stack[k].creds, Nothing} /\ link \in {stack[k].creds, Nothing}

NetInv == TypeInv /\ StackInv /\ ProbeInv /\ AloneInv

-----------------------------------------------------------------------------
(* The stack of waits *)

LEMMA PushedAt ==
  ASSUME NEW S, NEW s \in Seq(S), NEW f \in S
  PROVE  /\ Append(s, f) \in Seq(S) /\ Len(Append(s, f)) = Len(s) + 1 /\ Len(s) \in Nat
         /\ \A k \in 1 .. Len(s) : Append(s, f)[k] = s[k]
         /\ Append(s, f)[Len(s) + 1] = f
<1>1. Len(s) \in Nat
  BY LenProperties
<1> QED BY <1>1, AppendProperties

LEMMA PoppedAt ==
  ASSUME NEW S, NEW s \in Seq(S), s # <<>>
  PROVE  /\ SubSeq(s, 1, Len(s) - 1) \in Seq(S) /\ Len(SubSeq(s, 1, Len(s) - 1)) = Len(s) - 1
         /\ Len(s) \in Nat \ {0}
         /\ \A k \in 1 .. Len(s) - 1 : SubSeq(s, 1, Len(s) - 1)[k] = s[k]
<1>1. Len(s) \in Nat \ {0}
  BY EmptySeq
<1>2. \A i \in 1 .. Len(s) - 1 : s[i] \in S
  BY <1>1, ElementOfSeq
<1> DEFINE n == Len(s) - 1
<1>3. n \in Int /\ 1 \in Int /\ n >= 0
  BY <1>1
<1>4. /\ SubSeq(s, 1, n) \in Seq(S)
      /\ Len(SubSeq(s, 1, n)) = IF 1 <= n THEN n - 1 + 1 ELSE 0
      /\ \A i \in 1 .. n - 1 + 1 : SubSeq(s, 1, n)[i] = s[1 + i - 1]
  <2> HIDE DEF n
  <2> QED BY <1>2, <1>3, SubSeqProperties DEF n
<1> HIDE DEF n
<1>5. Len(SubSeq(s, 1, n)) = n /\ \A k \in 1 .. n : SubSeq(s, 1, n)[k] = s[k]
  BY <1>3, <1>4
<1> QED BY <1>1, <1>4, <1>5 DEF n

LEMMA FunIsSeq ==
  ASSUME NEW S, NEW n \in Nat, NEW g \in [1 .. n -> S]
  PROVE  g \in Seq(S) /\ Len(g) = n
OBVIOUS

\* A line is dispatched: every wait stays where it is, and is no longer undisturbed.
LEMMA ClobberedAt ==
  ASSUME stack \in Seq(Frames)
  PROVE  /\ Clobbered \in Seq(Frames) /\ Len(Clobbered) = Len(stack) /\ Len(stack) \in Nat
         /\ \A k \in 1 .. Len(stack) :
              /\ Clobbered[k].who = stack[k].who /\ Clobbered[k].does = stack[k].does
              /\ Clobbered[k].id = stack[k].id /\ Clobbered[k].creds = stack[k].creds
              /\ ~Clobbered[k].alone
<1>1. Len(stack) \in Nat
  BY LenProperties
<1>2. \A k \in 1 .. Len(stack) : stack[k] \in Frames
  BY <1>1, ElementOfSeq
<1>3. \A k \in 1 .. Len(stack) :
        [stack[k] EXCEPT !.intact = (stack[k].who = Timer), !.alone = FALSE] \in Frames
  BY <1>2 DEF Frames
<1>4. Clobbered \in [1 .. Len(stack) -> Frames]
  BY <1>3 DEF Clobbered
<1>5. Clobbered \in Seq(Frames) /\ Len(Clobbered) = Len(stack)
  BY <1>1, <1>4, FunIsSeq
<1>6. \A k \in 1 .. Len(stack) :
              /\ Clobbered[k].who = stack[k].who /\ Clobbered[k].does = stack[k].does
              /\ Clobbered[k].id = stack[k].id /\ Clobbered[k].creds = stack[k].creds
              /\ ~Clobbered[k].alone
  BY <1>2 DEF Clobbered, Frames
<1> QED BY <1>1, <1>5, <1>6

\* The timer fires inside whatever wait pumped it.
Disturbed == [k \in 1 .. Len(stack) |-> [stack[k] EXCEPT !.alone = FALSE]]

LEMMA DisturbedAt ==
  ASSUME stack \in Seq(Frames)
  PROVE  /\ Disturbed \in Seq(Frames) /\ Len(Disturbed) = Len(stack) /\ Len(stack) \in Nat
         /\ \A k \in 1 .. Len(stack) :
              /\ Disturbed[k].who = stack[k].who /\ Disturbed[k].does = stack[k].does
              /\ Disturbed[k].id = stack[k].id /\ Disturbed[k].creds = stack[k].creds
              /\ ~Disturbed[k].alone
<1>1. Len(stack) \in Nat
  BY LenProperties
<1>2. \A k \in 1 .. Len(stack) : stack[k] \in Frames
  BY <1>1, ElementOfSeq
<1>3. \A k \in 1 .. Len(stack) : [stack[k] EXCEPT !.alone = FALSE] \in Frames
  BY <1>2 DEF Frames
<1>4. Disturbed \in [1 .. Len(stack) -> Frames]
  BY <1>3 DEF Disturbed
<1>5. Disturbed \in Seq(Frames) /\ Len(Disturbed) = Len(stack)
  BY <1>1, <1>4, FunIsSeq
<1>6. \A k \in 1 .. Len(stack) :
              /\ Disturbed[k].who = stack[k].who /\ Disturbed[k].does = stack[k].does
              /\ Disturbed[k].id = stack[k].id /\ Disturbed[k].creds = stack[k].creds
              /\ ~Disturbed[k].alone
  BY <1>2 DEF Disturbed, Frames
<1> QED BY <1>1, <1>5, <1>6

-----------------------------------------------------------------------------
(* What a step may do to the waits *)

Lasts(k) ==
  stack'[k].who = stack[k].who /\ stack'[k].does = stack[k].does /\ stack'[k].id = stack[k].id

\* Waits end from the inside; those that go on keep their places.
Stays ==
  /\ Len(stack') \in Nat
  /\ \A k \in 1 .. Len(stack') : k <= Len(stack) => Lasts(k)
\* and none that has just begun is a test
NoNewTest ==
  \A k \in 1 .. Len(stack') : k > Len(stack) => stack'[k].does # "test" /\ stack'[k].id = NoProbe

ProbesUnchanged == UNCHANGED <<lwipVars, probes, said>>

LEMMA Lengths ==
  ASSUME TypeInv
  PROVE  Len(stack) \in Nat /\ \A k \in 1 .. Len(stack) : stack[k] \in Frames
<1>1. stack \in Seq(Frames)
  BY DEF TypeInv
<1>2. Len(stack) \in Nat
  BY <1>1, LenProperties
<1> QED BY <1>1, <1>2, ElementOfSeq

\* A step that leaves the connections alone and begins no test
LEMMA KeepsProbes ==
  ASSUME NetInv, Stays, NoNewTest, ProbesUnchanged
  PROVE  StackInv' /\ ProbeInv'
<1>1. Len(stack) \in Nat /\ Len(stack') \in Nat /\ probes \in 0 .. MaxProbes
  BY Lengths DEF NetInv, TypeInv, Stays
<1>2. probes' = probes /\ pcbs' = pcbs /\ memory' = memory /\ fate' = fate /\ struck' = struck
      /\ said' = said
  BY DEF ProbesUnchanged, lwipVars
<1>3. \A k \in 1 .. Len(stack') :
        \/ k \in 1 .. Len(stack) /\ Lasts(k)
        \/ stack'[k].does # "test" /\ stack'[k].id = NoProbe
  BY <1>1 DEF Stays, NoNewTest
<1>4. \A k \in 1 .. Len(stack') : stack'[k].does = "test" <=> stack'[k].id # NoProbe
  BY <1>3 DEF NetInv, StackInv, Lasts
<1>5. \A k \in 1 .. Len(stack') : stack'[k].id <= probes'
  BY <1>1, <1>2, <1>3 DEF NetInv, StackInv, Lasts, NoProbe
<1>6. \A k, l \in 1 .. Len(stack') :
        stack'[k].id = stack'[l].id /\ stack'[k].id # NoProbe => k = l
  BY <1>3 DEF NetInv, StackInv, Lasts
<1>7. \A k \in 1 .. Len(stack') : stack'[k].does = "test" => Truthful(stack'[k].id)
  BY <1>3 DEF NetInv, ProbeInv, Lasts
<1>8. \A i : Truthful(i) => Truthful(i)'
  BY <1>2 DEF Truthful
<1>9. ProbeInv'
  BY <1>2, <1>7, <1>8 DEF NetInv, ProbeInv, VerdictIsOwn, Truthful
<1> QED BY <1>4, <1>5, <1>6, <1>9 DEF StackInv

LEMMA PopsAt ==
  ASSUME NetInv, Waiting, Returns
  PROVE  /\ stack' \in Seq(Frames) /\ held' \in BOOLEAN /\ (held' => Busy(Ble)')
         /\ Len(stack') = Len(stack) - 1 /\ Stays /\ NoNewTest /\ AloneInv'
         /\ \A k \in 1 .. Len(stack') : stack'[k] = stack[k]
         /\ Len(stack) \in 1 .. Len(stack) /\ Top \in Frames
<1>1. stack \in Seq(Frames) /\ stack # <<>> /\ held \in BOOLEAN /\ (held => Busy(Ble))
  BY DEF NetInv, TypeInv, Waiting
<1>2. /\ stack' \in Seq(Frames) /\ Len(stack') = Len(stack) - 1
      /\ Len(stack) \in Nat \ {0}
      /\ \A k \in 1 .. Len(stack) - 1 : stack'[k] = stack[k]
  BY <1>1, PoppedAt DEF Returns
<1>3. held' = (held /\ Top.who # Ble)
  BY DEF Returns
<1>4. ASSUME held' PROVE Busy(Ble)'
  <2>1. PICK k \in 1 .. Len(stack) : stack[k].who = Ble
    BY <1>1, <1>3, <1>4 DEF Busy
  <2>2. k # Len(stack)
    BY <1>3, <1>4, <2>1 DEF Top
  <2>3. k \in 1 .. Len(stack') /\ stack'[k].who = Ble
    BY <1>2, <2>1, <2>2
  <2> QED BY <2>3 DEF Busy
<1>5. Stays /\ NoNewTest
  BY <1>2 DEF Stays, NoNewTest, Lasts
<1>6. AloneInv'
  <2>1. \A k \in 1 .. Len(stack') : ~stack'[k].alone
    BY <1>2 DEF NetInv, AloneInv
  <2> QED BY <2>1 DEF AloneInv
<1>7. Len(stack) \in 1 .. Len(stack) /\ Top \in Frames
  BY <1>1, <1>2, ElementOfSeq DEF Top
<1> QED BY <1>1, <1>2, <1>3, <1>4, <1>5, <1>6, <1>7

\* A line that does not wait
LEMMA ClobbersAt ==
  ASSUME NetInv, stack' = Clobbered
  PROVE  /\ stack' \in Seq(Frames) /\ Stays /\ NoNewTest /\ AloneInv'
         /\ Len(stack') = Len(stack)
         /\ (Busy(Ble) => Busy(Ble)')
<1>1. stack \in Seq(Frames)
  BY DEF NetInv, TypeInv
<1>2. /\ stack' \in Seq(Frames) /\ Len(stack') = Len(stack) /\ Len(stack) \in Nat
      /\ \A k \in 1 .. Len(stack) : Lasts(k) /\ ~stack'[k].alone
  BY <1>1, ClobberedAt DEF Lasts
<1> QED BY <1>2 DEF Stays, NoNewTest, AloneInv, Busy, Lasts

\* One wait more, on waits that are no longer undisturbed
LEMMA PushesAt ==
  ASSUME NetInv, NEW f \in Frames, NEW others, others \in {Clobbered, Disturbed},
         stack' = Append(others, f)
  PROVE  /\ stack' \in Seq(Frames) /\ Stays /\ Len(stack') = Len(stack) + 1
         /\ stack'[Len(stack) + 1] = f /\ Len(stack) \in Nat
         /\ \A k \in 1 .. Len(stack) : Lasts(k) /\ ~stack'[k].alone
         /\ (Busy(Ble) \/ f.who = Ble => Busy(Ble)')
<1>1. stack \in Seq(Frames)
  BY DEF NetInv, TypeInv
<1>2. /\ others \in Seq(Frames) /\ Len(others) = Len(stack) /\ Len(stack) \in Nat
      /\ \A k \in 1 .. Len(stack) :
           /\ others[k].who = stack[k].who /\ others[k].does = stack[k].does
           /\ others[k].id = stack[k].id /\ ~others[k].alone
  BY <1>1, ClobberedAt, DisturbedAt
<1>3. /\ stack' \in Seq(Frames) /\ Len(stack') = Len(stack) + 1
      /\ \A k \in 1 .. Len(stack) : stack'[k] = others[k]
      /\ stack'[Len(stack) + 1] = f
  BY <1>2, PushedAt
<1>4. \A k \in 1 .. Len(stack) : Lasts(k) /\ ~stack'[k].alone
  BY <1>2, <1>3 DEF Lasts
<1>5. ASSUME Busy(Ble) PROVE Busy(Ble)'
  BY <1>2, <1>3, <1>4, <1>5 DEF Busy, Lasts
<1>6. ASSUME f.who = Ble PROVE Busy(Ble)'
  BY <1>2, <1>3, <1>6 DEF Busy
<1>7. Stays
  BY <1>2, <1>3, <1>4 DEF Stays
<1> QED BY <1>2, <1>3, <1>4, <1>5, <1>6, <1>7

-----------------------------------------------------------------------------
(* The radio *)

LEMMA RadioKeeps ==
  ASSUME NetInv, Radio
  PROVE  NetInv'
<1>1. /\ UNCHANGED <<stack, held, timer, saved, lwipVars, probes, said>>
      /\ radio' \in Words \cup {Nothing} /\ link' \in Creds \cup {Nothing}
  <2>1. CASE RadioJoins
    BY <2>1 DEF RadioJoins, Words
  <2>2. CASE RadioFails
    BY <2>2 DEF RadioFails, NetInv, TypeInv
  <2>3. CASE NoNetwork
    <3>1. Top \in Frames
      <4>1. Len(stack) \in Nat /\ Waiting
        BY <2>3, Lengths DEF NetInv, NoNetwork
      <4>2. Len(stack) \in 1 .. Len(stack)
        BY <4>1, EmptySeq DEF NetInv, TypeInv, Waiting
      <4> QED BY <4>2, Lengths DEF NetInv, Top
    <3> QED BY <2>3, <3>1 DEF NoNetwork, Spelled, Frames, Words, NetInv, TypeInv
  <2>4. CASE LinkLost
    BY <2>4 DEF LinkLost, NetInv, TypeInv
  <2> QED BY <2>1, <2>2, <2>3, <2>4 DEF Radio
<1>2. TypeInv'
  BY <1>1 DEF NetInv, TypeInv, Busy, lwipVars
<1>3. Stays /\ NoNewTest /\ ProbesUnchanged
  BY <1>1, Lengths DEF NetInv, Stays, NoNewTest, Lasts, ProbesUnchanged
<1>4. StackInv' /\ ProbeInv'
  BY <1>3, KeepsProbes
<1>5. AloneInv'
  <2> SUFFICES ASSUME NEW k \in 1 .. Len(stack), stack[k].alone, stack[k].does = "join"
               PROVE  radio' \in {stack[k].creds, Nothing} /\ link' \in {stack[k].creds, Nothing}
    BY <1>1 DEF NetInv, AloneInv
  <2>1. /\ k = Len(stack) /\ Top = stack[k] /\ stack[k].intact
        /\ radio \in {stack[k].creds, Nothing} /\ link \in {stack[k].creds, Nothing}
    BY DEF NetInv, AloneInv, Top
  <2>2. CASE RadioJoins
    BY <2>1, <2>2, NetworkAssumption DEF RadioJoins
  <2>3. CASE RadioFails
    BY <2>1, <2>3 DEF RadioFails
  <2>4. CASE NoNetwork
    BY <2>1, <2>4 DEF NoNetwork, Spelled
  <2>5. CASE LinkLost
    BY <2>1, <2>5 DEF LinkLost
  <2> QED BY <2>2, <2>3, <2>4, <2>5 DEF Radio
<1> QED BY <1>2, <1>4, <1>5 DEF NetInv

-----------------------------------------------------------------------------
(* Waits that end *)

LEMMA JoinEndKeeps ==
  ASSUME NetInv, JoinSucceeds \/ JoinFails \/ ArpEnds
  PROVE  NetInv'
<1>1. Waiting /\ Returns /\ UNCHANGED <<radioVars, timer, lwipVars, probes, said>>
  BY DEF JoinSucceeds, JoinFails, ArpEnds
<1>2. /\ stack' \in Seq(Frames) /\ held' \in BOOLEAN /\ (held' => Busy(Ble)')
      /\ Stays /\ NoNewTest /\ AloneInv' /\ Top \in Frames
  BY <1>1, PopsAt
<1>3. saved' \in Words \cup {Nothing}
  BY <1>2 DEF JoinSucceeds, JoinFails, ArpEnds, Spelled, Frames, Words, NetInv, TypeInv
<1>4. TypeInv'
  BY <1>1, <1>2, <1>3 DEF NetInv, TypeInv, radioVars, lwipVars, Busy
<1>5. StackInv' /\ ProbeInv'
  BY <1>1, <1>2, KeepsProbes DEF ProbesUnchanged
<1> QED BY <1>2, <1>4, <1>5 DEF NetInv

\* net test returns: with what its probe_t says, or after it has aborted its connection.
LEMMA TestEndKeeps ==
  ASSUME NetInv, TestComplete \/ TestTimesOut
  PROVE  NetInv'
<1> DEFINE i == Top.id
<1>1. Waiting /\ Returns /\ Top.does = "test" /\ UNCHANGED <<radioVars, timer, saved, probes, struck>>
  BY DEF TestComplete, TestTimesOut, Testing, Reports, lwipVars
<1>2. /\ stack' \in Seq(Frames) /\ held' \in BOOLEAN /\ (held' => Busy(Ble)')
      /\ Len(stack') = Len(stack) - 1 /\ AloneInv'
      /\ \A k \in 1 .. Len(stack') : stack'[k] = stack[k]
      /\ Len(stack) \in 1 .. Len(stack) /\ Top \in Frames
  BY <1>1, PopsAt
<1>3. Len(stack) \in Nat
  BY Lengths DEF NetInv
<1>4. i \in Probes /\ i <= probes /\ Truthful(i) /\ probes \in 0 .. MaxProbes
  BY <1>1, <1>2 DEF Top, NetInv, StackInv, ProbeInv, Frames, TypeInv
<1>5. \A k \in 1 .. Len(stack') : k \in 1 .. Len(stack) /\ k # Len(stack) /\ stack'[k] = stack[k]
  BY <1>2, <1>3
<1>6. \A k \in 1 .. Len(stack') : stack'[k].does = "test" => stack'[k].id # i
  BY <1>2, <1>5 DEF NetInv, StackInv, Top
<1>7. StackInv'
  BY <1>1, <1>5 DEF NetInv, StackInv
<1>8. /\ pcbs' \in [Probes -> {"none", "syn", "closing", "leaked", "freed"}]
      /\ memory' \in [Probes -> Memories]
      /\ fate' \in [Probes -> {"none", "connected", "failed", "aborted"}]
      /\ \A j \in Probes : j # i => pcbs'[j] = pcbs[j] /\ memory'[j] = memory[j]
                                      /\ fate'[j] = fate[j] /\ said'[j] = said[j]
      /\ said' \in [Probes -> Verdicts]
  <2> USE DEF NetInv, TypeInv, Verdicts
  <2>1. CASE TestComplete
    BY <1>4, <2>1 DEF TestComplete, Reports, lwipVars
  <2>2. CASE TestTimesOut
    <3>1. memory[i] \in Memories
      BY <1>4
    <3>2. ErrNoted(memory[i]) \in Memories
      BY <3>1 DEF ErrNoted, Memories
    <3> QED BY <1>4, <2>2, <3>2 DEF TestTimesOut, Reports
  <2> QED BY <2>1, <2>2
<1>9. /\ pcbs'[i] = "syn" => fate'[i] = "none"
      /\ i \notin struck => /\ said'[i] = "ok" => fate'[i] = "connected"
                            /\ said'[i] = "failed" => fate'[i] = "failed"
                            /\ said'[i] = "timeout" => fate'[i] = "aborted"
  <2>1. CASE TestComplete
    <3>1. /\ pcbs' = pcbs /\ fate' = fate /\ memory[i].complete
          /\ said' = [said EXCEPT ![i] = IF memory[i].connected THEN "ok" ELSE "failed"]
      BY <2>1 DEF TestComplete, Reports, lwipVars
    <3>2. said'[i] = IF memory[i].connected THEN "ok" ELSE "failed"
      BY <1>4, <3>1 DEF NetInv, TypeInv
    <3>3. i \notin struck => fate[i] = IF memory[i].connected THEN "connected" ELSE "failed"
      BY <1>4, <3>1 DEF Truthful
    <3> QED BY <1>4, <3>1, <3>2, <3>3 DEF NetInv, ProbeInv
  <2>2. CASE TestTimesOut
    <3>1. pcbs'[i] = "freed" /\ fate'[i] = "aborted" /\ said'[i] = "timeout"
      BY <1>4, <2>2 DEF TestTimesOut, Reports, NetInv, TypeInv
    <3> QED BY <3>1
  <2> QED BY <2>1, <2>2
<1>10. ProbeInv'
  <2>1. \A k \in 1 .. Len(stack') : stack'[k].does = "test" =>
          stack'[k].id \in Probes /\ stack'[k].id # i /\ Truthful(stack'[k].id)
    BY <1>5, <1>6, Lengths DEF NetInv, ProbeInv, StackInv, Frames
  <2>5. \A j \in Probes : j # i /\ Truthful(j) => Truthful(j)'
    <3> SUFFICES ASSUME NEW j \in Probes, j # i, Truthful(j) PROVE Truthful(j)'
      OBVIOUS
    <3>1. pcbs'[j] = pcbs[j] /\ memory'[j] = memory[j] /\ fate'[j] = fate[j] /\ struck' = struck
      BY <1>1, <1>8
    <3> QED BY <3>1 DEF Truthful
  <2>6. (\A k \in 1 .. Len(stack) : stack[k].does = "test" => Truthful(stack[k].id))'
    <3> HIDE DEF i
    <3> QED BY <2>1, <2>5 DEF Truthful
  <2>2. \A j \in Probes : pcbs'[j] = "syn" => fate'[j] = "none"
    BY <1>8, <1>9 DEF NetInv, ProbeInv
  <2>3. \A j \in Probes : j > probes' =>
          pcbs'[j] = "none" /\ fate'[j] = "none" /\ said'[j] = "none"
    <3> SUFFICES ASSUME NEW j \in Probes, j > probes
                 PROVE  pcbs'[j] = "none" /\ fate'[j] = "none" /\ said'[j] = "none"
      BY <1>1
    <3>1. j # i
      <4> HIDE DEF i
      <4> QED BY <1>4, NetworkAssumption DEF Probes
    <3> QED BY <1>8, <3>1 DEF NetInv, ProbeInv
  <2>4. VerdictIsOwn'
    BY <1>1, <1>8, <1>9 DEF NetInv, ProbeInv, VerdictIsOwn
  <2> QED BY <2>2, <2>3, <2>4, <2>6 DEF ProbeInv
<1>11. TypeInv'
  BY <1>1, <1>2, <1>8 DEF NetInv, TypeInv, radioVars, Busy
<1> QED BY <1>2, <1>7, <1>10, <1>11 DEF NetInv

-----------------------------------------------------------------------------
(* lwIP's callbacks *)

\* A callback of connection i writes to nobody's probe_t but its own, or marks it.
LEMMA WritesAt ==
  ASSUME NetInv, NEW i \in Probes, NEW w \in [Probes -> Memories],
         Writes(i, w) \/ UNCHANGED <<memory, struck>>
  PROVE  /\ memory' \in [Probes -> Memories]
         /\ memory'[i] \in {memory[i], w[i]}
         /\ Onstack(i) /\ Writes(i, w) => memory'[i] = w[i] /\ struck' = struck
         /\ \A j \in struck : j \in struck'
         /\ \A j \in Probes : j # i => memory'[j] = memory[j] \/ (j \in struck' /\ memory'[j] = w[j])
<1>1. memory \in [Probes -> Memories]
  BY DEF NetInv, TypeInv
<1>2. CASE UNCHANGED <<memory, struck>>
  BY <1>1, <1>2 DEF Writes
<1>3. CASE Onstack(i) /\ Writes(i, w)
  BY <1>1, <1>3 DEF Writes
<1>4. CASE ~Onstack(i) /\ Writes(i, w) /\ ~UNCHANGED <<memory, struck>>
  <2>1. PICK j \in Probes : /\ Onstack(j)
                            /\ memory' = [memory EXCEPT ![j] = w[j]]
                            /\ struck' = struck \cup {j}
    BY <1>4 DEF Writes
  <2>2. j # i
    BY <1>4, <2>1
  <2> QED BY <1>1, <1>4, <2>1, <2>2
<1> QED BY <1>2, <1>3, <1>4

LEMMA LwipKeeps ==
  ASSUME NetInv, NEW i \in Probes, LwipConnects(i) \/ LwipGivesUp(i) \/ LwipCloses(i)
  PROVE  NetInv'
<1>1. UNCHANGED <<stack, held, radioVars, timer, saved, probes, said>>
  BY DEF LwipConnects, LwipGivesUp, LwipCloses
<1>2. /\ pcbs \in [Probes -> {"none", "syn", "closing", "leaked", "freed"}]
      /\ memory \in [Probes -> Memories] /\ probes \in 0 .. MaxProbes
      /\ fate \in [Probes -> {"none", "connected", "failed", "aborted"}]
      /\ said \in [Probes -> Verdicts]
  BY DEF NetInv, TypeInv
<1>3. /\ AllConnected \in [Probes -> Memories] /\ AllErrNoted \in [Probes -> Memories]
      /\ AllConnected[i] = [complete |-> TRUE, connected |-> TRUE]
      /\ AllErrNoted[i].complete /\ AllErrNoted[i].connected = memory[i].connected
      /\ \A j \in Probes : AllConnected[j].complete /\ AllErrNoted[j].complete
  BY <1>2 DEF AllConnected, AllErrNoted, Connected, ErrNoted, Memories
<1>4. PICK w \in [Probes -> Memories] :
        /\ Writes(i, w) \/ UNCHANGED <<memory, struck>>
        /\ \A j \in Probes : w[j].complete
  BY <1>3 DEF LwipConnects, LwipGivesUp, LwipCloses
<1>5. /\ memory' \in [Probes -> Memories] /\ \A j \in struck : j \in struck'
      /\ \A j \in Probes : j # i => \/ memory'[j] = memory[j]
                                    \/ j \in struck' /\ memory'[j].complete
  BY <1>4, WritesAt
<1>6. /\ pcbs' \in [Probes -> {"none", "syn", "closing", "leaked", "freed"}]
      /\ fate' \in [Probes -> {"none", "connected", "failed", "aborted"}]
      /\ pcbs'[i] # "syn" /\ (fate'[i] = fate[i] \/ pcbs[i] = "syn")
      /\ \A j \in Probes : j # i => pcbs'[j] = pcbs[j] /\ fate'[j] = fate[j]
  BY <1>2 DEF LwipConnects, LwipGivesUp, LwipCloses
<1>7. pcbs[i] = "syn" => fate[i] = "none"
  BY DEF NetInv, ProbeInv
<1>8. ASSUME Onstack(i), Truthful(i) PROVE Truthful(i)'
  <2>1. CASE LwipConnects(i)
    <3>1. pcbs'[i] = "closing" /\ fate'[i] = "connected" /\ Writes(i, AllConnected)
      BY <1>2, <2>1 DEF LwipConnects
    <3>2. memory'[i] = AllConnected[i]
      BY <1>3, <1>8, <3>1, WritesAt
    <3> QED BY <1>3, <3>1, <3>2 DEF Truthful
  <2>2. CASE LwipGivesUp(i)
    <3>1. /\ pcbs[i] = "syn" /\ pcbs'[i] = "freed" /\ fate'[i] = "failed"
          /\ Writes(i, AllErrNoted)
      BY <1>2, <2>2 DEF LwipGivesUp
    <3>2. memory'[i] = AllErrNoted[i] /\ struck' = struck
      BY <1>3, <1>8, <3>1, WritesAt
    <3>3. i \notin struck => ~memory[i].complete
      BY <1>7, <1>8, <3>1 DEF Truthful
    <3>4. i \notin struck => ~memory[i].connected
      BY <1>8, <3>3 DEF Truthful
    <3>5. memory'[i].complete /\ memory'[i].connected = memory[i].connected
      BY <1>3, <3>2
    <3> QED BY <3>1, <3>2, <3>4, <3>5 DEF Truthful
  <2>3. CASE LwipCloses(i)
    <3>1. /\ pcbs[i] = "closing" /\ pcbs'[i] = "freed" /\ fate' = fate
          /\ Writes(i, AllErrNoted) \/ UNCHANGED <<memory, struck>>
      BY <1>2, <2>3 DEF LwipCloses
    <3>2. memory'[i] \in {memory[i], AllErrNoted[i]} /\ \A j \in struck : j \in struck'
      BY <1>3, <3>1, WritesAt
    <3>3. memory[i].complete
      BY <1>8, <3>1 DEF Truthful
    <3>4. memory'[i].complete /\ memory'[i].connected = memory[i].connected
      BY <1>3, <3>2, <3>3
    <3>5. i \notin struck' => fate'[i] = IF memory'[i].connected THEN "connected" ELSE "failed"
      BY <1>8, <3>1, <3>2, <3>3, <3>4 DEF Truthful
    <3> QED BY <3>1, <3>4, <3>5 DEF Truthful
  <2> QED BY <2>1, <2>2, <2>3
<1>9. \A j \in Probes : j # i /\ Truthful(j) => Truthful(j)'
  <2> SUFFICES ASSUME NEW j \in Probes, j # i, Truthful(j) PROVE Truthful(j)'
    OBVIOUS
  <2>1. pcbs'[j] = pcbs[j] /\ fate'[j] = fate[j] /\ (j \in struck => j \in struck')
    BY <1>5, <1>6
  <2>2. CASE memory'[j] = memory[j]
    BY <2>1, <2>2 DEF Truthful
  <2>3. CASE j \in struck' /\ memory'[j].complete
    BY <2>3 DEF Truthful
  <2> QED BY <1>5, <2>2, <2>3
<1>10. ProbeInv'
  <2>1. \A k \in 1 .. Len(stack) : stack[k].does = "test" =>
          stack[k].id \in Probes /\ Onstack(stack[k].id) /\ Truthful(stack[k].id)
    BY Lengths DEF NetInv, ProbeInv, StackInv, Frames, Onstack
  <2>2. stack' = stack
    BY <1>1
  <2>3. (\A k \in 1 .. Len(stack) : stack[k].does = "test" => Truthful(stack[k].id))'
    BY <1>8, <1>9, <2>1, <2>2 DEF Truthful
  <2>4. \A j \in Probes : pcbs'[j] = "syn" => fate'[j] = "none"
    BY <1>6 DEF NetInv, ProbeInv
  <2>5. ~(i > probes)
    BY DEF NetInv, ProbeInv, LwipConnects, LwipGivesUp, LwipCloses
  <2>6. \A j \in Probes : j > probes' =>
          pcbs'[j] = "none" /\ fate'[j] = "none" /\ said'[j] = "none"
    BY <1>1, <1>6, <2>5 DEF NetInv, ProbeInv
  <2>8. VerdictIsOwn'
    <3> SUFFICES ASSUME NEW j \in Probes, j \notin struck'
                 PROVE  /\ said[j] = "ok" => fate'[j] = "connected"
                        /\ said[j] = "failed" => fate'[j] = "failed"
                        /\ said[j] = "timeout" => fate'[j] = "aborted"
      BY <1>1 DEF VerdictIsOwn
    <3>1. j \notin struck
      BY <1>5
    <3>2. /\ said[j] = "ok" => fate[j] = "connected"
          /\ said[j] = "failed" => fate[j] = "failed"
          /\ said[j] = "timeout" => fate[j] = "aborted"
      BY <3>1 DEF NetInv, ProbeInv, VerdictIsOwn
    <3>3. fate'[j] = fate[j] \/ fate[j] = "none"
      BY <1>6, <1>7
    <3> QED BY <3>2, <3>3
  <2> QED BY <1>1, <2>3, <2>4, <2>6, <2>8 DEF ProbeInv
<1>11. TypeInv' /\ StackInv' /\ AloneInv'
  <2>1. TypeInv'
    BY <1>1, <1>5, <1>6 DEF NetInv, TypeInv, radioVars, Busy
  <2>2. StackInv' /\ AloneInv'
    BY <1>1 DEF NetInv, StackInv, AloneInv, radioVars
  <2> QED BY <2>1, <2>2
<1> QED BY <1>10, <1>11 DEF NetInv

-----------------------------------------------------------------------------
(* Waits that begin *)

\* A join begins, of a line or of the timer.
LEMMA JoinKeeps ==
  ASSUME NetInv, NEW who \in Shells \cup {Timer}, NEW c \in Words,
         NEW others, others \in {Clobbered, Disturbed}, Join(who, c, others),
         timer' \in BOOLEAN, UNCHANGED <<saved, lwipVars, probes, said>>,
         \/ UNCHANGED held
         \/ who # Timer /\ held' = (held \/ who = Ble)
  PROVE  NetInv'
<1> DEFINE f == Frame(who, "join", c, NoProbe, link = Nothing)
<1>1. f \in Frames
  BY DEF Frame, Frames
<1>2. stack' = Append(others, f) /\ radio' = c /\ link' \in {link, Nothing}
  BY DEF Join
<1>3. /\ stack' \in Seq(Frames) /\ Stays /\ Len(stack') = Len(stack) + 1
      /\ stack'[Len(stack) + 1] = f /\ Len(stack) \in Nat
      /\ \A k \in 1 .. Len(stack) : Lasts(k) /\ ~stack'[k].alone
      /\ (Busy(Ble) \/ f.who = Ble => Busy(Ble)')
  <2> HIDE DEF f
  <2> QED BY <1>1, <1>2, PushesAt
<1>4. f.who = who /\ f.does = "join" /\ f.id = NoProbe /\ f.intact /\ f.creds = c
      /\ (f.alone <=> link = Nothing)
  BY DEF Frame
<1> HIDE DEF f
<1>5. \A k \in 1 .. Len(stack') : k \in 1 .. Len(stack) \/ (k = Len(stack') /\ stack'[k] = f)
  BY <1>3
<1>6. NoNewTest
  BY <1>3, <1>4, <1>5 DEF NoNewTest
<1>7. StackInv' /\ ProbeInv'
  BY <1>3, <1>6, KeepsProbes DEF ProbesUnchanged
<1>8. AloneInv'
  <2> SUFFICES ASSUME NEW k \in 1 .. Len(stack'), stack'[k].alone
               PROVE  /\ k = Len(stack')
                      /\ stack'[k].intact
                      /\ radio' \in {stack'[k].creds, Nothing}
                      /\ link' \in {stack'[k].creds, Nothing}
    BY DEF AloneInv
  <2>1. k = Len(stack') /\ stack'[k] = f
    BY <1>3, <1>5
  <2> QED BY <1>2, <1>4, <2>1
<1>9. TypeInv'
  <2>1. held \in BOOLEAN /\ (held => Busy(Ble))
    BY DEF NetInv, TypeInv
  <2>2. Busy(Ble) \/ who = Ble => Busy(Ble)'
    BY <1>3, <1>4
  <2>3. held' = held \/ held' = (held \/ who = Ble)
    OBVIOUS
  <2>4. held' \in BOOLEAN /\ (held' => Busy(Ble)')
    <3>1. CASE held' = held
      BY <2>1, <2>2, <3>1
    <3>2. CASE held' = (held \/ who = Ble)
      BY <2>1, <2>2, <3>2
    <3> QED BY <2>3, <3>1, <3>2
  <2> QED BY <1>2, <1>3, <2>4 DEF NetInv, TypeInv, Words, lwipVars
<1> QED BY <1>7, <1>8, <1>9 DEF NetInv

LEMMA AutoConnectKeeps ==
  ASSUME NetInv, AutoConnect
  PROVE  NetInv'
<1>1. timer' \in BOOLEAN /\ UNCHANGED <<held, saved, lwipVars, probes, said>>
  BY DEF AutoConnect
<1>2. CASE saved = Nothing
  <2>1. UNCHANGED <<stack, radioVars>>
    BY <1>2 DEF AutoConnect
  <2>2. Stays /\ NoNewTest /\ ProbesUnchanged
    BY <1>1, <2>1, Lengths DEF NetInv, Stays, NoNewTest, Lasts, ProbesUnchanged
  <2>3. StackInv' /\ ProbeInv'
    BY <2>2, KeepsProbes
  <2>4. TypeInv' /\ AloneInv'
    BY <1>1, <2>1 DEF NetInv, TypeInv, AloneInv, radioVars, lwipVars, Busy
  <2> QED BY <2>3, <2>4 DEF NetInv
<1>3. CASE saved # Nothing
  <2>1. Join(Timer, saved, Disturbed) /\ saved \in Words
    BY <1>3 DEF AutoConnect, Disturbed, NetInv, TypeInv
  <2> QED BY <1>1, <2>1, JoinKeeps
<1> QED BY <1>2, <1>3

\* A line that does not wait, and touches neither the radio nor lwIP
LEMMA LineKeeps ==
  ASSUME NetInv, stack' = Clobbered, held' \in BOOLEAN, held' => held,
         saved' \in {saved, Nothing}, UNCHANGED <<radioVars, timer, lwipVars, probes, said>>
  PROVE  NetInv'
<1>1. /\ stack' \in Seq(Frames) /\ Stays /\ NoNewTest /\ AloneInv'
      /\ (Busy(Ble) => Busy(Ble)')
  BY ClobbersAt
<1>2. StackInv' /\ ProbeInv'
  BY <1>1, KeepsProbes DEF ProbesUnchanged
<1>3. TypeInv'
  BY <1>1 DEF NetInv, TypeInv, radioVars, lwipVars
<1> QED BY <1>1, <1>2, <1>3 DEF NetInv

LEMMA ArpKeeps ==
  ASSUME NetInv, NEW s \in Shells, NetArp(s)
  PROVE  NetInv'
<1> DEFINE f == Frame(s, "arp", Nothing, NoProbe, TRUE)
<1>1. f \in Frames /\ f.who = s /\ f.does = "arp" /\ f.id = NoProbe
  BY DEF Frame, Frames
<1>2. /\ stack' = Append(Clobbered, f) /\ held' = (held \/ s = Ble)
      /\ UNCHANGED <<radioVars, timer, saved, lwipVars, probes, said>>
  BY DEF NetArp, Waits
<1> HIDE DEF f
<1>3. /\ stack' \in Seq(Frames) /\ Stays /\ Len(stack') = Len(stack) + 1
      /\ stack'[Len(stack) + 1] = f /\ Len(stack) \in Nat
      /\ \A k \in 1 .. Len(stack) : Lasts(k) /\ ~stack'[k].alone
      /\ (Busy(Ble) \/ f.who = Ble => Busy(Ble)')
  BY <1>1, <1>2, PushesAt
<1>4. \A k \in 1 .. Len(stack') : k \in 1 .. Len(stack) \/ (k = Len(stack') /\ stack'[k] = f)
  BY <1>3
<1>5. NoNewTest
  BY <1>1, <1>3, <1>4 DEF NoNewTest
<1>6. StackInv' /\ ProbeInv'
  BY <1>2, <1>3, <1>5, KeepsProbes DEF ProbesUnchanged
<1>7. AloneInv'
  BY <1>1, <1>3, <1>4 DEF AloneInv
<1>8. TypeInv'
  <2>1. held' \in BOOLEAN /\ (held' => Busy(Ble)')
    BY <1>1, <1>2, <1>3 DEF NetInv, TypeInv
  <2> QED BY <1>2, <1>3, <2>1 DEF NetInv, TypeInv, radioVars, lwipVars
<1> QED BY <1>6, <1>7, <1>8 DEF NetInv

\* net test makes a probe of its own, whose connection has not answered yet.
LEMMA TestKeeps ==
  ASSUME NetInv, NEW s \in Shells, NetTest(s)
  PROVE  NetInv'
<1> DEFINE i == probes + 1
<1>1. /\ i \in Probes /\ probes' = i /\ memory' = [memory EXCEPT ![i] = Fresh]
      /\ UNCHANGED <<radioVars, timer, saved, struck>>
  BY DEF NetTest
<1>2. /\ pcbs \in [Probes -> {"none", "syn", "closing", "leaked", "freed"}]
      /\ memory \in [Probes -> Memories] /\ probes \in 0 .. MaxProbes
      /\ fate \in [Probes -> {"none", "connected", "failed", "aborted"}]
      /\ said \in [Probes -> Verdicts] /\ held \in BOOLEAN /\ (held => Busy(Ble))
  BY DEF NetInv, TypeInv
<1>3. /\ pcbs[i] = "none" /\ fate[i] = "none" /\ said[i] = "none"
      /\ \A k \in 1 .. Len(stack) : stack[k].id # i /\ stack[k].id <= i
      /\ \A k \in 1 .. Len(stack) : stack[k].does = "test" =>
           stack[k].id \in Probes /\ Truthful(stack[k].id)
  <2>1. probes \in Nat /\ i > probes
    BY <1>2, NetworkAssumption
  <2>2. \A k \in 1 .. Len(stack) : stack[k].id \in Nat /\ stack[k].id <= probes
    BY Lengths, NetworkAssumption DEF NetInv, StackInv, Frames, Probes, NoProbe
  <2>3. \A k \in 1 .. Len(stack) : stack[k].does = "test" =>
           stack[k].id \in Probes /\ Truthful(stack[k].id)
    BY Lengths DEF NetInv, StackInv, ProbeInv, Frames
  <2>4. pcbs[i] = "none" /\ fate[i] = "none" /\ said[i] = "none"
    BY <1>1, <2>1 DEF NetInv, ProbeInv
  <2> QED BY <2>1, <2>2, <2>3, <2>4
<1>4. memory' \in [Probes -> Memories] /\ memory'[i] = Fresh /\ i \in Nat \ {0}
      /\ \A j \in Probes : j # i => memory'[j] = memory[j]
  BY <1>1, <1>2, NetworkAssumption DEF Fresh, Memories
<1>5. CASE /\ pcbs' = [pcbs EXCEPT ![i] = "syn"]
           /\ stack' = Append(Clobbered, Frame(s, "test", Nothing, i, TRUE)) /\ Waits(s)
           /\ UNCHANGED <<said, fate>>
  <2> DEFINE f == Frame(s, "test", Nothing, i, TRUE)
  <2>1. f \in Frames /\ f.who = s /\ f.does = "test" /\ f.id = i
    BY <1>1 DEF Frame, Frames
  <2> HIDE DEF f, i
  <2>2. /\ stack' \in Seq(Frames) /\ Len(stack') = Len(stack) + 1
        /\ stack'[Len(stack) + 1] = f /\ Len(stack) \in Nat
        /\ \A k \in 1 .. Len(stack) : Lasts(k) /\ ~stack'[k].alone
        /\ (Busy(Ble) \/ f.who = Ble => Busy(Ble)')
    BY <1>5, <2>1, PushesAt DEF f
  <2>3. \A k \in 1 .. Len(stack') : \/ k \in 1 .. Len(stack) /\ Lasts(k) /\ ~stack'[k].alone
                                    \/ k = Len(stack') /\ stack'[k] = f
    BY <2>2
  <2>4. /\ pcbs' \in [Probes -> {"none", "syn", "closing", "leaked", "freed"}]
        /\ pcbs'[i] = "syn" /\ \A j \in Probes : j # i => pcbs'[j] = pcbs[j]
        /\ said' = said /\ fate' = fate
    BY <1>1, <1>2, <1>5
  <2>5. AloneInv'
    BY <2>1, <2>3 DEF AloneInv
  <2>6. StackInv'
    <3>1. \A k \in 1 .. Len(stack') : stack'[k].does = "test" <=> stack'[k].id # NoProbe
      BY <1>4, <2>1, <2>3 DEF NetInv, StackInv, Lasts, NoProbe
    <3>2. \A k \in 1 .. Len(stack') : stack'[k].id <= probes'
      BY <1>1, <1>3, <1>4, <2>1, <2>3 DEF Lasts
    <3>3. \A k, l \in 1 .. Len(stack') :
            stack'[k].id = stack'[l].id /\ stack'[k].id # NoProbe => k = l
      BY <1>3, <2>1, <2>3 DEF NetInv, StackInv, Lasts
    <3> QED BY <3>1, <3>2, <3>3 DEF StackInv
  <2>7. ProbeInv'
    <3>1. \A j \in Probes : j = i => Truthful(j)'
      BY <1>1, <1>3, <1>4, <2>4 DEF Truthful, Fresh
    <3>2. \A j \in Probes : j # i /\ Truthful(j) => Truthful(j)'
      BY <1>1, <1>4, <2>4 DEF Truthful
    <3>3. \A k \in 1 .. Len(stack') : stack'[k].does = "test" =>
            stack'[k].id = i \/ (stack'[k].id \in Probes /\ stack'[k].id # i
                                 /\ Truthful(stack'[k].id))
      BY <1>3, <2>1, <2>3 DEF Lasts
    <3>4. (\A k \in 1 .. Len(stack) : stack[k].does = "test" => Truthful(stack[k].id))'
      BY <1>1, <3>1, <3>2, <3>3 DEF Truthful
    <3>5. \A j \in Probes : pcbs'[j] = "syn" => fate'[j] = "none"
      BY <1>3, <2>4 DEF NetInv, ProbeInv
    <3>6. \A j \in Probes : j > probes' =>
            pcbs'[j] = "none" /\ fate'[j] = "none" /\ said'[j] = "none"
      BY <1>1, <1>2, <2>4, NetworkAssumption DEF NetInv, ProbeInv, i, Probes
    <3>7. VerdictIsOwn'
      BY <1>1, <2>4 DEF NetInv, ProbeInv, VerdictIsOwn
    <3> QED BY <3>4, <3>5, <3>6, <3>7 DEF ProbeInv
  <2>8. TypeInv'
    <3>1. held' \in BOOLEAN /\ (held' => Busy(Ble)')
      BY <1>2, <1>5, <2>1, <2>2 DEF Waits
    <3>2. probes' \in 0 .. MaxProbes
      BY <1>1, NetworkAssumption DEF Probes
    <3> QED BY <1>1, <1>2, <1>4, <2>2, <2>4, <3>1, <3>2 DEF NetInv, TypeInv, radioVars
  <2> QED BY <2>5, <2>6, <2>7, <2>8 DEF NetInv
<1>6. CASE /\ pcbs' = [pcbs EXCEPT ![i] = "leaked"] /\ fate' = [fate EXCEPT ![i] = "failed"]
           /\ stack' = Clobbered /\ said' = [said EXCEPT ![i] = "failed"]
           /\ UNCHANGED held
  <2> HIDE DEF i
  <2>1. /\ stack' \in Seq(Frames) /\ AloneInv' /\ Len(stack') = Len(stack)
        /\ (Busy(Ble) => Busy(Ble)') /\ Stays
    BY <1>6, ClobbersAt
  <2>2. \A k \in 1 .. Len(stack') : k \in 1 .. Len(stack) /\ Lasts(k)
    BY <2>1, Lengths DEF Stays, NetInv
  <2>3. /\ pcbs' \in [Probes -> {"none", "syn", "closing", "leaked", "freed"}]
        /\ fate' \in [Probes -> {"none", "connected", "failed", "aborted"}]
        /\ said' \in [Probes -> Verdicts]
        /\ pcbs'[i] = "leaked" /\ fate'[i] = "failed" /\ said'[i] = "failed"
        /\ \A j \in Probes : j # i => /\ pcbs'[j] = pcbs[j] /\ fate'[j] = fate[j]
                                      /\ said'[j] = said[j]
    BY <1>1, <1>2, <1>6 DEF Verdicts
  <2>4. StackInv'
    <3>1. \A k \in 1 .. Len(stack') : stack'[k].does = "test" <=> stack'[k].id # NoProbe
      BY <2>2 DEF NetInv, StackInv, Lasts
    <3>2. \A k \in 1 .. Len(stack') : stack'[k].id <= probes'
      BY <1>1, <1>3, <2>2 DEF Lasts
    <3>3. \A k, l \in 1 .. Len(stack') :
            stack'[k].id = stack'[l].id /\ stack'[k].id # NoProbe => k = l
      BY <2>2 DEF NetInv, StackInv, Lasts
    <3> QED BY <3>1, <3>2, <3>3 DEF StackInv
  <2>5. ProbeInv'
    <3>1. \A j \in Probes : j # i /\ Truthful(j) => Truthful(j)'
      BY <1>1, <1>4, <2>3 DEF Truthful
    <3>2. \A k \in 1 .. Len(stack') : stack'[k].does = "test" =>
            stack'[k].id \in Probes /\ stack'[k].id # i /\ Truthful(stack'[k].id)
      BY <1>3, <2>2 DEF Lasts
    <3>3. (\A k \in 1 .. Len(stack) : stack[k].does = "test" => Truthful(stack[k].id))'
      BY <3>1, <3>2 DEF Truthful
    <3>4. \A j \in Probes : pcbs'[j] = "syn" => fate'[j] = "none"
      BY <2>3 DEF NetInv, ProbeInv
    <3>5. \A j \in Probes : j > probes' =>
            pcbs'[j] = "none" /\ fate'[j] = "none" /\ said'[j] = "none"
      BY <1>1, <1>2, <2>3, NetworkAssumption DEF NetInv, ProbeInv, i, Probes
    <3>6. VerdictIsOwn'
      BY <1>1, <2>3 DEF NetInv, ProbeInv, VerdictIsOwn
    <3> QED BY <3>3, <3>4, <3>5, <3>6 DEF ProbeInv
  <2>6. TypeInv'
    <3>1. held' \in BOOLEAN /\ (held' => Busy(Ble)')
      BY <1>2, <1>6, <2>1
    <3>2. probes' \in 0 .. MaxProbes
      BY <1>1, NetworkAssumption DEF Probes
    <3> QED BY <1>1, <1>4, <2>1, <2>3, <3>1, <3>2 DEF NetInv, TypeInv, radioVars
  <2> QED BY <2>1, <2>4, <2>5, <2>6 DEF NetInv
<1> QED BY <1>5, <1>6 DEF NetTest

LEMMA LinesKeep ==
  ASSUME NetInv, Lines
  PROVE  NetInv'
<1>0. held \in BOOLEAN /\ timer \in BOOLEAN
  BY DEF NetInv, TypeInv
<1>1. ASSUME NEW s \in Shells, NEW c \in Creds, WifiConnect(s, c) PROVE NetInv'
  <2>1. /\ Join(s, c, Clobbered) /\ held' = (held \/ s = Ble) /\ c \in Words
        /\ timer' \in BOOLEAN /\ UNCHANGED <<saved, lwipVars, probes, said>>
    BY <1>0, <1>1 DEF WifiConnect, Waits, Words
  <2>2. s # Timer /\ s \in Shells \cup {Timer}
    BY NetworkAssumption
  <2> QED BY <2>1, <2>2, JoinKeeps
<1>2. ASSUME NEW s \in Shells, WifiForget(s) \/ OtherLine(s) PROVE NetInv'
  <2>1. /\ stack' = Clobbered /\ held' = held /\ saved' \in {saved, Nothing}
        /\ UNCHANGED <<radioVars, timer, lwipVars, probes, said>>
    BY <1>2 DEF WifiForget, OtherLine
  <2> QED BY <1>0, <2>1, LineKeeps
<1>3. CASE GarbledLine
  <2>1. /\ stack' = Clobbered /\ held' = FALSE /\ saved' \in {saved, Nothing}
        /\ UNCHANGED <<radioVars, timer, lwipVars, probes, said>>
    BY <1>3 DEF GarbledLine
  <2> QED BY <2>1, LineKeeps
<1>4. CASE BleReset
  <2>1. held' = FALSE /\ UNCHANGED <<stack, radioVars, timer, saved, lwipVars, probes, said>>
    BY <1>4 DEF BleReset
  <2>2. Stays /\ NoNewTest /\ ProbesUnchanged
    BY <2>1, Lengths DEF NetInv, Stays, NoNewTest, Lasts, ProbesUnchanged
  <2>3. StackInv' /\ ProbeInv'
    BY <2>2, KeepsProbes
  <2>4. TypeInv' /\ AloneInv'
    BY <2>1 DEF NetInv, TypeInv, AloneInv, radioVars, lwipVars
  <2> QED BY <2>3, <2>4 DEF NetInv
<1> QED BY <1>1, <1>2, <1>3, <1>4, TestKeeps, ArpKeeps DEF Lines, Wifi, Net

LEMMA RestartKeeps ==
  ASSUME NetInv, Restart
  PROVE  NetInv'
<1>1. /\ stack' = <<>> /\ held' = FALSE /\ radio' = Nothing /\ link' = Nothing /\ timer' = TRUE
      /\ pcbs' = [i \in Probes |-> IF pcbs[i] = "none" THEN "none" ELSE "freed"]
      /\ memory' = [i \in Probes |-> Fresh]
      /\ UNCHANGED <<saved, fate, struck, probes, said>>
  BY DEF Restart
<1>2. stack' \in Seq(Frames) /\ Len(stack') = 0
  BY <1>1
<1>3. 1 .. Len(stack') = {}
  BY <1>2
<1>4. TypeInv'
  BY <1>1, <1>2 DEF NetInv, TypeInv, Fresh, Memories
<1>5. StackInv' /\ AloneInv'
  BY <1>3 DEF StackInv, AloneInv
<1>6. ProbeInv'
  <2>1. \A i \in Probes : pcbs'[i] # "syn" /\ (pcbs[i] = "none" => pcbs'[i] = "none")
    BY <1>1
  <2> QED BY <1>1, <1>3, <2>1 DEF NetInv, ProbeInv, VerdictIsOwn
<1> QED BY <1>4, <1>5, <1>6 DEF NetInv

-----------------------------------------------------------------------------
(* The invariant *)

LEMMA NetInvInit == Init => NetInv
<1> SUFFICES ASSUME Init PROVE NetInv
  OBVIOUS
<1>1. stack \in Seq(Frames) /\ Len(stack) = 0
  BY DEF Init
<1>2. 1 .. Len(stack) = {}
  BY <1>1
<1>3. TypeInv
  <2>1. memory \in [Probes -> Memories] /\ said \in [Probes -> Verdicts]
    BY DEF Init, Fresh, Memories, Verdicts
  <2>2. probes \in 0 .. MaxProbes
    BY NetworkAssumption DEF Init
  <2>3. /\ held \in BOOLEAN /\ ~held /\ timer \in BOOLEAN
        /\ radio = Nothing /\ link = Nothing /\ saved = Nothing
    BY DEF Init
  <2>4. /\ pcbs \in [Probes -> {"none", "syn", "closing", "leaked", "freed"}]
        /\ fate \in [Probes -> {"none", "connected", "failed", "aborted"}]
    BY DEF Init
  <2> QED BY <1>1, <2>1, <2>2, <2>3, <2>4 DEF TypeInv
<1>4. StackInv /\ AloneInv
  BY <1>2 DEF StackInv, AloneInv
<1>5. ProbeInv
  BY <1>2 DEF Init, ProbeInv, VerdictIsOwn
<1> QED BY <1>3, <1>4, <1>5 DEF NetInv

LEMMA NetInvNext == NetInv /\ [Next]_vars => NetInv'
<1> SUFFICES ASSUME NetInv, [Next]_vars PROVE NetInv'
  OBVIOUS
<1>1. CASE UNCHANGED vars
  <2>1. /\ UNCHANGED <<stack, held, radio, link, timer, saved, pcbs, memory, fate, struck>>
        /\ UNCHANGED <<probes, said>>
    BY <1>1 DEF vars, radioVars, lwipVars
  <2>2. TypeInv' /\ StackInv' /\ AloneInv'
    BY <2>1 DEF NetInv, TypeInv, StackInv, AloneInv, Busy
  <2>3. ProbeInv'
    BY <2>1 DEF NetInv, ProbeInv, VerdictIsOwn, Truthful
  <2> QED BY <2>2, <2>3 DEF NetInv
<1>2. CASE Lwip
  BY <1>2, LwipKeeps DEF Lwip
<1>3. CASE WaitOver
  BY <1>3, JoinEndKeeps, TestEndKeeps DEF WaitOver
<1> QED BY <1>1, <1>2, <1>3, RadioKeeps, AutoConnectKeeps, LinesKeep, RestartKeeps DEF Next

\* At every step of every wait, of any number of shells, probes and lines: the BLE line
\* buffer is held only by a command that waits (cli_core.c), and tcp_abort (cmd_net.c:99)
\* is given a pcb whose connection is still being made.
THEOREM NetworkSafe == Spec => []NetworkInv
<1>1. NetInv => NetworkInv
  <2> SUFFICES ASSUME NetInv PROVE TypeOK /\ AbortsLivePcb
    BY DEF NetworkInv
  <2>1. TypeOK
    BY Lengths DEF NetInv, TypeInv, TypeOK, Words, Frames
  <2>2. AbortsLivePcb
    BY DEF NetInv, ProbeInv, Truthful, AbortsLivePcb
  <2> QED BY <2>1, <2>2
<1> QED BY <1>1, NetInvInit, NetInvNext, PTL DEF Spec

\* What net test reports (cmd_net.c:93-108) is what its own connection did, unless the
\* callback of a connection whose net test had returned has written to its probe_t.
THEOREM VerdictsAreOwn == Spec => []VerdictIsOwn
<1>1. NetInv => VerdictIsOwn
  BY DEF NetInv, ProbeInv
<1> QED BY <1>1, NetInvInit, NetInvNext, PTL DEF Spec

\* What an undisturbed wifi connect, begun with no link up, saves (cmd_wifi.c, do_connect)
\* is what was typed and what the link came up with.
THEOREM UndisturbedSaves == Spec => SavedWasJoined
<1> DEFINE Saves == \A c \in Creds \cup {Stray} :
                      (saved' = c /\ saved # c /\ Top.alone) => Top.creds = c /\ link = c
<1>1. NetInv /\ [Next]_vars => [Saves]_vars
  <2> SUFFICES ASSUME NetInv, Next, NEW c \in Creds \cup {Stray},
                      saved' = c, saved # c, Top.alone
               PROVE  Top.creds = c /\ link = c
    BY DEF Saves
  <2>1. c # Nothing
    BY NetworkAssumption
  <2>2. CASE JoinSucceeds
    <3>1. Waiting /\ Top.does = "join" /\ link # Nothing
          /\ saved' \in {Spelled(Top), saved, Nothing}
      BY <2>2 DEF JoinSucceeds
    <3>2. Len(stack) \in 1 .. Len(stack)
      BY <3>1, Lengths, EmptySeq DEF NetInv, TypeInv, Waiting
    <3>3. Top.intact /\ link \in {Top.creds, Nothing}
      BY <3>1, <3>2 DEF NetInv, AloneInv, Top
    <3> QED BY <2>1, <3>1, <3>3 DEF Spelled
  <2>3. CASE \E s \in Shells : WifiForget(s)
    BY <2>1, <2>3 DEF WifiForget
  <2>4. CASE ~JoinSucceeds /\ ~(\E s \in Shells : WifiForget(s))
    <3>1. saved' = saved
      BY <2>4 DEF Next, Radio, RadioJoins, RadioFails, NoNetwork, LinkLost, Lwip, LwipConnects,
           LwipGivesUp, LwipCloses, WaitOver, JoinFails, TestComplete, TestTimesOut, Reports,
           ArpEnds, AutoConnect, Lines, Wifi, Net, WifiConnect, NetTest, NetArp, OtherLine,
           GarbledLine, BleReset, Restart
    <3> QED BY <3>1
  <2> QED BY <2>2, <2>3, <2>4
<1>2. Spec => [][Saves]_vars
  BY <1>1, NetInvInit, NetInvNext, PTL DEF Spec
<1> QED BY <1>2 DEF SavedWasJoined
=============================================================================

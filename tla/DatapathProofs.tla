---------------------------- MODULE DatapathProofs ----------------------------
(***************************************************************************)
(* No packet is reordered, repeated or lost without trace, for any number  *)
(* of devices, any queue depth and batch size, and any number of packets.  *)
(*                                                                         *)
(* The argument counts.  hostPackets is the number of the packet hostLoop  *)
(* took last, so what is left of the batch continues it, and a packet that *)
(* is given to a device has a number that no device has yet, larger than   *)
(* all that are given.  A read by an engine moves a packet from the end of *)
(* what is queued to the end of what is read, and so does not change what  *)
(* the device was given; neither does a write change what an engine has    *)
(* begun to send.                                                          *)
(***************************************************************************)
EXTENDS Datapath, FiniteSetTheorems, SequenceTheorems, TLAPS

-----------------------------------------------------------------------------
\* Queues.

\* Moving the head of t to the end of s leaves what they hold together.
LEMMA HandedOver ==
  ASSUME NEW S, NEW s \in Seq(S), NEW t \in Seq(S), t # <<>>
  PROVE  /\ Append(s, Head(t)) \in Seq(S) /\ Tail(t) \in Seq(S) /\ Head(t) \in S
         /\ Append(s, Head(t)) \o Tail(t) = s \o t
<1> DEFINE x == Head(t)
           one == <<x>>
           rest == Tail(t)
<1>1. x \in S /\ rest \in Seq(S) /\ one \in Seq(S) /\ x = t[1]
  BY HeadTailProperties
<1>2. t = one \o rest
  <2>1. Len(t) \in Nat \ {0}
    BY EmptySeq
  <2>2. SubSeq(t, 1, Len(t)) = t /\ rest = SubSeq(t, 2, Len(t))
    BY SubSeqFull, TailIsSubSeq
  <2>3. 1 \in 1 .. Len(t) /\ Len(t) \in 1 .. Len(t) /\ 1 + 1 = 2
    BY <2>1
  <2>4. SubSeq(t, 1, Len(t)) = <<t[1]>> \o SubSeq(t, 1 + 1, Len(t))
    BY <2>3, SubSeqRecursiveFirst
  <2> QED BY <1>1, <2>2, <2>3, <2>4
<1>3. Append(s, x) = s \o one /\ Append(s, x) \in Seq(S)
  BY <1>1, AppendIsConcat, AppendProperties
<1> HIDE DEF x, one, rest
<1>4. (s \o one) \o rest = s \o (one \o rest)
  BY <1>1, ConcatAssociative
<1> QED BY <1>1, <1>2, <1>3, <1>4 DEF x, rest

\* What is appended to the second of two queues comes last.
LEMMA AppendedLast ==
  ASSUME NEW S, NEW s \in Seq(S), NEW t \in Seq(S), NEW x \in S
  PROVE  Append(t, x) \in Seq(S) /\ s \o Append(t, x) = Append(s \o t, x)
<1> DEFINE one == <<x>>
<1>1. one \in Seq(S)
  OBVIOUS
<1>2. Append(t, x) = t \o one /\ Append(t, x) \in Seq(S)
  BY AppendIsConcat, AppendProperties
<1>3. s \o t \in Seq(S)
  BY ConcatProperties
<1>4. Append(s \o t, x) = (s \o t) \o one
  BY <1>3, AppendIsConcat
<1> HIDE DEF one
<1>5. (s \o t) \o one = s \o (t \o one)
  BY <1>1, ConcatAssociative
<1> QED BY <1>2, <1>4, <1>5

\* Taking the first of a run of consecutive numbers leaves a shorter run.
LEMMA ConsecutiveTail ==
  ASSUME NEW s \in Seq(Nat), NEW t \in Seq(Nat), s # <<>>, NEW m \in Nat, NEW n \in Nat,
         Consecutive(s \o t, m, n)
  PROVE  Head(s) = m + 1 /\ m + 1 <= n /\ Consecutive(Tail(s) \o t, m + 1, n)
<1> DEFINE rest == Tail(s)
<1>1. /\ rest \in Seq(Nat) /\ Len(rest) = Len(s) - 1 /\ Head(s) = s[1]
      /\ \A i \in 1 .. Len(rest) : rest[i] = s[i + 1]
  BY HeadTailProperties
<1>2. Len(s) \in Nat \ {0} /\ Len(t) \in Nat
  BY LenProperties, EmptySeq
<1> HIDE DEF rest
<1> DEFINE a == rest \o t
           b == s \o t
<1>3. /\ a \in Seq(Nat) /\ Len(a) = Len(rest) + Len(t)
      /\ \A i \in 1 .. Len(rest) + Len(t) :
           a[i] = IF i <= Len(rest) THEN rest[i] ELSE t[i - Len(rest)]
  BY <1>1, ConcatProperties
<1>4. /\ Len(b) = Len(s) + Len(t)
      /\ \A i \in 1 .. Len(s) + Len(t) :
           b[i] = IF i <= Len(s) THEN s[i] ELSE t[i - Len(s)]
  BY ConcatProperties
<1>5. Len(s) + Len(t) = n - m /\ \A i \in 1 .. Len(s) + Len(t) : b[i] = m + i
  BY <1>4 DEF Consecutive
<1> HIDE DEF a, b
<1>6. Head(s) = m + 1
  <2>1. 1 \in 1 .. Len(s) + Len(t) /\ 1 <= Len(s)
    BY <1>2
  <2>2. b[1] = s[1] /\ b[1] = m + 1
    BY <1>4, <1>5, <2>1
  <2> QED BY <1>1, <2>2
<1>7. ASSUME NEW i \in 1 .. Len(rest) + Len(t) PROVE a[i] = (m + 1) + i
  <2>1. i + 1 \in 1 .. Len(s) + Len(t) /\ b[i + 1] = (m + 1) + i
    BY <1>1, <1>2, <1>5
  <2>2. CASE i <= Len(rest)
    <3>1. i \in 1 .. Len(rest) /\ i + 1 <= Len(s)
      BY <1>1, <1>2, <2>2
    <3>2. a[i] = rest[i]
      BY <1>3, <3>1
    <3>3. rest[i] = s[i + 1]
      BY <1>1, <3>1
    <3>4. b[i + 1] = s[i + 1]
      BY <1>4, <2>1, <3>1
    <3> QED BY <2>1, <3>2, <3>3, <3>4
  <2>3. CASE i > Len(rest)
    <3>1. i - Len(rest) = (i + 1) - Len(s) /\ ~(i + 1 <= Len(s)) /\ ~(i <= Len(rest))
      BY <1>1, <1>2, <2>3
    <3>2. a[i] = t[i - Len(rest)]
      BY <1>3, <3>1
    <3>3. b[i + 1] = t[(i + 1) - Len(s)]
      BY <1>4, <2>1, <3>1
    <3> QED BY <2>1, <3>1, <3>2, <3>3
  <2> QED BY <1>1, <1>2, <2>2, <2>3
<1>8. Len(a) = n - (m + 1) /\ m + 1 <= n
  BY <1>1, <1>2, <1>3, <1>5
<1>9. Consecutive(a, m + 1, n)
  BY <1>3, <1>7, <1>8 DEF Consecutive
<1> QED BY <1>6, <1>8, <1>9 DEF rest, a

-----------------------------------------------------------------------------
\* What the devices were given.

\* g gives every device its packets: all but `dropped` of those up to `fin`.
GivenOk(g, fin, dropped) ==
  /\ \A d \in Devices :
       /\ g[d] \in Seq(Nat) /\ Increasing(g[d]) /\ ToSet(g[d]) \subseteq 1 .. fin
       /\ \A e \in Devices \ {d} : ToSet(g[d]) \cap ToSet(g[e]) = {}
  /\ fin = dropped + Cardinality(UNION {ToSet(g[d]) : d \in Devices})

\* A packet that is dropped.
LEMMA GivenDropped ==
  ASSUME NEW g, NEW fin \in Nat, NEW dropped \in Nat, GivenOk(g, fin, dropped)
  PROVE  GivenOk(g, fin + 1, dropped + 1)
<1> DEFINE All == UNION {ToSet(g[d]) : d \in Devices}
<1>1. All \subseteq 1 .. fin
  BY DEF GivenOk
<1>2. Cardinality(All) \in Nat
  <2>1. IsFiniteSet(1 .. fin)
    BY FS_Interval
  <2> HIDE DEF All
  <2> QED BY <1>1, <2>1, FS_Subset, FS_CardinalityType
<1>3. fin = dropped + Cardinality(All)
  BY DEF GivenOk
<1> HIDE DEF All
<1>4. fin + 1 = dropped + 1 + Cardinality(All)
  BY <1>2, <1>3
<1>5. 1 .. fin \subseteq 1 .. fin + 1
  OBVIOUS
<1> QED BY <1>4, <1>5 DEF GivenOk, All

\* A sequence of numbers up to n, and its extension by n + 1.
LEMMA IncreasingAppend ==
  ASSUME NEW n \in Nat, NEW s \in Seq(Nat), Increasing(s), ToSet(s) \subseteq 1 .. n
  PROVE  /\ Append(s, n + 1) \in Seq(Nat) /\ Increasing(Append(s, n + 1))
         /\ ToSet(Append(s, n + 1)) = ToSet(s) \cup {n + 1}
<1> DEFINE t == Append(s, n + 1)
<1>1. /\ t \in Seq(Nat) /\ Len(t) = Len(s) + 1
      /\ \A i \in 1 .. Len(s) : t[i] = s[i]
      /\ t[Len(s) + 1] = n + 1
  BY AppendProperties
<1>2. Len(s) \in Nat /\ DOMAIN s = 1 .. Len(s) /\ DOMAIN t = 1 .. Len(t)
  BY <1>1, LenProperties
<1> HIDE DEF t
<1>3. DOMAIN t = DOMAIN s \cup {Len(s) + 1}
  BY <1>1, <1>2
<1>4. ToSet(t) = ToSet(s) \cup {n + 1}
  BY <1>1, <1>2, <1>3 DEF ToSet
<1>5. \A i \in 1 .. Len(s) : s[i] \in 1 .. n
  BY <1>2 DEF ToSet
<1>6. ASSUME NEW i \in 1 .. Len(t), NEW j \in 1 .. Len(t), i < j PROVE t[i] < t[j]
  <2>1. CASE j <= Len(s)
    <3>1. i \in 1 .. Len(s) /\ j \in 1 .. Len(s)
      BY <1>1, <1>2, <1>6, <2>1
    <3>2. s[i] < s[j] /\ t[i] = s[i] /\ t[j] = s[j]
      BY <1>1, <1>6, <3>1 DEF Increasing
    <3> QED BY <3>2
  <2>2. CASE j = Len(s) + 1
    <3>1. i \in 1 .. Len(s)
      BY <1>1, <1>2, <1>6, <2>2
    <3>2. t[i] \in 1 .. n /\ t[j] = n + 1
      BY <1>1, <1>5, <2>2, <3>1
    <3> QED BY <3>2
  <2> QED BY <1>1, <1>2, <1>6, <2>1, <2>2
<1>7. Increasing(t)
  BY <1>6 DEF Increasing
<1> QED BY <1>1, <1>4, <1>7 DEF t

\* The next packet goes to device d.
LEMMA GivenNext ==
  ASSUME NEW g, NEW g2, NEW fin \in Nat, NEW dropped \in Nat, GivenOk(g, fin, dropped),
         NEW d \in Devices, g2[d] = Append(g[d], fin + 1),
         \A e \in Devices \ {d} : g2[e] = g[e]
  PROVE  GivenOk(g2, fin + 1, dropped)
<1> DEFINE S(e) == ToSet(g[e])
           All == UNION {ToSet(g[e]) : e \in Devices}
           All2 == UNION {ToSet(g2[e]) : e \in Devices}
<1>1. /\ g2[d] \in Seq(Nat) /\ Increasing(g2[d]) /\ ToSet(g2[d]) = ToSet(g[d]) \cup {fin + 1}
  <2>1. g[d] \in Seq(Nat) /\ Increasing(g[d]) /\ ToSet(g[d]) \subseteq 1 .. fin
    BY DEF GivenOk
  <2> QED BY <2>1, IncreasingAppend
<1>2. \A e \in Devices : ToSet(g[e]) \subseteq 1 .. fin
  BY DEF GivenOk
<1>3. fin + 1 \notin 1 .. fin /\ fin + 1 \in 1 .. fin + 1 /\ 1 .. fin \subseteq 1 .. fin + 1
  OBVIOUS
<1>4. \A e \in Devices : ToSet(g2[e]) \subseteq 1 .. fin + 1
  BY <1>1, <1>2, <1>3
<1>5. \A e \in Devices : g2[e] \in Seq(Nat) /\ Increasing(g2[e])
  BY <1>1 DEF GivenOk
<1>6. \A e \in Devices, f \in Devices : e # f => ToSet(g2[e]) \cap ToSet(g2[f]) = {}
  <2>1. \A e \in Devices, f \in Devices : e # f => ToSet(g[e]) \cap ToSet(g[f]) = {}
    BY DEF GivenOk
  <2>2. \A e \in Devices : fin + 1 \notin ToSet(g[e])
    BY <1>2, <1>3
  <2>3. \A e \in Devices : e = d \/ ToSet(g2[e]) = ToSet(g[e])
    OBVIOUS
  <2>4. \A f \in Devices : f # d => ToSet(g2[d]) \cap ToSet(g2[f]) = {}
    BY <1>1, <2>1, <2>2, <2>3
  <2> QED BY <2>1, <2>3, <2>4
<1>7. All2 = All \cup {fin + 1}
  <2>1. \A e \in Devices : e = d \/ ToSet(g2[e]) = ToSet(g[e])
    OBVIOUS
  <2> QED BY <1>1, <2>1
<1>8. All \subseteq 1 .. fin
  BY <1>2
<1>9. fin = dropped + Cardinality(All)
  BY DEF GivenOk
<1>10. fin + 1 = dropped + Cardinality(All2)
  <2> HIDE DEF All, All2
  <2>1. IsFiniteSet(1 .. fin)
    BY FS_Interval
  <2>2. IsFiniteSet(All) /\ Cardinality(All) \in Nat
    BY <1>8, <2>1, FS_Subset, FS_CardinalityType
  <2>3. Cardinality(All2) = Cardinality(All) + 1
    BY <1>3, <1>7, <1>8, <2>2, FS_AddElement
  <2> QED BY <1>9, <2>2, <2>3
<1> QED BY <1>4, <1>5, <1>6, <1>10 DEF GivenOk

-----------------------------------------------------------------------------
\* The inductive invariant.

Packet == [n : Nat, to : Devices]

Typed ==
  /\ got \in [Devices -> Seq(Nat)] /\ toEngine \in [Devices -> Seq(Nat)]
  /\ fromEngine \in [Devices -> Seq(Nat)] /\ writing \in [Devices -> Seq(Nat)]
  /\ out \in [Devices -> Nat] /\ sent \in [Devices -> Nat]
  /\ done \in [Devices -> BOOLEAN]
  /\ arrived \in Nat /\ hostPackets \in Nat /\ drops \in Nat
  /\ pending \in Seq(Packet)
  /\ host \in [pc : {"read", "ended"}] \cup [pc : {"inject"}, packet : Packet]

\* hostPackets counts up to the packet that hostLoop took last.
HostInv ==
  /\ hostPackets + Len(pending) = arrived
  /\ \A i \in 1 .. Len(pending) : pending[i].n = hostPackets + i
  /\ host.pc = "inject" => host.packet.n = hostPackets /\ hostPackets >= 1

Finished == hostPackets - Len(Held)

Gave == [d \in Devices |-> got[d] \o toEngine[d]]

GivenInv == GivenOk(Gave, Finished, drops)

OutInv ==
  \A d \in Devices : ~done[d] => Consecutive(fromEngine[d] \o writing[d], out[d], sent[d])

AccountInv == Typed /\ HostInv /\ GivenInv /\ OutInv

\* The invariant says what PacketsAccounted says.
LEMMA AccountImplies ==
  ASSUME AccountInv
  PROVE  PacketsAccounted
<1>0. /\ arrived \in Nat /\ hostPackets \in Nat /\ pending \in Seq(Packet)
      /\ host.pc = "inject" => host.packet \in Packet
  BY DEF AccountInv, Typed
<1>1. /\ Held \in Seq(Packet) /\ Len(Held) \in {0, 1}
      /\ \A i \in 1 .. Len(Held) : Held[i].n = (hostPackets - Len(Held)) + i
  <2>1. CASE host.pc = "inject"
    <3>1. Held = <<host.packet>> /\ Len(Held) = 1 /\ Held[1] = host.packet
      BY <2>1 DEF Held
    <3>2. Held \in Seq(Packet)
      BY <1>0, <2>1, <3>1
    <3>3. host.packet.n = hostPackets
      BY <2>1 DEF AccountInv, HostInv
    <3>4. \A i \in 1 .. 1 : i = 1
      OBVIOUS
    <3> QED BY <1>0, <3>1, <3>2, <3>3, <3>4
  <2>2. CASE host.pc # "inject"
    BY <2>2 DEF Held
  <2> QED BY <2>1, <2>2
<1>2. /\ Waiting \in Seq(Packet) /\ Len(Waiting) = Len(Held) + Len(pending)
      /\ \A i \in 1 .. Len(Held) + Len(pending) :
           Waiting[i] = IF i <= Len(Held) THEN Held[i] ELSE pending[i - Len(Held)]
  BY <1>0, <1>1, ConcatProperties DEF Waiting
<1>3. Len(pending) \in Nat
  BY <1>0, LenProperties
<1>4. /\ hostPackets + Len(pending) = arrived
      /\ \A i \in 1 .. Len(pending) : pending[i].n = hostPackets + i
  BY DEF AccountInv, HostInv
<1>5. ASSUME NEW i \in 1 .. Len(Waiting) PROVE Waiting[i].n = Finished + i
  <2>1. CASE i <= Len(Held)
    <3>1. i \in 1 .. Len(Held) /\ Waiting[i] = Held[i]
      BY <1>1, <1>2, <1>3, <2>1
    <3> QED BY <1>1, <3>1 DEF Finished
  <2>2. CASE i > Len(Held)
    <3>1. /\ i - Len(Held) \in 1 .. Len(pending) /\ Waiting[i] = pending[i - Len(Held)]
          /\ hostPackets + (i - Len(Held)) = (hostPackets - Len(Held)) + i
      BY <1>0, <1>1, <1>2, <1>3, <2>2
    <3> QED BY <1>4, <3>1 DEF Finished
  <2> QED BY <1>1, <1>2, <1>3, <2>1, <2>2
<1>6. Consecutive([i \in 1 .. Len(Waiting) |-> Waiting[i].n], Finished, arrived)
  <2> DEFINE w == [i \in 1 .. Len(Waiting) |-> Waiting[i].n]
  <2>1. Len(w) = Len(Waiting)
    BY <1>1, <1>2, <1>3
  <2>2. Len(Waiting) = arrived - Finished
    <3>1. Len(Held) \in Int /\ Len(Waiting) = Len(Held) + Len(pending)
      BY <1>1, <1>2
    <3>2. hostPackets + Len(pending) = arrived
      BY <1>4
    <3>3. Finished = hostPackets - Len(Held)
      BY DEF Finished
    <3> QED BY <1>0, <1>3, <3>1, <3>2, <3>3
  <2>3. \A i \in 1 .. Len(w) : w[i] = Finished + i
    BY <1>5, <2>1
  <2> HIDE DEF w
  <2>4. Consecutive(w, Finished, arrived)
    BY <2>1, <2>2, <2>3 DEF Consecutive
  <2> QED BY <2>4 DEF w
<1>7. \A d \in Devices : Gave[d] = Given(d)
  BY DEF Gave, Given
<1>8. /\ \A d \in Devices :
           /\ Increasing(Given(d)) /\ ToSet(Given(d)) \subseteq 1 .. Finished
           /\ \A e \in Devices \ {d} : ToSet(Given(d)) \cap ToSet(Given(e)) = {}
      /\ Finished = drops + Cardinality(UNION {ToSet(Given(d)) : d \in Devices})
  <2>1. GivenOk(Gave, Finished, drops)
    BY DEF AccountInv, GivenInv
  <2>2. {ToSet(Gave[d]) : d \in Devices} = {ToSet(Given(d)) : d \in Devices}
    BY <1>7
  <2> QED BY <1>7, <2>1, <2>2 DEF GivenOk
<1>9. \A d \in Devices :
        ~done[d] => Consecutive(fromEngine[d] \o writing[d], out[d], sent[d])
  BY DEF AccountInv, OutInv
<1> QED BY <1>6, <1>8, <1>9 DEF PacketsAccounted, Finished

\* GivenInv after a step.
LEMMA GivenAfter ==
  ASSUME NEW g, NEW fin, NEW dropped, Gave' = g, Finished' = fin, drops' = dropped,
         GivenOk(g, fin, dropped)
  PROVE  GivenInv'
<1>1. \A d \in Devices : ToSet(Gave[d])' = ToSet(g[d])
  BY DEF ToSet
<1>2. \A d \in Devices : /\ (Gave[d] \in Seq(Nat))' /\ Increasing(Gave[d])'
                         /\ (ToSet(Gave[d]) \subseteq 1 .. Finished)'
  <2>1. \A d \in Devices : Increasing(Gave[d])' <=> Increasing(g[d])
    BY DEF Increasing
  <2> QED BY <1>1, <2>1 DEF GivenOk
<1>3. \A d \in Devices : \A e \in Devices \ {d} : (ToSet(Gave[d]) \cap ToSet(Gave[e]) = {})'
  BY <1>1 DEF GivenOk
<1>4. (UNION {ToSet(Gave[d]) : d \in Devices})' = UNION {ToSet(g[d]) : d \in Devices}
  BY <1>1
<1>5. (Finished = drops + Cardinality(UNION {ToSet(Gave[d]) : d \in Devices}))'
  BY <1>4 DEF GivenOk
<1> QED BY <1>2, <1>3, <1>5 DEF GivenInv, GivenOk

\* What the devices were given depends on the queues and the counters alone.
LEMMA GivenKept ==
  ASSUME GivenInv, \A d \in Devices : got'[d] \o toEngine'[d] = got[d] \o toEngine[d],
         UNCHANGED <<host, hostPackets, drops>>
  PROVE  GivenInv'
<1>1. Gave' = Gave
  BY DEF Gave
<1>2. Finished' = Finished
  BY DEF Finished, Held
<1> QED BY <1>1, <1>2, GivenAfter DEF GivenInv

\* hostLoop takes the first packet of a batch.
LEMMA TakeStep ==
  ASSUME Typed, GivenInv, host.pc = "read", NEW batch \in Seq(Packet), batch # <<>>,
         \A i \in 1 .. Len(batch) : batch[i].n = hostPackets + i,
         arrived' = hostPackets + Len(batch), Take(batch), UNCHANGED <<got, toEngine>>
  PROVE  /\ HostInv' /\ GivenInv'
         /\ arrived' \in Nat /\ hostPackets' \in Nat /\ drops' \in Nat
         /\ pending' \in Seq(Packet)
         /\ host' \in [pc : {"read", "ended"}] \cup [pc : {"inject"}, packet : Packet]
<1>0. /\ hostPackets \in Nat /\ drops \in Nat
  BY DEF Typed
<1> DEFINE x == Head(batch)
           rest == Tail(batch)
<1>1. /\ x \in Packet /\ x = batch[1] /\ rest \in Seq(Packet) /\ Len(rest) = Len(batch) - 1
      /\ \A i \in 1 .. Len(rest) : rest[i] = batch[i + 1]
  BY HeadTailProperties
<1>2. Len(batch) \in Nat \ {0}
  BY EmptySeq
<1>3. /\ pending' = rest /\ hostPackets' = hostPackets + 1
      /\ \/ host' = [pc |-> "inject", packet |-> x] /\ drops' = drops
         \/ host' = Reading /\ drops' = drops + 1
  BY DEF Take
<1> HIDE DEF x, rest
<1>4. x.n = hostPackets + 1
  BY <1>1, <1>2
<1>5. \A i \in 1 .. Len(rest) : rest[i].n = (hostPackets + 1) + i
  <2> SUFFICES ASSUME NEW i \in 1 .. Len(rest) PROVE rest[i].n = (hostPackets + 1) + i
    OBVIOUS
  <2>1. i + 1 \in 1 .. Len(batch) /\ hostPackets + (i + 1) = (hostPackets + 1) + i
    BY <1>0, <1>1, <1>2
  <2> QED BY <1>1, <2>1
<1>6. HostInv'
  <2>1. hostPackets' + Len(pending') = arrived'
    BY <1>0, <1>1, <1>2, <1>3
  <2>2. \A i \in 1 .. Len(pending') : pending'[i].n = hostPackets' + i
    BY <1>3, <1>5
  <2>3. host'.pc = "inject" => host'.packet.n = hostPackets' /\ hostPackets' >= 1
    BY <1>0, <1>3, <1>4 DEF Reading
  <2> QED BY <2>1, <2>2, <2>3 DEF HostInv
<1>7. Gave' = Gave /\ Finished = hostPackets
  BY <1>0 DEF Gave, Finished, Held
<1>8. GivenInv'
  <2>1. GivenOk(Gave, hostPackets, drops)
    BY <1>7 DEF GivenInv
  <2>2. CASE host' = [pc |-> "inject", packet |-> x] /\ drops' = drops
    <3>1. Finished' = hostPackets
      BY <1>0, <1>3, <2>2 DEF Finished, Held
    <3> QED BY <1>7, <2>1, <2>2, <3>1, GivenAfter
  <2>3. CASE host' = Reading /\ drops' = drops + 1
    <3>1. Finished' = hostPackets + 1
      BY <1>0, <1>3, <2>3 DEF Finished, Held, Reading
    <3>2. GivenOk(Gave, hostPackets + 1, drops + 1)
      BY <1>0, <2>1, GivenDropped
    <3> QED BY <1>7, <2>3, <3>1, <3>2, GivenAfter
  <2> QED BY <1>3, <2>2, <2>3
<1>9. host' \in [pc : {"read", "ended"}] \cup [pc : {"inject"}, packet : Packet]
  BY <1>1, <1>3 DEF Reading
<1> QED BY <1>0, <1>1, <1>2, <1>3, <1>6, <1>8, <1>9

\* hostLoop's steps.
LEMMA HostLoopStep ==
  ASSUME AccountInv, hostLoop
  PROVE  AccountInv'
<1>0. Typed /\ HostInv /\ GivenInv /\ OutInv
  BY DEF AccountInv
<1> DEFINE HostTypes == /\ arrived' \in Nat /\ hostPackets' \in Nat /\ drops' \in Nat
                        /\ pending' \in Seq(Packet)
                        /\ host' \in [pc : {"read", "ended"}]
                                     \cup [pc : {"inject"}, packet : Packet]
<1>1. ASSUME UNCHANGED <<got, toEngine, fromEngine, done, writing, out, sent>>,
             HostInv', GivenInv', HostTypes
      PROVE  AccountInv'
  <2>1. Typed'
    BY <1>0, <1>1 DEF Typed
  <2>2. OutInv'
    BY <1>0, <1>1 DEF OutInv, Consecutive
  <2> QED BY <1>1, <2>1, <2>2 DEF AccountInv
<1>2. CASE TakePending
  <2>1. /\ host.pc = "read" /\ pending # <<>> /\ Take(pending)
        /\ UNCHANGED <<got, toEngine, fromEngine, done, writing, out, sent, arrived>>
    BY <1>2 DEF TakePending, tunVars, muxSide, engineSide
  <2>2. /\ pending \in Seq(Packet) /\ arrived' = hostPackets + Len(pending)
        /\ \A i \in 1 .. Len(pending) : pending[i].n = hostPackets + i
    BY <1>0, <2>1 DEF Typed, HostInv
  <2>3. HostInv' /\ GivenInv' /\ HostTypes
    BY <1>0, <2>1, <2>2, TakeStep
  <2> QED BY <1>1, <2>1, <2>3
<1>3. CASE ReadBatch
  <2>1. /\ host.pc = "read" /\ pending = <<>>
        /\ UNCHANGED <<got, toEngine, fromEngine, done, writing, out, sent>>
    BY <1>3 DEF ReadBatch, tunVars, muxSide, engineSide
  <2>2. PICK dests \in Batches : arrived' = arrived + Len(dests) /\ Take(Numbered(dests))
    BY <1>3 DEF ReadBatch
  <2>3. PICK k \in 1 .. Batch : dests \in [1 .. k -> Devices]
    BY <2>2 DEF Batches
  <2> DEFINE batch == Numbered(dests)
  <2>4. arrived \in Nat /\ hostPackets = arrived
    BY <1>0, <2>1 DEF Typed, HostInv
  <2>5. k \in Nat \ {0} /\ Len(dests) = k
    BY <2>3, DatapathAssumption
  <2>6. batch = [i \in 1 .. k |-> [n |-> arrived + i, to |-> dests[i]]]
    BY <2>5 DEF Numbered
  <2>7. \A i \in 1 .. k : [n |-> arrived + i, to |-> dests[i]] \in Packet
    BY <2>3, <2>4, <2>5 DEF Packet
  <2> HIDE DEF batch
  <2>8. batch \in [1 .. k -> Packet] /\ \A i \in 1 .. k : batch[i].n = hostPackets + i
    BY <2>4, <2>6, <2>7
  <2>9. batch \in Seq(Packet) /\ Len(batch) = k /\ batch # <<>>
    BY <2>5, <2>8
  <2>10. arrived' = hostPackets + Len(batch) /\ Take(batch)
    BY <2>2, <2>4, <2>5, <2>9 DEF batch
  <2>11. HostInv' /\ GivenInv' /\ HostTypes
    BY <1>0, <2>1, <2>8, <2>9, <2>10, TakeStep
  <2> QED BY <1>1, <2>1, <2>11
<1>4. CASE ReadFails
  <2>1. /\ host.pc = "read" /\ host' = [pc |-> "ended"]
        /\ UNCHANGED <<got, toEngine, fromEngine, done, writing, out, sent, arrived, pending,
                       hostPackets, drops>>
    BY <1>4 DEF ReadFails, tunVars, muxSide, engineSide
  <2>2. HostInv'
    BY <1>0, <2>1 DEF HostInv
  <2>3. Finished' = Finished /\ Gave' = Gave
    BY <2>1 DEF Finished, Held, Gave
  <2>4. GivenInv'
    BY <1>0, <2>1, <2>3, GivenAfter DEF GivenInv
  <2>5. HostTypes
    BY <1>0, <2>1 DEF Typed
  <2> QED BY <1>1, <2>1, <2>2, <2>4, <2>5
<1>5. CASE Inject
  <2> DEFINE d == host.packet.to
             n == host.packet.n
  <2>1. /\ host.pc = "inject" /\ host' = Reading
        /\ UNCHANGED <<got, writing, out, sent, arrived, pending, hostPackets>>
    BY <1>5 DEF Inject, muxSide, engineSide
  <2>2. /\ d \in Devices /\ hostPackets \in Nat /\ hostPackets >= 1 /\ n = hostPackets
        /\ drops \in Nat
    BY <1>0, <2>1 DEF Typed, HostInv, Packet
  <2>3. Finished = hostPackets - 1 /\ Finished' = hostPackets
    BY <2>1, <2>2 DEF Finished, Held, Reading
  <2>4. HostInv'
    BY <1>0, <2>1 DEF HostInv, Reading
  <2>5. GivenOk(Gave, hostPackets - 1, drops) /\ hostPackets - 1 \in Nat
    BY <1>0, <2>2, <2>3 DEF GivenInv
  <2>6. host' \in [pc : {"read", "ended"}]
    BY <2>1 DEF Reading
  <2>7. CASE Refused(d) /\ drops' = drops + 1
    <3>1. UNCHANGED <<toEngine, fromEngine, done>>
      BY <2>7 DEF Refused, tunVars
    <3>2. GivenOk(Gave, (hostPackets - 1) + 1, drops + 1)
      BY <2>2, <2>5, GivenDropped
    <3>3. Gave' = Gave /\ (hostPackets - 1) + 1 = hostPackets
      BY <2>1, <2>2, <3>1 DEF Gave
    <3>4. GivenInv'
      BY <2>3, <2>7, <3>2, <3>3, GivenAfter
    <3>5. HostTypes
      BY <1>0, <2>1, <2>2, <2>6, <2>7 DEF Typed
    <3> QED BY <1>1, <2>1, <2>4, <3>1, <3>4, <3>5
  <2>8. CASE Injected(d, n) /\ UNCHANGED drops
    <3>1. /\ toEngine' = [toEngine EXCEPT ![d] = Append(toEngine[d], n)]
          /\ UNCHANGED <<fromEngine, done, drops>>
      BY <2>8 DEF Injected
    <3>2. got \in [Devices -> Seq(Nat)] /\ toEngine \in [Devices -> Seq(Nat)] /\ n \in Nat
      BY <1>0, <2>2 DEF Typed
    <3>3. /\ Append(toEngine[d], n) \in Seq(Nat)
          /\ got[d] \o Append(toEngine[d], n) = Append(got[d] \o toEngine[d], n)
      <4> DEFINE s == got[d]
                 t == toEngine[d]
      <4>1. s \in Seq(Nat) /\ t \in Seq(Nat)
        BY <2>2, <3>2
      <4> HIDE DEF s, t, n
      <4>2. Append(t, n) \in Seq(Nat) /\ s \o Append(t, n) = Append(s \o t, n)
        BY <3>2, <4>1, AppendedLast
      <4> QED BY <4>2 DEF s, t
    <3>4. (hostPackets - 1) + 1 = n
      BY <2>2
    <3> DEFINE more == Append(toEngine[d], n)
    <3> HIDE DEF d, n, more
    <3>5. /\ Gave'[d] = got[d] \o more
          /\ \A e \in Devices \ {d} : Gave'[e] = Gave[e]
          /\ Gave[d] = got[d] \o toEngine[d]
      BY <2>1, <2>2, <3>1, <3>2 DEF Gave, more
    <3>6. Gave'[d] = Append(Gave[d], (hostPackets - 1) + 1)
      BY <3>3, <3>4, <3>5 DEF more
    <3> DEFINE after == Gave'
    <3>7. GivenOk(after, (hostPackets - 1) + 1, drops)
      <4>1. after[d] = Append(Gave[d], (hostPackets - 1) + 1)
            /\ \A e \in Devices \ {d} : after[e] = Gave[e]
        BY <3>5, <3>6
      <4> HIDE DEF after
      <4> QED BY <2>2, <2>5, <4>1, GivenNext
    <3>8. GivenInv'
      <4>1. (hostPackets - 1) + 1 = hostPackets
        BY <2>2
      <4> QED BY <2>3, <3>1, <3>7, <4>1, GivenAfter
    <3>9. Typed'
      <4>1. toEngine' \in [Devices -> Seq(Nat)]
        BY <2>2, <3>1, <3>2, <3>3
      <4>2. host' \in [pc : {"read", "ended"}] \cup [pc : {"inject"}, packet : Packet]
        BY <2>6
      <4> QED BY <1>0, <2>1, <3>1, <4>1, <4>2 DEF Typed
    <3>10. OutInv'
      BY <1>0, <2>1, <3>1 DEF OutInv, Consecutive
    <3> QED BY <2>4, <3>8, <3>9, <3>10 DEF AccountInv
  <2> QED BY <1>5, <2>7, <2>8 DEF Inject
<1> QED BY <1>2, <1>3, <1>4, <1>5 DEF hostLoop

-----------------------------------------------------------------------------
\* The steps of profileLoop and of the engines.

\* A step that leaves hostLoop and its counters alone.
LEMMA EngineSideStep ==
  ASSUME AccountInv, UNCHANGED hostSide,
         \A d \in Devices : got'[d] \o toEngine'[d] = got[d] \o toEngine[d],
         got' \in [Devices -> Seq(Nat)], toEngine' \in [Devices -> Seq(Nat)],
         fromEngine' \in [Devices -> Seq(Nat)], writing' \in [Devices -> Seq(Nat)],
         out' \in [Devices -> Nat], sent' \in [Devices -> Nat], done' \in [Devices -> BOOLEAN],
         OutInv'
  PROVE  AccountInv'
<1>1. UNCHANGED <<pending, host, arrived, hostPackets, drops>>
  BY DEF hostSide
<1>2. HostInv'
  BY <1>1 DEF AccountInv, HostInv
<1>3. GivenInv'
  BY <1>1, GivenKept DEF AccountInv
<1>4. Typed'
  BY <1>1 DEF AccountInv, Typed
<1> QED BY <1>2, <1>3, <1>4 DEF AccountInv

\* OutInv after a step of one device's loop or engine.
LEMMA OutStep ==
  ASSUME AccountInv, NEW d \in Devices,
         \A e \in Devices \ {d} :
           /\ fromEngine'[e] = fromEngine[e] /\ writing'[e] = writing[e]
           /\ out'[e] = out[e] /\ sent'[e] = sent[e] /\ done'[e] = done[e],
         ~done'[d] => Consecutive(fromEngine'[d] \o writing'[d], out'[d], sent'[d])
  PROVE  OutInv'
<1>1. ASSUME NEW e \in Devices, ~done'[e]
      PROVE  Consecutive(fromEngine'[e] \o writing'[e], out'[e], sent'[e])
  <2>1. CASE e = d
    BY <1>1, <2>1
  <2>2. CASE e # d
    <3>1. /\ fromEngine'[e] = fromEngine[e] /\ writing'[e] = writing[e]
          /\ out'[e] = out[e] /\ sent'[e] = sent[e] /\ ~done[e]
      BY <1>1, <2>2
    <3>2. Consecutive(fromEngine[e] \o writing[e], out[e], sent[e])
      BY <3>1 DEF AccountInv, OutInv
    <3> QED BY <3>1, <3>2
  <2> QED BY <2>1, <2>2
<1> QED BY <1>1 DEF OutInv, Consecutive

\* A device that stays open or is closed.
LEMMA DoneTyped ==
  ASSUME done \in [Devices -> BOOLEAN], NEW d \in Devices,
         done' = [done EXCEPT ![d] = TRUE]
  PROVE  /\ done' \in [Devices -> BOOLEAN] /\ done'[d]
         /\ \A e \in Devices \ {d} : done'[e] = done[e]
<1>1. done' \in [Devices -> BOOLEAN]
  BY Zenon
<1>2. done'[d] /\ \A e \in Devices \ {d} : done'[e] = done[e]
  BY Zenon
<1> QED BY <1>1, <1>2

\* A batch of consecutive numbers follows those sent before.
LEMMA ConsecutiveMore ==
  ASSUME NEW s \in Seq(Nat), NEW m \in Nat, NEW n \in Nat, NEW k \in Nat,
         Consecutive(s, m, n)
  PROVE  /\ [i \in 1 .. k |-> n + i] \in Seq(Nat)
         /\ Consecutive(s \o [i \in 1 .. k |-> n + i], m, n + k)
<1> DEFINE t == [i \in 1 .. k |-> n + i]
<1>1. t \in [1 .. k -> Nat]
  OBVIOUS
<1>2. t \in Seq(Nat) /\ Len(t) = k /\ \A i \in 1 .. k : t[i] = n + i
  BY <1>1
<1>3. Len(s) \in Nat /\ Len(s) = n - m /\ \A i \in 1 .. Len(s) : s[i] = m + i
  BY LenProperties DEF Consecutive
<1> HIDE DEF t
<1> DEFINE b == s \o t
           l == Len(s)
<1>4. /\ b \in Seq(Nat) /\ Len(b) = l + k
      /\ \A i \in 1 .. l + k : b[i] = IF i <= l THEN s[i] ELSE t[i - l]
  BY <1>2, ConcatProperties
<1> HIDE DEF b, l
<1>5. l \in Nat /\ l = n - m /\ \A i \in 1 .. l : s[i] = m + i
  BY <1>3 DEF l
<1>6. ASSUME NEW i \in 1 .. l + k PROVE b[i] = m + i
  <2>1. CASE i <= l
    <3>1. i \in 1 .. l
      BY <1>5, <2>1
    <3> QED BY <1>4, <1>5, <2>1, <3>1
  <2>2. CASE ~(i <= l)
    <3>1. i - l \in 1 .. k /\ n + (i - l) = m + i
      BY <1>5, <2>2
    <3>2. b[i] = t[i - l]
      BY <1>4, <2>2
    <3> QED BY <1>2, <3>1, <3>2
  <2> QED BY <2>1, <2>2
<1>7. l + k = (n + k) - m
  BY <1>5
<1>8. Consecutive(b, m, n + k)
  BY <1>4, <1>6, <1>7 DEF Consecutive
<1> QED BY <1>2, <1>8 DEF t, b

\* A profileLoop, an engine, a start or a close.
LEMMA DeviceStep ==
  ASSUME AccountInv, NEW d \in Devices,
         \/ profileLoop(d)
         \/ EngineReads(d) \/ EngineReadEnds(d)
         \/ EngineWrites(d) \/ Writer(d)
         \/ StartProfile(d) \/ CloseEngine(d)
  PROVE  AccountInv'
<1>0. /\ got \in [Devices -> Seq(Nat)] /\ toEngine \in [Devices -> Seq(Nat)]
      /\ fromEngine \in [Devices -> Seq(Nat)] /\ writing \in [Devices -> Seq(Nat)]
      /\ out \in [Devices -> Nat] /\ sent \in [Devices -> Nat]
      /\ done \in [Devices -> BOOLEAN]
  BY DEF AccountInv, Typed
<1> DEFINE from == fromEngine[d]
           left == writing[d]
<1>1. from \in Seq(Nat) /\ left \in Seq(Nat) /\ out[d] \in Nat /\ sent[d] \in Nat
  BY <1>0
<1>2. ~done[d] => Consecutive(from \o left, out[d], sent[d])
  BY DEF AccountInv, OutInv
<1>3. CASE Receive(d)
  <2>1. PICK n \in 1 .. MaxSent[d] : Received(d, n) /\ out' = [out EXCEPT ![d] = n]
    BY <1>3 DEF Receive
  <2>2. /\ UNCHANGED hostSide /\ UNCHANGED <<got, toEngine, writing, sent, done>>
        /\ from # <<>> /\ n = Head(from)
        /\ fromEngine' = [fromEngine EXCEPT ![d] = Tail(from)]
    BY <1>3, <2>1 DEF Receive, engineSide, Received
  <2> HIDE DEF from, left
  <2>3. Tail(from) \in Seq(Nat) /\ n \in Nat
    BY <1>1, <2>2, HeadTailProperties
  <2>4. fromEngine' \in [Devices -> Seq(Nat)] /\ out' \in [Devices -> Nat]
    BY <1>0, <2>1, <2>2, <2>3
  <2>5. ~done'[d] => Consecutive(fromEngine'[d] \o writing'[d], out'[d], sent'[d])
    <3> SUFFICES ASSUME ~done'[d]
                 PROVE  Consecutive(fromEngine'[d] \o writing'[d], out'[d], sent'[d])
      OBVIOUS
    <3>1. Consecutive(from \o left, out[d], sent[d])
      BY <1>2, <2>2
    <3>2. n = out[d] + 1 /\ Consecutive(Tail(from) \o left, out[d] + 1, sent[d])
      BY <1>1, <2>2, <3>1, ConsecutiveTail
    <3>3. fromEngine'[d] = Tail(from) /\ writing'[d] = left /\ out'[d] = n /\ sent'[d] = sent[d]
      BY <1>0, <2>1, <2>2 DEF left
    <3> QED BY <3>2, <3>3
  <2>6. OutInv'
    <3>1. \A e \in Devices \ {d} :
            /\ fromEngine'[e] = fromEngine[e] /\ writing'[e] = writing[e]
            /\ out'[e] = out[e] /\ sent'[e] = sent[e] /\ done'[e] = done[e]
      BY <1>0, <2>1, <2>2
    <3> QED BY <2>5, <3>1, OutStep
  <2> QED BY <1>0, <2>2, <2>4, <2>6, EngineSideStep
<1>4. CASE LoopEnds(d) \/ EngineReadEnds(d)
  <2>1. UNCHANGED hostSide /\ UNCHANGED <<got, toEngine, fromEngine, writing, out, sent, done>>
    BY <1>4 DEF LoopEnds, EngineReadEnds, muxSide, engineSide, EOF, tunVars
  <2>2. OutInv'
    BY <2>1 DEF AccountInv, OutInv, Consecutive
  <2> QED BY <1>0, <2>1, <2>2, EngineSideStep
<1>5. CASE EngineReads(d)
  <2> DEFINE queue == toEngine[d]
             read == got[d]
  <2>1. PICK n \in 1 .. MaxArrived : Read(d, n) /\ got' = [got EXCEPT ![d] = Append(read, n)]
    BY <1>5 DEF EngineReads
  <2>2. /\ UNCHANGED hostSide /\ UNCHANGED <<fromEngine, writing, out, sent, done>>
        /\ queue # <<>> /\ n = Head(queue)
        /\ toEngine' = [toEngine EXCEPT ![d] = Tail(queue)]
    BY <1>5, <2>1 DEF EngineReads, muxSide, Read
  <2>3. queue \in Seq(Nat) /\ read \in Seq(Nat)
    BY <1>0
  <2> HIDE DEF queue, read
  <2>4. /\ Append(read, Head(queue)) \in Seq(Nat) /\ Tail(queue) \in Seq(Nat)
        /\ Append(read, Head(queue)) \o Tail(queue) = read \o queue
    BY <2>2, <2>3, HandedOver
  <2>5. got' \in [Devices -> Seq(Nat)] /\ toEngine' \in [Devices -> Seq(Nat)]
    BY <1>0, <2>1, <2>2, <2>4
  <2>6. ASSUME NEW e \in Devices PROVE got'[e] \o toEngine'[e] = got[e] \o toEngine[e]
    <3>1. CASE e = d
      <4>1. got'[e] = Append(read, Head(queue)) /\ toEngine'[e] = Tail(queue)
        BY <1>0, <2>1, <2>2, <3>1
      <4> QED BY <2>4, <3>1, <4>1 DEF queue, read
    <3>2. CASE e # d
      BY <1>0, <2>1, <2>2, <3>2
    <3> QED BY <3>1, <3>2
  <2>7. OutInv'
    BY <2>2 DEF AccountInv, OutInv, Consecutive
  <2> QED BY <1>0, <2>2, <2>5, <2>6, <2>7, EngineSideStep
<1>6. CASE EngineWrites(d)
  <2>1. /\ UNCHANGED hostSide /\ UNCHANGED <<got, toEngine, fromEngine, out, done>>
        /\ left = <<>> /\ ~done[d]
    BY <1>6 DEF EngineWrites, muxSide, tunVars
  <2>2. PICK k \in 1 .. Batch :
          /\ sent' = [sent EXCEPT ![d] = sent[d] + k]
          /\ writing' = [writing EXCEPT ![d] = [i \in 1 .. k |-> sent[d] + i]]
    BY <1>6 DEF EngineWrites
  <2> DEFINE new == [i \in 1 .. k |-> sent[d] + i]
             n == sent[d]
  <2>3. k \in Nat
    BY DatapathAssumption
  <2>4. Consecutive(from, out[d], n)
    <3>1. from \o <<>> = from
      BY <1>1, ConcatEmptySeq
    <3> QED BY <1>2, <2>1, <3>1
  <2>5. new \in Seq(Nat) /\ Consecutive(from \o new, out[d], n + k)
    <3> DEFINE m == out[d]
    <3>1. m \in Nat /\ n \in Nat /\ Consecutive(from, m, n)
      BY <1>1, <2>4
    <3> HIDE DEF from, m, n
    <3>2. /\ [i \in 1 .. k |-> n + i] \in Seq(Nat)
          /\ Consecutive(from \o [i \in 1 .. k |-> n + i], m, n + k)
      BY <1>1, <2>3, <3>1, ConsecutiveMore
    <3> QED BY <3>2 DEF m, n
  <2> HIDE DEF new, from, left
  <2>6. writing' = [writing EXCEPT ![d] = new]
    BY <2>2 DEF new
  <2>7. writing' \in [Devices -> Seq(Nat)] /\ sent' \in [Devices -> Nat]
    BY <1>0, <1>1, <2>2, <2>3, <2>5, <2>6
  <2>8. Consecutive(fromEngine'[d] \o writing'[d], out'[d], sent'[d])
    <3>1. /\ fromEngine'[d] = from /\ writing'[d] = new /\ out'[d] = out[d]
          /\ sent'[d] = n + k
      BY <1>0, <2>1, <2>2, <2>6 DEF from
    <3> QED BY <2>5, <3>1
  <2>9. OutInv'
    <3>1. \A e \in Devices \ {d} :
            /\ fromEngine'[e] = fromEngine[e] /\ writing'[e] = writing[e]
            /\ out'[e] = out[e] /\ sent'[e] = sent[e] /\ done'[e] = done[e]
      BY <1>0, <2>1, <2>2, <2>6
    <3> QED BY <2>8, <3>1, OutStep
  <2> QED BY <1>0, <2>1, <2>7, <2>9, EngineSideStep
<1>7. CASE WriteOne(d)
  <2>1. /\ UNCHANGED hostSide /\ UNCHANGED <<got, toEngine, out, sent, done>> /\ left # <<>>
        /\ fromEngine' = [fromEngine EXCEPT ![d] = Append(from, Head(left))]
        /\ writing' = [writing EXCEPT ![d] = Tail(left)]
    BY <1>7 DEF WriteOne, muxSide, send
  <2> HIDE DEF from, left
  <2>2. /\ Append(from, Head(left)) \in Seq(Nat) /\ Tail(left) \in Seq(Nat)
        /\ Append(from, Head(left)) \o Tail(left) = from \o left
    BY <1>1, <2>1, HandedOver
  <2>3. fromEngine' \in [Devices -> Seq(Nat)] /\ writing' \in [Devices -> Seq(Nat)]
    BY <1>0, <2>1, <2>2
  <2>4. /\ fromEngine'[d] = Append(from, Head(left)) /\ writing'[d] = Tail(left)
        /\ out'[d] = out[d] /\ sent'[d] = sent[d] /\ done'[d] = done[d]
    BY <1>0, <2>1
  <2>5. ~done'[d] => Consecutive(fromEngine'[d] \o writing'[d], out'[d], sent'[d])
    BY <1>2, <2>2, <2>4
  <2>6. OutInv'
    <3>1. \A e \in Devices \ {d} :
            /\ fromEngine'[e] = fromEngine[e] /\ writing'[e] = writing[e]
            /\ out'[e] = out[e] /\ sent'[e] = sent[e] /\ done'[e] = done[e]
      BY <1>0, <2>1
    <3> QED BY <2>5, <3>1, OutStep
  <2> QED BY <1>0, <2>1, <2>3, <2>6, EngineSideStep
<1>8. CASE WriteFails(d)
  <2>1. /\ UNCHANGED hostSide /\ UNCHANGED <<got, toEngine, fromEngine, out, sent, done>>
        /\ done[d] /\ writing' = [writing EXCEPT ![d] = <<>>]
    BY <1>8 DEF WriteFails, muxSide, WriteClosed, tunVars
  <2>2. writing' \in [Devices -> Seq(Nat)]
    BY <1>0, <2>1
  <2>3. OutInv'
    <3>1. \A e \in Devices \ {d} :
            /\ fromEngine'[e] = fromEngine[e] /\ writing'[e] = writing[e]
            /\ out'[e] = out[e] /\ sent'[e] = sent[e] /\ done'[e] = done[e]
      BY <1>0, <2>1
    <3> QED BY <2>1, <3>1, OutStep
  <2> QED BY <1>0, <2>1, <2>2, <2>3, EngineSideStep
<1>9. CASE StartProfile(d) \/ CloseEngine(d)
  <2>1. /\ UNCHANGED hostSide /\ UNCHANGED <<got, writing, out, sent>>
        /\ \/ UNCHANGED <<toEngine, fromEngine, done>>
           \/ Close(d)
    BY <1>9 DEF StartProfile, CloseEngine, engineSide, muxSide, tunVars
  <2>2. CASE UNCHANGED <<toEngine, fromEngine, done>>
    <3>1. OutInv'
      BY <2>1, <2>2 DEF AccountInv, OutInv, Consecutive
    <3> QED BY <1>0, <2>1, <2>2, <3>1, EngineSideStep
  <2>3. CASE Close(d)
    <3>1. done' = [done EXCEPT ![d] = TRUE] /\ UNCHANGED <<toEngine, fromEngine>>
      BY <2>3 DEF Close
    <3>2. /\ done' \in [Devices -> BOOLEAN] /\ done'[d]
          /\ \A e \in Devices \ {d} : done'[e] = done[e]
      BY <1>0, <3>1, DoneTyped
    <3>3. OutInv'
      BY <2>1, <3>1, <3>2, OutStep
    <3> QED BY <1>0, <2>1, <3>1, <3>2, <3>3, EngineSideStep
  <2> QED BY <2>1, <2>2, <2>3
<1> QED BY <1>3, <1>4, <1>5, <1>6, <1>7, <1>8, <1>9 DEF profileLoop, Writer

-----------------------------------------------------------------------------
\* Every step of hostLoop, the profile loops and the engines keeps the account.
THEOREM AccountSafe == Spec => []AccountInv
<1>1. Init => AccountInv
  <2> SUFFICES ASSUME Init PROVE AccountInv
    OBVIOUS
  <2>1. /\ toEngine = [d \in Devices |-> <<>>] /\ fromEngine = [d \in Devices |-> <<>>]
        /\ got = [d \in Devices |-> <<>>] /\ writing = [d \in Devices |-> <<>>]
        /\ out = [d \in Devices |-> 0] /\ sent = [d \in Devices |-> 0]
        /\ pending = <<>> /\ host = [pc |-> "read"]
        /\ arrived = 0 /\ hostPackets = 0 /\ drops = 0
    BY DEF Init, TunInit, Reading
  <2>2. done \in [Devices -> BOOLEAN]
    BY Zenon DEF Init, TunInit
  <2>3. <<>> \in Seq(Nat) /\ <<>> \in Seq(Packet) /\ <<>> \o <<>> = <<>> /\ Len(<<>>) = 0
    BY ConcatEmptySeq
  <2>4. Typed
    BY <2>1, <2>2, <2>3 DEF Typed
  <2>5. HostInv
    BY <2>1, <2>3 DEF HostInv
  <2>6. OutInv
    <3>1. \A d \in Devices : fromEngine[d] \o writing[d] = <<>> /\ out[d] = 0 /\ sent[d] = 0
      BY <2>1, <2>3
    <3>2. Consecutive(<<>>, 0, 0)
      BY <2>3 DEF Consecutive
    <3> QED BY <3>1, <3>2 DEF OutInv
  <2>7. GivenInv
    <3>1. Finished = 0
      <4>1. host.pc # "inject" /\ hostPackets = 0
        BY <2>1
      <4>2. Len(Held) = 0
        BY <4>1 DEF Held
      <4> QED BY <4>1, <4>2 DEF Finished
    <3>2. \A d \in Devices : Gave[d] = <<>>
      BY <2>1, <2>3 DEF Gave
    <3>3. ToSet(<<>>) = {} /\ Increasing(<<>>)
      BY DEF ToSet, Increasing
    <3>4. UNION {ToSet(Gave[d]) : d \in Devices} = {}
      BY <3>2, <3>3
    <3>5. Finished = drops + Cardinality(UNION {ToSet(Gave[d]) : d \in Devices})
      <4>1. Cardinality(UNION {ToSet(Gave[d]) : d \in Devices}) = 0 /\ drops = 0
        BY <2>1, <3>4, FS_EmptySet, Zenon
      <4> QED BY <3>1, <4>1
    <3> QED BY <2>3, <3>2, <3>3, <3>5 DEF GivenInv, GivenOk
  <2> QED BY <2>4, <2>5, <2>6, <2>7 DEF AccountInv
<1>2. AccountInv /\ [Next]_vars => AccountInv'
  <2> SUFFICES ASSUME AccountInv, [Next]_vars PROVE AccountInv'
    OBVIOUS
  <2>1. CASE Update \/ ensureProfileLoops \/ CloseHost \/ UNCHANGED vars
    <3>1. /\ UNCHANGED <<pending, host, arrived, hostPackets, drops>>
          /\ UNCHANGED <<got, toEngine, fromEngine, writing, out, sent, done>>
      BY <2>1 DEF Update, ensureProfileLoops, CloseHost, vars, tunVars, hostSide, muxSide, engineSide
    <3>2. Typed'
      BY <3>1 DEF AccountInv, Typed
    <3>3. HostInv'
      BY <3>1 DEF AccountInv, HostInv
    <3>4. GivenInv'
      BY <3>1, GivenKept DEF AccountInv
    <3>5. OutInv'
      BY <3>1 DEF AccountInv, OutInv, Consecutive
    <3> QED BY <3>2, <3>3, <3>4, <3>5 DEF AccountInv
  <2>2. CASE hostLoop
    BY <2>2, HostLoopStep
  <2>3. ASSUME NEW d \in Devices,
               \/ profileLoop(d)
               \/ EngineReads(d) \/ EngineReadEnds(d)
               \/ EngineWrites(d) \/ Writer(d)
               \/ StartProfile(d) \/ CloseEngine(d)
        PROVE  AccountInv'
    BY <2>3, DeviceStep
  <2> QED BY <2>1, <2>2, <2>3 DEF Next
<1> QED BY <1>1, <1>2, PTL DEF Spec

\* For any devices, batches, queue depths and numbers of packets: from the host and
\* to the host, packets keep their order, none is given to two engines, and every
\* one that hostLoop took is with an engine, held or counted as dropped.
THEOREM PacketsStayAccounted == Spec => []PacketsAccounted
<1>1. AccountInv => PacketsAccounted
  BY AccountImplies
<1> QED BY <1>1, AccountSafe, PTL

-----------------------------------------------------------------------------
\* The life of the devices.

\* While the host TUN is open, the devices that bindings name are open, and their
\* profileLoops receive, except for a device that Run or an Update under way has
\* bound first and has still to start the loop of.
BoundIsReceived ==
  /\ up => \A d \in bind : ~done[d] /\ loop[d] # "ended"
  /\ up /\ ~starting => \A d \in bind : loop[d] = "receive"

\* A loop ends only with its device; Run and Update leave no binding without a loop;
\* only the deferred calls close a started profile.
LoopInv ==
  /\ bind \subseteq started /\ started \subseteq Devices
  /\ loop \in [Devices -> {"none", "receive", "ended"}]
  /\ \A d \in Devices : loop[d] = "ended" => done[d]
  /\ starting \in BOOLEAN /\ reading \subseteq Devices
  /\ ~starting => \A d \in bind : loop[d] # "none"
  /\ up => \A d \in started : ~done[d]

\* The bounds on the packets.
LimitInv ==
  /\ arrived <= MaxArrived
  /\ \A d \in Devices : out[d] <= MaxSent[d] /\ sent[d] <= MaxSent[d]

\* Every step keeps LoopInv.
LEMMA LoopStep ==
  ASSUME Typed, LoopInv, [Next]_vars
  PROVE  LoopInv'
<1>0. done \in [Devices -> BOOLEAN]
  BY DEF Typed
<1>1. ASSUME UNCHANGED <<done, bind, started, starting, loop>>, up' => up,
             reading' \subseteq Devices
      PROVE  LoopInv'
  BY <1>1 DEF LoopInv
<1>2. CASE hostLoop
  BY <1>1, <1>2 DEF hostLoop, TakePending, ReadBatch, ReadFails, Inject, Injected, Refused,
     hostSide, muxSide, engineSide, tunVars, LoopInv
<1>3. ASSUME NEW d \in Devices,
             \/ Receive(d) \/ EngineReads(d) \/ EngineReadEnds(d)
             \/ EngineWrites(d) \/ Writer(d)
      PROVE  LoopInv'
  <2>1. UNCHANGED <<done, bind, started, starting, loop, up>>
    BY <1>3 DEF Receive, Received, EngineReads, Read, EngineReadEnds, EOF, EngineWrites,
       Writer, WriteOne, send, WriteFails, WriteClosed, hostSide, muxSide, tunVars
  <2>2. reading' = reading \/ reading' = reading \ {d}
    BY <1>3 DEF Receive, EngineReads, EngineReadEnds, EngineWrites, Writer, WriteOne,
       WriteFails, engineSide
  <2> QED BY <1>1, <2>1, <2>2 DEF LoopInv
<1>4. ASSUME NEW d \in Devices, LoopEnds(d) PROVE LoopInv'
  <2>1. /\ loop[d] = "receive" /\ done[d] /\ loop' = [loop EXCEPT ![d] = "ended"]
        /\ UNCHANGED <<done, bind, started, starting, reading, up>>
    BY <1>4 DEF LoopEnds, EOF, tunVars, hostSide, engineSide
  <2> QED BY <2>1 DEF LoopInv
<1>5. ASSUME NEW d \in Devices, StartProfile(d) \/ CloseEngine(d) PROVE LoopInv'
  <2>0. UNCHANGED <<bind, starting, reading, loop, up>>
    BY <1>5 DEF StartProfile, CloseEngine, hostSide, muxSide, engineSide
  <2>1. CASE done' = done /\ started' = started \cup {d} /\ ~done[d]
    BY <2>0, <2>1 DEF LoopInv
  <2>2. CASE /\ done' = [done EXCEPT ![d] = TRUE] /\ started' = started
             /\ d \notin started \/ ~up
    <3>1. /\ done'[d] /\ \A e \in Devices \ {d} : done'[e] = done[e]
      BY <1>0, <2>2, DoneTyped
    <3> QED BY <2>0, <2>2, <3>1 DEF LoopInv
  <2> QED BY <1>5, <2>1, <2>2 DEF StartProfile, CloseEngine, Close, tunVars, muxSide
<1>6. CASE Update
  <2>1. /\ bind' \in SUBSET started /\ starting' = TRUE
        /\ UNCHANGED <<done, started, reading, loop, up>>
    BY <1>6 DEF Update, tunVars, hostSide, engineSide
  <2> QED BY <2>1 DEF LoopInv
<1>7. CASE ensureProfileLoops
  <2>1. /\ starting' = FALSE /\ UNCHANGED <<done, bind, started, reading, up>>
        /\ loop' = [d \in Devices |->
                      IF d \in bind /\ loop[d] = "none" THEN "receive" ELSE loop[d]]
    BY <1>7 DEF ensureProfileLoops, tunVars, hostSide, engineSide
  <2> QED BY <2>1 DEF LoopInv
<1>8. CASE CloseHost \/ UNCHANGED vars
  BY <1>1, <1>8 DEF CloseHost, vars, tunVars, hostSide, muxSide, engineSide, LoopInv
<1> QED BY <1>2, <1>3, <1>4, <1>5, <1>6, <1>7, <1>8 DEF Next, profileLoop

\* Every step keeps to the limits.
LEMMA LimitStep ==
  ASSUME Typed, LimitInv, [Next]_vars
  PROVE  LimitInv'
<1>0. /\ out \in [Devices -> Nat] /\ sent \in [Devices -> Nat] /\ MaxSent \in [Devices -> Nat]
      /\ arrived \in Nat /\ MaxArrived \in Nat
  BY DatapathAssumption DEF Typed
<1>1. ASSUME UNCHANGED <<out, sent>>, arrived' <= MaxArrived PROVE LimitInv'
  BY <1>1 DEF LimitInv
<1>2. CASE hostLoop
  <2>1. UNCHANGED <<out, sent>>
    BY <1>2 DEF hostLoop, TakePending, ReadBatch, ReadFails, Inject, muxSide, engineSide
  <2>2. arrived' = arrived \/ arrived' <= MaxArrived
    BY <1>2 DEF hostLoop, TakePending, ReadBatch, ReadFails, Inject
  <2> QED BY <1>1, <2>1, <2>2 DEF LimitInv
<1>3. ASSUME NEW d \in Devices, Receive(d) PROVE LimitInv'
  <2>1. PICK n \in 1 .. MaxSent[d] : out' = [out EXCEPT ![d] = n]
    BY <1>3 DEF Receive
  <2>2. UNCHANGED <<sent, arrived>> /\ n <= MaxSent[d]
    BY <1>0, <1>3, <2>1 DEF Receive, hostSide, engineSide
  <2> QED BY <1>0, <2>1, <2>2 DEF LimitInv
<1>4. ASSUME NEW d \in Devices, EngineWrites(d) PROVE LimitInv'
  <2>1. PICK k \in 1 .. Batch : sent[d] + k <= MaxSent[d] /\ sent' = [sent EXCEPT ![d] = @ + k]
    BY <1>4 DEF EngineWrites
  <2>2. UNCHANGED <<out, arrived>>
    BY <1>4 DEF EngineWrites, hostSide, muxSide
  <2> QED BY <1>0, <2>1, <2>2 DEF LimitInv
<1>5. ASSUME NEW d \in Devices,
             \/ LoopEnds(d) \/ EngineReads(d) \/ EngineReadEnds(d) \/ Writer(d)
             \/ StartProfile(d) \/ CloseEngine(d)
      PROVE  LimitInv'
  <2>1. UNCHANGED <<out, sent, arrived>>
    BY <1>5 DEF LoopEnds, EngineReads, EngineReadEnds, Writer, WriteOne, WriteFails, StartProfile, CloseEngine,
       hostSide, muxSide, engineSide
  <2> QED BY <1>1, <2>1 DEF LimitInv
<1>6. CASE Update \/ ensureProfileLoops \/ CloseHost \/ UNCHANGED vars
  <2>1. UNCHANGED <<out, sent, arrived>>
    BY <1>6 DEF Update, ensureProfileLoops, CloseHost, vars, hostSide, muxSide, engineSide
  <2> QED BY <1>1, <2>1 DEF LimitInv
<1> QED BY <1>2, <1>3, <1>4, <1>5, <1>6 DEF Next, profileLoop

\* Both hold from the start on.
LEMMA InitLife ==
  ASSUME Init
  PROVE  LoopInv /\ LimitInv
<1>1. /\ started \in SUBSET Devices /\ bind \in SUBSET started
      /\ starting = TRUE /\ loop = [d \in Devices |-> "none"] /\ reading = Devices
  BY DEF Init
<1>2. \A d \in Devices : ~done[d]
  BY Zenon DEF Init, TunInit
<1>3. LoopInv
  BY <1>1, <1>2 DEF LoopInv
<1>4. LimitInv
  BY DatapathAssumption DEF Init, LimitInv
<1> QED BY <1>3, <1>4

\* LoopInv and LimitInv, with the types they need.
THEOREM LifeSafe == Spec => [](LoopInv /\ LimitInv)
<1>1. AccountInv => Typed
  BY DEF AccountInv
<1>2. Typed /\ LoopInv /\ LimitInv /\ [Next]_vars => (LoopInv /\ LimitInv)'
  BY LoopStep, LimitStep
<1> QED BY <1>1, <1>2, InitLife, AccountSafe, PTL DEF Spec

\* As long as the host TUN is open, whatever bindings Update makes and whenever
\* profiles start, no packet is injected into a closed device, and a device has a
\* binding but no loop only between the swap of the bindings and ensureProfileLoops:
\* the safety half of LoopsEnd.
THEOREM BoundStaysReceived == Spec => []BoundIsReceived
<1>1. LoopInv => BoundIsReceived
  BY DEF LoopInv, BoundIsReceived
<1> QED BY <1>1, LifeSafe, PTL

\* The types, from all of the above: a packet is held, queued or counted, so there
\* are no more packets taken and dropped than arrived.
LEMMA TypesImplied ==
  ASSUME AccountInv, LoopInv, LimitInv, up \in BOOLEAN
  PROVE  TypeOK
<1>1. Typed /\ HostInv /\ GivenInv
  BY DEF AccountInv
<1>2. TunTypeOK /\ host.pc \in {"read", "inject", "ended"}
  BY <1>1 DEF Typed, TunTypeOK
<1>3. arrived \in Nat /\ hostPackets \in Nat /\ drops \in Nat /\ Len(pending) \in Nat
  BY <1>1, LenProperties DEF Typed
<1>4. arrived <= MaxArrived /\ hostPackets <= arrived /\ MaxArrived \in Nat
  BY <1>1, <1>3, DatapathAssumption DEF LimitInv, HostInv
<1>5. Finished \in Nat /\ Finished <= hostPackets
  <2>1. CASE host.pc = "inject"
    <3>1. Len(Held) = 1 /\ hostPackets >= 1
      BY <1>1, <2>1 DEF Held, HostInv
    <3> QED BY <1>3, <3>1 DEF Finished
  <2>2. CASE host.pc # "inject"
    <3>1. Len(Held) = 0
      BY <2>2 DEF Held
    <3> QED BY <1>3, <3>1 DEF Finished
  <2> QED BY <2>1, <2>2
<1>6. drops <= Finished
  <2> DEFINE All == UNION {ToSet(Gave[d]) : d \in Devices}
  <2>1. All \subseteq 1 .. Finished /\ Finished = drops + Cardinality(All)
    BY <1>1 DEF GivenInv, GivenOk
  <2> HIDE DEF All
  <2>2. Cardinality(All) \in Nat
    <3>1. IsFiniteSet(1 .. Finished)
      BY <1>5, FS_Interval
    <3> QED BY <2>1, <3>1, FS_Subset, FS_CardinalityType
  <2> QED BY <1>3, <1>5, <2>1, <2>2
<1>7. arrived \in 0 .. MaxArrived /\ {hostPackets, drops} \subseteq 0 .. MaxArrived
  BY <1>3, <1>4, <1>5, <1>6
<1>8. \A d \in Devices : {out[d], sent[d]} \subseteq 0 .. MaxSent[d]
  <2> SUFFICES ASSUME NEW d \in Devices PROVE {out[d], sent[d]} \subseteq 0 .. MaxSent[d]
    OBVIOUS
  <2>1. out[d] \in Nat /\ sent[d] \in Nat /\ MaxSent[d] \in Nat
    BY <1>1, DatapathAssumption DEF Typed
  <2>2. out[d] <= MaxSent[d] /\ sent[d] <= MaxSent[d]
    BY DEF LimitInv
  <2> QED BY <2>1, <2>2
<1> QED BY <1>2, <1>7, <1>8 DEF LoopInv, TypeOK

\* Every variable of the datapath keeps its type; in particular the counters of
\* packets and drops never pass the number of packets the kernel handed over.
THEOREM DatapathTypes == Spec => []TypeOK
<1> DEFINE Inv == up \in BOOLEAN
<1>1. Init => Inv
  BY Zenon DEF Init
<1>2. Inv /\ [Next]_vars => Inv'
  <2> SUFFICES ASSUME Inv, [Next]_vars PROVE Inv'
    OBVIOUS
  <2>1. up' = up \/ up' = FALSE
    BY DEF Next, hostLoop, TakePending, ReadBatch, ReadFails, Inject, profileLoop, Receive,
       LoopEnds, EngineReads, EngineReadEnds, EngineWrites, Writer, WriteOne, WriteFails,
       StartProfile, CloseEngine, Update, ensureProfileLoops, CloseHost, hostSide, vars
  <2> QED BY <2>1, Zenon
<1>3. AccountInv /\ LoopInv /\ LimitInv /\ Inv => TypeOK
  BY TypesImplied
<1> QED BY <1>1, <1>2, <1>3, AccountSafe, LifeSafe, PTL DEF Spec
===============================================================================

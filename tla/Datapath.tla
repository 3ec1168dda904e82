------------------------------- MODULE Datapath -------------------------------
(***************************************************************************)
(* How packets travel: from the host TUN in batches through hostLoop into  *)
(* the profiles' TUNs (PacketTun) and their engines, and from the engines  *)
(* through one profileLoop per TUN to the host, while the main loop        *)
(* changes the bindings and, at the end, the deferred calls close the host *)
(* TUN and then the engines under the running loops.                       *)
(*                                                                         *)
(* Module Mux says how a packet is translated; here only where it goes     *)
(* matters: a host packet is numbered and is for one device, which may     *)
(* have no binding; an engine's packets are numbered per device.           *)
(***************************************************************************)
EXTENDS PacketTun, SequencesExt

CONSTANTS
  Lively,      \* the devices whose engine keeps reading
  Batch,       \* BatchSize of the host TUN and of an engine's write, 128
  MaxArrived,  \* bound on the packets the host sends
  MaxSent      \* bounds on the packets the engines send

ASSUME DatapathAssumption ==
  /\ Lively \subseteq Devices
  /\ {Batch, MaxArrived} \subseteq Nat
  /\ MaxSent \in [Devices -> Nat]

VARIABLES
  up,           \* the host TUN is open: its deferred Close has not run
  pending,      \* hosttun.Device.pending, what is left of the last batch
  host,         \* hostLoop
  arrived,      \* packets the kernel has handed over
  hostPackets,  \* the counter of packets hostLoop has taken
  drops,        \* the counter of packets hostLoop has dropped
  started,      \* the devices of started profiles
  bind,         \* the devices the mux's bindings name
  starting,     \* Run or Update has still to call ensureProfileLoops
  loop,         \* each profileLoop: not started, receiving or ended
  out,          \* the last packet each profileLoop took
  reading,      \* the devices whose engine has not read an EOF
  got,          \* what each engine has read
  sent,         \* packets each engine has begun to write
  writing       \* what is left of the batch each engine is writing

hostSide == <<up, pending, host, arrived, hostPackets, drops>>
muxSide == <<started, bind, starting, loop, out>>
engineSide == <<reading, got, sent, writing>>
vars == <<tunVars, hostSide, muxSide, engineSide>>

Reading == [pc |-> "read"]

\* mux.New has made the bindings and Run has started hostLoop.
Init ==
  /\ TunInit
  /\ up = TRUE
  /\ pending = <<>>
  /\ host = Reading
  /\ arrived = 0 /\ hostPackets = 0 /\ drops = 0
  /\ started \in SUBSET Devices
  /\ bind \in SUBSET started
  /\ starting = TRUE
  /\ loop = [d \in Devices |-> "none"]
  /\ out = [d \in Devices |-> 0]
  /\ reading = Devices
  /\ got = [d \in Devices |-> <<>>]
  /\ sent = [d \in Devices |-> 0]
  /\ writing = [d \in Devices |-> <<>>]

-----------------------------------------------------------------------------
\* hostLoop and the batches of hosttun.Device.

Numbered(dests) == [i \in 1 .. Len(dests) |-> [n |-> arrived + i, to |-> dests[i]]]

Batches == UNION {[1 .. k -> Devices] : k \in 1 .. Batch}

\* ReadPacket returns the first of the batch.  hostLoop drops it when it is
\* invalid, has no binding, has no room in the flow table or cannot be
\* rewritten; otherwise it goes on to inject it into the binding's device.
Take(batch) ==
  /\ pending' = Tail(batch)
  /\ hostPackets' = hostPackets + 1
  /\ \/ /\ Head(batch).to \in bind
        /\ host' = [pc |-> "inject", packet |-> Head(batch)]
        /\ UNCHANGED drops
     \/ host' = Reading /\ drops' = drops + 1

\* The rest of the last batch comes before another read of the TUN.
TakePending ==
  /\ host.pc = "read"
  /\ pending # <<>>
  /\ Take(pending)
  /\ UNCHANGED <<tunVars, muxSide, engineSide, up, arrived>>

\* Tun.Read returns a batch.
ReadBatch ==
  /\ host.pc = "read"
  /\ pending = <<>>
  /\ up
  /\ \E dests \in Batches :
       /\ arrived + Len(dests) <= MaxArrived
       /\ arrived' = arrived + Len(dests)
       /\ Take(Numbered(dests))
  /\ UNCHANGED <<tunVars, muxSide, engineSide, up>>

\* Tun.Read fails, as it does once the TUN is closed, or returns a batch of an
\* invalid size: hostLoop returns, and nothing starts it again.
ReadFails ==
  /\ host.pc = "read"
  /\ pending = <<>>
  /\ host' = [pc |-> "ended"]
  /\ UNCHANGED <<tunVars, muxSide, engineSide, up, pending, arrived, hostPackets, drops>>

\* TryInject, without waiting: a refused packet is counted as dropped.
Inject ==
  /\ host.pc = "inject"
  /\ host' = Reading
  /\ \/ Injected(host.packet.to, host.packet.n) /\ UNCHANGED drops
     \/ Refused(host.packet.to) /\ drops' = drops + 1
  /\ UNCHANGED <<muxSide, engineSide, up, pending, arrived, hostPackets>>

-----------------------------------------------------------------------------
\* profileLoop.

\* A received packet is dropped, or written to the host TUN, whose errors are
\* ignored.
Receive(d) ==
  /\ loop[d] = "receive"
  /\ \E n \in 1 .. MaxSent[d] : Received(d, n) /\ out' = [out EXCEPT ![d] = n]
  /\ UNCHANGED <<hostSide, engineSide, started, bind, starting, loop>>

\* Receive fails: the loop ends.
LoopEnds(d) ==
  /\ loop[d] = "receive"
  /\ EOF(d)
  /\ loop' = [loop EXCEPT ![d] = "ended"]
  /\ UNCHANGED <<hostSide, engineSide, started, bind, starting, out>>

-----------------------------------------------------------------------------
\* The engines, two goroutines of each.

EngineReads(d) ==
  /\ d \in started \cap reading
  /\ \E n \in 1 .. MaxArrived : Read(d, n) /\ got' = [got EXCEPT ![d] = Append(@, n)]
  /\ UNCHANGED <<hostSide, muxSide, reading, sent, writing>>

\* Read fails: the engine reads no more.
EngineReadEnds(d) ==
  /\ d \in started \cap reading
  /\ EOF(d)
  /\ reading' = reading \ {d}
  /\ UNCHANGED <<hostSide, muxSide, got, sent, writing>>

\* Packets of a peer are decrypted and written as one batch, until the engine
\* closes its device.
EngineWrites(d) ==
  /\ d \in started
  /\ ~done[d]
  /\ writing[d] = <<>>
  /\ \E k \in 1 .. Batch :
       /\ sent[d] + k <= MaxSent[d]
       /\ sent' = [sent EXCEPT ![d] = @ + k]
       /\ writing' = [writing EXCEPT ![d] = [i \in 1 .. k |-> sent[d] + i]]
  /\ UNCHANGED <<tunVars, hostSide, muxSide, reading, got>>

WriteOne(d) ==
  /\ writing[d] # <<>>
  /\ send(d, Head(writing[d]))
  /\ writing' = [writing EXCEPT ![d] = Tail(@)]
  /\ UNCHANGED <<hostSide, muxSide, reading, got, sent>>

WriteFails(d) ==
  /\ writing[d] # <<>>
  /\ WriteClosed(d)
  /\ writing' = [writing EXCEPT ![d] = <<>>]
  /\ UNCHANGED <<hostSide, muxSide, reading, got, sent>>

-----------------------------------------------------------------------------
\* Profiles come, bindings change, and the deferred calls close everything.

\* A profile configured later is started, or fails to start and is closed.
StartProfile(d) ==
  /\ up
  /\ d \notin started
  /\ ~done[d]
  /\ \/ started' = started \cup {d} /\ UNCHANGED tunVars
     \/ Close(d) /\ UNCHANGED started
  /\ UNCHANGED <<hostSide, engineSide, bind, starting, loop, out>>

\* Update of the main loop swaps the bindings; the datapath profiles are any of the
\* started ones.
Update ==
  /\ up /\ ~starting
  /\ bind' \in SUBSET started
  /\ starting' = TRUE
  /\ UNCHANGED <<tunVars, hostSide, engineSide, started, loop, out>>

\* Mutant of ensureProfileLoops: only Run's call starts loops.
ensureProfileLoopsOnce ==
  /\ starting
  /\ starting' = FALSE
  /\ loop' = [d \in Devices |-> IF d \in bind /\ \A e \in Devices : loop[e] = "none"
                               THEN "receive" ELSE loop[d]]
  /\ UNCHANGED <<tunVars, hostSide, engineSide, started, bind, out>>

\* The end of Run and of Update: every device without a loop is given one.
ensureProfileLoops ==
  /\ starting
  /\ starting' = FALSE
  /\ loop' = [d \in Devices |-> IF d \in bind /\ loop[d] = "none" THEN "receive" ELSE loop[d]]
  /\ UNCHANGED <<tunVars, hostSide, engineSide, started, bind, out>>

\* The deferred h.Close, of the goroutine that calls Run and Update.
CloseHost ==
  /\ up /\ ~starting
  /\ up' = FALSE
  /\ UNCHANGED <<tunVars, muxSide, engineSide, pending, host, arrived, hostPackets, drops>>

\* The deferred s.Close, after h.Close: each engine closes its device.
CloseEngine(d) ==
  /\ ~up
  /\ d \in started
  /\ ~done[d]
  /\ Close(d)
  /\ UNCHANGED <<hostSide, muxSide, engineSide>>

hostLoop == TakePending \/ ReadBatch \/ ReadFails \/ Inject
profileLoop(d) == Receive(d) \/ LoopEnds(d)
Writer(d) == WriteOne(d) \/ WriteFails(d)

Next ==
  \/ hostLoop
  \/ \E d \in Devices : \/ profileLoop(d)
                        \/ EngineReads(d) \/ EngineReadEnds(d)
                        \/ EngineWrites(d) \/ Writer(d)
                        \/ StartProfile(d) \/ CloseEngine(d)
  \/ Update \/ ensureProfileLoops \/ CloseHost

Spec == Init /\ [][Next]_vars

\* The goroutines of the daemon run on: hostLoop goes on with what it has and
\* notices a closed TUN, but packets need not come, and an Update that is under way
\* goes on.  Only the Lively engines are obliged to read what is queued, or the EOF;
\* no engine is obliged to write, and no change and no Close to come.
FairSpec ==
  /\ Spec
  /\ WF_vars(TakePending \/ Inject \/ (~up /\ ReadFails))
  /\ WF_vars(ensureProfileLoops)
  /\ \A d \in Devices : WF_vars(profileLoop(d)) /\ WF_vars(Writer(d))
  /\ \A d \in Lively : WF_vars(EngineReads(d) \/ EngineReadEnds(d))

-----------------------------------------------------------------------------
\* Properties.

\* Every variable has its type.
TypeOK ==
  /\ TunTypeOK
  /\ up \in BOOLEAN
  /\ host.pc \in {"read", "inject", "ended"}
  /\ arrived \in 0 .. MaxArrived
  /\ {hostPackets, drops} \subseteq 0 .. MaxArrived
  /\ bind \subseteq started /\ started \subseteq Devices /\ reading \subseteq Devices
  /\ starting \in BOOLEAN
  /\ loop \in [Devices -> {"none", "receive", "ended"}]
  /\ \A d \in Devices : {out[d], sent[d]} \subseteq 0 .. MaxSent[d]

Held == IF host.pc = "inject" THEN <<host.packet>> ELSE <<>>

\* What waits for hostLoop's next step, and what d's engine has read or will read.
Waiting == Held \o pending
Given(d) == got[d] \o toEngine[d]

Increasing(s) == \A i, j \in 1 .. Len(s) : i < j => s[i] < s[j]

\* s counts from the number after `from` up to `to`.
Consecutive(s, from, to) == Len(s) = to - from /\ \A i \in 1 .. Len(s) : s[i] = from + i

\* No packet is reordered, repeated or lost without trace.  From the host, the
\* packets hostLoop has not finished with wait in the order the kernel handed them
\* over; each one before them was given to one engine, in that order across batches
\* and changed bindings, or is counted in drops.  To the host, while its device is
\* open, profileLoop receives a profile's packets in order and without a gap: a full
\* queue makes the engine wait.  (What profileLoop itself drops it does not count.)
PacketsAccounted ==
  LET finished == hostPackets - Len(Held) IN
  /\ Consecutive([i \in 1 .. Len(Waiting) |-> Waiting[i].n], finished, arrived)
  /\ \A d \in Devices :
       /\ Increasing(Given(d)) /\ ToSet(Given(d)) \subseteq 1 .. finished
       /\ \A e \in Devices \ {d} : ToSet(Given(d)) \cap ToSet(Given(e)) = {}
  /\ finished = drops + Cardinality(UNION {ToSet(Given(d)) : d \in Devices})
  /\ \A d \in Devices :
       ~done[d] => Consecutive(fromEngine[d] \o writing[d], out[d], sent[d])

\* A profile that stalls, with its queue full and an engine that does not read,
\* keeps no packet from the others: every packet of a batch is taken in its turn,
\* and one that is queued for an engine that keeps reading is read, unless its
\* device is closed and the engine gets the EOF first.
StalledDelaysNobody ==
  /\ \A n \in 1 .. MaxArrived :
       (\E i \in 1 .. Len(pending) : pending[i].n = n) ~>
         (\A i \in 1 .. Len(Waiting) : Waiting[i].n # n)
  /\ \A d \in Lively, n \in 1 .. MaxArrived :
       n \in ToSet(toEngine[d]) ~> n \in ToSet(got[d]) \/ d \notin reading

\* Nothing waits for ever on what is closed: when the deferred calls close the
\* host TUN and the devices, hostLoop, every profileLoop and an engine's blocked
\* Write end, whatever is still queued; and while nothing is closed, a Write to a
\* device that ever had a binding gets through.
LoopsEnd ==
  /\ ~up ~> host.pc = "ended"
  /\ \A d \in Devices :
       /\ done[d] ~> loop[d] \in {"none", "ended"} /\ writing[d] = <<>>
       /\ d \in bind /\ writing[d] # <<>> ~> writing[d] = <<>>
===============================================================================

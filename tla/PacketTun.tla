------------------------------- MODULE PacketTun ------------------------------
(***************************************************************************)
(* The channel-backed TUN of a profile, internal/packettun: two bounded    *)
(* queues between the mux and the profile's engine, and a done channel.    *)
(* A packet is its number.  A select with several ready cases takes any of *)
(* them, so a closed device may still hand over what is queued.            *)
(***************************************************************************)
EXTENDS Integers, Sequences

CONSTANTS
  Devices,     \* the devices the process creates
  QueueDepth   \* the depth New is called with, 256

ASSUME QueueDepthAssumption == QueueDepth \in Int

VARIABLES
  toEngine,    \* what the mux injected and the engine has not read
  fromEngine,  \* what the engine wrote and the profile loop has not received
  done         \* the done channel is closed

tunVars == <<toEngine, fromEngine, done>>

\* New: a depth below one counts as one.
Depth == IF QueueDepth < 1 THEN 1 ELSE QueueDepth

TunInit ==
  /\ toEngine = [d \in Devices |-> <<>>]
  /\ fromEngine = [d \in Devices |-> <<>>]
  /\ done = [d \in Devices |-> FALSE]

Room(queue) == Len(queue) < Depth

\* TryInject accepts the packet.
Injected(d, n) ==
  /\ Room(toEngine[d])
  /\ toEngine' = [toEngine EXCEPT ![d] = Append(@, n)]
  /\ UNCHANGED <<fromEngine, done>>

\* Mutant of Refused: without the default case, a full queue blocks the caller.
RefusedIfClosed(d) ==
  /\ done[d]
  /\ UNCHANGED tunVars

\* TryInject reports errClosed, or errQueueFull when neither case is ready.
Refused(d) ==
  /\ done[d] \/ ~Room(toEngine[d])
  /\ UNCHANGED tunVars

\* Receive returns a packet n.
Received(d, n) ==
  /\ fromEngine[d] # <<>>
  /\ n = Head(fromEngine[d])
  /\ fromEngine' = [fromEngine EXCEPT ![d] = Tail(@)]
  /\ UNCHANGED <<toEngine, done>>

\* Receive, or Read, returns io.EOF.
EOF(d) == done[d] /\ UNCHANGED tunVars

\* Read returns a packet n.
Read(d, n) ==
  /\ toEngine[d] # <<>>
  /\ n = Head(toEngine[d])
  /\ toEngine' = [toEngine EXCEPT ![d] = Tail(@)]
  /\ UNCHANGED <<fromEngine, done>>

\* Mutant of send: a full queue makes room by losing its oldest packet.
sendOverwrites(d, n) ==
  /\ fromEngine' = [fromEngine EXCEPT ![d] =
                      Append(IF Room(fromEngine[d]) THEN @ ELSE Tail(@), n)]
  /\ UNCHANGED <<toEngine, done>>

\* Write's send of one packet n of its batch: it waits for room.
send(d, n) ==
  /\ Room(fromEngine[d])
  /\ fromEngine' = [fromEngine EXCEPT ![d] = Append(@, n)]
  /\ UNCHANGED <<toEngine, done>>

\* Write reports errClosed: the rest of its batch is lost.
WriteClosed(d) == done[d] /\ UNCHANGED tunVars

\* Close; closeOnce makes a second one harmless.
Close(d) ==
  /\ done' = [done EXCEPT ![d] = TRUE]
  /\ UNCHANGED <<toEngine, fromEngine>>

TunTypeOK ==
  /\ \A d \in Devices : /\ toEngine[d] \in Seq(Nat)
                        /\ fromEngine[d] \in Seq(Nat)
  /\ done \in [Devices -> BOOLEAN]
===============================================================================

------------------------------- MODULE Control -------------------------------
(***************************************************************************)
(* internal/control: the Unix socket, its accept loop, the semaphore of    *)
(* concurrent handlers (64 slots in the code) and one goroutine per        *)
(* connection.  Reading and writing have deadlines of five seconds, an     *)
(* engine's login one of two minutes and a logout one of 30 seconds; the   *)
(* StartConfiguredProfiles of a login has none.                            *)
(***************************************************************************)
EXTENDS Naturals, FiniteSets

CONSTANTS
  Clients,  \* connections that may be open at one time
  Limit     \* the capacity of the semaphore

ASSUME LimitAssumption == Limit \in Nat \ {0}

VARIABLES
  socket,     \* the file control.sock exists
  listening,  \* the listener is open and the accept loop runs
  conn,       \* how far each client's connection is
  slots,      \* the slots of the semaphore that are taken
  shutdown    \* the shutdown channel, from open through closing to closed

controlVars == <<socket, listening, conn, slots, shutdown>>

\* Connections that have a handler goroutine.
Handled == {c \in Clients : conn[c] \in {"reading", "calling", "restarting", "writing"}}

\* Types; and a slot of the semaphore is held exactly as long as its handler runs.
ControlTypeOK ==
  /\ socket \in BOOLEAN
  /\ listening \in BOOLEAN
  /\ conn \in [Clients -> {"away", "dialed", "reading", "calling", "restarting", "writing"}]
  /\ slots = Cardinality(Handled) /\ slots <= Limit
  /\ shutdown \in {"open", "closing", "closed"}

ControlInit ==
  /\ socket = FALSE
  /\ listening = FALSE
  /\ conn = [c \in Clients |-> "away"]
  /\ slots = 0
  /\ shutdown = "open"

-----------------------------------------------------------------------------

\* Listen: remove an old socket file, bind, set its mode and owner, accept.
Listen ==
  /\ socket' = TRUE
  /\ listening' = TRUE
  /\ UNCHANGED <<conn, slots, shutdown>>

\* ClientRequest dials; the connection waits in the listener's backlog.
Dial(c) ==
  /\ listening
  /\ conn[c] = "away"
  /\ conn' = [conn EXCEPT ![c] = "dialed"]
  /\ UNCHANGED <<socket, listening, slots, shutdown>>

\* accept: a free slot starts a handler.
Accept(c) ==
  /\ listening
  /\ conn[c] = "dialed"
  /\ slots < Limit
  /\ conn' = [conn EXCEPT ![c] = "reading"]
  /\ slots' = slots + 1
  /\ UNCHANGED <<socket, listening, shutdown>>

\* accept: no slot is free, the connection is closed unread.
AcceptFull(c) ==
  /\ listening
  /\ conn[c] = "dialed"
  /\ slots >= Limit
  /\ conn' = [conn EXCEPT ![c] = "away"]
  /\ UNCHANGED <<socket, listening, slots, shutdown>>

\* The handler goroutine ends: the connection is closed and its slot returned.
HandlerEnds(c) ==
  /\ conn' = [conn EXCEPT ![c] = "away"]
  /\ slots' = slots - 1
  /\ UNCHANGED <<socket, listening, shutdown>>

\* handle: the peer is not authorized, the read deadline passes, or the request
\* is malformed or refused by validRequest.
RejectRequest(c) ==
  /\ conn[c] = "reading"
  /\ HandlerEnds(c)

\* handle: a request for any operation other than restart.
ReadRequest(c) ==
  /\ conn[c] = "reading"
  /\ conn' = [conn EXCEPT ![c] = "calling"]
  /\ UNCHANGED <<socket, listening, slots, shutdown>>

\* handle: a restart request; its handler starts a goroutine that closes the
\* shutdown channel, and returns.
ReadRestart(c) ==
  /\ conn[c] = "reading"
  /\ conn' = [conn EXCEPT ![c] = "restarting"]
  /\ UNCHANGED <<socket, listening, slots, shutdown>>

\* The daemon's handler function returns.
CallReturns(c) ==
  /\ conn[c] = "calling"
  /\ conn' = [conn EXCEPT ![c] = "writing"]
  /\ UNCHANGED <<socket, listening, slots, shutdown>>

\* Mutant of Restart: the handler itself sends to the main loop, which receives
\* only once.
RestartWaits(c) ==
  /\ conn[c] = "restarting"
  /\ shutdown = "open"
  /\ shutdown' = "closed"
  /\ conn' = [conn EXCEPT ![c] = "writing"]
  /\ UNCHANGED <<socket, listening, slots>>

\* The handler of restart returns; a goroutine of its own will close the
\* channel, unless shutdownOnce has done it.
Restart(c) ==
  /\ conn[c] = "restarting"
  /\ shutdown' = IF shutdown = "open" THEN "closing" ELSE shutdown
  /\ conn' = [conn EXCEPT ![c] = "writing"]
  /\ UNCHANGED <<socket, listening, slots>>

\* The goroutine runs.
CloseShutdown ==
  /\ shutdown = "closing"
  /\ shutdown' = "closed"
  /\ UNCHANGED <<socket, listening, conn, slots>>

\* The response is written, or the write deadline passes.
Respond(c) ==
  /\ conn[c] = "writing"
  /\ HandlerEnds(c)

AcceptLoop(c) == Accept(c) \/ AcceptFull(c)

Handler(c) ==
  \/ RejectRequest(c) \/ ReadRequest(c) \/ ReadRestart(c)
  \/ CallReturns(c) \/ Restart(c)
  \/ Respond(c)

-----------------------------------------------------------------------------

\* Close, first half: the listener, its socket file and its backlog are gone.
CloseListener ==
  /\ listening
  /\ listening' = FALSE
  /\ socket' = FALSE
  /\ conn' = [c \in Clients |-> IF conn[c] = "dialed" THEN "away" ELSE conn[c]]
  /\ UNCHANGED <<slots, shutdown>>

\* Mutant of CloseWaits: Close returns while handlers run.
CloseReturns ==
  /\ ~listening
  /\ UNCHANGED controlVars

\* Close, second half: wg.Wait for the accept loop and every handler.
CloseWaits ==
  /\ ~listening
  /\ Handled = {}
  /\ UNCHANGED controlVars

\* The process dies: its connections break, and systemd removes the socket with
\* the unit's RuntimeDirectory.
ControlDies ==
  /\ socket' = FALSE
  /\ listening' = FALSE
  /\ conn' = [c \in Clients |-> "away"]
  /\ slots' = 0
  /\ shutdown' = "open"
===============================================================================

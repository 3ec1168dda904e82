----------------------------- MODULE DaemonProofs -----------------------------
(***************************************************************************)
(* The safety of a daemon process for any plans, any number of clients and *)
(* handlers and any number of failed calls, crashes and restarts.          *)
(*                                                                         *)
(* The argument is about the stack of deferred calls: it tells, wherever   *)
(* run returns, which parts are up (the link, the DNS server, the settings *)
(* of systemd-resolved, the listener and its handlers), and between pushes *)
(* only Create, the first AddTargets and Configure hold something that is  *)
(* not deferred yet.                                                       *)
(***************************************************************************)
EXTENDS Daemon, FiniteSetTheorems, SequenceTheorems, TLAPS

\* The stacks of deferred calls that run builds.
D0 == <<>>
D1 == Append(D0, "supervisor")
D2 == Append(D1, "host")
D3 == Append(D2, "dns")
D4 == Append(D3, "resolved")
D5 == Append(D4, "stop")
D6 == Append(D5, "control")

\* The stack where run is; in the loop its last two calls are deferred together.
\* A process runs only in an active unit.
StackInv ==
  /\ pc \in {"off", "boot"} => defers = D0
  /\ pc \in {"plan", "create", "setup", "targets"} => defers = D1
  /\ pc = "dns" => defers = D2
  /\ pc = "listen" => defers = D4
  /\ pc \in {"loop", "routes", "revert"} => defers = D6
  /\ pc = "configure" => defers = IF catching THEN D6 ELSE D3
  /\ pc = "unwind" => defers \in {D0, D1, D2, D3, D4, D5, D6}
  /\ pc \in {"loop", "routes", "revert"} => catching
  /\ pc \in {"off", "boot", "plan", "create", "setup", "targets", "dns", "listen"} => ~catching
  /\ pc # "off" => unit = "active"

HostDeferred == defers \in {D2, D3, D4, D5, D6}

\* The link is there exactly while Create has it in hand or its Close is
\* deferred, the DNS server while its own is; a rule without either has leaked.
HostInv ==
  /\ kernel.link <=> HostDeferred \/ pc \in {"setup", "targets"}
  /\ dns <=> defers \in {D3, D4, D5, D6}
  /\ kernel.routes # {} \/ dev.routes # {} => HostDeferred
  /\ kernel.rule => Rule \in leaks \/ HostDeferred \/ pc = "targets"

\* Settings are made by Configure, owned by the client it returns, and gone
\* with either Revert or the link.
SettingsInv ==
  /\ settings # {} => HostDeferred
  /\ made # 0 => pc = "configure"
  /\ pc = "configure" => 1 .. made \subseteq settings
  /\ ~unsure =>
       /\ pc = "configure" => settings = 1 .. made
       /\ pc # "configure" => settings = IF client THEN Calls ELSE {}
       /\ settings # {} => pc = "configure" \/ defers \in {D4, D5, D6}

\* Connections and handlers exist only while the control server is deferred.
ServerInv ==
  /\ listening => defers = D6
  /\ socket => listening
  /\ \A c \in Clients : conn[c] = "dialed" => listening
  /\ Handled # {} => defers = D6
  /\ IsFiniteSet(Handled)

\* Where the routes of the last plan are complete, unless routeErr says otherwise.
Reconciled == {"dns", "configure", "listen", "loop", "revert"}

RoutesInv ==
  /\ kernel.routes \subseteq dev.routes \cup leaks
  /\ pc # "routes" => dev.routes \subseteq ToSet(want)
  /\ pc \in Reconciled =>
       /\ routeErr = "none" => ToSet(want) \subseteq kernel.routes
       /\ routeErr = "exists" => ToSet(want) \cap leaks # {}

DaemonInv == TypeOK /\ StackInv /\ HostInv /\ SettingsInv /\ ServerInv /\ RoutesInv

-----------------------------------------------------------------------------
Names == {"supervisor", "host", "dns", "resolved", "stop", "control"}

\* What a push leaves on top, and what a pop gives back.
LEMMA PushPop ==
  ASSUME NEW s \in Seq(Names), NEW d \in Names
  PROVE  /\ Append(s, d) \in Seq(Names)
         /\ Last(Append(s, d)) = d
         /\ Front(Append(s, d)) = s
         /\ Append(s, d) # <<>>
         /\ ToSet(Append(s, d)) = ToSet(s) \cup {d}
<1>1. /\ Append(s, d) \in Seq(Names) /\ Append(s, d) # <<>> /\ Len(Append(s, d)) = Len(s) + 1
      /\ Append(s, d)[Len(s) + 1] = d /\ \A i \in 1 .. Len(s) : Append(s, d)[i] = s[i]
  BY AppendProperties
<1>2. Front(Append(s, d)) = s
  <2>1. /\ Front(Append(s, d)) \in Seq(Names) /\ Len(Front(Append(s, d))) = Len(s)
        /\ \A i \in 1 .. Len(s) : Front(Append(s, d))[i] = Append(s, d)[i]
    BY <1>1, SubSeqProperties DEF Front
  <2> QED BY <1>1, <2>1, SeqEqual
<1>3. ToSet(Append(s, d)) = ToSet(s) \cup {d}
  <2>1. DOMAIN Append(s, d) = (1 .. Len(s)) \cup {Len(s) + 1} /\ DOMAIN s = 1 .. Len(s)
    BY <1>1
  <2> QED BY <1>1, <2>1 DEF ToSet
<1> QED BY <1>1, <1>2, <1>3 DEF Last

\* Popping a stack of run: the last call tells the whole stack.
LEMMA Pops ==
  /\ D1 # <<>> /\ Last(D1) = "supervisor" /\ Front(D1) = D0
  /\ D2 # <<>> /\ Last(D2) = "host" /\ Front(D2) = D1
  /\ D3 # <<>> /\ Last(D3) = "dns" /\ Front(D3) = D2
  /\ D4 # <<>> /\ Last(D4) = "resolved" /\ Front(D4) = D3
  /\ D5 # <<>> /\ Last(D5) = "stop" /\ Front(D5) = D4
  /\ D6 # <<>> /\ Last(D6) = "control" /\ Front(D6) = D5
  /\ \A d \in {D0, D1, D2, D3, D4, D5, D6} : d \in Seq(Names) /\ ToSet(d) \subseteq Names
  /\ {"supervisor", "host"} \subseteq ToSet(D6)
<1>0. D0 \in Seq(Names) /\ ToSet(D0) = {}
  BY DEF D0, ToSet
<1>1. D1 \in Seq(Names) /\ D1 # <<>> /\ Last(D1) = "supervisor" /\ Front(D1) = D0
      /\ ToSet(D1) = {"supervisor"}
  BY <1>0, PushPop DEF D1, Names
<1>2. D2 \in Seq(Names) /\ D2 # <<>> /\ Last(D2) = "host" /\ Front(D2) = D1
      /\ ToSet(D2) = {"supervisor", "host"}
  BY <1>1, PushPop DEF D2, Names
<1>3. D3 \in Seq(Names) /\ D3 # <<>> /\ Last(D3) = "dns" /\ Front(D3) = D2
      /\ ToSet(D3) = {"supervisor", "host", "dns"}
  BY <1>2, PushPop DEF D3, Names
<1>4. D4 \in Seq(Names) /\ D4 # <<>> /\ Last(D4) = "resolved" /\ Front(D4) = D3
      /\ ToSet(D4) = {"supervisor", "host", "dns", "resolved"}
  BY <1>3, PushPop DEF D4, Names
<1>5. D5 \in Seq(Names) /\ D5 # <<>> /\ Last(D5) = "stop" /\ Front(D5) = D4
      /\ ToSet(D5) = {"supervisor", "host", "dns", "resolved", "stop"}
  BY <1>4, PushPop DEF D5, Names
<1>6. D6 \in Seq(Names) /\ D6 # <<>> /\ Last(D6) = "control" /\ Front(D6) = D5
      /\ ToSet(D6) = Names
  BY <1>5, PushPop DEF D6, Names
<1>7. \A d \in {D0, D1, D2, D3, D4, D5, D6} : d \in Seq(Names) /\ ToSet(d) \subseteq Names
  BY <1>0, <1>1, <1>2, <1>3, <1>4, <1>5, <1>6 DEF Names
<1> QED BY <1>1, <1>2, <1>3, <1>4, <1>5, <1>6, <1>7 DEF Names

\* No two of the stacks are the same.
LEMMA StacksDiffer ==
  /\ D0 \notin {D1, D2, D3, D4, D5, D6}
  /\ D1 \notin {D2, D3, D4, D5, D6}
  /\ D2 \notin {D3, D4, D5, D6}
  /\ D3 \notin {D4, D5, D6}
  /\ D4 \notin {D5, D6}
  /\ D5 # D6
<1>1. /\ Last(D1) = "supervisor" /\ Last(D2) = "host" /\ Last(D3) = "dns"
      /\ Last(D4) = "resolved" /\ Last(D5) = "stop" /\ Last(D6) = "control"
  BY Pops
<1>2. D0 \notin {D1, D2, D3, D4, D5, D6}
  BY Pops DEF D0
<1> QED BY <1>1, <1>2

\* What AddTargets leaves when the table held `table`: the routes it added are
\* the remembered ones, addresses of the plan, all of them when it succeeded;
\* a route existed only if the table held an address of the plan.
Added(table, ips) ==
  /\ kernel'.routes = table \cup dev'.routes
  /\ dev'.routes \subseteq ToSet(ips)
  /\ routeErr' = "none" => dev'.routes = ToSet(ips)
  /\ routeErr' = "exists" => ToSet(ips) \cap table # {}

-----------------------------------------------------------------------------
\* AddTargets: what it leaves in the table and what the Device remembers.  A route
\* that exists was in the table before, since an address is added only once.
LEMMA AddTargetsDoes ==
  ASSUME HostTypeOK, NEW table \in SUBSET Dests, NEW ips \in Seq(Dests), NEW fault \in BOOLEAN,
         AddTargets(table, ips, fault)
  PROVE  /\ kernel' \in [link : BOOLEAN, rule : BOOLEAN, routes : SUBSET Dests]
         /\ dev' \in [open : BOOLEAN, routes : SUBSET Dests]
         /\ kernel'.link = kernel.link
         /\ kernel'.rule = kernel.rule
         /\ routeErr' \in {"none", "exists", "failed"}
         /\ Added(table, ips)
<1> DEFINE Exists(i) == ips[i] \in table \cup ToSet(SubSeq(ips, 1, i - 1))
<1>1. PICK n \in 0 .. Len(ips) :
        /\ \A i \in RouteAdds(ips) : i <= n => ~Exists(i)
        /\ n < Len(ips) => n + 1 \in RouteAdds(ips)
        /\ IF fault THEN n < Len(ips) /\ ~Exists(n + 1) ELSE n < Len(ips) => Exists(n + 1)
        /\ kernel' = [kernel EXCEPT !.routes = table \cup ToSet(SubSeq(ips, 1, n))]
        /\ dev' = [dev EXCEPT !.routes = ToSet(SubSeq(ips, 1, n))]
        /\ routeErr' = IF n = Len(ips) THEN "none" ELSE IF fault THEN "failed" ELSE "exists"
  BY DEF AddTargets
<1> HIDE DEF Exists
<1>2. Len(ips) \in Nat /\ DOMAIN ips = 1 .. Len(ips) /\ \A i \in 1 .. Len(ips) : ips[i] \in Dests
  BY ElementOfSeq
<1>3. ASSUME NEW m \in 0 .. Len(ips)
      PROVE  ToSet(SubSeq(ips, 1, m)) = {ips[j] : j \in 1 .. m}
  <2>1. /\ SubSeq(ips, 1, m) \in Seq(Dests) /\ Len(SubSeq(ips, 1, m)) = m
        /\ \A j \in 1 .. m : SubSeq(ips, 1, m)[j] = ips[j]
    BY <1>2, SubSeqProperties
  <2>2. DOMAIN SubSeq(ips, 1, m) = 1 .. m
    BY <2>1
  <2> QED BY <2>1, <2>2 DEF ToSet
<1>4. ToSet(ips) = {ips[j] : j \in 1 .. Len(ips)}
  BY <1>2 DEF ToSet
<1> DEFINE done == ToSet(SubSeq(ips, 1, n))
<1>5. /\ done \subseteq ToSet(ips) /\ ToSet(ips) \subseteq Dests
      /\ n = Len(ips) => done = ToSet(ips)
  <2>1. done = {ips[j] : j \in 1 .. n}
    BY <1>3
  <2>2. 1 .. n \subseteq 1 .. Len(ips)
    BY <1>2
  <2> HIDE DEF done
  <2> QED BY <1>2, <1>4, <2>1, <2>2
<1>6. ASSUME routeErr' = "exists" PROVE ToSet(ips) \cap table # {}
  <2>1. n < Len(ips) /\ n + 1 \in RouteAdds(ips) /\ Exists(n + 1)
    BY <1>1, <1>2, <1>6
  <2>2. ips[n + 1] \in table \cup {ips[j] : j \in 1 .. n}
    BY <1>2, <1>3, <2>1 DEF Exists
  <2>3. ips[n + 1] \in table
    BY <1>2, <2>1, <2>2 DEF RouteAdds
  <2> QED BY <1>2, <1>4, <2>1, <2>3
<1> HIDE DEF done
<1>7. kernel' = [kernel EXCEPT !.routes = table \cup done] /\ dev' = [dev EXCEPT !.routes = done]
  BY <1>1 DEF done
<1>8. routeErr' \in {"none", "exists", "failed"} /\ (routeErr' = "none" => n = Len(ips))
  BY <1>1
<1> QED BY <1>5, <1>6, <1>7, <1>8 DEF HostTypeOK, Added

\* The other operations on the host keep its types.
LEMMA HostOperations ==
  ASSUME HostTypeOK
  PROVE  /\ CreateTUN \/ setup \/ HostDies \/ UNCHANGED hostVars => HostTypeOK'
         /\ ConflictChanges \/ DeleteLeftRule => HostTypeOK'
         /\ \A stuck \in BOOLEAN : Close(stuck) => HostTypeOK'
<1> DEFINE Kernels == [link : BOOLEAN, rule : BOOLEAN, routes : SUBSET Dests]
<1>0. kernel \in Kernels
  BY DEF HostTypeOK
<1>1. CreateTUN \/ setup => HostTypeOK'
  <2>1. [kernel EXCEPT !.link = TRUE] \in Kernels /\ [kernel EXCEPT !.rule = TRUE] \in Kernels
    BY <1>0
  <2>2. [open |-> TRUE, routes |-> {}] \in [open : BOOLEAN, routes : SUBSET Dests]
    OBVIOUS
  <2> QED BY <2>1, <2>2, Zenon DEF CreateTUN, setup, HostTypeOK
<1>2. HostDies => HostTypeOK'
  <2>1. [kernel EXCEPT !.link = FALSE, !.routes = {}] \in Kernels
    BY <1>0
  <2>2. NoDevice \in [open : BOOLEAN, routes : SUBSET Dests]
    BY DEF NoDevice
  <2>3. (leaks \ Dests) \cup (IF kernel.rule THEN {Rule} ELSE {}) \in SUBSET (Dests \cup {Rule})
    BY DEF HostTypeOK
  <2> QED BY <2>1, <2>2, <2>3, Zenon DEF HostDies, HostTypeOK
<1>3. UNCHANGED hostVars => HostTypeOK'
  BY DEF hostVars, HostTypeOK
<1>4. ConflictChanges => HostTypeOK'
  BY DEF ConflictChanges, HostTypeOK
<1>5. DeleteLeftRule => HostTypeOK'
  BY DEF DeleteLeftRule, HostTypeOK
<1>6. ASSUME NEW stuck \in BOOLEAN, Close(stuck) PROVE HostTypeOK'
  BY <1>6 DEF Close, HostTypeOK, NoDevice
<1> QED BY <1>1, <1>2, <1>3, <1>4, <1>5, <1>6

\* Reconciling keeps the types: the routes kept are ones the Device remembered.
LEMMA ReconcileTyped ==
  ASSUME HostTypeOK, NEW ips \in Seq(Dests), NEW kept \in SUBSET Dests, NEW fault \in BOOLEAN,
         ReconcileTargets(ips, kept, fault)
  PROVE  HostTypeOK'
<1>1. (kernel.routes \ dev.routes) \cup kept \in SUBSET Dests
  BY DEF HostTypeOK
<1>2. AddTargets((kernel.routes \ dev.routes) \cup kept, ips, fault)
      /\ leaks' = leaks \cup kept /\ conflict' = conflict
  BY DEF ReconcileTargets
<1>3. /\ kernel' \in [link : BOOLEAN, rule : BOOLEAN, routes : SUBSET Dests]
      /\ dev' \in [open : BOOLEAN, routes : SUBSET Dests]
      /\ routeErr' \in {"none", "exists", "failed"}
  BY <1>1, <1>2, AddTargetsDoes
<1> QED BY <1>2, <1>3 DEF HostTypeOK

\* What a reconciliation leaves: the routes it could not delete, and what
\* AddTargets adds to them.
LEMMA ReconcileDoes ==
  ASSUME HostTypeOK, NEW ips \in Seq(Dests), NEW kept \in SUBSET Dests, NEW fault \in BOOLEAN,
         ReconcileTargets(ips, kept, fault)
  PROVE  Added((kernel.routes \ dev.routes) \cup kept, ips) /\ leaks' = leaks \cup kept
<1>1. (kernel.routes \ dev.routes) \cup kept \in SUBSET Dests
  BY DEF HostTypeOK
<1>2. AddTargets((kernel.routes \ dev.routes) \cup kept, ips, fault) /\ leaks' = leaks \cup kept
  BY DEF ReconcileTargets
<1> QED BY <1>1, <1>2, AddTargetsDoes

\* The operations on systemd-resolved keep its types.
LEMMA ResolvedOperations ==
  ASSUME ResolvedTypeOK
  PROVE  /\ ConfigureCall \/ LinkGone \/ UNCHANGED resolvedVars => ResolvedTypeOK'
         /\ \A effect, stuck \in BOOLEAN : ConfigureFails(effect, stuck) => ResolvedTypeOK'
         /\ \A stuck \in BOOLEAN : Revert(stuck) => ResolvedTypeOK'
<1>1. ConfigureCall => ResolvedTypeOK'
  <2> SUFFICES ASSUME ConfigureCall PROVE ResolvedTypeOK'
    OBVIOUS
  <2>1. settings' \in SUBSET Calls /\ made' \in 0 .. 4
    BY DEF ConfigureCall, ResolvedTypeOK, Calls
  <2>2. client' \in BOOLEAN /\ unsure' \in BOOLEAN
    BY Zenon DEF ConfigureCall
  <2> QED BY <2>1, <2>2 DEF ResolvedTypeOK
<1>2. LinkGone \/ UNCHANGED resolvedVars => ResolvedTypeOK'
  <2>1. 0 \in 0 .. 4 /\ {} \in SUBSET Calls
    OBVIOUS
  <2> QED BY <2>1, Zenon DEF LinkGone, resolvedVars, ResolvedTypeOK
<1>3. ASSUME NEW effect \in BOOLEAN, NEW stuck \in BOOLEAN, ConfigureFails(effect, stuck)
      PROVE  ResolvedTypeOK'
  <2>1. settings' \in SUBSET Calls
    <3>1. made + 1 \in Calls /\ settings \in SUBSET Calls
      BY DEF ResolvedTypeOK, Calls
    <3>2. settings' \in {settings, settings \cup {made + 1}, {}}
      BY <1>3 DEF ConfigureFails
    <3> QED BY <3>1, <3>2
  <2>2. made' \in 0 .. 4
    BY <1>3 DEF ConfigureFails
  <2>3. unsure' \in BOOLEAN /\ client' \in BOOLEAN
    BY <1>3, Zenon DEF ConfigureFails, ResolvedTypeOK
  <2> QED BY <2>1, <2>2, <2>3, Zenon DEF ResolvedTypeOK
<1>4. ASSUME NEW stuck \in BOOLEAN, Revert(stuck) PROVE ResolvedTypeOK'
  BY <1>4 DEF Revert, ResolvedTypeOK
<1> QED BY <1>1, <1>2, <1>3, <1>4

\* A connection that moves on, within its handler, gets one or loses it.
LEMMA ConnMoves ==
  ASSUME ControlTypeOK, IsFiniteSet(Handled), NEW c \in Clients,
         NEW st \in {"away", "dialed", "reading", "calling", "restarting", "writing"},
         conn' = [conn EXCEPT ![c] = st]
  PROVE  /\ st \in {"away", "dialed"} /\ c \in Handled =>
              /\ Handled' = Handled \ {c} /\ IsFiniteSet(Handled')
              /\ Cardinality(Handled') = Cardinality(Handled) - 1
         /\ st \notin {"away", "dialed"} /\ c \notin Handled =>
              /\ Handled' = Handled \cup {c} /\ IsFiniteSet(Handled')
              /\ Cardinality(Handled') = Cardinality(Handled) + 1
         /\ (st \in {"away", "dialed"} <=> c \notin Handled) => Handled' = Handled
         /\ \A d \in Clients : d # c => conn'[d] = conn[d]
         /\ conn'[c] = st
         /\ conn' \in [Clients -> {"away", "dialed", "reading", "calling", "restarting", "writing"}]
<1>1. conn \in [Clients -> {"away", "dialed", "reading", "calling", "restarting", "writing"}]
  BY DEF ControlTypeOK
<1>2. st \in {"away", "dialed"} => Handled' = Handled \ {c}
  BY <1>1 DEF Handled
<1>3. st \notin {"away", "dialed"} => Handled' = Handled \cup {c}
  BY <1>1 DEF Handled
<1>4. IsFiniteSet(Handled \ {c}) /\ IsFiniteSet(Handled \cup {c})
  BY FS_AddElement, FS_RemoveElement
<1>5. c \in Handled => Cardinality(Handled \ {c}) = Cardinality(Handled) - 1
  BY FS_RemoveElement
<1>6. c \notin Handled => Cardinality(Handled \cup {c}) = Cardinality(Handled) + 1
  BY FS_AddElement
<1>7. (st \in {"away", "dialed"} <=> c \notin Handled) => Handled' = Handled
  BY <1>2, <1>3
<1> QED BY <1>1, <1>2, <1>3, <1>4, <1>5, <1>6, <1>7

ControlOK == ControlTypeOK /\ IsFiniteSet(Handled)

\* The operations of the control server keep its types, and a slot per handler.
LEMMA ControlOperations ==
  ASSUME ControlOK
  PROVE  /\ Listen \/ CloseShutdown \/ CloseListener \/ CloseWaits \/ ControlDies => ControlOK'
         /\ UNCHANGED controlVars => ControlOK'
         /\ \A c \in Clients : Dial(c) \/ AcceptLoop(c) \/ Handler(c) => ControlOK'
<1> USE DEF ControlOK
<1>0. slots = Cardinality(Handled) /\ slots \in Nat /\ Limit \in Nat /\ slots <= Limit
  BY FS_CardinalityType, LimitAssumption DEF ControlTypeOK
<1>1. conn' = conn => Handled' = Handled
  BY DEF Handled
<1>2. Listen \/ CloseShutdown \/ CloseWaits \/ UNCHANGED controlVars => ControlOK'
  BY <1>1 DEF Listen, CloseShutdown, CloseWaits, controlVars, ControlTypeOK
<1>3. CloseListener => ControlOK'
  <2> SUFFICES ASSUME CloseListener PROVE ControlOK'
    OBVIOUS
  <2>1. /\ conn' \in [Clients -> {"away", "dialed", "reading", "calling", "restarting", "writing"}]
        /\ Handled' = Handled
    BY DEF CloseListener, ControlTypeOK, Handled
  <2> QED BY <2>1 DEF CloseListener, ControlTypeOK
<1>4. ControlDies => ControlOK'
  <2> SUFFICES ASSUME ControlDies PROVE ControlOK'
    OBVIOUS
  <2>1. /\ conn' \in [Clients -> {"away", "dialed", "reading", "calling", "restarting", "writing"}]
        /\ Handled' = {}
    BY DEF ControlDies, Handled
  <2>2. slots' = Cardinality(Handled') /\ slots' <= Limit /\ IsFiniteSet(Handled')
    BY <1>0, <2>1, FS_EmptySet DEF ControlDies
  <2> QED BY <2>1, <2>2, Zenon DEF ControlDies, ControlTypeOK
<1>5. ASSUME NEW c \in Clients, Dial(c) \/ AcceptLoop(c) \/ Handler(c) PROVE ControlOK'
  <2>1. CASE Dial(c) \/ AcceptFull(c)
    <3>1. c \notin Handled
      BY <2>1 DEF Dial, AcceptFull, Handled
    <3> QED BY <2>1, <3>1, ConnMoves DEF Dial, AcceptFull, ControlTypeOK
  <2>2. CASE Accept(c)
    <3>1. c \notin Handled
      BY <2>2 DEF Accept, Handled
    <3>2. /\ conn' \in [Clients -> {"away", "dialed", "reading", "calling", "restarting", "writing"}]
          /\ IsFiniteSet(Handled') /\ Cardinality(Handled') = Cardinality(Handled) + 1
      BY <2>2, <3>1, ConnMoves DEF Accept
    <3>3. slots' = Cardinality(Handled') /\ slots' <= Limit
      BY <1>0, <2>2, <3>2 DEF Accept
    <3> QED BY <2>2, <3>2, <3>3, Zenon DEF Accept, ControlTypeOK
  <2>3. CASE RejectRequest(c) \/ Respond(c)
    <3>1. c \in Handled
      BY <2>3 DEF RejectRequest, Respond, Handled
    <3> QED BY <1>0, <2>3, <3>1, ConnMoves DEF RejectRequest, Respond, HandlerEnds, ControlTypeOK
  <2>4. CASE ReadRequest(c) \/ ReadRestart(c) \/ CallReturns(c) \/ Restart(c)
    <3>1. c \in Handled
      BY <2>4 DEF ReadRequest, ReadRestart, CallReturns, Restart, Handled
    <3>2. Handled' = Handled
          /\ conn' \in [Clients -> {"away", "dialed", "reading", "calling", "restarting", "writing"}]
      BY <2>4, <3>1, ConnMoves DEF ReadRequest, ReadRestart, CallReturns, Restart
    <3> QED BY <2>4, <3>2 DEF ReadRequest, ReadRestart, CallReturns, Restart, ControlTypeOK
  <2> QED BY <1>5, <2>1, <2>2, <2>3, <2>4 DEF AcceptLoop, Handler
<1> QED BY <1>2, <1>3, <1>4, <1>5

-----------------------------------------------------------------------------
\* The plan is a sequence of destinations.
LEMMA WantIsPlan ==
  ASSUME TypeOK
  PROVE  want \in Seq(Dests)
<1>1. want \in Plans \cup {<<>>}
  BY DEF TypeOK
<1>2. <<>> \in Seq(Dests)
  OBVIOUS
<1> QED BY <1>1, <1>2, PlansAssumption

\* What a step of the daemon does to the host.
LEMMA HostSteps ==
  ASSUME TypeOK, [Next]_vars
  PROVE  \/ UNCHANGED hostVars
         \/ pc = "create" /\ CreateTUN
         \/ pc = "setup" /\ setup
         \/ /\ pc \in {"setup", "targets"} \/ NextDefer("host")
            /\ \E stuck \in BOOLEAN : Close(stuck)
         \/ /\ pc = "targets" /\ AddTargets(kernel.routes, want, FALSE) /\ routeErr' = "none"
            /\ leaks' = leaks /\ conflict' = conflict
         \/ /\ pc = "routes"
            /\ \E kept \in SUBSET Dests, fault \in BOOLEAN :
                 kept \subseteq dev.routes /\ ReconcileTargets(want, kept, fault)
         \/ pc # "off" /\ HostDies
         \/ pc = "off" /\ (ConflictChanges \/ DeleteLeftRule)
<1>1. CASE Boot \/ Plan \/ StartDNS \/ Configure \/ ConfigureError \/ ListenControl
           \/ LoopSignal \/ LoopShutdown \/ LoopChange \/ RoundRevert
  BY <1>1 DEF Boot, Plan, StartDNS, Configure, ConfigureError, ListenControl,
              LoopSignal, LoopShutdown, LoopChange, RoundRevert
<1>2. CASE CreateDevice
  BY <1>2 DEF CreateDevice
<1>3. CASE SetupDevice \/ TargetsFail
  BY <1>3 DEF SetupDevice, TargetsFail
<1>4. CASE Targets
  BY <1>4 DEF Targets
<1>5. CASE RoundRoutes
  <2>1. dev.routes \subseteq Dests
    BY DEF TypeOK, HostTypeOK
  <2>2. PICK kept \in SUBSET dev.routes, fault \in BOOLEAN : ReconcileTargets(want, kept, fault)
    BY <1>5 DEF RoundRoutes
  <2>3. kept \in SUBSET Dests /\ kept \subseteq dev.routes
    BY <2>1
  <2> QED BY <1>5, <2>2, <2>3 DEF RoundRoutes
<1>6. CASE UnwindHost
  BY <1>6 DEF UnwindHost
<1>7. CASE UnwindListener \/ UnwindControl \/ UnwindStop \/ UnwindResolved \/ UnwindDNS
           \/ UnwindSupervisor \/ Exit
  BY <1>7 DEF UnwindListener, UnwindControl, UnwindStop, UnwindResolved, UnwindDNS,
              UnwindSupervisor, Exit
<1>8. CASE Crash \/ StopUnit
  BY <1>8 DEF Crash, StopUnit, Dies
<1>9. CASE StartUnit \/ RestartUnit \/ Notify \/ CloseShutdownChannel \/ UNCHANGED vars
  BY <1>9 DEF StartUnit, RestartUnit, Notify, CloseShutdownChannel, ControlStep, vars
<1>10. CASE Administer
  BY <1>10 DEF Administer
<1>11. ASSUME NEW c \in Clients, DialControl(c) \/ AcceptControl(c) \/ HandleControl(c)
       PROVE  UNCHANGED hostVars
  BY <1>11 DEF DialControl, AcceptControl, HandleControl, ControlStep
<1> QED BY <1>1, <1>2, <1>3, <1>4, <1>5, <1>6, <1>7, <1>8, <1>9, <1>10, <1>11
        DEF Next, Startup, Round, Unwind

\* What a step of the daemon does to systemd-resolved.
LEMMA ResolvedSteps ==
  ASSUME [Next]_vars
  PROVE  \/ UNCHANGED resolvedVars
         \/ Configure /\ ConfigureCall
         \/ ConfigureError /\ \E effect, stuck \in BOOLEAN : ConfigureFails(effect, stuck)
         \/ RoundRevert /\ \E stuck \in BOOLEAN : Revert(stuck)
         \/ UnwindResolved /\ \E stuck \in BOOLEAN : Revert(stuck)
         \/ (UnwindHost \/ Crash \/ (StopUnit /\ pc' = "off")) /\ LinkGone
<1>1. CASE Startup
  BY <1>1 DEF Startup, Boot, Plan, CreateDevice, SetupDevice, TargetsFail, Targets,
              StartDNS, ListenControl
<1>2. CASE Round
  BY <1>2 DEF Round, RoundRoutes, RoundRevert, Configure, ConfigureError
<1>3. CASE Unwind \/ Exit
  <2>1. CASE UnwindResolved
    BY <2>1 DEF UnwindResolved
  <2>2. CASE UnwindHost
    <3>1. LinkGone
      BY <2>2 DEF UnwindHost
    <3> QED BY <2>2, <3>1
  <2>3. CASE UnwindListener \/ UnwindControl \/ UnwindStop \/ UnwindDNS
             \/ UnwindSupervisor \/ Exit
    BY <2>3 DEF UnwindListener, UnwindControl, UnwindStop, UnwindDNS, UnwindSupervisor, Exit
  <2> QED BY <1>3, <2>1, <2>2, <2>3 DEF Unwind
<1>4. CASE LoopSignal \/ LoopShutdown \/ LoopChange
  BY <1>4 DEF LoopSignal, LoopShutdown, LoopChange
<1>5. CASE Crash \/ StopUnit
  BY <1>5 DEF Crash, StopUnit, Dies, ProcessGone
<1>6. CASE StartUnit \/ RestartUnit \/ Notify \/ Administer \/ CloseShutdownChannel
           \/ UNCHANGED vars
  BY <1>6 DEF StartUnit, RestartUnit, Notify, Administer, CloseShutdownChannel, ControlStep, vars
<1>7. ASSUME NEW c \in Clients, DialControl(c) \/ AcceptControl(c) \/ HandleControl(c)
      PROVE  UNCHANGED resolvedVars
  BY <1>7 DEF DialControl, AcceptControl, HandleControl, ControlStep
<1> QED BY <1>1, <1>2, <1>3, <1>4, <1>5, <1>6, <1>7 DEF Next

\* What a step of the daemon does to the control server.
LEMMA ControlSteps ==
  ASSUME [Next]_vars
  PROVE  \/ UNCHANGED controlVars
         \/ ListenControl /\ Listen /\ pc' = "loop"
         \/ UnwindListener /\ CloseListener
         \/ UnwindControl /\ CloseWaits
         \/ (Crash \/ (StopUnit /\ pc' = "off")) /\ ControlDies
         \/ Exit /\ UNCHANGED <<socket, listening, conn, slots>> /\ shutdown' = "open"
         \/ CloseShutdownChannel /\ CloseShutdown
         \/ \E c \in Clients : /\ Dial(c) \/ AcceptLoop(c) \/ Handler(c)
                               /\ UNCHANGED mainVars
<1>1. CASE Startup
  BY <1>1 DEF Startup, Boot, Plan, CreateDevice, SetupDevice, TargetsFail, Targets,
              StartDNS, ListenControl
<1>2. CASE Round
  BY <1>2 DEF Round, RoundRoutes, RoundRevert, Configure, ConfigureError
<1>3. CASE Unwind \/ Exit
  BY <1>3 DEF Unwind, UnwindListener, UnwindControl, UnwindStop, UnwindResolved,
              UnwindDNS, UnwindHost, UnwindSupervisor, Exit
<1>4. CASE LoopSignal \/ LoopShutdown \/ LoopChange
  BY <1>4 DEF LoopSignal, LoopShutdown, LoopChange
<1>5. CASE Crash \/ StopUnit
  BY <1>5 DEF Crash, StopUnit, Dies, ProcessGone
<1>6. CASE StartUnit \/ RestartUnit \/ Notify \/ Administer \/ UNCHANGED vars
  BY <1>6 DEF StartUnit, RestartUnit, Notify, Administer, vars
<1>7. CASE CloseShutdownChannel
  BY <1>7 DEF CloseShutdownChannel, ControlStep
<1>8. ASSUME NEW c \in Clients, DialControl(c) \/ AcceptControl(c) \/ HandleControl(c)
      PROVE  (Dial(c) \/ AcceptLoop(c) \/ Handler(c)) /\ UNCHANGED mainVars
  BY <1>8 DEF DialControl, AcceptControl, HandleControl, ControlStep
<1> QED BY <1>1, <1>2, <1>3, <1>4, <1>5, <1>6, <1>7, <1>8 DEF Next

\* Where run may be.
Points == {"off", "boot", "plan", "create", "setup", "targets", "dns", "configure",
           "listen", "loop", "routes", "revert", "unwind"}

\* The types of run's own variables and of the unit.
MainOK ==
  /\ pc \in Points
  /\ code \in {0, 1, 75}
  /\ want \in Plans \cup {<<>>}
  /\ unit \in {"active", "restart", "inactive", "failed"}
  /\ goal \in {"up", "down"}

FlagsOK == dns \in BOOLEAN /\ catching \in BOOLEAN /\ signalled \in BOOLEAN /\ pending \in BOOLEAN

\* The parts of TypeOK.
LEMMA TypeParts ==
  TypeOK <=> /\ HostTypeOK /\ ResolvedTypeOK /\ ControlTypeOK /\ MainOK /\ FlagsOK
             /\ ToSet(defers) \subseteq Names /\ faults \in 0 .. MaxFaults
BY DEF TypeOK, MainOK, FlagsOK, Points, Names

\* Every step keeps the types of the main goroutine's variables.
LEMMA MainTyped ==
  ASSUME MainOK, [Next]_vars
  PROVE  MainOK'
<1> USE DEF MainOK, Points, mainVars, unitVars, Goto, DeferAndGoto, ReturnCode, Undefer
<1>1. CASE Startup
  <2>1. CASE Boot
    BY <2>1 DEF Boot
  <2>2. CASE Plan
    BY <2>2 DEF Plan
  <2>3. CASE CreateDevice
    BY <2>3 DEF CreateDevice
  <2>4. CASE SetupDevice
    BY <2>4 DEF SetupDevice
  <2>5. CASE TargetsFail
    BY <2>5 DEF TargetsFail
  <2>6. CASE Targets
    BY <2>6 DEF Targets
  <2>7. CASE StartDNS
    BY <2>7 DEF StartDNS
  <2>8. CASE ListenControl
    BY <2>8 DEF ListenControl
  <2> QED BY <1>1, <2>1, <2>2, <2>3, <2>4, <2>5, <2>6, <2>7, <2>8 DEF Startup
<1>2. CASE Round \/ LoopSignal \/ LoopShutdown \/ LoopChange
  <2>1. CASE Configure
    BY <2>1 DEF Configure
  <2>2. CASE ConfigureError
    BY <2>2 DEF ConfigureError
  <2>3. CASE RoundRoutes
    BY <2>3 DEF RoundRoutes
  <2>4. CASE RoundRevert
    BY <2>4 DEF RoundRevert
  <2>5. CASE LoopSignal
    BY <2>5 DEF LoopSignal
  <2>6. CASE LoopShutdown
    BY <2>6 DEF LoopShutdown
  <2>7. CASE LoopChange
    BY <2>7 DEF LoopChange
  <2> QED BY <1>2, <2>1, <2>2, <2>3, <2>4, <2>5, <2>6, <2>7 DEF Round
<1>3. CASE Unwind
  <2>1. CASE UnwindListener
    BY <2>1 DEF UnwindListener
  <2>2. CASE UnwindControl
    BY <2>2 DEF UnwindControl
  <2>3. CASE UnwindStop
    BY <2>3 DEF UnwindStop
  <2>4. CASE UnwindResolved
    BY <2>4 DEF UnwindResolved
  <2>5. CASE UnwindDNS
    BY <2>5 DEF UnwindDNS
  <2>6. CASE UnwindHost
    BY <2>6 DEF UnwindHost
  <2>7. CASE UnwindSupervisor
    BY <2>7 DEF UnwindSupervisor
  <2> QED BY <1>3, <2>1, <2>2, <2>3, <2>4, <2>5, <2>6, <2>7 DEF Unwind
<1>4. CASE Exit
  BY <1>4 DEF Exit, ProcessGone
<1>5. CASE Crash
  BY <1>5 DEF Crash, Dies, ProcessGone
<1>6. CASE StopUnit
  BY <1>6 DEF StopUnit, Dies, ProcessGone
<1>7. CASE StartUnit
  BY <1>7 DEF StartUnit
<1>8. CASE RestartUnit
  BY <1>8 DEF RestartUnit
<1>9. CASE Notify
  BY <1>9 DEF Notify
<1>10. CASE Administer
  BY <1>10 DEF Administer
<1>11. CASE CloseShutdownChannel
  BY <1>11 DEF CloseShutdownChannel, ControlStep
<1>12. ASSUME NEW c \in Clients, DialControl(c) \/ AcceptControl(c) \/ HandleControl(c)
       PROVE  MainOK'
  BY <1>12 DEF DialControl, AcceptControl, HandleControl, ControlStep
<1>13. CASE UNCHANGED vars
  BY <1>13 DEF vars
<1> QED BY <1>1, <1>2, <1>3, <1>4, <1>5, <1>6, <1>7, <1>8, <1>9, <1>10, <1>11, <1>12, <1>13 DEF Next

\* Every step keeps the types of its flags.
LEMMA FlagsTyped ==
  ASSUME FlagsOK, [Next]_vars
  PROVE  FlagsOK'
<1> USE DEF FlagsOK, mainVars
<1>1. CASE Startup
  <2>1. CASE Boot
    BY <2>1, Zenon DEF Boot
  <2>2. CASE Plan
    BY <2>2, Zenon DEF Plan
  <2>3. CASE CreateDevice
    BY <2>3, Zenon DEF CreateDevice
  <2>4. CASE SetupDevice
    BY <2>4, Zenon DEF SetupDevice
  <2>5. CASE TargetsFail
    BY <2>5, Zenon DEF TargetsFail
  <2>6. CASE Targets
    BY <2>6, Zenon DEF Targets
  <2>7. CASE StartDNS
    BY <2>7, Zenon DEF StartDNS
  <2>8. CASE ListenControl
    BY <2>8, Zenon DEF ListenControl
  <2> QED BY <1>1, <2>1, <2>2, <2>3, <2>4, <2>5, <2>6, <2>7, <2>8 DEF Startup
<1>2. CASE Round \/ LoopSignal \/ LoopShutdown \/ LoopChange
  <2>1. CASE Configure
    BY <2>1, Zenon DEF Configure
  <2>2. CASE ConfigureError
    BY <2>2, Zenon DEF ConfigureError
  <2>3. CASE RoundRoutes
    BY <2>3, Zenon DEF RoundRoutes
  <2>4. CASE RoundRevert
    BY <2>4, Zenon DEF RoundRevert
  <2>5. CASE LoopSignal
    BY <2>5, Zenon DEF LoopSignal
  <2>6. CASE LoopShutdown
    BY <2>6, Zenon DEF LoopShutdown
  <2>7. CASE LoopChange
    BY <2>7, Zenon DEF LoopChange
  <2> QED BY <1>2, <2>1, <2>2, <2>3, <2>4, <2>5, <2>6, <2>7 DEF Round
<1>3. CASE Unwind
  <2>1. CASE UnwindListener
    BY <2>1, Zenon DEF UnwindListener
  <2>2. CASE UnwindControl
    BY <2>2, Zenon DEF UnwindControl
  <2>3. CASE UnwindStop
    BY <2>3, Zenon DEF UnwindStop
  <2>4. CASE UnwindResolved
    BY <2>4, Zenon DEF UnwindResolved
  <2>5. CASE UnwindDNS
    BY <2>5, Zenon DEF UnwindDNS
  <2>6. CASE UnwindHost
    BY <2>6, Zenon DEF UnwindHost
  <2>7. CASE UnwindSupervisor
    BY <2>7, Zenon DEF UnwindSupervisor
  <2> QED BY <1>3, <2>1, <2>2, <2>3, <2>4, <2>5, <2>6, <2>7 DEF Unwind
<1>4. CASE Exit
  BY <1>4, Zenon DEF Exit, ProcessGone
<1>5. CASE Crash
  BY <1>5, Zenon DEF Crash, Dies, ProcessGone
<1>6. CASE StopUnit
  BY <1>6, Zenon DEF StopUnit, Dies, ProcessGone
<1>7. CASE StartUnit
  BY <1>7, Zenon DEF StartUnit
<1>8. CASE RestartUnit
  BY <1>8, Zenon DEF RestartUnit
<1>9. CASE Notify
  BY <1>9, Zenon DEF Notify
<1>10. CASE Administer
  BY <1>10, Zenon DEF Administer
<1>11. CASE CloseShutdownChannel
  BY <1>11, Zenon DEF CloseShutdownChannel, ControlStep
<1>12. ASSUME NEW c \in Clients, DialControl(c) \/ AcceptControl(c) \/ HandleControl(c)
       PROVE  FlagsOK'
  BY <1>12, Zenon DEF DialControl, AcceptControl, HandleControl, ControlStep
<1>13. CASE UNCHANGED vars
  BY <1>13, Zenon DEF vars
<1> QED BY <1>1, <1>2, <1>3, <1>4, <1>5, <1>6, <1>7, <1>8, <1>9, <1>10, <1>11, <1>12, <1>13 DEF Next

-----------------------------------------------------------------------------
\* A deferred call runs: the stack was the one that ends with it.
LEMMA Unwinds ==
  ASSUME StackInv
  PROVE  /\ NextDefer("supervisor") => defers = D1
         /\ NextDefer("host") => defers = D2
         /\ NextDefer("dns") => defers = D3
         /\ NextDefer("resolved") => defers = D4
         /\ NextDefer("stop") => defers = D5
         /\ NextDefer("control") => defers = D6
<1> SUFFICES ASSUME pc = "unwind", defers # <<>>
             PROVE  /\ Last(defers) = "supervisor" => defers = D1
                    /\ Last(defers) = "host" => defers = D2
                    /\ Last(defers) = "dns" => defers = D3
                    /\ Last(defers) = "resolved" => defers = D4
                    /\ Last(defers) = "stop" => defers = D5
                    /\ Last(defers) = "control" => defers = D6
  BY DEF NextDefer
<1>1. defers \in {D1, D2, D3, D4, D5, D6}
  BY DEF StackInv, D0
<1> QED BY <1>1, Pops

\* Every step keeps the stack that its place in run calls for.
LEMMA StackStep ==
  ASSUME TypeOK, StackInv, [Next]_vars
  PROVE  StackInv'
<1>1. CASE Startup
  <2> USE DEF Goto, DeferAndGoto, ReturnCode, unitVars
  <2>1. CASE Boot
    BY <2>1 DEF Boot, StackInv, D1
  <2>2. CASE Plan
    BY <2>2 DEF Plan, StackInv
  <2>3. CASE CreateDevice
    BY <2>3 DEF CreateDevice, StackInv
  <2>4. CASE SetupDevice
    BY <2>4 DEF SetupDevice, StackInv
  <2>5. CASE TargetsFail
    BY <2>5 DEF TargetsFail, StackInv
  <2>6. CASE Targets
    BY <2>6 DEF Targets, StackInv, D2
  <2>7. CASE StartDNS
    BY <2>7 DEF StartDNS, StackInv, D3
  <2>8. CASE ListenControl
    BY <2>8 DEF ListenControl, StackInv, D5, D6
  <2> QED BY <1>1, <2>1, <2>2, <2>3, <2>4, <2>5, <2>6, <2>7, <2>8 DEF Startup
<1>2. CASE Round \/ LoopSignal \/ LoopShutdown \/ LoopChange
  <2> USE DEF Goto, DeferAndGoto, ReturnCode, unitVars
  <2>1. CASE Configure
    BY <2>1 DEF Configure, StackInv, D4
  <2>2. CASE ConfigureError
    BY <2>2 DEF ConfigureError, StackInv
  <2>3. CASE RoundRoutes \/ RoundRevert
    BY <2>3 DEF RoundRoutes, RoundRevert, StackInv
  <2>4. CASE LoopSignal \/ LoopShutdown
    BY <2>4 DEF LoopSignal, LoopShutdown, StackInv
  <2>5. CASE LoopChange
    BY <2>5 DEF LoopChange, StackInv
  <2> QED BY <1>2, <2>1, <2>2, <2>3, <2>4, <2>5 DEF Round
<1>3. CASE Unwind
  <2>1. CASE UnwindListener
    BY <2>1 DEF UnwindListener, mainVars, unitVars, StackInv
  <2>2. CASE ~UnwindListener
    <3>1. /\ \/ defers = D1 \/ defers = D2 \/ defers = D3
             \/ defers = D4 \/ defers = D5 \/ defers = D6
          /\ pc = "unwind" /\ pc' = "unwind" /\ defers' = Front(defers) /\ unit' = unit
      BY <1>3, <2>2, Unwinds DEF Unwind, UnwindControl, UnwindStop, UnwindResolved, UnwindDNS,
            UnwindHost, UnwindSupervisor, Undefer, unitVars, NextDefer
    <3>2. defers' \in {D0, D1, D2, D3, D4, D5, D6}
      BY <3>1, Pops
    <3> QED BY <3>1, <3>2 DEF StackInv
  <2> QED BY <2>1, <2>2
<1>4. CASE Exit
  BY <1>4 DEF Exit, ProcessGone, StackInv, D0
<1>5. CASE Crash
  BY <1>5 DEF Crash, Dies, ProcessGone, StackInv, D0
<1>6. CASE StopUnit
  BY <1>6 DEF StopUnit, Dies, ProcessGone, mainVars, StackInv, D0
<1>7. CASE StartUnit \/ RestartUnit
  <2>1. pc = "off"
    BY <1>7 DEF StartUnit, RestartUnit, StackInv
  <2> QED BY <1>7, <2>1 DEF StartUnit, RestartUnit, StackInv
<1>8. CASE Notify \/ Administer \/ CloseShutdownChannel \/ UNCHANGED vars
  BY <1>8 DEF Notify, Administer, CloseShutdownChannel, ControlStep, vars, mainVars, unitVars,
              StackInv
<1>9. ASSUME NEW c \in Clients, DialControl(c) \/ AcceptControl(c) \/ HandleControl(c)
      PROVE  StackInv'
  BY <1>9 DEF DialControl, AcceptControl, HandleControl, ControlStep, mainVars, unitVars, StackInv
<1> QED BY <1>1, <1>2, <1>3, <1>4, <1>5, <1>6, <1>7, <1>8, <1>9 DEF Next

\* Every step counts its faults.
LEMMA FaultSteps ==
  ASSUME [Next]_vars
  PROVE  faults' = faults \/ Fault
<1>1. CASE Startup
  BY <1>1 DEF Startup, Boot, Plan, CreateDevice, SetupDevice, TargetsFail, Targets,
              StartDNS, ListenControl
<1>2. CASE Round \/ LoopSignal \/ LoopShutdown \/ LoopChange
  BY <1>2 DEF Round, RoundRoutes, RoundRevert, Configure, ConfigureError,
              LoopSignal, LoopShutdown, LoopChange, MayFail
<1>3. CASE Unwind \/ Exit
  BY <1>3 DEF Unwind, UnwindListener, UnwindControl, UnwindStop, UnwindResolved, UnwindDNS,
              UnwindHost, UnwindSupervisor, Exit, MayFail
<1>4. CASE Crash \/ StopUnit \/ StartUnit \/ RestartUnit \/ Notify \/ Administer
           \/ CloseShutdownChannel \/ UNCHANGED vars
  BY <1>4 DEF Crash, StopUnit, StartUnit, RestartUnit, Notify, Administer,
              CloseShutdownChannel, ControlStep, vars
<1>5. ASSUME NEW c \in Clients, DialControl(c) \/ AcceptControl(c) \/ HandleControl(c)
      PROVE  faults' = faults
  BY <1>5 DEF DialControl, AcceptControl, HandleControl, ControlStep
<1> QED BY <1>1, <1>2, <1>3, <1>4, <1>5 DEF Next

\* Every step keeps the types, and the handlers finite.
LEMMA TypedStep ==
  ASSUME TypeOK, StackInv, IsFiniteSet(Handled), [Next]_vars
  PROVE  TypeOK' /\ IsFiniteSet(Handled')
<1>0. HostTypeOK /\ ResolvedTypeOK /\ ControlOK /\ MainOK /\ FlagsOK /\ faults \in 0 .. MaxFaults
  BY TypeParts DEF ControlOK
<1>1. HostTypeOK'
  <2>0. want \in Seq(Dests)
    BY WantIsPlan
  <2>1. ASSUME AddTargets(kernel.routes, want, FALSE), leaks' = leaks, conflict' = conflict
        PROVE  HostTypeOK'
    <3>1. kernel.routes \in SUBSET Dests
      BY <1>0 DEF HostTypeOK
    <3>2. /\ kernel' \in [link : BOOLEAN, rule : BOOLEAN, routes : SUBSET Dests]
          /\ dev' \in [open : BOOLEAN, routes : SUBSET Dests]
          /\ routeErr' \in {"none", "exists", "failed"}
      BY <1>0, <2>0, <2>1, <3>1, AddTargetsDoes
    <3> QED BY <1>0, <2>1, <3>2 DEF HostTypeOK
  <2>2. ASSUME NEW kept \in SUBSET Dests, NEW fault \in BOOLEAN,
               ReconcileTargets(want, kept, fault)
        PROVE  HostTypeOK'
    BY <1>0, <2>0, <2>2, ReconcileTyped
  <2>3. ASSUME NEW stuck \in BOOLEAN, Close(stuck) PROVE HostTypeOK'
    BY <1>0, <2>3, HostOperations
  <2>4. CreateTUN \/ setup \/ HostDies \/ UNCHANGED hostVars \/ ConflictChanges
          \/ DeleteLeftRule => HostTypeOK'
    BY <1>0, HostOperations
  <2> QED BY <2>1, <2>2, <2>3, <2>4, HostSteps
<1>2. ResolvedTypeOK'
  BY <1>0, ResolvedSteps, ResolvedOperations
<1>3. ControlOK'
  <2>1. CASE UNCHANGED <<socket, listening, conn, slots>> /\ shutdown' = "open"
    <3>1. Handled' = Handled
      BY <2>1 DEF Handled
    <3> QED BY <1>0, <2>1, <3>1 DEF ControlOK, ControlTypeOK
  <2> QED BY <1>0, <2>1, ControlSteps, ControlOperations
<1>4. MainOK' /\ FlagsOK'
  BY <1>0, MainTyped, FlagsTyped
<1>5. ToSet(defers') \subseteq Names
  <2>1. StackInv'
    BY StackStep
  <2>2. defers' \in {D0, D1, D2, D3, D4, D5, D6}
    BY <1>4, <2>1 DEF MainOK, Points, StackInv
  <2> QED BY <2>2, Pops
<1>6. faults' \in 0 .. MaxFaults
  BY <1>0, FaultSteps, MaxFaultsAssumption DEF Fault
<1>7. TypeOK'
  <2>1. HostTypeOK' /\ ResolvedTypeOK' /\ ControlTypeOK'
    BY <1>1, <1>2, <1>3 DEF ControlOK
  <2>2. /\ pc' \in {"off", "boot", "plan", "create", "setup", "targets", "dns", "configure",
                    "listen", "loop", "routes", "revert", "unwind"}
        /\ code' \in {0, 1, 75} /\ want' \in Plans \cup {<<>>}
        /\ unit' \in {"active", "restart", "inactive", "failed"} /\ goal' \in {"up", "down"}
    BY <1>4, Zenon DEF MainOK, Points
  <2>3. {dns', catching', signalled', pending'} \subseteq BOOLEAN
    BY <1>4, Zenon DEF FlagsOK
  <2>4. ToSet(defers') \subseteq {"supervisor", "host", "dns", "resolved", "stop", "control"}
    BY <1>5, Zenon DEF Names
  <2> QED BY <1>6, <2>1, <2>2, <2>3, <2>4, Zenon DEF TypeOK
<1> QED BY <1>3, <1>7 DEF ControlOK

-----------------------------------------------------------------------------
\* The kernel and the Device after each operation on them.
LEMMA HostAfter ==
  ASSUME HostTypeOK
  PROVE  /\ CreateTUN => /\ kernel'.link = TRUE /\ kernel'.rule = FALSE
                         /\ kernel'.routes = kernel.routes /\ dev'.routes = {}
         /\ setup => /\ kernel'.link = kernel.link /\ kernel'.routes = kernel.routes
                     /\ dev' = dev /\ leaks' = leaks
         /\ \A stuck \in BOOLEAN : Close(stuck) =>
              /\ kernel'.link = FALSE /\ kernel'.routes = {} /\ dev'.routes = {}
              /\ kernel'.rule => Rule \in leaks'
         /\ HostDies => /\ kernel'.link = FALSE /\ kernel'.routes = {} /\ dev'.routes = {}
                        /\ kernel'.rule => Rule \in leaks'
         /\ DeleteLeftRule => /\ kernel'.link = kernel.link /\ kernel'.routes = kernel.routes
                              /\ kernel'.rule = FALSE /\ dev' = dev
         /\ ConflictChanges => kernel' = kernel /\ dev' = dev /\ leaks' = leaks
<1>0. kernel \in [link : BOOLEAN, rule : BOOLEAN, routes : SUBSET Dests]
  BY DEF HostTypeOK
<1>1. CreateTUN => /\ kernel'.link = TRUE /\ kernel'.rule = FALSE
                   /\ kernel'.routes = kernel.routes /\ dev'.routes = {}
  BY <1>0 DEF CreateTUN, Refused
<1>2. setup => /\ kernel'.link = kernel.link /\ kernel'.routes = kernel.routes
               /\ dev' = dev /\ leaks' = leaks
  BY <1>0 DEF setup
<1>3. ASSUME NEW stuck \in BOOLEAN, Close(stuck)
      PROVE  /\ kernel'.link = FALSE /\ kernel'.routes = {} /\ dev'.routes = {}
             /\ kernel'.rule => Rule \in leaks'
  <2>1. kernel' = [kernel EXCEPT !.link = FALSE, !.routes = {}, !.rule = @ /\ stuck]
    BY <1>3 DEF Close
  <2>2. /\ kernel'.link = FALSE /\ kernel'.routes = {}
        /\ kernel'.rule = (kernel.rule /\ stuck)
    BY <1>0, <2>1
  <2>3. kernel'.rule => stuck
    BY <2>2, Zenon
  <2>4. kernel'.rule => kernel.rule
    BY <2>2, Zenon
  <2> QED BY <1>3, <2>2, <2>3, <2>4 DEF Close, NoDevice
<1>4. HostDies => /\ kernel'.link = FALSE /\ kernel'.routes = {} /\ dev'.routes = {}
                  /\ kernel'.rule => Rule \in leaks'
  BY <1>0 DEF HostDies, NoDevice
<1>5. DeleteLeftRule => /\ kernel'.link = kernel.link /\ kernel'.routes = kernel.routes
                        /\ kernel'.rule = FALSE /\ dev' = dev
  BY <1>0 DEF DeleteLeftRule
<1>6. ConflictChanges => kernel' = kernel /\ dev' = dev /\ leaks' = leaks
  BY DEF ConflictChanges
<1> QED BY <1>1, <1>2, <1>3, <1>4, <1>5, <1>6

\* The stack between two steps that push and pop nothing.
LEMMA SameStack ==
  ASSUME HostInv, defers' = defers, UNCHANGED hostVars, dns' = dns,
         pc \notin {"setup", "targets"}, pc' \notin {"setup", "targets"}
  PROVE  HostInv'
BY DEF HostInv, HostDeferred, hostVars

\* Every step keeps the link, the rule, the routes and the DNS server deferred.
LEMMA HostStep ==
  ASSUME TypeOK, StackInv, StackInv', HostInv, [Next]_vars
  PROVE  HostInv'
<1> USE StacksDiffer
<1>0. HostTypeOK
  BY TypeParts
<1>1. CASE Boot \/ Plan
  <2>1. ~HostDeferred /\ ~HostDeferred' /\ defers \in {D0, D1} /\ defers' \in {D0, D1}
    BY <1>1 DEF Boot, Plan, Goto, DeferAndGoto, ReturnCode, StackInv, HostDeferred
  <2>2. /\ UNCHANGED hostVars /\ dns' = dns
        /\ pc \notin {"setup", "targets"} /\ pc' \notin {"setup", "targets"}
    BY <1>1 DEF Boot, Plan, Goto, DeferAndGoto, ReturnCode
  <2> QED BY <2>1, <2>2 DEF HostInv, hostVars
<1>2. CASE CreateDevice
  <2>1. defers = D1 /\ defers' = D1 /\ dns' = dns /\ pc = "create"
    BY <1>2 DEF CreateDevice, Goto, ReturnCode, StackInv
  <2>2. CASE CreateTUN /\ pc' = "setup"
    <3>1. /\ kernel'.link = TRUE /\ kernel'.rule = FALSE
          /\ kernel'.routes = kernel.routes /\ dev'.routes = {}
      BY <1>0, <2>2, HostAfter
    <3> QED BY <2>1, <2>2, <3>1 DEF HostInv, HostDeferred
  <2>3. CASE UNCHANGED hostVars /\ pc' = "unwind"
    BY <2>1, <2>3, SameStack
  <2> QED BY <1>2, <2>2, <2>3 DEF CreateDevice, Goto, ReturnCode
<1>3. CASE SetupDevice \/ TargetsFail
  <2>1. defers = D1 /\ defers' = D1 /\ dns' = dns /\ pc \in {"setup", "targets"}
    BY <1>3 DEF SetupDevice, TargetsFail, Goto, ReturnCode, StackInv
  <2>2. CASE setup /\ pc' = "targets"
    <3>1. kernel'.link = kernel.link /\ kernel'.routes = kernel.routes /\ dev' = dev
      BY <1>0, <2>2, HostAfter
    <3> QED BY <2>1, <2>2, <3>1 DEF HostInv, HostDeferred
  <2>3. CASE (\E stuck \in BOOLEAN : Close(stuck)) /\ pc' = "unwind"
    <3>1. /\ kernel'.link = FALSE /\ kernel'.routes = {} /\ dev'.routes = {}
          /\ kernel'.rule => Rule \in leaks'
      BY <1>0, <2>3, HostAfter
    <3> QED BY <2>1, <2>3, <3>1 DEF HostInv, HostDeferred
  <2> QED BY <1>3, <2>2, <2>3 DEF SetupDevice, TargetsFail, Goto, ReturnCode
<1>4. CASE Targets
  <2>1. defers = D1 /\ defers' = D2 /\ dns' = dns /\ pc = "targets"
    BY <1>4 DEF Targets, DeferAndGoto, StackInv, D2
  <2>2. kernel.routes \in SUBSET Dests /\ want \in Seq(Dests)
    BY <1>0, WantIsPlan DEF HostTypeOK
  <2>3. kernel'.link = kernel.link
    BY <1>0, <1>4, <2>2, AddTargetsDoes DEF Targets
  <2> QED BY <2>1, <2>3 DEF HostInv, HostDeferred
<1>5. CASE StartDNS
  <2>1. defers = D2 /\ UNCHANGED hostVars
    BY <1>5 DEF StartDNS, StackInv
  <2>2. \/ dns' = TRUE /\ defers' = D3 /\ pc' = "configure"
        \/ dns' = dns /\ defers' = D2 /\ pc' = "unwind"
    BY <1>5, <2>1 DEF StartDNS, DeferAndGoto, ReturnCode, D3
  <2> QED BY <1>5, <2>1, <2>2 DEF StartDNS, HostInv, HostDeferred, hostVars
<1>6. CASE ListenControl \/ Configure \/ ConfigureError \/ RoundRevert
           \/ LoopSignal \/ LoopShutdown \/ LoopChange
  <2>1. /\ UNCHANGED hostVars /\ dns' = dns
        /\ pc \notin {"setup", "targets"} /\ pc' \notin {"setup", "targets"}
        /\ defers \in {D3, D4, D6}
    BY <1>6 DEF ListenControl, Configure, ConfigureError, RoundRevert, LoopSignal,
            LoopShutdown, LoopChange, Goto, DeferAndGoto, ReturnCode, StackInv
  <2>2. defers' \in {D3, D4, D5, D6}
    <3>1. CASE ListenControl
      BY <3>1 DEF ListenControl, StackInv, D5, D6
    <3>2. CASE ~ListenControl
      BY <1>6, <3>2 DEF Configure, ConfigureError, RoundRevert, LoopSignal,
            LoopShutdown, LoopChange, Goto, DeferAndGoto, ReturnCode, StackInv, D4
    <3> QED BY <3>1, <3>2
  <2> QED BY <2>1, <2>2 DEF HostInv, HostDeferred, hostVars
<1>7. CASE RoundRoutes
  <2>1. /\ pc = "routes" /\ pc' = "revert" /\ defers = D6 /\ defers' = D6 /\ dns' = dns
    BY <1>7 DEF RoundRoutes, Goto, StackInv
  <2>2. kernel'.link = kernel.link
    <3>1. PICK kept \in SUBSET Dests, fault \in BOOLEAN : ReconcileTargets(want, kept, fault)
      BY <1>7 DEF RoundRoutes, TypeOK, HostTypeOK
    <3>2. (kernel.routes \ dev.routes) \cup kept \in SUBSET Dests /\ want \in Seq(Dests)
      BY <1>0, WantIsPlan DEF HostTypeOK
    <3> QED BY <1>0, <3>1, <3>2, AddTargetsDoes DEF ReconcileTargets
  <2> QED BY <2>1, <2>2 DEF HostInv, HostDeferred
<1>8. CASE UnwindListener
  BY <1>8, SameStack DEF UnwindListener, mainVars, NextDefer
<1>9. CASE UnwindControl \/ UnwindStop \/ UnwindResolved \/ UnwindSupervisor
  <2>1. /\ UNCHANGED hostVars /\ dns' = dns /\ pc = "unwind" /\ pc' = "unwind"
        /\ defers' = Front(defers)
    BY <1>9 DEF UnwindControl, UnwindStop, UnwindResolved, UnwindSupervisor, Undefer, NextDefer
  <2>2. defers \in {D1, D4, D5, D6}
    BY <1>9, Unwinds DEF UnwindControl, UnwindStop, UnwindResolved, UnwindSupervisor
  <2>3. \/ defers = D1 /\ defers' = D0
        \/ defers \in {D4, D5, D6} /\ defers' \in {D3, D4, D5}
    BY <2>1, <2>2, Pops
  <2> QED BY <2>1, <2>3 DEF HostInv, HostDeferred, hostVars
<1>10. CASE UnwindDNS
  <2>1. defers = D3 /\ defers' = D2 /\ pc = "unwind" /\ pc' = "unwind"
    BY <1>10, Unwinds, Pops DEF UnwindDNS, Undefer, NextDefer
  <2> QED BY <1>10, <2>1 DEF UnwindDNS, HostInv, HostDeferred, hostVars
<1>11. CASE UnwindHost
  <2>1. defers = D2 /\ defers' = D1 /\ pc = "unwind" /\ pc' = "unwind" /\ dns' = dns
    BY <1>11, Unwinds, Pops DEF UnwindHost, Undefer, NextDefer
  <2>2. /\ kernel'.link = FALSE /\ kernel'.routes = {} /\ dev'.routes = {}
        /\ kernel'.rule => Rule \in leaks'
    BY <1>0, <1>11, HostAfter DEF UnwindHost
  <2> QED BY <2>1, <2>2 DEF HostInv, HostDeferred
<1>12. CASE Exit
  <2>1. defers = D0 /\ defers' = D0 /\ pc = "unwind" /\ pc' = "off" /\ UNCHANGED hostVars
        /\ dns' = FALSE
    BY <1>12 DEF Exit, ProcessGone, D0
  <2> QED BY <2>1 DEF HostInv, HostDeferred, hostVars
<1>13. ASSUME NEW u, Dies(u) PROVE HostInv'
  <2>1. defers' = D0 /\ pc' = "off" /\ dns' = FALSE
    BY <1>13 DEF Dies, ProcessGone, D0
  <2>2. /\ kernel'.link = FALSE /\ kernel'.routes = {} /\ dev'.routes = {}
        /\ kernel'.rule => Rule \in leaks'
    BY <1>0, <1>13, HostAfter DEF Dies
  <2> QED BY <2>1, <2>2 DEF HostInv, HostDeferred
<1>14. CASE Crash \/ StopUnit
  <2>1. CASE Crash
    BY <1>13, <2>1 DEF Crash
  <2>2. CASE StopUnit
    BY <1>13, <2>2 DEF StopUnit, mainVars, hostVars, HostInv, HostDeferred
  <2> QED BY <1>14, <2>1, <2>2
<1>15. CASE StartUnit \/ RestartUnit
  <2>1. pc = "off"
    BY <1>15 DEF StartUnit, RestartUnit, StackInv
  <2> QED BY <1>15, <2>1, SameStack DEF StartUnit, RestartUnit
<1>16. CASE Administer
  <2>1. pc = "off" /\ pc' = pc /\ defers' = defers /\ dns' = dns /\ defers = D0
    BY <1>16 DEF Administer, mainVars, StackInv
  <2>2. CASE ConflictChanges
    <3>1. kernel' = kernel /\ dev' = dev /\ leaks' = leaks
      BY <1>0, <2>2, HostAfter
    <3> QED BY <2>1, <3>1 DEF HostInv, HostDeferred
  <2>3. CASE DeleteLeftRule
    <3>1. /\ kernel'.link = kernel.link /\ kernel'.routes = kernel.routes
          /\ kernel'.rule = FALSE /\ dev' = dev
      BY <1>0, <2>3, HostAfter
    <3> QED BY <2>1, <3>1 DEF HostInv, HostDeferred
  <2> QED BY <1>16, <2>2, <2>3 DEF Administer
<1>17. CASE Notify \/ CloseShutdownChannel \/ UNCHANGED vars
  BY <1>17 DEF Notify, CloseShutdownChannel, ControlStep, vars, mainVars, hostVars,
               HostInv, HostDeferred
<1>18. ASSUME NEW c \in Clients, DialControl(c) \/ AcceptControl(c) \/ HandleControl(c)
       PROVE  HostInv'
  BY <1>18 DEF DialControl, AcceptControl, HandleControl, ControlStep, mainVars, hostVars,
               HostInv, HostDeferred
<1> QED BY <1>1, <1>2, <1>3, <1>4, <1>5, <1>6, <1>7, <1>8, <1>9, <1>10, <1>11, <1>12, <1>14,
           <1>15, <1>16, <1>17, <1>18 DEF Next, Startup, Round, Unwind

-----------------------------------------------------------------------------
\* Steps outside Configure that leave systemd-resolved alone.
LEMMA SettingsKept ==
  ASSUME SettingsInv, UNCHANGED resolvedVars, pc # "configure", pc' # "configure",
         HostDeferred => HostDeferred',
         defers \in {D4, D5, D6} => defers' \in {D4, D5, D6}
  PROVE  SettingsInv'
<1>1. settings' = settings /\ made' = made /\ client' = client /\ unsure' = unsure
  BY DEF resolvedVars
<1>2. made = 0
  BY DEF SettingsInv
<1> QED BY <1>1, <1>2 DEF SettingsInv

\* A step that changes neither the place in run nor systemd-resolved.
LEMMA SettingsStay ==
  ASSUME SettingsInv, UNCHANGED resolvedVars, pc' = pc, defers' = defers
  PROVE  SettingsInv'
BY DEF SettingsInv, HostDeferred, resolvedVars

\* The link is gone, and its settings are.
LEMMA SettingsGone ==
  ASSUME LinkGone, pc' # "configure"
  PROVE  SettingsInv'
BY DEF LinkGone, SettingsInv

\* Reverting leaves a client's settings only where it says so.
LEMMA SettingsReverted ==
  ASSUME SettingsInv, NEW stuck \in BOOLEAN, Revert(stuck), pc # "configure"
  PROVE  /\ made' = 0 /\ client' = FALSE
         /\ settings' \in {settings, {}}
         /\ ~unsure' => settings' = {}
<1>1. made' = 0 /\ client' = FALSE /\ settings' \in {settings, {}}
  BY DEF Revert, SettingsInv
<1>2. CASE client
  <2>1. unsure' = stuck
    BY <1>2, Zenon DEF Revert
  <2>2. CASE stuck
    BY <1>1, <2>1, <2>2, Zenon
  <2>3. CASE ~stuck
    BY <1>1, <1>2, <2>3 DEF Revert
  <2> QED BY <2>2, <2>3
<1>3. CASE ~client
  BY <1>3 DEF Revert, SettingsInv
<1> QED BY <1>1, <1>2, <1>3

\* Every step keeps SettingsInv.
LEMMA SettingsStep ==
  ASSUME TypeOK, StackInv, SettingsInv, [Next]_vars
  PROVE  SettingsInv'
<1> USE StacksDiffer
<1>0. ResolvedTypeOK
  BY TypeParts
<1>1. CASE Boot \/ Plan \/ CreateDevice \/ SetupDevice \/ TargetsFail \/ Targets
  <2>1. defers \in {D0, D1} /\ pc # "configure"
    BY <1>1 DEF Boot, Plan, CreateDevice, SetupDevice, TargetsFail, Targets, StackInv
  <2>2. UNCHANGED resolvedVars /\ pc' # "configure"
    BY <1>1 DEF Boot, Plan, CreateDevice, SetupDevice, TargetsFail, Targets, Goto,
                DeferAndGoto, ReturnCode
  <2> QED BY <2>1, <2>2, SettingsKept DEF HostDeferred
<1>2. CASE StartDNS
  <2>1. defers = D2 /\ UNCHANGED resolvedVars /\ pc = "dns"
    BY <1>2 DEF StartDNS, StackInv
  <2>2. \/ pc' = "configure" /\ defers' = D3
        \/ pc' = "unwind" /\ defers' = D2
    BY <1>2, <2>1 DEF StartDNS, DeferAndGoto, ReturnCode, D3
  <2>3. CASE pc' = "unwind"
    BY <2>1, <2>2, <2>3, SettingsKept DEF HostDeferred
  <2>4. CASE pc' = "configure"
    <3>1. made' = 0 /\ settings' = settings /\ unsure' = unsure
      BY <2>1 DEF SettingsInv, resolvedVars
    <3>2. ~unsure => settings = {}
      BY <2>1 DEF SettingsInv
    <3>3. 1 .. 0 = {}
      OBVIOUS
    <3> QED BY <2>2, <2>4, <3>1, <3>2, <3>3 DEF SettingsInv, HostDeferred
  <2> QED BY <2>2, <2>3, <2>4
<1>3. CASE ListenControl
  <2>1. defers = D4 /\ defers' \in {D5, D6} /\ UNCHANGED resolvedVars
        /\ pc = "listen" /\ pc' # "configure"
    BY <1>3 DEF ListenControl, StackInv, D5, D6
  <2> QED BY <2>1, SettingsKept DEF HostDeferred
<1>4. CASE Configure
  <2>1. pc = "configure" /\ defers \in {D3, D6} /\ made \in 0 .. 4
    BY <1>0, <1>4 DEF Configure, StackInv, ResolvedTypeOK
  <2>2. /\ settings' = settings \cup {made + 1} /\ made' = (made + 1) % 5
        /\ client' = (made = 4) /\ unsure' = (unsure /\ made # 4)
    BY <1>4 DEF Configure, ConfigureCall
  <2>3. 1 .. made \subseteq settings /\ (~unsure => settings = 1 .. made)
    BY <2>1 DEF SettingsInv
  <2>4. (1 .. made) \cup {made + 1} = 1 .. (made + 1)
    BY <2>1
  <2>5. CASE made < 4
    <3>1. pc' = "configure" /\ defers' = defers
      BY <1>4, <2>5 DEF Configure, Goto
    <3>2. made' = made + 1
      BY <2>1, <2>2, <2>5
    <3>3. unsure' <=> unsure
      <4>1. made # 4
        BY <2>1, <2>5
      <4> QED BY <2>2, <4>1, Zenon
    <3>4. 1 .. made' \subseteq settings' /\ (~unsure' => settings' = 1 .. made')
      BY <2>2, <2>3, <2>4, <3>2, <3>3
    <3> QED BY <2>1, <3>1, <3>4 DEF SettingsInv, HostDeferred
  <2>6. CASE ~(made < 4)
    <3>1. made = 4
      BY <2>1, <2>6
    <3>2. pc' \in {"loop", "listen"} /\ defers' \in {D4, D6}
      BY <1>4, <2>1, <2>6 DEF Configure, Goto, DeferAndGoto, StackInv, D4
    <3>3. made' = 0
      BY <2>2, <3>1
    <3>4. client' /\ ~unsure'
      BY <2>2, <3>1, Zenon
    <3>5. settings' = Calls
      <4>1. settings \subseteq Calls
        BY <1>0 DEF ResolvedTypeOK
      <4>2. 1 .. (made + 1) = Calls
        BY <3>1 DEF Calls
      <4>3. made + 1 \in Calls
        BY <3>1 DEF Calls
      <4> QED BY <2>2, <2>3, <2>4, <4>1, <4>2, <4>3
    <3> QED BY <3>2, <3>3, <3>4, <3>5 DEF SettingsInv, HostDeferred
  <2> QED BY <2>5, <2>6
<1>5. CASE ConfigureError
  <2>1. /\ pc = "configure" /\ defers \in {D3, D6} /\ defers' = defers
        /\ pc' \in {"loop", "unwind"}
    BY <1>5 DEF ConfigureError, Goto, ReturnCode, StackInv
  <2>2. PICK effect \in BOOLEAN, stuck \in BOOLEAN : ConfigureFails(effect, stuck)
    BY <1>5 DEF ConfigureError
  <2>3. made' = 0 /\ ~client'
    BY <2>2 DEF ConfigureFails
  <2>4. ~unsure' => settings' = {}
    <3>1. CASE made = 0
      <4>1. settings' = (IF effect THEN settings \cup {made + 1} ELSE settings)
            /\ unsure' = (unsure \/ (effect /\ 1 \notin settings))
        BY <2>2, <3>1 DEF ConfigureFails
      <4>2. ~unsure => settings = {}
        BY <2>1, <3>1 DEF SettingsInv
      <4>3. ~unsure' => ~unsure /\ (~effect \/ 1 \in settings)
        BY <4>1, Zenon
      <4> QED BY <4>1, <4>2, <4>3
    <3>2. CASE made # 0
      BY <2>2, <3>2 DEF ConfigureFails
    <3> QED BY <3>1, <3>2
  <2> QED BY <2>1, <2>3, <2>4 DEF SettingsInv, HostDeferred
<1>6. CASE RoundRevert
  <2>1. pc = "revert" /\ pc' = "configure" /\ defers = D6 /\ defers' = D6
    BY <1>6 DEF RoundRevert, Goto, StackInv
  <2>2. made' = 0 /\ (~unsure' => settings' = {})
    BY <1>6, <2>1, SettingsReverted DEF RoundRevert
  <2>3. 1 .. 0 = {}
    OBVIOUS
  <2> QED BY <2>1, <2>2, <2>3 DEF SettingsInv, HostDeferred
<1>7. CASE RoundRoutes \/ LoopSignal \/ LoopShutdown \/ LoopChange
  <2>1. /\ UNCHANGED resolvedVars /\ pc # "configure" /\ pc' # "configure" /\ defers' = defers
    BY <1>7 DEF RoundRoutes, LoopSignal, LoopShutdown, LoopChange, Goto, ReturnCode
  <2> QED BY <2>1, SettingsKept DEF HostDeferred
<1>8. CASE UnwindListener
  BY <1>8, SettingsStay DEF UnwindListener, mainVars
<1>9. CASE UnwindControl \/ UnwindStop \/ UnwindSupervisor
  <2>1. UNCHANGED resolvedVars /\ pc = "unwind" /\ pc' = "unwind" /\ defers' = Front(defers)
    BY <1>9 DEF UnwindControl, UnwindStop, UnwindSupervisor, Undefer, NextDefer
  <2>2. defers \in {D1, D5, D6}
    BY <1>9, Unwinds DEF UnwindControl, UnwindStop, UnwindSupervisor
  <2>3. \/ defers = D1 /\ defers' = D0
        \/ defers \in {D5, D6} /\ defers' \in {D4, D5}
    BY <2>1, <2>2, Pops
  <2> QED BY <2>1, <2>3, SettingsKept DEF HostDeferred
<1>10. CASE UnwindDNS
  <2>1. UNCHANGED resolvedVars /\ pc = "unwind" /\ pc' = "unwind" /\ defers = D3 /\ defers' = D2
    BY <1>10, Unwinds, Pops DEF UnwindDNS, Undefer, NextDefer
  <2> QED BY <2>1, SettingsKept DEF HostDeferred
<1>11. CASE UnwindResolved
  <2>1. pc = "unwind" /\ pc' = "unwind" /\ defers = D4 /\ defers' = D3
    BY <1>11, Unwinds, Pops DEF UnwindResolved, Undefer, NextDefer
  <2>2. made' = 0 /\ client' = FALSE /\ (~unsure' => settings' = {})
    BY <1>11, <2>1, SettingsReverted DEF UnwindResolved
  <2> QED BY <2>1, <2>2 DEF SettingsInv, HostDeferred
<1>12. CASE UnwindHost
  BY <1>12, SettingsGone DEF UnwindHost, Undefer, NextDefer
<1>13. CASE Exit
  <2>1. UNCHANGED resolvedVars /\ pc = "unwind" /\ pc' = "off" /\ defers = D0
    BY <1>13 DEF Exit, ProcessGone, D0
  <2> QED BY <2>1, SettingsKept DEF HostDeferred
<1>14. ASSUME NEW u, Dies(u) PROVE SettingsInv'
  BY <1>14, SettingsGone DEF Dies, ProcessGone
<1>15. CASE Crash \/ StopUnit
  <2>1. CASE Crash
    BY <1>14, <2>1 DEF Crash
  <2>2. CASE StopUnit
    BY <1>14, <2>2, SettingsStay DEF StopUnit, mainVars
  <2> QED BY <1>15, <2>1, <2>2
<1>16. CASE StartUnit \/ RestartUnit
  <2>1. pc = "off"
    BY <1>16 DEF StartUnit, RestartUnit, StackInv
  <2> QED BY <1>16, <2>1, SettingsKept DEF StartUnit, RestartUnit, HostDeferred
<1>17. CASE Notify \/ Administer \/ CloseShutdownChannel \/ UNCHANGED vars
  BY <1>17, SettingsStay DEF Notify, Administer, CloseShutdownChannel, ControlStep, vars, mainVars
<1>18. ASSUME NEW c \in Clients, DialControl(c) \/ AcceptControl(c) \/ HandleControl(c)
       PROVE  SettingsInv'
  BY <1>18, SettingsStay DEF DialControl, AcceptControl, HandleControl, ControlStep, mainVars
<1> QED BY <1>1, <1>2, <1>3, <1>4, <1>5, <1>6, <1>7, <1>8, <1>9, <1>10, <1>11, <1>12, <1>13,
           <1>15, <1>16, <1>17, <1>18 DEF Next, Startup, Round, Unwind

-----------------------------------------------------------------------------
\* The control server is undeferred by its Close, once nothing of it runs, or
\* dies with the process.
LEMMA ServerLeaves ==
  ASSUME StackInv, [Next]_vars, defers = D6, defers' # D6
  PROVE  (UnwindControl /\ CloseWaits) \/ ControlDies
<1> USE StacksDiffer
<1>1. ~Startup
  <2>1. ~(Boot \/ Plan \/ CreateDevice \/ SetupDevice \/ TargetsFail \/ Targets)
    BY DEF Boot, Plan, CreateDevice, SetupDevice, TargetsFail, Targets, StackInv
  <2>2. ~(StartDNS \/ ListenControl)
    BY DEF StartDNS, ListenControl, StackInv
  <2> QED BY <2>1, <2>2 DEF Startup
<1>2. ~(RoundRoutes \/ RoundRevert \/ LoopSignal \/ LoopShutdown \/ LoopChange \/ ConfigureError)
  BY DEF RoundRoutes, RoundRevert, LoopSignal, LoopShutdown, LoopChange, ConfigureError,
         Goto, ReturnCode
<1>3. ~Configure
  BY DEF Configure, Goto, DeferAndGoto, StackInv
<1>4. ~(UnwindStop \/ UnwindResolved \/ UnwindDNS \/ UnwindHost \/ UnwindSupervisor)
  BY Unwinds DEF UnwindStop, UnwindResolved, UnwindDNS, UnwindHost, UnwindSupervisor
<1>5. ~(UnwindListener \/ Exit)
  BY Pops DEF UnwindListener, Exit, mainVars
<1>6. ASSUME Crash \/ StopUnit PROVE ControlDies
  BY <1>6 DEF Crash, StopUnit, Dies, mainVars
<1>7. ~(StartUnit \/ RestartUnit \/ Notify \/ Administer \/ CloseShutdownChannel \/ UNCHANGED vars)
  BY DEF StartUnit, RestartUnit, Notify, Administer, CloseShutdownChannel, ControlStep, vars,
         mainVars
<1>8. \A c \in Clients : ~(DialControl(c) \/ AcceptControl(c) \/ HandleControl(c))
  BY DEF DialControl, AcceptControl, HandleControl, ControlStep, mainVars
<1>9. UnwindControl => CloseWaits
  BY DEF UnwindControl
<1> QED BY <1>1, <1>2, <1>3, <1>4, <1>5, <1>6, <1>7, <1>8, <1>9 DEF Next, Round, Unwind

\* Every step keeps connections and handlers inside the life of the server.
LEMMA ServerStep ==
  ASSUME TypeOK, StackInv, StackInv', ServerInv, [Next]_vars
  PROVE  ServerInv'
<1>0. ControlTypeOK /\ IsFiniteSet(Handled) /\ IsFiniteSet(Handled')
  BY TypeParts, TypedStep DEF ServerInv
<1>1. CASE ControlDies
  BY <1>0, <1>1 DEF ControlDies, ServerInv, Handled
<1>2. CASE ~ControlDies /\ UNCHANGED <<socket, listening, conn, slots>>
  <2>1. Handled' = Handled
    BY <1>2 DEF Handled
  <2>2. listening \/ Handled # {} => defers' = D6
    <3> SUFFICES ASSUME listening \/ Handled # {}, defers' # D6 PROVE FALSE
      OBVIOUS
    <3>1. defers = D6
      BY DEF ServerInv
    <3>2. CloseWaits
      BY <1>2, <3>1, ServerLeaves
    <3> QED BY <3>2 DEF CloseWaits
  <2> QED BY <1>0, <1>2, <2>1, <2>2 DEF ServerInv
<1>3. CASE ListenControl /\ Listen /\ pc' = "loop"
  <2>1. defers' = D6
    BY <1>3 DEF StackInv
  <2> QED BY <1>0, <1>3, <2>1 DEF Listen, ServerInv, Handled
<1>4. CASE UnwindListener /\ CloseListener
  <2>1. Handled' = Handled /\ defers' = defers
    BY <1>4 DEF CloseListener, Handled, UnwindListener, mainVars
  <2>2. \A c \in Clients : conn'[c] # "dialed"
    BY <1>4 DEF CloseListener
  <2> QED BY <1>0, <1>4, <2>1, <2>2 DEF CloseListener, ServerInv
<1>5. ASSUME NEW c \in Clients, Dial(c) \/ AcceptLoop(c) \/ Handler(c), UNCHANGED mainVars
      PROVE  ServerInv'
  <2>1. defers' = defers
    BY <1>5 DEF mainVars
  <2>2. CASE Dial(c)
    <3>1. c \notin Handled
      BY <2>2 DEF Dial, Handled
    <3>2. Handled' = Handled
      BY <1>0, <2>2, <3>1, ConnMoves DEF Dial
    <3> QED BY <1>0, <2>1, <2>2, <3>2 DEF Dial, ServerInv
  <2>3. CASE AcceptLoop(c)
    <3>1. listening /\ listening' = listening /\ socket' = socket
      BY <2>3 DEF AcceptLoop, Accept, AcceptFull
    <3> QED BY <1>0, <2>1, <3>1 DEF ServerInv
  <2>4. CASE Handler(c)
    <3>1. c \in Handled /\ listening' = listening /\ socket' = socket
      BY <2>4 DEF Handler, RejectRequest, ReadRequest, ReadRestart, CallReturns, Restart,
                  Respond, HandlerEnds, Handled
    <3>2. \A d \in Clients : conn'[d] = "dialed" => conn[d] = "dialed"
      BY <1>0, <2>4 DEF Handler, RejectRequest, ReadRequest, ReadRestart, CallReturns, Restart,
                  Respond, HandlerEnds, ControlTypeOK
    <3>3. defers = D6
      BY <3>1 DEF ServerInv
    <3> QED BY <1>0, <2>1, <3>1, <3>2, <3>3 DEF ServerInv
  <2> QED BY <1>5, <2>2, <2>3, <2>4
<1> QED BY <1>1, <1>2, <1>3, <1>4, <1>5, ControlSteps
        DEF controlVars, CloseWaits, CloseShutdown

-----------------------------------------------------------------------------
\* A step that leaves the host and the plan alone, and does not enter the places
\* where the routes are to be complete.
LEMMA RoutesKept ==
  ASSUME RoutesInv, UNCHANGED hostVars, want' = want, pc # "routes",
         pc' \in Reconciled => pc \in Reconciled
  PROVE  RoutesInv'
BY DEF RoutesInv, hostVars

\* A step after which the Device and the table are empty, outside the loop.
LEMMA RoutesGone ==
  ASSUME kernel'.routes = {}, dev'.routes = {}, pc' \notin Reconciled
  PROVE  RoutesInv'
BY DEF RoutesInv

\* Every step keeps RoutesInv.
LEMMA RoutesStep ==
  ASSUME TypeOK, StackInv, HostInv, RoutesInv, [Next]_vars
  PROVE  RoutesInv'
<1> USE StacksDiffer DEF Reconciled
<1>0. HostTypeOK /\ want \in Seq(Dests)
  BY TypeParts, WantIsPlan
<1>1. CASE Boot \/ Plan
  <2>1. ~HostDeferred /\ UNCHANGED hostVars /\ pc' \notin Reconciled
    BY <1>1 DEF Boot, Plan, Goto, DeferAndGoto, ReturnCode, StackInv, HostDeferred
  <2> QED BY <2>1, RoutesGone DEF HostInv, hostVars
<1>2. CASE CreateDevice
  <2>1. ~HostDeferred /\ pc' \notin Reconciled
    BY <1>2 DEF CreateDevice, Goto, ReturnCode, StackInv, HostDeferred
  <2>2. CASE CreateTUN
    <3>1. kernel'.routes = kernel.routes /\ dev'.routes = {}
      BY <1>0, <2>2, HostAfter
    <3> QED BY <2>1, <3>1, RoutesGone DEF HostInv
  <2>3. CASE UNCHANGED hostVars
    BY <2>1, <2>3, RoutesGone DEF HostInv, hostVars
  <2> QED BY <1>2, <2>2, <2>3 DEF CreateDevice
<1>3. CASE SetupDevice \/ TargetsFail
  <2>1. ~HostDeferred /\ pc' \notin Reconciled
    BY <1>3 DEF SetupDevice, TargetsFail, Goto, ReturnCode, StackInv, HostDeferred
  <2>2. CASE setup
    <3>1. kernel'.routes = kernel.routes /\ dev' = dev
      BY <1>0, <2>2, HostAfter
    <3> QED BY <2>1, <3>1, RoutesGone DEF HostInv
  <2>3. CASE \E stuck \in BOOLEAN : Close(stuck)
    <3>1. kernel'.routes = {} /\ dev'.routes = {}
      BY <1>0, <2>3, HostAfter
    <3> QED BY <2>1, <3>1, RoutesGone
  <2> QED BY <1>3, <2>2, <2>3 DEF SetupDevice, TargetsFail
<1>4. CASE Targets
  <2>1. /\ AddTargets(kernel.routes, want, FALSE) /\ routeErr' = "none"
        /\ leaks' = leaks /\ want' = want /\ pc' = "dns"
    BY <1>4 DEF Targets, DeferAndGoto
  <2>2. kernel.routes = {}
    BY <1>4 DEF Targets, StackInv, HostInv, HostDeferred
  <2>3. kernel'.routes = kernel.routes \cup dev'.routes /\ dev'.routes = ToSet(want)
    BY <1>0, <2>1, AddTargetsDoes DEF HostTypeOK, Added
  <2> QED BY <2>1, <2>2, <2>3 DEF RoutesInv
<1>5. CASE StartDNS \/ ListenControl \/ Configure \/ ConfigureError \/ RoundRevert
           \/ LoopSignal \/ LoopShutdown
  <2>1. /\ UNCHANGED hostVars /\ want' = want /\ pc \in Reconciled
    BY <1>5 DEF StartDNS, ListenControl, Configure, ConfigureError, RoundRevert, LoopSignal,
                LoopShutdown
  <2> QED BY <2>1, RoutesKept
<1>6. CASE LoopChange
  <2>1. UNCHANGED hostVars /\ pc = "loop" /\ (pc' = "routes" \/ want' = want)
    BY <1>6 DEF LoopChange, Goto
  <2>2. CASE want' = want
    BY <2>1, <2>2, RoutesKept
  <2>3. CASE pc' = "routes"
    BY <2>1, <2>3 DEF RoutesInv, hostVars
  <2> QED BY <2>1, <2>2, <2>3
<1>7. CASE RoundRoutes
  <2>1. pc = "routes" /\ pc' = "revert" /\ want' = want
    BY <1>7 DEF RoundRoutes, Goto
  <2>2. PICK kept \in SUBSET Dests, fault \in BOOLEAN : ReconcileTargets(want, kept, fault)
    BY <1>7 DEF RoundRoutes, TypeOK, HostTypeOK
  <2>3. Added((kernel.routes \ dev.routes) \cup kept, want) /\ leaks' = leaks \cup kept
    BY <1>0, <2>2, ReconcileDoes
  <2>4. (kernel.routes \ dev.routes) \cup kept \subseteq leaks'
    BY <2>3 DEF RoutesInv
  <2> QED BY <2>1, <2>3, <2>4 DEF RoutesInv, Added
<1>8. CASE UnwindListener \/ UnwindControl \/ UnwindStop \/ UnwindResolved \/ UnwindDNS
           \/ UnwindSupervisor
  <2>1. UNCHANGED hostVars /\ want' = want /\ pc = "unwind" /\ pc' = "unwind"
    BY <1>8 DEF UnwindListener, UnwindControl, UnwindStop, UnwindResolved, UnwindDNS,
                UnwindSupervisor, Undefer, NextDefer, mainVars
  <2> QED BY <2>1, RoutesKept
<1>9. CASE UnwindHost
  <2>1. kernel'.routes = {} /\ dev'.routes = {}
    BY <1>0, <1>9, HostAfter DEF UnwindHost
  <2> QED BY <1>9, <2>1, RoutesGone DEF UnwindHost, Undefer, NextDefer
<1>10. CASE Exit
  <2>1. ~HostDeferred /\ UNCHANGED hostVars /\ pc' = "off"
    BY <1>10 DEF Exit, ProcessGone, HostDeferred, D0
  <2> QED BY <2>1, RoutesGone DEF HostInv, hostVars
<1>11. ASSUME NEW u, Dies(u) PROVE RoutesInv'
  <2>1. kernel'.routes = {} /\ dev'.routes = {} /\ pc' = "off"
    BY <1>0, <1>11, HostAfter DEF Dies, ProcessGone
  <2> QED BY <2>1, RoutesGone
<1>12. CASE Crash \/ StopUnit
  <2>1. CASE Crash
    BY <1>11, <2>1 DEF Crash
  <2>2. CASE StopUnit
    BY <1>11, <2>2 DEF StopUnit, mainVars, hostVars, RoutesInv
  <2> QED BY <1>12, <2>1, <2>2
<1>13. CASE StartUnit \/ RestartUnit
  <2>1. pc = "off"
    BY <1>13 DEF StartUnit, RestartUnit, StackInv
  <2> QED BY <1>13, <2>1, RoutesKept DEF StartUnit, RestartUnit
<1>14. CASE Administer
  <2>1. pc = "off" /\ pc' = "off" /\ ~HostDeferred
    BY <1>14 DEF Administer, mainVars, StackInv, HostDeferred
  <2>2. kernel'.routes = kernel.routes /\ dev' = dev
    BY <1>0, <1>14, HostAfter DEF Administer
  <2> QED BY <2>1, <2>2, RoutesGone DEF HostInv
<1>15. CASE Notify \/ CloseShutdownChannel \/ UNCHANGED vars
  BY <1>15 DEF Notify, CloseShutdownChannel, ControlStep, vars, mainVars, hostVars, RoutesInv
<1>16. ASSUME NEW c \in Clients, DialControl(c) \/ AcceptControl(c) \/ HandleControl(c)
       PROVE  RoutesInv'
  BY <1>16 DEF DialControl, AcceptControl, HandleControl, ControlStep, mainVars, hostVars,
               RoutesInv
<1> QED BY <1>1, <1>2, <1>3, <1>4, <1>5, <1>6, <1>7, <1>8, <1>9, <1>10, <1>12, <1>13, <1>14,
           <1>15, <1>16 DEF Next, Startup, Round, Unwind

-----------------------------------------------------------------------------
\* The invariant holds at the beginning: nothing is deferred and nothing is up.
LEMMA InitialDaemon == Init => DaemonInv
<1> SUFFICES ASSUME Init PROVE DaemonInv
  OBVIOUS
<1> USE StacksDiffer DEF Init, HostInit, ResolvedInit, ControlInit
<1>1. ToSet(<<>>) = {} /\ defers = D0
  BY DEF ToSet, D0
<1>2. Handled = {} /\ IsFiniteSet(Handled)
  <2>1. Handled = {}
    BY DEF Handled
  <2> QED BY <2>1, FS_EmptySet
<1>3. HostTypeOK
  <2>1. conflict \in BOOLEAN
    OBVIOUS
  <2> QED BY <2>1 DEF HostTypeOK, CleanKernel, NoDevice
<1>4. ResolvedTypeOK
  <2>1. client \in BOOLEAN /\ unsure \in BOOLEAN
    BY Zenon
  <2>2. settings \in SUBSET Calls /\ made \in 0 .. 4
    OBVIOUS
  <2> QED BY <2>1, <2>2 DEF ResolvedTypeOK
<1>5. ControlTypeOK
  <2>1. socket \in BOOLEAN /\ listening \in BOOLEAN
    BY Zenon
  <2>2. slots = Cardinality(Handled) /\ slots <= Limit
    BY <1>2, FS_EmptySet, LimitAssumption
  <2>3. conn \in [Clients -> {"away", "dialed", "reading", "calling", "restarting", "writing"}]
    OBVIOUS
  <2> QED BY <2>1, <2>2, <2>3 DEF ControlTypeOK
<1>6. {dns, catching, signalled, pending} \subseteq BOOLEAN
  BY Zenon
<1>7. TypeOK
  BY <1>1, <1>3, <1>4, <1>5, <1>6, MaxFaultsAssumption DEF TypeOK
<1>8. StackInv
  BY <1>1 DEF StackInv
<1>9. HostInv
  BY <1>1 DEF HostInv, HostDeferred, CleanKernel, NoDevice
<1>10. SettingsInv
  BY DEF SettingsInv
<1>11. ServerInv
  BY <1>2 DEF ServerInv
<1>12. RoutesInv
  BY <1>1 DEF RoutesInv, Reconciled, CleanKernel, NoDevice
<1> QED BY <1>7, <1>8, <1>9, <1>10, <1>11, <1>12 DEF DaemonInv

\* Every step keeps the invariant.
LEMMA DaemonStep == DaemonInv /\ [Next]_vars => DaemonInv'
<1> SUFFICES ASSUME DaemonInv, [Next]_vars PROVE DaemonInv'
  OBVIOUS
<1>0. TypeOK /\ StackInv /\ HostInv /\ SettingsInv /\ ServerInv /\ RoutesInv
  BY DEF DaemonInv
<1>1. StackInv'
  BY <1>0, StackStep
<1>2. TypeOK'
  BY <1>0, TypedStep DEF ServerInv
<1>3. HostInv' /\ SettingsInv' /\ ServerInv' /\ RoutesInv'
  BY <1>0, <1>1, HostStep, SettingsStep, ServerStep, RoutesStep
<1> QED BY <1>1, <1>2, <1>3 DEF DaemonInv

\* DaemonInv is an invariant of the daemon, its unit and its clients.
THEOREM DaemonSafe == Spec => []DaemonInv
BY InitialDaemon, DaemonStep, PTL DEF Spec

\* Every variable has its type, in particular no more failures, handlers or
\* limiter slots than the bounds allow.
THEOREM DaemonTypes == Spec => []TypeOK
<1>1. DaemonInv => TypeOK
  BY DEF DaemonInv
<1> QED BY <1>1, DaemonSafe, PTL

\* From every return of run the deferred calls take down all that run put up on
\* the host, however many calls failed on the way.
THEOREM ExitLeavesNothing == Spec => []NothingLeftAtExit
<1>1. DaemonInv => NothingLeftAtExit
  <2> SUFFICES ASSUME DaemonInv, pc = "unwind", defers = <<>>
               PROVE  /\ ~kernel.link /\ kernel.routes = {}
                      /\ kernel.rule => Rule \in leaks
                      /\ settings = {}
                      /\ ~dns /\ ~socket /\ ~listening
    BY DEF NothingLeftAtExit
  <2>1. ~HostDeferred /\ defers = D0
    BY StacksDiffer DEF HostDeferred, D0
  <2> QED BY <2>1, StacksDiffer DEF DaemonInv, HostInv, SettingsInv, ServerInv
<1> QED BY <1>1, DaemonSafe, PTL

\* A handler of the control socket runs only before the supervisor and the
\* device are closed.
THEOREM HandlersBeforeComponents == Spec => []HandlersFinishFirst
<1>1. DaemonInv => HandlersFinishFirst
  BY Pops DEF DaemonInv, ServerInv, HandlersFinishFirst
<1> QED BY <1>1, DaemonSafe, PTL

\* When the main loop waits, the routing table follows the last plan.
THEOREM RoutesFollow == Spec => []RoutesFollowTargets
<1>1. DaemonInv => RoutesFollowTargets
  BY DEF DaemonInv, RoutesInv, Reconciled, RoutesFollowTargets
<1> QED BY <1>1, DaemonSafe, PTL

\* systemd-resolved is never told to ask a DNS server that does not listen, and
\* has all of the settings or none when the main loop waits.
THEOREM ResolvedFollows == Spec => []ResolvedInStep
<1>1. DaemonInv => ResolvedInStep
  <2> SUFFICES ASSUME DaemonInv PROVE ResolvedInStep
    OBVIOUS
  <2>1. pc = "configure" => defers \in {D3, D6}
    BY DEF DaemonInv, StackInv
  <2> QED BY <2>1, StacksDiffer
          DEF DaemonInv, HostInv, HostDeferred, SettingsInv, ResolvedInStep
<1> QED BY <1>1, DaemonSafe, PTL

===============================================================================

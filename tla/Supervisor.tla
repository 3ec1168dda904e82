------------------------------ MODULE Supervisor ------------------------------
(***************************************************************************)
(* Profile status: internal/runtime/supervisor.go, with the reconcile      *)
(* loop of cmd/tailscale-multitaild/main.go that consumes its changes.     *)
(*                                                                         *)
(* Each profile has an embedded engine (tsnet, external) and a watch       *)
(* goroutine that follows its notification bus; control handlers log       *)
(* profiles in and out at the same time.  All of them refresh a profile    *)
(* by reading the engine's status and, later, storing what they read: the  *)
(* profile's lock covers only the store.  The main loop is told through a  *)
(* channel of capacity one and then takes its own snapshots, one by one.   *)
(***************************************************************************)
EXTENDS Naturals, Sequences

CONSTANTS
  Profiles,   \* the running profiles
  Handlers,   \* goroutines of the control server
  Ops,        \* which operations they perform: a subset of {"login", "logout"}
  Faults,     \* what may fail: a subset of {"watch", "message", "refresh", "leases", "routes"}
  Targets,    \* the addresses an engine's netmap may list
  Suffix,     \* the MagicDNS suffix of each profile
  MaxBus,     \* bound on the notifications queued on one bus
  MaxFaults   \* bound on the number of failures in a behaviour

ASSUME TasksAssumption == Profiles \cap Handlers = {}

ASSUME OpsAssumption == Ops \subseteq {"login", "logout"}

ASSUME FaultsAssumption == Faults \subseteq {"watch", "message", "refresh", "leases", "routes"}

ASSUME SuffixAssumption == DOMAIN Suffix = Profiles

ASSUME BoundsAssumption == MaxBus \in Nat \ {0} /\ MaxFaults \in Nat

VARIABLES
  engine,    \* tsnet: BackendState and netmap of each profile
  bus,       \* notifications the watch of each profile has not yet taken
  status,    \* profile.status.State
  targets,   \* profile.targets
  raced,     \* history: profiles offering what a refresh stored in the middle of a Logout
  task,      \* the watch goroutine of each profile, and each handler
  changes,   \* a notification waits in Supervisor.changes
  main,      \* the main loop: where it is, and its snapshots
  mux,       \* the targets bound in the mux, by profile
  routes,    \* the targets with a host route, by profile
  up,        \* the daemon has not exited
  faults     \* how many failures there have been

vars == <<engine, bus, status, targets, raced, task, changes, main, mux, routes, up, faults>>

Tasks == Profiles \cup Handlers

LoggedOut == [state |-> "NeedsLogin", netmap |-> {}]

\* A backend that has stopped running may still know its netmap.
EngineStates == [state : {"Running", "NeedsLogin"}, netmap : SUBSET Targets]

\* The targets taken from a status: those of a backend that runs.
Offered(e) == IF e.state = "Running" THEN e.netmap ELSE {}

\* A goroutine: the profile it works on, its next step, the step that follows a
\* refresh or a degrade, and the status that a refresh has read.
Task(p, pc, ret) == [p |-> p, pc |-> pc, ret |-> ret, got |-> LoggedOut]

\* A handler between two requests.
Idle == Task(CHOOSE p \in Profiles : TRUE, "idle", "idle")

NoTargets == [p \in Profiles |-> {}]

\* The main loop between two rounds.
Waiting == [pc |-> "wait", todo |-> {}, running |-> {}, inv |-> NoTargets, leases |-> NoTargets]

\* Start: each profile is refreshed once before its watch starts.
Init ==
  /\ engine \in [Profiles -> EngineStates]
  /\ bus = [p \in Profiles |-> <<>>]
  /\ status = [p \in Profiles |-> engine[p].state]
  /\ targets = [p \in Profiles |-> Offered(engine[p])]
  /\ raced = {}
  /\ task = [t \in Tasks |-> IF t \in Profiles THEN Task(t, "subscribe", "subscribe")
                             ELSE Idle]
  /\ changes = TRUE
  /\ main = Waiting
  /\ mux = NoTargets
  /\ routes = NoTargets
  /\ up = TRUE
  /\ faults = 0

\* A failure of this kind happens.
Fault(kind) ==
  /\ kind \in Faults
  /\ faults < MaxFaults
  /\ faults' = faults + 1

-----------------------------------------------------------------------------
\* The engine (external).

\* The watch of p holds an open bus.
Subscribed(p) == task[p].ret = "next"

\* What p's bus holds after the engine posts a notification.
Post(p, n) ==
  bus' = IF Subscribed(p) THEN [bus EXCEPT ![p] = Append(@, n)] ELSE bus

\* The backend logs in, loses its login, or learns another netmap.
EngineChanges(p) ==
  /\ Len(bus[p]) < MaxBus
  /\ \E e \in EngineStates \ {engine[p]} : engine' = [engine EXCEPT ![p] = e]
  /\ Post(p, "change")
  /\ UNCHANGED <<status, targets, raced, task, changes, main, mux, routes, up, faults>>

\* The backend reports an error message.
EngineReports(p) ==
  /\ Fault("message")
  /\ Subscribed(p)
  /\ Len(bus[p]) < MaxBus
  /\ Post(p, "error")
  /\ UNCHANGED <<engine, status, targets, raced, task, changes, main, mux, routes, up>>

-----------------------------------------------------------------------------
\* refresh and degrade, by any goroutine.

Goto(t, pc) == task' = [task EXCEPT ![t].pc = pc]

\* refresh: lc.Status and lc.GetServices.
RefreshReads(t) ==
  /\ task[t].pc = "refresh"
  /\ task' = [task EXCEPT ![t].pc = "store", ![t].got = engine[task[t].p]]
  /\ UNCHANGED <<engine, bus, status, targets, raced, changes, main, mux, routes, up, faults>>

\* refresh returns an error, which no caller looks at.
RefreshFails(t) ==
  /\ Fault("refresh")
  /\ task[t].pc = "refresh"
  /\ Goto(t, task[t].ret)
  /\ UNCHANGED <<engine, bus, status, targets, raced, changes, main, mux, routes, up>>

\* A Logout of p is between its two critical sections.
InLogout(p) ==
  \E t \in Tasks : /\ task[t].p = p
                   /\ task[t].ret = "needsLogin"
                   /\ task[t].pc \in {"notify", "needsLogin"}

\* setStatusAndTargets, under the profile's lock.
SetStatusAndTargets(t) ==
  /\ task[t].pc = "store"
  /\ status' = [status EXCEPT ![task[t].p] = task[t].got.state]
  /\ targets' = [targets EXCEPT ![task[t].p] = Offered(task[t].got)]
  /\ raced' = IF InLogout(task[t].p) /\ Offered(task[t].got) # {}
              THEN raced \cup {task[t].p} ELSE raced \ {task[t].p}
  /\ task' = [task EXCEPT ![t].pc = "notify", ![t].got = LoggedOut]
  /\ UNCHANGED <<engine, bus, changes, main, mux, routes, up, faults>>

\* Mutant of Degrade: no notification follows.
DegradeSilently(t) ==
  /\ task[t].pc = "degrade"
  /\ status' = [status EXCEPT ![task[t].p] = "Degraded"]
  /\ targets' = [targets EXCEPT ![task[t].p] = {}]
  /\ raced' = raced \ {task[t].p}
  /\ Goto(t, task[t].ret)
  /\ UNCHANGED <<engine, bus, changes, main, mux, routes, up, faults>>

\* degrade, under the profile's lock.
Degrade(t) ==
  /\ task[t].pc = "degrade"
  /\ status' = [status EXCEPT ![task[t].p] = "Degraded"]
  /\ targets' = [targets EXCEPT ![task[t].p] = {}]
  /\ raced' = raced \ {task[t].p}
  /\ Goto(t, "notify")
  /\ UNCHANGED <<engine, bus, changes, main, mux, routes, up, faults>>

\* notify: a send that is skipped when the channel is full.
Notify(t) ==
  /\ task[t].pc = "notify"
  /\ changes' = TRUE
  /\ Goto(t, task[t].ret)
  /\ UNCHANGED <<engine, bus, status, targets, raced, main, mux, routes, up, faults>>

-----------------------------------------------------------------------------
\* watch.

\* Mutant of Subscribe: the initial status is not asked for.
SubscribeWithoutInitial(p) ==
  /\ task[p].pc = "subscribe"
  /\ bus' = [bus EXCEPT ![p] = <<>>]
  /\ task' = [task EXCEPT ![p].pc = "next", ![p].ret = "next"]
  /\ UNCHANGED <<engine, status, targets, raced, changes, main, mux, routes, up, faults>>

\* Mutant of Subscribe: another kind of initial notification is asked for.
SubscribeInitialState(p) ==
  /\ task[p].pc = "subscribe"
  /\ bus' = [bus EXCEPT ![p] = <<"initial state">>]
  /\ task' = [task EXCEPT ![p].pc = "next", ![p].ret = "next"]
  /\ UNCHANGED <<engine, status, targets, raced, changes, main, mux, routes, up, faults>>

\* WatchIPNBus succeeds; its first notification is the initial status.
Subscribe(p) ==
  /\ task[p].pc = "subscribe"
  /\ bus' = [bus EXCEPT ![p] = <<"change">>]
  /\ task' = [task EXCEPT ![p].pc = "next", ![p].ret = "next"]
  /\ UNCHANGED <<engine, status, targets, raced, changes, main, mux, routes, up, faults>>

\* WatchIPNBus or Next fails.
WatchFails(p) ==
  /\ Fault("watch")
  /\ task[p].pc \in {"subscribe", "next"}
  /\ bus' = [bus EXCEPT ![p] = <<>>]
  /\ task' = [task EXCEPT ![p].pc = "degrade", ![p].ret = "backoff"]
  /\ UNCHANGED <<engine, status, targets, raced, changes, main, mux, routes, up>>

\* Next returns a notification: an error message degrades, a change refreshes.
WatchNext(p) ==
  /\ task[p].pc = "next"
  /\ bus[p] # <<>>
  /\ Goto(p, IF Head(bus[p]) = "error" THEN "degrade" ELSE "refresh")
  /\ bus' = [bus EXCEPT ![p] = Tail(@)]
  /\ UNCHANGED <<engine, status, targets, raced, changes, main, mux, routes, up, faults>>

\* The backoff timer fires: refresh, then subscribe again.
Backoff(p) ==
  /\ task[p].pc = "backoff"
  /\ task' = [task EXCEPT ![p].pc = "refresh", ![p].ret = "subscribe"]
  /\ UNCHANGED <<engine, bus, status, targets, raced, changes, main, mux, routes, up, faults>>

-----------------------------------------------------------------------------
\* Control handlers.

\* Login with an auth key: the engine is started and its status polled.
LoginStart(h) ==
  /\ "login" \in Ops
  /\ task[h].pc = "idle"
  /\ \E p \in Profiles : task' = [task EXCEPT ![h] = Task(p, "poll", "idle")]
  /\ UNCHANGED <<engine, bus, status, targets, raced, changes, main, mux, routes, up, faults>>

\* A poll finds the backend running.
LoginPoll(h) ==
  /\ task[h].pc = "poll"
  /\ engine[task[h].p].state = "Running"
  /\ Goto(h, "refresh")
  /\ UNCHANGED <<engine, bus, status, targets, raced, changes, main, mux, routes, up, faults>>

\* The handler's two minutes are over.
LoginTimeout(h) ==
  /\ task[h].pc = "poll"
  /\ task' = [task EXCEPT ![h] = Idle]
  /\ UNCHANGED <<engine, bus, status, targets, raced, changes, main, mux, routes, up, faults>>

\* Mutant of Logout: the targets are left to the watch to withdraw.
LogoutKeepsTargets(h) ==
  /\ "logout" \in Ops
  /\ task[h].pc = "idle"
  /\ \E p \in Profiles, e \in EngineStates :
       /\ e.state = "NeedsLogin"
       /\ Len(bus[p]) < MaxBus
       /\ engine' = [engine EXCEPT ![p] = e]
       /\ Post(p, "change")
       /\ task' = [task EXCEPT ![h] = Task(p, "needsLogin", "needsLogin")]
  /\ UNCHANGED <<status, targets, raced, changes, main, mux, routes, up, faults>>

\* Logout: lc.Logout succeeds, then the profile is degraded.
Logout(h) ==
  /\ "logout" \in Ops
  /\ task[h].pc = "idle"
  /\ \E p \in Profiles, e \in EngineStates :
       /\ e.state = "NeedsLogin"
       /\ Len(bus[p]) < MaxBus
       /\ engine' = [engine EXCEPT ![p] = e]
       /\ Post(p, "change")
       /\ task' = [task EXCEPT ![h] = Task(p, "degrade", "needsLogin")]
  /\ UNCHANGED <<status, targets, raced, changes, main, mux, routes, up, faults>>

\* Logout's last statement, under the lock again and without a notification.
LogoutNeedsLogin(h) ==
  /\ task[h].pc = "needsLogin"
  /\ status' = [status EXCEPT ![task[h].p] = "NeedsLogin"]
  /\ task' = [task EXCEPT ![h] = Idle]
  /\ UNCHANGED <<engine, bus, targets, raced, changes, main, mux, routes, up, faults>>

-----------------------------------------------------------------------------
\* The daemon's main loop.  It reads the profiles one by one, each under its lock, in
\* whatever order they are listed.

\* Main loop m after it has read profile p in the phase it is in; next follows the last.
Visited(m, p, next) ==
  IF m.todo = {p} THEN [m EXCEPT !.pc = next, !.todo = Profiles]
                  ELSE [m EXCEPT !.todo = @ \ {p}]

\* Profile p is read: m notes whether it is running.
NoteRunning(m, p) ==
  [m EXCEPT !.running = IF status[p] = "Running" THEN @ \cup {p} ELSE @]

\* A notification is taken.
TakeChange ==
  /\ up
  /\ main.pc = "wait"
  /\ changes
  /\ changes' = FALSE
  /\ main' = [main EXCEPT !.pc = "validate", !.todo = Profiles]
  /\ UNCHANGED <<engine, bus, status, targets, raced, task, mux, routes, up, faults>>

\* Mutant of Validate: a conflict is not noticed.
ValidateNothing(p) ==
  /\ up
  /\ main.pc = "validate"
  /\ p \in main.todo
  /\ main' = Visited(NoteRunning(main, p), p, "inventory")
  /\ UNCHANGED <<engine, bus, status, targets, raced, task, changes, mux, routes, up, faults>>

\* ValidateDNSSuffixes: a second running profile with one suffix is fatal.
Validate(p) ==
  /\ up
  /\ main.pc = "validate"
  /\ p \in main.todo
  /\ IF status[p] = "Running" /\ \E q \in main.running : Suffix[q] = Suffix[p]
     THEN up' = FALSE /\ UNCHANGED main
     ELSE up' = up /\ main' = Visited(NoteRunning(main, p), p, "inventory")
  /\ UNCHANGED <<engine, bus, status, targets, raced, task, changes, mux, routes, faults>>

TakeInventory(p) ==
  /\ main.pc = "inventory"
  /\ p \in main.todo
  /\ main' = Visited([main EXCEPT !.inv[p] = targets[p], !.running = {}], p, "leases")
  /\ UNCHANGED <<engine, bus, status, targets, raced, task, changes, mux, routes, up, faults>>

\* EffectiveLeases takes an inventory of its own.
TakeLeases(p) ==
  /\ main.pc = "leases"
  /\ p \in main.todo
  /\ main' = Visited([main EXCEPT !.leases[p] = targets[p]], p, "update")
  /\ UNCHANGED <<engine, bus, status, targets, raced, task, changes, mux, routes, up, faults>>

\* EffectiveLeases fails: logged, and the plan stays as it is.
LeasesFail ==
  /\ Fault("leases")
  /\ main.pc = "update"
  /\ main' = Waiting
  /\ UNCHANGED <<engine, bus, status, targets, raced, task, changes, mux, routes, up>>

\* The routes of this round: canonical addresses of the inventory and leases.
RoutePlan == [p \in Profiles |-> main.inv[p] \cup main.leases[p]]

\* ReconcileTargets takes every route away and adds those of the plan.
ReconcileRoutes ==
  /\ main.pc = "update"
  /\ routes' = RoutePlan
  /\ main' = [main EXCEPT !.pc = "profiles"]
  /\ UNCHANGED <<engine, bus, status, targets, raced, task, changes, mux, up, faults>>

\* Adding a route fails and leaves out those that follow: logged, and the round
\* goes on.
RoutesFail ==
  /\ Fault("routes")
  /\ main.pc = "update"
  /\ routes' \in [Profiles -> SUBSET Targets] \ {RoutePlan}
  /\ \A p \in Profiles : routes'[p] \subseteq RoutePlan[p]
  /\ main' = [main EXCEPT !.pc = "profiles"]
  /\ UNCHANGED <<engine, bus, status, targets, raced, task, changes, mux, up>>

DatapathProfiles(p) ==
  /\ main.pc = "profiles"
  /\ p \in main.todo
  /\ main' = Visited(NoteRunning(main, p), p, "mux")
  /\ UNCHANGED <<engine, bus, status, targets, raced, task, changes, mux, routes, up, faults>>

\* Mutant of UpdateMux: the leased targets are taken from the profiles once more.
UpdateMuxLater ==
  /\ main.pc = "mux"
  /\ mux' = [p \in Profiles |-> IF p \in main.running THEN targets[p] ELSE {}]
  /\ main' = Waiting
  /\ UNCHANGED <<engine, bus, status, targets, raced, task, changes, routes, up, faults>>

\* mux.Update, with the profiles just found running; then DNS.
UpdateMux ==
  /\ main.pc = "mux"
  /\ mux' = [p \in Profiles |-> IF p \in main.running THEN main.inv[p] \cap main.leases[p] ELSE {}]
  /\ main' = Waiting
  /\ UNCHANGED <<engine, bus, status, targets, raced, task, changes, routes, up, faults>>

-----------------------------------------------------------------------------

refresh(t) == RefreshReads(t) \/ RefreshFails(t) \/ SetStatusAndTargets(t)

watch(p) ==
  \/ Subscribe(p) \/ WatchFails(p) \/ WatchNext(p) \/ Backoff(p)
  \/ refresh(p) \/ Degrade(p) \/ Notify(p)

handle(h) ==
  \/ LoginStart(h) \/ LoginPoll(h) \/ LoginTimeout(h)
  \/ Logout(h) \/ LogoutNeedsLogin(h)
  \/ refresh(h) \/ Degrade(h) \/ Notify(h)

\* One of the four passes over the profiles.
ReadProfile(p) == Validate(p) \/ TakeInventory(p) \/ TakeLeases(p) \/ DatapathProfiles(p)

reconcile ==
  \/ TakeChange \/ LeasesFail \/ ReconcileRoutes \/ RoutesFail \/ UpdateMux
  \/ \E p \in Profiles : ReadProfile(p)

Next ==
  \/ \E p \in Profiles : EngineChanges(p) \/ EngineReports(p) \/ watch(p)
  \/ \E h \in Handlers : handle(h)
  \/ reconcile

Spec == Init /\ [][Next]_vars

\* A step of t that finishes what t has begun, and not a failure.
Progress(t) ==
  \/ RefreshReads(t) \/ SetStatusAndTargets(t) \/ Degrade(t) \/ Notify(t)
  \/ t \in Profiles /\ (Subscribe(t) \/ WatchNext(t) \/ Backoff(t))
  \/ t \in Handlers /\ (LoginPoll(t) \/ LoginTimeout(t) \/ LogoutNeedsLogin(t))

\* Every goroutine that can go on is scheduled.
FairSpec ==
  /\ Spec
  /\ \A t \in Tasks : WF_vars(Progress(t))
  /\ WF_vars(\/ TakeChange \/ ReconcileRoutes \/ UpdateMux
             \/ \E p \in Profiles : ReadProfile(p))

-----------------------------------------------------------------------------
\* Properties.

Steps == {"subscribe", "next", "backoff", "refresh", "store", "degrade", "notify",
          "idle", "poll", "needsLogin"}

\* Every variable has its type.
TypeOK ==
  /\ engine \in [Profiles -> EngineStates]
  /\ bus \in [Profiles -> Seq({"change", "error"})]
  /\ status \in [Profiles -> {"Running", "NeedsLogin", "Degraded"}]
  /\ targets \in [Profiles -> SUBSET Targets]
  /\ raced \in SUBSET Profiles
  /\ task \in [Tasks -> [p : Profiles, pc : Steps, ret : Steps, got : EngineStates]]
  /\ changes \in BOOLEAN
  /\ main \in [pc : {"wait", "validate", "inventory", "leases", "update", "profiles", "mux"},
               todo : SUBSET Profiles, running : SUBSET Profiles,
               inv : [Profiles -> SUBSET Targets], leases : [Profiles -> SUBSET Targets]]
  /\ mux \in [Profiles -> SUBSET Targets]
  /\ routes \in [Profiles -> SUBSET Targets]
  /\ up \in BOOLEAN
  /\ faults \in 0 .. MaxFaults

\* No change is on its way to the main loop.
Settled == ~changes /\ \A t \in Tasks : task[t].pc # "notify"

\* When the main loop waits, and nobody stands between a change and its notification,
\* what the profiles offer is routed, nothing else is bound in the mux, and of a running
\* profile everything is: coalesced notifications, a second critical section of Logout
\* that notifies nobody, and the separate passes of one round lose no change.
NoChangeIsLost ==
  main.pc = "wait" /\ Settled /\ up =>
    /\ routes = targets
    /\ \A p \in Profiles : /\ mux[p] \subseteq targets[p]
                           /\ status[p] = "Running" => mux[p] = targets[p]

\* Whoever logs in or out during a round, and whatever fails but the routes
\* themselves, at its end every target that the mux translates for has a host route:
\* routes and mux are computed from the same snapshots.
BoundIsRouted ==
  main.pc \notin {"profiles", "mux"} => \A p \in Profiles : mux[p] \subseteq routes[p]

\* A profile that is not running offers no targets, however the goroutines that store
\* its status interleave, unless a refresh stored targets between the two critical
\* sections of a Logout and nobody has stored since: that is the only race that does it.
OfferedUnlessRaced ==
  \A p \in Profiles : status[p] # "Running" /\ p \notin raced => targets[p] = {}

\* If an engine stays as it is, the daemon ends up with that state: a profile that runs
\* has its netmap in the mux, another one nothing, through lost watches and backoffs.
FollowsEngine ==
  \A p \in Profiles : \A e \in EngineStates :
    <>[](up /\ engine[p] = e)
      => <>[](status[p] = e.state /\ targets[p] = Offered(e) /\ mux[p] = Offered(e))

\* ValidateDNSSuffixes would find two running profiles with one suffix.
Ambiguous ==
  \E p, q \in Profiles : /\ p # q
                         /\ Suffix[p] = Suffix[q]
                         /\ status[p] = "Running" /\ status[q] = "Running"

\* Two profiles that stay running with the same MagicDNS suffix stop the daemon.
AmbiguityIsFatal ==
  ~<>[](up /\ Ambiguous)
===============================================================================

--------------------------- MODULE SupervisorProofs ---------------------------
(***************************************************************************)
(* The supervisor and the main loop, for any number of profiles and        *)
(* handlers, any netmaps and any failures of watches and refreshes.        *)
(*                                                                         *)
(* A change is stored first and notified afterwards, and the main loop     *)
(* empties the channel before it looks.  So from the moment the channel is *)
(* empty and nobody is about to notify, the profiles' targets are as every *)
(* snapshot taken in this round saw them.  This needs that no lease        *)
(* computation and no route fails, for the main loop then drops the        *)
(* change.                                                                 *)
(*                                                                         *)
(* The status is another matter: Logout writes it once more, after its     *)
(* notification.  The history variable raced names the profiles for which  *)
(* a refresh has stored targets in between, and OfferedUnlessRaced says    *)
(* that this is the only way to offer targets without running.             *)
(* BoundIsRouted needs only that routes can be added.                      *)
(***************************************************************************)
EXTENDS Supervisor, TLAPS

\* What NoChangeIsLost says of a settled state.
Served ==
  /\ routes = targets
  /\ \A p \in Profiles : /\ mux[p] \subseteq targets[p]
                         /\ status[p] = "Running" => mux[p] = targets[p]

\* The steps of Logout: degrade, notify, and the second critical section.
LogoutPath ==
  \A t \in Tasks :
    /\ task[t].ret = "needsLogin" => task[t].pc \in {"degrade", "notify", "needsLogin"}
    /\ task[t].pc = "needsLogin" => task[t].ret = "needsLogin"

\* Whoever is not running offers nothing, nor does who is being logged out, but for
\* the raced ones.
OfferInv ==
  /\ TypeOK
  /\ LogoutPath
  /\ OfferedUnlessRaced
  /\ \A p \in Profiles : InLogout(p) /\ p \notin raced => targets[p] = {}

\* The passes of this round that have come to profile p.
InventoryRead(p) ==
  \/ main.pc \in {"leases", "update", "profiles", "mux"}
  \/ main.pc = "inventory" /\ p \notin main.todo

LeasesRead(p) ==
  \/ main.pc \in {"update", "profiles", "mux"}
  \/ main.pc = "leases" /\ p \notin main.todo

StatusRead(p) ==
  \/ main.pc = "mux"
  \/ main.pc = "profiles" /\ p \notin main.todo

\* What the main loop has seen of p in this round is still so.
Seen(p) ==
  /\ InventoryRead(p) => main.inv[p] = targets[p]
  /\ LeasesRead(p) => main.leases[p] = targets[p]
  /\ StatusRead(p) /\ status[p] = "Running" => p \in main.running

\* What the main loop has seen and done in this round is still so.
UpToDate ==
  /\ main.pc = "update" => main.todo = Profiles
  /\ Settled /\ up =>
       /\ \A p \in Profiles : Seen(p)
       /\ main.pc \in {"profiles", "mux"} => routes = targets
       /\ main.pc = "wait" => Served

SettledInv == TypeOK /\ UpToDate

\* What the theorems assume of the failures.
Quiet == "leases" \notin Faults /\ "routes" \notin Faults

\* Routes and mux are computed from the same snapshots.
RoutedInv ==
  /\ main.pc \in {"profiles", "mux"} => routes = RoutePlan
  /\ BoundIsRouted

TaskStates == [p : Profiles, pc : Steps, ret : Steps, got : EngineStates]

MainSteps == {"wait", "validate", "inventory", "leases", "update", "profiles", "mux"}

MainStates == [pc : MainSteps, todo : SUBSET Profiles, running : SUBSET Profiles,
               inv : [Profiles -> SUBSET Targets], leases : [Profiles -> SUBSET Targets]]

\* What a status read from an engine looks like.
LEMMA EngineFacts ==
  /\ LoggedOut \in EngineStates
  /\ \A e \in EngineStates : /\ e.state \in {"Running", "NeedsLogin"}
                             /\ Offered(e) \in SUBSET Targets
                             /\ e.state # "Running" => Offered(e) = {}
BY DEF EngineStates, LoggedOut, Offered

\* The main loop between two rounds, and after it has read a profile.
LEMMA WaitingTyped == Waiting \in MainStates /\ Waiting.pc = "wait"
BY DEF Waiting, MainStates, MainSteps, NoTargets

LEMMA VisitedFacts ==
  ASSUME NEW m \in MainStates, NEW p \in Profiles, NEW next \in MainSteps
  PROVE  /\ Visited(m, p, next) \in MainStates
         /\ Visited(m, p, next).inv = m.inv
         /\ Visited(m, p, next).leases = m.leases
         /\ Visited(m, p, next).running = m.running
         /\ m.todo = {p} => /\ Visited(m, p, next).pc = next
                            /\ Visited(m, p, next).todo = Profiles
         /\ m.todo # {p} => /\ Visited(m, p, next).pc = m.pc
                            /\ Visited(m, p, next).todo = m.todo \ {p}
BY DEF Visited, MainStates

LEMMA NotedFacts ==
  ASSUME NEW m \in MainStates, NEW p \in Profiles
  PROVE  /\ NoteRunning(m, p) \in MainStates
         /\ NoteRunning(m, p).pc = m.pc /\ NoteRunning(m, p).todo = m.todo
         /\ NoteRunning(m, p).inv = m.inv /\ NoteRunning(m, p).leases = m.leases
         /\ m.running \subseteq NoteRunning(m, p).running
         /\ status[p] = "Running" => p \in NoteRunning(m, p).running
BY DEF NoteRunning, MainStates

\* The program starts with a notification in the channel.
LEMMA InitSettled ==
  ASSUME Init, Profiles # {}
  PROVE  SettledInv
<1>1. (CHOOSE p \in Profiles : TRUE) \in Profiles
  OBVIOUS
<1>2. task \in [Tasks -> TaskStates]
  BY <1>1, EngineFacts DEF Init, Idle, Task, Tasks, TaskStates, Steps
<1>3. /\ engine \in [Profiles -> EngineStates]
      /\ status \in [Profiles -> {"Running", "NeedsLogin", "Degraded"}]
      /\ targets \in [Profiles -> SUBSET Targets]
  BY EngineFacts DEF Init
<1>6. raced \in SUBSET Profiles
  BY DEF Init
<1>4. bus \in [Profiles -> Seq({"change", "error"})]
  <2>1. <<>> \in Seq({"change", "error"})
    OBVIOUS
  <2> HIDE DEF Init
  <2>2. bus = [p \in Profiles |-> <<>>]
    BY DEF Init
  <2> QED BY <2>1, <2>2, Zenon
<1>5. TypeOK
  <2>1. NoTargets \in [Profiles -> SUBSET Targets]
    BY DEF NoTargets
  <2>2. main \in MainStates
    BY WaitingTyped, Zenon DEF Init
  <2>3. mux \in [Profiles -> SUBSET Targets] /\ routes \in [Profiles -> SUBSET Targets]
    BY <2>1 DEF Init
  <2>4. faults \in 0 .. MaxFaults
    <3>1. 0 \in 0 .. MaxFaults
      BY BoundsAssumption
    <3>2. faults = 0
      BY Zenon DEF Init
    <3> QED BY <3>1, <3>2, Zenon
  <2>5. changes \in BOOLEAN /\ up \in BOOLEAN
    BY Zenon DEF Init
  <2> QED BY <1>2, <1>3, <1>4, <1>6, <2>2, <2>3, <2>4, <2>5 DEF TypeOK, TaskStates, MainStates, MainSteps
<1>7. main.pc = "wait" /\ changes
  BY WaitingTyped, Zenon DEF Init
<1> QED BY <1>5, <1>7 DEF SettledInv, UpToDate, Settled

\* A goroutine's record after the updates that the actions make.
LEMMA TaskPc ==
  ASSUME NEW f \in [Tasks -> TaskStates], NEW t \in Tasks, NEW pc \in Steps
  PROVE  [f EXCEPT ![t].pc = pc] \in [Tasks -> TaskStates]
<1> DEFINE new == [f[t] EXCEPT !.pc = pc]
<1>1. new \in TaskStates
  BY DEF TaskStates
<1>2. [f EXCEPT ![t].pc = pc] = [f EXCEPT ![t] = new]
  OBVIOUS
<1> HIDE DEF new
<1> QED BY <1>1, <1>2

LEMMA TaskPcRet ==
  ASSUME NEW f \in [Tasks -> TaskStates], NEW t \in Tasks,
         NEW pc \in Steps, NEW ret \in Steps
  PROVE  [f EXCEPT ![t].pc = pc, ![t].ret = ret] \in [Tasks -> TaskStates]
<1> DEFINE new == [f[t] EXCEPT !.pc = pc, !.ret = ret]
<1>1. new \in TaskStates
  BY DEF TaskStates
<1>2. [f EXCEPT ![t].pc = pc, ![t].ret = ret] = [f EXCEPT ![t] = new]
  OBVIOUS
<1> HIDE DEF new
<1> QED BY <1>1, <1>2

LEMMA TaskPcGot ==
  ASSUME NEW f \in [Tasks -> TaskStates], NEW t \in Tasks,
         NEW pc \in Steps, NEW got \in EngineStates
  PROVE  [f EXCEPT ![t].pc = pc, ![t].got = got] \in [Tasks -> TaskStates]
<1> DEFINE new == [f[t] EXCEPT !.pc = pc, !.got = got]
<1>1. new \in TaskStates
  BY DEF TaskStates
<1>2. [f EXCEPT ![t].pc = pc, ![t].got = got] = [f EXCEPT ![t] = new]
  OBVIOUS
<1> HIDE DEF new
<1> QED BY <1>1, <1>2

LEMMA IdleTyped ==
  ASSUME TypeOK, NEW t \in Tasks
  PROVE  Idle \in TaskStates
<1>1. task[t].p \in Profiles
  BY DEF TypeOK
<1>2. (CHOOSE p \in Profiles : TRUE) \in Profiles
  BY <1>1
<1> QED BY <1>2, EngineFacts DEF Idle, Task, TaskStates, Steps

\* Types: every step of every goroutine.
LEMMA StepTyped ==
  ASSUME TypeOK, Next
  PROVE  TypeOK'
<1>0. task \in [Tasks -> TaskStates]
  BY DEF TypeOK, TaskStates
<1>1. ASSUME NEW p \in Profiles, EngineChanges(p) PROVE TypeOK'
  <2>1. bus' \in [Profiles -> Seq({"change", "error"})]
    BY <1>1 DEF EngineChanges, Post, TypeOK
  <2>2. engine' \in [Profiles -> EngineStates]
    <3>1. PICK e \in EngineStates : engine' = [engine EXCEPT ![p] = e]
      BY <1>1 DEF EngineChanges
    <3> QED BY <3>1 DEF TypeOK
  <2> QED BY <1>1, <2>1, <2>2 DEF EngineChanges, TypeOK
<1>2. ASSUME NEW p \in Profiles, EngineReports(p) PROVE TypeOK'
  <2>1. bus' \in [Profiles -> Seq({"change", "error"})]
    BY <1>2 DEF EngineReports, Post, TypeOK
  <2>2. faults' \in 0 .. MaxFaults
    BY <1>2, BoundsAssumption DEF EngineReports, Fault, TypeOK
  <2> QED BY <1>2, <2>1, <2>2 DEF EngineReports, TypeOK
<1>3. ASSUME NEW t \in Tasks, refresh(t) \/ Degrade(t) \/ Notify(t) PROVE TypeOK'
  <2>0. task[t].p \in Profiles /\ task[t].ret \in Steps /\ task[t].got \in EngineStates
    BY DEF TypeOK
  <2>1. CASE RefreshReads(t)
    <3>1. task' \in [Tasks -> TaskStates]
      <4>1. engine[task[t].p] \in EngineStates
        BY <2>0 DEF TypeOK
      <4>2. task' = [task EXCEPT ![t].pc = "store", ![t].got = engine[task[t].p]]
        BY <2>1 DEF RefreshReads
      <4>3. "store" \in Steps
        BY DEF Steps
      <4> QED BY <1>0, <4>1, <4>2, <4>3, TaskPcGot
    <3> QED BY <2>1, <3>1 DEF RefreshReads, TypeOK, TaskStates
  <2>2. CASE RefreshFails(t)
    <3>1. task' \in [Tasks -> TaskStates]
      BY <1>0, <2>0, <2>2, TaskPc DEF RefreshFails, Goto
    <3>2. faults' \in 0 .. MaxFaults
      BY <2>2, BoundsAssumption DEF RefreshFails, Fault, TypeOK
    <3> QED BY <2>2, <3>1, <3>2 DEF RefreshFails, TypeOK, TaskStates
  <2>3. CASE SetStatusAndTargets(t)
    <3>1. task' \in [Tasks -> TaskStates]
      BY <1>0, <2>3, EngineFacts, TaskPcGot DEF SetStatusAndTargets, Steps
    <3>2. /\ status' \in [Profiles -> {"Running", "NeedsLogin", "Degraded"}]
          /\ targets' \in [Profiles -> SUBSET Targets]
          /\ raced' \in SUBSET Profiles
      BY <2>0, <2>3, EngineFacts DEF SetStatusAndTargets, TypeOK
    <3> QED BY <2>3, <3>1, <3>2 DEF SetStatusAndTargets, TypeOK, TaskStates
  <2>4. CASE Degrade(t)
    <3>1. task' \in [Tasks -> TaskStates]
      BY <1>0, <2>4, TaskPc DEF Degrade, Goto, Steps
    <3> QED BY <2>0, <2>4, <3>1 DEF Degrade, TypeOK, TaskStates
  <2>5. CASE Notify(t)
    <3>1. task' \in [Tasks -> TaskStates]
      BY <1>0, <2>0, <2>5, TaskPc DEF Notify, Goto
    <3> QED BY <2>5, <3>1 DEF Notify, TypeOK, TaskStates
  <2> QED BY <1>3, <2>1, <2>2, <2>3, <2>4, <2>5 DEF refresh
<1>4. ASSUME NEW p \in Profiles,
             Subscribe(p) \/ WatchFails(p) \/ WatchNext(p) \/ Backoff(p)
      PROVE  TypeOK'
  <2>0. p \in Tasks
    BY DEF Tasks
  <2>1. CASE Subscribe(p)
    <3>1. task' \in [Tasks -> TaskStates]
      BY <1>0, <2>0, <2>1, TaskPcRet DEF Subscribe, Steps
    <3>2. bus' \in [Profiles -> Seq({"change", "error"})]
      BY <2>1 DEF Subscribe, TypeOK
    <3> QED BY <2>1, <3>1, <3>2 DEF Subscribe, TypeOK, TaskStates
  <2>2. CASE WatchFails(p)
    <3>1. task' \in [Tasks -> TaskStates]
      BY <1>0, <2>0, <2>2, TaskPcRet DEF WatchFails, Steps
    <3>2. bus' \in [Profiles -> Seq({"change", "error"})]
      BY <2>2 DEF WatchFails, TypeOK
    <3>3. faults' \in 0 .. MaxFaults
      BY <2>2, BoundsAssumption DEF WatchFails, Fault, TypeOK
    <3> QED BY <2>2, <3>1, <3>2, <3>3 DEF WatchFails, TypeOK, TaskStates
  <2>3. CASE WatchNext(p)
    <3>1. task' \in [Tasks -> TaskStates]
      <4>1. PICK pc \in Steps : task' = [task EXCEPT ![p].pc = pc]
        BY <2>3 DEF WatchNext, Goto, Steps
      <4> QED BY <1>0, <2>0, <4>1, TaskPc
    <3>2. bus' \in [Profiles -> Seq({"change", "error"})]
      BY <2>3 DEF WatchNext, TypeOK
    <3> QED BY <2>3, <3>1, <3>2 DEF WatchNext, TypeOK, TaskStates
  <2>4. CASE Backoff(p)
    <3>1. task' \in [Tasks -> TaskStates]
      BY <1>0, <2>0, <2>4, TaskPcRet DEF Backoff, Steps
    <3> QED BY <2>4, <3>1 DEF Backoff, TypeOK, TaskStates
  <2> QED BY <1>4, <2>1, <2>2, <2>3, <2>4
<1>5. ASSUME NEW h \in Handlers,
             LoginStart(h) \/ LoginPoll(h) \/ LoginTimeout(h)
      PROVE  TypeOK'
  <2>0. h \in Tasks
    BY DEF Tasks
  <2>1. task' \in [Tasks -> TaskStates]
    <3>1. CASE LoginStart(h)
      <4>1. PICK p \in Profiles : task' = [task EXCEPT ![h] = Task(p, "poll", "idle")]
        BY <3>1 DEF LoginStart
      <4>2. Task(p, "poll", "idle") \in TaskStates
        BY EngineFacts DEF Task, TaskStates, Steps
      <4> QED BY <1>0, <2>0, <4>1, <4>2
    <3>2. CASE LoginPoll(h)
      <4>1. PICK pc \in Steps : task' = [task EXCEPT ![h].pc = pc]
        BY <3>2 DEF LoginPoll, Goto, Steps
      <4> QED BY <1>0, <2>0, <4>1, TaskPc
    <3>3. CASE LoginTimeout(h)
      BY <1>0, <2>0, <3>3, IdleTyped DEF LoginTimeout
    <3> QED BY <1>5, <3>1, <3>2, <3>3
  <2> QED BY <1>5, <2>1 DEF LoginStart, LoginPoll, LoginTimeout, TypeOK, TaskStates
<1>6. ASSUME NEW h \in Handlers, Logout(h) PROVE TypeOK'
  <2>1. PICK p \in Profiles, e \in EngineStates :
          /\ engine' = [engine EXCEPT ![p] = e]
          /\ Post(p, "change")
          /\ task' = [task EXCEPT ![h] = Task(p, "degrade", "needsLogin")]
    BY <1>6 DEF Logout
  <2>2. Task(p, "degrade", "needsLogin") \in TaskStates
    BY EngineFacts DEF Task, TaskStates, Steps
  <2>3. task' \in [Tasks -> TaskStates]
    BY <1>0, <2>1, <2>2 DEF Tasks
  <2>4. bus' \in [Profiles -> Seq({"change", "error"})]
    BY <2>1 DEF Post, TypeOK
  <2>5. engine' \in [Profiles -> EngineStates]
    BY <2>1, EngineFacts DEF TypeOK
  <2> QED BY <1>6, <2>3, <2>4, <2>5 DEF Logout, TypeOK, TaskStates
<1>7. ASSUME NEW h \in Handlers, LogoutNeedsLogin(h) PROVE TypeOK'
  <2>0. h \in Tasks
    BY DEF Tasks
  <2>1. task' \in [Tasks -> TaskStates] /\ task[h].p \in Profiles
    BY <1>0, <1>7, <2>0, IdleTyped DEF LogoutNeedsLogin, TaskStates
  <2> QED BY <1>7, <2>1 DEF LogoutNeedsLogin, TypeOK, TaskStates
<1>8. CASE TakeChange
  <2>1. main' \in MainStates /\ changes' \in BOOLEAN
    BY <1>8 DEF TakeChange, TypeOK, MainStates, MainSteps
  <2> QED BY <1>8, <2>1 DEF TakeChange, TypeOK, MainStates, MainSteps
<1>15. main \in MainStates /\ targets \in [Profiles -> SUBSET Targets]
  BY DEF TypeOK, MainStates, MainSteps
<1>16. ASSUME NEW p \in Profiles, Validate(p) PROVE TypeOK'
  <2>1. Visited(NoteRunning(main, p), p, "inventory") \in MainStates
    BY <1>15, NotedFacts, VisitedFacts DEF MainSteps
  <2>2. main' \in MainStates /\ up' \in BOOLEAN
    BY <1>15, <1>16, <2>1, Zenon DEF Validate, TypeOK
  <2> QED BY <1>16, <2>2 DEF Validate, TypeOK, MainStates, MainSteps
<1>9. ASSUME NEW p \in Profiles, TakeInventory(p) \/ TakeLeases(p) \/ DatapathProfiles(p)
      PROVE  TypeOK'
  <2>1. main' \in MainStates
    <3>1. CASE TakeInventory(p)
      <4>1. [main EXCEPT !.inv[p] = targets[p], !.running = {}] \in MainStates
        BY <1>15 DEF MainStates
      <4> QED BY <3>1, <4>1, VisitedFacts DEF TakeInventory, MainSteps
    <3>2. CASE TakeLeases(p)
      <4>1. [main EXCEPT !.leases[p] = targets[p]] \in MainStates
        BY <1>15 DEF MainStates
      <4> QED BY <3>2, <4>1, VisitedFacts DEF TakeLeases, MainSteps
    <3>3. CASE DatapathProfiles(p)
      BY <1>15, <3>3, NotedFacts, VisitedFacts DEF DatapathProfiles, MainSteps
    <3> QED BY <1>9, <3>1, <3>2, <3>3
  <2> QED BY <1>9, <2>1 DEF TakeInventory, TakeLeases, DatapathProfiles, TypeOK, MainStates,
             MainSteps
<1>10. CASE LeasesFail
  <2>1. faults' \in 0 .. MaxFaults
    BY <1>10, BoundsAssumption DEF LeasesFail, Fault, TypeOK
  <2>2. main' \in MainStates
    BY <1>10, WaitingTyped DEF LeasesFail
  <2> QED BY <1>10, <2>1, <2>2 DEF LeasesFail, TypeOK, MainStates, MainSteps
<1>11. CASE ReconcileRoutes \/ RoutesFail
  <2>2. main' \in MainStates
    BY <1>11, <1>15 DEF ReconcileRoutes, RoutesFail, MainStates, MainSteps
  <2>3. routes' \in [Profiles -> SUBSET Targets]
    BY <1>11, <1>15 DEF ReconcileRoutes, RoutesFail, RoutePlan, MainStates
  <2>4. faults' \in 0 .. MaxFaults
    BY <1>11, BoundsAssumption DEF ReconcileRoutes, RoutesFail, Fault, TypeOK
  <2> QED BY <1>11, <2>2, <2>3, <2>4
          DEF ReconcileRoutes, RoutesFail, MainStates, MainSteps, TypeOK
<1>12. CASE UpdateMux
  <2>1. mux' \in [Profiles -> SUBSET Targets]
    BY <1>12 DEF UpdateMux, TypeOK
  <2>2. main' \in MainStates
    BY <1>12, WaitingTyped DEF UpdateMux
  <2> QED BY <1>12, <2>1, <2>2 DEF UpdateMux, TypeOK, MainStates, MainSteps
<1>14. \A p \in Profiles : p \in Tasks
  BY DEF Tasks
<1>13. \A h \in Handlers : h \in Tasks
  BY DEF Tasks
<1> QED
  BY <1>1, <1>2, <1>3, <1>4, <1>5, <1>6, <1>7, <1>8, <1>9, <1>10, <1>11, <1>12, <1>13,
     <1>14, <1>16 DEF Next, watch, handle, reconcile, ReadProfile

\* A step that leaves the profiles and the main loop alone, and takes nobody away
\* from its notification, keeps the main loop up to date.
LEMMA Aside ==
  ASSUME UpToDate,
         UNCHANGED <<status, targets, changes, main, mux, routes, up>>,
         \A t \in Tasks : task[t].pc = "notify" => task'[t].pc = "notify"
  PROVE  UpToDate'
<1>1. Settled' => Settled
  BY DEF Settled
<1>2. Served => Served'
  BY DEF Served
<1>3. \A p \in Profiles : Seen(p) => Seen(p)'
  BY DEF Seen, InventoryRead, LeasesRead, StatusRead
<1> QED BY <1>1, <1>2, <1>3 DEF UpToDate

\* Every step keeps the main loop up to date.
LEMMA StepUpToDate ==
  ASSUME TypeOK, UpToDate, Quiet, Next
  PROVE  UpToDate'
<1>0. task \in [Tasks -> TaskStates] /\ main \in MainStates
  BY DEF TypeOK, TaskStates, MainStates, MainSteps
<1>1. CASE \E p \in Profiles : EngineChanges(p) \/ EngineReports(p)
  BY <1>1, Aside DEF EngineChanges, EngineReports
<1>2. ASSUME NEW t \in Tasks, refresh(t) PROVE UpToDate'
  <2>1. CASE RefreshReads(t)
    <3>1. \A u \in Tasks : task[u].pc = "notify" => task'[u].pc = "notify"
      BY <1>0, <2>1 DEF RefreshReads, TaskStates
    <3> QED BY <2>1, <3>1, Aside DEF RefreshReads
  <2>2. CASE RefreshFails(t)
    <3>1. \A u \in Tasks : task[u].pc = "notify" => task'[u].pc = "notify"
      BY <1>0, <2>2 DEF RefreshFails, Goto, TaskStates
    <3> QED BY <2>2, <3>1, Aside DEF RefreshFails
  <2>3. CASE SetStatusAndTargets(t)
    <3>1. task'[t].pc = "notify"
      BY <1>0, <2>3 DEF SetStatusAndTargets, TaskStates
    <3> QED BY <2>3, <3>1 DEF SetStatusAndTargets, UpToDate, Settled
  <2> QED BY <1>2, <2>1, <2>2, <2>3 DEF refresh
<1>3. ASSUME NEW t \in Tasks, Degrade(t) PROVE UpToDate'
  <2>1. task'[t].pc = "notify"
    BY <1>0, <1>3 DEF Degrade, Goto, TaskStates
  <2> QED BY <1>3, <2>1 DEF Degrade, UpToDate, Settled
<1>4. ASSUME NEW t \in Tasks, Notify(t) PROVE UpToDate'
  BY <1>4 DEF Notify, UpToDate, Settled
<1>5. ASSUME NEW p \in Profiles,
             Subscribe(p) \/ WatchFails(p) \/ WatchNext(p) \/ Backoff(p)
      PROVE  UpToDate'
  <2>1. \A u \in Tasks : task[u].pc = "notify" => task'[u].pc = "notify"
    BY <1>0, <1>5 DEF Subscribe, WatchFails, WatchNext, Backoff, Goto, Tasks, TaskStates
  <2> QED BY <1>5, <2>1, Aside DEF Subscribe, WatchFails, WatchNext, Backoff
<1>6. ASSUME NEW h \in Handlers, LoginStart(h) \/ LoginPoll(h) \/ LoginTimeout(h)
      PROVE  UpToDate'
  <2>1. \A u \in Tasks : task[u].pc = "notify" => task'[u].pc = "notify"
    BY <1>0, <1>6 DEF LoginStart, LoginPoll, LoginTimeout, Goto, Tasks, TaskStates
  <2> QED BY <1>6, <2>1, Aside DEF LoginStart, LoginPoll, LoginTimeout
<1>7. ASSUME NEW h \in Handlers, Logout(h) \/ LogoutNeedsLogin(h) PROVE UpToDate'
  <2>1. \A u \in Tasks : task[u].pc = "notify" => task'[u].pc = "notify"
    BY <1>0, <1>7 DEF Logout, LogoutNeedsLogin, Goto, Tasks, TaskStates
  <2>2. CASE Logout(h)
    BY <2>1, <2>2, Aside DEF Logout
  <2>3. CASE LogoutNeedsLogin(h)
    <3>1. /\ UNCHANGED <<targets, changes, main, mux, routes, up>>
          /\ \A p \in Profiles : status'[p] = "Running" => status[p] = "Running"
      BY <2>3 DEF LogoutNeedsLogin, TypeOK
    <3>2. Settled' => Settled
      BY <2>1, <3>1 DEF Settled
    <3>3. Served => Served'
      BY <3>1 DEF Served
    <3>4. \A p \in Profiles : Seen(p) => Seen(p)'
      BY <3>1 DEF Seen, InventoryRead, LeasesRead, StatusRead
    <3> QED BY <3>1, <3>2, <3>3, <3>4 DEF UpToDate
  <2> QED BY <1>7, <2>2, <2>3
<1>8. CASE TakeChange
  <2>1. main'.pc = "validate"
    BY <1>0, <1>8 DEF TakeChange, MainStates
  <2> QED BY <2>1 DEF UpToDate, Seen, InventoryRead, LeasesRead, StatusRead
<1>14. ASSUME NEW p \in Profiles, Validate(p) PROVE UpToDate'
  <2> DEFINE m == NoteRunning(main, p)
  <2>1. m \in MainStates /\ m.pc = "validate"
    BY <1>0, <1>14, NotedFacts DEF Validate
  <2>2. up' => main' = Visited(m, p, "inventory")
    BY <1>14, Zenon DEF Validate
  <2> HIDE DEF m
  <2>3. ASSUME up' PROVE /\ main'.pc \in {"validate", "inventory"}
                         /\ main'.pc = "inventory" => main'.todo = Profiles
    <3>1. "inventory" \in MainSteps
      BY DEF MainSteps
    <3>2. /\ Visited(m, p, "inventory").inv = m.inv
          /\ Visited(m, p, "inventory").leases = m.leases
          /\ Visited(m, p, "inventory").running = m.running
          /\ m.todo = {p} => /\ Visited(m, p, "inventory").pc = "inventory"
                             /\ Visited(m, p, "inventory").todo = Profiles
          /\ m.todo # {p} => /\ Visited(m, p, "inventory").pc = m.pc
                             /\ Visited(m, p, "inventory").todo = m.todo \ {p}
      BY <2>1, <3>1, VisitedFacts
    <3>3. main' = Visited(m, p, "inventory")
      BY <2>2, <2>3, Zenon
    <3> QED BY <2>1, <3>2, <3>3
  <2>4. ~up' => main'.pc = "validate"
    BY <1>14, Zenon DEF Validate
  <2> QED BY <2>3, <2>4 DEF UpToDate, Seen, InventoryRead, LeasesRead, StatusRead
<1>9. ASSUME NEW p \in Profiles, TakeInventory(p) PROVE UpToDate'
  <2> DEFINE m == [main EXCEPT !.inv[p] = targets[p], !.running = {}]
  <2>1. /\ m \in MainStates /\ m.pc = "inventory" /\ m.todo = main.todo
        /\ m.inv = [main.inv EXCEPT ![p] = targets[p]]
    BY <1>0, <1>9 DEF TakeInventory, TypeOK, MainStates
  <2>2. /\ main.pc = "inventory" /\ main' = Visited(m, p, "leases")
        /\ UNCHANGED <<status, targets, changes, task, routes, up>>
    BY <1>9 DEF TakeInventory
  <2> HIDE DEF m
  <2>3. /\ main'.inv = [main.inv EXCEPT ![p] = targets[p]]
        /\ main.todo = {p} => main'.pc = "leases" /\ main'.todo = Profiles
        /\ main.todo # {p} => main'.pc = "inventory" /\ main'.todo = main.todo \ {p}
    <3>1. "leases" \in MainSteps
      BY DEF MainSteps
    <3>2. /\ Visited(m, p, "leases").inv = m.inv
          /\ Visited(m, p, "leases").leases = m.leases
          /\ Visited(m, p, "leases").running = m.running
          /\ m.todo = {p} => /\ Visited(m, p, "leases").pc = "leases"
                             /\ Visited(m, p, "leases").todo = Profiles
          /\ m.todo # {p} => /\ Visited(m, p, "leases").pc = m.pc
                             /\ Visited(m, p, "leases").todo = m.todo \ {p}
      BY <2>1, <3>1, VisitedFacts
    <3> QED BY <2>1, <2>2, <3>2
  <2>4. ASSUME Settled', up', NEW q \in Profiles PROVE Seen(q)'
    <3>1. q \notin main.todo => main.inv[q] = targets[q]
      BY <2>2, <2>4 DEF UpToDate, Settled, Seen, InventoryRead
    <3>2. main.inv \in [Profiles -> SUBSET Targets]
      BY <1>0 DEF MainStates
    <3>3. InventoryRead(q)' => main'.inv[q] = targets'[q]
      BY <2>2, <2>3, <3>1, <3>2 DEF InventoryRead
    <3> QED BY <2>3, <3>3 DEF Seen, LeasesRead, StatusRead
  <2> QED BY <2>3, <2>4 DEF UpToDate
<1>10. ASSUME NEW p \in Profiles, TakeLeases(p) PROVE UpToDate'
  <2> DEFINE m == [main EXCEPT !.leases[p] = targets[p]]
  <2>1. /\ m \in MainStates /\ m.pc = "leases" /\ m.todo = main.todo /\ m.inv = main.inv
        /\ m.leases = [main.leases EXCEPT ![p] = targets[p]]
    BY <1>0, <1>10 DEF TakeLeases, TypeOK, MainStates
  <2>2. /\ main.pc = "leases" /\ main' = Visited(m, p, "update")
        /\ UNCHANGED <<status, targets, changes, task, routes, up>>
    BY <1>10 DEF TakeLeases
  <2> HIDE DEF m
  <2>3. /\ main'.leases = [main.leases EXCEPT ![p] = targets[p]] /\ main'.inv = main.inv
        /\ main.todo = {p} => main'.pc = "update" /\ main'.todo = Profiles
        /\ main.todo # {p} => main'.pc = "leases" /\ main'.todo = main.todo \ {p}
    <3>1. "update" \in MainSteps
      BY DEF MainSteps
    <3>2. /\ Visited(m, p, "update").inv = m.inv
          /\ Visited(m, p, "update").leases = m.leases
          /\ Visited(m, p, "update").running = m.running
          /\ m.todo = {p} => /\ Visited(m, p, "update").pc = "update"
                             /\ Visited(m, p, "update").todo = Profiles
          /\ m.todo # {p} => /\ Visited(m, p, "update").pc = m.pc
                             /\ Visited(m, p, "update").todo = m.todo \ {p}
      BY <2>1, <3>1, VisitedFacts
    <3> QED BY <2>1, <2>2, <3>2
  <2>4. ASSUME Settled', up', NEW q \in Profiles PROVE Seen(q)'
    <3>1. /\ q \notin main.todo => main.leases[q] = targets[q]
          /\ main.inv[q] = targets[q]
      BY <2>2, <2>4 DEF UpToDate, Settled, Seen, InventoryRead, LeasesRead
    <3>2. main.leases \in [Profiles -> SUBSET Targets]
      BY <1>0 DEF MainStates
    <3>3. LeasesRead(q)' => main'.leases[q] = targets'[q]
      BY <2>2, <2>3, <3>1, <3>2 DEF LeasesRead
    <3> QED BY <2>2, <2>3, <3>1, <3>3 DEF Seen, StatusRead
  <2> QED BY <2>3, <2>4 DEF UpToDate
<1>11. CASE LeasesFail \/ RoutesFail
  BY <1>11 DEF LeasesFail, RoutesFail, Fault, Quiet
<1>12. CASE ReconcileRoutes
  <2>1. /\ main.pc = "update" /\ main'.pc = "profiles" /\ main'.todo = main.todo
        /\ main'.inv = main.inv /\ main'.leases = main.leases /\ routes' = RoutePlan
        /\ UNCHANGED <<targets, changes, task, up>>
    BY <1>0, <1>12 DEF ReconcileRoutes, MainStates
  <2>2. main.todo = Profiles
    BY <2>1 DEF UpToDate
  <2>3. ASSUME Settled', up' PROVE routes' = targets' /\ \A p \in Profiles : Seen(p)'
    <3>1. \A p \in Profiles : main.inv[p] = targets[p] /\ main.leases[p] = targets[p]
      BY <2>1, <2>3 DEF UpToDate, Settled, Seen, InventoryRead, LeasesRead
    <3>2. targets \in [Profiles -> SUBSET Targets]
      BY DEF TypeOK
    <3>3. routes' = targets
      BY <2>1, <3>1, <3>2 DEF RoutePlan
    <3> QED BY <2>1, <2>2, <3>1, <3>3 DEF Seen, StatusRead
  <2> QED BY <2>1, <2>3 DEF UpToDate
<1>15. ASSUME NEW p \in Profiles, DatapathProfiles(p) PROVE UpToDate'
  <2> DEFINE m == NoteRunning(main, p)
  <2>1. /\ m \in MainStates /\ m.pc = "profiles" /\ m.todo = main.todo
        /\ m.inv = main.inv /\ m.leases = main.leases /\ main.running \subseteq m.running
        /\ status[p] = "Running" => p \in m.running
    BY <1>0, <1>15, NotedFacts DEF DatapathProfiles
  <2>2. /\ main.pc = "profiles" /\ main' = Visited(m, p, "mux")
        /\ UNCHANGED <<status, targets, changes, task, routes, up>>
    BY <1>15 DEF DatapathProfiles
  <2> HIDE DEF m
  <2>3. /\ main'.inv = main.inv /\ main'.leases = main.leases /\ main'.running = m.running
        /\ main.todo = {p} => main'.pc = "mux" /\ main'.todo = Profiles
        /\ main.todo # {p} => main'.pc = "profiles" /\ main'.todo = main.todo \ {p}
    <3>1. "mux" \in MainSteps
      BY DEF MainSteps
    <3>2. /\ Visited(m, p, "mux").inv = m.inv
          /\ Visited(m, p, "mux").leases = m.leases
          /\ Visited(m, p, "mux").running = m.running
          /\ m.todo = {p} => /\ Visited(m, p, "mux").pc = "mux"
                             /\ Visited(m, p, "mux").todo = Profiles
          /\ m.todo # {p} => /\ Visited(m, p, "mux").pc = m.pc
                             /\ Visited(m, p, "mux").todo = m.todo \ {p}
      BY <2>1, <3>1, VisitedFacts
    <3> QED BY <2>1, <2>2, <3>2
  <2>4. ASSUME Settled', up' PROVE routes' = targets' /\ \A q \in Profiles : Seen(q)'
    <3>1. /\ routes = targets
          /\ \A q \in Profiles :
               /\ main.inv[q] = targets[q] /\ main.leases[q] = targets[q]
               /\ q \notin main.todo /\ status[q] = "Running" => q \in main.running
      BY <2>2, <2>4 DEF UpToDate, Settled, Seen, InventoryRead, LeasesRead, StatusRead
    <3>2. ASSUME NEW q \in Profiles, StatusRead(q)', status'[q] = "Running"
          PROVE  q \in main'.running
      <4>1. CASE q = p
        BY <2>1, <2>2, <2>3, <3>2, <4>1
      <4>2. CASE q # p
        <5>1. q \notin main.todo
          BY <2>3, <3>2, <4>2 DEF StatusRead
        <5> QED BY <2>1, <2>2, <2>3, <3>1, <3>2, <5>1
      <4> QED BY <4>1, <4>2
    <3> QED BY <2>2, <2>3, <3>1, <3>2 DEF Seen
  <2> QED BY <2>3, <2>4 DEF UpToDate
<1>13. CASE UpdateMux
  <2>1. main'.pc = "wait"
    BY <1>13, WaitingTyped DEF UpdateMux
  <2>2. ASSUME Settled', up' PROVE Served'
    <3>1. /\ routes = targets
          /\ \A p \in Profiles : /\ main.inv[p] = targets[p] /\ main.leases[p] = targets[p]
                                 /\ status[p] = "Running" => p \in main.running
      BY <1>13, <2>2 DEF UpdateMux, UpToDate, Settled, Seen, InventoryRead, LeasesRead,
         StatusRead
    <3>2. \A p \in Profiles :
            mux'[p] = IF p \in main.running THEN main.inv[p] \cap main.leases[p] ELSE {}
      BY <1>13 DEF UpdateMux
    <3>3. UNCHANGED <<status, targets, routes>>
      BY <1>13 DEF UpdateMux
    <3> QED BY <3>1, <3>2, <3>3 DEF Served
  <2> QED BY <2>1, <2>2 DEF UpToDate, Seen, InventoryRead, LeasesRead, StatusRead
<1> QED
  BY <1>1, <1>2, <1>3, <1>4, <1>5, <1>6, <1>7, <1>8, <1>9, <1>10, <1>11, <1>12, <1>13,
     <1>14, <1>15 DEF Next, watch, handle, reconcile, ReadProfile, Tasks

\* Every variable of the supervisor and the main loop keeps its type: with any
\* number of profiles and control handlers, whatever fails.
THEOREM TypeCorrect == Profiles # {} /\ Spec => []TypeOK
<1>1. Profiles # {} /\ Init => TypeOK
  BY InitSettled DEF SettledInv
<1>2. TypeOK /\ [Next]_vars => TypeOK'
  <2>1. TypeOK /\ UNCHANGED vars => TypeOK'
    BY DEF TypeOK, vars
  <2> QED BY <2>1, StepTyped
<1> QED BY <1>1, <1>2, PTL DEF Spec

\* Whatever logs in or out, and as long as leases and routes can be had, no order of
\* refreshes, degrades, notifications and snapshots loses a target: once the channel
\* of capacity one is empty and no notification is due, the routes are those of the
\* targets offered, a running profile's targets are all bound, and no others are.
THEOREM ChangesAreNotLost == Profiles # {} /\ Quiet /\ Spec => []NoChangeIsLost
<1> SUFFICES ASSUME Profiles # {}, Quiet PROVE Spec => []NoChangeIsLost
  OBVIOUS
<1>1. Init => SettledInv
  BY InitSettled
<1>2. SettledInv /\ [Next]_vars => SettledInv'
  <2>1. SettledInv /\ UNCHANGED vars => SettledInv'
    BY DEF SettledInv, TypeOK, UpToDate, Settled, Served, Seen, InventoryRead, LeasesRead,
       StatusRead, vars
  <2> QED BY <2>1, StepTyped, StepUpToDate DEF SettledInv
<1>3. SettledInv => NoChangeIsLost
  BY DEF SettledInv, UpToDate, NoChangeIsLost, Served
<1> QED BY <1>1, <1>2, <1>3, PTL DEF Spec

-----------------------------------------------------------------------------
\* Logout.

\* Nobody is on the path of Logout when the program starts.
LEMMA InitOffer ==
  ASSUME Init, Profiles # {}
  PROVE  OfferInv
<1>1. TypeOK
  BY InitSettled DEF SettledInv
<1>2. \A t \in Tasks : task[t].pc # "needsLogin" /\ task[t].ret # "needsLogin"
  BY DEF Init, Idle, Task, Tasks
<1>3. LogoutPath /\ \A p \in Profiles : ~InLogout(p)
  BY <1>2 DEF LogoutPath, InLogout
<1>4. OfferedUnlessRaced
  BY EngineFacts DEF Init, OfferedUnlessRaced
<1> QED BY <1>1, <1>3, <1>4 DEF OfferInv

\* The second critical section of Logout is only reached from the first.
LEMMA StepLogoutPath ==
  ASSUME TypeOK, LogoutPath, Next
  PROVE  LogoutPath'
<1>0. task \in [Tasks -> TaskStates]
  BY DEF TypeOK, TaskStates
<1>1. ASSUME NEW t \in Tasks, refresh(t) \/ Degrade(t) \/ Notify(t) PROVE LogoutPath'
  BY <1>0, <1>1 DEF refresh, RefreshReads, RefreshFails, SetStatusAndTargets, Degrade,
     Notify, Goto, LogoutPath, TaskStates
<1>2. ASSUME NEW p \in Profiles,
             Subscribe(p) \/ WatchFails(p) \/ WatchNext(p) \/ Backoff(p)
      PROVE  LogoutPath'
  BY <1>0, <1>2 DEF Subscribe, WatchFails, WatchNext, Backoff, Goto, LogoutPath, Tasks,
     TaskStates
<1>3. ASSUME NEW h \in Handlers, LoginStart(h) \/ Logout(h) PROVE LogoutPath'
  BY <1>0, <1>3 DEF LoginStart, Logout, Task, LogoutPath, Tasks, TaskStates
<1>4. ASSUME NEW h \in Handlers, LoginPoll(h) \/ LoginTimeout(h) \/ LogoutNeedsLogin(h)
      PROVE  LogoutPath'
  BY <1>0, <1>4 DEF LoginPoll, LoginTimeout, LogoutNeedsLogin, Idle, Task, Goto, LogoutPath,
     Tasks, TaskStates
<1>5. ASSUME UNCHANGED task PROVE LogoutPath'
  BY <1>5 DEF LogoutPath
<1>6. CASE \E p \in Profiles : EngineChanges(p) \/ EngineReports(p)
  BY <1>5, <1>6 DEF EngineChanges, EngineReports
<1>7. CASE reconcile
  BY <1>5, <1>7 DEF reconcile, ReadProfile, TakeChange, Validate, TakeInventory, TakeLeases,
     LeasesFail, ReconcileRoutes, RoutesFail, DatapathProfiles, UpdateMux
<1> QED
  BY <1>1, <1>2, <1>3, <1>4, <1>6, <1>7 DEF Next, watch, handle, Tasks

\* Between its critical sections a Logout leaves its profile without targets, or a
\* refresh has just given it some.
LEMMA StepInLogout ==
  ASSUME OfferInv, Next
  PROVE  \A p \in Profiles : InLogout(p)' /\ p \notin raced' => targets'[p] = {}
<1> SUFFICES ASSUME NEW p \in Profiles, InLogout(p)', p \notin raced' PROVE targets'[p] = {}
  OBVIOUS
<1>0. task \in [Tasks -> TaskStates] /\ LogoutPath
  BY DEF OfferInv, TypeOK, TaskStates
<1>1. CASE InLogout(p)
  <2>1. p \notin raced => targets[p] = {}
    BY <1>1 DEF OfferInv
  <2>2. ASSUME UNCHANGED <<targets, raced>> PROVE targets'[p] = {}
    BY <2>1, <2>2
  <2>3. ASSUME NEW t \in Tasks, SetStatusAndTargets(t) PROVE targets'[p] = {}
    <3>1. CASE task[t].p = p
      <4>1. Offered(task[t].got) = {}
        BY <1>1, <2>3, <3>1 DEF SetStatusAndTargets
      <4> QED BY <2>3, <3>1, <4>1 DEF SetStatusAndTargets, OfferInv, TypeOK
    <3>2. CASE task[t].p # p
      BY <2>1, <2>3, <3>2 DEF SetStatusAndTargets, OfferInv, TypeOK
    <3> QED BY <3>1, <3>2
  <2>4. ASSUME NEW t \in Tasks, Degrade(t) PROVE targets'[p] = {}
    BY <2>1, <2>4 DEF Degrade, OfferInv, TypeOK
  <2>5. ASSUME NEW t \in Tasks, refresh(t) \/ Degrade(t) \/ Notify(t) PROVE targets'[p] = {}
    BY <2>2, <2>3, <2>4, <2>5 DEF refresh, RefreshReads, RefreshFails, Notify
  <2>6. CASE \E q \in Profiles : EngineChanges(q) \/ EngineReports(q)
    BY <2>2, <2>6 DEF EngineChanges, EngineReports
  <2>7. ASSUME NEW q \in Profiles,
               Subscribe(q) \/ WatchFails(q) \/ WatchNext(q) \/ Backoff(q)
        PROVE  targets'[p] = {}
    BY <2>2, <2>7 DEF Subscribe, WatchFails, WatchNext, Backoff
  <2>8. ASSUME NEW h \in Handlers, \/ LoginStart(h) \/ LoginPoll(h) \/ LoginTimeout(h)
                                   \/ Logout(h) \/ LogoutNeedsLogin(h)
        PROVE  targets'[p] = {}
    BY <2>2, <2>8 DEF LoginStart, LoginPoll, LoginTimeout, Logout, LogoutNeedsLogin
  <2>9. CASE reconcile
    BY <2>2, <2>9 DEF reconcile, ReadProfile, TakeChange, Validate, TakeInventory, TakeLeases,
       LeasesFail, ReconcileRoutes, RoutesFail, DatapathProfiles, UpdateMux
  <2> QED BY <2>5, <2>6, <2>7, <2>8, <2>9 DEF Next, watch, handle, Tasks
<1>2. CASE ~InLogout(p)
  <2>1. PICK u \in Tasks : /\ task'[u].p = p
                           /\ task'[u].ret = "needsLogin"
                           /\ task'[u].pc \in {"notify", "needsLogin"}
    BY DEF InLogout
  <2>2. ~(/\ task[u].p = p
          /\ task[u].ret = "needsLogin"
          /\ task[u].pc \in {"notify", "needsLogin"})
    BY <1>2 DEF InLogout
  <2>3. ASSUME NEW t \in Tasks, Degrade(t) PROVE targets'[p] = {}
    <3>1. t = u
      BY <1>0, <2>1, <2>2, <2>3 DEF Degrade, Goto, TaskStates
    <3>2. task[t].p = p
      BY <1>0, <2>1, <2>3, <3>1 DEF Degrade, Goto, TaskStates
    <3> QED BY <2>3, <3>2 DEF Degrade, OfferInv, TypeOK
  <2>4. ASSUME NEW t \in Tasks, refresh(t) \/ Notify(t) PROVE FALSE
    BY <1>0, <2>1, <2>2, <2>4 DEF refresh, RefreshReads, RefreshFails, SetStatusAndTargets,
       Notify, Goto, LogoutPath, TaskStates
  <2>5. ASSUME NEW q \in Profiles,
               Subscribe(q) \/ WatchFails(q) \/ WatchNext(q) \/ Backoff(q)
        PROVE  FALSE
    BY <1>0, <2>1, <2>2, <2>5 DEF Subscribe, WatchFails, WatchNext, Backoff, Goto, Tasks,
       TaskStates
  <2>6. ASSUME NEW h \in Handlers, LoginStart(h) \/ Logout(h) PROVE FALSE
    BY <1>0, <2>1, <2>2, <2>6 DEF LoginStart, Logout, Task, Tasks, TaskStates
  <2>7. ASSUME NEW h \in Handlers, LoginPoll(h) \/ LoginTimeout(h) \/ LogoutNeedsLogin(h)
        PROVE  FALSE
    BY <1>0, <2>1, <2>2, <2>7 DEF LoginPoll, LoginTimeout, LogoutNeedsLogin, Idle, Task, Goto,
       Tasks, TaskStates
  <2>8. ASSUME UNCHANGED task PROVE FALSE
    BY <2>1, <2>2, <2>8
  <2>9. CASE \E q \in Profiles : EngineChanges(q) \/ EngineReports(q)
    BY <2>8, <2>9 DEF EngineChanges, EngineReports
  <2>10. CASE reconcile
    BY <2>8, <2>10 DEF reconcile, ReadProfile, TakeChange, Validate, TakeInventory, TakeLeases,
       LeasesFail, ReconcileRoutes, RoutesFail, DatapathProfiles, UpdateMux
  <2> QED BY <2>3, <2>4, <2>5, <2>6, <2>7, <2>9, <2>10 DEF Next, watch, handle, Tasks
<1> QED BY <1>1, <1>2

\* Status and targets change together, but for Logout's last step, when there are no
\* targets or a refresh has raced.
LEMMA StepTargets ==
  ASSUME OfferInv, Next
  PROVE  OfferedUnlessRaced'
<1>0. TypeOK /\ LogoutPath /\ OfferedUnlessRaced
  BY DEF OfferInv
<1>1. ASSUME UNCHANGED <<status, targets, raced>> PROVE OfferedUnlessRaced'
  BY <1>0, <1>1 DEF OfferedUnlessRaced
<1>2. ASSUME NEW t \in Tasks, SetStatusAndTargets(t) PROVE OfferedUnlessRaced'
  <2>1. task[t].p \in Profiles /\ task[t].got \in EngineStates
    BY <1>0 DEF TypeOK
  <2>2. /\ status' = [status EXCEPT ![task[t].p] = task[t].got.state]
        /\ targets' = [targets EXCEPT ![task[t].p] = Offered(task[t].got)]
        /\ \A q \in Profiles : q # task[t].p => (q \in raced <=> q \in raced')
    BY <1>2 DEF SetStatusAndTargets
  <2>3. task[t].got.state # "Running" => Offered(task[t].got) = {}
    BY <2>1, EngineFacts
  <2> QED BY <1>0, <2>1, <2>2, <2>3 DEF OfferedUnlessRaced, TypeOK
<1>3. ASSUME NEW t \in Tasks, Degrade(t) PROVE OfferedUnlessRaced'
  BY <1>0, <1>3 DEF Degrade, OfferedUnlessRaced, TypeOK
<1>4. ASSUME NEW h \in Handlers, LogoutNeedsLogin(h) PROVE OfferedUnlessRaced'
  <2>1. h \in Tasks /\ task[h].p \in Profiles
    BY <1>0 DEF TypeOK, Tasks
  <2>2. InLogout(task[h].p)
    BY <1>0, <1>4, <2>1 DEF LogoutNeedsLogin, LogoutPath, InLogout
  <2>3. task[h].p \notin raced => targets[task[h].p] = {}
    BY <2>1, <2>2 DEF OfferInv
  <2> QED BY <1>0, <1>4, <2>1, <2>3 DEF LogoutNeedsLogin, OfferedUnlessRaced, TypeOK
<1>5. ASSUME NEW t \in Tasks, refresh(t) \/ Degrade(t) \/ Notify(t)
      PROVE  OfferedUnlessRaced'
  BY <1>1, <1>2, <1>3, <1>5 DEF refresh, RefreshReads, RefreshFails, Notify
<1>6. CASE \E p \in Profiles : EngineChanges(p) \/ EngineReports(p)
  BY <1>1, <1>6 DEF EngineChanges, EngineReports
<1>7. ASSUME NEW p \in Profiles,
             Subscribe(p) \/ WatchFails(p) \/ WatchNext(p) \/ Backoff(p)
      PROVE  OfferedUnlessRaced'
  BY <1>1, <1>7 DEF Subscribe, WatchFails, WatchNext, Backoff
<1>8. ASSUME NEW h \in Handlers,
             LoginStart(h) \/ LoginPoll(h) \/ LoginTimeout(h) \/ Logout(h)
      PROVE  OfferedUnlessRaced'
  BY <1>1, <1>8 DEF LoginStart, LoginPoll, LoginTimeout, Logout
<1>9. CASE reconcile
  BY <1>1, <1>9 DEF reconcile, ReadProfile, TakeChange, Validate, TakeInventory, TakeLeases,
     LeasesFail, ReconcileRoutes, RoutesFail, DatapathProfiles, UpdateMux
<1> QED BY <1>4, <1>5, <1>6, <1>7, <1>8, <1>9 DEF Next, watch, handle, Tasks

\* A profile that does not run offers no targets, whatever fails, whoever logs in and
\* out, and however the refreshes and degrades of one profile interleave, unless a
\* refresh stores targets between Logout's degrade and its second critical section:
\* that race is the only way.
THEOREM OfferedOnlyWhileRunning == Profiles # {} /\ Spec => []OfferedUnlessRaced
<1> SUFFICES ASSUME Profiles # {} PROVE Spec => []OfferedUnlessRaced
  OBVIOUS
<1>1. Init => OfferInv
  BY InitOffer
<1>2. OfferInv /\ [Next]_vars => OfferInv'
  <2>1. OfferInv /\ UNCHANGED vars => OfferInv'
    BY DEF OfferInv, TypeOK, LogoutPath, InLogout, OfferedUnlessRaced, vars
  <2>2. OfferInv /\ Next => OfferInv'
    BY StepTyped, StepLogoutPath, StepInLogout, StepTargets DEF OfferInv
  <2> QED BY <2>1, <2>2
<1>3. OfferInv => OfferedUnlessRaced
  BY DEF OfferInv
<1> QED BY <1>1, <1>2, <1>3, PTL DEF Spec

-----------------------------------------------------------------------------
\* Every step keeps RoutedInv; logins, logouts and lost lease computations too.
LEMMA StepRouted ==
  ASSUME TypeOK, "routes" \notin Faults, RoutedInv, Next
  PROVE  RoutedInv'
<1>0. main \in MainStates
  BY DEF TypeOK, MainStates, MainSteps
<1>1. ASSUME UNCHANGED <<main, mux, routes>> PROVE RoutedInv'
  BY <1>1 DEF RoutedInv, RoutePlan, BoundIsRouted
<1>2. ASSUME UNCHANGED <<mux, routes>>, main.pc \notin {"profiles", "mux"},
             main'.pc \notin {"profiles", "mux"}
      PROVE  RoutedInv'
  BY <1>2 DEF RoutedInv, BoundIsRouted
<1>3. CASE TakeChange \/ LeasesFail
  <2>1. main'.pc \in {"validate", "wait"}
    BY <1>0, <1>3, WaitingTyped DEF TakeChange, LeasesFail, MainStates
  <2> QED BY <1>2, <1>3, <2>1 DEF TakeChange, LeasesFail
<1>11. ASSUME NEW p \in Profiles, Validate(p) PROVE RoutedInv'
  <2>1. main'.pc \in {"validate", "inventory"}
    <3>1. Visited(NoteRunning(main, p), p, "inventory").pc \in {"validate", "inventory"}
      <4> DEFINE m == NoteRunning(main, p)
      <4>1. m \in MainStates /\ m.pc = "validate" /\ "inventory" \in MainSteps
        BY <1>0, <1>11, NotedFacts DEF Validate, MainSteps
      <4> HIDE DEF m
      <4>2. Visited(m, p, "inventory").pc \in {"validate", "inventory"}
        BY <4>1, VisitedFacts
      <4> QED BY <4>2 DEF m
    <3> QED BY <1>11, <3>1 DEF Validate
  <2> QED BY <1>2, <1>11, <2>1 DEF Validate
<1>12. ASSUME NEW p \in Profiles, TakeInventory(p) PROVE RoutedInv'
  <2>1. /\ [main EXCEPT !.inv[p] = targets[p], !.running = {}] \in MainStates
        /\ [main EXCEPT !.inv[p] = targets[p], !.running = {}].pc = main.pc
    BY <1>0 DEF TypeOK, MainStates
  <2>2. main'.pc \in {"inventory", "leases"}
    BY <1>12, <2>1, VisitedFacts DEF TakeInventory, MainSteps
  <2> QED BY <1>2, <1>12, <2>2 DEF TakeInventory
<1>13. ASSUME NEW p \in Profiles, TakeLeases(p) PROVE RoutedInv'
  <2>1. /\ [main EXCEPT !.leases[p] = targets[p]] \in MainStates
        /\ [main EXCEPT !.leases[p] = targets[p]].pc = main.pc
    BY <1>0 DEF TypeOK, MainStates
  <2>2. main'.pc \in {"leases", "update"}
    BY <1>13, <2>1, VisitedFacts DEF TakeLeases, MainSteps
  <2> QED BY <1>2, <1>13, <2>2 DEF TakeLeases
<1>14. ASSUME NEW p \in Profiles, DatapathProfiles(p) PROVE RoutedInv'
  <2>1. /\ main'.pc \in {"profiles", "mux"} /\ main.pc = "profiles"
        /\ main'.inv = main.inv /\ main'.leases = main.leases /\ routes' = routes
    <3> DEFINE m == NoteRunning(main, p)
    <3>1. /\ m \in MainStates /\ m.pc = "profiles" /\ "mux" \in MainSteps
          /\ m.inv = main.inv /\ m.leases = main.leases
      BY <1>0, <1>14, NotedFacts DEF DatapathProfiles, MainSteps
    <3>2. main' = Visited(m, p, "mux") /\ main.pc = "profiles" /\ routes' = routes
      BY <1>14 DEF DatapathProfiles
    <3> HIDE DEF m
    <3>3. /\ Visited(m, p, "mux").pc \in {"profiles", "mux"}
          /\ Visited(m, p, "mux").inv = m.inv /\ Visited(m, p, "mux").leases = m.leases
      BY <3>1, VisitedFacts
    <3> QED BY <3>1, <3>2, <3>3
  <2> QED BY <2>1 DEF RoutedInv, RoutePlan, BoundIsRouted
<1>4. CASE ReconcileRoutes
  <2>1. /\ main'.pc = "profiles" /\ main'.inv = main.inv /\ main'.leases = main.leases
        /\ routes' = RoutePlan
    BY <1>0, <1>4 DEF ReconcileRoutes, MainStates
  <2> QED BY <2>1 DEF RoutedInv, BoundIsRouted, RoutePlan
<1>5. CASE RoutesFail
  BY <1>5 DEF RoutesFail, Fault
<1>6. CASE UpdateMux
  <2>1. /\ main.pc = "mux" /\ main'.pc = "wait" /\ routes' = routes
        /\ mux' = [p \in Profiles |->
             IF p \in main.running THEN main.inv[p] \cap main.leases[p] ELSE {}]
    BY <1>6, WaitingTyped DEF UpdateMux
  <2>2. routes = [p \in Profiles |-> main.inv[p] \cup main.leases[p]]
    BY <2>1 DEF RoutedInv, RoutePlan
  <2>3. \A p \in Profiles : mux'[p] \subseteq routes'[p]
    BY <2>1, <2>2
  <2> QED BY <2>1, <2>3 DEF RoutedInv, BoundIsRouted
<1>7. CASE \E p \in Profiles : EngineChanges(p) \/ EngineReports(p)
  BY <1>1, <1>7 DEF EngineChanges, EngineReports
<1>8. ASSUME NEW t \in Tasks, refresh(t) \/ Degrade(t) \/ Notify(t) PROVE RoutedInv'
  BY <1>1, <1>8 DEF refresh, RefreshReads, RefreshFails, SetStatusAndTargets, Degrade, Notify
<1>9. ASSUME NEW p \in Profiles,
             Subscribe(p) \/ WatchFails(p) \/ WatchNext(p) \/ Backoff(p)
      PROVE  RoutedInv'
  BY <1>1, <1>9 DEF Subscribe, WatchFails, WatchNext, Backoff
<1>10. ASSUME NEW h \in Handlers, \/ LoginStart(h) \/ LoginPoll(h) \/ LoginTimeout(h)
                                  \/ Logout(h) \/ LogoutNeedsLogin(h)
       PROVE  RoutedInv'
  BY <1>1, <1>10 DEF LoginStart, LoginPoll, LoginTimeout, Logout, LogoutNeedsLogin
<1> QED BY <1>3, <1>4, <1>5, <1>6, <1>7, <1>8, <1>9, <1>10, <1>11, <1>12, <1>13, <1>14
        DEF Next, watch, handle, reconcile, ReadProfile, Tasks

\* Unless adding a route fails, between rounds every target the mux translates for
\* has a host route, whoever logs in or out while the round takes its snapshots.
THEOREM BoundStaysRouted ==
  Profiles # {} /\ "routes" \notin Faults /\ Spec => []BoundIsRouted
<1> SUFFICES ASSUME Profiles # {}, "routes" \notin Faults PROVE Spec => []BoundIsRouted
  OBVIOUS
<1> DEFINE Inv == TypeOK /\ RoutedInv
<1>1. Init => Inv
  <2>1. Init => TypeOK
    BY InitSettled DEF SettledInv
  <2>2. Init => RoutedInv
    <3>1. Init => /\ main.pc = "wait"
                  /\ mux = NoTargets /\ routes = NoTargets
      BY WaitingTyped, Zenon DEF Init
    <3>2. \A p \in Profiles : NoTargets[p] \subseteq NoTargets[p]
      OBVIOUS
    <3> QED BY <3>1, <3>2 DEF RoutedInv, BoundIsRouted
  <2> QED BY <2>1, <2>2
<1>2. Inv /\ [Next]_vars => Inv'
  <2>1. Inv /\ UNCHANGED vars => Inv'
    BY DEF TypeOK, RoutedInv, RoutePlan, BoundIsRouted, vars
  <2> QED BY <2>1, StepTyped, StepRouted
<1>3. Inv => BoundIsRouted
  BY DEF RoutedInv
<1> QED BY <1>1, <1>2, <1>3, PTL DEF Spec
===============================================================================

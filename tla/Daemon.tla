-------------------------------- MODULE Daemon --------------------------------
(***************************************************************************)
(* The life of a daemon process, cmd/tailscale-multitaild's run, under the *)
(* systemd unit: startup, the select loop and its reconcile round, and the *)
(* deferred closes, composed with the host TUN (HostTun), systemd-resolved *)
(* (Resolved) and the control socket (Control).                            *)
(*                                                                         *)
(* Profiles and leases are abstracted to the sequence of addresses a round *)
(* wants routed (Supervisor, Leases and ProfileSet model where it comes    *)
(* from); the mux and the DNS server are up or down (Mux, Datapath and     *)
(* DnsMux model what they do while up).                                    *)
(***************************************************************************)
EXTENDS HostTun, Resolved, Control

CONSTANTS
  Plans,      \* the sequences of addresses a plan may want routed
  MaxFaults   \* bound on the steps in which calls fail, per behaviour

ASSUME PlansAssumption == Plans \subseteq Seq(Dests)

ASSUME MaxFaultsAssumption == MaxFaults \in Nat

VARIABLES
  pc,         \* where run is; "off" when there is no process
  defers,     \* the deferred calls, the last one runs first
  code,       \* the status run returns
  want,       \* the addresses the current plan routes
  dns,        \* the DNS server's listeners are open
  catching,   \* signal.NotifyContext has replaced the default action
  signalled,  \* ctx is done
  pending,    \* a notification waits in the changes channel
  unit,       \* the unit: active, waiting to restart, inactive or failed
  goal,       \* what the administrator last asked systemctl for
  faults      \* steps with a failure so far

mainVars == <<pc, defers, code, want, dns, catching, signalled, pending>>
unitVars == <<unit, goal>>
vars == <<hostVars, resolvedVars, controlVars, mainVars, unitVars, faults>>

Init ==
  /\ HostInit /\ ResolvedInit /\ ControlInit
  /\ pc = "off"
  /\ defers = <<>>
  /\ code = 0
  /\ want = <<>>
  /\ dns = FALSE
  /\ catching = FALSE
  /\ signalled = FALSE
  /\ pending = FALSE
  /\ unit = "inactive"
  /\ goal = "down"
  /\ faults = 0

\* One or more calls of a step fail, within the bound.
Fault == faults < MaxFaults /\ faults' = faults + 1

\* Calls that may fail unnoticed.
MayFail(fails) == IF fails THEN Fault ELSE UNCHANGED faults

Goto(l) == pc' = l /\ UNCHANGED <<defers, code>>

\* defer: push a deferred call and go on.
DeferAndGoto(d, l) ==
  /\ pc' = l
  /\ defers' = Append(defers, d)
  /\ UNCHANGED code

\* return: leave the body of run and start on the deferred calls.
ReturnCode(n) == pc' = "unwind" /\ code' = n /\ UNCHANGED defers

-----------------------------------------------------------------------------
\* Startup.

\* config.Load, runtime.New and Start succeed; or one fails and nothing is
\* deferred yet.
Boot ==
  /\ pc = "boot"
  /\ \/ DeferAndGoto("supervisor", "plan") /\ UNCHANGED faults
     \/ ReturnCode(1) /\ Fault
  /\ UNCHANGED <<hostVars, resolvedVars, controlVars, unitVars>>
  /\ UNCHANGED <<want, dns, catching, signalled, pending>>

\* ValidateDNSSuffixes, Inventory and EffectiveLeases.
Plan ==
  /\ pc = "plan"
  /\ \/ Goto("create") /\ want' \in Plans /\ UNCHANGED faults
     \/ ReturnCode(1) /\ Fault /\ UNCHANGED want
  /\ UNCHANGED <<hostVars, resolvedVars, controlVars, unitVars>>
  /\ UNCHANGED <<dns, catching, signalled, pending>>

\* hosttun.Create up to the TUN; a failure leaves no TUN.
CreateDevice ==
  /\ pc = "create"
  /\ \/ CreateTUN /\ Goto("setup") /\ UNCHANGED faults
     \/ Refused /\ ReturnCode(1) /\ UNCHANGED <<hostVars, faults>>
     \/ ~Refused /\ ReturnCode(1) /\ Fault /\ UNCHANGED hostVars
  /\ UNCHANGED <<resolvedVars, controlVars, unitVars>>
  /\ UNCHANGED <<want, dns, catching, signalled, pending>>

\* hosttun.Create, the rest: setup, or setup fails and the device is closed.
SetupDevice ==
  /\ pc = "setup"
  /\ \/ setup /\ Goto("targets") /\ UNCHANGED faults
     \/ (\E stuck \in BOOLEAN : Close(stuck)) /\ ReturnCode(1) /\ Fault
  /\ UNCHANGED <<resolvedVars, controlVars, unitVars>>
  /\ UNCHANGED <<want, dns, catching, signalled, pending>>

\* Mutant of TargetsFail: only the deferred calls are relied on.
TargetsFailUnclosed ==
  /\ pc = "targets"
  /\ want # <<>>
  /\ ReturnCode(1)
  /\ Fault
  /\ UNCHANGED <<hostVars, resolvedVars, controlVars, unitVars>>
  /\ UNCHANGED <<want, dns, catching, signalled, pending>>

\* The first AddTargets fails: its h.Close is not deferred yet.
TargetsFail ==
  /\ pc = "targets"
  /\ want # <<>>
  /\ \E stuck \in BOOLEAN : Close(stuck)
  /\ ReturnCode(1)
  /\ Fault
  /\ UNCHANGED <<resolvedVars, controlVars, unitVars>>
  /\ UNCHANGED <<want, dns, catching, signalled, pending>>

\* The first AddTargets; then mux.New and Run.
Targets ==
  /\ pc = "targets"
  /\ AddTargets(kernel.routes, want, FALSE)
  /\ routeErr' = "none"
  /\ UNCHANGED <<leaks, conflict>>
  /\ DeferAndGoto("host", "dns")
  /\ UNCHANGED <<resolvedVars, controlVars, unitVars, faults>>
  /\ UNCHANGED <<want, dns, catching, signalled, pending>>

\* dnsServer.Start; when the TCP listener fails the UDP one is closed.
StartDNS ==
  /\ pc = "dns"
  /\ \/ dns' = TRUE /\ DeferAndGoto("dns", "configure") /\ UNCHANGED faults
     \/ ReturnCode(1) /\ Fault /\ UNCHANGED dns
  /\ UNCHANGED <<hostVars, resolvedVars, controlVars, unitVars>>
  /\ UNCHANGED <<want, catching, signalled, pending>>

\* resolvedclient.Configure, the next D-Bus call, at startup and in a round.
Configure ==
  /\ pc = "configure"
  /\ ConfigureCall
  /\ IF made < 4 THEN Goto("configure")
     ELSE IF catching THEN Goto("loop")
     ELSE DeferAndGoto("resolved", "listen")
  /\ UNCHANGED <<hostVars, controlVars, unitVars, faults>>
  /\ UNCHANGED <<want, dns, catching, signalled, pending>>

\* A call of Configure fails: fatal at startup, logged in a round.
ConfigureError ==
  /\ pc = "configure"
  /\ \E effect, stuck \in BOOLEAN : ConfigureFails(effect, stuck)
  /\ IF catching THEN Goto("loop") ELSE ReturnCode(1)
  /\ Fault
  /\ UNCHANGED <<hostVars, controlVars, unitVars>>
  /\ UNCHANGED <<want, dns, catching, signalled, pending>>

\* signal.NotifyContext, the group lookup and control.Listen.
ListenControl ==
  /\ pc = "listen"
  /\ catching' = TRUE
  /\ \/ Listen /\ defers' = Append(Append(defers, "stop"), "control") /\ pc' = "loop"
        /\ UNCHANGED <<code, faults>>
     \/ defers' = Append(defers, "stop") /\ pc' = "unwind" /\ code' = 1 /\ Fault
        /\ UNCHANGED controlVars
  /\ UNCHANGED <<hostVars, resolvedVars, unitVars>>
  /\ UNCHANGED <<want, dns, signalled, pending>>

-----------------------------------------------------------------------------
\* The select loop.

\* case <-ctx.Done().
LoopSignal ==
  /\ pc = "loop"
  /\ signalled
  /\ ReturnCode(0)
  /\ UNCHANGED <<hostVars, resolvedVars, controlVars, unitVars, faults>>
  /\ UNCHANGED <<want, dns, catching, signalled, pending>>

\* Mutant of LoopShutdown: an ordinary exit, which the unit does not restart.
LoopShutdownPlain ==
  /\ pc = "loop"
  /\ shutdown = "closed"
  /\ ReturnCode(0)
  /\ UNCHANGED <<hostVars, resolvedVars, controlVars, unitVars, faults>>
  /\ UNCHANGED <<want, dns, catching, signalled, pending>>

\* case <-shutdown.
LoopShutdown ==
  /\ pc = "loop"
  /\ shutdown = "closed"
  /\ ReturnCode(75)
  /\ UNCHANGED <<hostVars, resolvedVars, controlVars, unitVars, faults>>
  /\ UNCHANGED <<want, dns, catching, signalled, pending>>

\* case <-s.Changes(): a new plan; or the suffixes conflict, which is fatal; or
\* EffectiveLeases fails, which is logged.
LoopChange ==
  /\ pc = "loop"
  /\ pending
  /\ pending' = FALSE
  /\ \/ Goto("routes") /\ want' \in Plans /\ UNCHANGED faults
     \/ ReturnCode(1) /\ Fault /\ UNCHANGED want
     \/ Goto("loop") /\ Fault /\ UNCHANGED want
  /\ UNCHANGED <<hostVars, resolvedVars, controlVars, unitVars>>
  /\ UNCHANGED <<dns, catching, signalled>>

\* h.ReconcileTargets, where any RouteDel may fail unseen (kept) and a RouteAdd
\* with an error that is only logged; then m.Update and dnsServer.Update.
RoundRoutes ==
  /\ pc = "routes"
  /\ \E kept \in SUBSET dev.routes, fault \in BOOLEAN :
       ReconcileTargets(want, kept, fault) /\ MayFail(kept # {} \/ fault)
  /\ Goto("revert")
  /\ UNCHANGED <<resolvedVars, controlVars, unitVars>>
  /\ UNCHANGED <<want, dns, catching, signalled, pending>>

\* resolved.Revert before the link is configured again.
RoundRevert ==
  /\ pc = "revert"
  /\ \E stuck \in BOOLEAN : Revert(stuck) /\ MayFail(stuck)
  /\ Goto("configure")
  /\ UNCHANGED <<hostVars, controlVars, unitVars>>
  /\ UNCHANGED <<want, dns, catching, signalled, pending>>

-----------------------------------------------------------------------------
\* The deferred calls, last one first.

NextDefer(d) == pc = "unwind" /\ defers # <<>> /\ Last(defers) = d

Undefer == defers' = Front(defers) /\ UNCHANGED <<pc, code>>

\* cs.Close closes the listener and waits for its goroutines.
UnwindListener ==
  /\ NextDefer("control")
  /\ CloseListener
  /\ UNCHANGED <<hostVars, resolvedVars, mainVars, unitVars, faults>>

UnwindControl ==
  /\ NextDefer("control")
  /\ CloseWaits
  /\ Undefer
  /\ UNCHANGED <<hostVars, resolvedVars, unitVars, faults>>
  /\ UNCHANGED <<want, dns, catching, signalled, pending>>

\* stop: a later signal has its default action again.
UnwindStop ==
  /\ NextDefer("stop")
  /\ catching' = FALSE
  /\ Undefer
  /\ UNCHANGED <<hostVars, resolvedVars, controlVars, unitVars, faults>>
  /\ UNCHANGED <<want, dns, signalled, pending>>

UnwindResolved ==
  /\ NextDefer("resolved")
  /\ \E stuck \in BOOLEAN : Revert(stuck) /\ MayFail(stuck)
  /\ Undefer
  /\ UNCHANGED <<hostVars, controlVars, unitVars>>
  /\ UNCHANGED <<want, dns, catching, signalled, pending>>

\* dnsServer.Close: Shutdown waits for the queries that are being answered, which
\* has no deadline; that it returns is assumed.
UnwindDNS ==
  /\ NextDefer("dns")
  /\ dns' = FALSE
  /\ Undefer
  /\ UNCHANGED <<hostVars, resolvedVars, controlVars, unitVars, faults>>
  /\ UNCHANGED <<want, catching, signalled, pending>>

UnwindHost ==
  /\ NextDefer("host")
  /\ \E stuck \in BOOLEAN : Close(stuck) /\ MayFail(stuck)
  /\ LinkGone
  /\ Undefer
  /\ UNCHANGED <<controlVars, unitVars>>
  /\ UNCHANGED <<want, dns, catching, signalled, pending>>

UnwindSupervisor ==
  /\ NextDefer("supervisor")
  /\ Undefer
  /\ UNCHANGED <<hostVars, resolvedVars, controlVars, unitVars, faults>>
  /\ UNCHANGED <<want, dns, catching, signalled, pending>>

Unwind ==
  \/ UnwindListener \/ UnwindControl \/ UnwindStop \/ UnwindResolved
  \/ UnwindDNS \/ UnwindHost \/ UnwindSupervisor

-----------------------------------------------------------------------------
\* The end of a process, and the unit.

\* What dies with the process, whatever its state was.
ProcessGone ==
  /\ pc' = "off"
  /\ defers' = <<>>
  /\ code' = 0
  /\ want' = <<>>
  /\ dns' = FALSE
  /\ catching' = FALSE
  /\ signalled' = FALSE
  /\ pending' = FALSE

\* os.Exit: exit status 75 is restarted, 1 is not, 0 is a normal stop.
Exit ==
  /\ pc = "unwind"
  /\ defers = <<>>
  /\ ProcessGone
  /\ unit' = IF goal = "down" \/ code = 0 THEN "inactive"
             ELSE IF code = 75 THEN "restart"
             ELSE "failed"
  /\ shutdown' = "open"
  /\ UNCHANGED <<hostVars, resolvedVars, socket, listening, conn, slots>>
  /\ UNCHANGED <<goal, faults>>

\* A signal or a runtime failure ends the process on the spot.
Dies(u) ==
  /\ pc # "off"
  /\ HostDies
  /\ LinkGone
  /\ ControlDies
  /\ ProcessGone
  /\ unit' = u

\* An uncaught signal is restarted; a Go panic ends with status 2, which is not.
Crash ==
  /\ \E u \in {"restart", "failed"} : Dies(IF goal = "down" THEN "inactive" ELSE u)
  /\ Fault
  /\ UNCHANGED goal

\* systemctl stop sends SIGTERM, which ctx catches once NotifyContext has run
\* and until stop has.
StopUnit ==
  /\ goal = "up"
  /\ goal' = "down"
  /\ \/ catching /\ signalled' = TRUE
        /\ UNCHANGED <<hostVars, resolvedVars, controlVars, unit, faults>>
        /\ UNCHANGED <<pc, defers, code, want, dns, catching, pending>>
     \/ ~catching /\ Dies("inactive") /\ UNCHANGED faults
     \/ pc = "off" /\ unit' = "inactive"
        /\ UNCHANGED <<hostVars, resolvedVars, controlVars, mainVars, faults>>

\* systemctl start, also of a failed unit.
StartUnit ==
  /\ unit \in {"inactive", "failed"}
  /\ goal' = "up"
  /\ unit' = "active"
  /\ pc' = "boot"
  /\ UNCHANGED <<hostVars, resolvedVars, controlVars, faults>>
  /\ UNCHANGED <<defers, code, want, dns, catching, signalled, pending>>

\* RestartSec has passed.
RestartUnit ==
  /\ unit = "restart"
  /\ unit' = "active"
  /\ pc' = "boot"
  /\ UNCHANGED <<hostVars, resolvedVars, controlVars, goal, faults>>
  /\ UNCHANGED <<defers, code, want, dns, catching, signalled, pending>>

-----------------------------------------------------------------------------
\* The environment.

\* A profile's state or targets changed.
Notify ==
  /\ pc \notin {"off", "boot"}
  /\ pending' = TRUE
  /\ UNCHANGED <<hostVars, resolvedVars, controlVars, unitVars, faults>>
  /\ UNCHANGED <<pc, defers, code, want, dns, catching, signalled>>

Administer ==
  /\ pc = "off"
  /\ ConflictChanges \/ DeleteLeftRule
  /\ UNCHANGED <<resolvedVars, controlVars, mainVars, unitVars, faults>>

ControlStep(A) ==
  /\ A
  /\ UNCHANGED <<hostVars, resolvedVars, mainVars, unitVars, faults>>

DialControl(c) == ControlStep(Dial(c))
AcceptControl(c) == ControlStep(AcceptLoop(c))
HandleControl(c) == ControlStep(Handler(c))
CloseShutdownChannel == pc # "off" /\ ControlStep(CloseShutdown)

Startup ==
  \/ Boot \/ Plan \/ CreateDevice \/ SetupDevice \/ TargetsFail \/ Targets
  \/ StartDNS \/ ListenControl

Round == RoundRoutes \/ RoundRevert \/ Configure \/ ConfigureError

Next ==
  \/ Startup \/ Round \/ Unwind \/ Exit
  \/ LoopSignal \/ LoopShutdown \/ LoopChange
  \/ Crash \/ StopUnit \/ StartUnit \/ RestartUnit
  \/ Notify \/ Administer \/ CloseShutdownChannel
  \/ \E c \in Clients : DialControl(c) \/ AcceptControl(c) \/ HandleControl(c)

Spec == Init /\ [][Next]_vars

\* The main goroutine and some handler keep running, and systemd restarts the
\* unit after RestartSec.  Most of their calls have deadlines; that the DNS
\* server's Shutdown and a login's StartConfiguredProfiles (context.Background)
\* return is an assumption.  select picks among its ready cases at random, so one
\* that is ready again and again is taken.  Clients, signals, notifications and
\* faults are not obliged to happen.
FairSpec ==
  /\ Spec
  /\ WF_vars(Startup \/ Round \/ Unwind \/ Exit \/ RestartUnit)
  /\ SF_vars(LoopSignal \/ LoopShutdown)
  /\ WF_vars(\E c \in Clients : HandleControl(c))

-----------------------------------------------------------------------------
\* Properties.

\* Every variable has its type.
TypeOK ==
  /\ HostTypeOK /\ ResolvedTypeOK /\ ControlTypeOK
  /\ pc \in {"off", "boot", "plan", "create", "setup", "targets", "dns", "configure",
            "listen", "loop", "routes", "revert", "unwind"}
  /\ ToSet(defers) \subseteq {"supervisor", "host", "dns", "resolved", "stop", "control"}
  /\ code \in {0, 1, 75}
  /\ want \in Plans \cup {<<>>}
  /\ {dns, catching, signalled, pending} \subseteq BOOLEAN
  /\ unit \in {"active", "restart", "inactive", "failed"}
  /\ goal \in {"up", "down"}
  /\ faults \in 0 .. MaxFaults

\* Whichever return of run is taken, at startup, in the loop or after a fatal
\* conflict, when the deferred calls have run nothing of the daemon is left on
\* the host: no link, route, resolved setting, listener or socket, and no rule
\* but one whose deletion failed or whose process was killed.
NothingLeftAtExit ==
  pc = "unwind" /\ defers = <<>> =>
    /\ ~kernel.link /\ kernel.routes = {}
    /\ kernel.rule => Rule \in leaks
    /\ settings = {}
    /\ ~dns /\ ~socket /\ ~listening

\* A handler of the control socket never runs against closed components: the
\* device and the supervisor, with its engines and database, are closed after
\* the last handler has answered.
HandlersFinishFirst ==
  Handled # {} => {"supervisor", "host"} \subseteq ToSet(defers)

\* When the main loop waits, the table has exactly the routes of the last plan,
\* plus those whose deletion failed; after a failed RouteAdd some are missing
\* until the next change.  RouteAdd meets an existing route only where an
\* earlier deletion failed, never because two profiles share an address.
RoutesFollowTargets ==
  pc = "loop" =>
    /\ kernel.routes \subseteq ToSet(want) \cup leaks
    /\ routeErr = "none" => ToSet(want) \subseteq kernel.routes
    /\ routeErr = "exists" => ToSet(want) \cap leaks # {}

\* When the main loop waits, systemd-resolved has all five settings for the link
\* or none, also when a call of Configure failed in the middle; and as long as it
\* has any, at startup, in a round and while the deferred calls run, the DNS
\* server it is told to ask listens on an address of the link.  Only a failed
\* Revert, or a SetLinkDNS that failed after it took effect, breaks this.
ResolvedInStep ==
  \/ unsure
  \/ /\ pc = "loop" => settings \in {{}, Calls}
     /\ settings # {} => dns /\ kernel.link

\* A caught signal or a restart request ends the process, whatever rounds,
\* handlers and further restart requests are under way.
ShutdownEnds ==
  pc # "off" /\ (signalled \/ shutdown = "closed") ~> pc = "off"

\* After a restart request the daemon is back in its loop with a new process,
\* unless it is stopped meanwhile or a start of it fails, whatever the reason: a
\* failed unit is not restarted.
RestartComesBack ==
  shutdown = "closed" ~>
    (pc = "loop" /\ shutdown = "open") \/ goal = "down" \/ unit = "failed"
===============================================================================

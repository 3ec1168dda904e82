------------------------------- MODULE HostTun -------------------------------
(***************************************************************************)
(* internal/hosttun: the host TUN multitail0, its policy rule of priority  *)
(* 5260 and the /32 routes of its own table, as the kernel holds them and  *)
(* as the Device remembers them.  An operation is a formula over those two *)
(* variables; the Daemon module says when the main goroutine runs it.      *)
(*                                                                         *)
(* The kernel is external: its link, rule and table are modelled by how    *)
(* netlink is used.  The routes and the addresses of a link disappear with *)
(* the link, and the TUN disappears with the process that holds it; a rule *)
(* names a table and stays until it is deleted.                            *)
(***************************************************************************)
EXTENDS Naturals, Sequences, SequencesExt

CONSTANTS
  Dests    \* the IPv4 destinations that may be routed, canonical and effective

VARIABLES
  kernel,    \* what the host has: the TUN link, the rule, the routes of the table
  dev,       \* the Device: whether Create returned one, and the routes it remembers
  routeErr,  \* how the last AddTargets ended
  leaks,     \* history: the rule and the routes whose deletion failed or never ran
  conflict   \* the host has something Create refuses to start next to

hostVars == <<kernel, dev, routeErr, leaks, conflict>>

Rule == "rule"

CleanKernel == [link |-> FALSE, rule |-> FALSE, routes |-> {}]

NoDevice == [open |-> FALSE, routes |-> {}]

HostTypeOK ==
  /\ kernel \in [link : BOOLEAN, rule : BOOLEAN, routes : SUBSET Dests]
  /\ dev \in [open : BOOLEAN, routes : SUBSET Dests]
  /\ routeErr \in {"none", "exists", "failed"}
  /\ leaks \in SUBSET (Dests \cup {Rule})
  /\ conflict \in BOOLEAN

HostInit ==
  /\ kernel = CleanKernel
  /\ dev = NoDevice
  /\ routeErr = "none"
  /\ leaks = {}
  /\ conflict = FALSE

-----------------------------------------------------------------------------
\* Create.

\* CheckNativeTailscale, CheckPoolOverlap, the interface and checkPriorities.
\* A rule that an earlier process left behind counts as an occupied priority.
Refused == conflict \/ kernel.link \/ kernel.rule

\* tun.CreateTUN, and the lookups of the name and the link that follow it.
CreateTUN ==
  /\ ~Refused
  /\ kernel' = [kernel EXCEPT !.link = TRUE]
  /\ dev' = [open |-> TRUE, routes |-> {}]
  /\ UNCHANGED <<routeErr, leaks, conflict>>

\* setup: the two local addresses, link up, and the rule as its last call.
setup ==
  /\ kernel' = [kernel EXCEPT !.rule = TRUE]
  /\ UNCHANGED <<dev, routeErr, leaks, conflict>>

-----------------------------------------------------------------------------
\* Routes.

\* Mutant of RouteAdds: an address shared by two profiles is added twice.
EveryPosition(ips) == DOMAIN ips

\* The seen map of AddTargets: RouteAdd is called at an address's first position.
RouteAdds(ips) == {i \in DOMAIN ips : \A j \in 1 .. (i - 1) : ips[j] # ips[i]}

\* AddTargets, when the table holds `table`: RouteAdd for each address until
\* one of them fails, because the route exists or because of a fault; the n
\* positions before it are done.
AddTargets(table, ips, fault) ==
  LET Exists(i) == ips[i] \in table \cup ToSet(SubSeq(ips, 1, i - 1))
  IN  \E n \in 0 .. Len(ips) :
        /\ \A i \in RouteAdds(ips) : i <= n => ~Exists(i)
        /\ n < Len(ips) => n + 1 \in RouteAdds(ips)
        /\ IF fault THEN n < Len(ips) /\ ~Exists(n + 1) ELSE n < Len(ips) => Exists(n + 1)
        /\ kernel' = [kernel EXCEPT !.routes = table \cup ToSet(SubSeq(ips, 1, n))]
        /\ dev' = [dev EXCEPT !.routes = ToSet(SubSeq(ips, 1, n))]
        /\ routeErr' = IF n = Len(ips) THEN "none" ELSE IF fault THEN "failed" ELSE "exists"

\* ReconcileTargets: delete every remembered route, ignoring the ones whose
\* deletion fails (kept), forget them all, and add the new ones.
ReconcileTargets(ips, kept, fault) ==
  /\ AddTargets((kernel.routes \ dev.routes) \cup kept, ips, fault)
  /\ leaks' = leaks \cup kept
  /\ UNCHANGED conflict

\* Close: routes, rule (its deletion may fail, unseen: stuck) and the TUN; the
\* link takes the routes that are still there with it.  Before setup has filled
\* d.rule in, RuleDel is called with an empty rule, assumed to delete nothing.
Close(stuck) ==
  /\ kernel' = [kernel EXCEPT !.link = FALSE, !.routes = {}, !.rule = @ /\ stuck]
  /\ dev' = NoDevice
  /\ leaks' = (leaks \ Dests) \cup (IF kernel.rule /\ stuck THEN {Rule} ELSE {})
  /\ routeErr' = "none"
  /\ UNCHANGED conflict

\* The process dies without Close: the kernel drops the TUN, the rule stays.
HostDies ==
  /\ kernel' = [kernel EXCEPT !.link = FALSE, !.routes = {}]
  /\ dev' = NoDevice
  /\ leaks' = (leaks \ Dests) \cup (IF kernel.rule THEN {Rule} ELSE {})
  /\ routeErr' = "none"
  /\ UNCHANGED conflict

-----------------------------------------------------------------------------
\* The administrator, while the daemon is not running.

\* tailscaled, an overlapping address or route, or a foreign rule comes or goes.
ConflictChanges ==
  /\ conflict' = ~conflict
  /\ UNCHANGED <<kernel, dev, routeErr, leaks>>

\* `ip rule del` of a rule that was left behind.
DeleteLeftRule ==
  /\ Rule \in leaks
  /\ kernel' = [kernel EXCEPT !.rule = FALSE]
  /\ leaks' = leaks \ {Rule}
  /\ UNCHANGED <<dev, routeErr, conflict>>
===============================================================================

------------------------------ MODULE Resolved ------------------------------
(***************************************************************************)
(* internal/resolved: the client that configures systemd-resolved for the  *)
(* TUN's link with five D-Bus calls, and reverts the link.  The service is *)
(* external; its state is the set of settings the link has.  A call that   *)
(* fails may be one that timed out after it took effect.                   *)
(***************************************************************************)
EXTENDS Naturals

\* SetLinkDNS, SetLinkDNSSEC, SetLinkDNSOverTLS, SetLinkDomains and
\* SetLinkDefaultRoute, by their position in Configure.
Calls == 1 .. 5

VARIABLES
  settings,  \* the calls whose effect the link has
  made,      \* how many calls of the current Configure have returned
  client,    \* main's resolved variable is a client with an open connection
  unsure     \* history: a Revert failed, or a failed SetLinkDNS took effect

resolvedVars == <<settings, made, client, unsure>>

ResolvedTypeOK ==
  /\ settings \in SUBSET Calls
  /\ made \in 0 .. 4
  /\ client \in BOOLEAN
  /\ unsure \in BOOLEAN

ResolvedInit ==
  /\ settings = {}
  /\ made = 0
  /\ client = FALSE
  /\ unsure = FALSE

\* The next of the five calls succeeds; after the fifth Configure returns.
ConfigureCall ==
  /\ settings' = settings \cup {made + 1}
  /\ made' = (made + 1) % 5
  /\ client' = (made = 4)
  /\ unsure' = (unsure /\ made # 4)

\* Mutant of ConfigureFails: a failing call returns without Revert.
ConfigureFailsHalfway(effect, stuck) ==
  /\ made' = 0
  /\ client' = FALSE
  /\ settings' = IF effect THEN settings \cup {made + 1} ELSE settings
  /\ unsure' = (unsure \/ stuck)

\* The next call fails, with or without effect.  After SetLinkDNS the
\* connection is closed and nothing more; later calls revert the link, which
\* may fail as well (stuck).
ConfigureFails(effect, stuck) ==
  /\ made' = 0
  /\ client' = FALSE
  /\ LET left == IF effect THEN settings \cup {made + 1} ELSE settings IN
       IF made = 0
       THEN settings' = left /\ unsure' = (unsure \/ (effect /\ 1 \notin settings))
       ELSE settings' = (IF stuck THEN left ELSE {}) /\ unsure' = stuck

\* Revert on main's client, if it has one; its error is ignored.
Revert(stuck) ==
  /\ client' = FALSE
  /\ settings' = IF client /\ ~stuck THEN {} ELSE settings
  /\ unsure' = IF client THEN stuck ELSE unsure
  /\ UNCHANGED made

\* The link disappears, and its settings with it.
LinkGone ==
  /\ settings' = {}
  /\ made' = 0
  /\ client' = FALSE
  /\ unsure' = FALSE
===============================================================================

----------------------------- MODULE MCSupervisor -----------------------------
(* Instances of Supervisor: one profile with a full engine, and two profiles  *)
(* that may run with the same MagicDNS suffix.                                *)
EXTENDS Supervisor

SameSuffix == [p \in Profiles |-> "tailnet"]
OwnSuffix == [p \in Profiles |-> p]
===============================================================================

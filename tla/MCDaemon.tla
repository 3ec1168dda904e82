------------------------------- MODULE MCDaemon -------------------------------
(* Instance of Daemon: a shared canonical address c, and the effective         *)
(* addresses e and f of the two targets that have it.                          *)
EXTENDS Daemon

\* No target, one, and two with one canonical address.
PlansShared == {<<>>, <<"c", "e">>, <<"c", "c", "e", "f">>}
===============================================================================

-------------------------------- MODULE MCMux ---------------------------------
(* Instances of Mux: two tailnets that share a canonical address, and one     *)
(* tailnet with more conversations than its tables have room for.             *)
EXTENDS Mux

LeaseOf == [t \in Targets |-> <<"effective", t>>]

\* A pool inside 100.64.0.0/10: the lease of the second tailnet's peer is the canonical
\* address of both.
LeaseShared == [t \in Targets |-> IF t[1] = 2 THEN t[2] ELSE <<"effective", t>>]
===============================================================================

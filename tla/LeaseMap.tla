------------------------------- MODULE LeaseMap -------------------------------
(***************************************************************************)
(* What the lease service promises the rest of the daemon: one durable     *)
(* table in which a key, once granted an address, keeps it, no address is  *)
(* granted twice, and only granted addresses are put to use.  The table is *)
(* emptied as a whole, and only while nothing is in use.                   *)
(*                                                                         *)
(* The allocator, the order of its probes, the database statements,        *)
(* crashes and restarts are hidden; Leases implements this as long as no   *)
(* two calls of EffectiveLeases overlap.                                   *)
(***************************************************************************)
CONSTANTS Keys, Addresses, NoIP

VARIABLES
  table,  \* the granted address of each key
  inUse   \* the leases that are routed and translated by

Nothing == [k \in Keys |-> NoIP]

Init == table = Nothing /\ inUse = Nothing

\* A key without an address is granted one that no key has.
Grant ==
  /\ \E k \in Keys, ip \in Addresses :
       /\ table[k] = NoIP
       /\ \A j \in Keys : table[j] # ip
       /\ table' = [table EXCEPT ![k] = ip]
  /\ UNCHANGED inUse

\* The leases of some keys, granted to the last one, are put to use.
Publish ==
  /\ \E K \in SUBSET Keys :
       /\ \A k \in K : table[k] # NoIP
       /\ inUse' = [k \in Keys |-> IF k \in K THEN table[k] ELSE NoIP]
  /\ UNCHANGED table

\* The process ends, and with it the use of every lease.
Withdraw == inUse' = Nothing /\ UNCHANGED table

\* Another pool, or a database that was lost: every key starts anew.
Reset ==
  /\ inUse = Nothing
  /\ table' = Nothing
  /\ UNCHANGED inUse

Next == Grant \/ Publish \/ Withdraw \/ Reset

Spec == Init /\ [][Next]_<<table, inUse>>
===============================================================================

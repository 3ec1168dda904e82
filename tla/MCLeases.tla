------------------------------- MODULE MCLeases -------------------------------
(* Instances of Leases.  Addresses are 0 .. 15; the CIDRs are a pool of eight  *)
(* addresses (five leaseable), one of four (one leaseable) and the whole       *)
(* address space, whose `total` wraps to zero.                                 *)
EXTENDS Leases

Pool5 == [base |-> 8, size |-> 8]
Pool1 == [base |-> 4, size |-> 4]
PoolAll == [base |-> 0, size |-> 16]

CidrsAmple == {Pool5}
CidrsTight == {Pool5, Pool1}
CidrsMixed == {Pool5, Pool1, PoolAll}

\* Keys 1 and 2 start probing at the same address, key 3 at the next one.
HashColliding == [k \in Keys |-> IF k = 3 THEN 6 ELSE 5]
===============================================================================

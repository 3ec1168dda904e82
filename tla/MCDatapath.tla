------------------------------ MODULE MCDatapath ------------------------------
(* Instance of Datapath: one device whose engine keeps reading, one whose      *)
(* engine may stall.                                                           *)
EXTENDS Datapath

CONSTANTS a, b

\* Two packets from one engine fill its queue and make it wait.
SentByA == [d \in Devices |-> IF d = a THEN 2 ELSE 0]
===============================================================================

------------------------------ MODULE MCChecksum ------------------------------
(* Instance of Checksum: words of four bits, with all-zeros, all-ones and      *)
(* carrying addresses.                                                         *)
EXTENDS Checksum
===============================================================================

----------------------------- MODULE MCProfileSet -----------------------------
(* Instances of ProfileSet: names, ids and handlers are interchangeable.      *)
EXTENDS ProfileSet, TLC

Symmetry == Permutations(Ids) \cup Permutations(Names) \cup Permutations(Handlers)
===============================================================================

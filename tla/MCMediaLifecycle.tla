-------------------------- MODULE MCMediaLifecycle --------------------------
(* Small instances of MediaLifecycle: the tasks are presets of medium m1.   *)
EXTENDS MediaLifecycle, TLC

CONSTANT m1

OneMedium == [t \in Tasks |-> m1]

\* No property tells clients apart.
ClientSymmetry == Permutations(Clients)
=============================================================================

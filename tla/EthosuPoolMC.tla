---------------------------- MODULE EthosuPoolMC ----------------------------
(* Threads are interchangeable, and so are drivers: none is named in the     *)
(* specification.                                                            *)
EXTENDS EthosuPool, TLC

Symmetry == Permutations(Threads) \cup Permutations(Drivers)
=============================================================================

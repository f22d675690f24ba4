---------------------------- MODULE MCClientBond ----------------------------
(***************************************************************************)
(* Values for the constants of ClientBond, and the symmetry that holds:    *)
(* goroutines of one kind are interchangeable.                             *)
(***************************************************************************)
EXTENDS ClientBond, TLC

CONSTANTS s1, s2, eth0, wlan0

\* Two WANs on two interfaces, or a single one.
TwoIfaces == (s1 :> eth0) @@ (s2 :> wlan0)
OneWan    == (s1 :> eth0)

ThreadSymmetry == Permutations(RouteThreads) \cup Permutations(HelloThreads)
=============================================================================

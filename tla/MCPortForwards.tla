--------------------------- MODULE MCPortForwards ---------------------------
(* Instances of PortForwards for TLC.                                        *)
EXTENDS PortForwards, TLC

CONSTANTS f1, f2, c1, p1, k1, k2

(* Two forwards of one cluster, f2 opened by a query: a sweep of the cluster *)
(* takes both, a stop of all f1 only.                                        *)
TwoClusterOf == f1 :> c1 @@ f2 :> c1
(* f1 asks for p1, f2 takes what the operating system offers.                *)
TwoWanted == f1 :> p1 @@ f2 :> AnyPort
(* Stoppers are interchangeable: no constant tells one from another.         *)
StopperSymmetry == Permutations(Stoppers)

OneClusterOf == f1 :> c1
OneWanted == f1 :> p1
=============================================================================

--------------------------- MODULE MCDownstream ---------------------------
(* Instances of Downstream for TLC. *)
EXTENDS Downstream, TLC

CONSTANTS da, db, c1, c2, w1, w2, w3, east, west, u1, u2

Asks(n, u, c, w) == [name |-> n, url |-> u, cps |-> c, workers |-> w]
\* Two names, two addresses of Rancher, and nodes that change their cluster and role, or
\* that are part of another cluster's.
MCConfigs == {Asks(east, u1, <<c1>>, <<w1, w2>>), Asks(west, u1, <<c2>>, <<w3, w2>>),
              Asks(west, u2, <<c1, c2>>, <<w1>>), Asks(east, u1, <<w1, c1>>, <<c2, w2>>),
              Asks(west, u1, <<c1>>, <<w1>>)}
\* The same nodes under two names.
MCRenamed == {Asks(n, u1, <<c1>>, <<w1, w2>>) : n \in {east, west}}
MCSymmetry == Permutations(Runs)
=============================================================================

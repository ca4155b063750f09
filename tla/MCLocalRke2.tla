---------------------------- MODULE MCLocalRke2 ----------------------------
(* Instances of LocalRke2 for TLC. *)
EXTENDS LocalRke2, TLC

CONSTANTS r1, r2, s1, s2, s3, v1, v2

Asks(v, m, o) == [version |-> v, mode |-> m, order |-> o]
\* Two releases, two ways to get them and two first servers of three, as in the program.
MCConfigs == {Asks(v1, "online", <<s1, s2, s3>>), Asks(v2, "online", <<s1, s2, s3>>),
              Asks(v1, "online", <<s2, s1, s3>>), Asks(v1, "offline", <<s1, s2, s3>>)}
\* The name of the first release is a part of the other's.
MCPartOf == {<<v1, v2>>}
MCSymmetry == Permutations(Runs)
=============================================================================

-------------------------- MODULE MCArtifactLookup --------------------------
(* Instances of ArtifactLookup for TLC.                                    *)
EXTENDS ArtifactLookup, TLC

CONSTANTS ra, rb, rc, d1, d2, none

\* A component run, and workflows without and with its component.
MCTargets == {{"local-rke2"}, Prefix(2), Prefix(4)}
=============================================================================

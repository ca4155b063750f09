---------------------------- MODULE MCControlHost ---------------------------
(* The instance of ControlHost for TLC.                                    *)
EXTENDS ControlHost, TLC

CONSTANTS ra, rb, m1, m2, none

\* A vm execution that replaces the container under one that works in it.
MCComponent == (ra :> "vm") @@ (rb :> "node-init")
MCStrategy == (ra :> "create") @@ (rb :> "reuse")
MCWanted == (ra :> {m1, m2}) @@ (rb :> {})
=============================================================================

----------------------------- MODULE MCPlanning -----------------------------
(* Instances of Planning for TLC.                                          *)
EXTENDS Planning, TLC

CONSTANTS d1, d2, p1, p2, f1, f2, n1, n2, none

\* A list for each set of checks a preflight makes; lists out of order, with a name
\* twice, of a scope no tool takes; and lists that are refused.
MCRequested ==
  {<<"vm">>, <<"node-init">>, <<"downstream">>, <<"all">>,
   Reverse(ComponentOrder), <<"node-init", "vm", "node-init">>, <<"rancher", "downstream">>,
   <<>>, <<"all", "vm">>, <<"vm", "other">>}

MCNodes == <<n1, n2>>

\* Selected is the list comprehension of service.py:1339 over COMPONENT_ORDER.
ASSUME SelectedIsTheComprehension ==
  \A names \in SUBSET Components :
    Selected(names) = SelectSeq(ComponentOrder, LAMBDA c : c \in names)
=============================================================================

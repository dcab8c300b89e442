----------------------------- MODULE MCClaimTTL -----------------------------
(* Settings for ClaimTTL: a template that says everything, one that leaves    *)
(* all to the defaults, an unlimited one and one with a negative TTL.         *)
EXTENDS ClaimTTL

Fields(s, e, m) == [seconds |-> s, extend |-> e, max |-> m]

Unset == Fields(0, 0, 0)
Fallbacks == Fields(2, 1, 1)
Configured == Fields(3, 0, 0)
Mixed == {Unset, Fields(4, 1, 1), Fields(-1, 0, 0), Fields(-5, 1, 7)}
Long == {Fields(9, 0, 0)}
Asked == {0, -5}
Plain == {0}
=============================================================================

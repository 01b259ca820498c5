-------------------------- MODULE MCUpstreamRaces --------------------------
(* An instance of UpstreamRaces for TLC.                                   *)
EXTENDS UpstreamRaces, TLC

CONSTANTS w1, w2, g1, g2

Symmetry == Permutations(Admins)

\* Two requests with a restart and no outage, or one request, more
\* authentications at a time, and both.
SafetyBudgets == {[requests |-> 2, auths |-> 1, outages |-> 0, crashes |-> 1],
                  [requests |-> 1, auths |-> 2, outages |-> 1, crashes |-> 1]}
=============================================================================

----------------------------- MODULE MCUpstream -----------------------------
(* Small instances of Upstream for TLC.                                    *)
EXTENDS Upstream

CONSTANTS w1, w2, g1, g2

LifeBudgets == {[requests |-> 2, auths |-> 1, outages |-> 1, crashes |-> 1]}
StuckBudgets == {[requests |-> 1, auths |-> 1, outages |-> 1, crashes |-> 0]}
=============================================================================

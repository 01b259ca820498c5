---------------------------- MODULE Membership ----------------------------
(***************************************************************************)
(* What the rest of the program may rely on about the manager's list of    *)
(* upstreams: an upstream can be missing for a while and come back, but    *)
(* one whose DELETE was answered never comes back (ids are not reused, the *)
(* table is AUTOINCREMENT).  Roster implements it, Gateway builds on it.   *)
(***************************************************************************)
CONSTANT Servers

VARIABLES
    listed,     \* the upstreams Online and ByID can return
    removed     \* the upstreams the admin page deleted

membership == <<listed, removed>>

MembershipInit ==
    /\ listed \in SUBSET Servers
    /\ removed = {}

\* Adding, reordering and reloading the list.
Relist(S) ==
    /\ S \subseteq Servers \ removed
    /\ listed' = S
    /\ UNCHANGED removed

\* A bug to catch: the row is deleted, the upstream stays in the list.
LeaveListed(s) ==
    /\ s \in listed
    /\ removed' = removed \cup {s}
    /\ UNCHANGED listed

\* Manager.Remove: only an upstream of the list can be deleted.
Leave(s) ==
    /\ s \in listed
    /\ listed' = listed \ {s}
    /\ removed' = removed \cup {s}

MembershipNext ==
    \/ \E S \in SUBSET Servers : Relist(S)
    \/ \E s \in Servers : Leave(s)

MembershipSpec == MembershipInit /\ [][MembershipNext]_membership
=============================================================================

------------------------------ MODULE Roster ------------------------------
(***************************************************************************)
(* The manager's list of upstreams and the rows it is loaded from          *)
(* (internal/upstream/manager.go): Add, Remove, Reorder, loadFromDB, with  *)
(* the admin page that sends the order of the list it loaded some time     *)
(* ago.  It implements Membership.                                         *)
(***************************************************************************)
EXTENDS Naturals, Sequences, SequencesExt

CONSTANT RosterIds      \* the ids of the table, each given out once

VARIABLES
    rows,       \* the table upstreams
    prio,       \* its column priority
    list,       \* m.upstreams
    adding,     \* rows inserted by an Add that has not yet appended them
    page,       \* what the admin page shows
    deleted,    \* history: ids whose row was deleted
    late        \* history: listed upstreams no Reorder has placed yet

rosterVars == <<rows, prio, list, adding, page, deleted, late>>

RosterInit ==
    /\ rows = {} /\ list = <<>> /\ adding = {} /\ page = {}
    /\ prio = [s \in RosterIds |-> 0]
    /\ deleted = {} /\ late = {}

\* The INSERT leaves priority at its default, 0.
InsertRow(s) ==
    /\ s \notin rows \cup deleted
    /\ rows' = rows \cup {s} /\ adding' = adding \cup {s}
    /\ UNCHANGED <<prio, list, page, deleted, late>>

AppendUpstream(s) ==
    /\ s \in adding
    /\ list' = Append(list, s)
    /\ adding' = adding \ {s} /\ late' = late \cup {s}
    /\ UNCHANGED <<rows, prio, page, deleted>>

\* A bug to catch: the row is left.
RemoveRowLeft(s) ==
    /\ \E i \in DOMAIN list : list[i] = s /\ list' = RemoveAt(list, i)
    /\ deleted' = deleted \cup {s}
    /\ UNCHANGED <<rows, prio, adding, page, late>>

RemoveRow(s) ==
    /\ \E i \in DOMAIN list : list[i] = s /\ list' = RemoveAt(list, i)
    /\ rows' = rows \ {s}
    /\ deleted' = deleted \cup {s}
    /\ UNCHANGED <<prio, adding, page, late>>

LoadPage ==
    /\ page' = ToSet(list)
    /\ UNCHANGED <<rows, prio, list, adding, deleted, late>>

\* The loop over ids: those of the list are appended one by one.
Ordered(ids, S) ==
    LET ordered[n \in 0 .. Len(ids)] ==
            IF n = 0 THEN <<>>
            ELSE IF ids[n] \in S THEN Append(ordered[n - 1], ids[n])
            ELSE ordered[n - 1]
    IN  ordered[Len(ids)]

\* The rows named get their place as priority; the list keeps what is named.
Reorder(ids) ==
    /\ prio' = [s \in RosterIds |->
                  IF s \in rows \cap ToSet(ids)
                  THEN (CHOOSE i \in DOMAIN ids : ids[i] = s) - 1 ELSE prio[s]]
    /\ list' = Ordered(ids, ToSet(list))
    /\ late' = late \ ToSet(ids)
    /\ UNCHANGED <<rows, adding, page, deleted>>

\* A bug to catch: loadFromDB without ORDER BY.
ReloadUnsorted ==
    /\ list' \in SetToSeqs(rows)
    /\ adding' = {} /\ late' = {}
    /\ UNCHANGED <<rows, prio, page, deleted>>

\* ORDER BY priority, ties in any order.
ByPriority(S) ==
    {q \in SetToSeqs(S) : \A i, j \in DOMAIN q : i < j => prio[q[i]] <= prio[q[j]]}

\* A restart.
Reload ==
    /\ list' \in ByPriority(rows)
    /\ adding' = {} /\ late' = {}
    /\ UNCHANGED <<rows, prio, page, deleted>>

\* A restart whose query fails, which leaves the list empty, or that cannot
\* read some of the rows, which it leaves out.
ReloadFails ==
    /\ \E S \in SUBSET rows : list' \in ByPriority(S)
    /\ adding' = {} /\ late' = {}
    /\ UNCHANGED <<rows, prio, page, deleted>>

RosterNext ==
    \/ \E s \in RosterIds : InsertRow(s) \/ AppendUpstream(s) \/ RemoveRow(s)
    \/ LoadPage
    \/ \E ids \in SetToSeqs(page) : Reorder(ids)
    \/ Reload
    \/ ReloadFails

RosterSpec == RosterInit /\ [][RosterNext]_rosterVars

\* The order requests are served in is the order a restart would load, except
\* for upstreams added since the last Reorder: those go to the end now and
\* may come first then.
OrderIsStored ==
    \A i, j \in DOMAIN list :
        i < j => prio[list[i]] <= prio[list[j]] \/ list[j] \in late

Abstract == INSTANCE Membership WITH
    Servers <- RosterIds, listed <- ToSet(list), removed <- deleted

\* Whatever order adding, deleting, reordering with an old page and
\* restarting happen in, an upstream that was deleted does not come back.
RosterIsMembership == Abstract!MembershipSpec
=============================================================================

---------------------------- MODULE Aggregate ----------------------------
(***************************************************************************)
(* The aggregator: one list or search request becomes one call per online  *)
(* upstream, each in a goroutine of its own, and one answer                *)
(* (internal/aggregator/aggregator.go), while the admin page removes       *)
(* upstreams (internal/admin/api.go).                                      *)
(*                                                                         *)
(* The id store is used as IdMapStore shows it to behave when the database *)
(* answers and nothing restarts: one virtual id per item until the item's  *)
(* server is cleaned up, and at most one instance per server.  A virtual   *)
(* id is the pair of the item and of whether its server had been cleaned   *)
(* up when the id was made.  Of an item the model keeps its server, the    *)
(* key lists are deduplicated by and whether its name is Chinese.          *)
(***************************************************************************)
EXTENDS Naturals, Sequences, FiniteSets, FiniteSetsExt, SequencesExt

CONSTANTS
    Requests,       \* client requests, each made at most once
    Servers,        \* upstreams the manager starts with
    Items,          \* what the upstreams' libraries hold
    SrvOf,          \* the server of an item
    Key,            \* buildDedupKey of an item
    Chinese,        \* the items with a Chinese name
    PriorityMeta,   \* the servers with priorityMetadata set
    Library,        \* what each server lists at the top
    Contents,       \* what a server lists under one of its items
    MaxRemovals,    \* how many upstreams the admin removes
    None

ASSUME ConstantsAssumption ==
    /\ SrvOf \in [Items -> Servers]
    /\ Library \in [Servers -> Seq(Items)]
    /\ Contents \in [Items -> Seq(Items)]
    /\ \A s \in Servers : \A i \in Range(Library[s]) : SrvOf[i] = s
    /\ \A i \in Items : \A j \in Range(Contents[i]) : SrvOf[j] = SrvOf[i]
    /\ Chinese \subseteq Items
    /\ PriorityMeta \subseteq Servers
    /\ MaxRemovals \in Nat
    /\ None \notin Items /\ None \notin Items \X BOOLEAN
    /\ IsFiniteSet(Servers)

VARIABLES
    \* the manager's list and the id store
    listed,     \* upstreams in the manager's list
    cleaned,    \* servers CleanupServer was called for
    bound,      \* virtual ids the store resolves
    inst,       \* instances of an item's present virtual id
    \* one request
    mpc,        \* where its goroutine is
    kind,       \* AggregateItems or AggregateSearch
    about,      \* virtual id in the path, None for the top of the library
    snap,       \* Online() when it began
    before,     \* history: the requests answered when it began
    expired,    \* its context: timed out, or the client went away
    items,      \* allItems
    ids,        \* the virtual ids in its answer
    merged,     \* dedup: one item per group done so far
    adding,     \* dedup: virtual id whose instances are being added
    \* its calls, one per upstream
    wpc,        \* where the goroutine is
    asked,      \* the item it asks its upstream about, None for the top
    chan        \* the channel results

store == <<bound, inst>>
admin == <<listed, cleaned>>
request == <<kind, about, snap, before>>
answer == <<items, ids, merged, adding>>
calls == <<wpc, asked>>
vars == <<store, admin, request, expired, mpc, answer, calls, chan>>

-----------------------------------------------------------------------------
(* The id store                                                            *)

VirtualIds == Items \X BOOLEAN

\* A bug to catch: a server that is gone lists its items under their old ids.
VidAsBefore(i) == <<i, FALSE>>

\* What GetOrCreate returns for an item, and what it leaves behind.
Vid(i) == <<i, SrvOf[i] \in cleaned>>
VidsOf(S) == {Vid(i) : i \in S}

\* A bug to catch: the item is taken without looking at its server.
OriginalsForAny(v, s) ==
    IF v \in bound THEN {v[1]} ELSE {}

\* A bug to catch: the instances are forgotten.
OriginalsForMain(v, s) ==
    IF v \in bound /\ SrvOf[v[1]] = s THEN {v[1]} ELSE {}

\* originalIDForUpstream: the item of server s that virtual id v stands for.
OriginalsFor(v, s) ==
    IF v \notin bound THEN {}
    ELSE IF SrvOf[v[1]] = s THEN {v[1]}
    ELSE {i \in inst[v[1]] : SrvOf[i] = s}

\* AddInstance for the items at these positions of a list in turn: the last of
\* a server stays.
WithInstances(old, seq, positions) ==
    LET last == {n \in positions :
                   \A m \in positions : SrvOf[seq[m]] = SrvOf[seq[n]] => m <= n}
    IN  {i \in old : \A n \in positions : SrvOf[seq[n]] # SrvOf[i]} \cup {seq[n] : n \in last}

-----------------------------------------------------------------------------
(* Deduplication.  A group is the set of its positions in allItems.        *)

Group(seq, k) == {n \in DOMAIN seq : Key[seq[n]] = k}

\* selectPrimary: the first of group[1:] on a server with priority, else the
\* first with a Chinese name, else the first.  It never looks whether the
\* first item of the group is itself on a server with priority.
SelectPrimary(seq, g) ==
    LET preferred == {n \in g \ {Min(g)} : SrvOf[seq[n]] \in listed \cap PriorityMeta}
        chinese == {n \in g : seq[n] \in Chinese}
    IN  CASE preferred # {} -> seq[Min(preferred)]
          [] preferred = {} /\ chinese # {} -> seq[Min(chinese)]
          [] OTHER -> seq[Min(g)]

-----------------------------------------------------------------------------
Init ==
    /\ listed = Servers /\ cleaned = {}
    /\ bound = {} /\ inst = [i \in Items |-> {}]
    /\ mpc = [r \in Requests |-> "new"]
    /\ kind = [r \in Requests |-> "items"]
    /\ about = [r \in Requests |-> None]
    /\ snap = [r \in Requests |-> {}]
    /\ before = [r \in Requests |-> {}]
    /\ expired = [r \in Requests |-> FALSE]
    /\ items = [r \in Requests |-> <<>>]
    /\ ids = [r \in Requests |-> {}]
    /\ merged = [r \in Requests |-> {}]
    /\ adding = [r \in Requests |-> None]
    /\ wpc = [r \in Requests |-> [s \in Servers |-> "none"]]
    /\ asked = [r \in Requests |-> [s \in Servers |-> None]]
    /\ chan = [r \in Requests |-> <<>>]

\* Virtual ids clients were given.
Shown == UNION {ids[r] : r \in {q \in Requests : mpc[q] = "answered"}}

\* ctx.Done() of the aggregation: it is cancelled on return as well.
Cancelled(r) == expired[r] \/ mpc[r] \in {"answered", "refused"}

(* A request arrives: for the library or for something the client was      *)
(* shown.  Which of the listed upstreams are online is up to Upstream.     *)
Start(r, k, v, online) ==
    /\ mpc[r] = "new"
    /\ kind' = [kind EXCEPT ![r] = k]
    /\ about' = [about EXCEPT ![r] = v]
    /\ snap' = [snap EXCEPT ![r] = online]
    /\ before' = [before EXCEPT ![r] = {q \in Requests : mpc[q] = "answered"}]
    /\ mpc' = [mpc EXCEPT ![r] = IF online = {} THEN "answered" ELSE "asking"]
    /\ UNCHANGED <<store, admin, expired, answer, calls, chan>>

(* One turn of the loop over the online upstreams: a goroutine is started  *)
(* when the path can be written for the upstream, else it is left out.     *)
Ask(r, s) ==
    /\ mpc[r] = "asking"
    /\ s \in snap[r] /\ wpc[r][s] = "none"
    /\ IF about[r] = None
       THEN /\ wpc' = [wpc EXCEPT ![r][s] = "calling"]
            /\ UNCHANGED asked
       ELSE \/ \E i \in OriginalsFor(about[r], s) :
                 /\ wpc' = [wpc EXCEPT ![r][s] = "calling"]
                 /\ asked' = [asked EXCEPT ![r][s] = i]
            \/ /\ OriginalsFor(about[r], s) = {}
               /\ wpc' = [wpc EXCEPT ![r][s] = "left_out"]
               /\ UNCHANGED asked
    /\ UNCHANGED <<store, admin, request, expired, mpc, answer, chan>>

AskedAll(r) ==
    /\ mpc[r] = "asking"
    /\ \A s \in snap[r] : wpc[r][s] # "none"
    /\ mpc' = [mpc EXCEPT ![r] = "waiting"]
    /\ UNCHANGED <<store, admin, request, expired, answer, calls, chan>>

(***************************************************************************)
(* The goroutine of one upstream                                           *)
(***************************************************************************)

Listing(s, i) == IF i = None THEN Library[s] ELSE Contents[i]

\* The call returns an answer; its status code is not looked at, and a body
\* that is not a list counts as an empty one.
CallAnswered(r, s) ==
    /\ wpc[r][s] = "calling"
    /\ wpc' = [wpc EXCEPT ![r][s] = "answered"]
    /\ UNCHANGED <<store, admin, request, expired, mpc, answer, asked, chan>>

\* The call fails: refused, broken off, or given up with its context.  The
\* error is sent, too, and makes the receiver log it and go on.
CallFailed(r, s) ==
    /\ wpc[r][s] = "calling"
    /\ wpc' = [wpc EXCEPT ![r][s] = "failed"]
    /\ UNCHANGED <<store, admin, request, expired, mpc, answer, asked, chan>>

\* A bug to catch: the call is not bound to the context.
CallGivenUpNever(r, s) == FALSE

\* DoAPI is given the context and returns once it is done.
CallGivenUp(r, s) == Cancelled(r) /\ CallFailed(r, s)

\* A search virtualizes the hints before it sends them.
VirtualizeHints(r, s) ==
    IF kind[r] = "search"
    THEN bound' = bound \cup VidsOf(Range(Listing(s, asked[r][s])))
    ELSE UNCHANGED bound

Result(r, s) ==
    LET list == Listing(s, asked[r][s]) IN
    IF kind[r] = "search"
    THEN [items |-> <<>>, ids |-> VidsOf(Range(list))]
    ELSE [items |-> list, ids |-> {}]

\* A bug to catch: the goroutine goes on after it has sent its result.
SendAndStay(r, s) ==
    /\ wpc[r][s] = "answered"
    /\ VirtualizeHints(r, s)
    /\ chan' = [chan EXCEPT ![r] = Append(@, Result(r, s))]
    /\ UNCHANGED <<inst, admin, request, expired, mpc, answer, calls>>

\* The channel has room for every goroutine's result, so this never waits.
Send(r, s) ==
    /\ wpc[r][s] = "answered"
    /\ VirtualizeHints(r, s)
    /\ chan' = [chan EXCEPT ![r] = Append(@, Result(r, s))]
    /\ wpc' = [wpc EXCEPT ![r][s] = "sent"]
    /\ UNCHANGED <<inst, admin, request, expired, mpc, answer, asked>>

\* With the context done as well, select may take that branch.
Drop(r, s) ==
    /\ wpc[r][s] = "answered"
    /\ Cancelled(r)
    /\ VirtualizeHints(r, s)
    /\ wpc' = [wpc EXCEPT ![r][s] = "dropped"]
    /\ UNCHANGED <<inst, admin, request, expired, mpc, answer, asked, chan>>

(***************************************************************************)
(* The receiving loop                                                      *)
(***************************************************************************)

Ended == {"none", "left_out", "failed", "sent", "dropped"}

Receive(r) ==
    /\ mpc[r] = "waiting"
    /\ chan[r] # <<>>
    /\ items' = [items EXCEPT ![r] = @ \o Head(chan[r]).items]
    /\ ids' = [ids EXCEPT ![r] = @ \cup Head(chan[r]).ids]
    /\ chan' = [chan EXCEPT ![r] = Tail(@)]
    /\ UNCHANGED <<store, admin, request, expired, mpc, merged, adding, calls>>

\* A bug to catch: the channel is closed when one goroutine has ended.
ClosedEarly(r) ==
    /\ mpc[r] = "waiting"
    /\ chan[r] = <<>>
    /\ \E s \in Servers : wpc[r][s] \in Ended \ {"none"}
    /\ mpc' = [mpc EXCEPT ![r] = IF kind[r] = "search" THEN "answered" ELSE "merging"]
    /\ UNCHANGED <<store, admin, request, expired, answer, calls, chan>>

\* The channel is closed once every goroutine has ended, and empty.
Closed(r) ==
    /\ mpc[r] = "waiting"
    /\ chan[r] = <<>>
    /\ \A s \in Servers : wpc[r][s] \in Ended
    /\ mpc' = [mpc EXCEPT ![r] = IF kind[r] = "search" THEN "answered" ELSE "merging"]
    /\ UNCHANGED <<store, admin, request, expired, answer, calls, chan>>

\* The context is done: the request fails, whatever has been received.
Refuse(r) ==
    /\ mpc[r] = "waiting"
    /\ expired[r]
    /\ mpc' = [mpc EXCEPT ![r] = "refused"]
    /\ UNCHANGED <<store, admin, request, expired, answer, calls, chan>>

(***************************************************************************)
(* encodeItems: groups in any order, as a Go map is walked                 *)
(***************************************************************************)

\* A group of one is taken as it is; of a larger one the primary gets its
\* virtual id.
Merge(r, k) ==
    /\ mpc[r] = "merging"
    /\ adding[r] = None
    /\ k \in {Key[i] : i \in Range(items[r])} \ {Key[i] : i \in merged[r]}
    /\ LET g == Group(items[r], k)
           primary == IF Cardinality(g) = 1 THEN items[r][Min(g)] ELSE SelectPrimary(items[r], g)
       IN  /\ merged' = [merged EXCEPT ![r] = @ \cup {primary}]
           /\ IF Cardinality(g) = 1
              THEN UNCHANGED <<bound, adding>>
              ELSE /\ bound' = bound \cup {Vid(primary)}
                   /\ adding' = [adding EXCEPT ![r] = Vid(primary)]
    /\ UNCHANGED <<inst, admin, request, expired, mpc, items, ids, calls, chan>>

\* The other items of the group become instances of the primary.
AddInstances(r) ==
    /\ adding[r] # None
    /\ LET v == adding[r]
           others == {n \in Group(items[r], Key[v[1]]) : items[r][n] # v[1]}
       IN  inst' = IF v \in bound
                   THEN [inst EXCEPT ![v[1]] = WithInstances(@, items[r], others)]
                   ELSE inst
    /\ adding' = [adding EXCEPT ![r] = None]
    /\ UNCHANGED <<bound, admin, request, expired, mpc, items, ids, merged, calls, chan>>

\* Every merged item is virtualized, and the answer written.
Encode(r) ==
    /\ mpc[r] = "merging"
    /\ adding[r] = None
    /\ {Key[i] : i \in Range(items[r])} = {Key[i] : i \in merged[r]}
    /\ bound' = bound \cup VidsOf(merged[r])
    /\ ids' = [ids EXCEPT ![r] = VidsOf(merged[r])]
    /\ mpc' = [mpc EXCEPT ![r] = "answered"]
    /\ UNCHANGED <<inst, admin, request, expired, items, merged, adding, calls, chan>>

-----------------------------------------------------------------------------
(* timeouts.aggregate runs out, or the client goes away.                   *)
Expire(r) ==
    /\ mpc[r] \in {"asking", "waiting", "merging"}
    /\ ~expired[r]
    /\ expired' = [expired EXCEPT ![r] = TRUE]
    /\ UNCHANGED <<store, admin, request, mpc, answer, calls, chan>>

(* DELETE /api/upstreams/{id}: first the manager, then the id store, whose *)
(* instances on that server stay in the memory of other virtual ids.       *)
RemoveUpstream(s) ==
    /\ s \in listed
    /\ Cardinality(Servers \ listed) < MaxRemovals
    /\ listed' = listed \ {s}
    /\ UNCHANGED <<cleaned, store, request, expired, mpc, answer, calls, chan>>

\* A bug to catch: ids go with the instances on the server.
CleanupOfInstances(s) ==
    /\ s \notin listed /\ s \notin cleaned
    /\ cleaned' = cleaned \cup {s}
    /\ bound' = {v \in bound : s \notin {SrvOf[i] : i \in {v[1]} \cup inst[v[1]]}}
    /\ inst' = [i \in Items |-> IF SrvOf[i] = s THEN {} ELSE inst[i]]
    /\ UNCHANGED <<listed, request, expired, mpc, answer, calls, chan>>

Cleanup(s) ==
    /\ s \notin listed /\ s \notin cleaned
    /\ cleaned' = cleaned \cup {s}
    /\ bound' = {v \in bound : SrvOf[v[1]] # s}
    /\ inst' = [i \in Items |-> IF SrvOf[i] = s THEN {} ELSE inst[i]]
    /\ UNCHANGED <<listed, request, expired, mpc, answer, calls, chan>>

-----------------------------------------------------------------------------
Handle(r) ==
    \/ \E s \in Servers : Ask(r, s)
    \/ AskedAll(r)
    \/ Receive(r)
    \/ Closed(r)
    \/ Refuse(r)
    \/ \E i \in Items : Merge(r, Key[i])
    \/ AddInstances(r)
    \/ Encode(r)

Worker(r, s) ==
    \/ CallAnswered(r, s)
    \/ CallFailed(r, s)
    \/ Send(r, s)
    \/ Drop(r, s)

Next ==
    \/ \E r \in Requests, k \in {"items", "search"}, v \in Shown \cup {None},
          online \in SUBSET listed : Start(r, k, v, online)
    \/ \E r \in Requests : Handle(r) \/ Expire(r)
    \/ \E r \in Requests, s \in Servers : Worker(r, s)
    \/ \E s \in Servers : RemoveUpstream(s) \/ Cleanup(s)

Spec == Init /\ [][Next]_vars

(* Goroutines run; timeouts.aggregate is positive: every context expires   *)
(* in the end; a call whose context is done returns.  That an upstream     *)
(* answers is not assumed.                                                 *)
Fairness ==
    \A r \in Requests :
        /\ WF_vars(Handle(r))
        /\ WF_vars(Expire(r))
        /\ \A s \in Servers :
              /\ WF_vars(Send(r, s) \/ Drop(r, s))
              /\ WF_vars(CallGivenUp(r, s))

FairSpec == Spec /\ Fairness

-----------------------------------------------------------------------------
Types ==
    /\ listed \subseteq Servers /\ cleaned \subseteq Servers \ listed
    /\ bound \subseteq VirtualIds
    /\ inst \in [Items -> SUBSET Items]
    /\ mpc \in [Requests -> {"new", "asking", "waiting", "merging", "answered", "refused"}]
    /\ kind \in [Requests -> {"items", "search"}]
    /\ about \in [Requests -> VirtualIds \cup {None}]
    /\ snap \in [Requests -> SUBSET Servers]
    /\ before \in [Requests -> SUBSET Requests]
    /\ expired \in [Requests -> BOOLEAN]
    /\ items \in [Requests -> Seq(Items)]
    /\ ids \in [Requests -> SUBSET VirtualIds]
    /\ merged \in [Requests -> SUBSET Items]
    /\ adding \in [Requests -> VirtualIds \cup {None}]
    /\ wpc \in [Requests -> [Servers -> Ended \cup {"calling", "answered"}]]
    /\ asked \in [Requests -> [Servers -> Items \cup {None}]]
    /\ chan \in [Requests -> Seq([items : Seq(Items), ids : SUBSET VirtualIds])]

\* Every variable has its type, and a channel never holds more than it has
\* room for (make(chan result, len(onlineUpstreams)), aggregator.go:88, 165).
TypeOK ==
    /\ Types
    /\ \A r \in Requests : Len(chan[r]) <= Cardinality(snap[r])

\* What the client can reach of item i with virtual id v: the item itself, or
\* one with its key on the same server.
StandsFor(v, i) ==
    /\ Key[v[1]] = Key[i]
    /\ \E j \in {v[1]} \cup inst[v[1]] : SrvOf[j] = SrvOf[i] /\ Key[j] = Key[i]

\* A request that was answered in time has lost nothing that an upstream
\* answered: each item is in the answer, or is reached through the item its
\* group was merged into (aggregator.go:130-147, 378-409).  An upstream that
\* has been removed takes its instances along.
NoAnswerLost ==
    \A r \in Requests : mpc[r] = "answered" /\ ~expired[r] =>
        \A s \in snap[r] \cap listed :
            wpc[r][s] \in {"answered", "sent", "dropped"} =>
                \A i \in Range(Listing(s, asked[r][s])) :
                    \E v \in ids[r] :
                        IF kind[r] = "search" THEN v = Vid(i)
                        ELSE \/ StandsFor(v, i)
                             \/ Key[v[1]] = Key[i] /\ SrvOf[v[1]] \notin listed

\* What one list merged opens everywhere: a later request about a virtual id
\* the client was given asks each online upstream that the id's group came
\* from, and asks it about its own item with the same key
\* (aggregator.go:399-400, 585-601).
OpensEverywhere ==
    \A q, r \in Requests :
        /\ q \in before[r] /\ kind[q] = "items"
        /\ about[r] \in ids[q] /\ SrvOf[about[r][1]] \in listed
        => \A i \in Range(items[q]) :
             LET s == SrvOf[i] IN
             Key[i] = Key[about[r][1]] /\ s \in snap[r] \cap listed
                => wpc[r][s] # "left_out"

\* A call names an item of the upstream it goes to, and one that is the same
\* title as what the client asked about, whichever lists have merged it and
\* whatever was removed in between (aggregator.go:556-601).
RightUpstream ==
    \A r \in Requests, s \in Servers :
        LET i == asked[r][s] IN
        i # None => SrvOf[i] = s /\ Key[i] = Key[about[r][1]]

\* Every request is answered or refused, and leaves no goroutine behind,
\* even when an upstream never answers (aggregator.go:79-80, 97-122).
EveryRequestEnds ==
    \A r \in Requests :
        mpc[r] = "asking" ~> /\ mpc[r] \in {"answered", "refused"}
                             /\ \A s \in Servers : wpc[r][s] \in Ended

\* The id of an item: it never has two.
IdOf(i) ==
    CASE <<i, FALSE>> \in bound /\ <<i, TRUE>> \notin bound -> <<i, FALSE>>
      [] <<i, TRUE>> \in bound /\ <<i, FALSE>> \notin bound -> <<i, TRUE>>
      [] OTHER -> None

\* The virtual ids of the answers, as a directory: a server that has been
\* cleaned up has used up the first ids of its items.
ServerOf(i) == SrvOf[i]
Directory == INSTANCE IdDirectory WITH
    Keys <- Items, Vids <- VirtualIds, Srv <- ServerOf,
    bound <- [i \in Items |-> IdOf(i)],
    drawn <- bound \cup {<<i, FALSE>> : i \in {j \in Items : SrvOf[j] \in cleaned}}

\* What the requests do with the id store, together and in any order, is what
\* an IdDirectory allows: an item keeps the id it was given, in whichever
\* list and by whichever of the requests that list it at once, and its server
\* being cleaned up is all that takes it away; one listed late, by a call in
\* progress when its server was removed, gets an id no client has seen
\* (aggregator.go:373-409, idmap/store.go:48-97, 215-245).
IdsAreDirectory == Directory!Spec

\* README.md:121, "priorityMetadata: whether this upstream's metadata is
\* preferred": a merged item is the one of an upstream with priority if the
\* group has one.
PriorityDecides ==
    \A r \in Requests : \A p \in merged[r] :
        (\E i \in Range(items[r]) : Key[i] = Key[p] /\ SrvOf[i] \in PriorityMeta \cap listed)
            => SrvOf[p] \in PriorityMeta

=============================================================================

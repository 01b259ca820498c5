----------------------------- MODULE EventHub -----------------------------
(***************************************************************************)
(* The event stream of the admin page (SSEHub in internal/admin/api.go):   *)
(* handlers and the traffic timer broadcast, each page has a channel of    *)
(* its own, filled without waiting and emptied as fast as the page reads.  *)
(***************************************************************************)
EXTENDS Naturals, Sequences, FiniteSets, SequencesExt

CONSTANTS
    Pages,          \* connections to /admin/api/traffic/stream
    Broadcasters,   \* goroutines that call Broadcast
    ChannelCap,     \* capacity of a channel: 16
    MaxEvents       \* bound: events broadcast in all

VARIABLES
    joined,     \* h.clients
    queue,      \* the channel of each page
    pending,    \* the pages a Broadcast in progress has still to serve
    count,      \* history: events each broadcaster has begun
    owed,       \* history: events begun while a page was in h.clients
    got,        \* history: what it read, in order
    missed      \* history: events dropped because its channel was full

hubVars == <<joined, queue, pending, count, owed, got, missed>>
Event(b) == <<b, count[b]>>

HubInit ==
    /\ joined = {} /\ queue = [p \in Pages |-> <<>>]
    /\ pending = [b \in Broadcasters |-> {}]
    /\ count = [b \in Broadcasters |-> 0]
    /\ owed = [p \in Pages |-> {}] /\ got = [p \in Pages |-> <<>>]
    /\ missed = [p \in Pages |-> {}]

Broadcasting == \E b \in Broadcasters : pending[b] # {}

\* h.mu.Lock waits for the broadcasts in progress, which hold h.mu.RLock.
Join(p) ==
    /\ p \notin joined /\ ~Broadcasting
    /\ joined' = joined \cup {p}
    /\ queue' = [queue EXCEPT ![p] = <<>>]
    /\ owed' = [owed EXCEPT ![p] = {}] /\ got' = [got EXCEPT ![p] = <<>>]
    /\ missed' = [missed EXCEPT ![p] = {}]
    /\ UNCHANGED <<pending, count>>

Part(p) ==
    /\ p \in joined /\ ~Broadcasting
    /\ joined' = joined \ {p}
    /\ UNCHANGED <<queue, pending, count, owed, got, missed>>

ReadEvent(p) ==
    /\ p \in joined /\ queue[p] # <<>>
    /\ got' = [got EXCEPT ![p] = Append(@, Head(queue[p]))]
    /\ queue' = [queue EXCEPT ![p] = Tail(@)]
    /\ UNCHANGED <<joined, pending, count, owed, missed>>

Broadcast(b) ==
    /\ pending[b] = {} /\ joined # {} /\ FoldFunction(+, 0, count) < MaxEvents
    /\ count' = [count EXCEPT ![b] = @ + 1]
    /\ pending' = [pending EXCEPT ![b] = joined]
    /\ owed' = [p \in Pages |-> IF p \in joined THEN owed[p] \cup {<<b, count[b] + 1>>} ELSE owed[p]]
    /\ UNCHANGED <<joined, queue, got, missed>>

\* A bug to catch: the send waits for room.
OfferWaits(b, p) ==
    /\ p \in pending[b] /\ Len(queue[p]) < ChannelCap
    /\ pending' = [pending EXCEPT ![b] = @ \ {p}]
    /\ queue' = [queue EXCEPT ![p] = Append(@, Event(b))]
    /\ UNCHANGED <<joined, count, owed, got, missed>>

\* A bug to catch: an event too many is put in the place of the oldest.
OfferReplaces(b, p) ==
    /\ p \in pending[b]
    /\ pending' = [pending EXCEPT ![b] = @ \ {p}]
    /\ queue' = [queue EXCEPT ![p] =
                    IF Len(@) < ChannelCap THEN Append(@, Event(b)) ELSE <<Event(b)>> \o Tail(@)]
    /\ UNCHANGED <<joined, count, owed, got, missed>>

\* select with a default: a full channel loses the event.
Offer(b, p) ==
    /\ p \in pending[b]
    /\ pending' = [pending EXCEPT ![b] = @ \ {p}]
    /\ IF Len(queue[p]) < ChannelCap
       THEN queue' = [queue EXCEPT ![p] = Append(@, Event(b))] /\ UNCHANGED missed
       ELSE missed' = [missed EXCEPT ![p] = @ \cup {Event(b)}] /\ UNCHANGED queue
    /\ UNCHANGED <<joined, count, owed, got>>

HubOffer == \E b \in Broadcasters, p \in Pages : Offer(b, p)

HubNext ==
    \/ \E p \in Pages : Join(p) \/ Part(p) \/ ReadEvent(p)
    \/ \E b \in Broadcasters : Broadcast(b)
    \/ HubOffer

HubSpec == HubInit /\ [][HubNext]_hubVars

Streamed(p) == got[p] \o queue[p]

\* A page gets each event broadcast while it was connected exactly once, or
\* not at all because its channel was full at that moment, and the events of
\* one broadcaster in the order they were sent; only a broadcast in progress
\* still owes it one.
EventsInOrder ==
    \A p \in joined :
        LET s == Streamed(p)
        IN  /\ \A i, j \in DOMAIN s : i < j /\ s[i][1] = s[j][1] => s[i][2] < s[j][2]
            /\ ToSet(s) \cap missed[p] = {}
            /\ owed[p] = ToSet(s) \cup missed[p]
                         \cup {Event(b) : b \in {x \in Broadcasters : p \in pending[x]}}

\* A page that stops reading never holds up a handler: every broadcast ends.
BroadcastsEnd == \A b \in Broadcasters : pending[b] # {} ~> pending[b] = {}
=============================================================================

---------------------------- MODULE StatusLocks ----------------------------
(***************************************************************************)
(* The lock of an upstream while the admin page reads the status           *)
(* (internal/admin/api.go): the handler holds u.Mu.RLock and calls         *)
(* EffectivePlaybackMode (internal/upstream/manager.go), which takes it    *)
(* again.  An RWMutex admits no new reader while a writer waits; Online    *)
(* asks for u.Mu with the manager's own read lock held, and Remove,        *)
(* Reorder and Add wait for that one.                                      *)
(***************************************************************************)
EXTENDS Naturals, FiniteSets

CONSTANTS
    StatusReaders,  \* handleStatus and GET upstreams
    OnlineReaders,  \* Online
    Writers,        \* authenticate, Update, the health check: u.Mu.Lock
    ListWriters     \* Add, Remove, Reorder: m.mu.Lock

ASSUME LocksAssumption ==
    /\ StatusReaders \cap OnlineReaders = {} /\ Writers \cap ListWriters = {}
    /\ (StatusReaders \cup OnlineReaders) \cap (Writers \cup ListWriters) = {}

VARIABLES
    at,         \* where each goroutine is
    caught      \* history: a writer began to wait between a status reader's two locks

lockVars == <<at, caught>>
Goroutines == StatusReaders \cup OnlineReaders \cup Writers \cup ListWriters
In(S, places) == \E g \in S : at[g] \in places

\* u.Mu
Holding == In(StatusReaders, {"first", "both"}) \/ In(OnlineReaders, {"both"})
Writing == In(Writers, {"holding"})
Waiting == In(Writers, {"waiting"})
Admitted == ~Writing /\ ~Waiting       \* RLock returns
Unheld == ~Holding /\ ~Writing         \* Lock returns
\* m.mu
ListHolding == In(OnlineReaders, {"first", "both"})
ListWriting == In(ListWriters, {"holding"})
ListWaiting == In(ListWriters, {"waiting"})
ListAdmitted == ~ListWriting /\ ~ListWaiting
ListUnheld == ~ListHolding /\ ~ListWriting

LocksInit == at = [g \in Goroutines |-> "idle"] /\ caught = FALSE

Move(g, from, to) == at[g] = from /\ at' = [at EXCEPT ![g] = to]

\* A bug to catch: the handler returns early and keeps the lock.
StatusEndsLocked(g) == Move(g, "both", "first") /\ UNCHANGED caught

\* handleStatus: RLock, EffectivePlaybackMode's RLock, both released.
StatusFirst(g) == Admitted /\ Move(g, "idle", "first") /\ UNCHANGED caught
StatusSecond(g) == Admitted /\ Move(g, "first", "both") /\ UNCHANGED caught
StatusEnds(g) == Move(g, "both", "idle") /\ UNCHANGED caught

\* Online: m.mu.RLock, then u.Mu.RLock.
OnlineFirst(g) == ListAdmitted /\ Move(g, "idle", "first") /\ UNCHANGED caught
OnlineSecond(g) == Admitted /\ Move(g, "first", "both") /\ UNCHANGED caught
OnlineEnds(g) == Move(g, "both", "idle") /\ UNCHANGED caught

\* A writer that calls Lock keeps new readers out from then on.
WriterCalls(g) ==
    /\ Move(g, "idle", "waiting")
    /\ caught' = (caught \/ In(StatusReaders, {"first"}))
WriterLocks(g) == Unheld /\ Move(g, "waiting", "holding") /\ UNCHANGED caught
WriterEnds(g) == Move(g, "holding", "idle") /\ UNCHANGED caught

ListWriterCalls(g) == Move(g, "idle", "waiting") /\ UNCHANGED caught
ListWriterLocks(g) == ListUnheld /\ Move(g, "waiting", "holding") /\ UNCHANGED caught
ListWriterEnds(g) == Move(g, "holding", "idle") /\ UNCHANGED caught

\* What a goroutine does once it has begun.
LocksGoOn ==
    \/ \E g \in StatusReaders : StatusSecond(g) \/ StatusEnds(g)
    \/ \E g \in OnlineReaders : OnlineSecond(g) \/ OnlineEnds(g)
    \/ \E g \in Writers : WriterLocks(g) \/ WriterEnds(g)
    \/ \E g \in ListWriters : ListWriterLocks(g) \/ ListWriterEnds(g)

LocksNext ==
    \/ LocksGoOn
    \/ \E g \in StatusReaders : StatusFirst(g)
    \/ \E g \in OnlineReaders : OnlineFirst(g)
    \/ \E g \in Writers : WriterCalls(g)
    \/ \E g \in ListWriters : ListWriterCalls(g)

LocksSpec == LocksInit /\ [][LocksNext]_lockVars

\* Goroutine g has begun, and no lock it asks for keeps it waiting.
MayGoOn(g) ==
    \/ at[g] \in {"both", "holding"}
    \/ at[g] = "first" /\ Admitted
    \/ at[g] = "waiting" /\ (g \in Writers => Unheld) /\ (g \in ListWriters => ListUnheld)

\* Somebody who has begun can go on: the goroutines never all wait for each
\* other, unless a writer came to wait between the two read locks of the
\* status handler.  (Then reader and writer wait for ever, and everybody
\* who asks for the upstream, or with Online for the list, after them.)
SomebodyGoesOn ==
    caught \/ \A g \in Goroutines : at[g] # "idle" => \E h \in Goroutines : MayGoOn(h)
=============================================================================

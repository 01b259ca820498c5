-------------------------- MODULE Services_proofs --------------------------
(***************************************************************************)
(* Proofs about the smaller parts of the program that share nothing with   *)
(* each other: the event stream of the admin page, the list of upstreams,  *)
(* the logger, the image cache, the locks under the status page and the    *)
(* traffic meter, for any number of pages, upstreams, entries, images,     *)
(* requests and streams and any sizes.                                     *)
(***************************************************************************)
EXTENDS EventHub, Roster, LogFiles, ImageCache, StatusLocks, Meter, TLAPS,
        SequenceTheorems, FiniteSetTheorems, WellFoundedInduction

-----------------------------------------------------------------------------
\* The event stream.

Events == Broadcasters \X Nat

HubTypes ==
    /\ joined \in SUBSET Pages
    /\ queue \in [Pages -> Seq(Events)]
    /\ pending \in [Broadcasters -> SUBSET Pages]
    /\ count \in [Broadcasters -> Nat]
    /\ owed \in [Pages -> SUBSET Events]
    /\ got \in [Pages -> Seq(Events)]
    /\ missed \in [Pages -> SUBSET Events]

\* A sequence of events has those of each broadcaster in order.
Ascending(s) ==
    \A i, j \in DOMAIN s : i < j /\ s[i][1] = s[j][1] => s[i][2] < s[j][2]

\* The events in a set have begun, and page p has been offered them.
Offered(p, S) ==
    \A e \in S : /\ e[2] <= count[e[1]]
                 /\ p \in pending[e[1]] => e[2] < count[e[1]]

\* The events that broadcasts in progress still owe a page.
Due(p) == {Event(b) : b \in {x \in Broadcasters : p \in pending[x]}}

StreamInv(p) ==
    /\ Ascending(Streamed(p))
    /\ Offered(p, ToSet(Streamed(p)) \cup missed[p])
    /\ ToSet(Streamed(p)) \cap missed[p] = {}
    /\ owed[p] = ToSet(Streamed(p)) \cup missed[p] \cup Due(p)

\* The inductive form of EventsInOrder: what a page has got or missed was
\* offered to it before, so what is offered next is new and comes last.
HubInv ==
    /\ \A b \in Broadcasters : pending[b] \subseteq joined
    /\ \A p \in joined : StreamInv(p)

\* A step that does not touch what the stream of a page is judged by.
LEMMA SameStream ==
  ASSUME NEW q, StreamInv(q), Streamed(q)' = Streamed(q), missed'[q] = missed[q],
         owed'[q] = owed[q], count' = count, pending' = pending
  PROVE  StreamInv(q)'
  <1>1. Ascending(Streamed(q))' /\ ToSet(Streamed(q))' = ToSet(Streamed(q))
    BY DEF StreamInv, Ascending, ToSet
  <1>2. Due(q)' = Due(q)
    BY DEF Due, Event
  <1>3. Offered(q, ToSet(Streamed(q)) \cup missed[q])'
    BY <1>1 DEF StreamInv, Offered
  <1> QED
    BY <1>1, <1>2, <1>3 DEF StreamInv

\* Appending to the second of two sequences appends to both together.
LEMMA AppendToBoth ==
  ASSUME NEW S, NEW s \in Seq(S), NEW t \in Seq(S), NEW x \in S
  PROVE  s \o Append(t, x) = Append(s \o t, x)
  <1> DEFINE u == <<x>>
  <1>1. u \in Seq(S)
    OBVIOUS
  <1>2. Append(t, x) = t \o u
    BY AppendIsConcat
  <1>3. Append(s \o t, x) = (s \o t) \o u
    <2>1. s \o t \in Seq(S)
      BY ConcatProperties
    <2> QED
      BY <2>1, AppendIsConcat
  <1> HIDE DEF u
  <1>4. (s \o t) \o u = s \o (t \o u)
    BY <1>1, ConcatAssociative
  <1> QED
    BY <1>2, <1>3, <1>4, Zenon

\* Moving an element from the front of the second sequence to the end of the
\* first leaves the two together as they are.
LEMMA MoveAcross ==
  ASSUME NEW S, NEW s \in Seq(S), NEW t \in Seq(S), t # <<>>
  PROVE  Append(s, Head(t)) \o Tail(t) = s \o t
  <1> DEFINE u == <<Head(t)>>
  <1>1. Head(t) \in S /\ Tail(t) \in Seq(S) /\ u \in Seq(S)
    BY HeadTailProperties
  <1>2. Append(s, Head(t)) = s \o u
    BY <1>1, AppendIsConcat
  <1>3. t = u \o Tail(t)
    BY <1>1
  <1> HIDE DEF u
  <1> DEFINE v == Tail(t)
  <1>4. (s \o u) \o v = s \o (u \o v)
    <2>1. v \in Seq(S)
      BY <1>1
    <2> HIDE DEF v
    <2> QED
      BY <1>1, <2>1, ConcatAssociative
  <1> QED
    BY <1>2, <1>3, <1>4, Zenon

\* An event after all the others of its broadcaster keeps the order.
LEMMA AppendAscending ==
  ASSUME NEW s \in Seq(Events), Ascending(s), NEW e \in Events,
         \A i \in DOMAIN s : s[i][1] = e[1] => s[i][2] < e[2]
  PROVE  /\ Append(s, e) \in Seq(Events)
         /\ Ascending(Append(s, e))
         /\ ToSet(Append(s, e)) = ToSet(s) \cup {e}
  <1> DEFINE r == Append(s, e)
  <1>1. /\ r \in Seq(Events) /\ DOMAIN s = 1 .. Len(s) /\ DOMAIN r = 1 .. Len(s) + 1
        /\ Len(s) \in Nat
        /\ \A i \in 1 .. Len(s) : r[i] = s[i]
        /\ r[Len(s) + 1] = e
    OBVIOUS
  <1>2. Ascending(r)
    <2> SUFFICES ASSUME NEW i \in 1 .. Len(s) + 1, NEW j \in 1 .. Len(s) + 1,
                        i < j, r[i][1] = r[j][1]
                 PROVE  r[i][2] < r[j][2]
      BY <1>1 DEF Ascending
    <2>1. i \in 1 .. Len(s)
      BY <1>1
    <2>2. CASE j = Len(s) + 1
      BY <1>1, <2>1, <2>2
    <2>3. CASE j \in 1 .. Len(s)
      BY <1>1, <2>1, <2>3 DEF Ascending
    <2> QED
      BY <1>1, <2>2, <2>3
  <1>3. ToSet(r) = ToSet(s) \cup {e}
    BY <1>1 DEF ToSet
  <1> QED
    BY <1>1, <1>2, <1>3

\* Before anybody has joined.
LEMMA HubStarts == HubInit => HubTypes /\ HubInv
  BY DEF HubInit, HubTypes, HubInv, StreamInv, Events

\* Joining starts an empty stream; no broadcast in progress can owe it anything.
LEMMA HubJoin ==
  ASSUME HubTypes, HubInv, NEW p \in Pages, Join(p)
  PROVE  HubTypes' /\ HubInv'
  <1>1. HubTypes'
    BY DEF Join, HubTypes
  <1>2. \A b \in Broadcasters : pending[b] = {}
    BY DEF Join, Broadcasting
  <1>3. ASSUME NEW q \in joined'
        PROVE  /\ Ascending(Streamed(q))'
               /\ Offered(q, ToSet(Streamed(q)) \cup missed[q])'
               /\ (ToSet(Streamed(q)) \cap missed[q] = {})'
               /\ (owed[q] = ToSet(Streamed(q)) \cup missed[q] \cup Due(q))'
    <2>1. Due(q)' = {} /\ Due(q) = {}
      BY <1>2 DEF Join, Due
    <2>2. CASE q = p
      <3>1. /\ Streamed(q)' = <<>> /\ missed'[q] = {} /\ owed'[q] = {}
        BY <2>2 DEF Join, HubTypes, Streamed
      <3>2. ToSet(Streamed(q))' = {}
        BY <3>1 DEF ToSet
      <3> QED
        BY <2>1, <3>1, <3>2 DEF Ascending, Offered
    <2>3. CASE q # p
      <3>1. q \in joined /\ q \in Pages
        BY <2>3 DEF Join, HubTypes
      <3>2. /\ Streamed(q)' = Streamed(q) /\ missed'[q] = missed[q] /\ owed'[q] = owed[q]
            /\ count' = count /\ pending' = pending
        BY <2>3, <3>1 DEF Join, HubTypes, Streamed
      <3> QED
        BY <2>1, <3>1, <3>2 DEF HubInv, StreamInv, Ascending, Offered, ToSet
    <2> QED
      BY <2>2, <2>3
  <1> QED
    BY <1>1, <1>2, <1>3 DEF HubInv, StreamInv, Join

\* A page that leaves takes its stream with it.
LEMMA HubPart ==
  ASSUME HubTypes, HubInv, NEW p \in Pages, Part(p)
  PROVE  HubTypes' /\ HubInv'
  <1>1. HubTypes'
    BY DEF Part, HubTypes
  <1>2. /\ joined' \subseteq joined
        /\ \A b \in Broadcasters : pending[b] = {}
        /\ UNCHANGED <<queue, pending, count, owed, got, missed>>
    BY DEF Part, Broadcasting
  <1>3. ASSUME NEW q \in joined PROVE StreamInv(q)'
    <2>1. StreamInv(q) /\ Streamed(q)' = Streamed(q)
      BY <1>2 DEF HubInv, Streamed
    <2> QED
      BY <1>2, <2>1, SameStream
  <1>4. \A b \in Broadcasters : pending'[b] \subseteq joined'
    BY <1>2
  <1> QED
    BY <1>1, <1>2, <1>3, <1>4 DEF HubInv

\* Reading takes an event from the channel to the page.
LEMMA HubRead ==
  ASSUME HubTypes, HubInv, NEW p \in Pages, ReadEvent(p)
  PROVE  HubTypes' /\ HubInv'
  <1>1. queue[p] \in Seq(Events) /\ queue[p] # <<>> /\ got[p] \in Seq(Events)
    BY DEF ReadEvent, HubTypes
  <1>2. /\ Head(queue[p]) \in Events /\ Tail(queue[p]) \in Seq(Events)
        /\ Append(got[p], Head(queue[p])) \in Seq(Events)
        /\ queue'[p] = Tail(queue[p]) /\ got'[p] = Append(got[p], Head(queue[p]))
    BY <1>1 DEF ReadEvent, HubTypes
  <1>3. HubTypes'
    BY <1>2 DEF ReadEvent, HubTypes
  <1>4. ASSUME NEW q \in Pages PROVE Streamed(q)' = Streamed(q)
    <2>1. CASE q = p
      <3>1. Append(got[p], Head(queue[p])) \o Tail(queue[p]) = got[p] \o queue[p]
        BY <1>1, MoveAcross
      <3> QED
        BY <1>2, <2>1, <3>1 DEF Streamed
    <2>2. CASE q # p
      BY <2>2 DEF Streamed, ReadEvent, HubTypes
    <2> QED
      BY <2>1, <2>2
  <1>5. UNCHANGED <<joined, pending, count, owed, missed>>
    BY DEF ReadEvent
  <1>6. ASSUME NEW q \in joined PROVE StreamInv(q)'
    <2>1. q \in Pages /\ StreamInv(q)
      BY DEF HubInv, HubTypes
    <2> QED
      BY <1>4, <1>5, <2>1, SameStream
  <1> QED
    BY <1>3, <1>5, <1>6 DEF HubInv

\* A new event is owed to every page that is connected.
LEMMA HubBroadcast ==
  ASSUME HubTypes, HubInv, NEW b \in Broadcasters, Broadcast(b)
  PROVE  HubTypes' /\ HubInv'
  <1> DEFINE e == <<b, count[b] + 1>>
  <1>1. HubTypes'
    <2>1. count[b] + 1 \in Nat /\ e \in Events
      BY DEF HubTypes, Events
    <2>2. owed' \in [Pages -> SUBSET Events]
      <3>1. owed' = [p \in Pages |-> IF p \in joined THEN owed[p] \cup {e} ELSE owed[p]]
        BY DEF Broadcast
      <3>2. \A p \in Pages : owed[p] \in SUBSET Events
        BY DEF HubTypes
      <3> QED
        BY ONLY <2>1, <3>1, <3>2
    <2>3. count' \in [Broadcasters -> Nat] /\ pending' \in [Broadcasters -> SUBSET Pages]
      BY <2>1 DEF Broadcast, HubTypes
    <2> QED
      BY <2>2, <2>3 DEF Broadcast, HubTypes
  <1>2. /\ pending[b] = {} /\ count[b] \in Nat
        /\ UNCHANGED <<joined, queue, got, missed>>
        /\ \A x \in Broadcasters : /\ count'[x] = IF x = b THEN count[b] + 1 ELSE count[x]
                                   /\ pending'[x] = IF x = b THEN joined ELSE pending[x]
    BY DEF Broadcast, HubTypes
  <1>3. ASSUME NEW q \in joined
        PROVE  /\ Offered(q, ToSet(Streamed(q)) \cup missed[q])'
               /\ Due(q)' = Due(q) \cup {e}
               /\ owed'[q] = owed[q] \cup {e}
               /\ Streamed(q)' = Streamed(q)
    <2>1. Streamed(q)' = Streamed(q) /\ ToSet(Streamed(q))' = ToSet(Streamed(q)) /\ missed' = missed
      BY <1>2 DEF Streamed, ToSet
    <2>2. ToSet(Streamed(q)) \cup missed[q] \subseteq Events
      <3>1. q \in Pages
        BY DEF HubTypes
      <3>2. Streamed(q) \in Seq(Events)
        BY <3>1 DEF Streamed, HubTypes
      <3> QED
        BY <3>1, <3>2 DEF HubTypes, ToSet
    <2>3. Offered(q, ToSet(Streamed(q)) \cup missed[q])
      BY DEF HubInv, StreamInv
    <2>4. ASSUME NEW d \in ToSet(Streamed(q)) \cup missed[q]
          PROVE  /\ d[2] <= count'[d[1]]
                 /\ q \in pending'[d[1]] => d[2] < count'[d[1]]
      <3>1. d[1] \in Broadcasters /\ d[2] \in Nat /\ count[d[1]] \in Nat
        BY <2>2 DEF Events, HubTypes
      <3> QED
        BY <1>2, <2>3, <3>1 DEF Offered
    <2>5. Due(q)' = Due(q) \cup {e}
      <3>1. \A x \in Broadcasters : Event(x)' = IF x = b THEN e ELSE Event(x)
        BY <1>2 DEF Event
      <3>2. \A x \in Broadcasters : q \in pending'[x] <=> x = b \/ q \in pending[x]
        BY <1>2
      <3> QED
        BY <1>2, <3>1, <3>2 DEF Due
    <2>6. owed'[q] = owed[q] \cup {e}
      BY DEF Broadcast, HubTypes
    <2> QED
      BY <2>1, <2>4, <2>5, <2>6 DEF Offered
  <1>4. \A x \in Broadcasters : pending'[x] \subseteq joined'
    BY <1>2 DEF HubInv, StreamInv
  <1>5. ASSUME NEW q \in joined'
        PROVE  /\ Ascending(Streamed(q))'
               /\ (ToSet(Streamed(q)) \cap missed[q] = {})'
               /\ (owed[q] = ToSet(Streamed(q)) \cup missed[q] \cup Due(q))'
    <2>1. q \in joined
      BY <1>2
    <2>2. /\ Streamed(q)' = Streamed(q) /\ ToSet(Streamed(q))' = ToSet(Streamed(q))
          /\ missed'[q] = missed[q]
      <3>1. Streamed(q)' = Streamed(q) /\ missed'[q] = missed[q]
        BY <1>2, <1>3, <2>1
      <3> QED
        BY <3>1 DEF ToSet
    <2> QED
      BY <1>3, <2>1, <2>2 DEF HubInv, StreamInv, Ascending
  <1> QED
    BY <1>1, <1>2, <1>3, <1>4, <1>5 DEF HubInv, StreamInv

\* An offer ends in the channel or is missed; either way it is the page's last
\* of this broadcaster.
LEMMA HubOffers ==
  ASSUME HubTypes, HubInv, NEW b \in Broadcasters, NEW p \in Pages, Offer(b, p)
  PROVE  HubTypes' /\ HubInv'
  <1> DEFINE e == Event(b)
  <1>1. /\ p \in pending[b] /\ p \in joined /\ e \in Events
        /\ e[1] = b /\ e[2] = count[b] /\ count[b] \in Nat
    BY DEF Offer, HubTypes, HubInv, StreamInv, Event, Events
  <1>2. /\ UNCHANGED <<joined, count, owed, got>>
        /\ \A x \in Broadcasters :
             pending'[x] = IF x = b THEN pending[b] \ {p} ELSE pending[x]
        /\ pending' \in [Broadcasters -> SUBSET Pages]
    BY DEF Offer, HubTypes
  <1>3. \A q \in joined : /\ q \in Pages /\ Streamed(q) \in Seq(Events)
                          /\ ToSet(Streamed(q)) \cup missed[q] \subseteq Events
    <2> SUFFICES ASSUME NEW q \in joined
                 PROVE  /\ q \in Pages /\ Streamed(q) \in Seq(Events)
                        /\ ToSet(Streamed(q)) \cup missed[q] \subseteq Events
      OBVIOUS
    <2>1. q \in Pages
      BY DEF HubTypes
    <2>2. Streamed(q) \in Seq(Events)
      BY <2>1 DEF Streamed, HubTypes
    <2> QED
      BY <2>1, <2>2 DEF HubTypes, ToSet
  <1>4. \A d \in ToSet(Streamed(p)) \cup missed[p] : d[1] = b => d[2] < count[b]
    BY <1>1 DEF HubInv, StreamInv, Offered
  <1>5. e \notin ToSet(Streamed(p)) \cup missed[p]
    BY <1>1, <1>4
  <1>6. \/ /\ queue' = [queue EXCEPT ![p] = Append(@, e)]
           /\ missed' = missed
        \/ /\ missed' = [missed EXCEPT ![p] = @ \cup {e}]
           /\ queue' = queue
    BY DEF Offer
  <1>7. HubTypes'
    <2>1. queue' \in [Pages -> Seq(Events)]
      <3>1. queue \in [Pages -> Seq(Events)] /\ queue[p] \in Seq(Events)
        BY DEF HubTypes
      <3>2. Append(queue[p], e) \in Seq(Events)
        BY ONLY <1>1, <3>1, AppendProperties
      <3> QED
        BY ONLY <1>6, <3>1, <3>2
    <2>2. missed' \in [Pages -> SUBSET Events]
      <3>1. missed \in [Pages -> SUBSET Events] /\ missed[p] \cup {e} \in SUBSET Events
        BY <1>1 DEF HubTypes
      <3> QED
        BY ONLY <1>6, <3>1
    <2> QED
      BY <1>2, <2>1, <2>2 DEF HubTypes
  <1>8. /\ ToSet(Streamed(p))' \cup missed'[p] = ToSet(Streamed(p)) \cup missed[p] \cup {e}
        /\ ToSet(Streamed(p))' \cap missed'[p] = {}
        /\ Ascending(Streamed(p))'
    <2>1. Ascending(Streamed(p)) /\ ToSet(Streamed(p)) \cap missed[p] = {}
      BY <1>1 DEF HubInv, StreamInv
    <2>2. CASE queue' = [queue EXCEPT ![p] = Append(@, e)] /\ missed' = missed
      <3>1. Streamed(p)' = Append(Streamed(p), e)
        <4>1. queue[p] \in Seq(Events) /\ got[p] \in Seq(Events)
          BY DEF HubTypes
        <4>2. got[p] \o Append(queue[p], e) = Append(got[p] \o queue[p], e)
          <5>1. e \in Events
            BY <1>1
          <5>2. \A s, t \in Seq(Events), x \in Events : s \o Append(t, x) = Append(s \o t, x)
            BY AppendToBoth
          <5> HIDE DEF e
          <5> QED
            BY ONLY <4>1, <5>1, <5>2
        <4>3. queue'[p] = Append(queue[p], e)
          BY <2>2 DEF HubTypes
        <4> QED
          BY <1>2, <4>2, <4>3 DEF Streamed
      <3>2. \A i \in DOMAIN Streamed(p) : Streamed(p)[i][1] = e[1] => Streamed(p)[i][2] < e[2]
        BY <1>1, <1>4 DEF ToSet
      <3>3. /\ Ascending(Append(Streamed(p), e))
            /\ ToSet(Append(Streamed(p), e)) = ToSet(Streamed(p)) \cup {e}
        BY <1>1, <1>3, <2>1, <3>2, AppendAscending
      <3>4. ToSet(Streamed(p))' = ToSet(Streamed(p)) \cup {e} /\ Ascending(Streamed(p))'
        BY <3>1, <3>3 DEF ToSet, Ascending
      <3> QED
        BY <1>5, <2>1, <2>2, <3>4
    <2>3. CASE missed' = [missed EXCEPT ![p] = @ \cup {e}] /\ queue' = queue
      <3>1. Streamed(p)' = Streamed(p) /\ missed'[p] = missed[p] \cup {e}
        BY <1>2, <2>3 DEF Streamed, HubTypes
      <3>2. ToSet(Streamed(p))' = ToSet(Streamed(p)) /\ Ascending(Streamed(p))'
        BY <2>1, <3>1 DEF ToSet, Ascending
      <3> QED
        BY <1>5, <2>1, <3>1, <3>2
    <2> QED
      BY <1>6, <2>2, <2>3
  <1>9. Offered(p, ToSet(Streamed(p)) \cup missed[p])'
    <2> SUFFICES ASSUME NEW d \in ToSet(Streamed(p)) \cup missed[p] \cup {e}
                 PROVE  /\ d[2] <= count[d[1]]
                        /\ p \in pending'[d[1]] => d[2] < count[d[1]]
      BY <1>2, <1>8 DEF Offered
    <2>1. CASE d = e
      BY <1>1, <1>2, <2>1
    <2>2. CASE d \in ToSet(Streamed(p)) \cup missed[p]
      <3>1. d[1] \in Broadcasters
        BY <1>1, <1>3, <2>2 DEF Events
      <3> QED
        BY <1>1, <1>2, <2>2, <3>1 DEF HubInv, StreamInv, Offered
    <2> QED
      BY <2>1, <2>2
  <1>10. \A q \in joined : Due(q) = Due(q)' \cup (IF q = p THEN {e} ELSE {})
    <2>1. \A x \in Broadcasters : Event(x)' = Event(x)
      BY <1>2 DEF Event
    <2> QED
      BY <1>1, <1>2, <2>1 DEF Due
  <1>11. ASSUME NEW q \in joined, q # p
         PROVE  /\ Streamed(q)' = Streamed(q) /\ missed'[q] = missed[q]
                /\ Offered(q, ToSet(Streamed(q)) \cup missed[q])'
    <2>1. Streamed(q)' = Streamed(q) /\ missed'[q] = missed[q]
      BY <1>2, <1>3, <1>6, <1>11 DEF Streamed, HubTypes
    <2>2. ToSet(Streamed(q))' = ToSet(Streamed(q))
      BY <2>1 DEF ToSet
    <2>3. \A x \in Broadcasters : q \in pending'[x] => q \in pending[x]
      BY <1>2
    <2> QED
      BY <1>2, <1>3, <2>1, <2>2, <2>3 DEF HubInv, StreamInv, Offered, Events
  <1>12. ASSUME NEW q \in joined'
         PROVE  /\ Ascending(Streamed(q))'
                /\ Offered(q, ToSet(Streamed(q)) \cup missed[q])'
                /\ (ToSet(Streamed(q)) \cap missed[q] = {})'
                /\ (owed[q] = ToSet(Streamed(q)) \cup missed[q] \cup Due(q))'
    <2>1. q \in joined /\ owed' = owed
      BY <1>2
    <2>2. owed[q] = ToSet(Streamed(q)) \cup missed[q] \cup Due(q)
      BY <2>1 DEF HubInv, StreamInv
    <2>3. CASE q = p
      BY <1>8, <1>9, <1>10, <2>1, <2>2, <2>3
    <2>4. CASE q # p
      <3>1. ToSet(Streamed(q))' = ToSet(Streamed(q)) /\ Ascending(Streamed(q))'
        <4>1. Streamed(q)' = Streamed(q)
          BY <1>11, <2>1, <2>4
        <4>2. ToSet(Streamed(q))' = ToSet(Streamed(q))
          BY <4>1 DEF ToSet
        <4>3. Ascending(Streamed(q))
          BY <2>1 DEF HubInv, StreamInv
        <4>4. Ascending(Streamed(q))'
          BY <4>1, <4>3 DEF Ascending
        <4> QED
          BY <4>2, <4>4
      <3> QED
        BY <1>10, <1>11, <2>1, <2>2, <2>4, <3>1 DEF HubInv, StreamInv
    <2> QED
      BY <2>3, <2>4
  <1> QED
    BY <1>2, <1>7, <1>12 DEF HubInv, StreamInv

\* A page that is connected has got, in order and once, every event broadcast
\* since it joined that found room in its channel; the others it has missed, and
\* only a broadcast in progress still owes it one.
THEOREM StreamIsInOrder == HubSpec => []EventsInOrder
  <1>1. HubTypes /\ HubInv /\ [HubNext]_hubVars => HubTypes' /\ HubInv'
    <2> SUFFICES ASSUME HubTypes, HubInv, [HubNext]_hubVars PROVE HubTypes' /\ HubInv'
      OBVIOUS
    <2>1. CASE UNCHANGED hubVars
      <3>1. HubTypes' /\ UNCHANGED <<joined, count, pending, owed, missed>>
        BY <2>1 DEF hubVars, HubTypes
      <3>2. ASSUME NEW q \in joined PROVE StreamInv(q)'
        <4>1. StreamInv(q) /\ Streamed(q)' = Streamed(q)
          BY <2>1 DEF HubInv, Streamed, hubVars
        <4> QED
          BY <3>1, <4>1, SameStream
      <3> QED
        BY <3>1, <3>2 DEF HubInv
    <2> QED
      BY <2>1, HubJoin, HubPart, HubRead, HubBroadcast, HubOffers DEF HubNext, HubOffer
  <1>2. HubInv => EventsInOrder
    BY DEF HubInv, StreamInv, EventsInOrder, Ascending, Due
  <1> QED
    BY HubStarts, <1>1, <1>2, PTL DEF HubSpec

-----------------------------------------------------------------------------
\* Facts about numbers and lists.

\* A set of numbers has a smallest one.
LEMMA Smallest ==
  ASSUME NEW S \in SUBSET Nat, S # {}
  PROVE  \E x \in S : \A y \in S : x <= y
  <1>1. PICK x \in S : \A y \in S : <<y, x>> \notin OpToRel(<, Nat)
    BY NatLessThanWellFounded, WFMin
  <1>2. \A y \in S : ~ (y < x)
    BY <1>1, Zenon DEF OpToRel
  <1> QED
    BY <1>2

\* Induction, for a set of numbers.
LEMMA Inductive ==
  ASSUME NEW S, 0 \in S, \A n \in Nat : n \in S => n + 1 \in S
  PROVE  Nat \subseteq S
  <1> SUFFICES ASSUME Nat \ S # {} PROVE FALSE
    OBVIOUS
  <1>1. PICK x \in Nat \ S : \A y \in Nat \ S : x <= y
    BY Smallest
  <1>2. x # 0 /\ x - 1 \in Nat /\ x - 1 \in S
    BY <1>1
  <1>3. (x - 1) + 1 \in S
    BY <1>2
  <1> QED
    BY <1>1, <1>3

\* A value is computed in L steps from a first one.
Computed(V, a, L, step) ==
    \E F \in [0 .. L -> V] : F[0] = a /\ \A n \in 1 .. L : F[n] = step[n][F[n - 1]]

\* It may be.
LEMMA Recursion ==
  ASSUME NEW V, NEW a \in V, NEW L \in Nat, NEW step \in [1 .. L -> [V -> V]]
  PROVE  Computed(V, a, L, step)
  <1> USE DEF Computed
  <1> DEFINE Upto(m) == \E F \in [0 .. m -> V] :
                           F[0] = a /\ \A n \in 1 .. m : F[n] = step[n][F[n - 1]]
             S == {m \in Nat : m <= L => Upto(m)}
  <1>1. 0 \in S
    <2> DEFINE G == [n \in 0 .. 0 |-> a]
    <2>1. G \in [0 .. 0 -> V] /\ G[0] = a /\ \A n \in 1 .. 0 : G[n] = step[n][G[n - 1]]
      OBVIOUS
    <2> HIDE DEF G
    <2>2. Upto(0)
      BY <2>1
    <2> QED
      BY <2>2
  <1>2. ASSUME NEW m \in Nat, m \in S PROVE m + 1 \in S
    <2> SUFFICES ASSUME m + 1 <= L PROVE Upto(m + 1)
      OBVIOUS
    <2>1. PICK F \in [0 .. m -> V] : F[0] = a /\ \A n \in 1 .. m : F[n] = step[n][F[n - 1]]
      BY <1>2
    <2> DEFINE b == step[m + 1][F[m]]
               G == [n \in 0 .. m + 1 |-> IF n = m + 1 THEN b ELSE F[n]]
    <2>2. b \in V
      <3>1. step[m + 1] \in [V -> V] /\ F[m] \in V
        OBVIOUS
      <3> QED
        BY <3>1
    <2>3. \A n \in 0 .. m : G[n] = F[n] /\ F[n] \in V
      BY <2>1
    <2>4. G[m + 1] = b
      OBVIOUS
    <2>5. G \in [0 .. m + 1 -> V]
      BY <2>2, <2>3
    <2>6. G[0] = a
      BY <2>1, <2>3
    <2>7. ASSUME NEW n \in 1 .. m + 1 PROVE G[n] = step[n][G[n - 1]]
      <3>1. n - 1 \in 0 .. m /\ G[n - 1] = F[n - 1]
        BY <2>3
      <3>2. CASE n = m + 1
        BY <2>4, <3>1, <3>2
      <3>3. CASE n # m + 1
        BY <2>1, <2>3, <3>1, <3>3
      <3> QED
        BY <3>2, <3>3
    <2> QED
      BY <2>5, <2>6, <2>7
  <1>3. Nat \subseteq S
    <2> HIDE DEF S
    <2> QED
      BY <1>1, <1>2, Inductive
  <1> QED
    BY <1>3

\* A list without its entry at position i.
LEMMA RemoveAtEntries ==
  ASSUME NEW T, NEW s \in Seq(T), NEW i \in 1 .. Len(s)
  PROVE  /\ RemoveAt(s, i) \in Seq(T)
         /\ Len(RemoveAt(s, i)) = Len(s) - 1
         /\ \A j \in 1 .. Len(s) - 1 : RemoveAt(s, i)[j] = s[IF j < i THEN j ELSE j + 1]
  <1> DEFINE a == SubSeq(s, 1, i - 1)
             b == SubSeq(s, i + 1, Len(s))
  <1>1. a \in Seq(T) /\ Len(a) = i - 1 /\ \A j \in 1 .. i - 1 : a[j] = s[j]
    OBVIOUS
  <1>2. b \in Seq(T) /\ Len(b) = Len(s) - i /\ \A j \in 1 .. Len(s) - i : b[j] = s[i + j]
    OBVIOUS
  <1> HIDE DEF a, b
  <1>3. /\ a \o b \in Seq(T) /\ Len(a \o b) = Len(s) - 1
        /\ \A j \in 1 .. Len(s) - 1 : (a \o b)[j] = IF j <= i - 1 THEN a[j] ELSE b[j - (i - 1)]
    <2>1. /\ a \o b \in Seq(T) /\ Len(a \o b) = Len(a) + Len(b)
          /\ \A j \in 1 .. Len(a) + Len(b) :
               (a \o b)[j] = IF j <= Len(a) THEN a[j] ELSE b[j - Len(a)]
      BY ONLY <1>1, <1>2, ConcatProperties
    <2>2. Len(a) + Len(b) = Len(s) - 1 /\ Len(a) = i - 1
      BY <1>1, <1>2
    <2> QED
      BY <2>1, <2>2
  <1>4. ASSUME NEW j \in 1 .. Len(s) - 1 PROVE (a \o b)[j] = s[IF j < i THEN j ELSE j + 1]
    <2>1. CASE j < i
      BY <1>1, <1>3, <2>1
    <2>2. CASE ~ (j < i)
      <3>1. j - (i - 1) \in 1 .. Len(s) - i /\ i + (j - (i - 1)) = j + 1
        BY <2>2
      <3> QED
        BY <1>2, <1>3, <2>2, <3>1
    <2> QED
      BY <2>1, <2>2
  <1>5. RemoveAt(s, i) = a \o b
    BY DEF RemoveAt, a, b
  <1> QED
    BY <1>3, <1>4, <1>5

-----------------------------------------------------------------------------
\* The list of upstreams.

\* r has entries of s, in the order of s.
InOrderOf(r, s) ==
    \E h \in [1 .. Len(r) -> 1 .. Len(s)] :
        /\ \A i, j \in 1 .. Len(r) : i < j => h[i] < h[j]
        /\ \A i \in 1 .. Len(r) : r[i] = s[h[i]]

\* F is what the loop of Reorder has after each step of it.
LoopOf(F, ids, S) ==
    /\ F[0] = <<>>
    /\ \A n \in 1 .. Len(ids) :
         F[n] = IF ids[n] \in S THEN Append(F[n - 1], ids[n]) ELSE F[n - 1]
    /\ Ordered(ids, S) = F[Len(ids)]

\* The loop runs through.
LEMMA OrderedLoop ==
  ASSUME NEW T, NEW ids \in Seq(T), NEW S
  PROVE  \E F \in [0 .. Len(ids) -> Seq(T)] : LoopOf(F, ids, S)
  <1> DEFINE L == Len(ids)
             step == [n \in 1 .. L |-> [q \in Seq(T) |->
                        IF ids[n] \in S THEN Append(q, ids[n]) ELSE q]]
             Loop(F) == F = [n \in 0 .. L |->
                               IF n = 0 THEN <<>>
                               ELSE IF ids[n] \in S THEN Append(F[n - 1], ids[n])
                               ELSE F[n - 1]]
             Q == CHOOSE F : Loop(F)
  <1>1. L \in Nat /\ step \in [1 .. L -> [Seq(T) -> Seq(T)]]
    <2>1. ASSUME NEW n \in 1 .. L, NEW q \in Seq(T)
          PROVE  (IF ids[n] \in S THEN Append(q, ids[n]) ELSE q) \in Seq(T)
      BY AppendProperties
    <2> QED
      BY <2>1
  <1>2. PICK F \in [0 .. L -> Seq(T)] :
          F[0] = <<>> /\ \A n \in 1 .. L : F[n] = step[n][F[n - 1]]
    <2> DEFINE V == Seq(T)
               a == <<>>
    <2>1. a \in V
      OBVIOUS
    <2>2. step \in [1 .. L -> [V -> V]]
      BY <1>1
    <2> HIDE DEF step, L, a, V
    <2>3. Computed(V, a, L, step)
      <3>1. L \in Nat
        BY <1>1
      <3> QED
        BY ONLY <2>1, <2>2, <3>1, Recursion
    <2> QED
      BY <2>3 DEF V, a, Computed
  <1>3. \A n \in 1 .. L : F[n] = IF ids[n] \in S THEN Append(F[n - 1], ids[n]) ELSE F[n - 1]
    <2> SUFFICES ASSUME NEW n \in 1 .. L
                 PROVE  F[n] = IF ids[n] \in S THEN Append(F[n - 1], ids[n]) ELSE F[n - 1]
      OBVIOUS
    <2>1. F[n - 1] \in Seq(T)
      <3>1. n - 1 \in 0 .. L
        BY <1>1
      <3> HIDE DEF step, L
      <3> QED
        BY <1>2, <3>1
    <2>2. step[n][F[n - 1]] = IF ids[n] \in S THEN Append(F[n - 1], ids[n]) ELSE F[n - 1]
      BY <2>1
    <2> HIDE DEF step
    <2> QED
      BY <1>2, <2>2
  <1>4. Loop(F)
    <2>1. \A n \in 0 .. L : n = 0 \/ n \in 1 .. L
      BY <1>1
    <2> HIDE DEF step, L
    <2>2. \A n \in 0 .. L :
            F[n] = IF n = 0 THEN <<>>
                   ELSE IF ids[n] \in S THEN Append(F[n - 1], ids[n]) ELSE F[n - 1]
      BY <1>2, <1>3, <2>1
    <2> QED
      BY <1>2, <2>2
  <1>5. Loop(Q)
    <2> HIDE DEF Loop
    <2> QED
      BY <1>4
  <1>6. Q = F
    <2> DEFINE Same == {n \in Nat : n <= L => Q[n] = F[n]}
    <2> HIDE DEF Q
    <2>1. 0 \in Same
      BY <1>1, <1>2, <1>5
    <2>2. ASSUME NEW n \in Nat, n \in Same PROVE n + 1 \in Same
      <3> SUFFICES ASSUME n + 1 <= L PROVE Q[n + 1] = F[n + 1]
        OBVIOUS
      <3>1. n + 1 \in 1 .. L /\ n + 1 \in 0 .. L /\ n + 1 # 0 /\ (n + 1) - 1 = n /\ n <= L
        BY <1>1
      <3>2. Q[n] = F[n]
        BY <2>2, <3>1
      <3>3. Q[n + 1] = IF ids[n + 1] \in S THEN Append(Q[n], ids[n + 1]) ELSE Q[n]
        <4> HIDE DEF L
        <4> QED
          BY <1>5, <3>1
      <3> QED
        BY <1>3, <3>1, <3>2, <3>3
    <2>3. Nat \subseteq Same
      <3> HIDE DEF Same
      <3> QED
        BY <2>1, <2>2, Inductive
    <2>4. DOMAIN Q = 0 .. L /\ Q = [n \in DOMAIN Q |-> Q[n]]
      BY <1>5
    <2> QED
      BY <1>1, <1>2, <2>3, <2>4
  <1>7. Ordered(ids, S) = Q[L]
    BY DEF Ordered
  <1> HIDE DEF Q
  <1>8. LoopOf(F, ids, S)
    BY <1>2, <1>3, <1>6, <1>7 DEF LoopOf
  <1> QED
    BY <1>2, <1>8

\* The loop keeps ids of S, in their order.
LEMMA OrderedKeeps ==
  ASSUME NEW T, NEW ids \in Seq(T), NEW S
  PROVE  /\ Ordered(ids, S) \in Seq(T)
         /\ ToSet(Ordered(ids, S)) \subseteq S
         /\ InOrderOf(Ordered(ids, S), ids)
  <1>0. \E F \in [0 .. Len(ids) -> Seq(T)] : LoopOf(F, ids, S)
    BY OrderedLoop
  <1> DEFINE L == Len(ids)
             Upto(r, n) == \E h \in [1 .. Len(r) -> 1 .. n] :
                /\ \A i, j \in 1 .. Len(r) : i < j => h[i] < h[j]
                /\ \A i \in 1 .. Len(r) : r[i] = ids[h[i]] /\ r[i] \in S
  <1>1. L \in Nat
    OBVIOUS
  <1>2. PICK F \in [0 .. L -> Seq(T)] :
          /\ F[0] = <<>>
          /\ \A n \in 1 .. L : F[n] = IF ids[n] \in S THEN Append(F[n - 1], ids[n]) ELSE F[n - 1]
          /\ Ordered(ids, S) = F[L]
    BY <1>0 DEF LoopOf
  <1> DEFINE Good == {n \in Nat : n <= L => Upto(F[n], n)}
  <1>3. 0 \in Good
    <2> DEFINE h == [i \in 1 .. 0 |-> 0]
    <2>1. h \in [1 .. Len(F[0]) -> 1 .. 0] /\ Len(F[0]) = 0
      BY <1>2
    <2>2. Upto(F[0], 0)
      <3> HIDE DEF h
      <3> QED
        BY <2>1
    <2> QED
      BY <2>2
  <1>4. ASSUME NEW n \in Nat, n \in Good PROVE n + 1 \in Good
    <2> SUFFICES ASSUME n + 1 <= L PROVE Upto(F[n + 1], n + 1)
      <3> HIDE DEF Upto
      <3> QED OBVIOUS
    <2> DEFINE r == F[n]
               x == ids[n + 1]
    <2>1. n + 1 \in 1 .. L /\ (n + 1) - 1 = n /\ n <= L /\ n \in 0 .. L
      BY <1>1
    <2>2. r \in Seq(T) /\ x \in T
      BY <1>2, <2>1
    <2>3. F[n + 1] = IF x \in S THEN Append(r, x) ELSE r
      BY <1>2, <2>1
    <2>4. PICK h \in [1 .. Len(r) -> 1 .. n] :
            /\ \A i, j \in 1 .. Len(r) : i < j => h[i] < h[j]
            /\ \A i \in 1 .. Len(r) : r[i] = ids[h[i]] /\ r[i] \in S
      BY <1>4, <2>1
    <2> HIDE DEF r, x, L
    <2>5. CASE x \notin S
      <3>1. h \in [1 .. Len(r) -> 1 .. n + 1]
        BY <2>4
      <3> QED
        BY <2>3, <2>4, <2>5, <3>1
    <2>6. CASE x \in S
      <3> DEFINE q == Append(r, x)
                 g == [i \in 1 .. Len(r) + 1 |-> IF i = Len(r) + 1 THEN n + 1 ELSE h[i]]
      <3>1. Len(q) = Len(r) + 1 /\ Len(r) \in Nat /\ q[Len(r) + 1] = x
            /\ \A i \in 1 .. Len(r) : q[i] = r[i]
        BY <2>2
      <3>2. /\ \A i \in 1 .. Len(r) : g[i] = h[i] /\ h[i] \in 1 .. n
            /\ g[Len(r) + 1] = n + 1
        <4>1. \A i \in 1 .. Len(r) : i \in 1 .. Len(r) + 1 /\ i # Len(r) + 1
          BY <3>1
        <4>2. Len(r) + 1 \in 1 .. Len(r) + 1
          BY <3>1
        <4> QED
          BY <2>4, <4>1, <4>2
      <3>3. g \in [1 .. Len(r) + 1 -> 1 .. n + 1]
        BY <2>4, <3>1
      <3> HIDE DEF q, g
      <3>4. \A i \in 1 .. Len(q) : i \in 1 .. Len(r) \/ i = Len(r) + 1
        BY <3>1
      <3>5. \A i, j \in 1 .. Len(q) : i < j => g[i] < g[j]
        <4> SUFFICES ASSUME NEW i \in 1 .. Len(q), NEW j \in 1 .. Len(q), i < j PROVE g[i] < g[j]
          OBVIOUS
        <4>1. i \in 1 .. Len(r)
          BY <3>1
        <4> QED
          BY <2>4, <3>1, <3>2, <3>4, <4>1
      <3>6. \A i \in 1 .. Len(q) : q[i] = ids[g[i]] /\ q[i] \in S
        BY <2>4, <2>6, <3>1, <3>2, <3>4 DEF x
      <3>7. F[n + 1] = q
        BY <2>3, <2>6 DEF q
      <3>8. g \in [1 .. Len(q) -> 1 .. n + 1]
        BY <3>1, <3>3
      <3> QED
        BY <3>5, <3>6, <3>7, <3>8
    <2> QED
      BY <2>5, <2>6
  <1>5. Nat \subseteq Good
    <2> HIDE DEF Good
    <2> QED
      BY <1>3, <1>4, Inductive
  <1>6. Upto(F[L], L) /\ F[L] \in Seq(T)
    <2>1. L \in Good /\ L <= L
      <3> HIDE DEF Good, L
      <3> QED
        BY <1>1, <1>5
    <2>2. Upto(F[L], L)
      <3> HIDE DEF Upto, L
      <3> QED
        BY <2>1
    <2>3. F[L] \in Seq(T)
      <3> HIDE DEF L
      <3> QED
        BY <1>1, <1>2
    <2> QED
      BY <2>2, <2>3
  <1> HIDE DEF L
  <1>7. InOrderOf(F[L], ids)
    BY <1>6 DEF InOrderOf, L
  <1>8. ToSet(F[L]) \subseteq S
    BY <1>6 DEF ToSet
  <1> QED
    BY <1>2, <1>6, <1>7, <1>8 DEF L

\* A list made of a list without repetition, in its order, has none either.
LEMMA InOrderInjective ==
  ASSUME NEW T, NEW s \in Seq(T), IsInjective(s), NEW r \in Seq(T), InOrderOf(r, s)
  PROVE  IsInjective(r) /\ ToSet(r) \subseteq ToSet(s)
  <1>1. PICK h \in [1 .. Len(r) -> 1 .. Len(s)] :
          /\ \A i, j \in 1 .. Len(r) : i < j => h[i] < h[j]
          /\ \A i \in 1 .. Len(r) : r[i] = s[h[i]]
    BY DEF InOrderOf
  <1>2. Len(r) \in Nat /\ Len(s) \in Nat /\ DOMAIN r = 1 .. Len(r) /\ DOMAIN s = 1 .. Len(s)
    OBVIOUS
  <1>3. \A i, j \in 1 .. Len(r) : r[i] = r[j] => i = j
    <2> SUFFICES ASSUME NEW i \in 1 .. Len(r), NEW j \in 1 .. Len(r), r[i] = r[j], i # j
                 PROVE  FALSE
      OBVIOUS
    <2>1. h[i] = h[j]
      BY <1>1, <1>2 DEF IsInjective
    <2>2. i < j \/ j < i
      BY <1>2
    <2> QED
      BY <1>1, <2>1, <2>2
  <1> QED
    BY <1>1, <1>2, <1>3 DEF IsInjective, ToSet

\* Removing an entry leaves the others, in order.
LEMMA RemoveAtInOrder ==
  ASSUME NEW T, NEW s \in Seq(T), NEW i \in 1 .. Len(s)
  PROVE  RemoveAt(s, i) \in Seq(T) /\ InOrderOf(RemoveAt(s, i), s)
  <1> DEFINE r == RemoveAt(s, i)
             h == [j \in 1 .. Len(s) - 1 |-> IF j < i THEN j ELSE j + 1]
  <1>1. /\ r \in Seq(T) /\ Len(r) = Len(s) - 1 /\ Len(s) \in Nat
        /\ \A j \in 1 .. Len(s) - 1 : r[j] = s[IF j < i THEN j ELSE j + 1]
    <2>1. /\ RemoveAt(s, i) \in Seq(T)
          /\ Len(RemoveAt(s, i)) = Len(s) - 1
          /\ \A j \in 1 .. Len(s) - 1 : RemoveAt(s, i)[j] = s[IF j < i THEN j ELSE j + 1]
      <3> HIDE DEF h
      <3> QED
        BY RemoveAtEntries
    <2> QED
      BY <2>1
  <1>2. h \in [1 .. Len(r) -> 1 .. Len(s)]
    BY <1>1
  <1>3. \A j, k \in 1 .. Len(r) : j < k => h[j] < h[k]
    BY <1>1
  <1>4. \A j \in 1 .. Len(r) : r[j] = s[h[j]]
    BY <1>1
  <1> HIDE DEF r, h
  <1>5. InOrderOf(r, s)
    BY <1>2, <1>3, <1>4 DEF InOrderOf
  <1> QED
    BY <1>1, <1>5 DEF r

RosterTypes ==
    /\ rows \in SUBSET RosterIds /\ IsFiniteSet(rows)
    /\ prio \in [RosterIds -> Nat]
    /\ list \in Seq(RosterIds)
    /\ page \in SUBSET RosterIds /\ IsFiniteSet(page)
    /\ deleted \in SUBSET RosterIds
    /\ adding \in SUBSET RosterIds
    /\ late \in SUBSET RosterIds

\* The inductive invariant: what is listed has a row and is listed once, a row
\* being added is not yet listed, and no row of a deleted upstream is left.
RosterInv ==
    /\ IsInjective(list)
    /\ adding \cup ToSet(list) \subseteq rows
    /\ adding \cap ToSet(list) = {}
    /\ rows \cap deleted = {}
    /\ OrderIsStored

\* An order of a finite set lists members of it, none twice.
LEMMA SeqOfSet ==
  ASSUME NEW S, IsFiniteSet(S), NEW q \in SetToSeqs(S)
  PROVE  q \in Seq(S) /\ IsInjective(q) /\ ToSet(q) \subseteq S
  <1>1. Cardinality(S) \in Nat
    BY FS_CardinalityType
  <1>2. /\ q \in [1 .. Cardinality(S) -> S]
        /\ \A i, j \in 1 .. Cardinality(S) : i # j => q[i] # q[j]
    BY DEF SetToSeqs
  <1>3. q \in Seq(S) /\ DOMAIN q = 1 .. Cardinality(S)
    BY <1>1, <1>2
  <1> QED
    BY <1>2, <1>3 DEF IsInjective, ToSet

\* Of a list without repetition, removing an entry removes its value.
LEMMA RemoveAtSet ==
  ASSUME NEW T, NEW s \in Seq(T), IsInjective(s), NEW i \in 1 .. Len(s)
  PROVE  ToSet(RemoveAt(s, i)) = ToSet(s) \ {s[i]}
  <1> DEFINE r == RemoveAt(s, i)
  <1>1. /\ r \in Seq(T)
        /\ Len(r) = Len(s) - 1
        /\ \A j \in 1 .. Len(s) - 1 : r[j] = s[IF j < i THEN j ELSE j + 1]
    BY RemoveAtEntries
  <1> HIDE DEF r
  <1>2. Len(s) \in Nat /\ DOMAIN s = 1 .. Len(s) /\ DOMAIN r = 1 .. Len(s) - 1
    BY <1>1
  <1>3. ASSUME NEW j \in 1 .. Len(s) - 1 PROVE r[j] \in ToSet(s) \ {s[i]}
    <2>1. \E k \in 1 .. Len(s) : k # i /\ r[j] = s[k]
      BY <1>1, <1>2
    <2> QED
      BY <1>2, <2>1 DEF IsInjective, ToSet
  <1>4. ASSUME NEW k \in 1 .. Len(s), s[k] # s[i] PROVE \E j \in 1 .. Len(s) - 1 : r[j] = s[k]
    <2>1. CASE k < i
      <3>1. k \in 1 .. Len(s) - 1 /\ r[k] = s[k]
        BY <1>1, <1>2, <2>1
      <3> QED
        BY <3>1
    <2>2. CASE i < k
      <3>1. k - 1 \in 1 .. Len(s) - 1 /\ ~ (k - 1 < i) /\ (k - 1) + 1 = k
        BY <1>2, <2>2
      <3> QED
        BY <1>1, <3>1
    <2> QED
      BY <1>2, <1>4, <2>1, <2>2
  <1>5. ToSet(r) = ToSet(s) \ {s[i]}
    <2>1. ToSet(r) \subseteq ToSet(s) \ {s[i]}
      BY <1>2, <1>3 DEF ToSet
    <2>2. ASSUME NEW x \in ToSet(s) \ {s[i]} PROVE x \in ToSet(r)
      <3>1. PICK k \in 1 .. Len(s) : x = s[k] /\ s[k] # s[i]
        BY <1>2, <2>2 DEF ToSet
      <3>2. PICK j \in 1 .. Len(s) - 1 : r[j] = s[k]
        BY <1>4, <3>1
      <3> QED
        BY <1>2, <3>1, <3>2 DEF ToSet
    <2> QED
      BY <2>1, <2>2
  <1> QED
    BY <1>5 DEF r

\* An order of the list that keeps to the priorities, late ones excepted.
Sorted(q, p, l) == \A i, j \in DOMAIN q : i < j => p[q[i]] <= p[q[j]] \/ q[j] \in l

\* A sorted list stays so when entries are left out.
LEMMA InOrderSorted ==
  ASSUME NEW T, NEW s \in Seq(T), NEW r \in Seq(T), InOrderOf(r, s),
         NEW p, NEW l, Sorted(s, p, l)
  PROVE  Sorted(r, p, l)
  <1>1. PICK h \in [1 .. Len(r) -> 1 .. Len(s)] :
          /\ \A i, j \in 1 .. Len(r) : i < j => h[i] < h[j]
          /\ \A i \in 1 .. Len(r) : r[i] = s[h[i]]
    BY DEF InOrderOf
  <1>2. DOMAIN r = 1 .. Len(r) /\ DOMAIN s = 1 .. Len(s)
    OBVIOUS
  <1> QED
    BY <1>1, <1>2 DEF Sorted

\* At the start the list and the table are empty.
LEMMA RosterStarts == RosterInit => RosterTypes /\ RosterInv
  <1> SUFFICES ASSUME RosterInit PROVE RosterTypes /\ RosterInv
    OBVIOUS
  <1>1. RosterTypes
    BY FS_EmptySet DEF RosterInit, RosterTypes
  <1>2. ToSet(list) = {} /\ IsInjective(list) /\ OrderIsStored
    BY DEF RosterInit, ToSet, IsInjective, OrderIsStored
  <1> QED
    BY <1>1, <1>2 DEF RosterInit, RosterInv

\* The INSERT of Add.
LEMMA RosterInsert ==
  ASSUME RosterTypes, RosterInv, NEW s \in RosterIds, InsertRow(s)
  PROVE  RosterTypes' /\ RosterInv'
  <1>1. IsFiniteSet(rows \cup {s})
    BY FS_AddElement DEF RosterTypes
  <1>2. s \notin ToSet(list)
    BY DEF InsertRow, RosterInv
  <1>3. ToSet(list)' = ToSet(list) /\ IsInjective(list)' /\ OrderIsStored'
    BY DEF InsertRow, RosterInv, ToSet, IsInjective, OrderIsStored
  <1> QED
    BY <1>1, <1>2, <1>3 DEF InsertRow, RosterTypes, RosterInv

\* The end of Add: a new upstream goes to the end of the list.
LEMMA RosterAppend ==
  ASSUME RosterTypes, RosterInv, NEW s \in RosterIds, AppendUpstream(s)
  PROVE  RosterTypes' /\ RosterInv' /\ ToSet(list)' = ToSet(list) \cup {s} /\ s \notin deleted
  <1>1. /\ list \in Seq(RosterIds) /\ list' = Append(list, s) /\ s \notin ToSet(list)
        /\ s \in rows /\ late' = late \cup {s} /\ s \in adding
        /\ UNCHANGED <<rows, prio, page, deleted>>
    BY DEF AppendUpstream, RosterTypes, RosterInv
  <1>2. /\ list' \in Seq(RosterIds) /\ DOMAIN list = 1 .. Len(list) /\ Len(list) \in Nat
        /\ DOMAIN list' = 1 .. Len(list) + 1
        /\ list'[Len(list) + 1] = s
        /\ \A i \in 1 .. Len(list) : list'[i] = list[i]
    BY <1>1
  <1>3. ToSet(list)' = ToSet(list) \cup {s}
    BY <1>2 DEF ToSet
  <1>4. \A i \in 1 .. Len(list) + 1 : i \in 1 .. Len(list) \/ i = Len(list) + 1
    BY <1>2
  <1>5. IsInjective(list)'
    BY <1>1, <1>2, <1>4 DEF RosterInv, IsInjective, ToSet
  <1>6. OrderIsStored'
    <2> SUFFICES ASSUME NEW i \in 1 .. Len(list) + 1, NEW j \in 1 .. Len(list) + 1, i < j
                 PROVE  prio[list'[i]] <= prio[list'[j]] \/ list'[j] \in late'
      BY <1>1, <1>2 DEF OrderIsStored
    <2>1. CASE j = Len(list) + 1
      BY <1>1, <1>2, <2>1
    <2>2. CASE j # Len(list) + 1
      <3>1. i \in 1 .. Len(list) /\ j \in 1 .. Len(list)
        BY <1>2, <2>2
      <3> QED
        BY <1>1, <1>2, <3>1 DEF RosterInv, OrderIsStored
    <2> QED
      BY <2>1, <2>2
  <1>7. adding' = adding \ {s}
    BY DEF AppendUpstream
  <1> QED
    BY <1>1, <1>2, <1>3, <1>5, <1>6, <1>7 DEF RosterTypes, RosterInv

\* Remove: row and entry go in one step.
LEMMA RosterRemove ==
  ASSUME RosterTypes, RosterInv, NEW s \in RosterIds, RemoveRow(s)
  PROVE  /\ RosterTypes' /\ RosterInv'
         /\ s \in ToSet(list) /\ ToSet(list)' = ToSet(list) \ {s} /\ deleted' = deleted \cup {s}
  <1>1. PICK i \in DOMAIN list : list[i] = s /\ list' = RemoveAt(list, i)
    BY DEF RemoveRow
  <1>2. /\ list \in Seq(RosterIds) /\ i \in 1 .. Len(list) /\ IsInjective(list)
        /\ Sorted(list, prio, late)
    BY DEF RosterTypes, RosterInv, OrderIsStored, Sorted
  <1>3. list' \in Seq(RosterIds) /\ InOrderOf(list', list) /\ ToSet(list') = ToSet(list) \ {s}
    BY <1>1, <1>2, RemoveAtInOrder, RemoveAtSet
  <1>4. IsInjective(list') /\ Sorted(list', prio, late)
    BY <1>2, <1>3, InOrderInjective, InOrderSorted
  <1>5. /\ rows' = rows \ {s} /\ deleted' = deleted \cup {s}
        /\ UNCHANGED <<prio, adding, page, late>>
    BY DEF RemoveRow
  <1>6. IsFiniteSet(rows') /\ s \in ToSet(list)
    BY <1>1, <1>5, FS_RemoveElement DEF RosterTypes, ToSet
  <1>7. ToSet(list)' = ToSet(list) \ {s} /\ IsInjective(list)' /\ OrderIsStored'
    BY <1>3, <1>4, <1>5 DEF ToSet, IsInjective, OrderIsStored, Sorted
  <1> QED
    BY <1>3, <1>5, <1>6, <1>7 DEF RosterTypes, RosterInv

\* The admin page loads the list.
LEMMA RosterPage ==
  ASSUME RosterTypes, RosterInv, LoadPage
  PROVE  RosterTypes' /\ RosterInv'
  <1>1. ToSet(list) \subseteq rows /\ IsFiniteSet(ToSet(list))
    BY FS_Subset DEF RosterTypes, RosterInv
  <1>2. ToSet(list)' = ToSet(list) /\ IsInjective(list)' /\ OrderIsStored'
    BY DEF LoadPage, RosterInv, ToSet, IsInjective, OrderIsStored
  <1> QED
    BY <1>1, <1>2 DEF LoadPage, RosterTypes, RosterInv

\* Reorder, with the order of a page that may be old: what it names and is still
\* listed has its place as priority, what it does not name leaves the list.
LEMMA RosterReorder ==
  ASSUME RosterTypes, RosterInv, NEW ids \in SetToSeqs(page), Reorder(ids)
  PROVE  RosterTypes' /\ RosterInv' /\ ToSet(list)' \subseteq ToSet(list)
  <1>1. ids \in Seq(page) /\ IsInjective(ids) /\ ToSet(ids) \subseteq page
    BY SeqOfSet DEF RosterTypes
  <1>2. page \subseteq RosterIds /\ ids \in Seq(RosterIds)
    BY <1>1 DEF RosterTypes
  <1>3. list' = Ordered(ids, ToSet(list))
    BY DEF Reorder
  <1>4. list' \in Seq(RosterIds) /\ ToSet(list') \subseteq ToSet(list) /\ InOrderOf(list', ids)
    BY <1>2, <1>3, OrderedKeeps
  <1>5. IsInjective(list') /\ ToSet(list') \subseteq ToSet(ids)
    BY <1>1, <1>2, <1>4, InOrderInjective
  <1> DEFINE place(s) == CHOOSE i \in DOMAIN ids : ids[i] = s
  <1>6. ASSUME NEW i \in DOMAIN ids PROVE place(ids[i]) = i
    <2>1. place(ids[i]) \in DOMAIN ids /\ ids[place(ids[i])] = ids[i]
      OBVIOUS
    <2> HIDE DEF place
    <2> QED
      BY <1>1, <2>1 DEF IsInjective
  <1>7. prio' = [s \in RosterIds |-> IF s \in rows \cap ToSet(ids) THEN place(s) - 1 ELSE prio[s]]
    BY DEF Reorder
  <1>8. \A i \in DOMAIN ids : ids[i] \in RosterIds /\ ids[i] \in ToSet(ids) /\ i \in Nat \ {0}
    BY <1>2 DEF ToSet
  <1> HIDE DEF place
  <1>9. prio' \in [RosterIds -> Nat]
    <2> SUFFICES ASSUME NEW s \in RosterIds
                 PROVE  (IF s \in rows \cap ToSet(ids) THEN place(s) - 1 ELSE prio[s]) \in Nat
      BY <1>7
    <2>1. CASE s \in rows \cap ToSet(ids)
      <3>1. PICK i \in DOMAIN ids : s = ids[i]
        BY <2>1 DEF ToSet
      <3>2. place(s) = i /\ i \in Nat \ {0}
        BY <1>6, <1>8, <3>1
      <3> QED
        BY <2>1, <3>2
    <2>2. CASE s \notin rows \cap ToSet(ids)
      BY <2>2 DEF RosterTypes
    <2> QED
      BY <2>1, <2>2
  <1>10. \A i \in DOMAIN ids : ids[i] \in rows => prio'[ids[i]] = i - 1
    BY <1>6, <1>7, <1>8
  <1>11. PICK h \in [1 .. Len(list') -> 1 .. Len(ids)] :
           /\ \A i, j \in 1 .. Len(list') : i < j => h[i] < h[j]
           /\ \A i \in 1 .. Len(list') : list'[i] = ids[h[i]]
    BY <1>4 DEF InOrderOf
  <1>12. ToSet(list) \subseteq rows
    BY DEF RosterInv
  <1>13. ASSUME NEW i \in DOMAIN list', NEW j \in DOMAIN list', i < j
         PROVE  prio'[list'[i]] <= prio'[list'[j]]
    <2>1. i \in 1 .. Len(list') /\ j \in 1 .. Len(list')
      BY <1>4
    <2>2. list'[i] \in rows /\ list'[j] \in rows
      BY <1>4, <1>12, <2>1 DEF ToSet
    <2>3. h[i] < h[j] /\ h[i] \in DOMAIN ids /\ h[j] \in DOMAIN ids
      BY <1>2, <1>11, <1>13, <2>1
    <2>4. prio'[list'[i]] = h[i] - 1 /\ prio'[list'[j]] = h[j] - 1
      BY <1>10, <1>11, <2>1, <2>2, <2>3
    <2> QED
      BY <1>8, <2>3, <2>4
  <1>14. UNCHANGED <<rows, adding, page, deleted>> /\ late' \subseteq late
    BY DEF Reorder
  <1>15. ToSet(list)' \subseteq ToSet(list) /\ IsInjective(list)' /\ OrderIsStored'
    BY <1>4, <1>5, <1>13 DEF ToSet, IsInjective, OrderIsStored
  <1> QED
    BY <1>4, <1>9, <1>14, <1>15 DEF RosterTypes, RosterInv

\* A restart loads the rows, or some of them, by priority.
LEMMA RosterReload ==
  ASSUME RosterTypes, RosterInv, Reload \/ ReloadFails
  PROVE  RosterTypes' /\ RosterInv' /\ ToSet(list)' \subseteq rows
  <1>1. PICK S \in SUBSET rows : list' \in ByPriority(S)
    BY DEF Reload, ReloadFails
  <1>2. /\ list' \in SetToSeqs(S)
        /\ \A i, j \in DOMAIN list' : i < j => prio[list'[i]] <= prio[list'[j]]
    BY <1>1 DEF ByPriority
  <1>3. IsFiniteSet(S)
    BY FS_Subset DEF RosterTypes
  <1>4. list' \in Seq(S) /\ IsInjective(list') /\ ToSet(list') \subseteq S
    BY <1>2, <1>3, SeqOfSet
  <1>5. list' \in Seq(RosterIds) /\ list' \in Seq(rows)
    BY <1>4 DEF RosterTypes
  <1>6. adding' = {} /\ late' = {} /\ UNCHANGED <<rows, prio, page, deleted>>
    BY DEF Reload, ReloadFails
  <1>7. ToSet(list)' \subseteq rows /\ IsInjective(list)' /\ OrderIsStored'
    BY <1>2, <1>4, <1>6 DEF ToSet, IsInjective, OrderIsStored
  <1> QED
    BY <1>5, <1>6, <1>7 DEF RosterTypes, RosterInv

\* Every step of the roster keeps the invariant, and is a step of Membership.
LEMMA RosterStep ==
  ASSUME RosterTypes, RosterInv, [RosterNext]_rosterVars
  PROVE  RosterTypes' /\ RosterInv' /\ [Abstract!MembershipNext]_Abstract!membership
  <1> DEFINE Relisted == /\ ToSet(list)' \in SUBSET (RosterIds \ deleted)
                         /\ deleted' = deleted
  <1>0. ToSet(list) \subseteq RosterIds \ deleted
    BY DEF RosterTypes, RosterInv
  <1>1. Relisted => Abstract!MembershipNext
    <2> SUFFICES ASSUME Relisted PROVE Abstract!MembershipNext
      OBVIOUS
    <2>1. Abstract!Relist(ToSet(list)') /\ ToSet(list)' \in SUBSET RosterIds
      BY DEF Abstract!Relist
    <2> QED
      BY <2>1 DEF Abstract!MembershipNext
  <1> HIDE DEF Relisted
  <1>2. ASSUME NEW s \in RosterIds, InsertRow(s)
        PROVE  RosterTypes' /\ RosterInv' /\ UNCHANGED Abstract!membership
    <2>1. list' = list /\ deleted' = deleted
      BY <1>2 DEF InsertRow
    <2> QED
      BY <1>2, <2>1, RosterInsert DEF Abstract!membership, ToSet
  <1>3. ASSUME NEW s \in RosterIds, AppendUpstream(s)
        PROVE  RosterTypes' /\ RosterInv' /\ Abstract!MembershipNext
    <2>1. deleted' = deleted
      BY <1>3 DEF AppendUpstream
    <2> QED
      BY <1>0, <1>1, <1>3, <2>1, RosterAppend DEF Relisted
  <1>4. ASSUME NEW s \in RosterIds, RemoveRow(s)
        PROVE  RosterTypes' /\ RosterInv' /\ Abstract!MembershipNext
    <2>1. Abstract!Leave(s)
      BY <1>4, RosterRemove DEF Abstract!Leave
    <2> QED
      BY <1>4, <2>1, RosterRemove DEF Abstract!MembershipNext
  <1>5. ASSUME LoadPage
        PROVE  RosterTypes' /\ RosterInv' /\ UNCHANGED Abstract!membership
    <2>1. list' = list /\ deleted' = deleted
      BY <1>5 DEF LoadPage
    <2> QED
      BY <1>5, <2>1, RosterPage DEF Abstract!membership, ToSet
  <1>6. ASSUME NEW ids \in SetToSeqs(page), Reorder(ids)
        PROVE  RosterTypes' /\ RosterInv' /\ Abstract!MembershipNext
    <2>1. deleted' = deleted
      BY <1>6 DEF Reorder
    <2> QED
      BY <1>0, <1>1, <1>6, <2>1, RosterReorder DEF Relisted
  <1>7. ASSUME Reload \/ ReloadFails
        PROVE  RosterTypes' /\ RosterInv' /\ Abstract!MembershipNext
    <2>1. deleted' = deleted
      BY <1>7 DEF Reload, ReloadFails
    <2>2. rows \subseteq RosterIds \ deleted
      BY DEF RosterTypes, RosterInv
    <2> QED
      BY <1>1, <1>7, <2>1, <2>2, RosterReload DEF Relisted
  <1>8. CASE UNCHANGED rosterVars
    <2>1. UNCHANGED Abstract!membership
      BY <1>8 DEF rosterVars, Abstract!membership, ToSet
    <2>2. RosterTypes'
      BY <1>8 DEF rosterVars, RosterTypes
    <2>3. RosterInv'
      BY <1>8 DEF rosterVars, RosterInv, ToSet, IsInjective, OrderIsStored
    <2> QED
      BY <2>1, <2>2, <2>3
  <1> QED
    BY <1>2, <1>3, <1>4, <1>5, <1>6, <1>7, <1>8 DEF RosterNext

\* The order requests are served in is the one a restart would load, but for the
\* upstreams added since the last Reorder.
THEOREM OrderStaysStored == RosterSpec => []OrderIsStored
  <1>1. RosterTypes /\ RosterInv /\ [RosterNext]_rosterVars => RosterTypes' /\ RosterInv'
    BY RosterStep
  <1>2. RosterInv => OrderIsStored
    BY DEF RosterInv
  <1> QED
    BY RosterStarts, <1>1, <1>2, PTL DEF RosterSpec

\* The list of upstreams is a Membership: an upstream that was deleted does not
\* come back, whatever adding, deleting, reordering with an old page and
\* restarting happen in whatever order.
THEOREM RosterImplementsMembership == RosterSpec => RosterIsMembership
  <1>1. RosterInit => Abstract!MembershipInit
    BY DEF RosterInit, Abstract!MembershipInit, ToSet
  <1>2. RosterTypes /\ RosterInv /\ [RosterNext]_rosterVars
          => /\ RosterTypes' /\ RosterInv'
             /\ [Abstract!MembershipNext]_Abstract!membership
    BY RosterStep
  <1> QED
    BY RosterStarts, <1>1, <1>2, PTL
    DEF RosterSpec, RosterIsMembership, Abstract!MembershipSpec

-----------------------------------------------------------------------------
\* The logger.

\* The numbers from a to b.
LEMMA NumbersEntries ==
  ASSUME NEW a \in Nat, NEW b \in Nat, a <= b + 1
  PROVE  /\ LogNumbers(a, b) \in Seq(Nat)
         /\ Len(LogNumbers(a, b)) = b - a + 1
         /\ \A i \in 1 .. b - a + 1 : LogNumbers(a, b)[i] = a + i - 1
  <1> DEFINE n == b - a + 1
             f == [i \in 1 .. n |-> a + i - 1]
  <1>1. n \in Nat
    OBVIOUS
  <1>2. LogNumbers(a, b) = f
    <2>1. (IF a <= b THEN b - a + 1 ELSE 0) = n
      OBVIOUS
    <2> QED
      BY <2>1 DEF LogNumbers
  <1>3. f \in [1 .. n -> Nat]
    OBVIOUS
  <1> HIDE DEF n
  <1>4. f \in Seq(Nat) /\ Len(f) = n /\ \A i \in 1 .. n : f[i] = a + i - 1
    BY <1>1, <1>3
  <1> QED
    BY <1>2, <1>4 DEF n

\* A sequence of numbers in a row is what it says.
LEMMA NumbersEqual ==
  ASSUME NEW a \in Nat, NEW b \in Nat, a <= b + 1, NEW s \in Seq(Nat), Len(s) = b - a + 1,
         \A i \in 1 .. b - a + 1 : s[i] = a + i - 1
  PROVE  s = LogNumbers(a, b)
  <1>1. /\ LogNumbers(a, b) \in Seq(Nat)
        /\ Len(LogNumbers(a, b)) = b - a + 1
        /\ \A i \in 1 .. b - a + 1 : LogNumbers(a, b)[i] = a + i - 1
    BY NumbersEntries
  <1> QED
    BY <1>1, SeqEqual

\* The next number is appended.
LEMMA NumbersAppend ==
  ASSUME NEW a \in Nat, NEW b \in Nat, a <= b + 1
  PROVE  Append(LogNumbers(a, b), b + 1) = LogNumbers(a, b + 1)
  <1> DEFINE s == LogNumbers(a, b)
             r == Append(s, b + 1)
  <1>1. s \in Seq(Nat) /\ Len(s) = b - a + 1 /\ \A i \in 1 .. b - a + 1 : s[i] = a + i - 1
    BY NumbersEntries
  <1> HIDE DEF s
  <1>2. r \in Seq(Nat) /\ Len(r) = (b + 1) - a + 1
    BY <1>1
  <1>3. ASSUME NEW i \in 1 .. (b + 1) - a + 1 PROVE r[i] = a + i - 1
    <2>1. CASE i = Len(s) + 1
      BY <1>1, <2>1
    <2>2. CASE i # Len(s) + 1
      <3>1. i \in 1 .. Len(s)
        BY <1>1, <2>2
      <3> QED
        BY <1>1, <3>1
    <2> QED
      BY <2>1, <2>2
  <1>4. a <= (b + 1) + 1 /\ b + 1 \in Nat
    OBVIOUS
  <1> HIDE DEF r
  <1>5. r = LogNumbers(a, b + 1)
    BY <1>2, <1>3, <1>4, NumbersEqual
  <1> QED
    BY <1>5 DEF r, s

\* The end of a row of numbers.
LEMMA NumbersTail ==
  ASSUME NEW a \in Nat, NEW b \in Nat, a <= b + 1, NEW k \in Nat, k <= b - a + 1
  PROVE  SubSeq(LogNumbers(a, b), k + 1, b - a + 1) = LogNumbers(a + k, b)
  <1> DEFINE s == LogNumbers(a, b)
             n == b - a + 1
             r == SubSeq(s, k + 1, n)
  <1>1. s \in Seq(Nat) /\ Len(s) = n /\ \A i \in 1 .. n : s[i] = a + i - 1
    BY NumbersEntries
  <1> HIDE DEF s
  <1>2. r \in Seq(Nat) /\ Len(r) = n - k /\ \A i \in 1 .. n - k : r[i] = s[k + i]
    BY <1>1
  <1>3. \A i \in 1 .. n - k : r[i] = (a + k) + i - 1
    BY <1>1, <1>2
  <1>4. n - k = b - (a + k) + 1 /\ a + k \in Nat /\ a + k <= b + 1
    OBVIOUS
  <1> HIDE DEF r, n
  <1>5. r = LogNumbers(a + k, b)
    BY <1>2, <1>3, <1>4, NumbersEqual
  <1> QED
    BY <1>5 DEF r, s, n

LogTypes ==
    /\ entries \in Nat /\ started \in Nat /\ cleared \in Nat
    /\ started <= entries /\ cleared <= entries
    /\ main \in Seq(Nat) /\ old \in Seq(Nat)
    /\ phase \in {"idle", "full", "rename", "create"} /\ cut \in Nat

\* The first entry of a list of the newest n of b.
First(b, n) == b - n + 1

OldIsBefore ==
    /\ Len(main) = entries - cleared
    /\ \A i \in 1 .. Len(old) : old[i] <= cleared

OldIsNext ==
    /\ Len(old) >= MaxLog
    /\ Len(old) + Len(main) <= entries - cleared
    /\ old = LogNumbers(First(entries - Len(main), Len(old)), entries - Len(main))

OldIsGone == old = << >> /\ Len(main) >= MaxLog

\* What the two files have while no operation on them has failed: main has the
\* newest entries; .1 is from before the last Clear, or it has a full file, or
\* more, of those before main's; or there is none, and main is full.
DiskInv ==
    /\ file = IF phase \in {"rename", "create"} THEN "closed" ELSE "open"
    /\ Len(main) < MaxLog + cut + (IF phase = "idle" THEN 0 ELSE 1)
    /\ phase \in {"full", "rename"} => Len(main) >= MaxLog
    /\ phase = "rename" => old = << >>
    /\ phase = "create" => main = << >>
    /\ Len(main) <= entries - cleared
    /\ main = LogNumbers(First(entries, Len(main)), entries)
    /\ OldIsBefore \/ OldIsNext \/ OldIsGone

LogInv == LogTypes /\ RecentIsNewest /\ (failed \/ DiskInv)

\* The number of the first entry the buffer may have: older ones were pushed
\* out, cleared or logged before the start.
Oldest(b, c, s) == Later(IF b > MaxBuf THEN b - MaxBuf ELSE 0, Later(c, s))

\* Logging an entry puts it at the end of the buffer, and out the oldest.
LEMMA BufferKeeps ==
  ASSUME NEW b \in Nat, NEW c \in Nat, NEW s \in Nat, c <= b, s <= b
  PROVE  KeepLast(Append(LogNumbers(Oldest(b, c, s) + 1, b), b + 1), MaxBuf)
           = LogNumbers(Oldest(b + 1, c, s) + 1, b + 1)
  <1> USE LogAssumption
  <1> DEFINE o == Oldest(b, c, s)
             q == LogNumbers(o + 1, b + 1)
             n == b + 1 - o
             p == Oldest(b + 1, c, s)
  <1>1. /\ o \in Nat /\ o <= b /\ b - o <= MaxBuf
        /\ p \in Nat /\ p = IF n > MaxBuf THEN b + 1 - MaxBuf ELSE o
    BY DEF Oldest, Later
  <1> HIDE DEF o, p
  <1>2. o + 1 \in Nat /\ o + 1 <= b + 1 /\ b + 1 \in Nat
    BY <1>1
  <1>3. Append(LogNumbers(o + 1, b), b + 1) = q
    BY <1>2, NumbersAppend
  <1>4. q \in Seq(Nat) /\ Len(q) = n
    <2>1. o + 1 <= (b + 1) + 1 /\ (b + 1) - (o + 1) + 1 = n
      BY <1>1
    <2> QED
      BY <1>2, <2>1, NumbersEntries
  <1>5. KeepLast(q, MaxBuf) = LogNumbers(p + 1, b + 1)
    <2> DEFINE k == IF n > MaxBuf THEN n - MaxBuf ELSE 0
    <2>1. /\ k \in Nat /\ k <= (b + 1) - (o + 1) + 1 /\ (o + 1) + k = p + 1
          /\ (b + 1) - (o + 1) + 1 = n /\ o + 1 <= (b + 1) + 1
      BY <1>1
    <2> HIDE DEF q
    <2>2. KeepLast(q, MaxBuf) = SubSeq(q, k + 1, n)
      <3>1. k + 1 = IF Len(q) > MaxBuf THEN Len(q) - MaxBuf + 1 ELSE 1
        BY <1>1, <1>2, <1>4
      <3> HIDE DEF k, n
      <3> QED
        BY <3>1, <1>4 DEF KeepLast
    <2> USE DEF q
    <2> HIDE DEF k, n
    <2>3. SubSeq(q, k + 1, (b + 1) - (o + 1) + 1) = LogNumbers((o + 1) + k, b + 1)
      BY <1>2, <2>1, NumbersTail
    <2> QED
      BY <2>1, <2>2, <2>3
  <1> QED
    BY <1>3, <1>5 DEF o, p

\* No numbers.
LEMMA NumbersNone ==
  ASSUME NEW b \in Nat
  PROVE  LogNumbers(b + 1, b) = << >>
  <1> DEFINE s == LogNumbers(b + 1, b)
  <1>1. b + 1 \in Nat /\ b + 1 <= b + 1 /\ b - (b + 1) + 1 = 0
    OBVIOUS
  <1>2. s \in Seq(Nat) /\ Len(s) = 0
    BY <1>1, NumbersEntries
  <1> HIDE DEF s
  <1>3. s = << >>
    BY <1>2
  <1> QED
    BY <1>3 DEF s

LEMMA LogStarts == LogInit => LogInv
  <1> SUFFICES ASSUME LogInit
               PROVE  LogInv
    OBVIOUS
  <1> USE LogAssumption
  <1>1. LogNumbers(1, 0) = << >>
    <2>1. LogNumbers(0 + 1, 0) = << >>
      BY NumbersNone
    <2> QED
      BY <2>1
  <1>2. LogTypes
    BY DEF LogInit, LogTypes
  <1>3. RecentIsNewest
    BY <1>1 DEF LogInit, RecentIsNewest, Later
  <1>4. DiskInv
    <2>1. Len(main) = 0 /\ Len(old) = 0 /\ First(0, 0) = 1
      BY DEF LogInit, First
    <2> QED
      BY <1>1, <2>1 DEF LogInit, DiskInv, OldIsBefore
  <1> QED
    BY <1>2, <1>3, <1>4 DEF LogInv

\* The steps of rotateIfNeeded.
Rotate == RotateRefused \/ RotateRemove \/ RotateRename \/ RotateCreate

LEMMA LogTypesStep ==
  ASSUME LogTypes, [LogNext]_logVars
  PROVE  LogTypes'
  <1> USE DEF LogTypes
  <1>0. << >> \in Seq(Nat)
    OBVIOUS
  <1>1. CASE LogEntry
    <2>1. /\ entries' = entries + 1 /\ started' = started /\ cleared' = cleared
          /\ old' = old /\ cut' = cut
          /\ phase' \in {phase, "idle", "full"}
      BY <1>1 DEF LogEntry
    <2> DEFINE text == Append(main, entries + 1)
    <2>2. text \in Seq(Nat)
      OBVIOUS
    <2>3. main' = main \/ main' = text
      BY <1>1 DEF LogEntry
    <2> HIDE DEF text
    <2>4. main' \in Seq(Nat)
      BY <2>2, <2>3
    <2> QED
      BY <2>1, <2>4
  <1>2. CASE Rotate
    <2>1. /\ entries' = entries /\ started' = started /\ cleared' = cleared /\ cut' = cut
          /\ phase' \in {"idle", "rename", "create"}
      BY <1>2 DEF Rotate, RotateRefused, RotateRemove, RotateRename, RotateCreate
    <2>2. main' \in {main, << >>} /\ old' \in {old, main, << >>}
      BY <1>2 DEF Rotate, RotateRefused, RotateRemove, RotateRename, RotateCreate
    <2>3. main' \in Seq(Nat) /\ old' \in Seq(Nat)
      BY <1>0, <2>2
    <2> QED
      BY <2>1, <2>3
  <1>3. CASE ClearLog
    <2>1. /\ entries' = entries /\ started' = started /\ cleared' = entries /\ old' = old
          /\ cut' = cut /\ phase' = phase
          /\ main' = main \/ main' = << >>
      BY <1>3 DEF ClearLog
    <2>2. main' \in Seq(Nat)
      BY <1>0, <2>1
    <2> QED
      BY <2>1, <2>2
  <1>4. CASE LogRestart
    BY <1>4 DEF LogRestart
  <1>5. CASE UNCHANGED logVars
    BY <1>5 DEF logVars
  <1> QED
    BY <1>1, <1>2, <1>3, <1>4, <1>5 DEF LogNext, Rotate

LEMMA RecentStep ==
  ASSUME LogTypes, RecentIsNewest, [LogNext]_logVars
  PROVE  RecentIsNewest'
  <1> USE LogAssumption
  <1>1. CASE LogEntry
    <2>1. /\ entries \in Nat /\ cleared \in Nat /\ started \in Nat
          /\ cleared <= entries /\ started <= entries
      BY DEF LogTypes
    <2>2. KeepLast(Append(LogNumbers(Oldest(entries, cleared, started) + 1, entries), entries + 1), MaxBuf)
            = LogNumbers(Oldest(entries + 1, cleared, started) + 1, entries + 1)
      BY <2>1, BufferKeeps
    <2>3. buf = LogNumbers(Oldest(entries, cleared, started) + 1, entries)
      BY DEF RecentIsNewest, Oldest
    <2>4. /\ buf' = KeepLast(Append(buf, entries + 1), MaxBuf)
          /\ entries' = entries + 1 /\ cleared' = cleared /\ started' = started
      BY <1>1 DEF LogEntry
    <2>5. buf' = LogNumbers(Oldest(entries', cleared', started') + 1, entries')
      BY <2>2, <2>3, <2>4
    <2> QED
      BY <2>5 DEF RecentIsNewest, Oldest
  <1>2. CASE ClearLog \/ LogRestart
    <2>1. /\ buf' = << >> /\ entries' = entries
          /\ \/ cleared' = entries /\ started' = started
             \/ started' = entries /\ cleared' = cleared
      BY <1>2 DEF ClearLog, LogRestart
    <2>2. Oldest(entries', cleared', started') = entries
      BY <2>1 DEF LogTypes, Oldest, Later
    <2>3. LogNumbers(entries + 1, entries) = << >>
      BY NumbersNone DEF LogTypes
    <2> QED
      BY <2>1, <2>2, <2>3 DEF RecentIsNewest, Oldest
  <1>3. CASE Rotate \/ UNCHANGED logVars
    <2>1. UNCHANGED <<buf, entries, cleared, started>>
      BY <1>3 DEF Rotate, RotateRefused, RotateRemove, RotateRename, RotateCreate, logVars
    <2> QED
      BY <2>1 DEF RecentIsNewest
  <1> QED
    BY <1>1, <1>2, <1>3 DEF LogNext, Rotate

\* A failure is not forgotten.
LEMMA FailedStays ==
  ASSUME failed, [LogNext]_logVars
  PROVE  failed'
  <1>1. CASE LogEntry
    BY <1>1, Zenon DEF LogEntry
  <1>2. CASE Rotate
    BY <1>2, Zenon DEF Rotate, RotateRefused, RotateRemove, RotateRename, RotateCreate
  <1>3. CASE ClearLog
    BY <1>3 DEF ClearLog
  <1>4. CASE LogRestart
    BY <1>4 DEF LogRestart
  <1>5. CASE UNCHANGED logVars
    BY <1>5 DEF logVars
  <1> QED
    BY <1>1, <1>2, <1>3, <1>4, <1>5 DEF LogNext, Rotate

\* An entry goes to the end of the file.
LEMMA DiskEntry ==
  ASSUME LogTypes, DiskInv, LogEntry
  PROVE  failed' \/ DiskInv'
  <1> USE LogAssumption
  <1> DEFINE m == Len(main)
             text == Append(main, entries + 1)
  <1>1. /\ entries \in Nat /\ cleared \in Nat /\ cleared <= entries /\ cut \in Nat
        /\ main \in Seq(Nat) /\ old \in Seq(Nat) /\ m \in Nat
    BY DEF LogTypes
  <1>2. phase = "idle" /\ file = "open" /\ m < MaxLog + cut /\ m <= entries - cleared
    <2>1. phase = "idle"
      BY DEF LogEntry
    <2>2. file = "open" /\ m < MaxLog + cut + 0 /\ m <= entries - cleared
      BY <2>1 DEF DiskInv
    <2> QED
      BY <1>1, <2>1, <2>2
  <1>3. text = LogNumbers(First(entries + 1, m + 1), entries + 1)
    <2>1. /\ First(entries, m) \in Nat /\ First(entries, m) <= entries + 1
          /\ First(entries + 1, m + 1) = First(entries, m)
      BY <1>1, <1>2 DEF First
    <2>2. main = LogNumbers(First(entries, m), entries)
      BY DEF DiskInv
    <2>3. Append(LogNumbers(First(entries, m), entries), entries + 1)
            = LogNumbers(First(entries, m), entries + 1)
      BY <1>1, <2>1, NumbersAppend
    <2> HIDE DEF m
    <2> QED
      BY <2>1, <2>2, <2>3
  <1>4. text \in Seq(Nat) /\ Len(text) = m + 1
    BY <1>1
  <1>5. /\ entries' = entries + 1 /\ cleared' = cleared /\ cut' = cut
        /\ file' = "open" /\ old' = old
        /\ phase' = IF Len(main') < MaxLog THEN "idle" ELSE "full"
    BY <1>2 DEF LogEntry
  <1>6. failed' \/ main' = text
    BY <1>2, Zenon DEF LogEntry
  <1> HIDE DEF text
  <1>7. ASSUME main' = text PROVE DiskInv'
    <2>1. Len(main') = m + 1
      BY <1>4, <1>7
    <2> HIDE DEF m
    <2>2. entries' - Len(main') = entries - m /\ entries' - cleared' = (entries - cleared) + 1
      BY <1>1, <1>5, <2>1
    <2>3. main' = LogNumbers(First(entries', Len(main')), entries')
      BY <1>3, <1>5, <1>7, <2>1
    <2>4. /\ Len(main') < MaxLog + cut' + (IF phase' = "idle" THEN 0 ELSE 1)
          /\ phase' \in {"full", "rename"} => Len(main') >= MaxLog
          /\ phase' # "rename" /\ phase' # "create"
          /\ Len(main') <= entries' - cleared'
      <3>1. phase' = "idle" => Len(main') < MaxLog
        BY <1>5
      <3>2. phase' # "idle" => phase' = "full" /\ Len(main') >= MaxLog
        BY <1>1, <1>5, <2>1
      <3> QED
        BY <1>1, <1>2, <1>5, <2>1, <2>2, <3>1, <3>2
    <2>5. ASSUME OldIsBefore PROVE OldIsBefore'
      <3>1. Len(main') = entries' - cleared' /\ \A i \in 1 .. Len(old') : old'[i] <= cleared'
        BY <1>1, <1>5, <2>1, <2>2, <2>5 DEF OldIsBefore, m
      <3> QED
        BY <3>1 DEF OldIsBefore
    <2>6. ASSUME OldIsNext PROVE OldIsNext'
      <3>1. /\ Len(old) >= MaxLog
            /\ Len(old) + m <= entries - cleared
            /\ old = LogNumbers(First(entries - m, Len(old)), entries - m)
        BY <2>6 DEF OldIsNext, m
      <3>2. /\ Len(old') >= MaxLog
            /\ Len(old') + Len(main') <= entries' - cleared'
            /\ old' = LogNumbers(First(entries' - Len(main'), Len(old')), entries' - Len(main'))
        BY <1>1, <1>5, <2>1, <2>2, <3>1
      <3> QED
        BY <3>2 DEF OldIsNext
    <2>7. ASSUME OldIsGone PROVE OldIsGone'
      <3>1. old' = << >> /\ Len(main') >= MaxLog
        BY <1>1, <1>5, <2>1, <2>7 DEF OldIsGone, m
      <3> QED
        BY <3>1 DEF OldIsGone
    <2>8. OldIsBefore' \/ OldIsNext' \/ OldIsGone'
      BY <2>5, <2>6, <2>7 DEF DiskInv
    <2> QED
      BY <1>5, <2>3, <2>4, <2>8 DEF DiskInv
  <1> QED
    BY <1>6, <1>7

\* A rotation that meets no failure makes the file .1, step by step.
LEMMA DiskRotate ==
  ASSUME LogTypes, DiskInv, Rotate
  PROVE  failed' \/ DiskInv'
  <1> USE LogAssumption
  <1>1. /\ entries \in Nat /\ cleared \in Nat /\ cleared <= entries /\ cut \in Nat
        /\ main \in Seq(Nat) /\ old \in Seq(Nat) /\ Len(main) \in Nat
    BY DEF LogTypes
  <1>2. entries' = entries /\ cleared' = cleared /\ cut' = cut
    BY DEF Rotate, RotateRefused, RotateRemove, RotateRename, RotateCreate
  <1>3. CASE RotateRefused
    BY <1>3 DEF RotateRefused
  <1>4. CASE RotateRemove
    <2>1. failed' \/ old' = << >>
      BY <1>4, Zenon DEF RotateRemove
    <2>2. phase = "full" /\ phase' = "rename" /\ file' = "closed" /\ main' = main
      BY <1>4 DEF RotateRemove
    <2>3. ASSUME old' = << >> PROVE DiskInv'
      <3>1. /\ Len(main) >= MaxLog /\ Len(main) < MaxLog + cut + 1
            /\ Len(main) <= entries - cleared
            /\ main = LogNumbers(First(entries, Len(main)), entries)
        BY <2>2 DEF DiskInv
      <3>2. OldIsGone'
        BY <2>2, <2>3, <3>1 DEF OldIsGone
      <3> QED
        BY <1>2, <2>2, <2>3, <3>1, <3>2 DEF DiskInv
    <2> QED
      BY <2>1, <2>3
  <1>5. CASE RotateRename
    <2>1. failed' \/ (old' = main /\ main' = << >>)
      BY <1>5, Zenon DEF RotateRename
    <2>2. phase = "rename" /\ phase' = "create" /\ file' = file
      BY <1>5 DEF RotateRename
    <2>3. ASSUME old' = main, main' = << >> PROVE DiskInv'
      <3>1. /\ Len(main) >= MaxLog /\ file = "closed"
            /\ Len(main) <= entries - cleared
            /\ main = LogNumbers(First(entries, Len(main)), entries)
        BY <2>2 DEF DiskInv
      <3>2. Len(main') = 0 /\ entries - Len(main') = entries
        BY <1>1, <2>3
      <3>3. main' = LogNumbers(First(entries', Len(main')), entries')
        <4>1. First(entries', Len(main')) = entries + 1
          BY <1>1, <1>2, <3>2 DEF First
        <4> QED
          BY <1>1, <1>2, <2>3, <4>1, NumbersNone
      <3>4. OldIsNext'
        <4>1. Len(old') >= MaxLog /\ Len(old') + Len(main') <= entries' - cleared'
          BY <1>1, <1>2, <2>3, <3>1, <3>2
        <4>2. old' = LogNumbers(First(entries' - Len(main'), Len(old')), entries' - Len(main'))
          BY <1>2, <2>3, <3>1, <3>2
        <4> QED
          BY <4>1, <4>2 DEF OldIsNext
      <3>5. Len(main') < MaxLog + cut' + 1 /\ Len(main') <= entries' - cleared'
        BY <1>1, <1>2, <3>2
      <3> QED
        BY <2>2, <2>3, <3>1, <3>3, <3>4, <3>5 DEF DiskInv
    <2> QED
      BY <2>1, <2>3
  <1>6. CASE RotateCreate
    <2>1. failed' \/ (main' = << >> /\ file' = "open")
      BY <1>6, Zenon DEF RotateCreate
    <2>2. phase = "create" /\ phase' = "idle" /\ old' = old
      BY <1>6 DEF RotateCreate
    <2>3. ASSUME main' = << >>, file' = "open" PROVE DiskInv'
      <3>1. main' = main
        BY <2>2, <2>3 DEF DiskInv
      <3>2. Len(main') = 0
        BY <2>3
      <3>3. Len(main') < MaxLog + cut'
        BY <1>1, <1>2, <3>2
      <3>4. /\ Len(main') <= entries' - cleared'
            /\ main' = LogNumbers(First(entries', Len(main')), entries')
        BY <1>2, <3>1 DEF DiskInv
      <3>5. OldIsBefore' \/ OldIsNext' \/ OldIsGone'
        BY <1>2, <2>2, <3>1 DEF DiskInv, OldIsBefore, OldIsNext, OldIsGone
      <3>6. MaxLog + cut' + 0 = MaxLog + cut'
        BY <1>1, <1>2
      <3> QED
        BY <2>2, <2>3, <3>3, <3>4, <3>5, <3>6 DEF DiskInv
    <2> QED
      BY <2>1, <2>3
  <1> QED
    BY <1>3, <1>4, <1>5, <1>6 DEF Rotate

\* Clear and a start, at any step of a rotation, keep the files as they should be.
LEMMA DiskClearOrRestart ==
  ASSUME LogTypes, DiskInv, ClearLog \/ LogRestart \/ UNCHANGED logVars
  PROVE  failed' \/ DiskInv'
  <1> USE LogAssumption
  <1>1. CASE ClearLog
    <2>1. failed' \/ (main' = << >> /\ file' = "open")
      BY <1>1 DEF ClearLog, DiskInv
    <2>2. /\ entries' = entries /\ cleared' = entries /\ old' = old
          /\ cut' = cut /\ phase' = "idle"
      BY <1>1 DEF ClearLog
    <2>3. \A i \in 1 .. Len(old) : old[i] <= entries
      <3>1. CASE OldIsBefore
        BY <3>1 DEF LogTypes, OldIsBefore
      <3>2. CASE OldIsNext
        <4> DEFINE a == First(entries - Len(main), Len(old))
                   b == entries - Len(main)
        <4>1. a \in Nat /\ b \in Nat /\ a <= b + 1 /\ b - a + 1 = Len(old) /\ b <= entries
          BY <3>2 DEF LogTypes, First, OldIsNext
        <4>2. \A i \in 1 .. b - a + 1 : LogNumbers(a, b)[i] = a + i - 1
          BY <4>1, NumbersEntries
        <4>3. old = LogNumbers(a, b)
          BY <3>2 DEF OldIsNext
        <4> HIDE DEF a, b
        <4>4. \A i \in 1 .. Len(old) : old[i] = a + i - 1
          BY <4>1, <4>2, <4>3
        <4> QED
          BY <4>1, <4>4 DEF LogTypes
      <3>3. CASE OldIsGone
        BY <3>3 DEF OldIsGone
      <3> QED
        BY <3>1, <3>2, <3>3 DEF DiskInv
    <2>4. ASSUME main' = << >>, file' = "open"
          PROVE  DiskInv'
      <3>1. LogNumbers(entries + 1, entries) = << >>
        BY NumbersNone DEF LogTypes
      <3>2. Len(main') = 0 /\ First(entries', Len(main')) = entries + 1
        BY <2>2, <2>4 DEF LogTypes, First
      <3>3. Len(main') = entries' - cleared' /\ \A i \in 1 .. Len(old') : old'[i] <= cleared'
        BY <2>2, <2>3, <3>2 DEF LogTypes
      <3>4. OldIsBefore'
        BY <3>3 DEF OldIsBefore
      <3>5. /\ Len(main') < MaxLog + cut' + 0 /\ Len(main') <= entries' - cleared'
            /\ main' = LogNumbers(First(entries', Len(main')), entries')
        BY <2>2, <2>4, <3>1, <3>2 DEF LogTypes
      <3> QED
        BY <2>2, <2>4, <3>4, <3>5 DEF DiskInv
    <2> QED
      BY <2>1, <2>4
  <1>2. CASE LogRestart
    <2>1. failed' \/ file' = "open"
      BY <1>2 DEF LogRestart
    <2>2. /\ entries' = entries /\ main' = main /\ old' = old /\ cleared' = cleared
          /\ phase' = "idle" /\ cut' = IF phase = "idle" THEN cut ELSE cut + 1
      BY <1>2 DEF LogRestart
    <2>3. Len(main') < MaxLog + cut' + 0
      BY <2>2 DEF DiskInv, LogTypes
    <2>4. OldIsBefore' \/ OldIsNext' \/ OldIsGone'
      BY <2>2 DEF DiskInv, OldIsBefore, OldIsNext, OldIsGone
    <2>5. /\ Len(main') <= entries' - cleared'
          /\ main' = LogNumbers(First(entries', Len(main')), entries')
      BY <2>2 DEF DiskInv
    <2>6. file' = "open" => DiskInv'
      BY <2>2, <2>3, <2>4, <2>5 DEF DiskInv
    <2> QED
      BY <2>1, <2>6
  <1>3. CASE UNCHANGED logVars
    BY <1>3 DEF logVars, DiskInv, OldIsBefore, OldIsNext, OldIsGone
  <1> QED
    BY <1>1, <1>2, <1>3

LEMMA LogStep == LogInv /\ [LogNext]_logVars => LogInv'
  <1> SUFFICES ASSUME LogInv, [LogNext]_logVars
               PROVE  LogInv'
    OBVIOUS
  <1>1. LogTypes /\ RecentIsNewest /\ (failed \/ DiskInv)
    BY DEF LogInv
  <1>2. LogTypes'
    BY <1>1, LogTypesStep
  <1>3. RecentIsNewest'
    BY <1>1, RecentStep
  <1>4. failed' \/ DiskInv'
    <2>1. CASE failed
      BY <2>1, FailedStays
    <2>2. CASE DiskInv
      <3>1. LogEntry => failed' \/ DiskInv'
        BY <1>1, <2>2, DiskEntry
      <3>2. ClearLog \/ LogRestart \/ UNCHANGED logVars => failed' \/ DiskInv'
        BY <1>1, <2>2, DiskClearOrRestart
      <3>3. Rotate => failed' \/ DiskInv'
        BY <1>1, <2>2, DiskRotate
      <3> QED
        BY <3>1, <3>2, <3>3 DEF LogNext, Rotate
    <2> QED
      BY <1>1, <2>1, <2>2
  <1> QED
    BY <1>2, <1>3, <1>4 DEF LogInv

\* The admin page shows the newest entries since the log was cleared or the
\* program started, in order and without a gap: logger.Log's buffer, cut at
\* MaxBuf entries, Clear and New.
THEOREM RecentStaysNewest == LogSpec => []RecentIsNewest
  <1>1. LogInv => RecentIsNewest
    BY DEF LogInv
  <1> QED
    BY LogStarts, LogStep, <1>1, PTL DEF LogSpec

\* Two rows of numbers end to end.
LEMMA NumbersConcat ==
  ASSUME NEW a \in Nat, NEW b \in Nat, NEW c \in Nat, a <= b + 1, b <= c
  PROVE  LogNumbers(a, b) \o LogNumbers(b + 1, c) = LogNumbers(a, c)
  <1> DEFINE s == LogNumbers(a, b)
             t == LogNumbers(b + 1, c)
             r == s \o t
  <1>1. s \in Seq(Nat) /\ Len(s) = b - a + 1 /\ \A i \in 1 .. b - a + 1 : s[i] = a + i - 1
    BY NumbersEntries
  <1>2. /\ t \in Seq(Nat) /\ Len(t) = c - b
        /\ \A i \in 1 .. c - b : t[i] = (b + 1) + i - 1
    <2>1. b + 1 \in Nat /\ b + 1 <= c + 1 /\ c - (b + 1) + 1 = c - b
      OBVIOUS
    <2>2. /\ t \in Seq(Nat) /\ Len(t) = c - (b + 1) + 1
          /\ \A i \in 1 .. c - (b + 1) + 1 : t[i] = (b + 1) + i - 1
      BY <2>1, NumbersEntries
    <2> QED
      BY <2>1, <2>2
  <1> HIDE DEF s, t
  <1>3. /\ r \in Seq(Nat) /\ Len(r) = c - a + 1
        /\ \A i \in 1 .. c - a + 1 :
             r[i] = IF i <= Len(s) THEN s[i] ELSE t[i - Len(s)]
    <2>1. /\ r \in Seq(Nat) /\ Len(r) = Len(s) + Len(t)
          /\ \A i \in 1 .. Len(s) + Len(t) : r[i] = IF i <= Len(s) THEN s[i] ELSE t[i - Len(s)]
      BY ONLY <1>1, <1>2, ConcatProperties
    <2>2. Len(s) + Len(t) = c - a + 1
      BY <1>1, <1>2
    <2> QED
      BY <2>1, <2>2
  <1> HIDE DEF r
  <1>4. ASSUME NEW i \in 1 .. c - a + 1 PROVE r[i] = a + i - 1
    <2>1. CASE i <= Len(s)
      <3>1. i \in 1 .. b - a + 1
        BY <1>1, <2>1
      <3> QED
        BY <1>1, <1>3, <2>1, <3>1
    <2>2. CASE ~(i <= Len(s))
      <3>1. i - Len(s) \in 1 .. c - b /\ (b + 1) + (i - Len(s)) - 1 = a + i - 1
        BY <1>1, <2>2
      <3> QED
        BY <1>2, <1>3, <2>2, <3>1
    <2> QED
      BY <2>1, <2>2
  <1>5. a <= c + 1
    OBVIOUS
  <1>6. r = LogNumbers(a, c)
    BY <1>3, <1>4, <1>5, NumbersEqual
  <1> QED
    BY <1>6 DEF r, s, t

\* What DiskInv says of the files one by one says it of the two in a row.
LEMMA DiskShows ==
  ASSUME LogTypes, DiskInv
  PROVE  NewestAreOnDisk
  <1> USE LogAssumption
  <1> DEFINE m == Len(main)
             text == old \o main
  <1>1. /\ entries \in Nat /\ cleared \in Nat /\ cleared <= entries /\ m \in Nat
        /\ main \in Seq(Nat) /\ old \in Seq(Nat)
        /\ m <= entries - cleared
        /\ main = LogNumbers(First(entries, m), entries)
    BY DEF LogTypes, DiskInv
  <1>2. /\ text \in Seq(Nat) /\ Len(text) = Len(old) + m
        /\ \A i \in 1 .. Len(old) : text[i] = old[i]
    BY <1>1
  <1>3. /\ SubSeq(text, Len(old) + 1, Len(old) + m) = main
        /\ SubSeq(text, 1, Len(old) + m) = text
    <2>1. SubSeq(text, Len(old) + 1, Len(old) + Len(main)) = main
      BY <1>1
    <2>2. SubSeq(text, 1, Len(text)) = text
      BY <1>2
    <2> QED
      BY <1>2, <2>1, <2>2
  <1>4. First(entries, m) = entries - m + 1
    BY DEF First
  <1> DEFINE Shows(n) ==
               /\ n <= entries - cleared
               /\ n = entries - cleared \/ n >= MaxLog
               /\ \A i \in 1 .. Len(text) - n : text[i] <= cleared
               /\ SubSeq(text, Len(text) - n + 1, Len(text)) = LogNumbers(entries - n + 1, entries)
  <1>5. \E n \in 0 .. Len(text) : Shows(n)
    <2>1. CASE OldIsBefore
      <3>0. m = entries - cleared /\ \A i \in 1 .. Len(old) : old[i] <= cleared
        BY <2>1 DEF OldIsBefore
      <3>1. m \in 0 .. Len(text) /\ Len(text) - m = Len(old)
        BY <1>1, <1>2
      <3>2. \A i \in 1 .. Len(text) - m : text[i] <= cleared
        BY <1>2, <3>0, <3>1
      <3>3. SubSeq(text, Len(text) - m + 1, Len(text)) = LogNumbers(entries - m + 1, entries)
        BY <1>1, <1>2, <1>3, <1>4, <3>1
      <3>4. Shows(m)
        BY <1>1, <3>0, <3>2, <3>3
      <3> HIDE DEF Shows, text, m
      <3> QED
        BY <3>1, <3>4
    <2>2. CASE OldIsNext
      <3> DEFINE l == Len(old) + m
      <3>0. /\ Len(old) >= MaxLog /\ l <= entries - cleared
            /\ old = LogNumbers(First(entries - m, Len(old)), entries - m)
        BY <2>2 DEF OldIsNext
      <3>1. l \in 0 .. Len(text) /\ Len(text) - l = 0 /\ l >= MaxLog
        BY <1>1, <1>2, <3>0
      <3>2. text = LogNumbers(entries - l + 1, entries)
        <4> DEFINE a == entries - l + 1
                   b == entries - m
        <4>1. /\ a \in Nat /\ b \in Nat /\ a <= b + 1 /\ b <= entries
              /\ First(entries - m, Len(old)) = a /\ entries - m + 1 = b + 1
          <5>1. Len(old) \in Nat /\ l = Len(old) + m
            BY <1>1
          <5> HIDE DEF m, l
          <5> QED
            BY <1>1, <3>0, <3>1, <5>1 DEF First
        <4>2. old = LogNumbers(a, b) /\ main = LogNumbers(b + 1, entries)
          BY <1>1, <1>4, <3>0, <4>1
        <4> HIDE DEF a, b
        <4>3. LogNumbers(a, b) \o LogNumbers(b + 1, entries) = LogNumbers(a, entries)
          <5>1. a \in Nat /\ b \in Nat /\ entries \in Nat /\ a <= b + 1 /\ b <= entries
            BY ONLY <1>1, <4>1
          <5> QED
            BY ONLY <5>1, NumbersConcat
        <4>4. text = LogNumbers(a, b) \o LogNumbers(b + 1, entries)
          BY ONLY <4>2
        <4> HIDE DEF text
        <4>5. text = LogNumbers(a, entries)
          BY ONLY <4>3, <4>4
        <4> QED
          BY <4>5 DEF a
      <3>3. SubSeq(text, Len(text) - l + 1, Len(text)) = LogNumbers(entries - l + 1, entries)
        BY <1>2, <1>3, <3>1, <3>2
      <3>4. \A i \in 1 .. Len(text) - l : text[i] <= cleared
        BY <3>1
      <3>5. Shows(l)
        BY <1>1, <3>0, <3>1, <3>3, <3>4
      <3> HIDE DEF Shows, text, m, l
      <3> QED
        BY <3>1, <3>5
    <2>3. CASE OldIsGone
      <3>1. m \in 0 .. Len(text) /\ Len(text) - m = 0 /\ m >= MaxLog
        BY <1>1, <1>2, <2>3 DEF OldIsGone
      <3>2. SubSeq(text, Len(text) - m + 1, Len(text)) = LogNumbers(entries - m + 1, entries)
        <4>1. Len(text) - m + 1 = Len(old) + 1 /\ Len(text) = Len(old) + m
          BY <1>1, <1>2
        <4> QED
          BY <1>1, <1>3, <1>4, <4>1
      <3>3. \A i \in 1 .. Len(text) - m : text[i] <= cleared
        BY <3>1
      <3>4. Shows(m)
        BY <1>1, <3>1, <3>2, <3>3
      <3> HIDE DEF Shows, text, m
      <3> QED
        BY <3>1, <3>4
    <2> QED
      BY <2>1, <2>2, <2>3 DEF DiskInv
  <1>6. Len(main) < MaxLog + cut + (IF phase = "idle" THEN 0 ELSE 1)
    BY DEF DiskInv
  <1> QED
    BY <1>5, <1>6 DEF NewestAreOnDisk

\* While no file operation has failed, the newest entries are in the two files,
\* in order and without a gap, at every step of log and of rotateIfNeeded, after
\* Clear and wherever the program ended; and the file is longer than the limit by
\* at most one entry for each end in the middle of a rotation.
THEOREM NewestStayOnDisk == LogSpec => []NewestAreOnDisk
  <1>1. LogInv => NewestAreOnDisk
    <2> SUFFICES ASSUME LogInv
                 PROVE  NewestAreOnDisk
      OBVIOUS
    <2>1. CASE failed
      BY <2>1 DEF NewestAreOnDisk
    <2>2. CASE DiskInv
      BY <2>2, DiskShows DEF LogInv
    <2> QED
      BY <2>1, <2>2 DEF LogInv
  <1> QED
    BY LogStarts, LogStep, <1>1, PTL DEF LogSpec

-----------------------------------------------------------------------------
\* The image cache.

\* F holds the sums of the sizes of the first entries of a list.
SumOf(F, l, size) ==
    /\ F \in [0 .. Len(l) -> Nat]
    /\ F[0] = 0
    /\ \A n \in 1 .. Len(l) : F[n] = F[n - 1] + size[l[n]]

\* There are such sums.
LEMMA SizeLoop ==
  ASSUME NEW D, NEW size \in [D -> Nat], NEW l \in Seq(D)
  PROVE  \E F : SumOf(F, l, size)
  <1> DEFINE L == Len(l)
             step == [n \in 1 .. L |-> [x \in Nat |-> x + size[l[n]]]]
  <1>1. L \in Nat /\ \A n \in 1 .. L : size[l[n]] \in Nat
    OBVIOUS
  <1>2. step \in [1 .. L -> [Nat -> Nat]]
    BY <1>1
  <1>3. PICK F \in [0 .. L -> Nat] : F[0] = 0 /\ \A n \in 1 .. L : F[n] = step[n][F[n - 1]]
    <2>1. L \in Nat /\ 0 \in Nat
      BY <1>1
    <2> HIDE DEF step, L
    <2>2. Computed(Nat, 0, L, step)
      BY ONLY <2>1, <1>2, Recursion
    <2> QED
      BY <2>2 DEF Computed
  <1>4. ASSUME NEW n \in 1 .. L PROVE F[n] = F[n - 1] + size[l[n]]
    <2>1. F[n - 1] \in Nat
      <3>1. n - 1 \in 0 .. L
        BY <1>1
      <3> HIDE DEF step, L
      <3> QED
        BY <1>3, <3>1
    <2>2. step[n][F[n - 1]] = F[n - 1] + size[l[n]]
      BY <2>1
    <2> HIDE DEF step
    <2> QED
      BY <1>3, <2>2
  <1> HIDE DEF step
  <1>5. SumOf(F, l, size)
    BY <1>3, <1>4 DEF SumOf
  <1> QED
    BY <1>5

\* The last of them is the size of the list.
LEMMA SizeIs ==
  ASSUME NEW T, NEW l \in Seq(T), NEW size, NEW F, SumOf(F, l, size)
  PROVE  SizeOf(l, size) = F[Len(l)]
  <1> DEFINE L == Len(l)
             Loop(G) == G = [n \in 0 .. L |-> IF n = 0 THEN 0 ELSE G[n - 1] + size[l[n]]]
             Q == CHOOSE G : Loop(G)
  <1>1. /\ L \in Nat /\ F \in [0 .. L -> Nat] /\ F[0] = 0
        /\ \A n \in 1 .. L : F[n] = F[n - 1] + size[l[n]]
    BY DEF SumOf
  <1>2. Loop(F)
    <2>1. \A n \in 0 .. L : n = 0 \/ n \in 1 .. L
      BY <1>1
    <2> HIDE DEF L
    <2>2. \A n \in 0 .. L : F[n] = IF n = 0 THEN 0 ELSE F[n - 1] + size[l[n]]
      BY <1>1, <2>1
    <2> QED
      BY <1>1, <2>2
  <1>3. Loop(Q)
    <2> HIDE DEF Loop
    <2> QED
      BY <1>2
  <1>4. SizeOf(l, size) = Q[L]
    BY DEF SizeOf
  <1>5. Q[L] = F[L]
    <2> DEFINE Same == {n \in Nat : n <= L => Q[n] = F[n]}
    <2> HIDE DEF Q
    <2>1. 0 \in Same
      BY <1>1, <1>3
    <2>2. ASSUME NEW n \in Nat, n \in Same PROVE n + 1 \in Same
      <3> SUFFICES ASSUME n + 1 <= L PROVE Q[n + 1] = F[n + 1]
        OBVIOUS
      <3>1. n + 1 \in 1 .. L /\ n + 1 \in 0 .. L /\ n + 1 # 0 /\ (n + 1) - 1 = n /\ n <= L
        BY <1>1
      <3>2. Q[n] = F[n]
        BY <2>2, <3>1
      <3>3. Q[n + 1] = Q[n] + size[l[n + 1]]
        <4> HIDE DEF L
        <4> QED
          BY <1>3, <3>1
      <3>4. F[n + 1] = F[n] + size[l[n + 1]]
        <4> HIDE DEF L
        <4> QED
          BY <1>1, <3>1
      <3> QED
        BY <3>2, <3>3, <3>4
    <2>3. Nat \subseteq Same
      <3> HIDE DEF Same
      <3> QED
        BY <2>1, <2>2, Inductive
    <2> QED
      BY <1>1, <2>3
  <1> HIDE DEF Q
  <1> QED
    BY <1>4, <1>5

\* f and g agree on the entries of l.
SameSizes(l, f, g) == \A i \in 1 .. Len(l) : f[l[i]] = g[l[i]]

\* The size of a list is a number, and it depends on the sizes of its entries only.
LEMMA SizeSame ==
  ASSUME NEW D, NEW f \in [D -> Nat], NEW l \in Seq(D), NEW g, SameSizes(l, f, g)
  PROVE  SizeOf(l, f) \in Nat /\ SizeOf(l, f) = SizeOf(l, g)
  <1>1. PICK F : SumOf(F, l, f)
    BY SizeLoop
  <1>2. SumOf(F, l, g)
    BY <1>1 DEF SumOf, SameSizes
  <1>3. SizeOf(l, f) = F[Len(l)]
    BY <1>1, SizeIs
  <1>4. SizeOf(l, g) = F[Len(l)]
    BY <1>2, SizeIs
  <1>5. F[Len(l)] \in Nat
    <2>1. Len(l) \in 0 .. Len(l)
      OBVIOUS
    <2>2. F \in [0 .. Len(l) -> Nat]
      BY <1>1 DEF SumOf
    <2> QED
      BY ONLY <2>1, <2>2
  <1> QED
    BY <1>3, <1>4, <1>5

LEMMA SizeNat ==
  ASSUME NEW D, NEW f \in [D -> Nat], NEW l \in Seq(D)
  PROVE  SizeOf(l, f) \in Nat
  <1>1. SameSizes(l, f, f)
    BY DEF SameSizes
  <1> QED
    BY <1>1, SizeSame

LEMMA SizeNone ==
  ASSUME NEW size
  PROVE  SizeOf(<< >>, size) = 0
  <1> DEFINE F == [n \in 0 .. 0 |-> 0]
  <1>1. SumOf(F, << >>, size)
    BY DEF SumOf
  <1>2. << >> \in Seq(Nat) /\ Len(<< >>) = 0 /\ F[0] = 0
    OBVIOUS
  <1> HIDE DEF F
  <1>3. SizeOf(<< >>, size) = F[Len(<< >>)]
    BY <1>1, <1>2, SizeIs
  <1> QED
    BY <1>2, <1>3

LEMMA SizeOne ==
  ASSUME NEW D, NEW size \in [D -> Nat], NEW x \in D
  PROVE  SizeOf(<<x>>, size) = size[x]
  <1> DEFINE F == [n \in 0 .. 1 |-> IF n = 0 THEN 0 ELSE size[x]]
             l == <<x>>
  <1>1. l \in Seq(D) /\ Len(l) = 1 /\ l[1] = x
    OBVIOUS
  <1>2. F \in [0 .. 1 -> Nat] /\ F[0] = 0 /\ F[1] = size[x] /\ size[x] \in Nat
    OBVIOUS
  <1> HIDE DEF F, l
  <1>3. SumOf(F, l, size)
    <2>1. ASSUME NEW n \in 1 .. Len(l) PROVE F[n] = F[n - 1] + size[l[n]]
      <3>1. n = 1 /\ n - 1 = 0
        BY <1>1
      <3> QED
        BY <1>1, <1>2, <3>1
    <2> QED
      BY <1>1, <1>2, <2>1 DEF SumOf
  <1>4. SizeOf(l, size) = F[Len(l)]
    BY <1>1, <1>3, SizeIs
  <1>5. SizeOf(l, size) = size[x]
    BY <1>1, <1>2, <1>4
  <1> QED
    BY <1>5 DEF l

LEMMA SizeConcat ==
  ASSUME NEW D, NEW size \in [D -> Nat], NEW a \in Seq(D), NEW b \in Seq(D)
  PROVE  SizeOf(a \o b, size) = SizeOf(a, size) + SizeOf(b, size)
  <1>1. PICK A : SumOf(A, a, size)
    BY SizeLoop
  <1>2. PICK B : SumOf(B, b, size)
    BY SizeLoop
  <1> DEFINE m == Len(a)
             k == Len(b)
             l == a \o b
             F == [n \in 0 .. m + k |-> IF n <= m THEN A[n] ELSE A[m] + B[n - m]]
  <1>3. /\ m \in Nat /\ k \in Nat /\ l \in Seq(D) /\ Len(l) = m + k
        /\ \A n \in 1 .. m + k : l[n] = IF n <= m THEN a[n] ELSE b[n - m]
    BY ONLY ConcatProperties, LenProperties, a \in Seq(D), b \in Seq(D)
  <1>4. /\ A \in [0 .. m -> Nat] /\ A[0] = 0
        /\ \A n \in 1 .. m : A[n] = A[n - 1] + size[a[n]]
    BY <1>1 DEF SumOf
  <1>5. /\ B \in [0 .. k -> Nat] /\ B[0] = 0
        /\ \A n \in 1 .. k : B[n] = B[n - 1] + size[b[n]]
    BY <1>2 DEF SumOf
  <1>6. SizeOf(a, size) = A[m] /\ SizeOf(b, size) = B[k]
    BY <1>1, <1>2, SizeIs
  <1>7. \A n \in 1 .. k : size[b[n]] \in Nat
    OBVIOUS
  <1> HIDE DEF m, k, l
  <1>8. ASSUME NEW n \in 0 .. m + k
        PROVE  F[n] \in Nat /\ F[n] = IF n <= m THEN A[n] ELSE A[m] + B[n - m]
    <2>1. n <= m => n \in 0 .. m
      BY <1>3
    <2>2. ~ (n <= m) => n - m \in 0 .. k
      BY <1>3
    <2>3. m \in 0 .. m
      BY <1>3
    <2>4. F[n] = IF n <= m THEN A[n] ELSE A[m] + B[n - m]
      OBVIOUS
    <2> HIDE DEF F
    <2>5. CASE n <= m
      <3>1. F[n] = A[n] /\ A[n] \in Nat
        BY <1>4, <2>1, <2>4, <2>5
      <3> QED
        BY <2>4, <3>1
    <2>6. CASE ~ (n <= m)
      <3>1. A[m] \in Nat /\ B[n - m] \in Nat
        BY <1>4, <1>5, <2>2, <2>3, <2>6
      <3>2. F[n] = A[m] + B[n - m]
        BY <2>4, <2>6
      <3>3. F[n] \in Nat
        BY <3>1, <3>2
      <3> QED
        BY <2>4, <3>3
    <2> QED
      BY <2>5, <2>6
  <1>9. F \in [0 .. m + k -> Nat]
    BY <1>8
  <1> HIDE DEF F
  <1>10. ASSUME NEW n \in 1 .. m + k PROVE F[n] = F[n - 1] + size[l[n]]
    <2>0. n \in 0 .. m + k /\ n - 1 \in 0 .. m + k
      BY <1>3
    <2>1. CASE n <= m
      <3>1. n \in 1 .. m /\ n - 1 <= m
        BY <1>3, <2>1
      <3>2. F[n] = A[n] /\ F[n - 1] = A[n - 1] /\ l[n] = a[n]
        BY <1>3, <1>8, <2>0, <2>1, <3>1
      <3> QED
        BY <1>4, <3>1, <3>2
    <2>2. CASE n = m + 1
      <3>1. 1 \in 1 .. k /\ n - m = 1 /\ n - 1 = m /\ n - 1 <= m /\ ~ (n <= m) /\ m \in 0 .. m
        BY <1>3, <2>2
      <3>2. F[n] = A[m] + B[1] /\ F[n - 1] = A[m] /\ l[n] = b[1]
        BY <1>3, <1>8, <2>0, <3>1
      <3>3. B[1] = size[b[1]] /\ A[m] \in Nat
        <4>1. B[1] = B[1 - 1] + size[b[1]] /\ 1 - 1 = 0
          BY <1>5, <3>1
        <4> QED
          BY <1>4, <1>5, <1>7, <3>1, <4>1
      <3> QED
        BY <3>2, <3>3
    <2>3. CASE n > m + 1
      <3>1. /\ n - m \in 1 .. k /\ (n - m) - 1 \in 0 .. k /\ (n - 1) - m = (n - m) - 1
            /\ ~ (n <= m) /\ ~ (n - 1 <= m) /\ m \in 0 .. m
        <4>1. m \in Nat /\ k \in Nat /\ n \in Nat /\ n <= m + k
          BY <1>3
        <4>2. n - m \in 1 .. k /\ (n - m) - 1 \in 0 .. k
          BY ONLY <2>3, <4>1
        <4>3. (n - 1) - m = (n - m) - 1 /\ m \in 0 .. m
          BY ONLY <4>1
        <4>4. ~ (n <= m) /\ ~ (n - 1 <= m)
          BY ONLY <2>3, <4>1
        <4> QED
          BY ONLY <4>2, <4>3, <4>4
      <3>2. F[n] = A[m] + B[n - m] /\ F[n - 1] = A[m] + B[(n - m) - 1] /\ l[n] = b[n - m]
        BY <1>3, <1>8, <2>0, <3>1
      <3>3. B[n - m] = B[(n - m) - 1] + size[b[n - m]]
        BY <1>5, <3>1
      <3>4. A[m] \in Nat /\ B[(n - m) - 1] \in Nat /\ size[b[n - m]] \in Nat
        BY <1>4, <1>5, <1>7, <3>1
      <3>5. A[m] + (B[(n - m) - 1] + size[b[n - m]]) = (A[m] + B[(n - m) - 1]) + size[b[n - m]]
        <4>1. \A x, y, z \in Nat : x + (y + z) = (x + y) + z
          OBVIOUS
        <4> QED
          BY ONLY <3>4, <4>1
      <3> QED
        BY ONLY <3>2, <3>3, <3>5
    <2>4. n <= m \/ n = m + 1 \/ n > m + 1
      BY <1>3
    <2> QED
      BY <2>1, <2>2, <2>3, <2>4, Zenon
  <1>11. SumOf(F, l, size)
    <2>1. F[0] = 0
      BY <1>3, <1>4, <1>8
    <2> QED
      BY <1>3, <1>9, <1>10, <2>1 DEF SumOf
  <1>12. SizeOf(l, size) = F[Len(l)]
    BY <1>3, <1>11, SizeIs
  <1>13. F[m + k] = A[m] + B[k]
    <2>1. m + k \in 0 .. m + k /\ m \in 0 .. m /\ k \in 0 .. k
      BY <1>3
    <2>2. CASE k = 0
      BY <1>3, <1>4, <1>5, <1>8, <2>1, <2>2
    <2>3. CASE k # 0
      BY <1>3, <1>8, <2>1, <2>3
    <2> QED
      BY <2>2, <2>3
  <1>14. SizeOf(l, size) = SizeOf(a, size) + SizeOf(b, size)
    BY <1>3, <1>6, <1>12, <1>13
  <1> QED
    BY <1>14 DEF l

\* A list is one of its own members.
LEMMA SeqOver ==
  ASSUME NEW T, NEW s \in Seq(T), NEW D, ToSet(s) \subseteq D
  PROVE  s \in Seq(D)
  <1>1. Len(s) \in Nat /\ DOMAIN s = 1 .. Len(s) /\ s \in [1 .. Len(s) -> T]
    BY LenProperties
  <1>2. \A i \in 1 .. Len(s) : s[i] \in D
    BY <1>1 DEF ToSet
  <1>3. s \in [1 .. Len(s) -> D]
    BY <1>1, <1>2
  <1> QED
    BY <1>1, <1>3

\* Without its entry at i a list is smaller by that entry.
LEMMA SizeRemoved ==
  ASSUME NEW D, NEW size \in [D -> Nat], NEW s \in Seq(D), NEW i \in 1 .. Len(s)
  PROVE  SizeOf(s, size) = SizeOf(RemoveAt(s, i), size) + size[s[i]]
  <1> DEFINE a == SubSeq(s, 1, i - 1)
             b == SubSeq(s, i + 1, Len(s))
             c == SubSeq(s, i, Len(s))
             x == s[i]
  <1>1. a \in Seq(D) /\ b \in Seq(D) /\ x \in D /\ <<x>> \in Seq(D)
    OBVIOUS
  <1>2. s = a \o c
    <2>1. /\ Len(s) \in Nat /\ 1 \in 1 .. Len(s) + 1 /\ i - 1 \in 1 - 1 .. Len(s)
          /\ Len(s) \in i - 1 .. Len(s) /\ (i - 1) + 1 = i
      OBVIOUS
    <2>2. SubSeq(s, 1, i - 1) \o SubSeq(s, (i - 1) + 1, Len(s)) = SubSeq(s, 1, Len(s))
      BY <2>1, ConcatAdjacentSubSeq
    <2>3. SubSeq(s, 1, Len(s)) = s
      BY SubSeqFull
    <2> QED
      BY <2>1, <2>2, <2>3
  <1>3. c = <<x>> \o b
    <2>1. Len(s) \in i .. Len(s)
      OBVIOUS
    <2> QED
      BY <2>1, SubSeqRecursiveFirst
  <1>4. RemoveAt(s, i) = a \o b
    BY DEF RemoveAt
  <1> HIDE DEF a, b, c, x
  <1>5. c \in Seq(D) /\ SizeOf(c, size) = SizeOf(<<x>>, size) + SizeOf(b, size)
    <2>1. <<x>> \o b \in Seq(D)
      BY <1>1
    <2> QED
      BY <1>1, <1>3, <2>1, SizeConcat
  <1>6. SizeOf(s, size) = SizeOf(a, size) + SizeOf(c, size)
    BY <1>1, <1>2, <1>5, SizeConcat
  <1>7. SizeOf(RemoveAt(s, i), size) = SizeOf(a, size) + SizeOf(b, size)
    <2>1. SizeOf(a \o b, size) = SizeOf(a, size) + SizeOf(b, size)
      BY <1>1, SizeConcat
    <2> QED
      BY <1>4, <2>1
  <1>8. SizeOf(<<x>>, size) = size[x]
    BY <1>1, SizeOne
  <1>9. SizeOf(a, size) \in Nat /\ SizeOf(b, size) \in Nat /\ size[x] \in Nat
    BY <1>1, SizeNat
  <1> QED
    BY <1>5, <1>6, <1>7, <1>8, <1>9 DEF x

\* The list without the first k.
LEMMA RestEntries ==
  ASSUME NEW T, NEW s \in Seq(T), NEW k
  PROVE  \/ k \notin ToSet(s) /\ RemoveFirst(s, k) = s
         \/ \E i \in 1 .. Len(s) :
              /\ s[i] = k
              /\ \A j \in 1 .. Len(s) : j < i => s[j] # k
              /\ RemoveFirst(s, k) = RemoveAt(s, i)
  <1>1. Len(s) \in Nat /\ DOMAIN s = 1 .. Len(s)
    OBVIOUS
  <1>2. CASE \E i \in 1 .. Len(s) : s[i] = k
    <2> DEFINE I == {i \in 1 .. Len(s) : s[i] = k}
               m == Min(I)
    <2>1. I # {} /\ I \in SUBSET Nat
      BY <1>1, <1>2
    <2>2. RemoveFirst(s, k) = RemoveAt(s, m)
      <3>1. SelectInSeq(s, LAMBDA v : v = k) = m
        BY <2>1 DEF SelectInSeq
      <3> QED
        BY <1>2, <3>1 DEF RemoveFirst
    <2>3. m \in I /\ \A y \in I : m <= y
      <3> HIDE DEF I
      <3>1. \E x \in I : \A y \in I : x <= y
        BY <2>1, Smallest
      <3> QED
        BY <3>1 DEF Min
    <2> HIDE DEF m
    <2>4. \A j \in 1 .. Len(s) : j < m => s[j] # k
      BY <1>1, <2>3
    <2> QED
      BY <2>2, <2>3, <2>4
  <1>3. CASE ~ \E i \in 1 .. Len(s) : s[i] = k
    BY <1>1, <1>3 DEF RemoveFirst, ToSet
  <1> QED
    BY <1>2, <1>3

\* What the list without k has.
LEMMA RestSet ==
  ASSUME NEW T, NEW s \in Seq(T), IsInjective(s), NEW k
  PROVE  /\ RemoveFirst(s, k) \in Seq(T)
         /\ IsInjective(RemoveFirst(s, k))
         /\ ToSet(RemoveFirst(s, k)) = ToSet(s) \ {k}
  <1>1. CASE k \notin ToSet(s) /\ RemoveFirst(s, k) = s
    BY <1>1
  <1>2. ASSUME NEW i \in 1 .. Len(s), s[i] = k, RemoveFirst(s, k) = RemoveAt(s, i)
        PROVE  /\ RemoveFirst(s, k) \in Seq(T)
               /\ IsInjective(RemoveFirst(s, k))
               /\ ToSet(RemoveFirst(s, k)) = ToSet(s) \ {k}
    <2>1. RemoveAt(s, i) \in Seq(T) /\ InOrderOf(RemoveAt(s, i), s)
      BY RemoveAtInOrder
    <2>2. IsInjective(RemoveAt(s, i))
      BY <2>1, InOrderInjective
    <2>3. ToSet(RemoveAt(s, i)) = ToSet(s) \ {s[i]}
      BY RemoveAtSet
    <2> QED
      BY <1>2, <2>1, <2>2, <2>3
  <1> QED
    BY <1>1, <1>2, RestEntries

\* What the list with k to the front has.
LEMMA FrontSet ==
  ASSUME NEW T, NEW s \in Seq(T), IsInjective(s), NEW k \in T
  PROVE  /\ ToFront(s, k) \in Seq(T)
         /\ IsInjective(ToFront(s, k))
         /\ ToSet(ToFront(s, k)) = ToSet(s) \cup {k}
  <1> DEFINE r == RemoveFirst(s, k)
             q == <<k>> \o r
  <1>1. r \in Seq(T) /\ IsInjective(r) /\ ToSet(r) = ToSet(s) \ {k}
    BY RestSet
  <1> HIDE DEF r
  <1>2. <<k>> \in Seq(T) /\ Len(<<k>>) = 1
    OBVIOUS
  <1>3. /\ q \in Seq(T) /\ Len(q) = 1 + Len(r)
        /\ \A i \in 1 .. 1 + Len(r) : q[i] = IF i <= 1 THEN <<k>>[i] ELSE r[i - 1]
    <2>1. /\ q \in Seq(T) /\ Len(q) = Len(<<k>>) + Len(r)
          /\ \A i \in 1 .. Len(<<k>>) + Len(r) :
               q[i] = IF i <= Len(<<k>>) THEN <<k>>[i] ELSE r[i - Len(<<k>>)]
      BY ONLY <1>1, <1>2, ConcatProperties
    <2> HIDE DEF q
    <2> QED
      BY <1>2, <2>1
  <1>4. Len(r) \in Nat /\ DOMAIN r = 1 .. Len(r) /\ DOMAIN q = 1 .. 1 + Len(r)
    <2>1. Len(r) \in Nat /\ DOMAIN r = 1 .. Len(r)
      BY <1>1
    <2> HIDE DEF q
    <2> QED
      BY <1>3, <2>1
  <1> HIDE DEF q
  <1>5. q[1] = k /\ \A i \in 2 .. 1 + Len(r) : q[i] = r[i - 1] /\ i - 1 \in DOMAIN r
    BY <1>3, <1>4
  <1>6. \A i \in DOMAIN q : i = 1 \/ i \in 2 .. 1 + Len(r)
    BY <1>4
  <1>7. \A j \in DOMAIN r : r[j] # k /\ r[j] \in ToSet(s)
    BY <1>1 DEF ToSet
  <1>8. IsInjective(q)
    <2> SUFFICES ASSUME NEW i \in DOMAIN q, NEW j \in DOMAIN q, q[i] = q[j]
                 PROVE  i = j
      BY DEF IsInjective
    <2>1. CASE i = 1 \/ j = 1
      BY <1>5, <1>6, <1>7, <2>1
    <2>2. CASE i \in 2 .. 1 + Len(r) /\ j \in 2 .. 1 + Len(r)
      <3>1. i - 1 = j - 1
        BY <1>1, <1>5, <2>2 DEF IsInjective
      <3> QED
        BY <2>2, <3>1
    <2> QED
      BY <1>6, <2>1, <2>2
  <1>9. ToSet(q) = ToSet(s) \cup {k}
    <2>1. ASSUME NEW i \in DOMAIN q PROVE q[i] \in ToSet(s) \cup {k}
      BY <1>5, <1>6, <1>7
    <2>2. ASSUME NEW x \in ToSet(s) \cup {k} PROVE \E i \in DOMAIN q : q[i] = x
      <3>1. CASE x = k
        <4>1. 1 \in DOMAIN q
          BY <1>4
        <4> QED
          BY <1>5, <3>1, <4>1
      <3>2. CASE x # k
        <4>1. x \in ToSet(r)
          BY <1>1, <2>2, <3>2
        <4>2. PICK j \in 1 .. Len(r) : r[j] = x
          BY <1>4, <4>1 DEF ToSet
        <4>3. j + 1 \in 2 .. 1 + Len(r) /\ j + 1 \in DOMAIN q /\ (j + 1) - 1 = j
          BY <1>4
        <4>4. q[j + 1] = r[(j + 1) - 1]
          BY <1>5, <4>3
        <4> QED
          BY <4>2, <4>3, <4>4
      <3> QED
        BY <3>1, <3>2
    <2> QED
      BY <2>1, <2>2 DEF ToSet
  <1> QED
    BY <1>3, <1>8, <1>9 DEF ToFront, r, q

\* q is s with k to the front, which was at i or, if i is past the end, nowhere.
FrontOf(q, s, k, i) ==
    /\ \A j \in 1 .. Len(s) : j < i => s[j] # k
    /\ i <= Len(s) => s[i] = k
    /\ Len(q) = IF i <= Len(s) THEN Len(s) ELSE Len(s) + 1
    /\ q[1] = k
    /\ \A j \in 2 .. Len(q) : q[j] = IF j <= i THEN s[j - 1] ELSE s[j]

LEMMA FrontEntries ==
  ASSUME NEW T, NEW s \in Seq(T), NEW k \in T
  PROVE  /\ ToFront(s, k) \in Seq(T)
         /\ \E i \in 1 .. Len(s) + 1 : FrontOf(ToFront(s, k), s, k, i)
  <1> DEFINE r == RemoveFirst(s, k)
             q == <<k>> \o r
  <1>1. Len(s) \in Nat /\ DOMAIN s = 1 .. Len(s)
    OBVIOUS
  <1>2. ASSUME r \in Seq(T)
        PROVE  /\ q \in Seq(T) /\ Len(q) = 1 + Len(r) /\ q[1] = k /\ Len(r) \in Nat
               /\ \A j \in 2 .. 1 + Len(r) : q[j] = r[j - 1]
    <2>1. <<k>> \in Seq(T) /\ Len(<<k>>) = 1 /\ <<k>>[1] = k /\ Len(r) \in Nat
      BY <1>2
    <2>2. /\ q \in Seq(T) /\ Len(q) = Len(<<k>>) + Len(r)
          /\ \A j \in 1 .. Len(<<k>>) + Len(r) :
               q[j] = IF j <= Len(<<k>>) THEN <<k>>[j] ELSE r[j - Len(<<k>>)]
      <3> HIDE DEF r
      <3> QED
        BY ONLY <1>2, <2>1, ConcatProperties
    <2> HIDE DEF q, r
    <2> QED
      BY <2>1, <2>2
  <1>3. CASE k \notin ToSet(s) /\ r = s
    <2> HIDE DEF r
    <2>1. r \in Seq(T)
      BY <1>3
    <2>2. /\ q \in Seq(T) /\ Len(q) = Len(s) + 1 /\ q[1] = k
          /\ \A j \in 2 .. Len(s) + 1 : q[j] = s[j - 1]
      <3> HIDE DEF q
      <3> QED
        BY <1>2, <1>3, <2>1
    <2>3. \A j \in 1 .. Len(s) : s[j] # k
      BY <1>1, <1>3 DEF ToSet
    <2> HIDE DEF q
    <2>4. FrontOf(q, s, k, Len(s) + 1)
      BY <1>1, <2>2, <2>3 DEF FrontOf
    <2>5. Len(s) + 1 \in 1 .. Len(s) + 1
      BY <1>1
    <2>6. ToFront(s, k) = q
      BY DEF ToFront, q, r
    <2> QED
      BY <2>2, <2>4, <2>5, <2>6
  <1>4. ASSUME NEW i \in 1 .. Len(s), s[i] = k, \A j \in 1 .. Len(s) : j < i => s[j] # k,
               r = RemoveAt(s, i)
        PROVE  /\ ToFront(s, k) \in Seq(T)
               /\ \E j \in 1 .. Len(s) + 1 : FrontOf(ToFront(s, k), s, k, j)
    <2> HIDE DEF r
    <2>1. /\ r \in Seq(T) /\ Len(r) = Len(s) - 1
          /\ \A j \in 1 .. Len(s) - 1 : r[j] = s[IF j < i THEN j ELSE j + 1]
      <3>1. /\ RemoveAt(s, i) \in Seq(T) /\ Len(RemoveAt(s, i)) = Len(s) - 1
            /\ \A j \in 1 .. Len(s) - 1 : RemoveAt(s, i)[j] = s[IF j < i THEN j ELSE j + 1]
        BY RemoveAtEntries
      <3> QED
        BY <1>4, <3>1
    <2>2. /\ q \in Seq(T) /\ Len(q) = 1 + Len(r) /\ q[1] = k
          /\ \A j \in 2 .. 1 + Len(r) : q[j] = r[j - 1]
      <3> HIDE DEF q
      <3> QED
        BY <1>2, <2>1
    <2> HIDE DEF q
    <2>3. Len(q) = Len(s) /\ 1 + Len(r) = Len(s)
      BY <1>1, <2>1, <2>2
    <2>4. ASSUME NEW j \in 2 .. Len(q) PROVE q[j] = IF j <= i THEN s[j - 1] ELSE s[j]
      <3>1. j - 1 \in 1 .. Len(s) - 1 /\ (j - 1) + 1 = j /\ (j - 1 < i <=> j <= i)
        BY <1>1, <2>3
      <3>2. q[j] = r[j - 1]
        BY <2>2, <2>3
      <3>3. r[j - 1] = s[IF j - 1 < i THEN j - 1 ELSE (j - 1) + 1]
        BY <2>1, <3>1
      <3> QED
        BY <3>1, <3>2, <3>3
    <2>5. FrontOf(q, s, k, i)
      <3>1. i <= Len(s)
        BY <1>1
      <3>2. Len(q) = IF i <= Len(s) THEN Len(s) ELSE Len(s) + 1
        BY <2>3, <3>1
      <3>3. \A j \in 2 .. Len(q) : q[j] = IF j <= i THEN s[j - 1] ELSE s[j]
        BY ONLY <2>4
      <3> QED
        BY <1>4, <2>2, <3>2, <3>3, Zenon DEF FrontOf
    <2>6. ToFront(s, k) = q /\ i \in 1 .. Len(s) + 1
      BY <1>1 DEF ToFront, q, r
    <2> QED
      BY <2>2, <2>5, <2>6
  <1> QED
    <2>1. \/ k \notin ToSet(s) /\ r = s
          \/ \E i \in 1 .. Len(s) :
               /\ s[i] = k
               /\ \A j \in 1 .. Len(s) : j < i => s[j] # k
               /\ r = RemoveAt(s, i)
      BY RestEntries
    <2> HIDE DEF r
    <2> QED
      BY <1>3, <1>4, <2>1

LEMMA PrefixIs ==
  ASSUME NEW T, NEW s \in Seq(T), NEW t \in Seq(T)
  PROVE  IsPrefix(s, t) <=> Len(s) <= Len(t) /\ \A j \in 1 .. Len(s) : s[j] = t[j]
  <1> DEFINE n == Len(s)
             a == SubSeq(s, 1, n)
             b == SubSeq(t, 1, n)
  <1>1. n \in Nat /\ Len(t) \in Nat
    OBVIOUS
  <1>2. a = s
    BY SubSeqFull
  <1>3. ASSUME n <= Len(t)
        PROVE  b \in Seq(T) /\ Len(b) = n /\ \A j \in 1 .. n : b[j] = t[j]
    BY <1>1, <1>3
  <1>4. ASSUME n <= Len(t), a = b PROVE \A j \in 1 .. n : s[j] = t[j]
    <2> HIDE DEF a, b, n
    <2> QED
      BY <1>2, <1>3, <1>4
  <1>5. ASSUME n <= Len(t), \A j \in 1 .. n : s[j] = t[j] PROVE a = b
    <2> HIDE DEF b
    <2>1. b \in Seq(T) /\ Len(s) = Len(b) /\ \A j \in 1 .. Len(s) : s[j] = b[j]
      BY <1>3, <1>5
    <2>2. s = b
      BY <2>1, SeqEqual
    <2> QED
      BY <1>2, <2>2
  <1> QED
    BY <1>4, <1>5 DEF IsPrefix

\* What was a prefix is one when k comes to the front of both.
LEMMA FrontPrefix ==
  ASSUME NEW T, NEW s \in Seq(T), NEW t \in Seq(T), NEW k \in T, IsPrefix(s, t)
  PROVE  IsPrefix(ToFront(s, k), ToFront(t, k))
  <1>1. Len(s) <= Len(t) /\ \A j \in 1 .. Len(s) : s[j] = t[j]
    BY PrefixIs
  <1>2. Len(s) \in Nat /\ Len(t) \in Nat
    OBVIOUS
  <1> DEFINE p == ToFront(s, k)
             q == ToFront(t, k)
  <1>3. PICK i \in 1 .. Len(s) + 1 : p \in Seq(T) /\ FrontOf(p, s, k, i)
    BY FrontEntries
  <1>4. PICK h \in 1 .. Len(t) + 1 : q \in Seq(T) /\ FrontOf(q, t, k, h)
    BY FrontEntries
  <1> HIDE DEF p, q
  <1>5. i <= h /\ (i <= Len(s) => i = h)
    <2>1. i <= h
      <3> SUFFICES ASSUME h < i PROVE FALSE
        BY <1>2
      <3>1. h \in 1 .. Len(s) /\ h <= Len(t)
        BY <1>1, <1>2
      <3> QED
        BY <1>1, <1>3, <1>4, <3>1 DEF FrontOf
    <2>2. ASSUME i <= Len(s), i < h PROVE FALSE
      <3>1. i \in 1 .. Len(s) /\ i \in 1 .. Len(t)
        BY <1>1, <1>2, <2>2
      <3> QED
        BY <1>1, <1>3, <1>4, <2>2, <3>1 DEF FrontOf
    <2> QED
      BY <1>2, <2>1, <2>2
  <1>6. /\ Len(p) = IF i <= Len(s) THEN Len(s) ELSE Len(s) + 1
        /\ Len(q) = IF h <= Len(t) THEN Len(t) ELSE Len(t) + 1
    BY <1>3, <1>4 DEF FrontOf
  <1>7. Len(p) \in Nat /\ Len(q) \in Nat /\ Len(p) <= Len(q)
    BY <1>1, <1>2, <1>5, <1>6
  <1>8. ASSUME NEW j \in 1 .. Len(p) PROVE p[j] = q[j]
    <2>1. CASE j = 1
      BY <1>3, <1>4, <2>1 DEF FrontOf
    <2>2. CASE j # 1
      <3>1. j \in 2 .. Len(p) /\ j \in 2 .. Len(q)
        BY <1>7, <2>2
      <3>2. p[j] = IF j <= i THEN s[j - 1] ELSE s[j]
        BY <1>3, <3>1 DEF FrontOf
      <3>3. q[j] = IF j <= h THEN t[j - 1] ELSE t[j]
        BY <1>4, <3>1 DEF FrontOf
      <3>4. CASE j <= i
        <4>1. j <= h /\ j - 1 \in 1 .. Len(s)
          BY <1>2, <1>5, <3>1, <3>4
        <4> QED
          BY <1>1, <3>2, <3>3, <3>4, <4>1
      <3>5. CASE ~ (j <= i)
        <4>1. i <= Len(s) /\ i = h /\ j \in 1 .. Len(s)
          BY <1>2, <1>5, <1>6, <3>1, <3>5
        <4> QED
          BY <1>1, <3>2, <3>3, <3>5, <4>1
      <3> QED
        BY <3>4, <3>5
    <2> QED
      BY <2>1, <2>2
  <1>9. IsPrefix(p, q)
    BY <1>3, <1>4, <1>7, <1>8, PrefixIs
  <1> QED
    BY <1>9 DEF p, q

\* The first entries of a prefix are a prefix, and none is listed twice if none was.
LEMMA CutPrefix ==
  ASSUME NEW T, NEW s \in Seq(T), NEW n \in 0 .. Len(s)
  PROVE  /\ SubSeq(s, 1, n) \in Seq(T)
         /\ ToSet(SubSeq(s, 1, n)) \subseteq ToSet(s)
         /\ IsInjective(s) => IsInjective(SubSeq(s, 1, n))
         /\ \A t \in Seq(T) : IsPrefix(s, t) => IsPrefix(SubSeq(s, 1, n), t)
  <1> DEFINE q == SubSeq(s, 1, n)
  <1>1. /\ q \in Seq(T) /\ Len(q) = n /\ \A j \in 1 .. n : q[j] = s[j]
        /\ Len(s) \in Nat /\ DOMAIN s = 1 .. Len(s)
    OBVIOUS
  <1> HIDE DEF q
  <1>2. DOMAIN q = 1 .. n
    BY <1>1
  <1>3. \A j \in 1 .. n : j \in 1 .. Len(s)
    BY <1>1
  <1>4. ToSet(q) \subseteq ToSet(s)
    BY <1>1, <1>2, <1>3 DEF ToSet
  <1>5. IsInjective(s) => IsInjective(q)
    BY <1>1, <1>2, <1>3 DEF IsInjective
  <1>6. ASSUME NEW t \in Seq(T), IsPrefix(s, t) PROVE IsPrefix(q, t)
    <2>1. Len(s) <= Len(t) /\ \A j \in 1 .. Len(s) : s[j] = t[j]
      BY <1>6, PrefixIs
    <2>2. Len(q) <= Len(t) /\ \A j \in 1 .. Len(q) : q[j] = t[j]
      <3>1. Len(t) \in Nat
        OBVIOUS
      <3> QED
        BY <1>1, <1>3, <2>1, <3>1
    <2> QED
      BY <1>1, <2>2, PrefixIs
  <1> QED
    BY <1>1, <1>4, <1>5, <1>6 DEF q

\* evictIfNeeded stops: what it leaves fits, or it left nothing.
LEMMA EvictFits ==
  ASSUME NEW D, NEW size \in [D -> Nat], NEW l \in Seq(D)
  PROVE  LET n == Evict(l, size, SizeOf(l, size))
         IN  /\ n \in 0 .. Len(l)
             /\ SizeOf(l, size) - SizeOf(SubSeq(l, n + 1, Len(l)), size) = SizeOf(SubSeq(l, 1, n), size)
             /\ SizeOf(SubSeq(l, 1, n), size) <= MaxBytes
  <1> USE CacheAssumption
  <1> DEFINE total == SizeOf(l, size)
             Off(m) == SizeOf(SubSeq(l, m + 1, Len(l)), size)
             On(m) == SizeOf(SubSeq(l, 1, m), size)
             Fits(m) == m = 0 \/ total - Off(m) <= MaxBytes
             Left(n) == /\ Fits(n)
                        /\ \A m \in n + 1 .. Len(l) : total - Off(m) > MaxBytes
             e == Evict(l, size, total)
  <1>1. Len(l) \in Nat
    OBVIOUS
  <1>2. ASSUME NEW m \in 0 .. Len(l)
        PROVE  On(m) \in Nat /\ Off(m) \in Nat /\ total = On(m) + Off(m)
    <2> DEFINE a == SubSeq(l, 1, m)
               b == SubSeq(l, m + 1, Len(l))
    <2>1. a \in Seq(D) /\ b \in Seq(D)
      BY <1>1
    <2>2. a \o b = l
      <3>1. 1 \in 1 .. Len(l) + 1 /\ m \in 1 - 1 .. Len(l) /\ Len(l) \in m .. Len(l)
        BY <1>1
      <3>2. SubSeq(l, 1, m) \o SubSeq(l, m + 1, Len(l)) = SubSeq(l, 1, Len(l))
        BY <3>1, ConcatAdjacentSubSeq
      <3> QED
        BY <3>2, SubSeqFull
    <2> HIDE DEF a, b
    <2>3. SizeOf(a, size) \in Nat /\ SizeOf(b, size) \in Nat
      BY <2>1, SizeNat
    <2>4. SizeOf(a \o b, size) = SizeOf(a, size) + SizeOf(b, size)
      BY <2>1, SizeConcat
    <2> QED
      BY <2>2, <2>3, <2>4 DEF a, b
  <1>3. e = CHOOSE n \in 0 .. Len(l) : Left(n)
    BY DEF Evict
  <1> HIDE DEF total, Off, On, e
  <1>4. total \in Nat
    <2>1. 0 \in 0 .. Len(l)
      BY <1>1
    <2> QED
      BY <1>2, <2>1
  <1>5. \E n \in 0 .. Len(l) : Left(n)
    <2> DEFINE S == {d \in 0 .. Len(l) : Fits(Len(l) - d)}
    <2>1. S \in SUBSET Nat /\ Len(l) \in S
      BY <1>1
    <2>2. PICK d \in S : \A c \in S : d <= c
      <3> HIDE DEF S
      <3> QED
        BY <2>1, Smallest
    <2>3. Len(l) - d \in 0 .. Len(l) /\ Fits(Len(l) - d)
      BY <1>1, <2>2
    <2>4. ASSUME NEW m \in (Len(l) - d) + 1 .. Len(l) PROVE total - Off(m) > MaxBytes
      <3>1. /\ Len(l) - m \in 0 .. Len(l) /\ Len(l) - m < d /\ Len(l) - (Len(l) - m) = m
            /\ m \in 0 .. Len(l)
        BY <1>1, <2>2
      <3>2. ~ Fits(m)
        BY <1>1, <2>2, <3>1
      <3>3. Off(m) \in Nat
        BY <1>2, <3>1
      <3>4. total - Off(m) \in Int /\ ~ (total - Off(m) <= MaxBytes)
        BY <1>4, <3>2, <3>3
      <3> QED
        BY ONLY <3>4, CacheAssumption
    <2> QED
      BY <2>3, <2>4
  <1>6. e \in 0 .. Len(l) /\ Left(e)
    <2> HIDE DEF Left
    <2> QED
      BY <1>3, <1>5
  <1>7. On(e) \in Nat /\ Off(e) \in Nat /\ total = On(e) + Off(e)
    BY <1>2, <1>6
  <1>8. total - Off(e) = On(e)
    BY <1>7
  <1>9. On(e) <= MaxBytes
    <2>1. CASE e = 0
      <3>1. On(0) = 0
        <4>1. SubSeq(l, 1, 0) = << >>
          BY SubSeqEmpty
        <4> QED
          BY <4>1, SizeNone DEF On
      <3> QED
        BY <2>1, <3>1
    <2>2. CASE e # 0
      BY <1>6, <1>8, <2>2
    <2> QED
      BY <2>1, <2>2
  <1> QED
    BY <1>6, <1>8, <1>9 DEF total, Off, On, e

CacheTypes ==
    /\ cacheList \in Seq(Images)
    /\ cached \in [ToSet(cacheList) -> Nat]
    /\ usage \in Seq(Images)

CacheInv == CacheTypes /\ CacheAccounts /\ CacheKeepsRecent

LEMMA CacheStarts == CacheInit => CacheInv
  <1> SUFFICES ASSUME CacheInit
               PROVE  CacheInv
    OBVIOUS
  <1>1. cacheList = << >> /\ usage = << >> /\ sizeBytes = 0 /\ cached = [k \in {} |-> 0]
    BY DEF CacheInit
  <1>2. /\ << >> \in Seq(Images) /\ ToSet(<< >>) = {} /\ IsInjective(<< >>)
        /\ Len(<< >>) = 0
    BY DEF ToSet, IsInjective
  <1>3. CacheTypes
    BY <1>1, <1>2 DEF CacheTypes
  <1>4. SizeOf(cacheList, cached) = 0
    BY <1>1, SizeNone
  <1>5. CacheAccounts
    <2>1. ToSet(cacheList) = DOMAIN cached /\ IsInjective(cacheList)
      BY <1>1, <1>2
    <2>2. sizeBytes = SizeOf(cacheList, cached) /\ sizeBytes <= MaxBytes
      BY <1>1, <1>4, CacheAssumption
    <2> QED
      BY <2>1, <2>2 DEF CacheAccounts
  <1>6. CacheKeepsRecent
    <2>1. IsPrefix(cacheList, usage)
      <3>1. Len(cacheList) <= Len(usage) /\ \A j \in 1 .. Len(cacheList) : cacheList[j] = usage[j]
        BY <1>1, <1>2
      <3> QED
        BY <1>3, <3>1, PrefixIs DEF CacheTypes
    <2> QED
      BY <2>1 DEF CacheKeepsRecent
  <1> QED
    BY <1>3, <1>5, <1>6 DEF CacheInv

\* A hit.
LEMMA CacheHit ==
  ASSUME CacheInv, NEW k \in Images, GetImage(k)
  PROVE  CacheInv'
  <1>1. /\ cacheList \in Seq(Images) /\ cached \in [ToSet(cacheList) -> Nat] /\ usage \in Seq(Images)
        /\ IsInjective(cacheList) /\ sizeBytes = SizeOf(cacheList, cached) /\ sizeBytes <= MaxBytes
        /\ IsPrefix(cacheList, usage)
    BY DEF CacheInv, CacheTypes, CacheAccounts, CacheKeepsRecent
  <1>2. /\ k \in DOMAIN cached /\ k \in ToSet(cacheList)
        /\ cacheList' = ToFront(cacheList, k) /\ usage' = ToFront(usage, k)
        /\ cached' = cached /\ sizeBytes' = sizeBytes
    BY <1>1 DEF GetImage
  <1>3. /\ ToFront(cacheList, k) \in Seq(Images) /\ IsInjective(ToFront(cacheList, k))
        /\ ToSet(ToFront(cacheList, k)) = ToSet(cacheList)
    <2>1. /\ ToFront(cacheList, k) \in Seq(Images) /\ IsInjective(ToFront(cacheList, k))
          /\ ToSet(ToFront(cacheList, k)) = ToSet(cacheList) \cup {k}
      BY <1>1, FrontSet
    <2>2. ToSet(cacheList) \cup {k} = ToSet(cacheList)
      BY <1>2
    <2> QED
      BY ONLY <2>1, <2>2
  <1>4. ToFront(usage, k) \in Seq(Images)
    BY <1>1, FrontEntries
  <1>5. SizeOf(ToFront(cacheList, k), cached) = SizeOf(cacheList, cached)
    <2> DEFINE D == ToSet(cacheList)
               r == RemoveFirst(cacheList, k)
    <2>1. cacheList \in Seq(D) /\ cached \in [D -> Nat] /\ k \in D
      BY <1>1, <1>2, SeqOver
    <2>2. PICK i \in 1 .. Len(cacheList) : cacheList[i] = k /\ r = RemoveAt(cacheList, i)
      BY <1>1, <1>2, RestEntries
    <2>3. r \in Seq(D)
      BY <1>1, <2>1, RestSet
    <2>4. SizeOf(cacheList, cached) = SizeOf(r, cached) + cached[k]
      <3> HIDE DEF D, r
      <3>1. SizeOf(cacheList, cached) = SizeOf(RemoveAt(cacheList, i), cached) + cached[cacheList[i]]
        BY <2>1, SizeRemoved
      <3> QED
        BY <2>2, <3>1
    <2> HIDE DEF D
    <2>5. SizeOf(ToFront(cacheList, k), cached) = cached[k] + SizeOf(r, cached)
      <3> HIDE DEF r
      <3>1. <<k>> \in Seq(D)
        BY <2>1
      <3>2. SizeOf(<<k>> \o r, cached) = SizeOf(<<k>>, cached) + SizeOf(r, cached)
        BY <2>1, <2>3, <3>1, SizeConcat
      <3>3. SizeOf(<<k>>, cached) = cached[k]
        BY <2>1, SizeOne
      <3> QED
        BY <3>2, <3>3 DEF ToFront, r
    <2>6. cached[k] \in Nat /\ SizeOf(r, cached) \in Nat
      BY <2>1, <2>3, SizeNat
    <2> QED
      BY <2>4, <2>5, <2>6
  <1>6. CacheTypes'
    BY <1>1, <1>2, <1>3, <1>4 DEF CacheTypes
  <1>7. CacheAccounts'
    <2>1. ToSet(cacheList') = DOMAIN cached' /\ IsInjective(cacheList')
      BY <1>1, <1>2, <1>3
    <2>2. sizeBytes' = SizeOf(cacheList', cached') /\ sizeBytes' <= MaxBytes
      BY <1>1, <1>2, <1>5
    <2> QED
      BY <2>1, <2>2 DEF CacheAccounts
  <1>8. CacheKeepsRecent'
    <2>1. IsPrefix(ToFront(cacheList, k), ToFront(usage, k))
      BY <1>1, FrontPrefix
    <2> QED
      BY <1>2, <2>1 DEF CacheKeepsRecent
  <1> QED
    BY <1>6, <1>7, <1>8 DEF CacheInv

\* A new entry, or a new body for an old one, and what had to go for it.
LEMMA CachePut ==
  ASSUME CacheInv, NEW k \in Images, NEW size \in Sizes, PutImage(k, size)
  PROVE  CacheInv'
  <1>1. /\ cacheList \in Seq(Images) /\ cached \in [ToSet(cacheList) -> Nat] /\ usage \in Seq(Images)
        /\ IsInjective(cacheList) /\ sizeBytes = SizeOf(cacheList, cached)
        /\ IsPrefix(cacheList, usage)
    BY DEF CacheInv, CacheTypes, CacheAccounts, CacheKeepsRecent
  <1>2. size \in Nat
    BY CacheAssumption
  <1> DEFINE C == DOMAIN cached
             D == C \cup {k}
             r == RemoveFirst(cacheList, k)
             l == ToFront(cacheList, k)
             sizes == [x \in DOMAIN cached \cup {k} |-> IF x = k THEN size ELSE cached[x]]
             total == sizeBytes + size - (IF k \in DOMAIN cached THEN cached[k] ELSE 0)
             n == Evict(l, sizes, total)
             q == SubSeq(l, 1, n)
  <1>3. /\ cacheList' = q /\ cached' = [x \in ToSet(q) |-> sizes[x]]
        /\ sizeBytes' = total - SizeOf(SubSeq(l, n + 1, Len(l)), sizes)
        /\ usage' = ToFront(usage, k)
    BY DEF PutImage
  <1>4. /\ sizes \in [D -> Nat] /\ sizes[k] = size
        /\ \A x \in C : x # k => sizes[x] = cached[x]
    BY <1>1, <1>2
  <1>5. ToSet(cacheList) = C /\ cacheList \in Seq(C) /\ cached \in [C -> Nat]
    <2>1. ToSet(cacheList) = C
      BY <1>1
    <2> QED
      BY <1>1, <2>1, SeqOver
  <1>6. /\ l \in Seq(Images) /\ IsInjective(l) /\ ToSet(l) = D
    <2>1. /\ l \in Seq(Images) /\ IsInjective(l) /\ ToSet(l) = ToSet(cacheList) \cup {k}
      BY <1>1, FrontSet
    <2> HIDE DEF l
    <2> QED
      BY <1>5, <2>1
  <1>7. l \in Seq(D)
    <2> HIDE DEF l, D
    <2> QED
      BY <1>6, SeqOver
  <1>8. r \in Seq(Images) /\ ToSet(r) = C \ {k}
    <2>1. r \in Seq(Images) /\ ToSet(r) = ToSet(cacheList) \ {k}
      BY <1>1, RestSet
    <2> HIDE DEF r
    <2> QED
      BY <1>5, <2>1
  <1>9. r \in Seq(C) /\ r \in Seq(D)
    <2>1. ToSet(r) \subseteq C /\ ToSet(r) \subseteq D
      BY <1>8
    <2> HIDE DEF r, C, D
    <2> QED
      BY <1>8, <2>1, SeqOver
  <1>10. SizeOf(l, sizes) = size + SizeOf(r, sizes)
    <2> HIDE DEF sizes, r
    <2>1. <<k>> \in Seq(D) /\ k \in D
      OBVIOUS
    <2> HIDE DEF D
    <2>2. SizeOf(<<k>> \o r, sizes) = SizeOf(<<k>>, sizes) + SizeOf(r, sizes)
      BY <1>4, <1>9, <2>1, SizeConcat
    <2>3. SizeOf(<<k>>, sizes) = sizes[k]
      BY <1>4, <2>1, SizeOne
    <2> QED
      BY <1>4, <2>2, <2>3 DEF ToFront, r
  <1>11. SizeOf(r, cached) \in Nat /\ SizeOf(r, cached) = SizeOf(r, sizes)
    <2>1. \A i \in 1 .. Len(r) : r[i] \in C /\ r[i] # k
      <3>1. Len(r) \in Nat /\ DOMAIN r = 1 .. Len(r)
        BY <1>8
      <3> HIDE DEF r, C
      <3> QED
        BY <1>8, <3>1 DEF ToSet
    <2>2. SameSizes(r, cached, sizes)
      <3> HIDE DEF r, C, sizes
      <3> QED
        BY <1>4, <2>1 DEF SameSizes
    <2>3. cached \in [C -> Nat] /\ r \in Seq(C)
      BY <1>5, <1>9
    <2> HIDE DEF r, C, sizes
    <2> QED
      BY <2>2, <2>3, SizeSame
  <1>12. sizeBytes = SizeOf(r, cached) + (IF k \in C THEN cached[k] ELSE 0)
    <2>1. CASE k \in C
      <3>1. PICK i \in 1 .. Len(cacheList) : cacheList[i] = k /\ r = RemoveAt(cacheList, i)
        BY <1>1, <1>5, <2>1, RestEntries
      <3> HIDE DEF r, C
      <3>2. SizeOf(cacheList, cached) = SizeOf(RemoveAt(cacheList, i), cached) + cached[cacheList[i]]
        BY <1>5, SizeRemoved
      <3> QED
        BY <1>1, <2>1, <3>1, <3>2
    <2>2. CASE k \notin C
      <3>1. r = cacheList
        <4>1. ~ \E i \in 1 .. Len(cacheList) : cacheList[i] = k
          BY <1>1, <1>5, <2>2 DEF ToSet
        <4> QED
          BY <4>1 DEF RemoveFirst
      <3> HIDE DEF r, C
      <3> QED
        BY <1>1, <1>11, <2>2, <3>1
    <2> QED
      BY <2>1, <2>2
  <1>13. total = SizeOf(l, sizes)
    <2>1. k \in C => cached[k] \in Nat
      BY <1>5
    <2> HIDE DEF r, l, sizes, C
    <2>2. total = sizeBytes + size - (IF k \in C THEN cached[k] ELSE 0)
      BY DEF C
    <2> HIDE DEF total
    <2> QED
      BY <1>2, <1>10, <1>11, <1>12, <2>1, <2>2
  <1>14. /\ n \in 0 .. Len(l)
         /\ SizeOf(l, sizes) - SizeOf(SubSeq(l, n + 1, Len(l)), sizes) = SizeOf(q, sizes)
         /\ SizeOf(q, sizes) <= MaxBytes
    <2> DEFINE e == Evict(l, sizes, SizeOf(l, sizes))
    <2> HIDE DEF l, sizes, total, D
    <2>1. /\ e \in 0 .. Len(l)
          /\ SizeOf(l, sizes) - SizeOf(SubSeq(l, e + 1, Len(l)), sizes) = SizeOf(SubSeq(l, 1, e), sizes)
          /\ SizeOf(SubSeq(l, 1, e), sizes) <= MaxBytes
      BY <1>4, <1>7, EvictFits
    <2>2. n = e
      BY <1>13
    <2> HIDE DEF e, n
    <2> QED
      BY <2>1, <2>2
  <1> HIDE DEF l, sizes, total, n
  <1>15. /\ q \in Seq(Images) /\ ToSet(q) \subseteq D /\ IsInjective(q)
         /\ \A t \in Seq(Images) : IsPrefix(l, t) => IsPrefix(q, t)
    <2>1. /\ q \in Seq(Images) /\ ToSet(q) \subseteq ToSet(l)
          /\ IsInjective(l) => IsInjective(q)
          /\ \A t \in Seq(Images) : IsPrefix(l, t) => IsPrefix(q, t)
      BY <1>6, <1>14, CutPrefix
    <2> HIDE DEF q
    <2> QED
      BY <1>6, <2>1
  <1> HIDE DEF q
  <1>16. cached' \in [ToSet(q) -> Nat] /\ DOMAIN cached' = ToSet(q)
    BY <1>3, <1>4, <1>15
  <1>17. SizeOf(q, cached') = SizeOf(q, sizes)
    <2>1. q \in Seq(ToSet(q))
      BY <1>15, SeqOver
    <2>2. \A i \in 1 .. Len(q) : q[i] \in ToSet(q)
      BY <1>15 DEF ToSet
    <2>3. \A i \in 1 .. Len(q) : cached'[q[i]] = sizes[q[i]]
      BY <1>3, <2>2
    <2> DEFINE E == ToSet(q)
               f == cached'
    <2>4. f \in [E -> Nat] /\ q \in Seq(E) /\ SameSizes(q, f, sizes)
      BY <1>16, <2>1, <2>3 DEF SameSizes
    <2> HIDE DEF E, f
    <2>5. SizeOf(q, f) = SizeOf(q, sizes)
      BY <2>4, SizeSame
    <2> QED
      BY <2>5 DEF f
  <1>18. CacheTypes'
    <2>1. ToFront(usage, k) \in Seq(Images)
      BY <1>1, FrontEntries
    <2> QED
      BY <1>3, <1>15, <1>16, <2>1 DEF CacheTypes
  <1>19. CacheAccounts'
    <2>1. ToSet(cacheList') = DOMAIN cached' /\ IsInjective(cacheList')
      BY <1>3, <1>15, <1>16
    <2>2. sizeBytes' = SizeOf(cacheList', cached') /\ sizeBytes' <= MaxBytes
      BY <1>3, <1>13, <1>14, <1>17
    <2> QED
      BY <2>1, <2>2 DEF CacheAccounts
  <1>20. CacheKeepsRecent'
    <2>1. IsPrefix(l, ToFront(usage, k))
      BY <1>1, FrontPrefix DEF l
    <2>2. ToFront(usage, k) \in Seq(Images)
      BY <1>1, FrontEntries
    <2>3. IsPrefix(q, ToFront(usage, k))
      BY <1>15, <2>1, <2>2
    <2> QED
      BY <1>3, <2>3 DEF CacheKeepsRecent
  <1> QED
    BY <1>18, <1>19, <1>20 DEF CacheInv

LEMMA CacheStep == CacheInv /\ [CacheNext]_cacheVars => CacheInv'
  <1> SUFFICES ASSUME CacheInv, [CacheNext]_cacheVars
               PROVE  CacheInv'
    OBVIOUS
  <1>1. ASSUME NEW k \in Images, GetImage(k) PROVE CacheInv'
    BY <1>1, CacheHit
  <1>2. ASSUME NEW k \in Images, NEW n \in Sizes, PutImage(k, n) PROVE CacheInv'
    BY <1>2, CachePut
  <1>3. CASE UNCHANGED cacheVars
    <2>1. cacheList' = cacheList /\ cached' = cached /\ sizeBytes' = sizeBytes /\ usage' = usage
      BY <1>3 DEF cacheVars
    <2>2. CacheTypes'
      BY <2>1 DEF CacheInv, CacheTypes
    <2>3. CacheAccounts'
      BY <2>1 DEF CacheInv, CacheAccounts
    <2>4. CacheKeepsRecent'
      BY <2>1 DEF CacheInv, CacheKeepsRecent
    <2> QED
      BY <2>2, <2>3, <2>4 DEF CacheInv
  <1> QED
    BY <1>1, <1>2, <1>3 DEF CacheNext

\* Replacing, hitting and evicting keep the list, the map and the sum of the
\* sizes of the image cache in step, and the sum within the limit, for any limit
\* and any sizes: imageCache.Get, Put and evictIfNeeded.
THEOREM CacheAccountsAlways == CacheSpec => []CacheAccounts
  <1>1. CacheInv => CacheAccounts
    BY DEF CacheInv
  <1> QED
    BY CacheStarts, CacheStep, <1>1, PTL DEF CacheSpec

\* The cache holds what was stored or hit last, in that order: no entry is
\* evicted before one that was used less recently.
THEOREM CacheStaysRecent == CacheSpec => []CacheKeepsRecent
  <1>1. CacheInv => CacheKeepsRecent
    BY DEF CacheInv
  <1> QED
    BY CacheStarts, CacheStep, <1>1, PTL DEF CacheSpec

-----------------------------------------------------------------------------
(* StatusLocks: the goroutines never all wait for each other.              *)

\* A goroutine is at a point of its own program, and a writer that waits while
\* a status reader is between its locks has overtaken it.
LocksInv ==
    /\ \A g \in StatusReaders \cup OnlineReaders : at[g] \in {"idle", "first", "both"}
    /\ \A g \in Writers \cup ListWriters : at[g] \in {"idle", "waiting", "holding"}
    /\ at \in [Goroutines -> {"idle", "first", "both", "waiting", "holding"}]
    /\ ~caught => ~(Waiting /\ In(StatusReaders, {"first"}))

\* A step of one goroutine leaves the others where they are.
LEMMA Moved ==
    ASSUME LocksInv, NEW g \in Goroutines, NEW from, NEW to, Move(g, from, to)
    PROVE  at'[g] = to /\ \A h \in Goroutines \ {g} : at'[h] = at[h]
BY DEF LocksInv, Move

LEMMA LocksInvNext == LocksInv /\ [LocksNext]_lockVars => LocksInv'
<1> SUFFICES ASSUME LocksInv, [LocksNext]_lockVars PROVE LocksInv'
    OBVIOUS
<1> USE DEF Goroutines
<1>1. ASSUME NEW g \in StatusReaders \cup OnlineReaders, NEW from, NEW to \in {"idle", "first", "both"},
             Move(g, from, to), UNCHANGED caught, to = "first" /\ g \in StatusReaders => ~Waiting
      PROVE  LocksInv'
  <2>1. at' = [at EXCEPT ![g] = to]
    BY <1>1 DEF Move
  <2>2. \A h \in Writers \cup ListWriters : at'[h] = at[h]
    BY <1>1, Moved, LocksAssumption
  <2>3. Waiting' <=> Waiting
    BY <2>2 DEF Waiting, In
  <2>4. In(StatusReaders, {"first"})' => In(StatusReaders, {"first"}) \/ (to = "first" /\ g \in StatusReaders)
    BY <1>1, Moved DEF In
  <2>5. QED
    BY <1>1, <2>1, <2>2, <2>3, <2>4 DEF LocksInv
<1>2. ASSUME NEW g \in Writers \cup ListWriters, NEW from, NEW to \in {"idle", "waiting", "holding"},
             Move(g, from, to),
             \/ caught' = caught /\ (to = "waiting" => g \in ListWriters)
             \/ caught' = (caught \/ In(StatusReaders, {"first"}))
      PROVE  LocksInv'
  <2>1. at' = [at EXCEPT ![g] = to]
    BY <1>2 DEF Move
  <2>2. \A h \in StatusReaders \cup OnlineReaders : at'[h] = at[h]
    BY <1>2, Moved, LocksAssumption
  <2>3. In(StatusReaders, {"first"})' <=> In(StatusReaders, {"first"})
    BY <2>2 DEF In
  <2>4. Waiting' => Waiting \/ (to = "waiting" /\ g \in Writers)
    BY <1>2, Moved DEF Waiting, In
  <2>5. ~caught' => ~(Waiting' /\ In(StatusReaders, {"first"})')
    <3>1. CASE caught' = caught /\ (to = "waiting" => g \in ListWriters)
      BY <2>3, <2>4, <3>1, LocksAssumption DEF LocksInv
    <3>2. CASE caught' = (caught \/ In(StatusReaders, {"first"}))
      <4>1. ~caught' => ~caught /\ ~In(StatusReaders, {"first"})
        BY <3>2, Zenon
      <4>2. QED
        BY <2>3, <4>1
    <3>3. QED
      BY <1>2, <3>1, <3>2
  <2>6. /\ \A h \in StatusReaders \cup OnlineReaders : at'[h] \in {"idle", "first", "both"}
        /\ \A h \in Writers \cup ListWriters : at'[h] \in {"idle", "waiting", "holding"}
        /\ at' \in [Goroutines -> {"idle", "first", "both", "waiting", "holding"}]
    BY <2>1, <2>2 DEF LocksInv
  <2>7. QED
    BY <2>5, <2>6 DEF LocksInv
<1>3. ASSUME NEW g \in StatusReaders, StatusFirst(g) \/ StatusSecond(g) \/ StatusEnds(g) PROVE LocksInv'
  <2>1. CASE StatusFirst(g) \/ StatusSecond(g)
    BY <1>1, <2>1 DEF StatusFirst, StatusSecond, Admitted
  <2>2. CASE StatusEnds(g)
    BY <1>1, <2>2 DEF StatusEnds
  <2>3. QED
    BY <1>3, <2>1, <2>2
<1>4. ASSUME NEW g \in OnlineReaders, OnlineFirst(g) \/ OnlineSecond(g) \/ OnlineEnds(g) PROVE LocksInv'
    BY <1>1, <1>4, LocksAssumption DEF OnlineFirst, OnlineSecond, OnlineEnds
<1>5. ASSUME NEW g \in Writers, WriterCalls(g) \/ WriterLocks(g) \/ WriterEnds(g) PROVE LocksInv'
  <2>1. CASE WriterCalls(g)
    BY <1>2, <2>1 DEF WriterCalls
  <2>2. CASE WriterLocks(g) \/ WriterEnds(g)
    BY <1>2, <2>2 DEF WriterLocks, WriterEnds
  <2>3. QED
    BY <1>5, <2>1, <2>2
<1>6. ASSUME NEW g \in ListWriters, ListWriterCalls(g) \/ ListWriterLocks(g) \/ ListWriterEnds(g)
      PROVE  LocksInv'
    BY <1>2, <1>6 DEF ListWriterCalls, ListWriterLocks, ListWriterEnds
<1>7. CASE UNCHANGED lockVars
    BY <1>7 DEF lockVars, LocksInv, Waiting, In
<1>8. QED
    BY <1>3, <1>4, <1>5, <1>6, <1>7 DEF LocksNext, LocksGoOn

\* If nobody who has begun can go on, nobody is inside a lock for good: a
\* reader at its second lock waits for a writer that waits, a writer that waits
\* for a reader between its locks, and Online is no such reader, for it holds
\* only the list.
LEMMA SomebodyMayGoOn == LocksInv => SomebodyGoesOn
<1> SUFFICES ASSUME LocksInv, ~caught, NEW g \in Goroutines, at[g] # "idle",
                    \A h \in Goroutines : ~MayGoOn(h)
             PROVE  FALSE
    BY DEF SomebodyGoesOn
<1>1. \A h \in Goroutines : at[h] \notin {"both", "holding"}
    BY DEF MayGoOn
<1>2. ~Writing /\ ~ListWriting
    BY <1>1 DEF Writing, ListWriting, In, Goroutines
<1>3. ~Waiting
  <2> SUFFICES ASSUME NEW w \in Writers, at[w] = "waiting" PROVE FALSE
    BY DEF Waiting, In
  <2>1. Holding
    BY <1>2, LocksAssumption DEF MayGoOn, Unheld, Goroutines
  <2>2. In(StatusReaders, {"first"})
    BY <1>1, <2>1 DEF Holding, In, Goroutines
  <2>3. QED
    BY <2>2 DEF LocksInv, Waiting, In
<1>4. \A h \in Goroutines : at[h] # "first"
    BY <1>2, <1>3 DEF MayGoOn, Admitted
<1>5. ~ListHolding
    BY <1>1, <1>4 DEF ListHolding, In, Goroutines
<1>6. at[g] = "waiting"
    BY <1>1, <1>4 DEF LocksInv
<1>7. g \in ListWriters
    BY <1>3, <1>6, LocksAssumption DEF LocksInv, Waiting, In, Goroutines
<1>8. QED
    BY <1>2, <1>5, <1>6, <1>7, LocksAssumption DEF MayGoOn, ListUnheld, Goroutines

\* Status pages, request routing, updates and changes of the list never all
\* wait for each other, whatever their number, unless a writer came to wait
\* between the two read locks of handleStatus (admin/api.go, manager.go).
THEOREM LocksGoOnTogether == LocksSpec => []SomebodyGoesOn
<1>1. LocksInit => LocksInv
    BY DEF LocksInit, LocksInv, Goroutines, Waiting, In
<1>2. QED
    BY <1>1, LocksInvNext, SomebodyMayGoOn, PTL DEF LocksSpec

-----------------------------------------------------------------------------
\* The traffic meter: what is sent is conserved, and the totals the admin page
\* shows are bounded.

\* What the proofs need of the types of the counters.
MeterNumbers ==
    /\ val \in Nat /\ flushing \in Nat /\ stored \in Nat /\ sum \in Nat
    /\ added \in Nat /\ lost \in Nat /\ moved \in Nat /\ base \in Nat
    /\ reading \in {"idle", "counters", "answered"}

\* Between the two reads of TotalStats: the sum so far is in the table, and
\* what it is short of is in the counter, was moved or was lost.
ReadInProgress ==
    /\ reading = "counters" => sum <= stored /\ base <= sum + val + moved + lost
    /\ reading = "answered" => sum <= added /\ base <= sum + moved + lost

MeterInv == MeterNumbers /\ MeterConserves /\ ReadInProgress

\* Before the first chunk is sent everything is 0.
LEMMA MeterInvInit == MeterInit => MeterInv
BY DEF MeterInit, MeterInv, MeterNumbers, MeterConserves, ReadInProgress

\* Every step of the meter preserves the invariant.
LEMMA MeterInvNext == MeterInv /\ [MeterNext]_meterVars => MeterInv'
<1> SUFFICES ASSUME MeterInv, [MeterNext]_meterVars
             PROVE  MeterInv'
    OBVIOUS
<1> USE DEF MeterInv, MeterNumbers, MeterConserves, ReadInProgress,
            meterCount, meterFlush, meterRead
<1>1. ASSUME NEW a \in MeterStreams, FindCounter(a) PROVE MeterInv'
    BY <1>1 DEF FindCounter
<1>2. ASSUME NEW a \in MeterStreams, MakeCounter(a) PROVE MeterInv'
    BY <1>2 DEF MakeCounter
<1>3. ASSUME NEW a \in MeterStreams, AddBytes(a) PROVE MeterInv'
    BY <1>3 DEF AddBytes
<1>4. CASE FlushSwap
    BY <1>4 DEF FlushSwap
<1>5. CASE FlushStore
    BY <1>5 DEF FlushStore
<1>6. CASE ReadTable
    BY <1>6 DEF ReadTable, TotalsPart
<1>7. CASE ReadCounters
    BY <1>7 DEF ReadCounters, TotalsPart
<1>8. CASE ReadAnswered
    BY <1>8 DEF ReadAnswered
<1>9. CASE StopMeter
    BY <1>9 DEF StopMeter
<1>10. CASE EndProcess
    BY <1>10 DEF EndProcess
<1>11. CASE UNCHANGED meterVars
    BY <1>11 DEF meterVars
<1>12. QED
    BY <1>1, <1>2, <1>3, <1>4, <1>5, <1>6, <1>7, <1>8, <1>9, <1>10, <1>11 DEF MeterNext

\* The invariant holds in every state of every behaviour.
LEMMA MeterInvHolds == MeterSpec => []MeterInv
BY MeterInvInit, MeterInvNext, PTL DEF MeterSpec

\* Nothing that was sent is lost or counted twice by the steps of Add, flush
\* and TotalStats.
THEOREM MeterConserved == MeterSpec => []MeterConserves
<1>1. MeterInv => MeterConserves
    BY DEF MeterInv
<1>2. QED
    BY <1>1, MeterInvHolds, PTL

\* A total never exceeds what was sent, and misses only what a flush took
\* between the two reads and what was lost.
THEOREM MeterTotals == MeterSpec => []TotalsBounded
<1>1. MeterInv => TotalsBounded
    BY DEF MeterInv, ReadInProgress, TotalsBounded
<1>2. QED
    BY <1>1, MeterInvHolds, PTL
=============================================================================

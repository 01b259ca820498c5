-------------------------- MODULE Aggregate_proofs --------------------------
(***************************************************************************)
(* Theorems of Aggregate, for any number of requests, upstreams, items and *)
(* removals.  In turn: the operators on lists; types, and room in the      *)
(* channel; calls go to the right item; what was sent arrives; what was    *)
(* merged can be opened; the virtual ids are those of a directory; a title *)
(* is listed once; how requests come to their end; nothing is lost.        *)
(***************************************************************************)
EXTENDS Aggregate, TLAPS, FiniteSetTheorems, WellFoundedInduction

-----------------------------------------------------------------------------
(* The invariants                                                          *)

\* The upstreams whose result has been sent.
Sent(r) == {s \in Servers : wpc[r][s] = "sent"}

\* A goroutine is one of an upstream that was online, the channel holds at
\* most one result of each, and a request not begun has nothing.
CallsOf(r) ==
    /\ \A s \in Servers : wpc[r][s] # "none" => s \in snap[r]
    /\ \A s \in Servers : wpc[r][s] = "none" => asked[r][s] = None
    /\ Len(chan[r]) <= Cardinality(Sent(r))
    /\ mpc[r] = "new" =>
         /\ \A s \in Servers : wpc[r][s] = "none"
         /\ before[r] = {} /\ ids[r] = {} /\ items[r] = <<>> /\ chan[r] = <<>>
    /\ mpc[r] \in {"new", "asking", "waiting"} => merged[r] = {} /\ adding[r] = None

Calls == \A r \in Requests : CallsOf(r)

\* Once a request merges or has been answered, its goroutines have ended and
\* the channel is empty; only a context that is done makes one drop a result.
FinishedOf(r) ==
    /\ mpc[r] \in {"merging", "answered"} =>
         chan[r] = <<>> /\ \A s \in Servers : wpc[r][s] \in Ended
    /\ mpc[r] = "merging" => kind[r] = "items"
    /\ \A s \in Servers : wpc[r][s] = "dropped" => expired[r] \/ mpc[r] = "refused"
    /\ \A q \in before[r] : mpc[q] = "answered"

Finished == \A r \in Requests : FinishedOf(r)

\* An instance is the same title as the item whose virtual id it belongs to.
SameTitle == \A i \in Items : \A j \in inst[i] : Key[j] = Key[i]

\* What the goroutines of a request have sent, wherever it is.
ItemsOf(r) == {i \in Items : i \in Range(items[r]) \/ \E x \in Range(chan[r]) : i \in Range(x.items)}
IdsOf(r) == {v \in VirtualIds : v \in ids[r] \/ \E x \in Range(chan[r]) : v \in x.ids}

ArrivesOf(r) ==
    \A s \in Servers : wpc[r][s] = "sent" =>
        \A i \in Range(Listing(s, asked[r][s])) :
            IF kind[r] = "search" THEN s \notin cleaned => <<i, FALSE>> \in IdsOf(r)
                                  ELSE i \in ItemsOf(r)

Arrives == \A r \in Requests : ArrivesOf(r)

\* A merged item is one of the list; the virtual id of the group being added
\* to resolves while its server is there.
MergingOf(r) ==
    /\ merged[r] \subseteq Range(items[r])
    /\ adding[r] # None =>
         /\ mpc[r] = "merging" /\ adding[r][1] \in merged[r]
         /\ SrvOf[adding[r][1]] \notin cleaned => adding[r] \in bound

Merging == \A r \in Requests : MergingOf(r)

\* Of every group merged, each server has the item itself or an instance.
ReachedOf(r) ==
    \A p \in merged[r] :
        SrvOf[p] \notin cleaned /\ ~(adding[r] # None /\ adding[r][1] = p) =>
            \A i \in Range(items[r]) : Key[i] = Key[p] =>
                \E j \in {p} \cup inst[p] : SrvOf[j] = SrvOf[i]

Reached == \A r \in Requests : ReachedOf(r)

\* The answer to a list has the virtual ids of what was merged; they resolve
\* until the server is cleaned up.
AnsweredOf(r) ==
    mpc[r] = "answered" /\ kind[r] = "items" =>
        /\ {Key[i] : i \in Range(items[r])} = {Key[i] : i \in merged[r]}
        /\ adding[r] = None
        /\ \A p \in merged[r] : \E v \in ids[r] : v[1] = p
        /\ \A v \in ids[r] : v[1] \in merged[r] /\ (SrvOf[v[1]] \notin cleaned => v \in bound)

Answered == \A r \in Requests : AnsweredOf(r)

\* A call that names an item names one of its upstream, and the same title as
\* what the client asked about.
CallsRight ==
    \A r \in Requests, s \in Servers :
        LET i == asked[r][s] IN
        i # None => about[r] # None /\ SrvOf[i] = s /\ Key[i] = Key[about[r][1]]

-----------------------------------------------------------------------------
(* The operators on lists                                                  *)

\* A non-empty set of natural numbers has a least one.
LEMMA SmallestOf ==
    ASSUME NEW S \in SUBSET Nat, S # {}
    PROVE  \E x \in S : \A y \in S : x <= y
  <1>1. PICK x \in S : \A y \in S : <<y, x>> \notin OpToRel(<, Nat)
    BY NatLessThanWellFounded, WFMin
  <1>2. \A y \in S : ~ (y < x)
    BY <1>1, Zenon DEF OpToRel
  <1> QED
    BY <1>2

\* A set of positions has a first one, and Min is it.
LEMMA FirstPosition ==
    ASSUME NEW S \in SUBSET Nat, S # {}
    PROVE  Min(S) \in S
  <1>1. \E x \in S : \A y \in S : x =< y
    BY SmallestOf
  <1> QED
    BY <1>1 DEF Min

\* A set of positions of a list has a last one.
LEMMA LastPosition ==
    ASSUME NEW N \in Nat, NEW S \in SUBSET (1..N), S # {}
    PROVE  \E m \in S : \A n \in S : n <= m
  <1> DEFINE T == {N - n : n \in S}
  <1>1. \A n \in S : n \in Nat /\ N - n \in Nat
    OBVIOUS
  <1>2. T \in SUBSET Nat /\ T # {}
    BY <1>1
  <1> HIDE DEF T
  <1>3. PICK x \in T : \A y \in T : x <= y
    BY <1>2, SmallestOf
  <1>4. PICK m \in S : x = N - m
    BY DEF T
  <1>5. \A n \in S : N - m <= N - n
    BY <1>3, <1>4 DEF T
  <1>6. \A n \in S : n <= m
    BY <1>1, <1>5
  <1> QED
    BY <1>6

\* The items of an appended, a concatenated and a shortened list.
LEMMA RangeAppend ==
    ASSUME NEW D, NEW s \in Seq(D), NEW e \in D
    PROVE  Append(s, e) \in Seq(D) /\ Range(Append(s, e)) = Range(s) \cup {e}
  <1>1. /\ Append(s, e) \in Seq(D) /\ Len(Append(s, e)) = Len(s) + 1
        /\ \A n \in 1..Len(s) : Append(s, e)[n] = s[n]
        /\ Append(s, e)[Len(s) + 1] = e
    OBVIOUS
  <1>2. \A n \in 1..(Len(s) + 1) : n \in 1..Len(s) \/ n = Len(s) + 1
    OBVIOUS
  <1>3. \A n \in 1..Len(s) : n \in 1..(Len(s) + 1)
    OBVIOUS
  <1> QED
    BY <1>1, <1>2, <1>3 DEF Range

LEMMA RangeConcat ==
    ASSUME NEW D, NEW s \in Seq(D), NEW t \in Seq(D)
    PROVE  s \o t \in Seq(D) /\ Range(s \o t) = Range(s) \cup Range(t)
  <1>1. s \o t \in Seq(D) /\ Len(s \o t) = Len(s) + Len(t)
    OBVIOUS
  <1>2. \A n \in 1..(Len(s) + Len(t)) :
            (s \o t)[n] = IF n <= Len(s) THEN s[n] ELSE t[n - Len(s)]
    OBVIOUS
  <1>3. Range(s) \subseteq Range(s \o t)
    BY <1>1, <1>2 DEF Range
  <1>4. ASSUME NEW n \in 1..Len(t) PROVE t[n] \in Range(s \o t)
    <2>1. Len(s) + n \in 1..(Len(s) + Len(t)) /\ ~(Len(s) + n <= Len(s)) /\ (Len(s) + n) - Len(s) = n
      OBVIOUS
    <2>2. (s \o t)[Len(s) + n] = t[n]
      BY <1>2, <2>1
    <2> QED
      BY <1>1, <2>1, <2>2 DEF Range
  <1>5. ASSUME NEW n \in 1..(Len(s) + Len(t)) PROVE (s \o t)[n] \in Range(s) \cup Range(t)
    <2>1. CASE n <= Len(s)
      <3>1. n \in DOMAIN s /\ (s \o t)[n] = s[n]
        BY <1>2, <2>1
      <3> QED
        BY <3>1 DEF Range
    <2>2. CASE ~(n <= Len(s))
      <3>1. n - Len(s) \in DOMAIN t /\ (s \o t)[n] = t[n - Len(s)]
        BY <1>2, <2>2
      <3> QED
        BY <3>1 DEF Range
    <2> QED
      BY <2>1, <2>2
  <1>6. Range(t) \subseteq Range(s \o t)
    BY <1>4 DEF Range
  <1>7. Range(s \o t) \subseteq Range(s) \cup Range(t)
    BY <1>1, <1>5 DEF Range
  <1> QED
    BY <1>1, <1>3, <1>6, <1>7

LEMMA RangeHeadTail ==
    ASSUME NEW D, NEW s \in Seq(D), s # <<>>
    PROVE  /\ Head(s) \in D /\ Tail(s) \in Seq(D) /\ Len(Tail(s)) < Len(s)
           /\ Range(s) = {Head(s)} \cup Range(Tail(s))
  <1>1. /\ Head(s) = s[1] /\ s[1] \in D /\ Tail(s) \in Seq(D) /\ Len(s) >= 1
        /\ Len(Tail(s)) = Len(s) - 1
        /\ \A n \in 1..(Len(s) - 1) : Tail(s)[n] = s[n + 1]
    OBVIOUS
  <1>2. \A n \in 2..Len(s) : n - 1 \in 1..(Len(s) - 1) /\ (n - 1) + 1 = n
    OBVIOUS
  <1>3. \A n \in 2..Len(s) : s[n] = Tail(s)[n - 1]
    BY <1>1, <1>2
  <1>4. Range(s) \subseteq {Head(s)} \cup Range(Tail(s))
    <2> SUFFICES ASSUME NEW n \in 1..Len(s) PROVE s[n] \in {Head(s)} \cup Range(Tail(s))
      BY DEF Range
    <2>1. CASE n = 1
      BY <1>1, <2>1
    <2>2. CASE n # 1
      <3>1. n \in 2..Len(s)
        BY <2>2
      <3>2. s[n] = Tail(s)[n - 1] /\ n - 1 \in 1..Len(Tail(s))
        BY <1>1, <1>2, <1>3, <3>1
      <3>3. DOMAIN Tail(s) = 1..Len(Tail(s))
        BY <1>1
      <3> QED
        BY <3>2, <3>3 DEF Range
    <2> QED
      BY <2>1, <2>2
  <1>5. Range(Tail(s)) \subseteq Range(s)
    BY <1>1 DEF Range
  <1> QED
    BY <1>1, <1>4, <1>5 DEF Range

\* A group is a set of positions of its list.
LEMMA GroupPositions ==
    ASSUME NEW seq \in Seq(Items), NEW k
    PROVE  /\ Group(seq, k) \in SUBSET (1..Len(seq)) /\ Group(seq, k) \in SUBSET Nat
           /\ IsFiniteSet(Group(seq, k))
  <1>1. Group(seq, k) \in SUBSET (1..Len(seq)) /\ Group(seq, k) \in SUBSET Nat
    BY DEF Group
  <1> QED
    BY <1>1, FS_Interval, FS_Subset

\* The primary is one of the group.
LEMMA PrimaryOfGroup ==
    ASSUME NEW seq \in Seq(Items), NEW g \in SUBSET Nat, g # {}
    PROVE  SelectPrimary(seq, g) \in {seq[n] : n \in g}
  <1> DEFINE preferred == {n \in g \ {Min(g)} : SrvOf[seq[n]] \in listed \cap PriorityMeta}
             chinese == {n \in g : seq[n] \in Chinese}
  <1>1. Min(g) \in g /\ (preferred # {} => Min(preferred) \in preferred)
                     /\ (chinese # {} => Min(chinese) \in chinese)
    BY FirstPosition
  <1>2. /\ preferred \subseteq g /\ chinese \subseteq g
        /\ SelectPrimary(seq, g) = CASE preferred # {} -> seq[Min(preferred)]
                                     [] preferred = {} /\ chinese # {} -> seq[Min(chinese)]
                                     [] OTHER -> seq[Min(g)]
    BY DEF SelectPrimary
  <1> HIDE DEF preferred, chinese
  <1> QED
    BY <1>1, <1>2

\* AddInstance only adds the items it is given, and leaves each of their
\* servers with an instance, as it does the servers that had one.
LEMMA InstancesAdded ==
    ASSUME NEW seq \in Seq(Items), NEW old \in SUBSET Items, NEW ps \in SUBSET (1..Len(seq))
    PROVE  /\ WithInstances(old, seq, ps) \subseteq old \cup {seq[n] : n \in ps}
           /\ \A n \in ps : \E j \in WithInstances(old, seq, ps) : SrvOf[j] = SrvOf[seq[n]]
           /\ \A i \in old : \E j \in WithInstances(old, seq, ps) : SrvOf[j] = SrvOf[i]
  <1> DEFINE last == {n \in ps : \A m \in ps : SrvOf[seq[m]] = SrvOf[seq[n]] => m <= n}
             kept == {i \in old : \A n \in ps : SrvOf[seq[n]] # SrvOf[i]}
  <1>1. WithInstances(old, seq, ps) = kept \cup {seq[n] : n \in last}
    BY DEF WithInstances
  <1>2. ASSUME NEW n \in ps PROVE \E l \in last : SrvOf[seq[l]] = SrvOf[seq[n]]
    <2> DEFINE same == {m \in ps : SrvOf[seq[m]] = SrvOf[seq[n]]}
    <2>1. same \in SUBSET (1..Len(seq)) /\ same # {}
      OBVIOUS
    <2>2. Len(seq) \in Nat
      OBVIOUS
    <2>3. PICK l \in same : \A m \in same : m <= l
      <3> HIDE DEF same
      <3> QED
        BY <2>1, <2>2, LastPosition
    <2> QED
      BY <2>3
  <1> HIDE DEF last, kept
  <1>3. \A n \in ps : \E j \in WithInstances(old, seq, ps) : SrvOf[j] = SrvOf[seq[n]]
    BY <1>1, <1>2
  <1>4. \A i \in old : i \in kept \/ \E n \in ps : SrvOf[seq[n]] = SrvOf[i]
    BY DEF kept
  <1>5. last \subseteq ps /\ kept \subseteq old
    BY DEF last, kept
  <1>6. \A i \in old : \E j \in WithInstances(old, seq, ps) : SrvOf[j] = SrvOf[i]
    BY <1>1, <1>3, <1>4
  <1> QED
    BY <1>1, <1>3, <1>5, <1>6

-----------------------------------------------------------------------------
(* Types                                                                   *)

\* What an upstream lists are items of its own.
LEMMA ListingItems ==
    ASSUME NEW s \in Servers, NEW i \in Items \cup {None}
    PROVE  /\ Listing(s, i) \in Seq(Items)
           /\ i = None \/ SrvOf[i] = s => \A j \in Range(Listing(s, i)) : SrvOf[j] = s
  BY ConstantsAssumption DEF Listing

\* The items of a list are items.
LEMMA RangeItems ==
    ASSUME NEW seq \in Seq(Items)
    PROVE  Range(seq) \subseteq Items
  BY DEF Range

\* A virtual id is one.
LEMMA VidType == \A i \in Items : Vid(i) \in VirtualIds
  <1> SUFFICES ASSUME NEW i \in Items PROVE Vid(i) \in VirtualIds
    OBVIOUS
  <1>1. (SrvOf[i] \in cleaned) \in BOOLEAN
    OBVIOUS
  <1> QED
    BY <1>1, Zenon DEF Vid, VirtualIds

\* An entry of a table by request and server is replaced by another.
LEMMA EntryType ==
    ASSUME NEW C, NEW f \in [Requests -> [Servers -> C]], NEW r \in Requests, NEW s \in Servers, NEW c \in C
    PROVE  /\ [f EXCEPT ![r][s] = c] \in [Requests -> [Servers -> C]]
           /\ [f EXCEPT ![r][s] = c][r][s] = c
           /\ \A t \in Servers : t # s => [f EXCEPT ![r][s] = c][r][t] = f[r][t]
           /\ \A q \in Requests : q # r => [f EXCEPT ![r][s] = c][q] = f[q]
  OBVIOUS

\* What a goroutine sends has the type of the channel.
LEMMA ResultType ==
    ASSUME Types, NEW r \in Requests, NEW s \in Servers
    PROVE  /\ Result(r, s) \in [items : Seq(Items), ids : SUBSET VirtualIds]
           /\ VidsOf(Range(Listing(s, asked[r][s]))) \in SUBSET VirtualIds
  <1>1. asked[r][s] \in Items \cup {None}
    BY DEF Types
  <1>2. Listing(s, asked[r][s]) \in Seq(Items) /\ Range(Listing(s, asked[r][s])) \subseteq Items
    BY <1>1, ListingItems, RangeItems
  <1>3. VidsOf(Range(Listing(s, asked[r][s]))) \in SUBSET VirtualIds
    BY <1>2, VidType DEF VidsOf
  <1>4. <<>> \in Seq(Items) /\ {} \in SUBSET VirtualIds
    OBVIOUS
  <1> QED
    BY <1>2, <1>3, <1>4 DEF Result

\* A request keeps the types.
LEMMA TypeRequest ==
    ASSUME Types, NEW r \in Requests,
           \/ \E k \in {"items", "search"}, v \in Shown \cup {None}, online \in SUBSET listed :
                Start(r, k, v, online)
           \/ AskedAll(r) \/ Closed(r) \/ Refuse(r) \/ Expire(r)
    PROVE  Types'
  <1> USE DEF store, admin, request, answer, calls
  <1>1. CASE \E k \in {"items", "search"}, v \in Shown \cup {None}, online \in SUBSET listed :
               Start(r, k, v, online)
    <2>1. PICK k \in {"items", "search"}, v \in Shown \cup {None}, online \in SUBSET listed :
            Start(r, k, v, online)
      BY <1>1
    <2>2. v \in VirtualIds \cup {None}
      BY DEF Types, Shown
    <2>3. online \in SUBSET Servers /\ {q \in Requests : mpc[q] = "answered"} \in SUBSET Requests
      BY DEF Types
    <2> QED
      BY <2>1, <2>2, <2>3 DEF Start, Types
  <1>2. CASE AskedAll(r)
    BY <1>2 DEF AskedAll, Types
  <1>3. CASE Closed(r)
    BY <1>3 DEF Closed, Types
  <1>4. CASE Refuse(r)
    BY <1>4 DEF Refuse, Types
  <1>5. CASE Expire(r)
    BY <1>5 DEF Expire, Types
  <1> QED
    BY <1>1, <1>2, <1>3, <1>4, <1>5

\* So do the goroutines of the upstreams.
LEMMA TypeWorker ==
    ASSUME Types, NEW r \in Requests, NEW s \in Servers, Ask(r, s) \/ Worker(r, s)
    PROVE  Types'
  <1> USE DEF store, admin, request, answer, calls
  <1>0. /\ wpc \in [Requests -> [Servers -> Ended \cup {"calling", "answered"}]]
        /\ {"answered", "failed", "sent", "dropped"} \subseteq Ended \cup {"calling", "answered"}
    BY DEF Types, Ended
  <1>1. CASE Ask(r, s)
    <2>1. \A v \in VirtualIds : OriginalsFor(v, s) \subseteq Items
      BY DEF OriginalsFor, VirtualIds, Types
    <2>2. about[r] \in VirtualIds \cup {None}
      BY DEF Types
    <2>3. wpc' \in [Requests -> [Servers -> Ended \cup {"calling", "answered"}]]
      <3>1. \/ wpc' = [wpc EXCEPT ![r][s] = "calling"]
            \/ wpc' = [wpc EXCEPT ![r][s] = "left_out"]
        BY <1>1 DEF Ask
      <3>2. {"calling", "left_out"} \subseteq Ended \cup {"calling", "answered"}
        BY DEF Ended
      <3>3. wpc \in [Requests -> [Servers -> Ended \cup {"calling", "answered"}]]
        BY DEF Types
      <3> QED
        BY <3>1, <3>2, <3>3, EntryType
    <2>4. asked' \in [Requests -> [Servers -> Items \cup {None}]]
      <3>1. \/ asked' = asked
            \/ \E i \in OriginalsFor(about[r], s) : asked' = [asked EXCEPT ![r][s] = i] /\ about[r] # None
        BY <1>1 DEF Ask
      <3>2. \/ asked' = asked
            \/ \E i \in Items : asked' = [asked EXCEPT ![r][s] = i]
        BY <2>1, <2>2, <3>1
      <3>3. asked \in [Requests -> [Servers -> Items \cup {None}]]
        BY DEF Types
      <3> QED
        BY <3>2, <3>3, EntryType
    <2> QED
      BY <1>1, <2>3, <2>4 DEF Ask, Types
  <1>2. CASE CallAnswered(r, s) \/ CallFailed(r, s)
    <2>1. wpc' \in [Requests -> [Servers -> Ended \cup {"calling", "answered"}]]
      BY <1>2, <1>0, EntryType DEF CallAnswered, CallFailed
    <2> QED
      BY <1>2, <2>1 DEF CallAnswered, CallFailed, Types
  <1>3. CASE Send(r, s)
    <2>1. wpc' \in [Requests -> [Servers -> Ended \cup {"calling", "answered"}]]
      BY <1>3, <1>0, EntryType DEF Send
    <2>2. bound' \subseteq VirtualIds
      BY <1>3, ResultType DEF Send, VirtualizeHints, Types
    <2>3. chan' \in [Requests -> Seq([items : Seq(Items), ids : SUBSET VirtualIds])]
      <3>1. chan[r] \in Seq([items : Seq(Items), ids : SUBSET VirtualIds])
        BY DEF Types
      <3>2. Append(chan[r], Result(r, s)) \in Seq([items : Seq(Items), ids : SUBSET VirtualIds])
        BY <3>1, ResultType, RangeAppend
      <3> QED
        BY <1>3, <3>2 DEF Send, Types
    <2> QED
      BY <1>3, <2>1, <2>2, <2>3 DEF Send, Types
  <1>4. CASE Drop(r, s)
    <2>1. bound' \subseteq VirtualIds
      BY <1>4, ResultType DEF Drop, VirtualizeHints, Types
    <2>2. wpc' \in [Requests -> [Servers -> Ended \cup {"calling", "answered"}]]
      BY <1>4, <1>0, EntryType DEF Drop
    <2> QED
      BY <1>4, <2>1, <2>2 DEF Drop, Types
  <1> QED
    BY <1>1, <1>2, <1>3, <1>4 DEF Worker

\* So do receiving, merging and encoding.
LEMMA TypeAnswer ==
    ASSUME Types, NEW r \in Requests,
           Receive(r) \/ (\E i \in Items : Merge(r, Key[i])) \/ AddInstances(r) \/ Encode(r)
    PROVE  Types'
  <1> USE DEF store, admin, request, answer, calls
  <1>0. /\ items[r] \in Seq(Items) /\ Range(items[r]) \subseteq Items
        /\ chan[r] \in Seq([items : Seq(Items), ids : SUBSET VirtualIds])
    BY RangeItems DEF Types
  <1>1. CASE Receive(r)
    <2>1. /\ Head(chan[r]) \in [items : Seq(Items), ids : SUBSET VirtualIds]
          /\ Tail(chan[r]) \in Seq([items : Seq(Items), ids : SUBSET VirtualIds])
      BY <1>0, <1>1, RangeHeadTail DEF Receive
    <2>2. items[r] \o Head(chan[r]).items \in Seq(Items) /\ Head(chan[r]).ids \in SUBSET VirtualIds
      BY <1>0, <2>1, RangeConcat
    <2> QED
      BY <1>1, <2>1, <2>2 DEF Receive, Types
  <1>2. CASE \E i \in Items : Merge(r, Key[i])
    <2>1. PICK k : Merge(r, k)
      BY <1>2
    <2> DEFINE g == Group(items[r], k)
               primary == IF Cardinality(g) = 1 THEN items[r][Min(g)] ELSE SelectPrimary(items[r], g)
    <2>2. g # {}
      <3>1. PICK j \in Range(items[r]) : Key[j] = k
        BY <2>1 DEF Merge
      <3>2. PICK n \in DOMAIN items[r] : items[r][n] = j
        BY DEF Range
      <3> QED
        BY <1>0, <3>1, <3>2 DEF Group
    <2>3. primary \in {items[r][n] : n \in g}
      BY <1>0, <2>2, GroupPositions, FirstPosition, PrimaryOfGroup
    <2>4. {items[r][n] : n \in g} \subseteq Items
      BY <1>0 DEF Group
    <2>5. primary \in Items /\ Vid(primary) \in VirtualIds
      BY <2>3, <2>4, VidType
    <2>6. /\ merged' = [merged EXCEPT ![r] = @ \cup {primary}]
          /\ \/ UNCHANGED <<bound, adding>>
             \/ /\ bound' = bound \cup {Vid(primary)}
                /\ adding' = [adding EXCEPT ![r] = Vid(primary)]
      BY <2>1 DEF Merge
    <2> HIDE DEF primary
    <2>7. merged' \in [Requests -> SUBSET Items]
      BY <2>5, <2>6 DEF Types
    <2>8. bound' \subseteq VirtualIds
      BY <2>5, <2>6 DEF Types
    <2>9. adding' \in [Requests -> VirtualIds \cup {None}]
      BY <2>5, <2>6, ZenonT(30) DEF Types
    <2> QED
      BY <2>1, <2>7, <2>8, <2>9 DEF Merge, Types
  <1>3. CASE AddInstances(r)
    <2>1. adding[r] \in VirtualIds /\ adding[r][1] \in Items
      BY <1>3 DEF AddInstances, Types, VirtualIds
    <2> DEFINE others == {n \in Group(items[r], Key[adding[r][1]]) : items[r][n] # adding[r][1]}
    <2>2. others \in SUBSET (1..Len(items[r])) /\ {items[r][n] : n \in others} \subseteq Items
      BY <1>0, GroupPositions
    <2> HIDE DEF others
    <2>3. WithInstances(inst[adding[r][1]], items[r], others) \in SUBSET Items
      <3>1. inst[adding[r][1]] \in SUBSET Items
        BY <2>1 DEF Types
      <3> QED
        BY <1>0, <2>2, <3>1, InstancesAdded
    <2>4. inst' \in [Items -> SUBSET Items]
      BY <1>3, <2>1, <2>3 DEF AddInstances, Types, others
    <2> QED
      BY <1>3, <2>4 DEF AddInstances, Types
  <1>4. CASE Encode(r)
    <2>1. VidsOf(merged[r]) \in SUBSET VirtualIds
      BY VidType DEF VidsOf, Types
    <2> QED
      BY <1>4, <2>1 DEF Encode, Types
  <1> QED
    BY <1>1, <1>2, <1>3, <1>4

\* Every step keeps the types.
LEMMA TypeStep == Types /\ [Next]_vars => Types'
  <1> SUFFICES ASSUME Types, [Next]_vars PROVE Types'
    OBVIOUS
  <1>1. CASE UNCHANGED vars
    BY <1>1 DEF vars, store, admin, request, answer, calls, Types
  <1>2. CASE \E r \in Requests, k \in {"items", "search"}, v \in Shown \cup {None},
               online \in SUBSET listed : Start(r, k, v, online)
    BY <1>2, TypeRequest
  <1>3. CASE \E r \in Requests : Handle(r) \/ Expire(r)
    BY <1>3, TypeRequest, TypeWorker, TypeAnswer DEF Handle
  <1>4. CASE \E r \in Requests, s \in Servers : Worker(r, s)
    BY <1>4, TypeWorker
  <1>5. CASE \E s \in Servers : RemoveUpstream(s) \/ Cleanup(s)
    <2>1. CASE \E s \in Servers : RemoveUpstream(s)
      BY <2>1 DEF RemoveUpstream, store, request, answer, calls, Types
    <2>2. CASE \E s \in Servers : Cleanup(s)
      <3>1. PICK s \in Servers : Cleanup(s)
        BY <2>2
      <3>2. cleaned' \subseteq Servers \ listed'
        BY <3>1 DEF Cleanup, Types
      <3>3. bound' \subseteq VirtualIds /\ inst' \in [Items -> SUBSET Items]
        BY <3>1 DEF Cleanup, Types
      <3> QED
        BY <3>1, <3>2, <3>3 DEF Cleanup, request, answer, calls, Types
    <2> QED
      BY <1>5, <2>1, <2>2
  <1> QED
    BY <1>1, <1>2, <1>3, <1>4, <1>5 DEF Next

LEMMA TypeInit == Init => Types
  BY DEF Init, Types, Ended

-----------------------------------------------------------------------------
(* Calls, and how they end                                                 *)

\* The steps of the goroutine of one upstream, of the goroutine of a request,
\* and the rest.
CallStep(r, s) == Ask(r, s) \/ Worker(r, s)

Begin(r) ==
    \E k \in {"items", "search"}, v \in Shown \cup {None}, online \in SUBSET listed :
        Start(r, k, v, online)

RequestStep(r) ==
    \/ Begin(r) \/ AskedAll(r) \/ Closed(r) \/ Refuse(r) \/ Expire(r)
    \/ Receive(r) \/ (\E i \in Items : Merge(r, Key[i])) \/ AddInstances(r) \/ Encode(r)

AdminStep == \E s \in Servers : RemoveUpstream(s) \/ Cleanup(s)

LEMMA Steps ==
    ASSUME [Next]_vars
    PROVE  \/ \E r \in Requests, s \in Servers : CallStep(r, s)
           \/ \E r \in Requests : RequestStep(r)
           \/ AdminStep
           \/ UNCHANGED vars
  BY DEF Next, Handle, CallStep, Begin, RequestStep, AdminStep

\* A step of a goroutine, or of the loop that starts it, is about its entry.
LEMMA WorkerFrame ==
    ASSUME Types, NEW r \in Requests, NEW s \in Servers, CallStep(r, s)
    PROVE  /\ UNCHANGED <<inst, admin, request, expired, mpc, answer>>
           /\ \A t \in Servers : t # s => wpc'[r][t] = wpc[r][t] /\ asked'[r][t] = asked[r][t]
           /\ \A q \in Requests : q # r => wpc'[q] = wpc[q] /\ asked'[q] = asked[q] /\ chan'[q] = chan[q]
           /\ bound \subseteq bound'
  <1>1. CASE Ask(r, s)
    BY <1>1 DEF Ask, Types, store
  <1>2. CASE CallAnswered(r, s) \/ CallFailed(r, s)
    BY <1>2 DEF CallAnswered, CallFailed, Types, store
  <1>3. CASE Send(r, s)
    BY <1>3 DEF Send, VirtualizeHints, Types
  <1>4. CASE Drop(r, s)
    BY <1>4 DEF Drop, VirtualizeHints, Types
  <1> QED
    BY <1>1, <1>2, <1>3, <1>4 DEF CallStep, Worker

\* No other step touches the goroutines of a request.
LEMMA OtherFrame ==
    ASSUME Types, NEW r \in Requests, RequestStep(r)
    PROVE  /\ UNCHANGED <<wpc, asked, admin>>
           /\ \A q \in Requests : q # r =>
                /\ kind'[q] = kind[q] /\ about'[q] = about[q] /\ snap'[q] = snap[q]
                /\ before'[q] = before[q] /\ expired'[q] = expired[q] /\ mpc'[q] = mpc[q]
                /\ items'[q] = items[q] /\ ids'[q] = ids[q] /\ merged'[q] = merged[q]
                /\ adding'[q] = adding[q] /\ chan'[q] = chan[q]
           /\ bound \subseteq bound'
  <1> USE DEF store, request, answer, calls, Types
  <1>1. CASE Begin(r)
    BY <1>1 DEF Begin, Start
  <1>2. CASE AskedAll(r) \/ Closed(r) \/ Refuse(r) \/ Expire(r)
    BY <1>2 DEF AskedAll, Closed, Refuse, Expire
  <1>3. CASE Receive(r)
    BY <1>3 DEF Receive
  <1>4. CASE \E i \in Items : Merge(r, Key[i])
    BY <1>4 DEF Merge
  <1>5. CASE AddInstances(r)
    BY <1>5 DEF AddInstances
  <1>6. CASE Encode(r)
    BY <1>6 DEF Encode
  <1> QED
    BY <1>1, <1>2, <1>3, <1>4, <1>5, <1>6 DEF RequestStep

\* The upstreams that have sent are finitely many, and one that sends is one
\* more.
LEMMA SentFinite ==
    ASSUME Types, NEW r \in Requests
    PROVE  IsFiniteSet(Sent(r)) /\ Cardinality(Sent(r)) \in Nat
  <1>1. IsFiniteSet(Servers) /\ Sent(r) \in SUBSET Servers
    BY ConstantsAssumption DEF Sent
  <1> QED
    BY <1>1, FS_Subset, FS_CardinalityType

LEMMA SendRoom ==
    ASSUME Types, Calls, NEW r \in Requests, NEW s \in Servers, Send(r, s)
    PROVE  Len(chan'[r]) <= Cardinality(Sent(r)')
  <1>1. Sent(r)' = Sent(r) \cup {s} /\ s \notin Sent(r)
    BY DEF Send, Sent, Types
  <1>2. Cardinality(Sent(r)') = Cardinality(Sent(r)) + 1
    BY <1>1, SentFinite, FS_AddElement
  <1>3. Len(chan'[r]) = Len(chan[r]) + 1
    BY DEF Send, Types
  <1>4. Len(chan[r]) <= Cardinality(Sent(r)) /\ Len(chan[r]) \in Nat
    BY DEF Calls, CallsOf, Types
  <1> QED
    BY <1>2, <1>3, <1>4, SentFinite

\* A step of a goroutine keeps Calls.
LEMMA CallsWorker ==
    ASSUME Types, Calls, NEW r \in Requests, NEW s \in Servers, CallStep(r, s)
    PROVE  Calls'
  <1>1. \A q \in Requests : q # r => Sent(q)' = Sent(q)
    BY WorkerFrame DEF Sent
  <1>2. Len(chan'[r]) <= Cardinality(Sent(r)')
    <2>1. CASE Send(r, s)
      BY <2>1, SendRoom
    <2>2. CASE ~Send(r, s)
      <3>1. wpc[r][s] # "sent" /\ wpc'[r][s] # "sent" /\ chan' = chan
        BY <2>2 DEF CallStep, Ask, Worker, CallAnswered, CallFailed, Drop, Types
      <3>2. Sent(r)' = Sent(r)
        BY <3>1, WorkerFrame DEF Sent
      <3> QED
        BY <3>1, <3>2 DEF Calls, CallsOf
    <2> QED
      BY <2>1, <2>2
  <1>3. /\ s \in snap[r] /\ mpc[r] # "new" /\ wpc'[r][s] # "none"
    BY DEF CallStep, Ask, Worker, CallAnswered, CallFailed, Send, Drop, Types, Calls, CallsOf
  <1> QED
    BY <1>1, <1>2, <1>3, WorkerFrame DEF Calls, CallsOf, request, answer

\* So does any other step of a request.
LEMMA CallsRequest ==
    ASSUME Types, Calls, NEW r \in Requests, RequestStep(r)
    PROVE  Calls'
  <1>1. \A q \in Requests : Sent(q)' = Sent(q)
    BY OtherFrame DEF Sent
  <1>2. Len(chan'[r]) <= Cardinality(Sent(r)')
    <2>1. CASE Receive(r)
      <3>1. chan'[r] = Tail(chan[r]) /\ Len(Tail(chan[r])) < Len(chan[r])
        <4>1. chan[r] # <<>> /\ chan[r] \in Seq([items : Seq(Items), ids : SUBSET VirtualIds])
          BY <2>1 DEF Receive, Types
        <4> QED
          BY <2>1, <4>1, RangeHeadTail DEF Receive, Types
      <3>2. Len(chan[r]) \in Nat /\ Len(Tail(chan[r])) \in Nat /\ Len(chan[r]) <= Cardinality(Sent(r))
        BY <2>1 DEF Receive, Types, Calls, CallsOf
      <3> QED
        BY <1>1, <3>1, <3>2, SentFinite
    <2>2. CASE ~Receive(r)
      <3>1. chan' = chan
        BY <2>2 DEF RequestStep, Begin, Start, AskedAll, Closed, Refuse, Expire, Merge, AddInstances, Encode
      <3> QED
        BY <1>1, <3>1 DEF Calls, CallsOf
    <2> QED
      BY <2>1, <2>2
  <1>3. ASSUME NEW q \in Requests, q # r PROVE CallsOf(q)'
    <2>1. /\ wpc'[q] = wpc[q] /\ asked'[q] = asked[q] /\ snap'[q] = snap[q] /\ before'[q] = before[q]
          /\ mpc'[q] = mpc[q] /\ items'[q] = items[q] /\ ids'[q] = ids[q] /\ merged'[q] = merged[q]
          /\ adding'[q] = adding[q] /\ chan'[q] = chan[q]
      BY <1>3, OtherFrame
    <2> QED
      BY <1>1, <2>1 DEF Calls, CallsOf
  <1>4. CallsOf(r)'
    <2> USE DEF store, request, answer, calls
    <2>1. CallsOf(r)
      BY DEF Calls
    <2>2. CASE Begin(r)
      BY <1>2, <2>1, <2>2, OtherFrame DEF Begin, Start, CallsOf, Types
    <2>3. CASE AskedAll(r) \/ Closed(r) \/ Refuse(r) \/ Expire(r)
      <3>1. CASE AskedAll(r)
        BY <1>2, <2>1, <3>1, OtherFrame DEF AskedAll, CallsOf, Types
      <3>2. CASE Closed(r)
        BY <1>2, <2>1, <3>2, OtherFrame DEF Closed, CallsOf, Types
      <3>3. CASE Refuse(r)
        BY <1>2, <2>1, <3>3, OtherFrame DEF Refuse, CallsOf, Types
      <3>4. CASE Expire(r)
        BY <1>2, <2>1, <3>4, OtherFrame DEF Expire, CallsOf, Types
      <3> QED
        BY <2>3, <3>1, <3>2, <3>3, <3>4
    <2>4. CASE Receive(r)
      BY <1>2, <2>1, <2>4, OtherFrame DEF Receive, CallsOf, Types
    <2>5. CASE \E i \in Items : Merge(r, Key[i])
      BY <1>2, <2>1, <2>5, OtherFrame DEF Merge, CallsOf, Types
    <2>6. CASE AddInstances(r)
      BY <1>2, <2>1, <2>6, OtherFrame DEF AddInstances, CallsOf, Types
    <2>7. CASE Encode(r)
      BY <1>2, <2>1, <2>7, OtherFrame DEF Encode, CallsOf, Types
    <2> QED
      BY <2>2, <2>3, <2>4, <2>5, <2>6, <2>7 DEF RequestStep
  <1> QED
    BY <1>3, <1>4 DEF Calls

\* The admin's steps do not touch requests.
LEMMA AdminFrame ==
    ASSUME AdminStep \/ UNCHANGED vars
    PROVE  /\ UNCHANGED <<request, expired, mpc, answer, calls, chan>>
           /\ listed' \subseteq listed /\ cleaned \subseteq cleaned'
  BY DEF AdminStep, RemoveUpstream, Cleanup, vars, store, admin

\* Every step keeps Calls.
LEMMA CallsStep == Types /\ Calls /\ [Next]_vars => Calls'
  <1> SUFFICES ASSUME Types, Calls, [Next]_vars PROVE Calls'
    OBVIOUS
  <1>1. CASE AdminStep \/ UNCHANGED vars
    <2>1. UNCHANGED <<snap, before, mpc, items, ids, merged, adding, wpc, asked, chan>>
      BY <1>1, AdminFrame DEF request, answer, calls
    <2>2. \A r \in Requests : Sent(r)' = Sent(r)
      BY <2>1 DEF Sent
    <2> QED
      BY <2>1, <2>2 DEF Calls, CallsOf
  <1> QED
    BY <1>1, Steps, CallsWorker, CallsRequest

LEMMA CallsInit == Init => Calls
  <1> SUFFICES ASSUME Init PROVE Calls
    OBVIOUS
  <1>1. Types
    BY TypeInit
  <1>2. \A r \in Requests : Cardinality(Sent(r)) \in Nat /\ Len(chan[r]) = 0
    BY <1>1, SentFinite DEF Init
  <1> QED
    BY <1>2 DEF Init, Calls, CallsOf

LEMMA FinishedInit == Init => Finished
  BY DEF Init, Finished, FinishedOf

\* Every step keeps Finished: a goroutine that goes on belongs to a request
\* that still waits, or has been given up.
LEMMA FinishedStep == Types /\ Calls /\ Finished /\ [Next]_vars => Finished'
  <1> SUFFICES ASSUME Types, Calls, Finished, [Next]_vars PROVE Finished'
    OBVIOUS
  <1>1. ASSUME NEW r \in Requests, NEW s \in Servers, CallStep(r, s) PROVE Finished'
    <2>1. mpc[r] \notin {"merging", "answered"}
      BY <1>1 DEF CallStep, Ask, Worker, CallAnswered, CallFailed, Send, Drop, Finished, FinishedOf, Ended
    <2>2. wpc'[r][s] = "dropped" => expired[r] \/ mpc[r] = "refused"
      BY <1>1, <2>1 DEF CallStep, Ask, Worker, CallAnswered, CallFailed, Send, Drop, Cancelled, Types
    <2>3. FinishedOf(r)'
      BY <1>1, <2>1, <2>2, WorkerFrame DEF request, Finished, FinishedOf
    <2>4. ASSUME NEW q \in Requests, q # r PROVE FinishedOf(q)'
      BY <1>1, <2>4, WorkerFrame DEF request, Finished, FinishedOf
    <2> QED
      BY <2>3, <2>4 DEF Finished
  <1>2. ASSUME NEW r \in Requests, RequestStep(r) PROVE Finished'
    <2>1. mpc[r] # "answered" \/ (mpc' = mpc /\ before' = before)
      BY <1>2 DEF RequestStep, Begin, Start, AskedAll, Closed, Refuse, Expire, Receive, Merge,
                  AddInstances, Encode, request
    <2>2. ASSUME NEW q \in Requests, q # r PROVE FinishedOf(q)'
      <3>1. /\ wpc'[q] = wpc[q] /\ kind'[q] = kind[q] /\ expired'[q] = expired[q]
            /\ mpc'[q] = mpc[q] /\ chan'[q] = chan[q] /\ before'[q] = before[q]
        BY <1>2, <2>2, OtherFrame
      <3>2. \A p \in before[q] : p \in Requests /\ mpc[p] = "answered" /\ mpc'[p] = "answered"
        <4> SUFFICES ASSUME NEW p \in before[q]
                     PROVE  p \in Requests /\ mpc[p] = "answered" /\ mpc'[p] = "answered"
          OBVIOUS
        <4>1. p \in Requests /\ mpc[p] = "answered"
          BY DEF Types, Finished, FinishedOf
        <4> QED
          BY <1>2, <2>1, <4>1, OtherFrame
      <3> QED
        BY <3>1, <3>2 DEF Finished, FinishedOf
    <2>3. FinishedOf(r)'
      <3> USE DEF store, request, answer, calls
      <3>1. FinishedOf(r) /\ CallsOf(r)
        BY DEF Finished, Calls
      <3>2. CASE Begin(r)
        <4>1. \A q \in before'[r] : q # r /\ q \in Requests /\ mpc[q] = "answered"
          BY <3>2 DEF Begin, Start, Types
        <4>2. \A q \in before'[r] : mpc'[q] = "answered"
          BY <1>2, <4>1, OtherFrame
        <4> QED
          BY <1>2, <3>1, <3>2, <4>2, OtherFrame DEF Begin, Start, FinishedOf, CallsOf, Types, Ended
      <3>3. CASE ~Begin(r)
        <4>1. \A q \in before'[r] : mpc'[q] = "answered"
          <5>1. before' = before
            BY <1>2, <3>3 DEF RequestStep, AskedAll, Closed, Refuse, Expire, Receive, Merge,
                             AddInstances, Encode
          <5>2. \A q \in before[r] : q \in Requests /\ mpc[q] = "answered"
            BY <3>1 DEF Types, FinishedOf
          <5> QED
            BY <1>2, <2>1, <5>1, <5>2, OtherFrame
        <4>2. CASE AskedAll(r)
          BY <1>2, <3>1, <4>1, <4>2, OtherFrame DEF AskedAll, FinishedOf, Types
        <4>3. CASE Closed(r)
          BY <1>2, <3>1, <4>1, <4>3, OtherFrame DEF Closed, FinishedOf, Types
        <4>4. CASE Refuse(r)
          BY <1>2, <3>1, <4>1, <4>4, OtherFrame DEF Refuse, FinishedOf, Types
        <4>5. CASE Expire(r)
          BY <1>2, <3>1, <4>1, <4>5, OtherFrame DEF Expire, FinishedOf, Types
        <4>6. CASE Receive(r)
          BY <1>2, <3>1, <4>1, <4>6, OtherFrame DEF Receive, FinishedOf, Types
        <4>7. CASE \E i \in Items : Merge(r, Key[i])
          BY <1>2, <3>1, <4>1, <4>7, OtherFrame DEF Merge, FinishedOf, Types
        <4>8. CASE AddInstances(r)
          BY <1>2, <3>1, <4>1, <4>8, OtherFrame DEF AddInstances, FinishedOf, Types
        <4>9. CASE Encode(r)
          BY <1>2, <3>1, <4>1, <4>9, OtherFrame DEF Encode, FinishedOf, Types
        <4> QED
          BY <1>2, <3>3, <4>2, <4>3, <4>4, <4>5, <4>6, <4>7, <4>8, <4>9 DEF RequestStep
      <3> QED
        BY <3>2, <3>3
    <2> QED
      BY <2>2, <2>3 DEF Finished
  <1>3. CASE AdminStep \/ UNCHANGED vars
    BY <1>3, AdminFrame DEF request, answer, calls, Finished, FinishedOf
  <1> QED
    BY <1>1, <1>2, <1>3, Steps

\* An answered request takes no more steps.
LEMMA AnsweredIsFinal ==
    ASSUME Types, Merging, NEW r \in Requests, mpc[r] = "answered"
    PROVE  ~RequestStep(r)
  BY DEF RequestStep, Begin, Start, AskedAll, Closed, Refuse, Expire, Receive, Merge,
         AddInstances, Encode, Merging, MergingOf

-----------------------------------------------------------------------------
(* The id store                                                            *)

\* A group's items become instances of the item whose virtual id is being
\* added to, and only they; every server that had an instance keeps one.
LEMMA GroupAdded ==
    ASSUME Types, NEW r \in Requests, AddInstances(r)
    PROVE  LET p == adding[r][1] IN
           /\ adding[r] \in VirtualIds /\ p \in Items
           /\ \A i \in Items : i # p => inst'[i] = inst[i]
           /\ inst'[p] \subseteq inst[p] \cup {j \in Range(items[r]) : Key[j] = Key[p]}
           /\ \A i \in inst[p] : \E j \in inst'[p] : SrvOf[j] = SrvOf[i]
           /\ adding[r] \in bound =>
                \A i \in Range(items[r]) : Key[i] = Key[p] =>
                    \E j \in {p} \cup inst'[p] : SrvOf[j] = SrvOf[i]
  <1> DEFINE p == adding[r][1]
             others == {n \in Group(items[r], Key[p]) : items[r][n] # p}
             new == WithInstances(inst[p], items[r], others)
  <1>1. adding[r] \in VirtualIds /\ p \in Items /\ items[r] \in Seq(Items) /\ inst[p] \in SUBSET Items
    BY DEF AddInstances, Types, VirtualIds
  <1>2. others \in SUBSET (1..Len(items[r]))
    BY <1>1, GroupPositions
  <1>3. inst' = IF adding[r] \in bound THEN [inst EXCEPT ![p] = new] ELSE inst
    BY DEF AddInstances
  <1>4. /\ {items[r][n] : n \in others} \subseteq {j \in Range(items[r]) : Key[j] = Key[p]}
        /\ \A i \in Range(items[r]) : Key[i] = Key[p] =>
              i = p \/ \E n \in others : items[r][n] = i
    BY <1>1 DEF Group, Range
  <1> HIDE DEF others
  <1>5. /\ new \subseteq inst[p] \cup {items[r][n] : n \in others}
        /\ \A n \in others : \E j \in new : SrvOf[j] = SrvOf[items[r][n]]
        /\ \A i \in inst[p] : \E j \in new : SrvOf[j] = SrvOf[i]
    <2>1. items[r] \in Seq(Items) /\ inst[p] \in SUBSET Items /\ others \in SUBSET (1..Len(items[r]))
      BY <1>1, <1>2
    <2> HIDE DEF p
    <2> QED
      BY <2>1, InstancesAdded, ZenonT(30)
  <1> HIDE DEF new, p
  <1>6. inst \in [Items -> SUBSET Items]
    BY DEF Types
  <1>7. (\A i \in Items : i # p => inst'[i] = inst[i]) /\ (inst'[p] = inst[p] \/ inst'[p] = new)
        /\ (adding[r] \in bound => inst'[p] = new)
    BY <1>1, <1>3, <1>6
  <1>8. inst'[p] \subseteq inst[p] \cup {j \in Range(items[r]) : Key[j] = Key[p]}
    BY <1>4, <1>5, <1>7
  <1>9. \A i \in inst[p] : \E j \in inst'[p] : SrvOf[j] = SrvOf[i]
    BY <1>5, <1>7
  <1>10. adding[r] \in bound =>
           \A i \in Range(items[r]) : Key[i] = Key[p] => \E j \in {p} \cup inst'[p] : SrvOf[j] = SrvOf[i]
    BY <1>4, <1>5, <1>7
  <1> QED
    BY <1>1, <1>7, <1>8, <1>9, <1>10 DEF p

\* A step that is not the admin's takes no server's instances away.
LEMMA InstancesStay ==
    ASSUME Types, NEW r \in Requests, RequestStep(r)
    PROVE  /\ AddInstances(r) \/ inst' = inst
           /\ \A i \in Items : \A j \in inst[i] : \E k \in inst'[i] : SrvOf[k] = SrvOf[j]
  <1>1. CASE AddInstances(r)
    <2>1. ASSUME NEW i \in Items, NEW j \in inst[i] PROVE \E k \in inst'[i] : SrvOf[k] = SrvOf[j]
      <3>1. CASE i = adding[r][1]
        BY <1>1, <3>1, GroupAdded
      <3>2. CASE i # adding[r][1]
        <4>1. inst'[i] = inst[i]
          BY <1>1, <3>2, GroupAdded
        <4> QED
          BY <4>1
      <3> QED
        BY <3>1, <3>2
    <2> QED
      BY <1>1, <2>1
  <1>2. CASE ~AddInstances(r)
    <2>1. inst' = inst
      BY <1>2 DEF RequestStep, Begin, Start, AskedAll, Closed, Refuse, Expire, Receive, Merge, Encode, store
    <2> QED
      BY <2>1
  <1> QED
    BY <1>1, <1>2

\* Every step keeps SameTitle.
LEMMA SameTitleStep == Types /\ SameTitle /\ [Next]_vars => SameTitle'
  <1> SUFFICES ASSUME Types, SameTitle, [Next]_vars PROVE SameTitle'
    OBVIOUS
  <1>1. ASSUME NEW r \in Requests, AddInstances(r) PROVE SameTitle'
    <2> SUFFICES ASSUME NEW i \in Items, NEW j \in inst'[i] PROVE Key[j] = Key[i]
      BY DEF SameTitle
    <2>1. CASE i = adding[r][1]
      <3>1. j \in inst[i] \/ Key[j] = Key[i]
        BY <1>1, <2>1, GroupAdded
      <3> QED
        BY <3>1 DEF SameTitle
    <2>2. CASE i # adding[r][1]
      <3>1. inst'[i] = inst[i]
        BY <1>1, <2>2, GroupAdded
      <3> QED
        BY <3>1 DEF SameTitle
    <2> QED
      BY <2>1, <2>2
  <1>2. ASSUME NEW s \in Servers, Cleanup(s) PROVE SameTitle'
    BY <1>2 DEF Cleanup, SameTitle
  <1>3. CASE inst' = inst
    BY <1>3 DEF SameTitle
  <1>4. \A r \in Requests, s \in Servers : CallStep(r, s) => inst' = inst
    BY WorkerFrame
  <1>5. \A r \in Requests : RequestStep(r) => AddInstances(r) \/ inst' = inst
    BY InstancesStay
  <1>6. AdminStep \/ UNCHANGED vars => inst' = inst \/ \E s \in Servers : Cleanup(s)
    BY DEF AdminStep, RemoveUpstream, vars, store
  <1> QED
    BY <1>1, <1>2, <1>3, <1>4, <1>5, <1>6, Steps

-----------------------------------------------------------------------------
(* Calls name the right item                                               *)

\* Every step keeps CallsRight: a call is begun by Ask, with the item the id
\* store gives for its upstream.
LEMMA CallsRightStep == Types /\ Calls /\ SameTitle /\ CallsRight /\ [Next]_vars => CallsRight'
  <1> SUFFICES ASSUME Types, Calls, SameTitle, CallsRight, [Next]_vars,
                      NEW q \in Requests, NEW t \in Servers, asked'[q][t] # None
               PROVE  /\ about'[q] # None /\ SrvOf[asked'[q][t]] = t
                      /\ Key[asked'[q][t]] = Key[about'[q][1]]
    BY DEF CallsRight
  <1>1. CASE asked'[q][t] = asked[q][t] /\ about'[q] = about[q]
    BY <1>1 DEF CallsRight
  <1>2. ASSUME NEW r \in Requests, NEW s \in Servers, CallStep(r, s)
        PROVE  /\ about'[q] # None /\ SrvOf[asked'[q][t]] = t
               /\ Key[asked'[q][t]] = Key[about'[q][1]]
    <2>1. about' = about
      BY <1>2, WorkerFrame DEF request
    <2>2. CASE q # r \/ t # s
      <3>1. asked'[q][t] = asked[q][t]
        BY <1>2, <2>2, WorkerFrame
      <3> QED
        BY <1>1, <2>1, <3>1
    <2>3. CASE asked' = asked
      BY <1>1, <2>1, <2>3
    <2>4. CASE q = r /\ t = s /\ asked' # asked
      <3>1. Ask(r, s) /\ about[r] # None
        BY <1>2, <2>4 DEF CallStep, Ask, Worker, CallAnswered, CallFailed, Send, Drop, calls
      <3>2. PICK i \in OriginalsFor(about[r], s) : asked' = [asked EXCEPT ![r][s] = i]
        BY <2>4, <3>1 DEF Ask
      <3>3. asked'[r][s] = i
        BY <3>2 DEF Types
      <3>4. about[r] \in VirtualIds /\ about[r][1] \in Items
        BY <3>1 DEF Types, VirtualIds
      <3>5. SrvOf[i] = s /\ (i = about[r][1] \/ i \in inst[about[r][1]])
        BY DEF OriginalsFor
      <3> QED
        BY <2>1, <2>4, <3>1, <3>3, <3>4, <3>5 DEF SameTitle
    <2> QED
      BY <2>2, <2>3, <2>4
  <1>3. ASSUME NEW r \in Requests, RequestStep(r)
        PROVE  asked'[q][t] = asked[q][t] /\ about'[q] = about[q]
    <2>1. asked' = asked
      BY <1>3, OtherFrame
    <2>2. CASE q # r
      BY <1>3, <2>1, <2>2, OtherFrame
    <2>3. CASE q = r
      <3>1. mpc[r] # "new"
        BY <2>1, <2>3 DEF Calls, CallsOf
      <3>2. about' = about
        BY <1>3, <3>1 DEF RequestStep, Begin, Start, AskedAll, Closed, Refuse, Expire, Receive, Merge,
                          AddInstances, Encode, request
      <3> QED
        BY <2>1, <3>2
    <2> QED
      BY <2>2, <2>3
  <1>4. CASE AdminStep \/ UNCHANGED vars
    BY <1>1, <1>4, AdminFrame DEF request, calls
  <1> QED
    BY <1>1, <1>2, <1>3, <1>4, Steps

-----------------------------------------------------------------------------
(* What is merged                                                          *)

\* Merging takes one item of the group; a group of more than one has its
\* instances added next.
LEMMA PrimaryMerged ==
    ASSUME Types, NEW r \in Requests, NEW i \in Items, Merge(r, Key[i])
    PROVE  \E p \in Range(items[r]) :
             /\ merged' = [merged EXCEPT ![r] = @ \cup {p}]
             /\ \/ /\ UNCHANGED <<bound, adding>>
                   /\ \A j \in Range(items[r]) : Key[j] = Key[p] => j = p
                \/ /\ bound' = bound \cup {Vid(p)}
                   /\ adding' = [adding EXCEPT ![r] = Vid(p)]
  <1> DEFINE k == Key[i]
             g == Group(items[r], k)
             primary == IF Cardinality(g) = 1 THEN items[r][Min(g)] ELSE SelectPrimary(items[r], g)
  <1>1. items[r] \in Seq(Items)
    BY DEF Types
  <1>2. g # {} /\ g \in SUBSET Nat /\ IsFiniteSet(g)
    <2>1. g # {}
      BY <1>1 DEF Merge, Group, Range
    <2> QED
      BY <1>1, <2>1, GroupPositions
  <1>3. primary \in {items[r][n] : n \in g}
    BY <1>1, <1>2, FirstPosition, PrimaryOfGroup
  <1>4. primary \in Range(items[r]) /\ Key[primary] = k
    BY <1>1, <1>3 DEF Group, Range
  <1>5. ASSUME Cardinality(g) = 1, NEW j \in Range(items[r]), Key[j] = Key[primary] PROVE j = primary
    <2>1. PICK n \in g : g = {n}
      BY <1>2, <1>5, FS_Singleton
    <2>2. j \in {items[r][m] : m \in g}
      BY <1>1, <1>4, <1>5 DEF Group, Range
    <2> HIDE DEF g, primary
    <2> QED
      BY <1>3, <2>1, <2>2
  <1>6. /\ merged' = [merged EXCEPT ![r] = @ \cup {primary}]
        /\ IF Cardinality(g) = 1 THEN UNCHANGED <<bound, adding>>
           ELSE /\ bound' = bound \cup {Vid(primary)}
                /\ adding' = [adding EXCEPT ![r] = Vid(primary)]
    BY DEF Merge
  <1> HIDE DEF g, primary
  <1> QED
    BY <1>4, <1>5, <1>6

\* A step of the request itself keeps Merging and Reached.
LEMMA MergeMakes ==
    ASSUME NEW r \in Requests, Types, Calls, MergingOf(r), ReachedOf(r), RequestStep(r)
    PROVE  MergingOf(r)' /\ ReachedOf(r)'
  <1> USE DEF store, admin, request, answer
  <1>0. /\ cleaned' = cleaned /\ bound \subseteq bound'
        /\ merged \in [Requests -> SUBSET Items] /\ adding \in [Requests -> VirtualIds \cup {None}]
    BY OtherFrame DEF Types
  <1>1. CASE merged[r] = {} /\ adding[r] = None /\ merged'[r] = {} /\ adding'[r] = None
    BY <1>1 DEF MergingOf, ReachedOf
  <1>2. CASE Begin(r) \/ AskedAll(r) \/ Refuse(r) \/ Receive(r) \/ Closed(r)
    <2>1. merged[r] = {} /\ adding[r] = None
      BY <1>2 DEF Begin, Start, AskedAll, Refuse, Receive, Closed, Calls, CallsOf
    <2>2. UNCHANGED <<merged, adding>>
      BY <1>2 DEF Begin, Start, AskedAll, Refuse, Receive, Closed
    <2> QED
      BY <1>1, <2>1, <2>2
  <1>3. CASE Expire(r)
    BY <1>3 DEF Expire, MergingOf, ReachedOf
  <1>4. ASSUME NEW i \in Items, Merge(r, Key[i]) PROVE MergingOf(r)' /\ ReachedOf(r)'
    <2>1. PICK p \in Range(items[r]) :
            /\ merged' = [merged EXCEPT ![r] = @ \cup {p}]
            /\ \/ /\ UNCHANGED <<bound, adding>>
                  /\ \A j \in Range(items[r]) : Key[j] = Key[p] => j = p
               \/ /\ bound' = bound \cup {Vid(p)}
                  /\ adding' = [adding EXCEPT ![r] = Vid(p)]
      BY <1>4, PrimaryMerged
    <2>2. /\ mpc[r] = "merging" /\ adding[r] = None
          /\ UNCHANGED <<items, inst, mpc, cleaned>>
      BY <1>4 DEF Merge
    <2>3. merged'[r] = merged[r] \cup {p}
      BY <1>0, <2>1
    <2>4. CASE bound' = bound /\ adding' = adding /\ \A j \in Range(items[r]) : Key[j] = Key[p] => j = p
      BY <2>2, <2>3, <2>4 DEF MergingOf, ReachedOf
    <2>5. CASE bound' = bound \cup {Vid(p)} /\ adding' = [adding EXCEPT ![r] = Vid(p)]
      <3>1. adding'[r] = Vid(p) /\ Vid(p)[1] = p /\ Vid(p) \in bound'
        BY <1>0, <2>5 DEF Vid
      <3>2. Vid(p) # None
        <4>1. p \in Items
          BY RangeItems DEF Types
        <4> QED
          BY <4>1, VidType, ConstantsAssumption DEF VirtualIds
      <3> HIDE DEF Vid
      <3>3. MergingOf(r)'
        BY <2>1, <2>2, <2>3, <3>1 DEF MergingOf
      <3>4. ReachedOf(r)'
        BY <2>2, <2>3, <3>1, <3>2 DEF ReachedOf
      <3> QED
        BY <3>3, <3>4
    <2> QED
      BY <2>1, <2>4, <2>5
  <1>5. CASE AddInstances(r)
    <2>1. UNCHANGED <<bound, items, merged, mpc>> /\ adding[r] # None /\ adding'[r] = None
      BY <1>0, <1>5 DEF AddInstances
    <2>2. ASSUME NEW p \in merged[r], SrvOf[p] \notin cleaned,
                 NEW i \in Range(items[r]), Key[i] = Key[p]
          PROVE  \E j \in {p} \cup inst'[p] : SrvOf[j] = SrvOf[i]
      <3>1. p \in Items
        BY <1>0
      <3>2. CASE p = adding[r][1]
        <4>1. adding[r] \in bound
          BY <2>1, <2>2, <3>2 DEF MergingOf
        <4> QED
          BY <1>5, <2>2, <3>2, <4>1, GroupAdded
      <3>3. CASE p # adding[r][1]
        <4>1. inst'[p] = inst[p]
          BY <1>5, <3>1, <3>3, GroupAdded
        <4> QED
          BY <2>2, <3>3, <4>1 DEF ReachedOf
      <3> QED
        BY <3>2, <3>3
    <2>3. MergingOf(r)'
      BY <2>1 DEF MergingOf
    <2>4. ReachedOf(r)'
      BY <1>0, <2>1, <2>2 DEF ReachedOf
    <2> QED
      BY <2>3, <2>4
  <1>6. CASE Encode(r)
    <2>1. adding[r] = None /\ UNCHANGED <<items, merged, adding, inst, cleaned>>
      BY <1>6 DEF Encode
    <2> QED
      BY <2>1 DEF MergingOf, ReachedOf
  <1> QED
    BY <1>2, <1>3, <1>4, <1>5, <1>6 DEF RequestStep

\* So does a step of another request, which may only add instances.
LEMMA MergeKeeps ==
    ASSUME NEW q \in Requests, NEW r \in Requests, q # r, RequestStep(r),
           Types, MergingOf(q), ReachedOf(q)
    PROVE  MergingOf(q)' /\ ReachedOf(q)'
  <1>1. /\ merged'[q] = merged[q] /\ items'[q] = items[q] /\ adding'[q] = adding[q] /\ mpc'[q] = mpc[q]
        /\ cleaned' = cleaned /\ bound \subseteq bound'
    BY OtherFrame DEF admin
  <1>2. MergingOf(q)'
    BY <1>1 DEF MergingOf
  <1>3. ASSUME NEW p \in merged[q], SrvOf[p] \notin cleaned, ~(adding[q] # None /\ adding[q][1] = p),
               NEW i \in Range(items[q]), Key[i] = Key[p]
        PROVE  \E j \in {p} \cup inst'[p] : SrvOf[j] = SrvOf[i]
    <2>1. p \in Items
      BY DEF Types
    <2>2. PICK j \in {p} \cup inst[p] : SrvOf[j] = SrvOf[i]
      BY <1>3 DEF ReachedOf
    <2>3. CASE j = p
      BY <2>2, <2>3
    <2>4. CASE j \in inst[p]
      <3>1. \E k \in inst'[p] : SrvOf[k] = SrvOf[j]
        BY <2>1, <2>4, InstancesStay
      <3> QED
        BY <2>2, <3>1
    <2> QED
      BY <2>3, <2>4
  <1>4. ReachedOf(q)'
    BY <1>1, <1>3 DEF ReachedOf
  <1> QED
    BY <1>2, <1>4

\* The admin's clean-up takes the instances, and the virtual ids, of items of
\* the server that is gone.
LEMMA MergeCleaned ==
    ASSUME NEW q \in Requests, Types, MergingOf(q), ReachedOf(q), AdminStep \/ UNCHANGED vars
    PROVE  MergingOf(q)' /\ ReachedOf(q)'
  <1>1. UNCHANGED <<merged, items, adding, mpc>>
    BY AdminFrame DEF answer
  <1>2. CASE UNCHANGED <<cleaned, bound, inst>>
    BY <1>1, <1>2 DEF MergingOf, ReachedOf
  <1>3. ASSUME NEW s \in Servers, Cleanup(s) PROVE MergingOf(q)' /\ ReachedOf(q)'
    <2>1. /\ cleaned' = cleaned \cup {s} /\ bound' = {v \in bound : SrvOf[v[1]] # s}
          /\ \A p \in Items : SrvOf[p] # s => inst'[p] = inst[p]
      BY <1>3 DEF Cleanup
    <2>2. merged[q] \subseteq Items
      BY DEF Types
    <2>3. MergingOf(q)'
      BY <1>1, <2>1 DEF MergingOf
    <2>4. ReachedOf(q)'
      BY <1>1, <2>1, <2>2 DEF ReachedOf
    <2> QED
      BY <2>3, <2>4
  <1> QED
    BY <1>2, <1>3 DEF AdminStep, RemoveUpstream, vars, store, admin

\* Every step keeps what is known of merged items.
LEMMA MergeStep ==
    Types /\ Calls /\ Merging /\ Reached /\ [Next]_vars => Merging' /\ Reached'
  <1> SUFFICES ASSUME Types, Calls, Merging, Reached, [Next]_vars, NEW q \in Requests
               PROVE  MergingOf(q)' /\ ReachedOf(q)'
    BY DEF Merging, Reached
  <1>0. MergingOf(q) /\ ReachedOf(q)
    BY DEF Merging, Reached
  <1>1. ASSUME NEW r \in Requests, NEW s \in Servers, CallStep(r, s) PROVE MergingOf(q)' /\ ReachedOf(q)'
    BY <1>0, <1>1, WorkerFrame DEF MergingOf, ReachedOf, admin, answer
  <1>2. ASSUME NEW r \in Requests, RequestStep(r) PROVE MergingOf(q)' /\ ReachedOf(q)'
    BY <1>0, <1>2, MergeMakes, MergeKeeps
  <1>3. CASE AdminStep \/ UNCHANGED vars
    BY <1>0, <1>3, MergeCleaned
  <1> QED
    BY <1>1, <1>2, <1>3, Steps

LEMMA AnsweredStep ==
    Types /\ Calls /\ Finished /\ Merging /\ Answered /\ [Next]_vars => Answered'
  <1> SUFFICES ASSUME Types, Calls, Finished, Merging, Answered, [Next]_vars, NEW q \in Requests
               PROVE  AnsweredOf(q)'
    BY DEF Answered
  <1>0. AnsweredOf(q)
    BY DEF Answered
  <1>1. ASSUME NEW r \in Requests, NEW s \in Servers, CallStep(r, s) PROVE AnsweredOf(q)'
    BY <1>0, <1>1, WorkerFrame DEF AnsweredOf, admin, answer, request
  <1>2. ASSUME NEW r \in Requests, RequestStep(r), q # r PROVE AnsweredOf(q)'
    <2>1. /\ mpc'[q] = mpc[q] /\ kind'[q] = kind[q] /\ items'[q] = items[q] /\ ids'[q] = ids[q]
          /\ merged'[q] = merged[q] /\ adding'[q] = adding[q] /\ cleaned' = cleaned
          /\ bound \subseteq bound'
      BY <1>2, OtherFrame DEF admin
    <2> QED
      BY <1>0, <2>1 DEF AnsweredOf
  <1>3. ASSUME RequestStep(q) PROVE AnsweredOf(q)'
    <2>1. mpc[q] # "answered"
      BY <1>3, AnsweredIsFinal
    <2>2. CASE Begin(q)
      <3>1. items[q] = <<>> /\ merged[q] = {} /\ ids[q] = {} /\ adding[q] = None
        BY <2>2 DEF Begin, Start, Calls, CallsOf
      <3>2. Range(<<>>) = {}
        BY DEF Range
      <3> QED
        BY <2>2, <3>1, <3>2 DEF Begin, Start, AnsweredOf, answer
    <2>3. CASE Closed(q)
      BY <2>3 DEF Closed, AnsweredOf, Types, request
    <2>4. CASE Encode(q)
      <3>1. /\ bound' = bound \cup VidsOf(merged[q]) /\ ids'[q] = VidsOf(merged[q])
            /\ adding[q] = None /\ {Key[i] : i \in Range(items[q])} = {Key[i] : i \in merged[q]}
            /\ UNCHANGED <<items, merged, adding, cleaned>>
        BY <2>4 DEF Encode, Types, admin
      <3>2. VidsOf(merged[q]) = {Vid(p) : p \in merged[q]} /\ \A p \in merged[q] : Vid(p)[1] = p
        BY DEF VidsOf, Vid
      <3> HIDE DEF VidsOf, Vid
      <3>3. /\ \A p \in merged[q] : \E v \in ids'[q] : v[1] = p
            /\ \A v \in ids'[q] : v[1] \in merged[q] /\ v \in bound'
        BY <3>1, <3>2
      <3> QED
        BY <3>1, <3>3 DEF AnsweredOf
    <2>5. CASE ~(Begin(q) \/ Closed(q) \/ Encode(q))
      <3>1. mpc'[q] # "answered"
        BY <1>3, <2>1, <2>5 DEF RequestStep, AskedAll, Refuse, Expire, Receive, Merge, AddInstances, Types
      <3> QED
        BY <3>1 DEF AnsweredOf
    <2> QED
      BY <2>2, <2>3, <2>4, <2>5
  <1>4. CASE AdminStep \/ UNCHANGED vars
    <2>1. UNCHANGED <<mpc, kind, items, merged, adding, ids>>
      BY <1>4, AdminFrame DEF answer, request
    <2>2. CASE UNCHANGED <<cleaned, bound>>
      BY <1>0, <2>1, <2>2 DEF AnsweredOf
    <2>3. ASSUME NEW s \in Servers, Cleanup(s) PROVE AnsweredOf(q)'
      <3>1. cleaned' = cleaned \cup {s} /\ bound' = {v \in bound : SrvOf[v[1]] # s}
        BY <2>3 DEF Cleanup
      <3> QED
        BY <1>0, <2>1, <3>1 DEF AnsweredOf
    <2> QED
      BY <1>4, <2>2, <2>3 DEF AdminStep, RemoveUpstream, vars, store, admin
  <1> QED
    BY <1>1, <1>2, <1>3, <1>4, Steps

-----------------------------------------------------------------------------
(* What was sent arrives                                                   *)

\* The goroutine of an upstream: what it sends is in the channel.
LEMMA ArrivesSent ==
    ASSUME NEW r \in Requests, NEW s \in Servers, Types, Calls, CallsRight, ArrivesOf(r), Send(r, s)
    PROVE  ArrivesOf(r)'
  <1>1. /\ UNCHANGED <<items, ids, kind, asked, cleaned>>
        /\ chan'[r] = Append(chan[r], Result(r, s))
        /\ chan[r] \in Seq([items : Seq(Items), ids : SUBSET VirtualIds])
        /\ Result(r, s) \in [items : Seq(Items), ids : SUBSET VirtualIds]
    BY ResultType DEF Send, Types, answer, request, admin
  <1>2. /\ ItemsOf(r)' = ItemsOf(r) \cup Range(Result(r, s).items)
        /\ IdsOf(r)' = IdsOf(r) \cup Result(r, s).ids
    <2> HIDE DEF Result
    <2>1. Range(chan'[r]) = Range(chan[r]) \cup {Result(r, s)}
      <3> DEFINE D == [items : Seq(Items), ids : SUBSET VirtualIds]
      <3>1. chan[r] \in Seq(D) /\ Result(r, s) \in D
        BY <1>1
      <3> HIDE DEF D
      <3>2. Range(Append(chan[r], Result(r, s))) = Range(chan[r]) \cup {Result(r, s)}
        BY <3>1, RangeAppend
      <3> QED
        BY <1>1, <3>2
    <2>2. Range(Result(r, s).items) \subseteq Items /\ Result(r, s).ids \subseteq VirtualIds
      BY <1>1, RangeItems
    <2> QED
      BY <1>1, <2>1, <2>2 DEF ItemsOf, IdsOf
  <1>3. \A t \in Servers : wpc'[r][t] = "sent" => t = s \/ wpc[r][t] = "sent"
    BY DEF Send, Types
  <1>4. asked[r][s] \in Items \cup {None} /\ (asked[r][s] = None \/ SrvOf[asked[r][s]] = s)
    BY DEF Types, CallsRight
  <1>5. ASSUME NEW i \in Range(Listing(s, asked[r][s]))
        PROVE  IF kind[r] = "search" THEN s \notin cleaned => <<i, FALSE>> \in Result(r, s).ids
                                     ELSE i \in Range(Result(r, s).items)
    <2>1. SrvOf[i] = s
      BY <1>4, ListingItems
    <2>2. CASE kind[r] = "search"
      <3>1. Vid(i) \in Result(r, s).ids
        BY <2>2 DEF Result, VidsOf
      <3>2. s \notin cleaned => (SrvOf[i] \in cleaned) = FALSE
        BY <2>1
      <3>3. s \notin cleaned => Vid(i) = <<i, FALSE>>
        BY <3>2, Zenon DEF Vid
      <3> QED
        BY <2>2, <3>1, <3>3
    <2>3. CASE kind[r] # "search"
      BY <2>3 DEF Result
    <2> QED
      BY <2>2, <2>3
  <1> HIDE DEF Result, ItemsOf, IdsOf, Listing
  <1>6. Listing(s, asked'[r][s]) = Listing(s, asked[r][s])
    BY <1>1
  <1> QED
    BY <1>1, <1>2, <1>3, <1>5 DEF ArrivesOf, Listing

\* The receiver moves a result from the channel to the answer, and encodes
\* lists only.
LEMMA ArrivesReceived ==
    ASSUME NEW r \in Requests, Types, Calls, Finished, ArrivesOf(r), RequestStep(r)
    PROVE  ArrivesOf(r)'
  <1>1. UNCHANGED <<wpc, asked, cleaned>>
    BY OtherFrame DEF admin
  <1>2. CASE Receive(r)
    <2>1. /\ chan[r] \in Seq([items : Seq(Items), ids : SUBSET VirtualIds]) /\ chan[r] # <<>>
          /\ items[r] \in Seq(Items) /\ Head(chan[r]).items \in Seq(Items)
      <3>1. chan[r] \in Seq([items : Seq(Items), ids : SUBSET VirtualIds]) /\ chan[r] # <<>>
        BY <1>2 DEF Receive, Types
      <3>2. Head(chan[r]) \in [items : Seq(Items), ids : SUBSET VirtualIds]
        BY <3>1, RangeHeadTail
      <3> QED
        BY <3>1, <3>2 DEF Types
    <2>2. /\ items'[r] = items[r] \o Head(chan[r]).items
          /\ ids'[r] = ids[r] \cup Head(chan[r]).ids
          /\ chan'[r] = Tail(chan[r]) /\ kind' = kind
      BY <1>2 DEF Receive, Types, request
    <2>3. Range(items'[r]) = Range(items[r]) \cup Range(Head(chan[r]).items)
      BY <2>1, <2>2, RangeConcat
    <2>4. Range(chan[r]) = Range(chan'[r]) \cup {Head(chan[r])}
      BY <2>1, <2>2, RangeHeadTail
    <2>5. ItemsOf(r)' = ItemsOf(r) /\ IdsOf(r)' = IdsOf(r)
      BY <2>2, <2>3, <2>4 DEF ItemsOf, IdsOf
    <2> QED
      BY <1>1, <2>2, <2>5 DEF ArrivesOf, Listing
  <1>3. CASE Begin(r)
    <2>1. \A s \in Servers : wpc'[r][s] = "none"
      BY <1>1, <1>3 DEF Begin, Start, Calls, CallsOf
    <2> QED
      BY <2>1 DEF ArrivesOf
  <1>4. CASE Encode(r)
    <2>1. kind[r] = "items" /\ UNCHANGED <<kind, items, chan>>
      BY <1>4 DEF Encode, Finished, FinishedOf, request
    <2>2. ItemsOf(r)' = ItemsOf(r)
      BY <2>1 DEF ItemsOf
    <2> QED
      BY <1>1, <2>1, <2>2 DEF ArrivesOf, Listing
  <1>5. CASE ~(Receive(r) \/ Begin(r) \/ Encode(r))
    <2>1. UNCHANGED <<kind, items, ids, chan>>
      BY <1>5 DEF RequestStep, AskedAll, Closed, Refuse, Expire, Merge, AddInstances, request, answer
    <2>2. ItemsOf(r)' = ItemsOf(r) /\ IdsOf(r)' = IdsOf(r)
      BY <2>1 DEF ItemsOf, IdsOf
    <2> QED
      BY <1>1, <2>1, <2>2 DEF ArrivesOf, Listing
  <1> QED
    BY <1>2, <1>3, <1>4, <1>5

\* Every step keeps Arrives.
LEMMA ArrivesStep ==
    Types /\ Calls /\ Finished /\ CallsRight /\ Arrives /\ [Next]_vars => Arrives'
  <1> SUFFICES ASSUME Types, Calls, Finished, CallsRight, Arrives, [Next]_vars, NEW q \in Requests
               PROVE  ArrivesOf(q)'
    BY DEF Arrives
  <1>0. ArrivesOf(q)
    BY DEF Arrives
  <1>1. ASSUME UNCHANGED <<items[q], ids[q], kind[q], chan[q]>>, cleaned \subseteq cleaned',
               \A t \in Servers : wpc'[q][t] = "sent" => wpc[q][t] = "sent" /\ asked'[q][t] = asked[q][t]
        PROVE  ArrivesOf(q)'
    <2>1. ItemsOf(q)' = ItemsOf(q) /\ IdsOf(q)' = IdsOf(q)
      BY <1>1 DEF ItemsOf, IdsOf
    <2> QED
      BY <1>0, <1>1, <2>1 DEF ArrivesOf, Listing
  <1>2. ASSUME NEW r \in Requests, NEW s \in Servers, CallStep(r, s) PROVE ArrivesOf(q)'
    <2>1. CASE q = r /\ Send(r, s)
      BY <1>0, <2>1, ArrivesSent
    <2>2. CASE q = r /\ ~Send(r, s)
      <3>1. wpc'[r][s] # "sent" /\ chan' = chan
        BY <1>2, <2>2 DEF CallStep, Ask, Worker, CallAnswered, CallFailed, Drop, Types
      <3> QED
        BY <1>1, <1>2, <2>2, <3>1, WorkerFrame DEF admin, request, answer
    <2>3. CASE q # r
      BY <1>1, <1>2, <2>3, WorkerFrame DEF admin, request, answer
    <2> QED
      BY <2>1, <2>2, <2>3
  <1>3. ASSUME NEW r \in Requests, RequestStep(r) PROVE ArrivesOf(q)'
    <2>1. CASE q = r
      BY <1>0, <1>3, <2>1, ArrivesReceived
    <2>2. CASE q # r
      BY <1>1, <1>3, <2>2, OtherFrame DEF admin
    <2> QED
      BY <2>1, <2>2
  <1>4. CASE AdminStep \/ UNCHANGED vars
    BY <1>1, <1>4, AdminFrame DEF request, answer, calls
  <1> QED
    BY <1>2, <1>3, <1>4, Steps

-----------------------------------------------------------------------------
(* What the client was shown can be opened                                 *)

\* Ask finds an item of every upstream of the group, as long as both the
\* upstream and that of the primary are there.
LEMMA AskFinds ==
    ASSUME Types, Reached, Answered, NEW q \in Requests, NEW v \in ids[q],
           mpc[q] = "answered", kind[q] = "items", SrvOf[v[1]] \in listed,
           NEW i \in Range(items[q]), Key[i] = Key[v[1]]
    PROVE  OriginalsFor(v, SrvOf[i]) # {}
  <1>1. v[1] \in merged[q] /\ v \in bound /\ adding[q] = None
    BY DEF Answered, AnsweredOf, Types
  <1>2. PICK j \in {v[1]} \cup inst[v[1]] : SrvOf[j] = SrvOf[i]
    BY <1>1 DEF Reached, ReachedOf, Types
  <1> QED
    BY <1>1, <1>2 DEF OriginalsFor

\* OpensEverywhere of a later request r about what q answered.
OpensOf(q, r) ==
    /\ q \in before[r] /\ kind[q] = "items"
    /\ about[r] \in ids[q] /\ SrvOf[about[r][1]] \in listed
    => \A i \in Range(items[q]) :
         LET s == SrvOf[i] IN
         Key[i] = Key[about[r][1]] /\ s \in snap[r] \cap listed => wpc[r][s] # "left_out"

\* Every step keeps OpensEverywhere.
LEMMA OpensStep ==
    Types /\ Calls /\ Finished /\ Merging /\ Reached /\ Answered /\ OpensEverywhere /\ [Next]_vars
        => OpensEverywhere'
  <1> SUFFICES ASSUME Types, Calls, Finished, Merging, Reached, Answered, OpensEverywhere, [Next]_vars,
                      NEW q \in Requests, NEW r \in Requests
               PROVE  OpensOf(q, r)'
    BY Zenon DEF OpensEverywhere, OpensOf
  <1>0. OpensOf(q, r)
    BY DEF OpensEverywhere, OpensOf
  <1>1. q \in before[r] => mpc[q] = "answered"
    BY DEF Finished, FinishedOf
  <1>2. ASSUME UNCHANGED <<kind[q], ids[q], items[q], before[r], about[r], snap[r]>>, listed' \subseteq listed,
               \A s \in Servers : wpc'[r][s] = "left_out" => wpc[r][s] = "left_out"
        PROVE  OpensOf(q, r)'
    <2>1. \A i \in Range(items[q]) : SrvOf[i] \in Servers
      BY RangeItems, ConstantsAssumption DEF Types
    <2> QED
      BY <1>0, <1>2, <2>1 DEF OpensOf
  <1>3. ASSUME NEW p \in Requests, NEW t \in Servers, CallStep(p, t) PROVE OpensOf(q, r)'
    <2>1. UNCHANGED <<kind, ids, items, before, about, snap, listed, mpc>>
      BY <1>3, WorkerFrame DEF admin, request, answer
    <2>2. CASE wpc'[r][t] # "left_out" \/ p # r
      BY <1>2, <1>3, <2>1, <2>2, WorkerFrame
    <2>3. CASE wpc'[r][t] = "left_out" /\ p = r
      <3>1. CASE Ask(r, t)
        <4>1. wpc[r][t] = "none" /\ about[r] # None /\ OriginalsFor(about[r], t) = {}
          BY <2>3, <3>1 DEF Ask, Types
        <4>2. ASSUME q \in before[r], kind[q] = "items", about[r] \in ids[q], SrvOf[about[r][1]] \in listed,
                     NEW i \in Range(items[q]), Key[i] = Key[about[r][1]]
              PROVE  SrvOf[i] # t
          BY <1>1, <4>1, <4>2, AskFinds
        <4>3. \A s \in Servers : s # t => wpc'[r][s] = wpc[r][s]
          BY <1>3, <2>3, WorkerFrame
        <4>4. \A i \in Range(items[q]) : SrvOf[i] \in Servers
          BY RangeItems, ConstantsAssumption DEF Types
        <4> QED
          BY <1>0, <2>1, <4>2, <4>3, <4>4 DEF OpensOf
      <3>2. CASE ~Ask(r, t)
        <4>1. FALSE
          BY <1>3, <2>3, <3>2 DEF CallStep, Worker, CallAnswered, CallFailed, Send, Drop, Types
        <4> QED
          BY <4>1
      <3> QED
        BY <3>1, <3>2
    <2> QED
      BY <2>2, <2>3
  <1>4. ASSUME NEW p \in Requests, RequestStep(p) PROVE OpensOf(q, r)'
    <2>1. wpc' = wpc /\ listed' = listed
      BY <1>4, OtherFrame DEF admin
    <2>2. CASE Begin(p) /\ p = r
      <3>1. \A s \in Servers : wpc'[r][s] # "left_out"
        BY <2>1, <2>2 DEF Begin, Start, Calls, CallsOf
      <3>2. q \in before'[r] => q # r /\ mpc[q] = "answered"
        BY <2>2 DEF Begin, Start, Types
      <3>3. \A i \in Range(items[q]) : SrvOf[i] \in Servers
        BY RangeItems, ConstantsAssumption DEF Types
      <3>4. q # r => items'[q] = items[q]
        BY <1>4, <2>2, OtherFrame
      <3> QED
        BY <3>1, <3>2, <3>3, <3>4 DEF OpensOf
    <2>3. CASE ~(Begin(p) /\ p = r)
      <3>1. before'[r] = before[r] /\ about'[r] = about[r] /\ snap'[r] = snap[r]
        <4>1. CASE p # r
          BY <1>4, <4>1, OtherFrame
        <4>2. CASE p = r
          BY <1>4, <2>3, <4>2 DEF RequestStep, AskedAll, Closed, Refuse, Expire, Receive, Merge,
                                  AddInstances, Encode, request
        <4> QED
          BY <4>1, <4>2
      <3>2. CASE q \in before[r]
        <4>1. p # q
          BY <1>1, <1>4, <3>2, AnsweredIsFinal
        <4>2. kind'[q] = kind[q] /\ ids'[q] = ids[q] /\ items'[q] = items[q]
          BY <1>4, <4>1, OtherFrame
        <4> QED
          BY <1>2, <2>1, <3>1, <4>2
      <3>3. CASE q \notin before[r]
        BY <3>1, <3>3 DEF OpensOf
      <3> QED
        BY <3>2, <3>3
    <2> QED
      BY <2>2, <2>3
  <1>5. CASE AdminStep \/ UNCHANGED vars
    BY <1>2, <1>5, AdminFrame DEF request, answer, calls
  <1> QED
    BY <1>3, <1>4, <1>5, Steps

-----------------------------------------------------------------------------
(* Ids and the directory                                                   *)

\* The ids of an item: the one it has before its server is cleaned up, and the
\* one after.
Early(i) == <<i, FALSE>>
Late(i) == <<i, TRUE>>

\* An item has one of them only at its time.
Timely ==
    \A i \in Items :
        /\ Early(i) \in bound => SrvOf[i] \notin cleaned
        /\ Late(i) \in bound => SrvOf[i] \in cleaned

\* GetOrCreate gives the one that is due.
LEMMA VidIs == \A i \in Items : Vid(i) = IF SrvOf[i] \in cleaned THEN Late(i) ELSE Early(i)
  <1> SUFFICES ASSUME NEW i \in Items
               PROVE  Vid(i) = IF SrvOf[i] \in cleaned THEN Late(i) ELSE Early(i)
    OBVIOUS
  <1>1. CASE SrvOf[i] \in cleaned
    <2>1. (SrvOf[i] \in cleaned) = TRUE
      BY <1>1
    <2> QED
      BY <1>1, <2>1, Zenon DEF Vid, Late
  <1>2. CASE SrvOf[i] \notin cleaned
    <2>1. (SrvOf[i] \in cleaned) = FALSE
      BY <1>2
    <2> QED
      BY <1>2, <2>1, Zenon DEF Vid, Early
  <1> QED
    BY <1>1, <1>2

\* There are no other ids, and no two items share one.
LEMMA TwoIds ==
    /\ \A v \in VirtualIds : \E i \in Items : v = Late(i) \/ v = Early(i)
    /\ \A i \in Items : Late(i) \in VirtualIds /\ Early(i) \in VirtualIds
    /\ \A i, j \in Items : Late(i) # Early(j)
    /\ \A i, j \in Items : (Late(i) = Late(j) => i = j) /\ (Early(i) = Early(j) => i = j)
    /\ \A i \in Items : Late(i)[1] = i /\ Early(i)[1] = i
    /\ None \notin VirtualIds
  <1>1. ASSUME NEW v \in VirtualIds PROVE \E i \in Items : v = Late(i) \/ v = Early(i)
    <2>1. PICK i \in Items, b \in BOOLEAN : v = <<i, b>>
      BY DEF VirtualIds
    <2>2. CASE b = TRUE
      BY <2>1, <2>2 DEF Late
    <2>3. CASE b = FALSE
      BY <2>1, <2>3 DEF Early
    <2> QED
      BY <2>2, <2>3
  <1>2. \A i \in Items : Late(i) \in VirtualIds /\ Early(i) \in VirtualIds
    BY DEF Late, Early, VirtualIds
  <1>3. \A i, j \in Items : Late(i) # Early(j)
    BY DEF Late, Early
  <1>4. /\ \A i, j \in Items : (Late(i) = Late(j) => i = j) /\ (Early(i) = Early(j) => i = j)
        /\ \A i \in Items : Late(i)[1] = i /\ Early(i)[1] = i
    BY DEF Late, Early
  <1>5. None \notin VirtualIds
    BY ConstantsAssumption DEF VirtualIds
  <1> QED
    BY <1>1, <1>2, <1>3, <1>4, <1>5

\* What a step does to the store: ids of some items are registered, or those of
\* a server not cleaned up before are forgotten.
LEMMA StoreChanges ==
    ASSUME Types, [Next]_vars
    PROVE  \/ \E S \in SUBSET Items : bound' = bound \cup VidsOf(S) /\ cleaned' = cleaned
           \/ \E s \in Servers : /\ s \notin cleaned /\ cleaned' = cleaned \cup {s}
                                 /\ bound' = {v \in bound : SrvOf[v[1]] # s}
  <1>1. ASSUME bound' = bound, cleaned' = cleaned
        PROVE  \E S \in SUBSET Items : bound' = bound \cup VidsOf(S) /\ cleaned' = cleaned
    BY <1>1, VidsOf({}) = {} DEF VidsOf
  <1>2. ASSUME NEW r \in Requests, NEW s \in Servers, CallStep(r, s)
        PROVE  \E S \in SUBSET Items : bound' = bound \cup VidsOf(S) /\ cleaned' = cleaned
    <2>1. cleaned' = cleaned
      BY <1>2, WorkerFrame DEF admin
    <2>2. CASE VirtualizeHints(r, s) /\ kind[r] = "search"
      <3>1. asked[r][s] \in Items \cup {None}
        BY DEF Types
      <3>2. Range(Listing(s, asked[r][s])) \in SUBSET Items
        BY <3>1, ListingItems, RangeItems
      <3>3. bound' = bound \cup VidsOf(Range(Listing(s, asked[r][s])))
        BY <2>2 DEF VirtualizeHints
      <3> QED
        BY <2>1, <3>2, <3>3
    <2>3. CASE bound' = bound
      BY <1>1, <2>1, <2>3
    <2> QED
      BY <1>2, <2>2, <2>3 DEF CallStep, Worker, Ask, CallAnswered, CallFailed, Send, Drop, VirtualizeHints, store
  <1>3. ASSUME NEW r \in Requests, RequestStep(r)
        PROVE  \E S \in SUBSET Items : bound' = bound \cup VidsOf(S) /\ cleaned' = cleaned
    <2>1. cleaned' = cleaned
      BY <1>3, OtherFrame DEF admin
    <2>2. CASE \E i \in Items : Merge(r, Key[i])
      <3>1. PICK p \in Range(items[r]) : bound' = bound \/ bound' = bound \cup {Vid(p)}
        BY <2>2, PrimaryMerged
      <3>2. p \in Items /\ {Vid(p)} = VidsOf({p})
        BY RangeItems DEF Types, VidsOf
      <3> QED
        BY <1>1, <2>1, <3>1, <3>2
    <2>3. CASE Encode(r)
      <3>1. bound' = bound \cup VidsOf(merged[r]) /\ merged[r] \in SUBSET Items
        BY <2>3 DEF Encode, Types
      <3> QED
        BY <2>1, <3>1
    <2>4. CASE AskedAll(r) \/ Closed(r) \/ Refuse(r) \/ Expire(r) \/ Receive(r) \/ AddInstances(r) \/ Begin(r)
      <3>1. bound' = bound
        BY <2>4 DEF AskedAll, Closed, Refuse, Expire, Receive, AddInstances, Begin, Start, store
      <3> QED
        BY <1>1, <2>1, <3>1
    <2> QED
      BY <1>3, <2>2, <2>3, <2>4 DEF RequestStep
  <1>4. ASSUME NEW s \in Servers, Cleanup(s)
        PROVE  /\ s \notin cleaned /\ cleaned' = cleaned \cup {s}
               /\ bound' = {v \in bound : SrvOf[v[1]] # s}
    BY <1>4 DEF Cleanup
  <1>5. ASSUME NEW s \in Servers, RemoveUpstream(s) PROVE bound' = bound /\ cleaned' = cleaned
    BY <1>5 DEF RemoveUpstream, store
  <1>6. ASSUME UNCHANGED vars PROVE bound' = bound /\ cleaned' = cleaned
    BY <1>6 DEF vars, store, admin
  <1> QED
    BY <1>1, <1>2, <1>3, <1>4, <1>5, <1>6, Steps DEF AdminStep

\* Which ids resolve after a step.
LEMMA Registered ==
    ASSUME NEW S \in SUBSET Items, bound' = bound \cup VidsOf(S), NEW i \in Items
    PROVE  /\ Late(i) \in bound' <=> Late(i) \in bound \/ (i \in S /\ SrvOf[i] \in cleaned)
           /\ Early(i) \in bound' <=> Early(i) \in bound \/ (i \in S /\ SrvOf[i] \notin cleaned)
  <1>1. \A v : v \in VidsOf(S) <=> \E j \in S : v = Vid(j)
    BY DEF VidsOf
  <1>2. Late(i) \in VidsOf(S) <=> i \in S /\ SrvOf[i] \in cleaned
    BY <1>1, TwoIds, VidIs
  <1>3. Early(i) \in VidsOf(S) <=> i \in S /\ SrvOf[i] \notin cleaned
    BY <1>1, TwoIds, VidIs
  <1> QED
    BY <1>2, <1>3

LEMMA Forgotten ==
    ASSUME NEW s \in Servers, bound' = {v \in bound : SrvOf[v[1]] # s}, NEW i \in Items
    PROVE  /\ Late(i) \in bound' <=> Late(i) \in bound /\ SrvOf[i] # s
           /\ Early(i) \in bound' <=> Early(i) \in bound /\ SrvOf[i] # s
  BY TwoIds

LEMMA TimelyStep == Types /\ Timely /\ [Next]_vars => Timely'
  <1> SUFFICES ASSUME Types, Timely, [Next]_vars PROVE Timely'
    OBVIOUS
  <1> DEFINE TimelyNext(i) == /\ Early(i) \in bound' => SrvOf[i] \notin cleaned'
                              /\ Late(i) \in bound' => SrvOf[i] \in cleaned'
  <1>0. (\A i \in Items : TimelyNext(i)) => Timely'
    BY Zenon DEF Timely, Early, Late
  <1>1. ASSUME NEW S \in SUBSET Items, bound' = bound \cup VidsOf(S), cleaned' = cleaned, NEW i \in Items
        PROVE  TimelyNext(i)
    BY <1>1, Registered DEF Timely
  <1>2. ASSUME NEW s \in Servers, cleaned' = cleaned \cup {s}, bound' = {v \in bound : SrvOf[v[1]] # s},
               NEW i \in Items
        PROVE  TimelyNext(i)
    BY <1>2, Forgotten DEF Timely
  <1> HIDE DEF TimelyNext
  <1> QED
    BY <1>0, <1>1, <1>2, StoreChanges

\* The id an item has, and the ids used up.
LEMMA IdIs ==
    ASSUME Timely, NEW i \in Items
    PROVE  IdOf(i) = IF Early(i) \in bound THEN Early(i)
                     ELSE IF Late(i) \in bound THEN Late(i) ELSE None
  <1>1. IdOf(i) = CASE Early(i) \in bound /\ Late(i) \notin bound -> Early(i)
                    [] Late(i) \in bound /\ Early(i) \notin bound -> Late(i)
                    [] OTHER -> None
    BY DEF IdOf, Early, Late
  <1>2. ~(Early(i) \in bound /\ Late(i) \in bound)
    BY DEF Timely
  <1> QED
    BY <1>1, <1>2

UsedUp == bound \cup {<<i, FALSE>> : i \in {j \in Items : SrvOf[j] \in cleaned}}

LEMMA UsedUpIs ==
    /\ \A i \in Items : Late(i) \in UsedUp <=> Late(i) \in bound
    /\ \A i \in Items : Early(i) \in UsedUp <=> Early(i) \in bound \/ SrvOf[i] \in cleaned
    /\ bound \subseteq VirtualIds => UsedUp \subseteq VirtualIds
  <1>1. UsedUp = bound \cup {Early(i) : i \in {j \in Items : SrvOf[j] \in cleaned}}
    BY DEF UsedUp, Early
  <1> QED
    BY <1>1, TwoIds

\* The ids at the start are a directory at its start.
LEMMA DirectoryInit == Init => Directory!Init
  <1> SUFFICES ASSUME Init PROVE Directory!Init
    OBVIOUS
  <1> DEFINE R == [i \in Items |-> IdOf(i)]
  <1>1. \A i \in Items : R[i] = None
    BY DEF Init, IdOf
  <1>2. R \in [Items -> VirtualIds \cup {None}]
    BY <1>1
  <1>3. {R[i] : i \in Items} \ {None} = {}
    BY <1>1
  <1>4. \A i, j \in Items : R[i] = R[j] /\ R[i] # None => i = j
    BY <1>1
  <1> HIDE DEF R
  <1>5. /\ R \in [Items -> VirtualIds \cup {None}]
        /\ {R[i] : i \in Items} \ {None} \subseteq UsedUp
        /\ \A i, j \in Items : R[i] = R[j] /\ R[i] # None => i = j
    BY <1>2, <1>3, <1>4
  <1> QED
    BY <1>5 DEF Directory!Init, R, UsedUp

\* What a step does to the ids is a step of the directory.
LEMMA DirectoryStep ==
    ASSUME Types, Timely, [Next]_vars
    PROVE  [Directory!Next]_Directory!vars
  <1> DEFINE R == [i \in Items |-> IdOf(i)]
             Q == R'
             D == UsedUp
             E == UsedUp'
  <1>1. /\ \A i \in Items : Late(i) \in D <=> Late(i) \in bound
        /\ \A i \in Items : Early(i) \in D <=> Early(i) \in bound \/ SrvOf[i] \in cleaned
        /\ D \subseteq VirtualIds
    BY UsedUpIs DEF Types
  <1>2. /\ \A i \in Items : Late(i) \in E <=> Late(i) \in bound'
        /\ \A i \in Items : Early(i) \in E <=> Early(i) \in bound' \/ SrvOf[i] \in cleaned'
    <2>1. E = bound' \cup {Early(i) : i \in {j \in Items : SrvOf[j] \in cleaned'}}
      BY DEF UsedUp, Early
    <2> QED
      BY <2>1, TwoIds
  <1>3. \A i \in Items : R[i] = IF Early(i) \in bound THEN Early(i)
                                ELSE IF Late(i) \in bound THEN Late(i) ELSE None
    BY IdIs
  <1>4. \A i \in Items : Q[i] = IF Early(i) \in bound' THEN Early(i)
                                ELSE IF Late(i) \in bound' THEN Late(i) ELSE None
    <2> SUFFICES ASSUME NEW i \in Items
                 PROVE  Q[i] = IF Early(i) \in bound' THEN Early(i)
                               ELSE IF Late(i) \in bound' THEN Late(i) ELSE None
      OBVIOUS
    <2>1. Q[i] = CASE Early(i) \in bound' /\ Late(i) \notin bound' -> Early(i)
                   [] Late(i) \in bound' /\ Early(i) \notin bound' -> Late(i)
                   [] OTHER -> None
      BY DEF IdOf, Early, Late
    <2>2. ~(Early(i) \in bound' /\ Late(i) \in bound')
      <3>1. Timely'
        BY TimelyStep
      <3> QED
        BY <3>1 DEF Timely, Early, Late
    <2> HIDE DEF Q
    <2> QED
      BY <2>1, <2>2
  <1>5. Q \in [Items -> VirtualIds \cup {None}]
    BY <1>4, TwoIds
  <1>6. ASSUME D \subseteq E,
               \/ /\ \A i \in Items : Q[i] # R[i] => R[i] = None /\ Q[i] \in E \ D
                  /\ \A i, j \in Items : Q[i] # R[i] /\ Q[j] # R[j] /\ Q[i] = Q[j] => i = j
               \/ \E s \in Servers : Q = [i \in Items |-> IF ServerOf(i) = s THEN None ELSE R[i]]
        PROVE  Directory!Next
    BY <1>5, <1>6 DEF Directory!Next, Directory!Bind, Directory!Changed, Directory!Forget, UsedUp
  <1>7. Q = [i \in Items |-> Q[i]]
    OBVIOUS
  <1> HIDE DEF R, Q, D, E
  <1>8. ASSUME NEW S \in SUBSET Items, bound' = bound \cup VidsOf(S), cleaned' = cleaned
        PROVE  Directory!Next
    <2>1. \A i \in Items :
            /\ Late(i) \in bound' <=> Late(i) \in bound \/ (i \in S /\ SrvOf[i] \in cleaned)
            /\ Early(i) \in bound' <=> Early(i) \in bound \/ (i \in S /\ SrvOf[i] \notin cleaned)
      BY <1>8, Registered
    <2>2. D \subseteq E
      <3> SUFFICES ASSUME NEW v \in D PROVE v \in E
        OBVIOUS
      <3>1. PICK i \in Items : v = Late(i) \/ v = Early(i)
        BY <1>1, TwoIds
      <3> QED
        BY <1>1, <1>2, <1>8, <2>1, <3>1
    <2>3. ASSUME NEW i \in Items, Q[i] # R[i]
          PROVE  R[i] = None /\ Q[i] \in {Late(i), Early(i)} /\ Q[i] \in E \ D
      BY <1>1, <1>2, <1>3, <1>4, <1>8, <2>1, <2>3, TwoIds DEF Timely
    <2>4. \A i, j \in Items : Q[i] # R[i] /\ Q[j] # R[j] /\ Q[i] = Q[j] => i = j
      BY <2>3, TwoIds
    <2> QED
      BY <1>6, <2>2, <2>3, <2>4
  <1>9. ASSUME NEW s \in Servers, s \notin cleaned, cleaned' = cleaned \cup {s},
               bound' = {v \in bound : SrvOf[v[1]] # s}
        PROVE  Directory!Next
    <2>1. \A i \in Items : /\ Late(i) \in bound' <=> Late(i) \in bound /\ SrvOf[i] # s
                           /\ Early(i) \in bound' <=> Early(i) \in bound /\ SrvOf[i] # s
      BY <1>9, Forgotten
    <2>3. D \subseteq E
      <3> SUFFICES ASSUME NEW v \in D PROVE v \in E
        OBVIOUS
      <3>1. PICK i \in Items : v = Late(i) \/ v = Early(i)
        BY <1>1, TwoIds
      <3> QED
        BY <1>1, <1>2, <1>9, <2>1, <3>1 DEF Timely
    <2>4. \A i \in Items : Q[i] = IF ServerOf(i) = s THEN None ELSE R[i]
      BY <1>3, <1>4, <2>1 DEF ServerOf
    <2>5. Q = [i \in Items |-> IF ServerOf(i) = s THEN None ELSE R[i]]
      BY <1>7, <2>4
    <2> QED
      BY <1>6, <2>3, <2>5
  <1> QED
    BY <1>8, <1>9, StoreChanges

-----------------------------------------------------------------------------
(* One entry for a title, and which one                                    *)

\* The metadata of p stands for its title in the list seq: a later item of the
\* title on a server with priority decides, else a Chinese name does.
Preferred(seq, p) ==
    \A n \in DOMAIN seq : Key[seq[n]] = Key[p] =>
        /\ /\ SrvOf[seq[n]] \in PriorityMeta \cap listed
           /\ \E m \in DOMAIN seq : m < n /\ Key[seq[m]] = Key[p]
           => SrvOf[p] \in PriorityMeta
        /\ seq[n] \in Chinese => p \in Chinese \/ SrvOf[p] \in PriorityMeta

\* Of a title one item is merged; the ids of a list are made at the end, one
\* for each title.
OnceOf(r) ==
    /\ \A p, q \in merged[r] : Key[p] = Key[q] => p = q
    /\ kind[r] = "items" => \A n \in DOMAIN chan[r] : chan[r][n].ids = {}
    /\ kind[r] = "items" /\ mpc[r] # "answered" => ids[r] = {}
    /\ kind[r] = "items" => \A v, w \in ids[r] : Key[v[1]] = Key[w[1]] => v = w

PreferredOf(r) == \A p \in merged[r] : Preferred(items[r], p)

Once == \A r \in Requests : OnceOf(r) /\ PreferredOf(r)

\* selectPrimary prefers the servers with priority after the first item, and
\* then the Chinese names.
LEMMA PrimaryPreferred ==
    ASSUME NEW seq \in Seq(Items), NEW g \in SUBSET Nat, g # {}
    PROVE  /\ (\E n \in g \ {Min(g)} : SrvOf[seq[n]] \in PriorityMeta \cap listed)
                => SrvOf[SelectPrimary(seq, g)] \in PriorityMeta
           /\ (\E n \in g : seq[n] \in Chinese)
                => \/ SelectPrimary(seq, g) \in Chinese
                   \/ SrvOf[SelectPrimary(seq, g)] \in PriorityMeta
  <1> DEFINE preferred == {n \in g \ {Min(g)} : SrvOf[seq[n]] \in listed \cap PriorityMeta}
             chinese == {n \in g : seq[n] \in Chinese}
  <1>1. /\ preferred # {} => Min(preferred) \in preferred
        /\ chinese # {} => Min(chinese) \in chinese
    BY FirstPosition
  <1>2. SelectPrimary(seq, g) = CASE preferred # {} -> seq[Min(preferred)]
                                  [] preferred = {} /\ chinese # {} -> seq[Min(chinese)]
                                  [] OTHER -> seq[Min(g)]
    BY DEF SelectPrimary
  <1>3. /\ \A n \in preferred : SrvOf[seq[n]] \in PriorityMeta
        /\ \A n \in chinese : seq[n] \in Chinese
        /\ (\E n \in g \ {Min(g)} : SrvOf[seq[n]] \in PriorityMeta \cap listed) => preferred # {}
        /\ (\E n \in g : seq[n] \in Chinese) => chinese # {}
    OBVIOUS
  <1> HIDE DEF preferred, chinese
  <1> QED
    BY <1>1, <1>2, <1>3

\* Merging takes an item of the title, and the preferred one.
LEMMA MergePrefers ==
    ASSUME Types, NEW r \in Requests, NEW i \in Items, Merge(r, Key[i])
    PROVE  \E p \in Range(items[r]) :
             /\ merged' = [merged EXCEPT ![r] = @ \cup {p}]
             /\ Key[p] = Key[i]
             /\ Preferred(items[r], p)
  <1> DEFINE seq == items[r]
             g == Group(seq, Key[i])
             primary == IF Cardinality(g) = 1 THEN seq[Min(g)] ELSE SelectPrimary(seq, g)
  <1>1. seq \in Seq(Items)
    BY DEF Types
  <1>2. g # {} /\ g \in SUBSET Nat /\ IsFiniteSet(g)
    <2>1. g # {}
      BY <1>1 DEF Merge, Group, Range
    <2> QED
      BY <1>1, <2>1, GroupPositions
  <1>3. primary \in {seq[n] : n \in g} /\ Min(g) \in g
    BY <1>1, <1>2, FirstPosition, PrimaryOfGroup
  <1>4. primary \in Range(seq) /\ Key[primary] = Key[i]
    BY <1>1, <1>3 DEF Group, Range
  <1>5. merged' = [merged EXCEPT ![r] = @ \cup {primary}]
    BY DEF Merge
  <1>6. CASE Cardinality(g) = 1
    <2>1. PICK n \in g : g = {n}
      BY <1>2, <1>6, FS_Singleton
    <2>2. \A m \in DOMAIN seq : Key[seq[m]] = Key[i] => m = n
      BY <2>1 DEF Group
    <2>3. primary = seq[n] /\ ~(n < n)
      BY <1>2, <1>3, <2>1
    <2> HIDE DEF seq, g, primary
    <2>4. ASSUME NEW m \in DOMAIN seq, Key[seq[m]] = Key[primary]
          PROVE  m = n /\ ~\E l \in DOMAIN seq : l < m /\ Key[seq[l]] = Key[primary]
      BY <1>4, <2>2, <2>3, <2>4
    <2>5. Preferred(seq, primary)
      BY <2>3, <2>4 DEF Preferred
    <2> QED
      BY <1>4, <1>5, <2>5 DEF seq
  <1>7. CASE Cardinality(g) # 1
    <2>1. primary = SelectPrimary(seq, g)
      BY <1>7
    <2>2. \A n \in DOMAIN seq : Key[seq[n]] = Key[i] => n \in g
      BY DEF Group
    <2>3. ASSUME NEW n \in g, NEW m \in g, m < n PROVE n # Min(g)
      <3>1. \A y \in g : Min(g) <= y
        BY <1>2, SmallestOf DEF Min
      <3> QED
        BY <1>2, <2>3, <3>1
    <2>4. /\ (\E n \in g \ {Min(g)} : SrvOf[seq[n]] \in PriorityMeta \cap listed)
               => SrvOf[primary] \in PriorityMeta
          /\ (\E n \in g : seq[n] \in Chinese)
               => primary \in Chinese \/ SrvOf[primary] \in PriorityMeta
      <3> HIDE DEF seq, g, primary
      <3>1. /\ (\E n \in g \ {Min(g)} : SrvOf[seq[n]] \in PriorityMeta \cap listed)
                 => SrvOf[SelectPrimary(seq, g)] \in PriorityMeta
            /\ (\E n \in g : seq[n] \in Chinese)
                 => \/ SelectPrimary(seq, g) \in Chinese
                    \/ SrvOf[SelectPrimary(seq, g)] \in PriorityMeta
        BY <1>1, <1>2, PrimaryPreferred
      <3> QED
        BY <2>1, <3>1
    <2> HIDE DEF g, primary
    <2>5. ASSUME NEW n \in DOMAIN seq, Key[seq[n]] = Key[primary]
          PROVE  /\ /\ SrvOf[seq[n]] \in PriorityMeta \cap listed
                    /\ \E m \in DOMAIN seq : m < n /\ Key[seq[m]] = Key[primary]
                    => SrvOf[primary] \in PriorityMeta
                 /\ seq[n] \in Chinese => primary \in Chinese \/ SrvOf[primary] \in PriorityMeta
      <3>1. n \in g
        BY <1>4, <2>2, <2>5
      <3>2. (\E m \in DOMAIN seq : m < n /\ Key[seq[m]] = Key[primary]) => n # Min(g)
        BY <1>4, <2>2, <2>3, <3>1
      <3> HIDE DEF seq
      <3> QED
        BY <2>4, <3>1, <3>2
    <2> QED
      BY <1>4, <1>5, <2>5 DEF Preferred
  <1> QED
    BY <1>6, <1>7

\* What a list was given when it was encoded has one id for each title.
LEMMA OneIdPerTitle ==
    ASSUME NEW S \in SUBSET Items, \A p, q \in S : Key[p] = Key[q] => p = q
    PROVE  \A v, w \in VidsOf(S) : Key[v[1]] = Key[w[1]] => v = w
  <1> SUFFICES ASSUME NEW v \in VidsOf(S), NEW w \in VidsOf(S), Key[v[1]] = Key[w[1]]
               PROVE  v = w
    OBVIOUS
  <1>1. PICK p \in S : v = Vid(p)
    BY DEF VidsOf
  <1>2. PICK q \in S : w = Vid(q)
    BY DEF VidsOf
  <1>3. v[1] = p /\ w[1] = q
    BY <1>1, <1>2 DEF Vid
  <1> QED
    BY <1>1, <1>2, <1>3

\* A step of the request itself keeps Once.
LEMMA OnceMakes ==
    ASSUME NEW r \in Requests, Types, CallsOf(r), FinishedOf(r), OnceOf(r), PreferredOf(r), RequestStep(r)
    PROVE  OnceOf(r)' /\ PreferredOf(r)'
  <1> USE DEF store, admin, request, answer
  <1>0. /\ kind \in [Requests -> {"items", "search"}]
        /\ mpc[r] \in {"new", "asking", "waiting"} => merged[r] = {}
        /\ mpc \in [Requests -> {"new", "asking", "waiting", "merging", "answered", "refused"}]
        /\ chan[r] \in Seq([items : Seq(Items), ids : SUBSET VirtualIds])
        /\ ids \in [Requests -> SUBSET VirtualIds] /\ merged \in [Requests -> SUBSET Items]
        /\ DOMAIN chan = Requests /\ DOMAIN items = Requests
    BY DEF CallsOf, Types
  <1>1. CASE Begin(r)
    <2>1. ids[r] = {} /\ chan[r] = <<>> /\ mpc[r] = "new"
      BY <1>1 DEF Begin, Start, CallsOf
    <2> QED
      BY <1>0, <1>1, <2>1 DEF Begin, Start, OnceOf, PreferredOf, Preferred
  <1>2. CASE AskedAll(r) \/ Refuse(r) \/ Expire(r) \/ AddInstances(r)
    <2>1. mpc[r] = "answered" => mpc'[r] = "answered"
      BY <1>0, <1>2 DEF AskedAll, Refuse, Expire, AddInstances
    <2>2. UNCHANGED <<kind, items, ids, merged, chan, listed>>
      BY <1>2 DEF AskedAll, Refuse, Expire, AddInstances
    <2> QED
      BY <2>1, <2>2 DEF OnceOf, PreferredOf, Preferred
  <1>3. CASE Closed(r)
    <2>1. mpc[r] # "answered" /\ UNCHANGED <<kind, items, ids, merged, chan, listed>>
      BY <1>3 DEF Closed
    <2> QED
      BY <2>1 DEF OnceOf, PreferredOf, Preferred
  <1>4. CASE Receive(r)
    <2>1. merged[r] = {} /\ mpc[r] # "answered" /\ UNCHANGED <<mpc, kind, merged>>
      BY <1>0, <1>4 DEF Receive
    <2>2. chan'[r] = Tail(chan[r]) /\ ids'[r] = ids[r] \cup Head(chan[r]).ids /\ chan[r] # <<>>
      BY <1>0, <1>4 DEF Receive
    <2>3. /\ Head(chan[r]) = chan[r][1] /\ 1 \in DOMAIN chan[r]
          /\ \A n \in DOMAIN Tail(chan[r]) : n + 1 \in DOMAIN chan[r] /\ Tail(chan[r])[n] = chan[r][n + 1]
      BY <1>0, <2>2
    <2>4. kind[r] = "items" => /\ \A n \in DOMAIN chan'[r] : chan'[r][n].ids = {}
                               /\ ids'[r] = {}
      BY <2>1, <2>2, <2>3 DEF OnceOf
    <2> QED
      BY <2>1, <2>4 DEF OnceOf, PreferredOf
  <1>5. ASSUME NEW i \in Items, Merge(r, Key[i]) PROVE OnceOf(r)' /\ PreferredOf(r)'
    <2>1. PICK p \in Range(items[r]) : /\ merged' = [merged EXCEPT ![r] = @ \cup {p}]
                                       /\ Key[p] = Key[i] /\ Preferred(items[r], p)
      BY <1>5, MergePrefers
    <2>2. /\ merged'[r] = merged[r] \cup {p} /\ \A q \in merged[r] : Key[q] # Key[p]
          /\ UNCHANGED <<mpc, kind, ids, items, chan, listed>>
      BY <1>0, <1>5, <2>1 DEF Merge
    <2>3. OnceOf(r)'
      BY <2>2 DEF OnceOf
    <2>4. PreferredOf(r)'
      BY <2>1, <2>2 DEF PreferredOf, Preferred
    <2> QED
      BY <2>3, <2>4
  <1>6. CASE Encode(r)
    <2>1. /\ UNCHANGED <<kind, items, merged, chan, listed>>
          /\ ids'[r] = VidsOf(merged[r]) /\ mpc'[r] = "answered"
      BY <1>0, <1>6 DEF Encode
    <2>2. \A v, w \in VidsOf(merged[r]) : Key[v[1]] = Key[w[1]] => v = w
      BY <1>0, OneIdPerTitle DEF OnceOf
    <2>3. OnceOf(r)'
      BY <2>1, <2>2 DEF OnceOf
    <2>4. PreferredOf(r)'
      BY <2>1 DEF PreferredOf, Preferred
    <2> QED
      BY <2>3, <2>4
  <1> QED
    BY <1>1, <1>2, <1>3, <1>4, <1>5, <1>6 DEF RequestStep

\* A goroutine's result for a list carries no ids.
LEMMA OnceSent ==
    ASSUME NEW r \in Requests, NEW s \in Servers, Types, OnceOf(r), CallStep(r, s)
    PROVE  OnceOf(r)'
  <1>1. UNCHANGED <<kind, mpc, ids, merged>>
    BY WorkerFrame DEF request, answer
  <1>2. CASE chan'[r] = chan[r]
    BY <1>1, <1>2 DEF OnceOf
  <1>3. CASE chan'[r] = Append(chan[r], Result(r, s))
    <2>1. chan[r] \in Seq([items : Seq(Items), ids : SUBSET VirtualIds])
      BY DEF Types
    <2>2. kind[r] = "items" => Result(r, s).ids = {}
      BY DEF Result
    <2>3. \A n \in DOMAIN chan'[r] : \/ n \in DOMAIN chan[r] /\ chan'[r][n] = chan[r][n]
                                     \/ chan'[r][n] = Result(r, s)
      BY <1>3, <2>1
    <2> QED
      BY <1>1, <2>2, <2>3 DEF OnceOf
  <1>4. chan'[r] = chan[r] \/ chan'[r] = Append(chan[r], Result(r, s))
    BY DEF CallStep, Worker, Ask, CallAnswered, CallFailed, Send, Drop, Types
  <1> QED
    BY <1>2, <1>3, <1>4

\* Every step keeps Once; an upstream that is removed loses its priority.
LEMMA OnceStep == Types /\ Calls /\ Finished /\ Once /\ [Next]_vars => Once'
  <1> SUFFICES ASSUME Types, Calls, Finished, Once, [Next]_vars, NEW q \in Requests
               PROVE  OnceOf(q)' /\ PreferredOf(q)'
    BY DEF Once
  <1>0. CallsOf(q) /\ FinishedOf(q) /\ OnceOf(q) /\ PreferredOf(q)
    BY DEF Calls, Finished, Once
  <1>1. ASSUME NEW r \in Requests, NEW s \in Servers, CallStep(r, s)
        PROVE  OnceOf(q)' /\ PreferredOf(q)'
    <2>1. UNCHANGED <<kind, mpc, ids, merged, items, listed>>
      BY <1>1, WorkerFrame DEF request, answer, admin
    <2>2. PreferredOf(q)'
      BY <1>0, <2>1 DEF PreferredOf, Preferred
    <2>3. CASE q = r
      BY <1>0, <1>1, <2>2, <2>3, OnceSent
    <2>4. CASE q # r
      <3>1. chan'[q] = chan[q]
        BY <1>1, <2>4, WorkerFrame
      <3> QED
        BY <1>0, <2>1, <2>2, <3>1 DEF OnceOf
    <2> QED
      BY <2>3, <2>4
  <1>2. ASSUME NEW r \in Requests, RequestStep(r)
        PROVE  OnceOf(q)' /\ PreferredOf(q)'
    <2>1. CASE q = r
      BY <1>0, <1>2, <2>1, OnceMakes
    <2>2. CASE q # r
      <3>1. /\ kind'[q] = kind[q] /\ mpc'[q] = mpc[q] /\ items'[q] = items[q] /\ ids'[q] = ids[q]
            /\ merged'[q] = merged[q] /\ chan'[q] = chan[q] /\ listed' = listed
        BY <1>2, <2>2, OtherFrame DEF admin
      <3> QED
        BY <1>0, <3>1 DEF OnceOf, PreferredOf, Preferred
    <2> QED
      BY <2>1, <2>2
  <1>3. CASE AdminStep \/ UNCHANGED vars
    <2>1. UNCHANGED <<kind, mpc, ids, merged, items, chan>> /\ listed' \subseteq listed
      BY <1>3, AdminFrame DEF request, answer
    <2> QED
      BY <1>0, <2>1 DEF OnceOf, PreferredOf, Preferred
  <1> QED
    BY <1>1, <1>2, <1>3, Steps

LEMMA OnceInit == Init => Once
  BY DEF Init, Once, OnceOf, PreferredOf

-----------------------------------------------------------------------------
(* How a request comes to its end                                          *)

\* How far a request has come.
Stage == [new |-> 0, asking |-> 1, waiting |-> 2, merging |-> 3, answered |-> 4, refused |-> 4]

\* What the goroutine of an upstream has still to do.
ToDo(w) ==
    CASE w = "none" -> {"ask", "call", "send"}
      [] w = "calling" -> {"call", "send"}
      [] w = "answered" -> {"send"}
      [] OTHER -> {}

CallsLeft(r) == {c \in Servers \X {"ask", "call", "send"} : c[2] \in ToDo(wpc[r][c[1]])}
TitlesLeft(r) == {Key[i] : i \in Range(items[r])} \ {Key[i] : i \in merged[r]}

Shrinks(now, then) == now \subseteq then /\ now # then

\* A step that brings a request nearer to its end: to its next stage, or there
\* to fewer steps of its goroutines, fewer results in the channel, fewer titles
\* to merge, no instances to add, the first of these that changes.
LessToDo(r) ==
    \/ Stage[mpc'[r]] > Stage[mpc[r]]
    \/ /\ mpc'[r] = mpc[r]
       /\ \/ Shrinks(CallsLeft(r)', CallsLeft(r))
          \/ /\ CallsLeft(r)' = CallsLeft(r)
             /\ \/ Len(chan'[r]) < Len(chan[r])
                \/ /\ chan'[r] = chan[r]
                   /\ \/ Shrinks(TitlesLeft(r)', TitlesLeft(r))
                      \/ TitlesLeft(r)' = TitlesLeft(r) /\ adding[r] # None /\ adding'[r] = None

AsMuchToDo(r) ==
    /\ mpc'[r] = mpc[r] /\ CallsLeft(r)' = CallsLeft(r) /\ chan'[r] = chan[r]
    /\ TitlesLeft(r)' = TitlesLeft(r) /\ adding'[r] = adding[r]

\* The goroutine of the request, or of one of its calls, takes a step.
WorksOn(r) == Handle(r) \/ \E s \in Servers : Worker(r, s)

\* Every step of a goroutine of a request brings it nearer to its end, and
\* nobody else's takes it further away.
RunsDown(r) == LessToDo(r) \/ (AsMuchToDo(r) /\ ~WorksOn(r))

\* A goroutine of an upstream goes from step to step and never back.
LEMMA CallRunsDown ==
    ASSUME Types, NEW r \in Requests, NEW s \in Servers, CallStep(r, s)
    PROVE  LessToDo(r)
  <1>1. mpc'[r] = mpc[r] /\ \A t \in Servers : t # s => wpc'[r][t] = wpc[r][t]
    BY WorkerFrame DEF answer
  <1>2. \/ wpc[r][s] = "none" /\ wpc'[r][s] \in {"calling", "left_out"}
        \/ wpc[r][s] = "calling" /\ wpc'[r][s] \in {"answered", "failed"}
        \/ wpc[r][s] = "answered" /\ wpc'[r][s] \in {"sent", "dropped"}
    BY DEF CallStep, Worker, Ask, CallAnswered, CallFailed, Send, Drop, Types
  <1>3. PICK x \in {"ask", "call", "send"} :
              x \in ToDo(wpc[r][s]) /\ x \notin ToDo(wpc'[r][s])
                /\ ToDo(wpc'[r][s]) \subseteq ToDo(wpc[r][s])
    <2>1. CASE wpc[r][s] = "none" /\ wpc'[r][s] \in {"calling", "left_out"}
      BY <2>1 DEF ToDo
    <2>2. CASE wpc[r][s] = "calling" /\ wpc'[r][s] \in {"answered", "failed"}
      BY <2>2 DEF ToDo
    <2>3. CASE wpc[r][s] = "answered" /\ wpc'[r][s] \in {"sent", "dropped"}
      BY <2>3 DEF ToDo
    <2> QED
      BY <1>2, <2>1, <2>2, <2>3
  <1>4. CallsLeft(r)' \subseteq CallsLeft(r)
    BY <1>1, <1>3 DEF CallsLeft
  <1>5. <<s, x>> \in CallsLeft(r) /\ <<s, x>> \notin CallsLeft(r)'
    BY <1>3 DEF CallsLeft
  <1> QED
    BY <1>1, <1>4, <1>5 DEF LessToDo, Shrinks

\* A step of the request's own goroutine brings it on; one that begins a
\* request does, too, and a deadline changes nothing of it.
LEMMA RequestRunsDown ==
    ASSUME Types, Calls, Merging, NEW r \in Requests, RequestStep(r)
    PROVE  LessToDo(r) \/ (Expire(r) /\ AsMuchToDo(r))
  <1> USE DEF store, admin, request, answer, calls
  <1>0. /\ mpc \in [Requests -> {"new", "asking", "waiting", "merging", "answered", "refused"}]
        /\ chan \in [Requests -> Seq([items : Seq(Items), ids : SUBSET VirtualIds])]
        /\ merged \in [Requests -> SUBSET Items] /\ DOMAIN adding = Requests
    BY DEF Types
  <1>1. CallsLeft(r)' = CallsLeft(r)
    BY OtherFrame DEF CallsLeft
  <1>2. CASE Begin(r)
    BY <1>0, <1>2 DEF Begin, Start, LessToDo, Stage
  <1>3. CASE AskedAll(r) \/ Closed(r) \/ Refuse(r)
    BY <1>0, <1>3 DEF AskedAll, Closed, Refuse, LessToDo, Stage
  <1>4. CASE Encode(r)
    BY <1>0, <1>4 DEF Encode, LessToDo, Stage
  <1>5. CASE Receive(r)
    <2>1. mpc' = mpc /\ chan[r] # <<>> /\ chan'[r] = Tail(chan[r])
      BY <1>0, <1>5 DEF Receive
    <2>2. Len(chan'[r]) < Len(chan[r])
      BY <1>0, <2>1
    <2> QED
      BY <1>1, <2>1, <2>2 DEF LessToDo
  <1>6. ASSUME NEW i \in Items, Merge(r, Key[i]) PROVE LessToDo(r)
    <2>1. PICK p \in Range(items[r]) : /\ merged' = [merged EXCEPT ![r] = @ \cup {p}]
                                       /\ Key[p] = Key[i] /\ Preferred(items[r], p)
      BY <1>6, MergePrefers
    <2>2. UNCHANGED <<mpc, chan, items>> /\ Key[i] \in TitlesLeft(r)
      BY <1>6 DEF Merge, TitlesLeft
    <2>3. merged'[r] = merged[r] \cup {p}
      BY <1>0, <2>1
    <2>4. TitlesLeft(r)' \subseteq TitlesLeft(r) /\ Key[i] \notin TitlesLeft(r)'
      BY <2>1, <2>2, <2>3 DEF TitlesLeft
    <2> QED
      BY <1>1, <2>2, <2>4 DEF LessToDo, Shrinks
  <1>7. CASE AddInstances(r)
    <2>1. UNCHANGED <<mpc, chan, items, merged>> /\ adding[r] # None /\ adding'[r] = None
      BY <1>0, <1>7 DEF AddInstances
    <2>2. TitlesLeft(r)' = TitlesLeft(r)
      BY <2>1 DEF TitlesLeft
    <2> QED
      BY <1>1, <2>1, <2>2 DEF LessToDo
  <1>8. CASE Expire(r)
    BY <1>1, <1>8 DEF Expire, AsMuchToDo, TitlesLeft
  <1> QED
    BY <1>2, <1>3, <1>4, <1>5, <1>6, <1>7, <1>8 DEF RequestStep

\* Nothing else concerns a request.
LEMMA OthersLeaveIt ==
    ASSUME Types, Calls, Merging, [Next]_vars, NEW q \in Requests
    PROVE  LessToDo(q) \/ AsMuchToDo(q)
  <1>1. ASSUME NEW r \in Requests, NEW s \in Servers, CallStep(r, s)
        PROVE  LessToDo(q) \/ AsMuchToDo(q)
    <2>1. CASE q = r
      BY <1>1, <2>1, CallRunsDown
    <2>2. CASE q # r
      <3>1. UNCHANGED <<mpc, items, merged, adding>> /\ wpc'[q] = wpc[q] /\ chan'[q] = chan[q]
        BY <1>1, <2>2, WorkerFrame DEF answer
      <3> QED
        BY <3>1 DEF AsMuchToDo, CallsLeft, TitlesLeft
    <2> QED
      BY <2>1, <2>2
  <1>2. ASSUME NEW r \in Requests, RequestStep(r)
        PROVE  LessToDo(q) \/ AsMuchToDo(q)
    <2>1. CASE q = r
      BY <1>2, <2>1, RequestRunsDown
    <2>2. CASE q # r
      <3>1. /\ mpc'[q] = mpc[q] /\ items'[q] = items[q] /\ merged'[q] = merged[q]
            /\ adding'[q] = adding[q] /\ chan'[q] = chan[q] /\ wpc' = wpc
        BY <1>2, <2>2, OtherFrame
      <3> QED
        BY <3>1 DEF AsMuchToDo, CallsLeft, TitlesLeft
    <2> QED
      BY <2>1, <2>2
  <1>3. CASE AdminStep \/ UNCHANGED vars
    BY <1>3, AdminFrame DEF answer, calls, AsMuchToDo, CallsLeft, TitlesLeft
  <1> QED
    BY <1>1, <1>2, <1>3, Steps

\* A step that works on a request is never one that leaves it as it is.
LEMMA WorkBringsOn ==
    ASSUME Types, Calls, Merging, NEW r \in Requests, WorksOn(r)
    PROVE  LessToDo(r)
  <1>1. CASE \E s \in Servers : CallStep(r, s)
    BY <1>1, CallRunsDown
  <1>2. CASE Handle(r) /\ ~\E s \in Servers : Ask(r, s)
    <2>1. RequestStep(r)
      BY <1>2 DEF Handle, RequestStep
    <2>2. ~Expire(r)
      <3>1. DOMAIN expired = Requests
        BY DEF Types
      <3>2. expired'[r] = expired[r]
        BY <1>2 DEF Handle, AskedAll, Receive, Closed, Refuse, Merge, AddInstances, Encode
      <3> QED
        BY <3>1, <3>2 DEF Expire
    <2> QED
      BY <2>1, <2>2, RequestRunsDown
  <1> QED
    BY <1>1, <1>2 DEF WorksOn, Handle, CallStep

\* What the goroutine of a request waits for has happened: its next step can be
\* taken at once.
MayHandle(r) ==
    \/ mpc[r] = "asking"
    \/ /\ mpc[r] = "waiting"
       /\ chan[r] # <<>> \/ expired[r] \/ \A s \in Servers : wpc[r][s] \in Ended
    \/ adding[r] # None
    \/ mpc[r] = "merging" /\ adding[r] = None /\ TitlesLeft(r) # {}
    \/ /\ mpc[r] = "merging" /\ adding[r] = None
       /\ {Key[i] : i \in Range(items[r])} = {Key[i] : i \in merged[r]}

-----------------------------------------------------------------------------
(* The theorems                                                            *)

\* The inductive invariant.
Safe ==
    /\ Types /\ Calls /\ Finished /\ SameTitle /\ CallsRight
    /\ Merging /\ Reached /\ Answered /\ Arrives /\ OpensEverywhere

LEMMA SafeInit == Init => Safe
  <1> SUFFICES ASSUME Init PROVE Safe
    OBVIOUS
  <1>1. Types /\ Calls /\ Finished
    BY TypeInit, CallsInit, FinishedInit
  <1>2. SameTitle /\ CallsRight
    BY DEF Init, SameTitle, CallsRight
  <1>3. Merging /\ Reached /\ Answered
    BY DEF Init, Merging, MergingOf, Reached, ReachedOf, Answered, AnsweredOf
  <1>4. Arrives /\ OpensEverywhere
    BY DEF Init, Arrives, ArrivesOf, OpensEverywhere
  <1> QED
    BY <1>1, <1>2, <1>3, <1>4 DEF Safe

LEMMA SafeStep == Safe /\ [Next]_vars => Safe'
  BY TypeStep, CallsStep, FinishedStep, SameTitleStep, CallsRightStep, MergeStep, AnsweredStep,
     ArrivesStep, OpensStep DEF Safe

THEOREM Safety == Spec => []Safe
  BY SafeInit, SafeStep, PTL DEF Spec

\* Every variable has its type, and no goroutine of an upstream ever waits for
\* room in the channel of its request: there is a place for each upstream that
\* was online (aggregator.go:88, 165).
THEOREM TypeCorrect == Spec => []TypeOK
  <1>1. Safe => TypeOK
    <2> SUFFICES ASSUME Safe, NEW r \in Requests PROVE Len(chan[r]) <= Cardinality(snap[r])
      BY DEF Safe, TypeOK
    <2>1. Types /\ CallsOf(r)
      BY DEF Safe, Calls
    <2>2. Sent(r) \subseteq snap[r] /\ IsFiniteSet(snap[r])
      <3>1. snap[r] \subseteq Servers /\ IsFiniteSet(Servers)
        BY <2>1, ConstantsAssumption DEF Types
      <3>2. IsFiniteSet(snap[r])
        BY <3>1, FS_Subset
      <3> QED
        BY <2>1, <3>2 DEF CallsOf, Sent
    <2>3. Cardinality(Sent(r)) <= Cardinality(snap[r]) /\ Cardinality(snap[r]) \in Nat
      BY <2>2, FS_Subset, FS_CardinalityType
    <2>4. Len(chan[r]) <= Cardinality(Sent(r)) /\ Len(chan[r]) \in Nat
      BY <2>1 DEF CallsOf, Types
    <2> QED
      BY <2>1, <2>3, <2>4, SentFinite
  <1> QED
    BY Safety, <1>1, PTL

\* A call names an item of its own upstream, and the title the client asked
\* about (originalIDForUpstream, aggregator.go:556-601).
THEOREM CallsGoRight == Spec => []RightUpstream
  <1>1. Safe => RightUpstream
    BY DEF Safe, CallsRight, RightUpstream
  <1> QED
    BY Safety, <1>1, PTL

\* What one list merged opens on every upstream its group came from
\* (aggregator.go:399-400, 585-601).
THEOREM MergedOpens == Spec => []OpensEverywhere
  <1>1. Safe => OpensEverywhere
    BY DEF Safe
  <1> QED
    BY Safety, <1>1, PTL

\* A request answered in time has lost nothing an upstream answered
\* (aggregator.go:130-147, 378-409).
THEOREM NothingLost == Spec => []NoAnswerLost
  <1>1. Safe => NoAnswerLost
    <2> SUFFICES ASSUME Safe, NEW r \in Requests, mpc[r] = "answered", ~expired[r],
                        NEW s \in snap[r] \cap listed, wpc[r][s] \in {"answered", "sent", "dropped"},
                        NEW i \in Range(Listing(s, asked[r][s]))
                 PROVE  \E v \in ids[r] :
                          IF kind[r] = "search" THEN v = Vid(i)
                          ELSE \/ StandsFor(v, i)
                               \/ Key[v[1]] = Key[i] /\ SrvOf[v[1]] \notin listed
      BY DEF NoAnswerLost
    <2>1. s \in Servers /\ s \notin cleaned
      BY DEF Safe, Types
    <2>2. chan[r] = <<>> /\ wpc[r][s] = "sent"
      BY <2>1 DEF Safe, Finished, FinishedOf, Ended
    <2>3. SrvOf[i] = s /\ i \in Items
      <3>1. asked[r][s] \in Items \cup {None} /\ (asked[r][s] = None \/ SrvOf[asked[r][s]] = s)
        BY <2>1 DEF Safe, Types, CallsRight
      <3> QED
        BY <2>1, <3>1, ListingItems, RangeItems
    <2>4. IF kind[r] = "search" THEN <<i, FALSE>> \in IdsOf(r) ELSE i \in ItemsOf(r)
      BY <2>1, <2>2 DEF Safe, Arrives, ArrivesOf
    <2>5. Range(chan[r]) = {}
      BY <2>2 DEF Range
    <2>6. CASE kind[r] = "search"
      <3>1. <<i, FALSE>> \in ids[r]
        BY <2>4, <2>5, <2>6 DEF IdsOf
      <3>2. (SrvOf[i] \in cleaned) = FALSE
        BY <2>1, <2>3
      <3>3. Vid(i) = <<i, FALSE>>
        BY <3>2, Zenon DEF Vid
      <3> QED
        BY <2>6, <3>1, <3>3
    <2>7. CASE kind[r] # "search"
      <3>1. i \in Range(items[r])
        BY <2>4, <2>5, <2>7 DEF ItemsOf
      <3>2. AnsweredOf(r) /\ kind[r] = "items"
        BY <2>7 DEF Safe, Answered, Types
      <3>3. PICK p \in merged[r] : Key[p] = Key[i]
        <4>1. {Key[j] : j \in Range(items[r])} = {Key[j] : j \in merged[r]}
          BY <3>2, Zenon DEF AnsweredOf
        <4>2. Key[i] \in {Key[j] : j \in Range(items[r])}
          BY <3>1
        <4>3. Key[i] \in {Key[j] : j \in merged[r]}
          BY <4>1, <4>2, Zenon
        <4> QED
          BY <4>3
      <3>4. PICK v \in ids[r] : v[1] = p
        BY <3>2 DEF AnsweredOf
      <3>5. p \in Items
        BY DEF Safe, Types
      <3>6. CASE SrvOf[p] \in listed
        <4>1. SrvOf[p] \notin cleaned /\ adding[r] = None
          BY <3>2, <3>6 DEF Safe, Types, AnsweredOf
        <4>2. PICK j \in {p} \cup inst[p] : SrvOf[j] = SrvOf[i]
          BY <3>1, <3>3, <4>1 DEF Safe, Reached, ReachedOf
        <4>3. Key[j] = Key[i]
          BY <3>3, <3>5, <4>2 DEF Safe, SameTitle
        <4>4. StandsFor(v, i)
          BY <3>3, <3>4, <4>2, <4>3 DEF StandsFor
        <4> QED
          BY <2>7, <4>4
      <3>7. CASE SrvOf[p] \notin listed
        BY <2>7, <3>3, <3>4, <3>7
      <3> QED
        BY <3>6, <3>7
    <2> QED
      BY <2>6, <2>7
  <1> QED
    BY Safety, <1>1, PTL

\* Whatever the requests register at once and the admin cleans up, the ids
\* clients see are those of a directory: nobody's id is ever given to another
\* item, and an item loses its id to a cleanup of its server only
\* (aggregator.go:373-409, idmap/store.go:48-97, 215-245).
THEOREM IdsImplementDirectory == Spec => IdsAreDirectory
  <1>1. Init => Timely
    BY DEF Init, Timely
  <1>2. Types /\ Timely /\ [Next]_vars => Timely'
    BY TimelyStep
  <1>3. Types /\ Timely /\ [Next]_vars => [Directory!Next]_Directory!vars
    BY DirectoryStep
  <1>4. Safe => Types
    BY DEF Safe
  <1> QED
    BY Safety, DirectoryInit, <1>1, <1>2, <1>3, <1>4, PTL DEF Spec, IdsAreDirectory, Directory!Spec

LEMMA OnceAlways == Spec => []Once
  <1>1. Safe => Types /\ Calls /\ Finished
    BY DEF Safe
  <1> QED
    BY Safety, OnceInit, OnceStep, <1>1, PTL DEF Spec

\* The list a client gets has a title once, however many upstreams have it and
\* in whichever order they answer.
OncePerTitle ==
    \A r \in Requests : mpc[r] = "answered" /\ kind[r] = "items" =>
        \A v, w \in ids[r] : Key[v[1]] = Key[w[1]] => v = w

\* What the client's one entry of a title shows: the metadata of an upstream
\* with priority, unless only the first answer had it from one; and else that
\* of a Chinese copy if any upstream had one.
MetadataPreferred ==
    \A r \in Requests : \A p \in merged[r], n \in DOMAIN items[r] :
        LET i == items[r][n] IN
        Key[i] = Key[p] =>
            /\ /\ SrvOf[i] \in PriorityMeta \cap listed
               /\ \E m \in DOMAIN items[r] : m < n /\ Key[items[r][m]] = Key[p]
               => SrvOf[p] \in PriorityMeta
            /\ i \in Chinese => p \in Chinese \/ SrvOf[p] \in PriorityMeta

\* A title is listed once, with one virtual id, however many upstreams have it
\* and whatever other requests register meanwhile (aggregator.go:287-299,
\* 378-409).
THEOREM TitlesListedOnce == Spec => []OncePerTitle
  <1>1. Once => OncePerTitle
    BY DEF Once, OnceOf, OncePerTitle
  <1> QED
    BY OnceAlways, <1>1, PTL

\* Priority of metadata holds for every answer but the first of its title, and
\* a Chinese name is never given up but for priority, whatever the order of the
\* answers: PriorityDecides fails for the first answer only
\* (aggregator.go:426-443).
THEOREM LaterPriorityDecides == Spec => []MetadataPreferred
  <1>1. Once => MetadataPreferred
    BY DEF Once, PreferredOf, Preferred, MetadataPreferred
  <1> QED
    BY OnceAlways, <1>1, PTL

\* The steps of a request are finitely many: each goes to a later stage, or
\* there has one call, one result, one title or one group of instances less to
\* go, and no other request, removal or clean-up ever adds to them. With a
\* deadline, and goroutines that run, every request ends (aggregator.go:73-148,
\* 287-299).
THEOREM RequestsRunDown == Spec => [][\A r \in Requests : RunsDown(r)]_vars
  <1>1. Safe /\ [Next]_vars => \A r \in Requests : RunsDown(r)
    BY OthersLeaveIt, WorkBringsOn DEF Safe, RunsDown
  <1>2. Safe /\ [Next]_vars => [\A r \in Requests : RunsDown(r)]_vars
    BY <1>1
  <1> QED
    BY Safety, <1>2, PTL DEF Spec

\* A request that cannot go on waits for a call of its own, never for another
\* request or for the admin, and once its context is done for nobody
\* (aggregator.go:79-80, 130-136, 277-299).
NobodyElseIsWaitedFor ==
    \A r \in Requests : mpc[r] \in {"asking", "waiting", "merging"} =>
        \/ MayHandle(r)
        \/ ~expired[r] /\ \E s \in snap[r] : wpc[r][s] \in {"calling", "answered"}

THEOREM RequestsWaitForTheirCalls == Spec => []NobodyElseIsWaitedFor
  <1>1. Safe => NobodyElseIsWaitedFor
    <2> SUFFICES ASSUME Safe, NEW r \in Requests, mpc[r] \in {"asking", "waiting", "merging"},
                        ~MayHandle(r)
                 PROVE  ~expired[r] /\ \E s \in snap[r] : wpc[r][s] \in {"calling", "answered"}
      BY DEF NobodyElseIsWaitedFor
    <2>1. mpc[r] # "merging"
      <3>1. {Key[i] : i \in merged[r]} \subseteq {Key[i] : i \in Range(items[r])}
        BY DEF Safe, Merging, MergingOf
      <3> QED
        BY <3>1 DEF MayHandle, TitlesLeft
    <2>2. mpc[r] = "waiting" /\ ~expired[r] /\ \E s \in Servers : wpc[r][s] \notin Ended
      BY <2>1 DEF MayHandle
    <2>3. PICK s \in Servers : wpc[r][s] \notin Ended
      BY <2>2
    <2>4. wpc[r][s] \in {"calling", "answered"} /\ s \in snap[r]
      BY <2>3 DEF Safe, Types, Calls, CallsOf, Ended
    <2> QED
      BY <2>2, <2>4
  <1> QED
    BY Safety, <1>1, PTL
=============================================================================

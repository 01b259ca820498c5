-------------------------- MODULE Gateway_proofs --------------------------
(***************************************************************************)
(* Proofs about Gateway, for any number of requests, sessions, upstreams   *)
(* and items: a request that begins after a DELETE never reaches the       *)
(* upstream deleted, no request carries another server's original id, what *)
(* was shown is refused only when its upstream is gone, what is played on  *)
(* an upstream stays there, the virtual ids are those of an IdDirectory,   *)
(* and the list of upstreams is a Membership.                              *)
(***************************************************************************)
EXTENDS Gateway, TLAPS

\* The part of the type invariant that is not about the requests.
StateTypes ==
    /\ listed \subseteq Servers /\ removed \subseteq Servers /\ listed \cap removed = {}
    /\ hidden \subseteq Servers /\ cleaning \subseteq removed /\ cleaned \subseteq removed
    /\ bound \subseteq VirtualIds
    /\ sess \in [Tokens -> [srv : Servers \cup {None}, user : BOOLEAN, live : BOOLEAN]]
    /\ play \in [Plays -> VirtualIds \cup {None}]
    /\ known \subseteq {p \in Plays : play[p] # None}
    /\ mix \in Mixes

\* What makes a request sound: the servers it saw deleted stay deleted, the
\* upstream chosen is none of them, and an original id is of that upstream.
Sound(c) ==
    /\ c.gone \subseteq removed
    /\ c.pc \in {"resolve", "write", "called"} => c.srv \notin c.gone
    /\ c.pc = "look" => c.orig = None /\ c.srv = None
    /\ c.orig # None => SrvOf[c.orig] = c.srv
    /\ c.pc = "called" /\ c.sent \in Items => SrvOf[c.sent] = c.srv
    /\ c.kind = "info" => c.v # None

GatewayInv ==
    /\ StateTypes /\ req \in [Requests -> Call]
    /\ \A r \in Requests : Sound(req[r])

\* The types of what the look-ups of a request return.
LEMMA ServerTypes ==
    /\ \A v \in VirtualIds : Server(v) \in Servers /\ v[1] \in Items
    /\ \A v \in VirtualIds, s \in Servers \cup {None} :
         \A i \in OriginalsFor(v, s) : i \in Items /\ SrvOf[i] = s
    /\ \A s \in Servers \cup {None} : VidsOf(s) \subseteq VirtualIds
<1>1. \A v \in VirtualIds : Server(v) \in Servers /\ v[1] \in Items
    BY GatewayAssumption DEF VirtualIds, Server
<1>2. ASSUME NEW v \in VirtualIds, NEW s \in Servers \cup {None}, NEW i \in OriginalsFor(v, s)
      PROVE  i \in Items /\ SrvOf[i] = s
  <2>1. Inst[v[1]] \subseteq Items /\ v[1] \in Items
    BY <1>1, GatewayAssumption
  <2>2. QED
    BY <1>2, <2>1 DEF OriginalsFor
<1>3. ASSUME NEW s \in Servers \cup {None} PROVE VidsOf(s) \subseteq VirtualIds
  <2> DEFINE late == s \in cleaned
  <2>1. late \in BOOLEAN /\ VidsOf(s) = {<<i, late>> : i \in ItemsOf(s)}
    BY DEF VidsOf
  <2>2. \A i \in ItemsOf(s) : i \in Items
    BY DEF ItemsOf
  <2>3. QED
    <3> HIDE DEF late
    <3> QED BY <2>1, <2>2 DEF VirtualIds
<1>4. QED
    BY <1>1, <1>2, <1>3

\* A source that hits names a server, and the original id it gives, if any,
\* is of that server.
LEMMA SourcesAgree ==
    ASSUME StateTypes, NEW r \in Requests, req[r] \in Call, NEW s \in Named(r)
    PROVE  /\ s \in Servers \cup {None}
           /\ Original(r) \in Items \cup {None}
           /\ Original(r) # None => SrvOf[Original(r)] = s
<1>1. CASE Source(r) = "path"
  <2>1. Named(r) = {Server(v) : v \in {req[r].v} \cap bound} /\ Original(r) = req[r].v[1]
    BY <1>1 DEF Named, Original
  <2>2. req[r].v \in VirtualIds /\ s = Server(req[r].v)
    BY <2>1 DEF StateTypes
  <2>3. QED
    BY <2>1, <2>2, ServerTypes DEF Server
<1>2. CASE Source(r) = "query"
  <2>1. Named(r) = {Server(v) : v \in {req[r].q} \cap bound} /\ Original(r) = req[r].q[1]
    BY <1>2 DEF Named, Original
  <2>2. req[r].q \in VirtualIds /\ s = Server(req[r].q)
    BY <2>1 DEF StateTypes
  <2>3. QED
    BY <2>1, <2>2, ServerTypes DEF Server
<1>3. CASE Source(r) = "play"
  <2>1. Named(r) = {Player(p) : p \in {req[r].p} \cap known} /\ Original(r) = play[req[r].p][1]
    BY <1>3 DEF Named, Original
  <2>2. play[req[r].p] \in VirtualIds /\ s = Server(play[req[r].p])
    BY <2>1 DEF StateTypes, Player
  <2>3. QED
    BY <2>1, <2>2, ServerTypes DEF Server
<1>4. CASE Source(r) = "token"
  <2>1. Named(r) = {sess[t].srv : t \in {u \in {req[r].t} \cap Tokens : sess[u].live}}
    BY <1>4 DEF Named
  <2>2. Original(r) = None
    BY <1>4 DEF Original
  <2>3. QED
    BY <2>1, <2>2 DEF StateTypes
<1>5. CASE Source(r) \notin {"path", "query", "play", "token"}
  <2>1. Named(r) = {}
    BY <1>5 DEF Named
  <2>2. QED
    BY <2>1
<1>6. QED
    BY <1>1, <1>2, <1>3, <1>4, <1>5

\* What is called with an original id is called with one of its own: the ids
\* of the request are translated for the upstream chosen.
LEMMA SentIsOwn ==
    ASSUME NEW r \in Requests, req[r] \in Call, Sound(req[r])
    PROVE  /\ Sent(r) \in Items \cup VirtualIds \cup {None}
           /\ Sent(r) \in Items => SrvOf[Sent(r)] = req[r].srv
<1> DEFINE id == IF req[r].v # None THEN req[r].v ELSE req[r].q
           own == IF id = None THEN {} ELSE OriginalsFor(id, req[r].srv)
<1>1. id \in VirtualIds \cup {None} /\ req[r].srv \in Servers \cup {None}
    BY DEF Call
<1>2. id \notin Items
    BY <1>1, GatewayAssumption DEF VirtualIds
<1>3. \A i \in own : i \in Items /\ SrvOf[i] = req[r].srv
    BY <1>1, ServerTypes
<1>4. req[r].orig # None => req[r].orig \in Items /\ SrvOf[req[r].orig] = req[r].srv
    BY DEF Call, Sound
<1>5. Sent(r) = id \/ (Sent(r) = req[r].orig /\ req[r].orig # None) \/ Sent(r) \in own
  <2> HIDE DEF id, own
  <2>1. own # {} => (CHOOSE i \in own : TRUE) \in own
    OBVIOUS
  <2>2. Sent(r) = CASE req[r].kind = "socket" -> id
                    [] req[r].kind \in {"stream", "image"} /\ req[r].orig # None -> req[r].orig
                    [] OTHER -> IF own # {} THEN CHOOSE i \in own : TRUE ELSE id
    BY DEF Sent, id, own
  <2>3. CASE req[r].kind = "socket"
    BY <2>2, <2>3
  <2>4. CASE req[r].kind # "socket" /\ req[r].kind \in {"stream", "image"} /\ req[r].orig # None
    BY <2>2, <2>4
  <2>5. CASE req[r].kind # "socket" /\ ~(req[r].kind \in {"stream", "image"} /\ req[r].orig # None)
    BY <2>1, <2>2, <2>5
  <2>6. QED
    BY <2>3, <2>4, <2>5
<1>6. QED
  <2> HIDE DEF id, own
  <2> QED BY <1>1, <1>2, <1>3, <1>4, <1>5

\* What the ids in the query of a stream become.
LEMMA QueryTypes ==
    ASSUME StateTypes, NEW r \in Requests, req[r] \in Call
    PROVE  Query(r) \subseteq Items \cup VirtualIds
<1>1. req[r].q \in VirtualIds \cup {None} /\ req[r].also \in VirtualIds \cup {None}
    BY DEF Call
<1>2. \A id \in VirtualIds : Resolved(id) \in Items \cup VirtualIds
    BY ServerTypes DEF Resolved
<1>3. ASSUME NEW i \in Query(r) PROVE i \in Items \cup VirtualIds
  <2>1. PICK id \in {req[r].q, req[r].also} \ {None} : i = Resolved(id)
    BY <1>3 DEF Query
  <2>2. id \in VirtualIds
    BY <1>1, <2>1
  <2>3. QED
    BY <1>2, <2>1, <2>2
<1>4. QED
    BY <1>3

\* What naming an upstream, or moving on, leaves of a request.
Kept(c, d) ==
    /\ c.kind = d.kind /\ c.v = d.v /\ c.q = d.q /\ c.also = d.also /\ c.p = d.p
    /\ c.about = d.about /\ c.gone = d.gone

\* The record after Find or LookHits has named an upstream, or none.
LEMMA NamesFields ==
    ASSUME NEW c \in Call, NEW s \in Servers \cup {None}, NEW i \in Items \cup {None}
    PROVE  /\ Names(c, s, i) \in Call /\ Kept(Names(c, s, i), c)
           /\ Names(c, s, i).srv = s /\ Names(c, s, i).orig = i /\ Names(c, s, i).n = c.n
<1>1. Names(c, s, i) \in Call
    BY ZenonT(60) DEF Names, Call
<1>2. Names(c, s, i).srv = s /\ Names(c, s, i).orig = i /\ Names(c, s, i).n = c.n
    BY DEF Names, Call
<1>3. Kept(Names(c, s, i), c)
    BY DEF Names, Call, Kept
<1>4. QED
    BY <1>1, <1>2, <1>3

\* The record when it is to be found, and when the next source is tried.
LEMMA FoundFields ==
    ASSUME NEW c \in Call, NEW user \in BOOLEAN
    PROVE  LET d == [c EXCEPT !.pc = "find", !.user = user]
           IN  d \in Call /\ Kept(d, c) /\ d.pc = "find" /\ d.srv = c.srv /\ d.orig = c.orig /\ d.n = c.n
<1> DEFINE d == [c EXCEPT !.pc = "find", !.user = user]
<1>1. d \in Call
    BY ZenonT(60) DEF Call
<1>2. Kept(d, c)
    BY DEF Call, Kept
<1>3. d.pc = "find" /\ d.srv = c.srv /\ d.orig = c.orig /\ d.n = c.n
    BY DEF Call
<1>4. QED
    BY <1>1, <1>2, <1>3

LEMMA NextFields ==
    ASSUME NEW c \in Call, NEW n \in Nat
    PROVE  LET d == [c EXCEPT !.pc = "look", !.n = n]
           IN  d \in Call /\ Kept(d, c) /\ d.pc = "look" /\ d.srv = c.srv /\ d.orig = c.orig /\ d.n = n
<1> DEFINE d == [c EXCEPT !.pc = "look", !.n = n]
<1>1. d \in Call
    BY ZenonT(60) DEF Call
<1>2. Kept(d, c)
    BY DEF Call, Kept
<1>3. d.pc = "look" /\ d.srv = c.srv /\ d.orig = c.orig /\ d.n = n
    BY DEF Call
<1>4. QED
    BY <1>1, <1>2, <1>3

\* A step that changes one request, to a sound one, and nothing of the state
\* that soundness is about.
LEMMA RequestStep ==
    ASSUME GatewayInv, NEW r \in Requests, NEW c \in Call, Sound(c)',
           req' = [req EXCEPT ![r] = c], removed' = removed, StateTypes'
    PROVE  GatewayInv'
<1>1. \A x \in Requests : Sound(req[x])'
    BY DEF GatewayInv, Sound
<1>2. QED
    BY <1>1 DEF GatewayInv

\* Every request is idle at the start.
LEMMA GatewayInvInit == GatewayInit => GatewayInv
<1> SUFFICES ASSUME GatewayInit PROVE GatewayInv
    OBVIOUS
<1> USE DEF GatewayInit
<1>1. Idle \in Call /\ Sound(Idle)
    BY DEF Idle, New, Call, Sound, Sources
<1>2. NoSession \in [srv : Servers \cup {None}, user : BOOLEAN, live : BOOLEAN]
    BY DEF NoSession
<1>3. bound \subseteq VirtualIds
    BY DEF VirtualIds
<1>4. StateTypes
    BY <1>2, <1>3 DEF StateTypes
<1>5. QED
    BY <1>1, <1>4 DEF GatewayInv

\* A request arrives: it has seen what is deleted by now.
LEMMA BeginStep ==
    ASSUME GatewayInv, NEW r \in Requests, NEW k \in DOMAIN Sources,
           NEW v \in VirtualIds \cup {None}, NEW q \in VirtualIds \cup {None},
           NEW p \in Plays \cup {None}, NEW about \in Plays \cup {None},
           NEW t \in Tokens \cup {None}, k = "info" => v # None,
           Begin(r, k, v, q, p, about, t)
    PROVE  GatewayInv'
<1> DEFINE c == [New(k, v, q, p, about, t) EXCEPT !.gone = removed]
<1>1. c \in Call
    BY DEF Call, New, GatewayInv, StateTypes
<1>2. req' = [req EXCEPT ![r] = c]
    BY DEF Begin
<1>3. Sound(c)' /\ UNCHANGED <<admin, store, sessions>>
    BY DEF Sound, New, Begin, admin, membership
<1>4. StateTypes' /\ removed' = removed
    BY <1>3 DEF GatewayInv, StateTypes, admin, membership, store, sessions
<1>5. QED
    BY <1>1, <1>2, <1>3, <1>4, RequestStep

\* A stream arrives, with any ids in its URL.
LEMMA LooseStep ==
    ASSUME GatewayInv, NEW r \in Requests, BeginLoose(r)
    PROVE  GatewayInv'
<1>1. StateTypes /\ Shown \subseteq VirtualIds
    BY DEF GatewayInv, StateTypes, Shown, VirtualIds
<1>2. PICK v \in Shown \cup {None}, q \in Shown \cup {None}, a \in Shown \cup {None},
           t \in Tokens, p \in {x \in Plays : play[x] # None} \cup {None} :
        req' = [req EXCEPT ![r] = [New("stream", v, q, p, None, t) EXCEPT
                                      !.also = a, !.gone = removed]]
    BY DEF BeginLoose
<1> DEFINE c == [New("stream", v, q, p, None, t) EXCEPT !.also = a, !.gone = removed]
<1>3. v \in VirtualIds \cup {None} /\ q \in VirtualIds \cup {None} /\ a \in VirtualIds \cup {None}
    BY <1>1
<1>4. "stream" \in DOMAIN Sources
    BY DEF Sources
<1>5. c \in Call
    BY <1>1, <1>3, <1>4 DEF Call, New, StateTypes
<1>6. UNCHANGED <<admin, store, sessions>>
    BY DEF BeginLoose
<1>7. Sound(c)'
    BY <1>6 DEF Sound, New, admin, membership
<1>8. StateTypes' /\ removed' = removed
    BY <1>6 DEF GatewayInv, StateTypes, admin, membership, store, sessions
<1>9. QED
    BY <1>2, <1>5, <1>7, <1>8, RequestStep

\* A step of one request that leaves everything else as it is.
LEMMA QuietStep ==
    ASSUME GatewayInv, NEW r \in Requests, NEW c \in Call, Sound(c),
           req' = [req EXCEPT ![r] = c], UNCHANGED <<admin, store, sessions>>
    PROVE  GatewayInv'
<1>1. StateTypes' /\ removed' = removed
    BY DEF GatewayInv, StateTypes, admin, membership, store, sessions
<1>2. Sound(c)'
    BY <1>1 DEF Sound
<1>3. QED
    BY <1>1, <1>2, RequestStep

\* Choosing the upstream, and calling it.
LEMMA HandleQuietly ==
    ASSUME GatewayInv, NEW r \in Requests,
           \/ LookMisses(r) \/ LookHits(r) \/ LookOnline(r) \/ Find(r)
           \/ Send(r) \/ CacheHit(r) \/ Fail(r) \/ Finish(r)
    PROVE  GatewayInv'
<1>0. UNCHANGED <<admin, store, sessions>>
    BY DEF LookMisses, LookHits, LookOnline, Find, Send, CacheHit, Fail, Finish
<1>1. StateTypes /\ req \in [Requests -> Call] /\ req[r] \in Call /\ Sound(req[r])
    BY DEF GatewayInv
<1>2. Idle \in Call /\ Sound(Idle)
    BY DEF Idle, New, Call, Sound, Sources
<1>3. None \notin req[r].gone /\ \A s \in listed : s \in Servers /\ s \notin req[r].gone
    BY <1>1, GatewayAssumption DEF StateTypes, Sound
<1>4. CASE Done(r)
    BY <1>0, <1>2, <1>4, QuietStep DEF Done
<1>5. CASE Refuse(r)
  <2> DEFINE c == [req[r] EXCEPT !.pc = "refused"]
  <2>1. c \in Call /\ Sound(c)
    BY <1>1 DEF Call, Sound
  <2>2. req' = [req EXCEPT ![r] = c]
    BY <1>5 DEF Refuse
  <2>3. QED
    BY <1>0, <2>1, <2>2, QuietStep
<1>6. CASE req[r].pc = "look" /\ req' = [req EXCEPT ![r].n = @ + 1]
  <2> DEFINE c == [req[r] EXCEPT !.n = @ + 1]
  <2>1. c \in Call /\ Sound(c)
    BY <1>1, <1>6 DEF Call, Sound
  <2>2. req' = [req EXCEPT ![r] = c]
    BY <1>6
  <2>3. QED
    BY <1>0, <2>1, <2>2, QuietStep
<1>7. CASE LookHits(r)
  <2> DEFINE user == Source(r) = "token" /\ sess[req[r].t].user
  <2>1. PICK s \in Named(r) :
          req' = [req EXCEPT ![r] = [Names(@, s, Original(r)) EXCEPT !.pc = "find", !.user = user]]
    BY <1>7 DEF LookHits
  <2> DEFINE d == Names(req[r], s, Original(r))
             c == [d EXCEPT !.pc = "find", !.user = user]
  <2>2. user \in BOOLEAN
    OBVIOUS
  <2>3. /\ s \in Servers \cup {None} /\ Original(r) \in Items \cup {None}
        /\ Original(r) # None => SrvOf[Original(r)] = s
    BY <1>1, SourcesAgree
  <2>4. req' = [req EXCEPT ![r] = c]
    BY <2>1
  <2>5. d \in Call /\ d.srv = s /\ d.orig = Original(r) /\ Kept(d, req[r])
    BY <1>1, <2>3, NamesFields
  <2>6. c \in Call /\ c.pc = "find" /\ c.srv = s /\ c.orig = Original(r) /\ Kept(c, req[r])
    <3> HIDE DEF user, d
    <3>1. c \in Call /\ Kept(c, d) /\ c.pc = "find" /\ c.srv = d.srv /\ c.orig = d.orig
      BY <2>2, <2>5, FoundFields
    <3> HIDE DEF c
    <3>2. QED
      BY <2>5, <3>1 DEF Kept
  <2>7. Sound(c)
    <3> HIDE DEF c
    <3> QED BY <1>1, <2>3, <2>6 DEF Sound, Kept
  <2>8. QED
    BY <1>0, <2>4, <2>6, <2>7, QuietStep
<1>8. ASSUME NEW s \in listed, NEW pc \in {"resolve", "write"}, req[r].pc = "look",
             req' = [req EXCEPT ![r].srv = s, ![r].pc = pc]
      PROVE  GatewayInv'
  <2> DEFINE c == [req[r] EXCEPT !.srv = s, !.pc = pc]
  <2>1. c \in Call /\ Sound(c)
    BY <1>1, <1>3, <1>8 DEF Call, Sound
  <2>2. req' = [req EXCEPT ![r] = c]
    BY <1>8
  <2>3. QED
    BY <1>0, <2>1, <2>2, QuietStep
<1>9. CASE /\ req[r].pc = "look" /\ req[r].srv = None
           /\ req' = [req EXCEPT ![r].pc = "resolve"]
  <2> DEFINE c == [req[r] EXCEPT !.pc = "resolve"]
  <2>1. c \in Call /\ Sound(c)
    BY <1>1, <1>3, <1>9 DEF Call, Sound
  <2>2. req' = [req EXCEPT ![r] = c]
    BY <1>9
  <2>3. QED
    BY <1>0, <2>1, <2>2, QuietStep
<1>10. CASE Find(r)
  <2>1. ASSUME req[r].srv \in listed, NEW pc \in {"resolve", "write"},
               req' = [req EXCEPT ![r].pc = pc]
        PROVE  GatewayInv'
    <3> DEFINE c == [req[r] EXCEPT !.pc = pc]
    <3>1. c \in Call /\ Sound(c)
      BY <1>1, <1>3, <2>1 DEF Call, Sound
    <3>2. req' = [req EXCEPT ![r] = c]
      BY <2>1
    <3>3. QED
      BY <1>0, <3>1, <3>2, QuietStep
  <2>2. CASE req' = [req EXCEPT ![r] = [Names(@, None, None) EXCEPT !.pc = "look", !.n = req[r].n + 1]]
    <3> DEFINE d == Names(req[r], None, None)
               n == req[r].n + 1
               c == [d EXCEPT !.pc = "look", !.n = n]
    <3>1. d \in Call /\ d.srv = None /\ d.orig = None /\ Kept(d, req[r])
      BY <1>1, NamesFields
    <3>2. c \in Call /\ c.pc = "look" /\ c.srv = None /\ c.orig = None /\ Kept(c, req[r])
      <4>1. n \in Nat
        BY <1>1 DEF Call
      <4>2. QED
        <5> HIDE DEF d, n
        <5> QED BY <3>1, <4>1, NextFields DEF Kept
    <3>3. Sound(c)
      <4> HIDE DEF c
      <4> QED BY <1>1, <3>2 DEF Sound, Kept
    <3>4. req' = [req EXCEPT ![r] = c]
      BY <2>2
    <3>5. QED
      BY <1>0, <3>2, <3>3, <3>4, QuietStep
  <2>3. QED
    BY <1>5, <1>10, <2>1, <2>2 DEF Find
<1>11. CASE Send(r) /\ ~NoTarget(r)
  <2> DEFINE c == [req[r] EXCEPT !.pc = "called", !.sent = Sent(r), !.query = Query(r)]
  <2>1. /\ Sent(r) \in Items \cup VirtualIds \cup {None}
        /\ Sent(r) \in Items => SrvOf[Sent(r)] = req[r].srv
        /\ Query(r) \in SUBSET (Items \cup VirtualIds)
        /\ req[r].pc = "write"
    BY <1>1, <1>11, SentIsOwn, QueryTypes DEF Send
  <2>2. c \in Call
    BY <1>1, <2>1, ZenonT(60) DEF Call
  <2>3. c.pc = "called" /\ c.sent = Sent(r) /\ c.srv = req[r].srv /\ c.orig = req[r].orig
        /\ c.kind = req[r].kind /\ c.v = req[r].v /\ c.gone = req[r].gone
    BY <1>1 DEF Call
  <2>4. Sound(c)
    BY <1>1, <2>1, <2>3 DEF Sound
  <2>5. req' = [req EXCEPT ![r] = c]
    BY <1>11 DEF Send
  <2>6. QED
    BY <1>0, <2>2, <2>4, <2>5, QuietStep
<1>12. QED
  <2>1. CASE LookMisses(r)
    BY <1>5, <1>6, <2>1 DEF LookMisses
  <2>2. CASE LookOnline(r)
    <3>1. req[r].pc = "look" /\ req[r].srv = None
      BY <1>1, <2>2 DEF LookOnline, Sound
    <3>2. QED
      BY <1>5, <1>8, <1>9, <2>2, <3>1 DEF LookOnline
  <2>3. CASE Send(r)
    BY <1>5, <1>11, <2>3 DEF Send
  <2>4. QED
    BY <1>4, <1>7, <1>10, <2>1, <2>2, <2>3 DEF CacheHit, Fail, Finish

\* resolveUpstreamUserID: the session changes, the upstream does not.
LEMMA ResolveStep ==
    ASSUME GatewayInv, NEW r \in Requests, ResolveUser(r)
    PROVE  GatewayInv'
<1>1. StateTypes /\ req \in [Requests -> Call] /\ req[r] \in Call /\ Sound(req[r])
    BY DEF GatewayInv
<1>2. Idle \in Call /\ Sound(Idle)' /\ removed' = removed
    BY DEF Idle, New, Call, Sound, Sources, ResolveUser, admin, membership
<1>3. PICK user \in {FALSE, req[r].srv # None} :
        IF req[r].kind = "login" \/ user
        THEN /\ sess' = [sess EXCEPT ![req[r].t] = [srv |-> req[r].srv, user |-> user, live |-> TRUE]]
             /\ IF req[r].kind = "login" THEN Done(r) ELSE req' = [req EXCEPT ![r].pc = "write"]
        ELSE Refuse(r) /\ UNCHANGED sess
    BY DEF ResolveUser
<1>4. user \in BOOLEAN
    BY Zenon
<1>5. sess' \in [Tokens -> [srv : Servers \cup {None}, user : BOOLEAN, live : BOOLEAN]]
  <2> DEFINE e == [srv |-> req[r].srv, user |-> user, live |-> TRUE]
  <2>1. e \in [srv : Servers \cup {None}, user : BOOLEAN, live : BOOLEAN]
    BY <1>1, <1>4 DEF Call
  <2>2. sess' = [sess EXCEPT ![req[r].t] = e] \/ sess' = sess
    BY <1>3
  <2>3. QED
    <3> HIDE DEF e
    <3> QED BY <1>1, <2>1, <2>2 DEF StateTypes
<1>6. StateTypes'
    BY <1>1, <1>5 DEF StateTypes, ResolveUser, admin, store, membership
<1>7. ASSUME NEW pc \in {"write", "refused"}, req' = [req EXCEPT ![r].pc = pc]
      PROVE  GatewayInv'
  <2> DEFINE d == [req[r] EXCEPT !.pc = pc]
  <2>1. d \in Call /\ Sound(d) /\ req' = [req EXCEPT ![r] = d]
    BY <1>1, <1>7 DEF Call, Sound, ResolveUser
  <2>2. PICK c \in Call : Sound(c) /\ req' = [req EXCEPT ![r] = c]
    BY <2>1
  <2>3. Sound(c)'
    BY <1>2, <2>2 DEF Sound
  <2>4. QED
    BY <1>2, <1>6, <2>2, <2>3, RequestStep
<1>8. CASE Done(r)
    BY <1>2, <1>6, <1>8, RequestStep DEF Done
<1>9. QED
    BY <1>3, <1>7, <1>8 DEF Refuse

\* The answer: ids are registered, playback sessions come and go.
LEMMA AnswerStep ==
    ASSUME GatewayInv, NEW r \in Requests, Answer(r)
    PROVE  GatewayInv'
<1>1. StateTypes /\ req[r] \in Call /\ Sound(req[r])
    BY DEF GatewayInv
<1>2. Idle \in Call /\ Sound(Idle)' /\ removed' = removed
    BY DEF Idle, New, Call, Sound, Sources, Answer, admin, membership
<1>3. bound' \subseteq VirtualIds
  <2>1. VidsOf(req[r].srv) \subseteq VirtualIds
    BY <1>1, ServerTypes DEF Call
  <2>2. QED
    BY <1>1, <2>1 DEF Answer, StateTypes
<1>4. play' \in [Plays -> VirtualIds \cup {None}] /\ known' \subseteq {p \in Plays : play'[p] # None}
  <2>1. CASE UNCHANGED play /\ known' \subseteq known
    BY <1>1, <2>1 DEF StateTypes
  <2>2. ASSUME NEW p \in Plays, req[r].kind = "info",
               play' = [play EXCEPT ![p] = req[r].v], known' = known \cup {p}
        PROVE  play' \in [Plays -> VirtualIds \cup {None}]
               /\ known' \subseteq {x \in Plays : play'[x] # None}
    <3>1. req[r].v \in VirtualIds
      BY <1>1, <2>2 DEF Call, Sound
    <3>2. None \notin VirtualIds
      BY GatewayAssumption DEF VirtualIds
    <3>3. QED
      BY <1>1, <2>2, <3>1, <3>2 DEF StateTypes
  <2>3. QED
    BY <2>1, <2>2 DEF Answer
<1>5. StateTypes'
    BY <1>1, <1>3, <1>4 DEF StateTypes, Answer, admin, membership
<1>6. QED
    BY <1>2, <1>5, RequestStep DEF Answer, Done

\* Steps that touch no request: what was deleted stays deleted.
LEMMA OtherStep ==
    ASSUME GatewayInv, UNCHANGED req, removed \subseteq removed', StateTypes'
    PROVE  GatewayInv'
BY DEF GatewayInv, Sound

\* Every step preserves the invariant.
LEMMA GatewayInvNext == GatewayInv /\ [GatewayNext]_vars => GatewayInv'
<1> SUFFICES ASSUME GatewayInv, [GatewayNext]_vars PROVE GatewayInv'
    OBVIOUS
<1>1. StateTypes
    BY DEF GatewayInv
<1>2. Shown \subseteq VirtualIds
    BY <1>1 DEF Shown, StateTypes, VirtualIds
<1>3. None \notin VirtualIds
    BY GatewayAssumption DEF VirtualIds
<1>4. ASSUME NEW r \in Requests, NEW k \in {"info", "single", "image", "user"},
             BeginShown(r, k)
      PROVE  GatewayInv'
  <2>1. PICK v \in Shown, t \in Tokens : Begin(r, k, v, None, None, None, t)
    BY <1>4 DEF BeginShown
  <2>2. k \in DOMAIN Sources
    BY DEF Sources
  <2>3. QED
    BY <1>2, <1>3, <2>1, <2>2, BeginStep
<1>5. ASSUME NEW r \in Requests, NEW k \in {"fallback", "socket"}, BeginUnnamed(r, k)
      PROVE  GatewayInv'
  <2>1. PICK q \in Shown \cup {None}, t \in Tokens : Begin(r, k, None, q, None, None, t)
    BY <1>5 DEF BeginUnnamed
  <2>2. k \in DOMAIN Sources
    BY DEF Sources
  <2>3. QED
    BY <1>2, <2>1, <2>2, BeginStep
<1>6. ASSUME NEW r \in Requests, BeginLogin(r) PROVE GatewayInv'
  <2>1. PICK t \in Tokens : Begin(r, "login", None, None, None, None, t)
    BY <1>6 DEF BeginLogin
  <2>2. "login" \in DOMAIN Sources
    BY DEF Sources
  <2>3. QED
    BY <2>1, <2>2, BeginStep
<1>7. ASSUME NEW r \in Requests, BeginStream(r) PROVE GatewayInv'
  <2>1. PICK p \in {x \in Plays : play[x] # None}, t \in Tokens :
          \E v \in {play[p], None}, q \in {play[p], None}, s \in {p, None} :
              Begin(r, "stream", v, q, s, p, t)
    BY <1>7 DEF BeginStream
  <2>2. "stream" \in DOMAIN Sources /\ play[p] \in VirtualIds
    BY <1>1 DEF Sources, StateTypes
  <2>3. QED
    BY <2>1, <2>2, BeginStep
<1>8. ASSUME NEW r \in Requests, BeginReport(r) PROVE GatewayInv'
  <2>1. PICK p \in {x \in Plays : play[x] # None}, k \in {"progress", "stopped"}, t \in Tokens :
          \E q \in {play[p], None} : Begin(r, k, None, q, p, p, t)
    BY <1>8 DEF BeginReport
  <2>2. k \in DOMAIN Sources /\ play[p] \in VirtualIds
    BY <1>1 DEF Sources, StateTypes
  <2>3. QED
    BY <2>1, <2>2, BeginStep
<1>9. ASSUME NEW r \in Requests, Handle(r) PROVE GatewayInv'
    BY <1>9, HandleQuietly, ResolveStep, AnswerStep DEF Handle
<1>10. ASSUME NEW t \in Tokens, ExpireLogin(t) PROVE GatewayInv'
  <2>1. NoSession \in [srv : Servers \cup {None}, user : BOOLEAN, live : BOOLEAN]
    BY DEF NoSession
  <2>2. StateTypes'
    BY <1>1, <1>10, <2>1 DEF ExpireLogin, StateTypes, admin, store, membership
  <2>3. QED
    BY <1>10, <2>2, OtherStep DEF ExpireLogin, admin, membership
<1>11. ASSUME NEW p \in Plays, ExpirePlay(p) PROVE GatewayInv'
  <2>1. StateTypes'
    BY <1>1, <1>11 DEF ExpirePlay, StateTypes, admin, store, membership
  <2>2. QED
    BY <1>11, <2>1, OtherStep DEF ExpirePlay, admin, membership
<1>12. ASSUME NEW s \in Servers, RemoveUpstream(s) PROVE GatewayInv'
  <2>1. StateTypes'
    BY <1>1, <1>12 DEF RemoveUpstream, Leave, StateTypes, store, sessions
  <2>2. QED
    BY <1>12, <2>1, OtherStep DEF RemoveUpstream, Leave
<1>13. ASSUME NEW s \in Servers, CleanupServer(s) PROVE GatewayInv'
  <2>1. StateTypes'
    BY <1>1, <1>13 DEF CleanupServer, StateTypes, store, sessions, membership
  <2>2. QED
    BY <1>13, <2>1, OtherStep DEF CleanupServer, membership
<1>14. ASSUME NEW s \in Servers, HideUpstream(s) PROVE GatewayInv'
  <2>1. StateTypes'
    BY <1>1, <1>14 DEF HideUpstream, Relist, StateTypes, store, sessions
  <2>2. QED
    BY <1>14, <2>1, OtherStep DEF HideUpstream, Relist
<1>18. ASSUME NEW r \in Requests, BeginLoose(r) PROVE GatewayInv'
    BY <1>18, LooseStep
<1>15. CASE Restart
  <2>1. Idle \in Call /\ Sound(Idle)'
    BY DEF Idle, New, Call, Sound, Sources
  <2>2. NoSession \in [srv : Servers \cup {None}, user : BOOLEAN, live : BOOLEAN]
    BY DEF NoSession
  <2>3. StateTypes'
    BY <1>1, <1>15, <2>2 DEF Restart, Started, Relist, StateTypes
  <2>4. QED
    BY <1>15, <2>1, <2>3 DEF Restart, Started, GatewayInv
<1>16. CASE UNCHANGED vars
    BY <1>16 DEF vars, admin, store, sessions, membership, GatewayInv, StateTypes, Sound
<1>17. QED
    BY <1>4, <1>5, <1>6, <1>7, <1>8, <1>9, <1>10, <1>11, <1>12, <1>13, <1>14, <1>15, <1>16, <1>18
       DEF GatewayNext, BeginInfo, BeginSingle, BeginImage, BeginUser, BeginFallback, BeginSocket

\* The invariant holds in every state of every behaviour.
LEMMA GatewayInvHolds == GatewaySpec => []GatewayInv
BY GatewayInvInit, GatewayInvNext, PTL DEF GatewaySpec

\* Type correctness; in particular an upstream that was deleted is not
\* listed, and a playback session is known only while it has an item.
THEOREM GatewayTypes == GatewaySpec => []TypeOK
<1>1. GatewayInv => TypeOK
    BY DEF GatewayInv, StateTypes, TypeOK
<1>2. QED
    BY <1>1, GatewayInvHolds, PTL

\* A request that begins after a DELETE was answered never reaches the
\* upstream deleted (Manager.Remove, ByID, the look-ups of the proxy).
THEOREM RemovedIsGone == GatewaySpec => []RemovedIsNeverCalled
<1>1. GatewayInv => RemovedIsNeverCalled
    BY DEF GatewayInv, Sound, RemovedIsNeverCalled, InCall
<1>2. QED
    BY <1>1, GatewayInvHolds, PTL

-----------------------------------------------------------------------------
(* Requests are refused, or leave the player's upstream, only when the     *)
(* upstream is gone.  Two more invariants: what the id store and the list  *)
(* keep reachable, and how far each request has got in its chain.          *)

Gone(s) == s \in removed \cup hidden

\* An id made after its server was cleaned up is one of a deleted server.
OldIdsGone(S) == \A v \in S \ {None} : v[2] => Server(v) \in removed

Reach ==
    /\ \A s \in Servers \ listed : Gone(s)
    /\ \A i \in Items : <<i, FALSE>> \in bound \/ SrvOf[i] \in removed
    /\ OldIdsGone(bound) /\ \A p \in Plays : OldIdsGone({play[p]})

\* What a request names: a player's request names what is played, or nothing.
Asks(c) ==
    /\ OldIdsGone({c.v, c.q})
    /\ c.kind \in {"info", "single", "image"} => c.v # None
    /\ c.p # None => play[c.p] # None
    /\ c.about # None =>
         /\ c.kind \in {"stream", "progress", "stopped"} /\ (c.kind # "stream" => c.v = None)
         /\ play[c.about] # None
         /\ {c.v, c.q} \subseteq {None, play[c.about]} /\ c.p \in {None, c.about}

\* The sources it has been through.
Tried(c, x) == \E m \in 1..(c.n - 1) : Sources[c.kind][m] = x

\* A source that named an upstream and was given up named one that is gone.
Passed(c) ==
    /\ c.n >= 1
    /\ Tried(c, "path") /\ c.v # None => Gone(Server(c.v))
    /\ Tried(c, "query") /\ c.q # None => Gone(Server(c.q))
    /\ Tried(c, "play") /\ c.p # None /\ c.p \in known => Gone(Player(c.p))

\* The upstream chosen is the one its source names; a refusal has a reason.
Named3 == {"path", "query", "play"}
Chosen(c) ==
    /\ c.pc = "resolve" => c.kind \in {"login", "user"}
    /\ c.pc \in {"find", "resolve", "write", "called"} =>
         LET x == Sources[c.kind][c.n] IN
         /\ x \in Named3 <=> c.orig # None
         /\ x = "path" => c.v # None /\ c.srv = Server(c.v)
         /\ x = "query" => c.q # None /\ c.srv = Server(c.q)
         /\ x = "play" => c.p # None /\ c.srv = Player(c.p)

Reason(c) ==
    c.kind \in {"info", "single", "image", "stream"} =>
        LET id == IF c.v # None THEN c.v ELSE c.q IN id # None => Gone(Server(id))

Followed(c) == Asks(c) /\ Passed(c) /\ Chosen(c) /\ (c.pc = "refused" => Reason(c))

ReachInv == GatewayInv /\ Reach /\ \A r \in Requests : Followed(req[r])

\* The chains: an id in the path is looked at first; a player's request comes
\* to the token only after what it names.
LEMMA Chains ==
    /\ \A k \in {"info", "single", "image", "stream"} : Sources[k][1] = "path" /\ Len(Sources[k]) >= 1
    /\ Sources["stream"][2] = "query" /\ Sources["stream"][3] = "play" /\ Len(Sources["stream"]) = 6
    /\ \A k \in {"progress", "stopped"} :
         Sources[k][1] = "play" /\ Sources[k][2] = "query" /\ Len(Sources[k]) = 5
    /\ Sources["login"] = <<"online">> /\ Sources["user"] = <<"token">>
<1>1. Sources["stream"] = <<"path", "query", "play">> \o <<"token", "play", "online">>
    BY DEF Sources, Fallback
<1>2. Sources["stream"][1] = "path" /\ Sources["stream"][2] = "query" /\ Sources["stream"][3] = "play"
      /\ Len(Sources["stream"]) = 6
    BY <1>1
<1>3. Sources["progress"] = <<"play", "query">> \o <<"token", "play", "online">>
      /\ Sources["stopped"] = <<"play", "query">> \o <<"token", "play", "online">>
    BY DEF Sources, ReportSources, Fallback
<1>4. \A k \in {"progress", "stopped"} :
         Sources[k][1] = "play" /\ Sources[k][2] = "query" /\ Len(Sources[k]) = 5
    BY <1>3
<1>5. Sources["single"] = <<"path">> \o <<"token", "play", "online">>
      /\ Sources["image"] = <<"path">> \o <<"token", "play", "online">>
      /\ Sources["info"] = <<"path">> /\ Sources["login"] = <<"online">> /\ Sources["user"] = <<"token">>
    BY DEF Sources, Fallback
<1>6. \A k \in {"info", "single", "image", "stream"} : Sources[k][1] = "path" /\ Len(Sources[k]) >= 1
    BY <1>2, <1>5
<1>7. QED
    BY <1>2, <1>4, <1>5, <1>6

\* An id the store does not resolve is one of a deleted upstream.
LEMMA Unresolved ==
    ASSUME Reach, NEW v \in VirtualIds, OldIdsGone({v}), v \notin bound
    PROVE  Server(v) \in removed
<1>1. v # None
    BY GatewayAssumption DEF VirtualIds
<1>2. PICK i \in Items, b \in BOOLEAN : v = <<i, b>>
    BY SMT DEF VirtualIds
<1>3. CASE b
    BY <1>1, <1>2, <1>3 DEF OldIdsGone
<1>4. CASE ~b
  <2>1. b = FALSE
    BY <1>4
  <2>2. <<i, FALSE>> \notin bound
    BY <1>2, <2>1
  <2>3. QED
    BY <1>2, <2>2 DEF Reach, Server
<1>5. QED
    BY <1>3, <1>4

\* One more source tried.
LEMMA TriedMore ==
    ASSUME NEW c \in Call, NEW d \in Call, NEW x, d.kind = c.kind, Passed(c), Tried(d, x)
    PROVE  /\ d.n = c.n => Tried(c, x)
           /\ d.n = c.n + 1 => Tried(c, x) \/ Sources[c.kind][c.n] = x
<1>1. c.n \in Nat /\ c.n >= 1 /\ d.n \in Nat
    BY DEF Call, Passed
<1>2. PICK m \in 1..(d.n - 1) : Sources[c.kind][m] = x
    BY DEF Tried
<1>3. d.n = c.n => m \in 1..(c.n - 1)
    BY <1>1
<1>4. d.n = c.n + 1 => m \in 1..(c.n - 1) \/ m = c.n
    BY <1>1
<1>5. QED
    BY <1>2, <1>3, <1>4 DEF Tried

\* What a request has been through holds whatever else happens: what is gone
\* stays gone, and a playback session that was forgotten stays forgotten.
Onward ==
    /\ removed \subseteq removed' /\ hidden \subseteq hidden'
    /\ \A p \in Plays : play[p] # None => play'[p] = play[p] /\ (p \in known' => p \in known)

LEMMA FollowedStays ==
    ASSUME Onward, NEW c \in Call, Followed(c)
    PROVE  Followed(c)'
<1>1. \A s : Gone(s) => Gone(s)'
    BY DEF Onward, Gone
<1>2. c.p \in Plays \cup {None} /\ c.about \in Plays \cup {None}
    BY DEF Call
<1>3. /\ c.p # None => play'[c.p] = play[c.p] /\ (c.p \in known' => c.p \in known)
      /\ c.about # None => play'[c.about] = play[c.about]
    BY <1>2 DEF Onward, Followed, Asks
<1>4. Asks(c)'
    BY <1>3 DEF Followed, Asks, OldIdsGone, Onward
<1>5. Passed(c)'
    BY <1>1, <1>3 DEF Followed, Passed, Player, Tried
<1>6. Chosen(c)'
    BY <1>3 DEF Followed, Chosen, Player
<1>7. c.pc = "refused" => Reason(c)'
    BY <1>1 DEF Followed, Reason
<1>8. QED
    BY <1>4, <1>5, <1>6, <1>7 DEF Followed

\* A request that stays where it is in its chain, or moves on to the next
\* source from one that named nothing, or an upstream that is gone.
LEMMA FollowedOn ==
    ASSUME NEW c \in Call, NEW d \in Call, Followed(c), Kept(d, c),
           \/ d.n = c.n
           \/ /\ d.n = c.n + 1
              /\ LET x == Sources[c.kind][c.n] IN
                 /\ x = "path" /\ c.v # None => Gone(Server(c.v))
                 /\ x = "query" /\ c.q # None => Gone(Server(c.q))
                 /\ x = "play" /\ c.p # None /\ c.p \in known => Gone(Player(c.p))
    PROVE  Asks(d) /\ Passed(d)
<1>1. Asks(d)
    BY DEF Followed, Asks, Kept
<1>2. d.n >= 1
    BY DEF Followed, Passed, Call
<1>3. Passed(c) /\ d.kind = c.kind
    BY DEF Followed, Kept
<1>4. \A x \in Named3 : Tried(d, x) =>
         Tried(c, x) \/ (d.n = c.n + 1 /\ Sources[c.kind][c.n] = x)
    BY <1>3, TriedMore
<1>5. /\ Tried(d, "path") /\ d.v # None => Gone(Server(d.v))
      /\ Tried(d, "query") /\ d.q # None => Gone(Server(d.q))
      /\ Tried(d, "play") /\ d.p # None /\ d.p \in known => Gone(Player(d.p))
  <2>1. "path" \in Named3 /\ "query" \in Named3 /\ "play" \in Named3 /\ c.n \in Nat
    BY DEF Named3, Call
  <2>2. QED
    BY <1>3, <1>4, <2>1 DEF Passed, Kept
<1>6. QED
    BY <1>1, <1>2, <1>5 DEF Passed

\* A step that changes one request, to one whose chain is in order, and
\* nothing that is reached through.
LEMMA FollowedStep ==
    ASSUME ReachInv, GatewayInv', NEW r \in Requests, NEW c \in Call, Followed(c)',
           req' = [req EXCEPT ![r] = c], Reach', Onward
    PROVE  ReachInv'
<1>1. req \in [Requests -> Call] /\ \A x \in Requests : Followed(req[x])
    BY DEF ReachInv, GatewayInv
<1>2. \A x \in Requests : x # r => req'[x] = req[x]
    BY <1>1
<1>3. req'[r] = c
    BY <1>1
<1>4. ASSUME NEW x \in Requests PROVE Followed(req[x])'
  <2>1. CASE x = r
    <3> DEFINE d == req[x]
    <3>1. d' = c
      BY <1>3, <2>1
    <3> HIDE DEF d
    <3>2. Followed(d)'
      BY <3>1 DEF Followed, Asks, Passed, Chosen, Reason, Tried
    <3>3. QED
      BY <3>2 DEF d
  <2>2. CASE x # r
    <3>1. req[x] \in Call /\ req'[x] = req[x]
      BY <1>1, <1>2, <2>2
    <3>2. Followed(req[x])'
      <4> DEFINE d == req[x]
      <4>1. PICK e \in Call : e = d /\ Followed(e)
        BY <1>1, <3>1
      <4>2. Followed(e)'
        BY <4>1, FollowedStays
      <4> HIDE DEF d
      <4>3. d' = e
        BY <3>1, <4>1 DEF d
      <4>4. QED
        BY <4>2, <4>3 DEF d, Followed, Asks, Passed, Chosen, Reason, Tried
    <3>3. QED
      BY <3>2
  <2>3. QED
    BY <2>1, <2>2
<1>5. QED
    BY <1>4 DEF ReachInv

LEMMA FollowedQuiet ==
    ASSUME ReachInv, GatewayInv', NEW r \in Requests, NEW c \in Call, Followed(c),
           req' = [req EXCEPT ![r] = c], UNCHANGED <<admin, store, play, known>>
    PROVE  ReachInv'
<1>1. Reach' /\ Onward
    BY DEF ReachInv, Reach, Onward, OldIdsGone, Gone, admin, membership, store
<1>2. Followed(c)'
    BY <1>1, FollowedStays
<1>3. QED
    BY <1>1, <1>2, FollowedStep

\* The record of a request whose program counter moves.
LEMMA PcFields ==
    ASSUME NEW c \in Call, NEW pc \in {"find", "resolve", "write", "refused"}
    PROVE  LET d == [c EXCEPT !.pc = pc]
           IN  d \in Call /\ Kept(d, c) /\ d.pc = pc /\ d.srv = c.srv /\ d.orig = c.orig /\ d.n = c.n
<1> DEFINE d == [c EXCEPT !.pc = pc]
<1>1. d \in Call
    BY ZenonT(60) DEF Call
<1>2. Kept(d, c)
    BY DEF Call, Kept
<1>3. d.pc = pc /\ d.srv = c.srv /\ d.orig = c.orig /\ d.n = c.n
    BY DEF Call
<1>4. QED
    BY <1>1, <1>2, <1>3

LEMMA IdleFollowed == Idle \in Call /\ Followed(Idle) /\ Followed(Idle)'
<1>1. /\ Idle \in Call /\ Idle.pc = "idle" /\ Idle.n = 1 /\ Idle.v = None /\ Idle.q = None
      /\ Idle.p = None /\ Idle.about = None /\ Idle.kind = "login"
    BY DEF Idle, New, Call, Sources
<1>2. Followed(Idle)
    BY <1>1 DEF Followed, Asks, Passed, Chosen, OldIdsGone
<1>3. Followed(Idle)'
  <2> DEFINE c == Idle
  <2>1. c' = c
    BY DEF Idle, New
  <2>2. c.pc = "idle" /\ c.n = 1 /\ c.v = None /\ c.q = None
        /\ c.p = None /\ c.about = None /\ c.kind = "login"
    BY <1>1
  <2> HIDE DEF c
  <2>3. Followed(c)'
    BY <2>1, <2>2 DEF Followed, Asks, Passed, Chosen, OldIdsGone
  <2>4. QED
    BY <2>3 DEF c
<1>4. QED
    BY <1>1, <1>2, <1>3

\* A request is refused when it has been through what it names.
LEMMA RefusedFollowed ==
    ASSUME ReachInv, GatewayInv', NEW r \in Requests, Reason(req[r]), Refuse(r),
           UNCHANGED <<admin, store, play, known>>
    PROVE  ReachInv'
<1> DEFINE c == req[r]
           d == [c EXCEPT !.pc = "refused"]
<1>1. c \in Call /\ Followed(c) /\ Reason(c)
    BY DEF ReachInv, GatewayInv
<1>2. req' = [req EXCEPT ![r] = d]
    BY DEF Refuse
<1> HIDE DEF c
<1>3. d \in Call /\ Kept(d, c) /\ d.pc = "refused" /\ d.n = c.n
    BY <1>1, PcFields
<1> HIDE DEF d
<1>4. Followed(d)
  <2>1. Asks(d) /\ Passed(d)
    BY <1>1, <1>3, FollowedOn
  <2>2. Chosen(d) /\ Reason(d)
    BY <1>1, <1>3 DEF Chosen, Reason, Kept
  <2>3. QED
    BY <2>1, <2>2 DEF Followed
<1>5. QED
    BY <1>2, <1>3, <1>4, FollowedQuiet

\* What it names first, and for a stream second, is gone once it is past it.
LEMMA PastIsGone ==
    ASSUME NEW c \in Call, Followed(c),
           \/ c.kind \in {"info", "single", "image"} /\ c.n > 1
           \/ c.kind = "stream" /\ c.n > 2
           \/ c.kind = "stream" /\ c.n > 1 /\ c.v # None
           \/ c.kind \notin {"info", "single", "image", "stream"}
    PROVE  Reason(c)
<1>1. c.n \in Nat /\ (c.kind \in {"info", "single", "image"} => c.v # None)
    BY DEF Call, Followed, Asks
<1>2. c.n > 1 /\ c.kind \in {"info", "single", "image", "stream"} => Tried(c, "path")
  <2> SUFFICES ASSUME c.n > 1, c.kind \in {"info", "single", "image", "stream"} PROVE Tried(c, "path")
    OBVIOUS
  <2>1. 1 \in 1..(c.n - 1)
    BY <1>1
  <2>2. QED
    BY <2>1, Chains DEF Tried
<1>3. c.n > 2 /\ c.kind = "stream" => Tried(c, "query")
  <2> SUFFICES ASSUME c.n > 2, c.kind = "stream" PROVE Tried(c, "query")
    OBVIOUS
  <2>1. 2 \in 1..(c.n - 1)
    BY <1>1
  <2>2. QED
    BY <2>1, Chains DEF Tried
<1>4. QED
    BY <1>1, <1>2, <1>3 DEF Followed, Passed, Reason

\* What a source that hits says of the request.
LEMMA SourceNames ==
    ASSUME StateTypes, NEW r \in Requests, NEW s \in Named(r)
    PROVE  /\ Source(r) \in Named3 <=> Original(r) # None
           /\ Source(r) = "path" => req[r].v # None /\ s = Server(req[r].v)
           /\ Source(r) = "query" => req[r].q # None /\ s = Server(req[r].q)
           /\ Source(r) = "play" => req[r].p # None /\ s = Player(req[r].p)
<1>1. None \notin VirtualIds /\ None \notin Items /\ None \notin Plays
    BY GatewayAssumption DEF VirtualIds
<1>2. CASE Source(r) = "path"
  <2>1. s \in {Server(v) : v \in {req[r].v} \cap bound} /\ Original(r) = req[r].v[1]
    BY <1>2 DEF Named, Original
  <2>2. req[r].v \in VirtualIds /\ s = Server(req[r].v)
    BY <2>1 DEF StateTypes
  <2>3. QED
    <3>1. Original(r) \in Items /\ Source(r) \in Named3
      BY <1>2, <2>1, <2>2, ServerTypes DEF Named3
    <3>2. QED
      BY <1>1, <1>2, <2>2, <3>1
<1>3. CASE Source(r) = "query"
  <2>1. s \in {Server(v) : v \in {req[r].q} \cap bound} /\ Original(r) = req[r].q[1]
    BY <1>3 DEF Named, Original
  <2>2. req[r].q \in VirtualIds /\ s = Server(req[r].q)
    BY <2>1 DEF StateTypes
  <2>3. QED
    <3>1. Original(r) \in Items /\ Source(r) \in Named3
      BY <1>3, <2>1, <2>2, ServerTypes DEF Named3
    <3>2. QED
      BY <1>1, <1>3, <2>2, <3>1
<1>4. CASE Source(r) = "play"
  <2>1. s \in {Player(p) : p \in {req[r].p} \cap known} /\ Original(r) = play[req[r].p][1]
    BY <1>4 DEF Named, Original
  <2>2. play[req[r].p] \in VirtualIds /\ s = Player(req[r].p) /\ req[r].p \in Plays
    BY <2>1 DEF StateTypes
  <2>3. QED
    <3>1. Original(r) \in Items /\ Source(r) \in Named3
      BY <1>4, <2>1, <2>2, ServerTypes DEF Named3
    <3>2. QED
      BY <1>1, <1>4, <2>2, <3>1
<1>5. Source(r) \notin Named3 => Original(r) = None
    BY DEF Named3, Original
<1>6. QED
    BY <1>2, <1>3, <1>4, <1>5 DEF Named3

\* A source that misses names nothing, or something of a deleted upstream.
LEMMA SourceMisses ==
    ASSUME GatewayInv, Reach, NEW r \in Requests, Followed(req[r]), Named(r) = {}
    PROVE  /\ Source(r) = "path" /\ req[r].v # None => Gone(Server(req[r].v))
           /\ Source(r) = "query" /\ req[r].q # None => Gone(Server(req[r].q))
           /\ Source(r) = "play" => req[r].p \notin known
<1>1. req[r] \in Call /\ OldIdsGone({req[r].v}) /\ OldIdsGone({req[r].q})
    BY DEF GatewayInv, Followed, Asks, OldIdsGone
<1>2. req[r].v # None => req[r].v \in VirtualIds
    BY <1>1 DEF Call
<1>3. req[r].q # None => req[r].q \in VirtualIds
    BY <1>1 DEF Call
<1>4. ASSUME Source(r) = "path", req[r].v # None PROVE Gone(Server(req[r].v))
  <2>1. req[r].v \notin bound
    BY <1>4 DEF Named
  <2>2. QED
    BY <1>1, <1>2, <1>4, <2>1, Unresolved DEF Gone
<1>5. ASSUME Source(r) = "query", req[r].q # None PROVE Gone(Server(req[r].q))
  <2>1. req[r].q \notin bound
    BY <1>5 DEF Named
  <2>2. QED
    BY <1>1, <1>3, <1>5, <2>1, Unresolved DEF Gone
<1>6. Source(r) = "play" => req[r].p \notin known
    BY DEF Named
<1>7. QED
    BY <1>4, <1>5, <1>6

\* Looking through the chain.
LEMMA FollowedLook ==
    ASSUME ReachInv, GatewayInv', NEW r \in Requests,
           LookMisses(r) \/ LookHits(r) \/ LookOnline(r)
    PROVE  ReachInv'
<1> DEFINE c == req[r]
           x == Sources[c.kind][c.n]
<1>0. UNCHANGED <<admin, store, play, known>> /\ c.pc = "look"
    BY DEF LookMisses, LookHits, LookOnline, sessions
<1>1. /\ c \in Call /\ Followed(c) /\ Source(r) = x /\ StateTypes /\ Reach /\ GatewayInv
      /\ c.n \in Nat /\ c.n >= 1 /\ c.kind \in DOMAIN Sources
    BY DEF ReachInv, GatewayInv, Source, Followed, Passed, Call
<1>2. CASE LookMisses(r) /\ Exhausted(r)
  <2>1. c.n > Len(Sources[c.kind])
    BY <1>2 DEF Exhausted
  <2>2. Reason(c)
    <3>1. c.kind \in {"info", "single", "image"} => c.n > 1
      <4>1. c.kind \in {"info", "single", "image"} => Len(Sources[c.kind]) >= 1 /\ Len(Sources[c.kind]) \in Nat
        BY <1>1, Chains
      <4>2. QED
        BY <1>1, <2>1, <4>1
    <3>2. c.kind = "stream" => c.n > 2
      <4>1. c.kind = "stream" => Len(Sources[c.kind]) = 6
        BY Chains
      <4>2. QED
        BY <1>1, <2>1, <4>1
    <3> HIDE DEF c
    <3>3. QED
      BY <1>1, <3>1, <3>2, PastIsGone
  <2>3. QED
    BY <1>0, <1>2, <2>2, RefusedFollowed DEF LookMisses
<1>3. CASE LookMisses(r) /\ ~Exhausted(r)
  <2> DEFINE d == [c EXCEPT !.n = @ + 1]
  <2>1. req' = [req EXCEPT ![r] = d] /\ Named(r) = {}
    BY <1>3 DEF LookMisses
  <2>2. d \in Call /\ d.n = c.n + 1 /\ d.pc = c.pc
    BY <1>1 DEF Call
  <2>3. Kept(d, c)
    BY <1>1 DEF Call, Kept
  <2>4. /\ x = "path" /\ c.v # None => Gone(Server(c.v))
        /\ x = "query" /\ c.q # None => Gone(Server(c.q))
        /\ x = "play" => c.p \notin known
    BY <1>1, <2>1, SourceMisses
  <2>5. Followed(d)
    <3> HIDE DEF c, d
    <3>1. Asks(d) /\ Passed(d)
      BY <1>1, <2>2, <2>3, <2>4, FollowedOn
    <3>2. Chosen(d) /\ d.pc # "refused"
      BY <1>0, <2>2 DEF Chosen
    <3>3. QED
      BY <3>1, <3>2 DEF Followed
  <2>6. QED
    BY <1>0, <2>1, <2>2, <2>5, FollowedQuiet
<1>4. CASE LookHits(r)
  <2> DEFINE user == Source(r) = "token" /\ sess[req[r].t].user
  <2>1. PICK s \in Named(r) :
          req' = [req EXCEPT ![r] = [Names(@, s, Original(r)) EXCEPT !.pc = "find", !.user = user]]
    BY <1>4 DEF LookHits
  <2> DEFINE m == Names(c, s, Original(r))
             d == [m EXCEPT !.pc = "find", !.user = user]
  <2>2. user \in BOOLEAN
    OBVIOUS
  <2>3. s \in Servers \cup {None} /\ Original(r) \in Items \cup {None}
    BY <1>1, SourcesAgree
  <2>4. req' = [req EXCEPT ![r] = d]
    BY <2>1
  <2>5. m \in Call /\ m.srv = s /\ m.orig = Original(r) /\ m.n = c.n /\ Kept(m, c)
    BY <1>1, <2>3, NamesFields
  <2>6. d \in Call /\ d.pc = "find" /\ d.srv = s /\ d.orig = Original(r) /\ d.n = c.n /\ Kept(d, c)
    <3> HIDE DEF user, m
    <3>1. d \in Call /\ Kept(d, m) /\ d.pc = "find" /\ d.srv = m.srv /\ d.orig = m.orig /\ d.n = m.n
      BY <2>2, <2>5, FoundFields
    <3> HIDE DEF d
    <3>2. QED
      BY <2>5, <3>1 DEF Kept
  <2>7. /\ x \in Named3 <=> Original(r) # None
        /\ x = "path" => c.v # None /\ s = Server(c.v)
        /\ x = "query" => c.q # None /\ s = Server(c.q)
        /\ x = "play" => c.p # None /\ s = Player(c.p)
    BY <1>1, SourceNames
  <2>8. Followed(d)
    <3> HIDE DEF c, d
    <3>1. Asks(d) /\ Passed(d)
      BY <1>1, <2>6, FollowedOn
    <3>2. Chosen(d) /\ d.pc # "refused"
      BY <2>6, <2>7 DEF Chosen, Kept
    <3>3. QED
      BY <3>1, <3>2 DEF Followed
  <2>9. QED
    BY <1>0, <2>4, <2>6, <2>8, FollowedQuiet
<1>5. CASE LookOnline(r) /\ Refuse(r)
  <2>1. x = "online"
    BY <1>1, <1>5 DEF LookOnline
  <2>2. /\ c.kind \in {"info", "single", "image", "stream"} => c.n # 1
        /\ c.kind = "stream" => c.n # 2
    BY <2>1, Chains
  <2>3. Reason(c)
    BY <1>1, <2>2, PastIsGone
  <2>4. QED
    BY <1>0, <1>5, <2>3, RefusedFollowed
<1>6. CASE LookOnline(r) /\ ~Refuse(r)
  <2>1. x = "online"
    BY <1>1, <1>6 DEF LookOnline
  <2>2. PICK s \in Servers \cup {None}, pc \in {"resolve", "write"} :
          /\ pc = "resolve" => c.kind = "login"
          /\ req' = [req EXCEPT ![r] = [c EXCEPT !.srv = s, !.pc = pc]]
    <3>1. CASE \E s \in listed :
                 req' = [req EXCEPT ![r].srv = s,
                                    ![r].pc = IF req[r].kind = "login" THEN "resolve" ELSE "write"]
      <4>1. PICK s \in listed :
              req' = [req EXCEPT ![r].srv = s,
                                 ![r].pc = IF req[r].kind = "login" THEN "resolve" ELSE "write"]
        BY <3>1
      <4> DEFINE pc == IF c.kind = "login" THEN "resolve" ELSE "write"
      <4>2. req' = [req EXCEPT ![r] = [c EXCEPT !.srv = s, !.pc = pc]]
        BY <4>1
      <4>3. s \in Servers /\ pc \in {"resolve", "write"} /\ (pc = "resolve" => c.kind = "login")
        BY <1>1 DEF StateTypes
      <4>4. QED
        BY <4>2, <4>3
    <3>2. CASE req[r].kind = "login" /\ req' = [req EXCEPT ![r].pc = "resolve"]
      <4>1. req' = [req EXCEPT ![r] = [c EXCEPT !.srv = c.srv, !.pc = "resolve"]]
        BY <1>1, <3>2 DEF Call
      <4>2. c.srv \in Servers \cup {None}
        BY <1>1 DEF Call
      <4>3. QED
        BY <3>2, <4>1, <4>2
    <3>3. QED
      BY <1>6, <3>1, <3>2 DEF LookOnline
  <2> DEFINE d == [c EXCEPT !.srv = s, !.pc = pc]
  <2>3. d \in Call /\ d.pc = pc /\ d.n = c.n /\ d.orig = None
    <3>4. c.orig = None
      BY <1>0 DEF ReachInv, GatewayInv, Sound
    <3> HIDE DEF c
    <3>1. c \in Call
      BY <1>1
    <3>2. d \in Call
      BY <3>1, ZenonT(60) DEF Call
    <3>3. d.pc = pc /\ d.n = c.n /\ d.orig = c.orig
      BY <3>1 DEF Call
    <3>5. QED
      BY <3>2, <3>3, <3>4
  <2>4. Kept(d, c)
    BY <1>1 DEF Call, Kept
  <2>5. Followed(d)
    <3> HIDE DEF c, d
    <3>1. Asks(d) /\ Passed(d)
      BY <1>1, <2>3, <2>4, FollowedOn
    <3>2. Chosen(d) /\ d.pc # "refused"
      BY <2>1, <2>2, <2>3, <2>4 DEF Chosen, Kept, Named3
    <3>3. QED
      BY <3>1, <3>2 DEF Followed
  <2>6. QED
    BY <1>0, <2>2, <2>3, <2>5, FollowedQuiet
<1>7. QED
    BY <1>2, <1>3, <1>4, <1>5, <1>6

\* ByID: the upstream is still listed, or it is gone.
LEMMA FollowedFind ==
    ASSUME ReachInv, GatewayInv', NEW r \in Requests, Find(r)
    PROVE  ReachInv'
<1> DEFINE c == req[r]
           x == Sources[c.kind][c.n]
<1>0. UNCHANGED <<admin, store, play, known>> /\ c.pc = "find"
    BY DEF Find, sessions
<1>1. /\ c \in Call /\ Followed(c) /\ Reach /\ StateTypes /\ c.n \in Nat /\ c.n >= 1
    BY DEF ReachInv, GatewayInv, Followed, Passed, Call
<1>2. ASSUME NEW pc \in {"resolve", "write"}, pc = "resolve" => c.kind = "user",
             req' = [req EXCEPT ![r].pc = pc]
      PROVE  ReachInv'
  <2> DEFINE d == [c EXCEPT !.pc = pc]
  <2>1. req' = [req EXCEPT ![r] = d]
    BY <1>2
  <2> HIDE DEF c
  <2>2. /\ d \in Call /\ Kept(d, c) /\ d.pc = pc /\ d.srv = c.srv /\ d.orig = c.orig /\ d.n = c.n
    <3>1. c \in Call /\ pc \in {"find", "resolve", "write", "refused"}
      BY <1>1, <1>2
    <3>2. QED
      BY <3>1, PcFields
  <2>3. Followed(d)
    <3> HIDE DEF d
    <3>1. Asks(d) /\ Passed(d)
      BY <1>1, <2>2, FollowedOn
    <3>2. Chosen(d) /\ d.pc # "refused"
      BY <1>0, <1>1, <1>2, <2>2 DEF Followed, Chosen, Kept
    <3>3. QED
      BY <3>1, <3>2 DEF Followed
  <2>4. QED
    BY <1>0, <2>1, <2>2, <2>3, FollowedQuiet
<1>3. c.srv \notin listed =>
        /\ x = "path" => c.v # None /\ Gone(Server(c.v))
        /\ x = "query" => c.q # None /\ Gone(Server(c.q))
        /\ x = "play" => c.p # None /\ Gone(Player(c.p))
  <2>1. /\ c.v # None => Server(c.v) \in Servers
        /\ c.q # None => Server(c.q) \in Servers
        /\ c.p # None => Player(c.p) \in Servers
    <3>1. c.v \in VirtualIds \cup {None} /\ c.q \in VirtualIds \cup {None} /\ c.p \in Plays \cup {None}
      BY <1>1 DEF Call
    <3>2. c.p # None => play[c.p] \in VirtualIds
      BY <1>1, <3>1 DEF Followed, Asks, StateTypes
    <3>3. QED
      BY <3>1, <3>2, ServerTypes DEF Player
  <2>2. /\ x = "path" => c.v # None /\ c.srv = Server(c.v)
        /\ x = "query" => c.q # None /\ c.srv = Server(c.q)
        /\ x = "play" => c.p # None /\ c.srv = Player(c.p)
    BY <1>0, <1>1 DEF Followed, Chosen
  <2>3. QED
    BY <1>1, <2>1, <2>2 DEF Reach
<1>4. CASE c.srv \notin listed /\ Strict(c.kind, c.n)
  <2>1. Reason(c)
    <3>1. CASE c.kind \in {"info", "single", "image", "stream"} /\ c.n = 1
      BY <1>3, <1>4, <3>1, Chains DEF Reason
    <3>2. CASE c.kind = "stream" /\ c.n = 2
      <4>1. CASE c.v # None
        BY <1>1, <3>2, <4>1, PastIsGone
      <4>2. CASE c.v = None
        BY <1>3, <1>4, <3>2, <4>2, Chains DEF Reason
      <4>3. QED
        BY <4>1, <4>2
    <3>3. CASE c.kind = "stream" /\ c.n = 3
      BY <1>1, <3>3, PastIsGone
    <3>4. CASE c.kind = "user"
      BY <3>4 DEF Reason
    <3>5. QED
      BY <1>1, <1>4, <3>1, <3>2, <3>3, <3>4 DEF Strict
  <2>2. QED
    BY <1>0, <1>4, <2>1, RefusedFollowed DEF Find
<1>5. CASE c.srv \notin listed /\ ~Strict(c.kind, c.n)
  <2> DEFINE m == Names(c, None, None)
             n == c.n + 1
             d == [m EXCEPT !.pc = "look", !.n = n]
  <2>1. req' = [req EXCEPT ![r] = d]
    BY <1>5 DEF Find
  <2>2. m \in Call /\ Kept(m, c)
    BY <1>1, NamesFields
  <2>3. d \in Call /\ d.pc = "look" /\ d.n = c.n + 1 /\ Kept(d, c)
    <3>1. n \in Nat
      BY <1>1
    <3>2. QED
      <4> HIDE DEF m, n
      <4>1. d \in Call /\ d.pc = "look" /\ d.n = n /\ Kept(d, c)
        BY <2>2, <3>1, NextFields DEF Kept
      <4>2. QED
        BY <4>1 DEF n
  <2>4. Followed(d)
    <3> HIDE DEF c, d
    <3>1. Asks(d) /\ Passed(d)
      BY <1>1, <1>3, <1>5, <2>3, FollowedOn
    <3>2. Chosen(d) /\ d.pc # "refused"
      BY <2>3 DEF Chosen
    <3>3. QED
      BY <3>1, <3>2 DEF Followed
  <2>5. QED
    BY <1>0, <2>1, <2>3, <2>4, FollowedQuiet
<1>6. QED
    BY <1>2, <1>4, <1>5 DEF Find

\* Asking who the user is, and the call.
LEMMA FollowedCall ==
    ASSUME ReachInv, GatewayInv', NEW r \in Requests,
           ResolveUser(r) \/ Send(r) \/ CacheHit(r) \/ Fail(r) \/ Finish(r)
    PROVE  ReachInv'
<1> DEFINE c == req[r]
           x == Sources[c.kind][c.n]
<1>0. UNCHANGED <<admin, store, play, known>>
    BY DEF ResolveUser, Send, CacheHit, Fail, Finish, sessions
<1>1. /\ c \in Call /\ Followed(c) /\ c.n \in Nat /\ c.n >= 1
    BY DEF ReachInv, GatewayInv, Followed, Passed, Call
<1>2. CASE Done(r)
    BY <1>0, <1>2, IdleFollowed, FollowedQuiet DEF Done
<1>3. CASE ResolveUser(r) /\ Refuse(r)
  <2>1. Reason(c)
    BY <1>1, <1>3 DEF ResolveUser, Followed, Chosen, Reason
  <2>2. QED
    BY <1>0, <1>3, <2>1, RefusedFollowed
<1>4. CASE ResolveUser(r) /\ req' = [req EXCEPT ![r].pc = "write"]
  <2> DEFINE d == [c EXCEPT !.pc = "write"]
  <2>1. req' = [req EXCEPT ![r] = d] /\ c.pc = "resolve"
    BY <1>4 DEF ResolveUser
  <2> HIDE DEF c
  <2>2. /\ d \in Call /\ Kept(d, c) /\ d.pc = "write" /\ d.srv = c.srv /\ d.orig = c.orig /\ d.n = c.n
    BY <1>1, PcFields
  <2>3. Followed(d)
    <3> HIDE DEF d
    <3>1. Asks(d) /\ Passed(d)
      BY <1>1, <2>2, FollowedOn
    <3>2. Chosen(d) /\ d.pc # "refused"
      BY <1>1, <2>1, <2>2 DEF Followed, Chosen, Kept
    <3>3. QED
      BY <3>1, <3>2 DEF Followed
  <2>4. QED
    BY <1>0, <2>1, <2>2, <2>3, FollowedQuiet
<1>5. CASE Send(r) /\ NoTarget(r)
  <2>1. c.kind = "stream" /\ c.orig = None /\ c.pc = "write"
    BY <1>5 DEF Send, NoTarget
  <2>2. x \notin Named3
    BY <1>1, <2>1 DEF Followed, Chosen
  <2>3. c.n # 1 /\ c.n # 2
    BY <2>1, <2>2, Chains DEF Named3
  <2>4. Reason(c)
    BY <1>1, <2>1, <2>3, PastIsGone
  <2>5. QED
    BY <1>0, <1>5, <2>4, RefusedFollowed DEF Send
<1>6. CASE Send(r) /\ ~NoTarget(r)
  <2> DEFINE d == [c EXCEPT !.pc = "called", !.sent = Sent(r), !.query = Query(r)]
  <2>1. req' = [req EXCEPT ![r] = d] /\ c.pc = "write"
    BY <1>6 DEF Send
  <2>2. d \in Call
    <3>1. /\ Sent(r) \in Items \cup VirtualIds \cup {None}
          /\ Query(r) \in SUBSET (Items \cup VirtualIds)
      BY <1>1, SentIsOwn, QueryTypes DEF ReachInv, GatewayInv
    <3>2. QED
      BY <1>1, <3>1, ZenonT(60) DEF Call
  <2>3. Kept(d, c) /\ d.pc = "called" /\ d.srv = c.srv /\ d.orig = c.orig /\ d.n = c.n
    BY <1>1 DEF Call, Kept
  <2>4. Followed(d)
    <3> HIDE DEF c, d
    <3>1. Asks(d) /\ Passed(d)
      BY <1>1, <2>2, <2>3, FollowedOn
    <3>2. Chosen(d) /\ d.pc # "refused"
      BY <1>1, <2>1, <2>3 DEF Followed, Chosen, Kept
    <3>3. QED
      BY <3>1, <3>2 DEF Followed
  <2>5. QED
    BY <1>0, <2>1, <2>2, <2>4, FollowedQuiet
<1>7. QED
  <2>1. CASE ResolveUser(r)
    BY <1>2, <1>3, <1>4, <2>1 DEF ResolveUser
  <2>2. QED
    BY <1>2, <1>5, <1>6, <2>1 DEF CacheHit, Fail, Finish

\* The answer registers ids of the upstream called: late ones only when the
\* upstream has been cleaned up, which happens to deleted ones only.
LEMMA FollowedAnswer ==
    ASSUME ReachInv, GatewayInv', NEW r \in Requests, Answer(r)
    PROVE  ReachInv'
<1>1. /\ StateTypes /\ Reach /\ req[r] \in Call /\ Followed(req[r])
    BY DEF ReachInv, GatewayInv
<1>2. UNCHANGED <<listed, removed, hidden, cleaned>> /\ bound \subseteq bound'
      /\ bound' \subseteq bound \cup VidsOf(req[r].srv)
    BY DEF Answer, admin, membership
<1>3. OldIdsGone(VidsOf(req[r].srv))
  <2>1. ASSUME NEW i \in ItemsOf(req[r].srv), req[r].srv \in cleaned
        PROVE  SrvOf[i] \in removed
    BY <1>1, <2>1 DEF ItemsOf, StateTypes
  <2>2. \A v \in VidsOf(req[r].srv) : v[1] \in ItemsOf(req[r].srv) /\ (v[2] => req[r].srv \in cleaned)
    <3> DEFINE late == req[r].srv \in cleaned
    <3>1. late \in BOOLEAN /\ VidsOf(req[r].srv) = {<<i, late>> : i \in ItemsOf(req[r].srv)}
      BY DEF VidsOf
    <3>2. \A v \in VidsOf(req[r].srv) : v[1] \in ItemsOf(req[r].srv) /\ v[2] = late
      <4> HIDE DEF late
      <4> QED BY <3>1
    <3>3. QED
      BY <3>2
  <2>3. QED
    BY <2>1, <2>2 DEF OldIdsGone, Server
<1>4. /\ \A p \in Plays : OldIdsGone({play'[p]})
      /\ \A p \in Plays : play[p] # None => play'[p] = play[p] /\ (p \in known' => p \in known)
  <2>1. CASE UNCHANGED play /\ known' \subseteq known
    BY <1>1, <2>1 DEF Reach
  <2>2. ASSUME NEW p \in Plays, play[p] = None, play' = [play EXCEPT ![p] = req[r].v],
               known' = known \cup {p}
        PROVE  /\ \A o \in Plays : OldIdsGone({play'[o]})
               /\ \A o \in Plays : play[o] # None => play'[o] = play[o] /\ (o \in known' => o \in known)
    <3>1. OldIdsGone({req[r].v})
      BY <1>1 DEF Followed, Asks, OldIdsGone
    <3>2. \A o \in Plays : play'[o] = IF o = p THEN req[r].v ELSE play[o]
      BY <1>1, <2>2 DEF StateTypes
    <3>3. QED
      BY <1>1, <2>2, <3>1, <3>2 DEF Reach
  <2>3. QED
    BY <2>1, <2>2 DEF Answer
<1>5. Reach'
  <2>1. OldIdsGone(bound')
    BY <1>1, <1>2, <1>3 DEF Reach, OldIdsGone
  <2>2. \A i \in Items : <<i, FALSE>> \in bound' \/ SrvOf[i] \in removed'
    BY <1>1, <1>2 DEF Reach
  <2>3. QED
    BY <1>1, <1>2, <1>4, <2>1, <2>2 DEF Reach, OldIdsGone, Gone
<1>6. Onward
    BY <1>2, <1>4 DEF Onward
<1>7. Followed(Idle)'
    BY <1>6, IdleFollowed, FollowedStays
<1>8. QED
    BY <1>5, <1>6, <1>7, IdleFollowed, FollowedStep DEF Answer, Done

\* A request arrives; it names what the client was shown.
LEMMA FollowedBegin ==
    ASSUME ReachInv, GatewayInv', NEW r \in Requests, NEW k \in DOMAIN Sources,
           NEW v \in VirtualIds \cup {None}, NEW q \in VirtualIds \cup {None},
           NEW p \in Plays \cup {None}, NEW about \in Plays \cup {None},
           NEW t \in Tokens \cup {None},
           OldIdsGone({v, q}), k \in {"info", "single", "image"} => v # None,
           p # None => play[p] # None,
           about # None =>
             /\ k \in {"stream", "progress", "stopped"} /\ (k # "stream" => v = None)
             /\ play[about] # None
             /\ {v, q} \subseteq {None, play[about]} /\ p \in {None, about},
           Begin(r, k, v, q, p, about, t)
    PROVE  ReachInv'
<1> DEFINE c == [New(k, v, q, p, about, t) EXCEPT !.gone = removed]
<1>1. c \in Call
    BY DEF Call, New, ReachInv, GatewayInv, StateTypes
<1>2. req' = [req EXCEPT ![r] = c] /\ UNCHANGED <<admin, store, play, known>>
    BY DEF Begin, sessions
<1>3. /\ c.pc = "look" /\ c.kind = k /\ c.v = v /\ c.q = q /\ c.p = p /\ c.about = about /\ c.n = 1
    BY DEF New
<1> HIDE DEF c
<1>4. Asks(c)
    BY <1>3 DEF Asks
<1>5. \A x : ~Tried(c, x)
    BY <1>3 DEF Tried
<1>6. Followed(c)
    BY <1>3, <1>4, <1>5 DEF Followed, Passed, Chosen
<1>7. QED
    BY <1>1, <1>2, <1>6, FollowedQuiet

\* A stream arrives, with any ids in its URL.
LEMMA FollowedLoose ==
    ASSUME ReachInv, GatewayInv', NEW r \in Requests, BeginLoose(r), OldIdsGone(Shown),
           Shown \subseteq VirtualIds
    PROVE  ReachInv'
<1>1. PICK v \in Shown \cup {None}, q \in Shown \cup {None}, a \in Shown \cup {None},
           t \in Tokens, p \in {x \in Plays : play[x] # None} \cup {None} :
        req' = [req EXCEPT ![r] = [New("stream", v, q, p, None, t) EXCEPT
                                      !.also = a, !.gone = removed]]
    BY DEF BeginLoose
<1> DEFINE c == [New("stream", v, q, p, None, t) EXCEPT !.also = a, !.gone = removed]
<1>2. /\ v \in VirtualIds \cup {None} /\ q \in VirtualIds \cup {None} /\ a \in VirtualIds \cup {None}
      /\ "stream" \in DOMAIN Sources
    BY DEF Sources
<1>3. c \in Call
    BY <1>2 DEF Call, New, ReachInv, GatewayInv, StateTypes
<1>4. req' = [req EXCEPT ![r] = c] /\ UNCHANGED <<admin, store, play, known>>
    BY <1>1 DEF BeginLoose, sessions
<1>5. /\ c.pc = "look" /\ c.kind = "stream" /\ c.v = v /\ c.q = q /\ c.p = p /\ c.about = None /\ c.n = 1
    BY DEF New
<1>6. OldIdsGone({v, q}) /\ (p # None => play[p] # None)
    BY GatewayAssumption DEF OldIdsGone
<1> HIDE DEF c
<1>7. Asks(c)
    BY <1>5, <1>6 DEF Asks
<1>8. \A x : ~Tried(c, x)
    BY <1>5 DEF Tried
<1>9. Followed(c)
    BY <1>5, <1>7, <1>8 DEF Followed, Passed, Chosen
<1>10. QED
    BY <1>3, <1>4, <1>9, FollowedQuiet

\* Every step keeps the invariant.
LEMMA ReachInvNext == ReachInv /\ [GatewayNext]_vars => ReachInv'
<1> SUFFICES ASSUME ReachInv, [GatewayNext]_vars PROVE ReachInv'
    OBVIOUS
<1>0. GatewayInv'
    BY GatewayInvNext DEF ReachInv
<1>1. StateTypes /\ Reach /\ req \in [Requests -> Call]
    BY DEF ReachInv, GatewayInv
<1>2. Shown \subseteq VirtualIds /\ OldIdsGone(Shown) /\ None \notin VirtualIds
  <2>1. Shown \subseteq VirtualIds
    BY <1>1 DEF Shown, StateTypes, VirtualIds
  <2>2. \A v \in Items \X {FALSE} : v[2] = FALSE
    OBVIOUS
  <2>3. OldIdsGone(Shown)
    BY <1>1, <2>2 DEF Shown, Reach, OldIdsGone
  <2>4. QED
    BY <2>1, <2>3, GatewayAssumption DEF VirtualIds
<1>3. ASSUME NEW r \in Requests, NEW k \in {"info", "single", "image", "user"}, BeginShown(r, k)
      PROVE  ReachInv'
  <2>1. PICK v \in Shown, t \in Tokens : Begin(r, k, v, None, None, None, t)
    BY <1>3 DEF BeginShown
  <2>2. k \in DOMAIN Sources /\ OldIdsGone({v, None}) /\ v \in VirtualIds /\ v # None
    BY <1>2 DEF Sources, OldIdsGone
  <2>3. QED
    BY <1>0, <2>1, <2>2, FollowedBegin
<1>4. ASSUME NEW r \in Requests, NEW k \in {"fallback", "socket"}, BeginUnnamed(r, k) PROVE ReachInv'
  <2>1. PICK q \in Shown \cup {None}, t \in Tokens : Begin(r, k, None, q, None, None, t)
    BY <1>4 DEF BeginUnnamed
  <2>2. k \in DOMAIN Sources /\ OldIdsGone({None, q}) /\ q \in VirtualIds \cup {None}
    BY <1>2 DEF Sources, OldIdsGone
  <2>3. QED
    BY <1>0, <2>1, <2>2, FollowedBegin
<1>5. ASSUME NEW r \in Requests, BeginLogin(r) PROVE ReachInv'
  <2>1. PICK t \in Tokens : Begin(r, "login", None, None, None, None, t)
    BY <1>5 DEF BeginLogin
  <2>2. "login" \in DOMAIN Sources /\ OldIdsGone({None, None})
    BY DEF Sources, OldIdsGone
  <2>3. QED
    BY <1>0, <2>1, <2>2, FollowedBegin
<1>6. ASSUME NEW r \in Requests, BeginStream(r) PROVE ReachInv'
  <2>1. PICK p \in {x \in Plays : play[x] # None}, t \in Tokens :
          \E v \in {play[p], None}, q \in {play[p], None}, s \in {p, None} :
              Begin(r, "stream", v, q, s, p, t)
    BY <1>6 DEF BeginStream
  <2>2. PICK v \in {play[p], None}, q \in {play[p], None}, s \in {p, None} :
          Begin(r, "stream", v, q, s, p, t)
    BY <2>1
  <2>3. "stream" \in DOMAIN Sources /\ play[p] \in VirtualIds /\ OldIdsGone({v, q})
    BY <1>1 DEF Sources, StateTypes, Reach, OldIdsGone
  <2>4. QED
    BY <1>0, <2>2, <2>3, FollowedBegin
<1>7. ASSUME NEW r \in Requests, BeginReport(r) PROVE ReachInv'
  <2>1. PICK p \in {x \in Plays : play[x] # None}, k \in {"progress", "stopped"}, t \in Tokens :
          \E q \in {play[p], None} : Begin(r, k, None, q, p, p, t)
    BY <1>7 DEF BeginReport
  <2>2. PICK q \in {play[p], None} : Begin(r, k, None, q, p, p, t)
    BY <2>1
  <2>3. k \in DOMAIN Sources /\ play[p] \in VirtualIds /\ OldIdsGone({None, q})
    BY <1>1 DEF Sources, StateTypes, Reach, OldIdsGone
  <2>4. QED
    BY <1>0, <2>2, <2>3, FollowedBegin
<1>18. ASSUME NEW r \in Requests, BeginLoose(r) PROVE ReachInv'
    BY <1>0, <1>2, <1>18, FollowedLoose
<1>8. ASSUME NEW r \in Requests, Handle(r) PROVE ReachInv'
    BY <1>0, <1>8, FollowedLook, FollowedFind, FollowedCall, FollowedAnswer DEF Handle
<1>9. ASSUME UNCHANGED req, Reach', Onward PROVE ReachInv'
  <2>1. ASSUME NEW r \in Requests PROVE Followed(req[r])'
    <3>1. PICK c \in Call : c = req[r] /\ Followed(c)
      BY <1>1 DEF ReachInv
    <3>2. Followed(c)'
      BY <1>9, <3>1, FollowedStays
    <3>3. req'[r] = c
      BY <1>9, <3>1
    <3>4. QED
      BY <3>2, <3>3 DEF Followed, Asks, Passed, Chosen, Reason, Tried
  <2>2. QED
    BY <1>0, <1>9, <2>1 DEF ReachInv
<1>10. ASSUME NEW t \in Tokens, ExpireLogin(t) PROVE ReachInv'
  <2>1. Reach' /\ Onward
    BY <1>1, <1>10 DEF ExpireLogin, Reach, Onward, OldIdsGone, Gone, admin, membership, store
  <2>2. QED
    BY <1>9, <1>10, <2>1 DEF ExpireLogin
<1>11. ASSUME NEW p \in Plays, ExpirePlay(p) PROVE ReachInv'
  <2>1. Reach' /\ Onward
    BY <1>1, <1>11 DEF ExpirePlay, Reach, Onward, OldIdsGone, Gone, admin, membership, store
  <2>2. QED
    BY <1>9, <1>11, <2>1 DEF ExpirePlay
<1>12. ASSUME NEW s \in Servers, RemoveUpstream(s) PROVE ReachInv'
  <2>1. Reach' /\ Onward
    BY <1>1, <1>12 DEF RemoveUpstream, Leave, Reach, Onward, OldIdsGone, Gone, store, sessions
  <2>2. QED
    BY <1>9, <1>12, <2>1 DEF RemoveUpstream
<1>13. ASSUME NEW s \in Servers, CleanupServer(s) PROVE ReachInv'
  <2>1. s \in removed /\ UNCHANGED <<listed, removed, hidden, play, known, req>>
    BY <1>1, <1>13 DEF CleanupServer, StateTypes, membership, sessions
  <2>2. bound' \subseteq bound /\ \A i \in Items : <<i, FALSE>> \in bound' \/ SrvOf[i] \in removed
    BY <1>1, <1>13, <2>1 DEF CleanupServer, Reach, Server, store
  <2>3. Reach' /\ Onward
    BY <1>1, <2>1, <2>2 DEF Reach, Onward, OldIdsGone, Gone
  <2>4. QED
    BY <1>9, <2>1, <2>3
<1>14. ASSUME NEW s \in Servers, HideUpstream(s) PROVE ReachInv'
  <2>1. Reach' /\ Onward
    BY <1>1, <1>14 DEF HideUpstream, Relist, Reach, Onward, OldIdsGone, Gone, store, sessions
  <2>2. QED
    BY <1>9, <1>14, <2>1 DEF HideUpstream
<1>15. CASE Restart
  <2>1. \A r \in Requests : req'[r] = Idle
    BY <1>15 DEF Restart, Started
  <2>2. Reach'
    BY <1>1, <1>15 DEF Restart, Started, Relist, Reach, OldIdsGone, Gone
  <2>3. Followed(Idle)'
    BY IdleFollowed
  <2>4. \A r \in Requests : Followed(req[r])'
    <3> SUFFICES ASSUME NEW r \in Requests PROVE Followed(req[r])'
      OBVIOUS
    <3> DEFINE c == Idle
    <3>1. req'[r] = c /\ Followed(c)' /\ c' = c
      BY <2>1, <2>3 DEF Idle, New
    <3> HIDE DEF c
    <3>2. QED
      BY <3>1 DEF Followed, Asks, Passed, Chosen, Reason, Tried
  <2>5. QED
    BY <1>0, <2>2, <2>4 DEF ReachInv
<1>16. CASE UNCHANGED vars
  <2>1. Reach' /\ Onward
    BY <1>1, <1>16 DEF vars, Reach, Onward, OldIdsGone, Gone, admin, membership, store, sessions
  <2>2. QED
    BY <1>9, <1>16, <2>1 DEF vars
<1>17. QED
    BY <1>3, <1>4, <1>5, <1>6, <1>7, <1>8, <1>10, <1>11, <1>12, <1>13, <1>14, <1>15, <1>16, <1>18
       DEF GatewayNext, BeginInfo, BeginSingle, BeginImage, BeginUser, BeginFallback, BeginSocket

LEMMA ReachInvInit == GatewayInit => ReachInv
<1> SUFFICES ASSUME GatewayInit PROVE ReachInv
    OBVIOUS
<1>1. \A v \in Items \X {FALSE} : v[2] = FALSE
    OBVIOUS
<1>2. Reach
    BY <1>1 DEF GatewayInit, Reach, OldIdsGone, Gone
<1>3. \A r \in Requests : Followed(req[r])
    BY IdleFollowed DEF GatewayInit
<1>4. QED
    BY <1>2, <1>3, GatewayInvInit DEF ReachInv

LEMMA ReachInvHolds == GatewaySpec => []ReachInv
BY ReachInvInit, ReachInvNext, PTL DEF GatewaySpec

\* Something a client was shown is refused only when its upstream was deleted
\* or dropped from the list (selectUpstream*, originalIDForUpstream).
THEOREM RefusedIsGone == GatewaySpec => []RefusedOnlyWhenGone
<1>1. ReachInv => RefusedOnlyWhenGone
    BY DEF ReachInv, Followed, Reason, RefusedOnlyWhenGone, Gone
<1>2. QED
    BY <1>1, ReachInvHolds, PTL

\* What is played stays on its upstream while that is listed, and the player
\* says what it plays (selectUpstreamForPlaybackReport, resolveStreamTarget).
THEOREM PlaybackStays == GatewaySpec => []PlaybackStaysPut
<1>1. ReachInv => PlaybackStaysPut
  <2> SUFFICES ASSUME ReachInv, NEW r \in Requests, InCall(r), req[r].about # None,
                      req[r].srv # Player(req[r].about)
               PROVE  \/ Player(req[r].about) \in removed \cup hidden
                      \/ /\ req[r].about \notin known \/ req[r].p = None
                         /\ req[r].v = None /\ req[r].q = None
    BY DEF PlaybackStaysPut
  <2> DEFINE c == req[r]
             x == Sources[c.kind][c.n]
  <2>1. c \in Call /\ Asks(c) /\ Passed(c) /\ Chosen(c) /\ c.pc = "called" /\ c.n \in Nat /\ c.n >= 1
    BY DEF ReachInv, GatewayInv, Followed, Passed, InCall, Call
  <2>2. /\ c.kind \in {"stream", "progress", "stopped"} /\ (c.kind # "stream" => c.v = None)
        /\ c.v \in {None, play[c.about]} /\ c.q \in {None, play[c.about]} /\ c.p \in {None, c.about}
    BY <2>1 DEF Asks
  <2>3. x \notin Named3
    BY <2>1, <2>2 DEF Chosen, Player, Named3
  <2>4. /\ c.kind = "stream" => c.n > 3
        /\ c.kind # "stream" => c.n > 2
    <3>1. /\ c.kind = "stream" => c.n # 1 /\ c.n # 2 /\ c.n # 3
          /\ c.kind # "stream" => c.n # 1 /\ c.n # 2
      BY <2>2, <2>3, Chains DEF Named3
    <3>2. QED
      BY <2>1, <3>1
  <2>5. /\ c.kind = "stream" => Tried(c, "path") /\ Tried(c, "query") /\ Tried(c, "play")
        /\ c.kind # "stream" => Tried(c, "play") /\ Tried(c, "query")
    <3>1. /\ 1 \in 1..(c.n - 1) /\ 2 \in 1..(c.n - 1)
          /\ c.kind = "stream" => 3 \in 1..(c.n - 1)
      BY <2>1, <2>4
    <3>2. QED
      BY <2>2, <3>1, Chains DEF Tried
  <2>6. /\ c.v # None => Gone(Player(c.about))
        /\ c.q # None => Gone(Player(c.about))
        /\ c.p # None /\ c.p \in known => Gone(Player(c.about))
    BY <2>1, <2>2, <2>5 DEF Passed, Player
  <2>7. QED
    BY <2>2, <2>6 DEF Gone
<1>2. QED
    BY <1>1, ReachInvHolds, PTL

-----------------------------------------------------------------------------
(* Ids and the directory: as in Aggregate_proofs, here through restarts,   *)
(* failed cleanups and the answers of upstreams already deleted.           *)

\* The ids of an item: the one it has before its server is cleaned up, and the
\* one after.
Early(i) == <<i, FALSE>>
Late(i) == <<i, TRUE>>

IdOf(i) ==
    CASE Early(i) \in bound /\ Late(i) \notin bound -> Early(i)
      [] Late(i) \in bound /\ Early(i) \notin bound -> Late(i)
      [] OTHER -> None

UsedUp == bound \cup {Early(i) : i \in Items}

\* The virtual ids as a directory: the first id of every item was drawn before
\* the model begins.
ServerOf(i) == SrvOf[i]
Directory == INSTANCE IdDirectory WITH
    Keys <- Items, Vids <- VirtualIds, Srv <- ServerOf,
    bound <- [i \in Items |-> IdOf(i)],
    drawn <- UsedUp

\* An item has its first id until its server is cleaned up, and the other only
\* after that; a server is cleaned up once.
Timely ==
    /\ cleaning \cap cleaned = {}
    /\ \A i \in Items :
         /\ Early(i) \in bound <=> SrvOf[i] \notin cleaned
         /\ Late(i) \in bound => SrvOf[i] \in cleaned

\* There are no other ids, and no two items share one.
LEMMA TwoIds ==
    /\ \A v \in VirtualIds : \E i \in Items : v = Late(i) \/ v = Early(i)
    /\ \A i \in Items : Late(i) \in VirtualIds /\ Early(i) \in VirtualIds
    /\ \A i, j \in Items : Late(i) # Early(j)
    /\ \A i, j \in Items : (Late(i) = Late(j) => i = j) /\ (Early(i) = Early(j) => i = j)
    /\ \A i \in Items : Late(i)[1] = i /\ Early(i)[1] = i
    /\ None \notin VirtualIds
<1>1. ASSUME NEW v \in VirtualIds PROVE \E i \in Items : v = Late(i) \/ v = Early(i)
  <2>1. PICK i \in Items, b \in BOOLEAN : v = <<i, b>>
    BY DEF VirtualIds
  <2>2. CASE b = TRUE
    BY <2>1, <2>2 DEF Late
  <2>3. CASE b = FALSE
    BY <2>1, <2>3 DEF Early
  <2>4. QED
    BY <2>2, <2>3
<1>2. \A i \in Items : Late(i) \in VirtualIds /\ Early(i) \in VirtualIds
    BY DEF Late, Early, VirtualIds
<1>3. \A i, j \in Items : Late(i) # Early(j)
    BY DEF Late, Early
<1>4. /\ \A i, j \in Items : (Late(i) = Late(j) => i = j) /\ (Early(i) = Early(j) => i = j)
      /\ \A i \in Items : Late(i)[1] = i /\ Early(i)[1] = i
    BY DEF Late, Early
<1>5. None \notin VirtualIds
    BY GatewayAssumption DEF VirtualIds
<1>6. QED
    BY <1>1, <1>2, <1>3, <1>4, <1>5

\* What an answer of server s registers: the ids of its items that are due.
LEMMA AnswerIds ==
    ASSUME NEW s, NEW i \in Items
    PROVE  /\ Late(i) \in VidsOf(s) <=> SrvOf[i] = s /\ s \in cleaned
           /\ Early(i) \in VidsOf(s) <=> SrvOf[i] = s /\ s \notin cleaned
<1>1. CASE s \in cleaned
  <2>1. (s \in cleaned) = TRUE
    BY <1>1
  <2>2. VidsOf(s) = {Late(j) : j \in ItemsOf(s)}
    BY <2>1, Zenon DEF VidsOf, Late
  <2>3. QED
    BY <1>1, <2>2, TwoIds DEF ItemsOf
<1>2. CASE s \notin cleaned
  <2>1. (s \in cleaned) = FALSE
    BY <1>2
  <2>2. VidsOf(s) = {Early(j) : j \in ItemsOf(s)}
    BY <2>1, Zenon DEF VidsOf, Early
  <2>3. QED
    BY <1>2, <2>2, TwoIds DEF ItemsOf
<1>3. QED
    BY <1>1, <1>2

\* What a step does to the store: the ids of an answer are registered, those of
\* a server are forgotten, or nothing.
LEMMA StoreChanges ==
    ASSUME GatewayInv, Timely, [GatewayNext]_vars
    PROVE  /\ cleaning' \cap cleaned' = {}
           /\ \/ UNCHANGED store
              \/ cleaned' = cleaned /\ \E s : bound' = bound \cup VidsOf(s)
              \/ \E s \in Servers : /\ s \notin cleaned /\ cleaned' = cleaned \cup {s}
                                    /\ bound' = {v \in bound : Server(v) # s}
<1>1. ASSUME UNCHANGED <<admin, store>>
      PROVE  cleaning' \cap cleaned' = {} /\ UNCHANGED store
    BY <1>1 DEF Timely, admin, store
<1>2. ASSUME NEW r \in Requests,
             \/ BeginInfo(r) \/ BeginSingle(r) \/ BeginImage(r) \/ BeginUser(r)
             \/ BeginFallback(r) \/ BeginSocket(r)
             \/ BeginLogin(r) \/ BeginStream(r) \/ BeginLoose(r) \/ BeginReport(r)
      PROVE  UNCHANGED <<admin, store>>
    BY <1>2 DEF BeginInfo, BeginSingle, BeginImage, BeginUser, BeginFallback, BeginSocket,
                BeginLogin, BeginStream, BeginLoose, BeginReport, BeginShown, BeginUnnamed, Begin
<1>3. ASSUME NEW r \in Requests, Handle(r), ~Answer(r) PROVE UNCHANGED <<admin, store>>
  <2>1. CASE LookMisses(r) \/ LookHits(r) \/ LookOnline(r) \/ Find(r)
    BY <2>1, Zenon DEF LookMisses, LookHits, LookOnline, Find
  <2>2. CASE Send(r) \/ CacheHit(r) \/ Fail(r) \/ Finish(r)
    BY <2>2, Zenon DEF Send, CacheHit, Fail, Finish
  <2>3. CASE ResolveUser(r)
    BY <2>3, Zenon DEF ResolveUser
  <2>4. QED
    BY <1>3, <2>1, <2>2, <2>3 DEF Handle
<1>4. ASSUME NEW r \in Requests, Answer(r)
      PROVE  /\ UNCHANGED <<admin, cleaned>>
             /\ bound' = bound \/ bound' = bound \cup VidsOf(req[r].srv)
    BY <1>4 DEF Answer
<1>5. ASSUME (\E t \in Tokens : ExpireLogin(t)) \/ \E p \in Plays : ExpirePlay(p)
      PROVE  UNCHANGED <<admin, store>>
    BY <1>5 DEF ExpireLogin, ExpirePlay
<1>6. ASSUME NEW s \in Servers, RemoveUpstream(s)
      PROVE  cleaning' \cap cleaned' = {} /\ UNCHANGED store
    BY <1>6 DEF RemoveUpstream, Leave, GatewayInv, StateTypes, Timely, store
<1>7. ASSUME NEW s \in Servers, CleanupServer(s)
      PROVE  /\ cleaning' \cap cleaned' = {} /\ s \notin cleaned
             /\ \/ UNCHANGED store
                \/ cleaned' = cleaned \cup {s} /\ bound' = {v \in bound : Server(v) # s}
    BY <1>7 DEF CleanupServer, Timely, store
<1>8. ASSUME NEW s \in Servers, HideUpstream(s) PROVE cleaning' \cap cleaned' = {} /\ UNCHANGED store
    BY <1>8 DEF HideUpstream, Timely, store
<1>9. ASSUME Restart PROVE cleaning' \cap cleaned' = {} /\ UNCHANGED store
    BY <1>9 DEF Restart, Started, Timely, store
<1>10. ASSUME UNCHANGED vars PROVE UNCHANGED <<admin, store>>
    BY <1>10 DEF vars
<1>11. ASSUME NEW r \in Requests, Answer(r)
       PROVE  /\ cleaning' \cap cleaned' = {}
              /\ \/ UNCHANGED store
                 \/ cleaned' = cleaned /\ \E s : bound' = bound \cup VidsOf(s)
    BY <1>4, <1>11 DEF Timely, admin, store
<1>12. QED
    BY <1>1, <1>2, <1>3, <1>5, <1>6, <1>7, <1>8, <1>9, <1>10, <1>11 DEF GatewayNext

\* Which ids resolve after a step.
LEMMA Registered ==
    ASSUME NEW s, bound' = bound \cup VidsOf(s), NEW i \in Items
    PROVE  /\ Late(i) \in bound' <=> Late(i) \in bound \/ (SrvOf[i] = s /\ s \in cleaned)
           /\ Early(i) \in bound' <=> Early(i) \in bound \/ (SrvOf[i] = s /\ s \notin cleaned)
BY AnswerIds

LEMMA Forgotten ==
    ASSUME NEW s \in Servers, bound' = {v \in bound : Server(v) # s}, NEW i \in Items
    PROVE  /\ Late(i) \in bound' <=> Late(i) \in bound /\ SrvOf[i] # s
           /\ Early(i) \in bound' <=> Early(i) \in bound /\ SrvOf[i] # s
BY TwoIds DEF Server

LEMMA TimelyNext == GatewayInv /\ Timely /\ [GatewayNext]_vars => Timely'
<1> SUFFICES ASSUME GatewayInv, Timely, [GatewayNext]_vars PROVE Timely'
    OBVIOUS
<1> DEFINE Held(i) == /\ Early(i) \in bound' <=> SrvOf[i] \notin cleaned'
                      /\ Late(i) \in bound' => SrvOf[i] \in cleaned'
<1>1. cleaning' \cap cleaned' = {} /\ (\A i \in Items : Held(i)) => Timely'
    BY Zenon DEF Timely, Early, Late
<1>2. ASSUME UNCHANGED store, NEW i \in Items PROVE Held(i)
    BY <1>2 DEF Timely, store
<1>3. ASSUME cleaned' = cleaned, NEW s, bound' = bound \cup VidsOf(s), NEW i \in Items PROVE Held(i)
    BY <1>3, Registered DEF Timely
<1>4. ASSUME NEW s \in Servers, cleaned' = cleaned \cup {s}, bound' = {v \in bound : Server(v) # s},
             NEW i \in Items
      PROVE  Held(i)
    BY <1>4, Forgotten DEF Timely
<1> HIDE DEF Held
<1>5. QED
    BY <1>1, <1>2, <1>3, <1>4, StoreChanges

\* What a step does to the ids is a step of the directory.
LEMMA DirectoryStep ==
    ASSUME GatewayInv, Timely, [GatewayNext]_vars
    PROVE  [Directory!Next]_Directory!vars
<1> DEFINE R == [i \in Items |-> IdOf(i)]
           Q == R'
           D == UsedUp
           E == UsedUp'
<1>1. /\ \A i \in Items : Late(i) \in D <=> Late(i) \in bound
      /\ \A i \in Items : Early(i) \in D
      /\ D = bound \cup {Early(i) : i \in Items}
    BY TwoIds DEF UsedUp
<1>2. /\ \A i \in Items : Late(i) \in E <=> Late(i) \in bound'
      /\ \A i \in Items : Early(i) \in E
      /\ bound' \subseteq E
  <2>1. E = bound' \cup {Early(i) : i \in Items}
    BY DEF UsedUp, Early
  <2>2. QED
    BY <2>1, TwoIds
<1>3. \A i \in Items : R[i] = IF Early(i) \in bound THEN Early(i)
                              ELSE IF Late(i) \in bound THEN Late(i) ELSE None
    BY DEF IdOf, Timely
<1>4. \A i \in Items : Q[i] = IF Early(i) \in bound' THEN Early(i)
                              ELSE IF Late(i) \in bound' THEN Late(i) ELSE None
  <2> SUFFICES ASSUME NEW i \in Items
               PROVE  Q[i] = IF Early(i) \in bound' THEN Early(i)
                             ELSE IF Late(i) \in bound' THEN Late(i) ELSE None
    OBVIOUS
  <2>1. Q[i] = CASE Early(i) \in bound' /\ Late(i) \notin bound' -> Early(i)
                 [] Late(i) \in bound' /\ Early(i) \notin bound' -> Late(i)
                 [] OTHER -> None
    BY DEF IdOf, Early, Late
  <2>2. ~(Early(i) \in bound' /\ Late(i) \in bound')
    <3>1. Timely'
      BY TimelyNext
    <3>2. QED
      BY <3>1 DEF Timely, Early, Late
  <2> HIDE DEF Q
  <2>3. QED
    BY <2>1, <2>2
<1>5. Q \in [Items -> VirtualIds \cup {None}]
    BY <1>4, TwoIds
<1>6. ASSUME D \subseteq E,
             \/ /\ \A i \in Items : Q[i] # R[i] => R[i] = None /\ Q[i] \in E \ D
                /\ \A i, j \in Items : Q[i] # R[i] /\ Q[j] # R[j] /\ Q[i] = Q[j] => i = j
             \/ \E s \in Servers : Q = [i \in Items |-> IF ServerOf(i) = s THEN None ELSE R[i]]
      PROVE  Directory!Next
    BY <1>5, <1>6 DEF Directory!Next, Directory!Bind, Directory!Changed, Directory!Forget
<1>7. Q = [i \in Items |-> Q[i]] /\ (UNCHANGED store => Q = R /\ D = E)
    BY DEF store, IdOf, UsedUp
<1>8. CASE UNCHANGED store
    BY <1>7, <1>8 DEF Directory!vars
<1> HIDE DEF R, Q, D, E
<1>9. ASSUME cleaned' = cleaned, NEW s, bound' = bound \cup VidsOf(s) PROVE Directory!Next
  <2>1. \A i \in Items :
          /\ Late(i) \in bound' <=> Late(i) \in bound \/ (SrvOf[i] = s /\ s \in cleaned)
          /\ Early(i) \in bound' <=> Early(i) \in bound \/ (SrvOf[i] = s /\ s \notin cleaned)
    BY <1>9, Registered
  <2>2. D \subseteq E
    BY <1>1, <1>2, <1>9, <2>1
  <2>3. ASSUME NEW i \in Items, Q[i] # R[i]
        PROVE  R[i] = None /\ Q[i] = Late(i) /\ Q[i] \in E \ D
    BY <1>1, <1>2, <1>3, <1>4, <2>1, <2>3, TwoIds DEF Timely
  <2>4. \A i, j \in Items : Q[i] # R[i] /\ Q[j] # R[j] /\ Q[i] = Q[j] => i = j
    BY <2>3, TwoIds
  <2>5. QED
    BY <1>6, <2>2, <2>3, <2>4
<1>10. ASSUME NEW s \in Servers, s \notin cleaned, cleaned' = cleaned \cup {s},
              bound' = {v \in bound : Server(v) # s}
       PROVE  Directory!Next
  <2>1. \A i \in Items : /\ Late(i) \in bound' <=> Late(i) \in bound /\ SrvOf[i] # s
                         /\ Early(i) \in bound' <=> Early(i) \in bound /\ SrvOf[i] # s
    BY <1>10, Forgotten
  <2>2. D \subseteq E
    <3> SUFFICES ASSUME NEW v \in bound PROVE v \in E
      BY <1>1, <1>2
    <3>1. PICK i \in Items : v = Late(i) \/ v = Early(i)
      BY TwoIds DEF GatewayInv, StateTypes
    <3>2. QED
      BY <1>2, <1>10, <2>1, <3>1 DEF Timely
  <2>3. \A i \in Items : Q[i] = IF ServerOf(i) = s THEN None ELSE R[i]
    BY <1>3, <1>4, <2>1 DEF ServerOf
  <2>4. Q = [i \in Items |-> IF ServerOf(i) = s THEN None ELSE R[i]]
    BY <1>7, <2>3
  <2>5. QED
    BY <1>6, <2>2, <2>4
<1>11. QED
    BY <1>8, <1>9, <1>10, StoreChanges

\* The ids at the start are a directory at its start.
LEMMA IdsInit == GatewayInit => Timely /\ Directory!Init
<1> SUFFICES ASSUME GatewayInit PROVE Timely /\ Directory!Init
    OBVIOUS
<1> DEFINE R == [i \in Items |-> IdOf(i)]
<1>1. \A i \in Items : Early(i) \in bound /\ Late(i) \notin bound
    BY DEF GatewayInit, Early, Late
<1>2. Timely
    BY <1>1 DEF GatewayInit, Timely
<1>3. \A i \in Items : R[i] = Early(i)
    BY <1>1 DEF IdOf
<1> HIDE DEF R
<1>4. {R[i] : i \in Items} \ {None} \subseteq UsedUp
    BY <1>3 DEF UsedUp
<1>5. \A i, j \in Items : R[i] = R[j] /\ R[i] # None => i = j
    BY <1>3, TwoIds
<1>6. R \in [Items -> VirtualIds \cup {None}]
    BY <1>3, TwoIds DEF R
<1>7. QED
    BY <1>2, <1>4, <1>5, <1>6 DEF Directory!Init, R

\* Through every restart, failed cleanup and late answer of a deleted upstream,
\* the ids clients hold are those of a directory: an item keeps its id until a
\* cleanup of its server, and no id is ever given to another item
\* (json_ids.go, idmap/store.go:48-97, 215-245, 267-283).
THEOREM GatewayIdsAreDirectory == GatewaySpec => Directory!Spec
<1>1. GatewayInv /\ Timely /\ [GatewayNext]_vars => [Directory!Next]_Directory!vars
    BY DirectoryStep
<1>2. QED
    BY <1>1, GatewayInvHolds, IdsInit, TimelyNext, PTL DEF GatewaySpec, Directory!Spec

-----------------------------------------------------------------------------
(* The ids a request carries.  Those in the query of a stream are the       *)
(* upstream's own when the request names one server: then whichever id      *)
(* named the upstream named that server.  One more invariant rules out an   *)
(* upstream no id named: an id that did not resolve when the path was       *)
(* looked at never does again, so that such a stream has no target.         *)

\* Late ids stay; and a stream that is past its path has one that is lost.
Firm(c) ==
    /\ c.v # None /\ c.v[2] => c.v \in bound
    /\ c.kind = "stream" /\ c.n > 1 /\ c.v # None => c.v \notin bound

\* What a stream was sent with.
QueryIsOwn(c) ==
    c.pc = "called" /\ OneServer(c) => \A i \in Items \cap c.query : SrvOf[i] = c.srv

OwnInv ==
    /\ ReachInv /\ Timely
    /\ \A p \in Plays : play[p] # None /\ play[p][2] => play[p] \in bound
    /\ \A r \in Requests : Firm(req[r]) /\ QueryIsOwn(req[r])

\* Ids of two kinds: which of them a step may take out of the store, or put in.
LEMMA BoundChanges ==
    ASSUME GatewayInv, Timely, [GatewayNext]_vars, NEW v \in VirtualIds
    PROVE  /\ v[2] /\ v \in bound => v \in bound'
           /\ ~v[2] /\ v \notin bound => v \notin bound'
<1>1. Timely'
    BY TimelyNext
<1>2. PICK i \in Items : v = Late(i) \/ v = Early(i)
    BY TwoIds
<1>3. CASE v = Late(i)
  <2>1. v[2] = TRUE
    BY <1>3 DEF Late
  <2>2. ASSUME Late(i) \in bound PROVE Late(i) \in bound'
    <3>1. SrvOf[i] \in cleaned
      BY <2>2 DEF Timely
    <3>2. ASSUME NEW s \in Servers, s \notin cleaned, bound' = {u \in bound : Server(u) # s}
          PROVE  Late(i) \in bound'
      BY <2>2, <3>1, <3>2, Forgotten
    <3>3. QED
      BY <2>2, <3>2, StoreChanges DEF store
  <2>3. QED
    BY <1>3, <2>1, <2>2
<1>4. CASE v = Early(i)
  <2>1. v[2] = FALSE
    BY <1>4 DEF Early
  <2>2. ASSUME Early(i) \notin bound PROVE Early(i) \notin bound'
    <3>1. SrvOf[i] \in cleaned
      BY <2>2 DEF Timely
    <3>2. SrvOf[i] \in cleaned'
      BY <3>1, StoreChanges DEF store
    <3>3. QED
      BY <1>1, <3>2 DEF Timely, Early
  <2>3. QED
    BY <1>4, <2>1, <2>2
<1>5. QED
    BY <1>2, <1>3, <1>4

\* A request that has just come, one that goes on, and what the rest may become.
Fresh(c) ==
    /\ c.pc = "look" /\ c.n = 1
    /\ c.v # None /\ c.v[2] => c.v \in bound

Moved(c, d) ==
    /\ Kept(d, c) /\ d.pc # "called"
    /\ \/ d.n = c.n
       \/ d.n = c.n + 1 /\ (c.kind = "stream" /\ c.n = 1 /\ c.v # None => c.v \notin bound)

Begins(r) ==
    \/ BeginInfo(r) \/ BeginSingle(r) \/ BeginImage(r) \/ BeginUser(r)
    \/ BeginFallback(r) \/ BeginSocket(r)
    \/ BeginLogin(r) \/ BeginStream(r) \/ BeginLoose(r) \/ BeginReport(r)

LEMMA BeginsFresh ==
    ASSUME OwnInv, NEW r \in Requests, Begins(r)
    PROVE  \E c : req' = [req EXCEPT ![r] = c] /\ Fresh(c)
<1>1. \A v \in Shown : v[2] => v \in bound
  <2>1. \A v \in Items \X {FALSE} : v[2] = FALSE
    OBVIOUS
  <2>2. QED
    BY <2>1 DEF Shown
<1>2. ASSUME NEW k, NEW v, NEW q, NEW p, NEW about, NEW t, Begin(r, k, v, q, p, about, t),
             v # None /\ v[2] => v \in bound
      PROVE  \E c : req' = [req EXCEPT ![r] = c] /\ Fresh(c)
  <2> DEFINE c == [New(k, v, q, p, about, t) EXCEPT !.gone = removed]
  <2>1. req' = [req EXCEPT ![r] = c]
    BY <1>2 DEF Begin
  <2>2. c.pc = "look" /\ c.n = 1 /\ c.v = v
    BY DEF New
  <2> HIDE DEF c
  <2>3. Fresh(c)
    BY <1>2, <2>2 DEF Fresh
  <2>4. QED
    BY <2>1, <2>3
<1>3. CASE BeginLoose(r)
  <2>1. PICK v \in Shown \cup {None}, q \in Shown \cup {None}, a \in Shown \cup {None},
             t \in Tokens, p \in {x \in Plays : play[x] # None} \cup {None} :
          req' = [req EXCEPT ![r] = [New("stream", v, q, p, None, t) EXCEPT
                                        !.also = a, !.gone = removed]]
    BY <1>3 DEF BeginLoose
  <2> DEFINE c == [New("stream", v, q, p, None, t) EXCEPT !.also = a, !.gone = removed]
  <2>2. req' = [req EXCEPT ![r] = c]
    BY <2>1
  <2>3. c.pc = "look" /\ c.n = 1 /\ c.v = v
    BY DEF New
  <2> HIDE DEF c
  <2>4. Fresh(c)
    BY <1>1, <2>3 DEF Fresh
  <2>5. QED
    BY <2>2, <2>4
<1>4. CASE BeginInfo(r) \/ BeginSingle(r) \/ BeginImage(r) \/ BeginUser(r)
  <2>1. PICK k : BeginShown(r, k)
    BY <1>4 DEF BeginInfo, BeginSingle, BeginImage, BeginUser
  <2>2. PICK v \in Shown, t \in Tokens : Begin(r, k, v, None, None, None, t)
    BY <2>1 DEF BeginShown
  <2>3. QED
    BY <1>1, <1>2, <2>2
<1>5. CASE BeginFallback(r) \/ BeginSocket(r)
  <2>1. PICK k : BeginUnnamed(r, k)
    BY <1>5 DEF BeginFallback, BeginSocket
  <2>2. PICK q \in Shown \cup {None}, t \in Tokens : Begin(r, k, None, q, None, None, t)
    BY <2>1 DEF BeginUnnamed
  <2>3. QED
    BY <1>2, <2>2
<1>6. CASE BeginLogin(r)
  <2>1. PICK t \in Tokens : Begin(r, "login", None, None, None, None, t)
    BY <1>6 DEF BeginLogin
  <2>2. QED
    BY <1>2, <2>1
<1>7. CASE BeginStream(r)
  <2>1. PICK p \in {x \in Plays : play[x] # None}, t \in Tokens :
          \E v \in {play[p], None}, q \in {play[p], None}, z \in {p, None} :
              Begin(r, "stream", v, q, z, p, t)
    BY <1>7 DEF BeginStream
  <2>2. PICK v \in {play[p], None}, q \in {play[p], None}, z \in {p, None} :
          Begin(r, "stream", v, q, z, p, t)
    BY <2>1
  <2>3. v # None /\ v[2] => v \in bound
    BY <2>2 DEF OwnInv
  <2>4. QED
    BY <1>2, <2>2, <2>3
<1>8. CASE BeginReport(r)
  <2>1. PICK p \in {x \in Plays : play[x] # None}, k \in {"progress", "stopped"}, t \in Tokens :
          \E q \in {play[p], None} : Begin(r, k, None, q, p, p, t)
    BY <1>8 DEF BeginReport
  <2>2. PICK q \in {play[p], None} : Begin(r, k, None, q, p, p, t)
    BY <2>1
  <2>3. QED
    BY <1>2, <2>2
<1>9. QED
    BY <1>3, <1>4, <1>5, <1>6, <1>7, <1>8 DEF Begins

LEMMA HandleMoves ==
    ASSUME OwnInv, NEW r \in Requests, Handle(r), ~(Send(r) /\ ~NoTarget(r))
    PROVE  \E c : req' = [req EXCEPT ![r] = c] /\ (c = Idle \/ Moved(req[r], c))
<1>1. /\ StateTypes /\ req[r] \in Call /\ req[r].n \in Nat /\ req[r].n >= 1
      /\ req[r].pc # "idle" => req[r].kind \in DOMAIN Sources
    BY DEF OwnInv, ReachInv, GatewayInv, Followed, Passed, Call
<1>2. CASE Done(r)
    BY <1>2 DEF Done
<1>3. ASSUME NEW pc \in {"resolve", "write", "refused"}, req' = [req EXCEPT ![r].pc = pc]
      PROVE  \E c : req' = [req EXCEPT ![r] = c] /\ Moved(req[r], c)
  <2> DEFINE c == [req[r] EXCEPT !.pc = pc]
  <2>1. req' = [req EXCEPT ![r] = c]
    BY <1>3
  <2>2. Kept(c, req[r]) /\ c.pc = pc /\ c.n = req[r].n
    <3>1. req[r] \in Call /\ pc \in {"find", "resolve", "write", "refused"}
      BY <1>1, <1>3
    <3>2. QED
      BY <3>1, PcFields
  <2>3. pc # "called"
    BY <1>3
  <2> HIDE DEF c
  <2>4. Moved(req[r], c)
    BY <2>2, <2>3 DEF Moved
  <2>5. QED
    BY <2>1, <2>4
<1>4. CASE Refuse(r)
    BY <1>3, <1>4 DEF Refuse
<1>5. CASE LookMisses(r) /\ ~Exhausted(r)
  <2> DEFINE c == [req[r] EXCEPT !.n = @ + 1]
  <2>1. req' = [req EXCEPT ![r] = c] /\ Named(r) = {} /\ req[r].pc = "look"
    BY <1>5 DEF LookMisses
  <2>2. c.n = req[r].n + 1 /\ c.pc = "look" /\ Kept(c, req[r])
    BY <1>1, <2>1 DEF Call, Kept
  <2>3. ASSUME req[r].kind = "stream", req[r].n = 1 PROVE req[r].v \notin bound
    <3>1. Source(r) = "path"
      BY <2>3, Chains DEF Source
    <3>2. QED
      BY <2>1, <3>1 DEF Named
  <2> HIDE DEF c
  <2>4. Moved(req[r], c)
    BY <2>2, <2>3 DEF Moved
  <2>5. QED
    BY <2>1, <2>4
<1>6. CASE LookHits(r)
  <2> DEFINE user == Source(r) = "token" /\ sess[req[r].t].user
  <2>1. PICK s \in Named(r) :
          req' = [req EXCEPT ![r] = [Names(@, s, Original(r)) EXCEPT !.pc = "find", !.user = user]]
    BY <1>6 DEF LookHits
  <2> DEFINE d == Names(req[r], s, Original(r))
             c == [d EXCEPT !.pc = "find", !.user = user]
  <2>2. user \in BOOLEAN
    OBVIOUS
  <2>3. s \in Servers \cup {None} /\ Original(r) \in Items \cup {None}
    BY <1>1, SourcesAgree
  <2>4. req' = [req EXCEPT ![r] = c]
    BY <2>1
  <2>5. d \in Call /\ d.n = req[r].n /\ Kept(d, req[r])
    BY <1>1, <2>3, NamesFields
  <2>6. Moved(req[r], c)
    <3> HIDE DEF user, d
    <3>1. Kept(c, d) /\ c.pc = "find" /\ c.n = d.n
      BY <2>2, <2>5, FoundFields
    <3> HIDE DEF c
    <3>2. QED
      BY <2>5, <3>1 DEF Kept, Moved
  <2>7. QED
    BY <2>4, <2>6
<1>7. CASE LookOnline(r) /\ ~Refuse(r)
  <2>1. CASE \E s \in listed :
               req' = [req EXCEPT ![r].srv = s,
                                  ![r].pc = IF req[r].kind = "login" THEN "resolve" ELSE "write"]
    <3>1. PICK s \in listed :
            req' = [req EXCEPT ![r].srv = s,
                               ![r].pc = IF req[r].kind = "login" THEN "resolve" ELSE "write"]
      BY <2>1
    <3> DEFINE pc == IF req[r].kind = "login" THEN "resolve" ELSE "write"
               c == [req[r] EXCEPT !.srv = s, !.pc = pc]
    <3>2. req' = [req EXCEPT ![r] = c]
      BY <3>1
    <3>3. c.n = req[r].n /\ c.pc # "called" /\ Kept(c, req[r])
      BY <1>1 DEF Call, Kept
    <3> HIDE DEF c
    <3>4. Moved(req[r], c)
      BY <3>3 DEF Moved
    <3>5. QED
      BY <3>2, <3>4
  <2>2. CASE req' = [req EXCEPT ![r].pc = "resolve"]
    BY <1>3, <2>2
  <2>3. QED
    BY <1>7, <2>1, <2>2 DEF LookOnline
<1>8. CASE Find(r) /\ ~Refuse(r)
  <2>1. CASE req[r].srv \in listed
    BY <1>3, <1>8, <2>1 DEF Find
  <2>2. CASE req[r].srv \notin listed
    <3> DEFINE d == Names(req[r], None, None)
               n == req[r].n + 1
               c == [d EXCEPT !.pc = "look", !.n = n]
    <3>1. req' = [req EXCEPT ![r] = c] /\ ~Strict(req[r].kind, req[r].n)
      BY <1>8, <2>2 DEF Find
    <3>2. d \in Call /\ Kept(d, req[r])
      BY <1>1, NamesFields
    <3>3. Kept(c, d) /\ c.pc = "look" /\ c.n = n
      <4>1. n \in Nat
        BY <1>1
      <4>2. QED
        <5> HIDE DEF d, n
        <5> QED BY <3>2, <4>1, NextFields
    <3> HIDE DEF c, d
    <3>4. ~(req[r].kind = "stream" /\ req[r].n = 1)
      BY <3>1 DEF Strict
    <3>5. Moved(req[r], c)
      BY <3>2, <3>3, <3>4 DEF Kept, Moved
    <3>6. QED
      BY <3>1, <3>5
  <2>3. QED
    BY <2>1, <2>2
<1>9. CASE ResolveUser(r)
  <2>1. Done(r) \/ Refuse(r) \/ req' = [req EXCEPT ![r].pc = "write"]
    BY <1>9 DEF ResolveUser
  <2>2. QED
    BY <1>2, <1>3, <1>4, <2>1
<1>10. LookMisses(r) /\ Exhausted(r) => Refuse(r)
    BY DEF LookMisses
<1>11. Send(r) => Refuse(r)
    BY DEF Send
<1>12. CacheHit(r) \/ Answer(r) \/ Fail(r) \/ Finish(r) => Done(r)
    BY DEF CacheHit, Answer, Fail, Finish
<1>13. QED
    BY <1>2, <1>4, <1>5, <1>6, <1>7, <1>8, <1>9, <1>10, <1>11, <1>12 DEF Handle

\* What a step does to a request.
LEMMA RequestChanges ==
    ASSUME OwnInv, [GatewayNext]_vars, NEW r \in Requests
    PROVE  \/ req'[r] = req[r] \/ req'[r] = Idle
           \/ Fresh(req'[r]) \/ Moved(req[r], req'[r])
           \/ Send(r) /\ ~NoTarget(r)
<1>1. req \in [Requests -> Call]
    BY DEF OwnInv, ReachInv, GatewayInv
<1>2. ASSUME NEW x \in Requests, NEW c, req' = [req EXCEPT ![x] = c]
      PROVE  req'[r] = req[r] \/ (x = r /\ req'[r] = c)
    BY <1>1, <1>2
<1>3. ASSUME NEW x \in Requests, Begins(x) PROVE req'[r] = req[r] \/ Fresh(req'[r])
    BY <1>2, <1>3, BeginsFresh
<1>4. ASSUME NEW x \in Requests, Handle(x), ~(Send(x) /\ ~NoTarget(x))
      PROVE  req'[r] = req[r] \/ req'[r] = Idle \/ Moved(req[r], req'[r])
    BY <1>2, <1>4, HandleMoves
<1>5. ASSUME NEW x \in Requests, Send(x), ~NoTarget(x)
      PROVE  req'[r] = req[r] \/ (Send(r) /\ ~NoTarget(r))
  <2> DEFINE c == [req[x] EXCEPT !.pc = "called", !.sent = Sent(x), !.query = Query(x)]
  <2>1. req' = [req EXCEPT ![x] = c]
    BY <1>5 DEF Send
  <2> HIDE DEF c
  <2>2. CASE x = r
    BY <1>5, <2>2
  <2>3. CASE x # r
    BY <1>2, <2>1, <2>3
  <2>4. QED
    BY <2>2, <2>3
<1>6. CASE Restart
    BY <1>6 DEF Restart, Started
<1>7. ASSUME \/ \E t \in Tokens : ExpireLogin(t)
             \/ \E p \in Plays : ExpirePlay(p)
             \/ \E s \in Servers : RemoveUpstream(s) \/ CleanupServer(s) \/ HideUpstream(s)
             \/ UNCHANGED vars
      PROVE  req' = req
    BY <1>7 DEF ExpireLogin, ExpirePlay, RemoveUpstream, CleanupServer, HideUpstream, vars
<1>8. QED
    BY <1>3, <1>4, <1>5, <1>6, <1>7 DEF GatewayNext, Begins

\* What a step does to the playback sessions: one may be made, for what an info
\* request asked for.
LEMMA PlayChanges ==
    ASSUME OwnInv, [GatewayNext]_vars, NEW p \in Plays
    PROVE  \/ play'[p] = play[p]
           \/ play[p] = None /\ \E r \in Requests : play'[p] = req[r].v
<1>1. ASSUME NEW r \in Requests, Begins(r) PROVE UNCHANGED play
    BY <1>1 DEF Begins, BeginInfo, BeginSingle, BeginImage, BeginUser, BeginFallback, BeginSocket,
                BeginLogin, BeginStream, BeginLoose, BeginReport, BeginShown, BeginUnnamed, Begin,
                sessions
<1>2. ASSUME NEW r \in Requests, Handle(r), ~Answer(r) PROVE UNCHANGED play
  <2>1. CASE LookMisses(r) \/ LookHits(r) \/ LookOnline(r) \/ Find(r)
    BY <2>1, Zenon DEF LookMisses, LookHits, LookOnline, Find, sessions
  <2>2. CASE Send(r) \/ CacheHit(r) \/ Fail(r) \/ Finish(r)
    BY <2>2, Zenon DEF Send, CacheHit, Fail, Finish, sessions
  <2>3. CASE ResolveUser(r)
    BY <2>3, Zenon DEF ResolveUser
  <2>4. QED
    BY <1>2, <2>1, <2>2, <2>3 DEF Handle
<1>3. ASSUME NEW r \in Requests, Answer(r)
      PROVE  \/ play'[p] = play[p]
             \/ play[p] = None /\ \E x \in Requests : play'[p] = req[x].v
  <2>1. play \in [Plays -> VirtualIds \cup {None}]
    BY DEF OwnInv, ReachInv, GatewayInv, StateTypes
  <2>2. \/ UNCHANGED play
        \/ \E o \in {x \in Plays : play[x] = None} : play' = [play EXCEPT ![o] = req[r].v]
    BY <1>3 DEF Answer
  <2>3. QED
    BY <2>1, <2>2
<1>4. ASSUME \/ \E t \in Tokens : ExpireLogin(t)
             \/ \E o \in Plays : ExpirePlay(o)
             \/ \E s \in Servers : RemoveUpstream(s) \/ CleanupServer(s) \/ HideUpstream(s)
             \/ Restart
             \/ UNCHANGED vars
      PROVE  UNCHANGED play
    BY <1>4 DEF ExpireLogin, ExpirePlay, RemoveUpstream, CleanupServer, HideUpstream, Restart, Started,
                vars, sessions
<1>5. QED
    BY <1>1, <1>2, <1>3, <1>4 DEF GatewayNext, Begins

\* A stream that is sent names one server in its query: the upstream's, for one
\* of the ids named it.
LEMMA QuerySent ==
    ASSUME OwnInv, NEW r \in Requests, Send(r), ~NoTarget(r), OneServer(req[r]),
           NEW i \in Items \cap Query(r)
    PROVE  SrvOf[i] = req[r].srv
<1> DEFINE c == req[r]
           x == Sources[c.kind][c.n]
<1>1. /\ c \in Call /\ Asks(c) /\ Chosen(c) /\ Firm(c) /\ c.n \in Nat /\ c.n >= 1
      /\ c.pc = "write"
    BY DEF OwnInv, ReachInv, GatewayInv, Followed, Passed, Call, Send
<1>2. PICK id \in {c.q, c.also} \ {None} : i = Resolved(id) /\ c.kind = "stream"
    BY DEF Query
<1>3. id \in VirtualIds /\ id # None /\ id \in Ids(c)
    BY <1>1, <1>2 DEF Call, Ids
<1>4. SrvOf[i] = Server(id)
    BY <1>2, <1>3, GatewayAssumption DEF Resolved, Server, VirtualIds
<1>5. \A y \in Ids(c) : Server(y) = Server(id)
    BY <1>3 DEF OneServer
<1>6. CASE x = "path"
    BY <1>1, <1>4, <1>5, <1>6 DEF Chosen, Ids
<1>7. CASE x = "query"
    BY <1>1, <1>4, <1>5, <1>7 DEF Chosen, Ids
<1>8. CASE x = "play"
    BY <1>1, <1>4, <1>5, <1>8 DEF Chosen, Ids, Asks, Player
<1>9. CASE x \notin Named3
  <2>1. c.orig = None /\ c.n # 1
    BY <1>1, <1>2, <1>9, Chains DEF Chosen, Named3
  <2>2. c.v # None /\ OriginalsFor(c.v, c.srv) # {}
    BY <1>2, <2>1 DEF NoTarget
  <2>3. c.v \in bound
    BY <2>2 DEF OriginalsFor
  <2>4. QED
    BY <1>1, <1>2, <2>1, <2>2, <2>3 DEF Firm
<1>10. QED
    BY <1>6, <1>7, <1>8, <1>9 DEF Named3

\* Every step keeps the invariant.
LEMMA OwnNext == OwnInv /\ [GatewayNext]_vars => OwnInv'
<1> SUFFICES ASSUME OwnInv, [GatewayNext]_vars PROVE OwnInv'
    OBVIOUS
<1>1. ReachInv /\ GatewayInv /\ Timely
    BY DEF OwnInv, ReachInv
<1>2. ReachInv' /\ Timely'
    BY <1>1, ReachInvNext, TimelyNext
<1>3. \A v \in VirtualIds :
        /\ v[2] /\ v \in bound => v \in bound'
        /\ ~v[2] /\ v \notin bound => v \notin bound'
    BY <1>1, BoundChanges
<1>4. req \in [Requests -> Call] /\ req' \in [Requests -> Call]
      /\ play \in [Plays -> VirtualIds \cup {None}]
    BY <1>1, <1>2 DEF ReachInv, GatewayInv, StateTypes
<1>5. ASSUME NEW p \in Plays, play'[p] # None, play'[p][2] PROVE play'[p] \in bound'
  <2>1. play'[p] \in bound /\ play'[p] \in VirtualIds
    <3>1. CASE play'[p] = play[p]
      BY <1>4, <1>5, <3>1 DEF OwnInv
    <3>2. CASE \E r \in Requests : play'[p] = req[r].v
      BY <1>4, <1>5, <3>2 DEF OwnInv, Firm, Call
    <3>3. QED
      BY <3>1, <3>2, PlayChanges
  <2>2. QED
    BY <1>3, <1>5, <2>1
<1>6. ASSUME NEW c \in Call, NEW d \in Call, Firm(c), d = c \/ Moved(c, d)
      PROVE  Firm(d)'
  <2>1. c.n \in Nat /\ c.v \in VirtualIds \cup {None} /\ d.v = c.v /\ d.kind = c.kind
    BY <1>6 DEF Call, Moved, Kept
  <2>2. ASSUME d.kind = "stream", d.n > 1, d.v # None PROVE d.v \notin bound /\ ~d.v[2]
    <3>1. d.v \notin bound
      BY <1>6, <2>1, <2>2 DEF Firm, Moved
    <3>2. QED
      BY <1>6, <2>1, <2>2, <3>1 DEF Firm
  <2>3. QED
    BY <1>3, <1>6, <2>1, <2>2 DEF Firm, Moved
<1>7. ASSUME NEW d \in Call, Fresh(d) PROVE Firm(d)' /\ QueryIsOwn(d)'
  <2>1. Firm(d)'
    <3>1. d.v \in VirtualIds \cup {None} /\ ~(d.n > 1)
      BY <1>7 DEF Fresh, Call
    <3>2. QED
      BY <1>3, <1>7, <3>1 DEF Fresh, Firm
  <2>2. QED
    BY <1>7, <2>1 DEF Fresh, QueryIsOwn
<1>8. ASSUME NEW r \in Requests PROVE Firm(req[r])' /\ QueryIsOwn(req[r])'
  <2> DEFINE c == req[r]
  <2>1. PICK d \in Call : req'[r] = d
    BY <1>4
  <2>2. c \in Call /\ Firm(c) /\ QueryIsOwn(c) /\ Asks(c)
    BY <1>4 DEF OwnInv, ReachInv, Followed
  <2>3. Firm(d)' /\ QueryIsOwn(d)'
    <3>1. CASE d = c
      <4>1. play'[c.p] = play[c.p] \/ c.p = None
        BY <2>2, PlayChanges DEF Asks, Call
      <4>2. OneServer(d)' => OneServer(c)
        BY <3>1, <4>1 DEF OneServer, Ids, Server
      <4> HIDE DEF c
      <4>3. QED
        BY <1>6, <2>2, <3>1, <4>2 DEF QueryIsOwn
    <3>2. CASE d = Idle
      <4>1. d.pc = "idle" /\ d.v = None
        BY <3>2 DEF Idle, New
      <4>2. QED
        BY <4>1 DEF Firm, QueryIsOwn
    <3>3. CASE Fresh(d)
      BY <1>7, <3>3
    <3>4. CASE Moved(c, d)
      <4> HIDE DEF c
      <4>1. Firm(d)'
        BY <1>6, <2>2, <3>4
      <4>2. QED
        BY <3>4, <4>1 DEF Moved, QueryIsOwn
    <3>5. CASE Send(r) /\ ~NoTarget(r)
      <4>1. d = [c EXCEPT !.pc = "called", !.sent = Sent(r), !.query = Query(r)]
        BY <1>4, <2>1, <3>5 DEF Send
      <4>2. UNCHANGED <<bound, play>>
        BY <3>5 DEF Send, store, sessions
      <4>3. /\ d.v = c.v /\ d.q = c.q /\ d.also = c.also /\ d.p = c.p /\ d.n = c.n
            /\ d.kind = c.kind /\ d.srv = c.srv /\ d.query = Query(r)
        BY <2>2, <4>1 DEF Call
      <4>4. Firm(d)'
        BY <2>2, <4>2, <4>3 DEF Firm
      <4>5. OneServer(d)' => OneServer(c)
        BY <4>2, <4>3 DEF OneServer, Ids, Server
      <4>6. OneServer(c) => \A i \in Items \cap Query(r) : SrvOf[i] = c.srv
        BY <3>5, QuerySent
      <4>7. QueryIsOwn(d)'
        BY <4>3, <4>5, <4>6 DEF QueryIsOwn
      <4>8. QED
        BY <4>4, <4>7
    <3>6. QED
      BY <2>1, <3>1, <3>2, <3>3, <3>4, <3>5, RequestChanges
  <2>4. QED
    BY <2>1, <2>3 DEF Firm, QueryIsOwn, OneServer, Ids
<1>9. QED
    BY <1>2, <1>5, <1>8 DEF OwnInv

LEMMA OwnInit == GatewayInit => OwnInv
<1> SUFFICES ASSUME GatewayInit PROVE OwnInv
    OBVIOUS
<1>1. ReachInv /\ Timely
    BY ReachInvInit, IdsInit
<1>2. Idle.v = None /\ Idle.pc = "idle"
    BY DEF Idle, New
<1>3. \A r \in Requests : req[r] = Idle
    BY DEF GatewayInit
<1>4. \A r \in Requests : Firm(req[r]) /\ QueryIsOwn(req[r])
    BY <1>2, <1>3 DEF Firm, QueryIsOwn
<1>5. \A p \in Plays : play[p] = None
    BY DEF GatewayInit
<1>6. QED
    BY <1>1, <1>4, <1>5 DEF OwnInv

\* No request carries in its path or body the original id of another server's
\* item, and none in the query of a stream that names one server only
\* (resolveStreamTarget, handleStreamCompat, devirtualizeRequestBody,
\* rewritePathForUpstream).
THEOREM IdsAreTheirOwn == GatewaySpec => []CallsNameOwnItems
<1>1. OwnInv => CallsNameOwnItems
    BY DEF OwnInv, ReachInv, GatewayInv, Sound, QueryIsOwn, CallsNameOwnItems, InCall
<1>2. QED
    BY <1>1, OwnInit, OwnNext, PTL DEF GatewaySpec

-----------------------------------------------------------------------------
(* The list of upstreams                                                   *)

\* Only the admin's requests and a restart touch the list.
LEMMA ListChanges ==
    ASSUME [GatewayNext]_vars
    PROVE  \/ UNCHANGED membership
           \/ \E s \in Servers : RemoveUpstream(s) \/ HideUpstream(s)
           \/ Restart
<1>1. ASSUME NEW r \in Requests,
             \/ BeginInfo(r) \/ BeginSingle(r) \/ BeginImage(r) \/ BeginUser(r)
             \/ BeginFallback(r) \/ BeginSocket(r)
             \/ BeginLogin(r) \/ BeginStream(r) \/ BeginLoose(r) \/ BeginReport(r)
      PROVE  UNCHANGED membership
    BY <1>1 DEF BeginInfo, BeginSingle, BeginImage, BeginUser, BeginFallback, BeginSocket,
                BeginLogin, BeginStream, BeginLoose, BeginReport, BeginShown, BeginUnnamed, Begin, admin
<1>2. ASSUME NEW r \in Requests, Handle(r) PROVE UNCHANGED membership
  <2>1. CASE LookMisses(r) \/ LookHits(r) \/ LookOnline(r) \/ Find(r)
    BY <2>1, Zenon DEF LookMisses, LookHits, LookOnline, Find, admin
  <2>2. CASE Send(r) \/ CacheHit(r) \/ Fail(r) \/ Finish(r)
    BY <2>2, Zenon DEF Send, CacheHit, Fail, Finish, admin
  <2>3. CASE ResolveUser(r)
    BY <2>3, Zenon DEF ResolveUser, admin
  <2>4. CASE Answer(r)
    BY <2>4 DEF Answer, admin
  <2>5. QED
    BY <1>2, <2>1, <2>2, <2>3, <2>4 DEF Handle
<1>3. ASSUME (\E t \in Tokens : ExpireLogin(t)) \/ \E p \in Plays : ExpirePlay(p)
      PROVE  UNCHANGED membership
    BY <1>3 DEF ExpireLogin, ExpirePlay, admin
<1>4. ASSUME NEW s \in Servers, CleanupServer(s) PROVE UNCHANGED membership
    BY <1>4 DEF CleanupServer
<1>5. CASE UNCHANGED vars
    BY <1>5 DEF vars, admin
<1>6. QED
    BY <1>1, <1>2, <1>3, <1>4, <1>5 DEF GatewayNext

\* What the proxy does to the list of upstreams, while requests are handled, is
\* what Membership allows, and so is what the manager does to it (Roster): the
\* proxy may rely on the one as on the other (upstream/manager.go:100-109,
\* 160-183, 357-388, 417-475).
THEOREM GatewayIsMembership == GatewaySpec => MembershipSpec
<1>1. GatewayInit => MembershipInit
    BY DEF GatewayInit, MembershipInit
<1>2. GatewayInv /\ [GatewayNext]_vars => [MembershipNext]_membership
  <2> SUFFICES ASSUME GatewayInv, [GatewayNext]_vars
               PROVE  [MembershipNext]_membership
    OBVIOUS
  <2>1. listed \subseteq Servers
    BY DEF GatewayInv, StateTypes
  <2>2. ASSUME NEW s \in Servers, RemoveUpstream(s) PROVE MembershipNext
    BY <2>2 DEF RemoveUpstream, MembershipNext
  <2>3. ASSUME NEW s \in Servers, HideUpstream(s) PROVE MembershipNext
    BY <2>1, <2>3 DEF HideUpstream, MembershipNext
  <2>4. CASE Restart
    BY <2>1, <2>4 DEF Restart, Started, MembershipNext
  <2>5. QED
    BY <2>2, <2>3, <2>4, ListChanges
<1>3. QED
    BY <1>1, <1>2, GatewayInvHolds, PTL DEF GatewaySpec, MembershipSpec

\* Every behaviour that is a Membership, the manager's and the proxy's among
\* them, has this: an upstream whose DELETE was answered is never listed again,
\* not by a reorder of an old page and not by a restart (upstream/manager.go:
\* 160-183, 357-388, 417-475).
THEOREM DeletedNeverReturns ==
    ASSUME NEW s \in Servers
    PROVE  MembershipSpec => []((s \in removed) => [](s \notin listed))
<1> DEFINE Apart == listed \subseteq Servers \ removed
<1>1. MembershipInit => Apart
    BY DEF MembershipInit
<1>2. Apart /\ [MembershipNext]_membership => Apart'
    BY DEF MembershipNext, Relist, Leave, membership
<1>3. s \in removed /\ [MembershipNext]_membership => (s \in removed)'
    BY DEF MembershipNext, Relist, Leave, membership
<1>4. Apart /\ s \in removed => s \notin listed
    OBVIOUS
<1> HIDE DEF Apart
<1>5. QED
    BY <1>1, <1>2, <1>3, <1>4, PTL DEF MembershipSpec
=============================================================================

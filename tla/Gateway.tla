------------------------------ MODULE Gateway ------------------------------
(***************************************************************************)
(* The proxy: to which upstream a request goes, and under which id         *)
(* (internal/proxy/handler.go, login_compat.go, playback_compat.go,        *)
(* json_ids.go), while clients log in and play, sessions expire, the admin *)
(* page deletes and reorders upstreams and the program restarts.           *)
(*                                                                         *)
(* A handler is a chain of look-ups, each under a lock of its own: a       *)
(* source names a server, ByID looks whether it is still listed, and if    *)
(* not the next source is tried, or the request refused.  Sources gives    *)
(* the chain of each kind of request.  Then the ids in the request are     *)
(* resolved once more, for the upstream chosen, and it is called.          *)
(*                                                                         *)
(* The id store is used as in Aggregate: a virtual id is the pair of the   *)
(* item and of whether its server had been cleaned up when it was made.    *)
(* Which upstreams are online is left open: the first one online may be    *)
(* any that is listed (Upstream models health).                            *)
(***************************************************************************)
EXTENDS Membership, Naturals, Sequences, FiniteSets

CONSTANTS
    Requests,       \* what the proxy serves at a time
    Mixes,          \* which kinds of request they are: [Requests -> sets of kinds];
                    \* "loose": streams with any ids, which need not go together
    Tokens,         \* tokens of login sessions
    Plays,          \* ids of playback sessions
    Items,          \* what the upstreams hold
    SrvOf,          \* the server of an item
    Inst,           \* instances an item's first virtual id was given
    MaxRemovals,    \* how many upstreams the admin deletes
    None

ASSUME GatewayAssumption ==
    /\ SrvOf \in [Items -> Servers]
    /\ Inst \in [Items -> SUBSET Items]
    /\ MaxRemovals \in Nat
    /\ None \notin Servers \cup Items \cup Plays \cup Tokens
    /\ Items \cap (Items \X BOOLEAN) = {} /\ None \notin Items \X BOOLEAN

VARIABLES
    mix,        \* the mix served, fixed from the start
    hidden,     \* upstreams missing from the list without being deleted
    cleaning,   \* deleted upstreams whose CleanupServer is still to come
    cleaned,    \* servers CleanupServer was called for
    bound,      \* virtual ids the store resolves
    sess,       \* h.sessions
    play,       \* the virtual id each playback session was made for
    known,      \* the playback sessions in h.playbackSessions
    req         \* the requests

store == <<cleaned, bound>>
sessions == <<sess, play, known>>
admin == <<mix, membership, hidden, cleaning>>
vars == <<admin, store, sessions, req>>

-----------------------------------------------------------------------------
VirtualIds == Items \X BOOLEAN
Server(v) == SrvOf[v[1]]
Player(p) == Server(play[p])
ItemsOf(s) == {i \in Items : SrvOf[i] = s}

\* GetOrCreate for every id in a JSON answer of server s.
VidsOf(s) == {<<i, s \in cleaned>> : i \in ItemsOf(s)}

\* Ids clients hold: a cleanup does not take them back.
Shown == (Items \X {FALSE}) \cup bound

\* A bug to catch: the instances are sent to whichever upstream was chosen.
OriginalsForAny(v, s) == IF v \in bound THEN {v[1]} ELSE {}

\* originalIDForUpstream: the item of server s that v stands for.
OriginalsFor(v, s) ==
    {i \in {v[1]} \cup (IF v[2] THEN {} ELSE Inst[v[1]]) :
        v \in bound /\ SrvOf[i] = s}

NoSession == [srv |-> None, user |-> FALSE, live |-> FALSE]

\* Where each kind of request takes its upstream from, in order.
Fallback == <<"token", "play", "online">>

\* A bug to catch: a report goes where the login session says.
ReportSourcesTokenFirst == <<"token", "play", "query">> \o Fallback

\* selectUpstreamForPlaybackReport.
ReportSources == <<"play", "query">> \o Fallback

Sources == [
    info     |-> <<"path">>,
    single   |-> <<"path">> \o Fallback,
    image    |-> <<"path">> \o Fallback,
    stream   |-> <<"path", "query", "play">> \o Fallback,
    progress |-> ReportSources,
    stopped  |-> ReportSources,
    fallback |-> Fallback,
    user     |-> <<"token">>,
    login    |-> <<"online">>,
    socket   |-> <<"online">>]

\* The first id wins: when its server is gone the request is refused.
Strict(k, n) ==
    \/ k \in {"info", "single", "image"} /\ n = 1
    \/ k = "stream" /\ n <= 3
    \/ k = "user"

\* A request of kind k for item v (q in its query), by the player of about,
\* naming playback session p, with token t.  also: one more id of a stream's
\* query, which names no upstream, for it is spelt mediaSourceId or itemId, or
\* stands beside one that does.
New(k, v, q, p, about, t) ==
    [pc |-> "look", kind |-> k, v |-> v, q |-> q, also |-> None, p |-> p, about |-> about,
     t |-> t, n |-> 1, srv |-> None, orig |-> None, user |-> FALSE,
     sent |-> None, query |-> {}, gone |-> {}]

Idle == [New("login", None, None, None, None, None) EXCEPT !.pc = "idle"]

\* The upstream a request is for, and the original id it found.
Names(c, s, i) == [c EXCEPT !.srv = s, !.orig = i]

Source(r) == Sources[req[r].kind][req[r].n]
Exhausted(r) == req[r].n > Len(Sources[req[r].kind])

\* What a source says about the upstream: nothing, or one server (None for a
\* login session made while no upstream was online).
Named(r) ==
    CASE Source(r) = "path"  -> {Server(v) : v \in {req[r].v} \cap bound}
      [] Source(r) = "query" -> {Server(v) : v \in {req[r].q} \cap bound}
      [] Source(r) = "play"  -> {Player(p) : p \in {req[r].p} \cap known}
      [] Source(r) = "token" -> {sess[t].srv : t \in {u \in {req[r].t} \cap Tokens : sess[u].live}}
      [] OTHER -> {}

\* The original id a source gives.
Original(r) ==
    CASE Source(r) = "path"  -> req[r].v[1]
      [] Source(r) = "query" -> req[r].q[1]
      [] Source(r) = "play"  -> play[req[r].p][1]
      [] OTHER -> None

GatewayInit ==
    /\ mix \in Mixes
    /\ listed = Servers /\ removed = {} /\ hidden = {} /\ cleaning = {}
    /\ cleaned = {} /\ bound = Items \X {FALSE}
    /\ sess = [t \in Tokens |-> NoSession]
    /\ play = [p \in Plays |-> None] /\ known = {}
    /\ req = [r \in Requests |-> Idle]

-----------------------------------------------------------------------------
(* A request arrives.                                                      *)

Begin(r, k, v, q, p, about, t) ==
    /\ req[r].pc = "idle" /\ k \in mix[r]
    /\ req' = [req EXCEPT ![r] = [New(k, v, q, p, about, t) EXCEPT !.gone = removed]]
    /\ UNCHANGED <<admin, store, sessions>>

\* For something the client was shown, or for nothing in particular.
BeginShown(r, k) ==
    \E v \in Shown, t \in Tokens : Begin(r, k, v, None, None, None, t)
BeginUnnamed(r, k) ==
    \E q \in Shown \cup {None}, t \in Tokens : Begin(r, k, None, q, None, None, t)

BeginInfo(r) == BeginShown(r, "info")
BeginSingle(r) == BeginShown(r, "single")
BeginImage(r) == BeginShown(r, "image")
BeginUser(r) == BeginShown(r, "user")
BeginFallback(r) == BeginUnnamed(r, "fallback")
BeginSocket(r) == BeginUnnamed(r, "socket")
BeginLogin(r) ==
    \E t \in Tokens : ~sess[t].live /\ Begin(r, "login", None, None, None, None, t)

\* The player: its URL carries ids and the playback session, or part of them.
BeginStream(r) ==
    \E p \in {x \in Plays : play[x] # None}, t \in Tokens :
        \E v \in {play[p], None}, q \in {play[p], None}, s \in {p, None} :
            Begin(r, "stream", v, q, s, p, t)

\* A URL somebody put together: nothing makes its ids go together.
BeginLoose(r) ==
    /\ req[r].pc = "idle" /\ "loose" \in mix[r]
    /\ \E v, q, a \in Shown \cup {None}, t \in Tokens :
         \E p \in {x \in Plays : play[x] # None} \cup {None} :
            req' = [req EXCEPT ![r] = [New("stream", v, q, p, None, t) EXCEPT
                                          !.also = a, !.gone = removed]]
    /\ UNCHANGED <<admin, store, sessions>>

BeginReport(r) ==
    \E p \in {x \in Plays : play[x] # None}, k \in {"progress", "stopped"}, t \in Tokens :
        \E q \in {play[p], None} : Begin(r, k, None, q, p, p, t)

-----------------------------------------------------------------------------
(* Choosing the upstream.                                                  *)

Refuse(r) == req' = [req EXCEPT ![r].pc = "refused"]
Done(r) == req' = [req EXCEPT ![r] = Idle]

LookMisses(r) ==
    /\ req[r].pc = "look"
    /\ IF Exhausted(r) THEN Refuse(r)
       ELSE /\ Source(r) # "online" /\ Named(r) = {}
            /\ req' = [req EXCEPT ![r].n = @ + 1]
    /\ UNCHANGED <<admin, store, sessions>>

LookHits(r) ==
    /\ req[r].pc = "look" /\ ~Exhausted(r)
    /\ \E s \in Named(r) :
         req' = [req EXCEPT ![r] = [Names(@, s, Original(r)) EXCEPT
                    !.pc = "find", !.user = Source(r) = "token" /\ sess[req[r].t].user]]
    /\ UNCHANGED <<admin, store, sessions>>

\* Online()[0]: the pointer is used without ByID.
LookOnline(r) ==
    /\ req[r].pc = "look" /\ ~Exhausted(r) /\ Source(r) = "online"
    /\ \/ \E s \in listed :
            req' = [req EXCEPT ![r].srv = s,
                               ![r].pc = IF req[r].kind = "login" THEN "resolve" ELSE "write"]
       \/ /\ req[r].kind # "login"
          /\ Refuse(r)
       \/ /\ req[r].kind = "login"
          /\ req' = [req EXCEPT ![r].pc = "resolve"]
    /\ UNCHANGED <<admin, store, sessions>>

\* A bug to catch: the session's upstream is taken unseen.
FindUnseen(r) ==
    /\ req[r].pc = "find"
    /\ req' = [req EXCEPT ![r].pc = "write"]
    /\ UNCHANGED <<admin, store, sessions>>

\* ByID.
Find(r) ==
    /\ req[r].pc = "find"
    /\ IF req[r].srv \in listed
       THEN req' = [req EXCEPT ![r].pc = IF req[r].kind = "user" /\ ~req[r].user
                                         THEN "resolve" ELSE "write"]
       ELSE IF Strict(req[r].kind, req[r].n) THEN Refuse(r)
       ELSE req' = [req EXCEPT ![r] = [Names(@, None, None) EXCEPT !.pc = "look", !.n = req[r].n + 1]]
    /\ UNCHANGED <<admin, store, sessions>>

\* resolveUpstreamUserID asks the upstream who the user is; the answer, or
\* the lack of one, is remembered under the token.
ResolveUser(r) ==
    /\ req[r].pc = "resolve"
    /\ \E user \in {FALSE, req[r].srv # None} :
         IF req[r].kind = "login" \/ user
         THEN /\ sess' = [sess EXCEPT ![req[r].t] = [srv |-> req[r].srv, user |-> user, live |-> TRUE]]
              /\ IF req[r].kind = "login" THEN Done(r) ELSE req' = [req EXCEPT ![r].pc = "write"]
         ELSE Refuse(r) /\ UNCHANGED sess
    /\ UNCHANGED <<admin, store, play, known>>

-----------------------------------------------------------------------------
(* The call.                                                               *)

\* The id the path or body goes out with: the original id the source gave, or the
\* ids in path, query and body translated for the upstream chosen; what does
\* not resolve is sent as it is.
Sent(r) ==
    LET id == IF req[r].v # None THEN req[r].v ELSE req[r].q
        own == IF id = None THEN {} ELSE OriginalsFor(id, req[r].srv)
    IN  CASE req[r].kind = "socket" -> id
          [] req[r].kind \in {"stream", "image"} /\ req[r].orig # None -> req[r].orig
          [] OTHER -> IF own # {} THEN CHOOSE i \in own : TRUE ELSE id

\* The query of a stream: its ids are resolved, for whichever server.
Resolved(id) == IF id \in bound THEN id[1] ELSE id
Query(r) ==
    {Resolved(id) : id \in IF req[r].kind = "stream" THEN {req[r].q, req[r].also} \ {None}
                           ELSE {}}

\* handleStreamCompat has no item: the fallback upstream has none either.
NoTarget(r) ==
    /\ req[r].kind = "stream" /\ req[r].orig = None
    /\ req[r].v = None \/ OriginalsFor(req[r].v, req[r].srv) = {}

Send(r) ==
    /\ req[r].pc = "write"
    /\ IF NoTarget(r) THEN Refuse(r)
       ELSE req' = [req EXCEPT ![r].pc = "called", ![r].sent = Sent(r), ![r].query = Query(r)]
    /\ UNCHANGED <<admin, store, sessions>>

\* The image is in the cache.
CacheHit(r) ==
    /\ req[r].pc = "write" /\ req[r].kind = "image" /\ req[r].orig # None
    /\ Done(r)
    /\ UNCHANGED <<admin, store, sessions>>

\* The ids of a JSON answer are registered before the client gets it, a
\* PlaySessionId is remembered, and a Stopped report ends its session, unless
\* only its query names the session.
Answer(r) ==
    /\ req[r].pc = "called"
    /\ Done(r)
    /\ bound' \in {bound} \cup
         (IF req[r].kind \in {"info", "single", "fallback", "user"}
          THEN {bound \cup VidsOf(req[r].srv)} ELSE {})
    /\ \/ /\ req[r].kind = "info"
          /\ \E p \in {x \in Plays : play[x] = None} :
               /\ play' = [play EXCEPT ![p] = req[r].v]
               /\ known' = known \cup {p}
       \/ /\ known' \in {known} \cup
                (IF req[r].kind = "stopped" THEN {known \ {req[r].p}} ELSE {})
          /\ UNCHANGED play
    /\ UNCHANGED <<admin, cleaned, sess>>

\* Refused connection, timeout, client gone: 502, or nothing.
Fail(r) ==
    /\ req[r].pc = "called"
    /\ Done(r)
    /\ UNCHANGED <<admin, store, sessions>>

Finish(r) ==
    /\ req[r].pc = "refused"
    /\ Done(r)
    /\ UNCHANGED <<admin, store, sessions>>

-----------------------------------------------------------------------------
(* Everything else that changes where a request can go.                    *)

\* cleanupExpiredSessions: a session in use was looked up a moment ago.
ExpireLogin(t) ==
    /\ sess[t].live
    /\ \A r \in Requests : req[r].t = t => req[r].pc \notin {"find", "resolve"}
    /\ sess' = [sess EXCEPT ![t] = NoSession]
    /\ UNCHANGED <<admin, store, play, known, req>>

\* cleanupExpiredPlaybackSessions.
ExpirePlay(p) ==
    /\ p \in known
    /\ known' = known \ {p}
    /\ UNCHANGED <<admin, store, sess, play, req>>

\* DELETE of the admin page, first half.
RemoveUpstream(s) ==
    /\ Cardinality(removed) < MaxRemovals
    /\ Leave(s)
    /\ cleaning' = cleaning \cup {s}
    /\ UNCHANGED <<mix, hidden, store, sessions, req>>

\* Its second half, whose error nobody looks at.
CleanupServer(s) ==
    /\ s \in cleaning
    /\ cleaning' = cleaning \ {s}
    /\ \/ /\ cleaned' = cleaned \cup {s}
          /\ bound' = {v \in bound : Server(v) # s}
       \/ UNCHANGED store
    /\ UNCHANGED <<mix, membership, hidden, sessions, req>>

\* Reorder with a page that misses an upstream.
HideUpstream(s) ==
    /\ s \in listed
    /\ Relist(listed \ {s})
    /\ hidden' = hidden \cup {s}
    /\ UNCHANGED <<mix, cleaning, store, sessions, req>>

\* What a start finds: rows and ids are stored, sessions are not; loadFromDB
\* lists every row it can read.
Started ==
    /\ \E S \in SUBSET (Servers \ removed) :
         Relist(S) /\ hidden' = (Servers \ removed) \ S
    /\ sess' = [t \in Tokens |-> NoSession] /\ known' = {}
    /\ req' = [r \in Requests |-> Idle]
    /\ cleaning' = {}
    /\ UNCHANGED <<mix, cleaned, play>>

\* A bug to catch: the ids are lost with the sessions.
RestartForgetsIds == Started /\ bound' = {}

Restart == Started /\ UNCHANGED bound

Handle(r) ==
    \/ LookMisses(r) \/ LookHits(r) \/ LookOnline(r) \/ Find(r) \/ ResolveUser(r)
    \/ Send(r) \/ CacheHit(r) \/ Answer(r) \/ Fail(r) \/ Finish(r)

GatewayNext ==
    \/ \E r \in Requests :
         \/ BeginInfo(r) \/ BeginSingle(r) \/ BeginImage(r) \/ BeginUser(r)
         \/ BeginFallback(r) \/ BeginSocket(r)
         \/ BeginLogin(r) \/ BeginStream(r) \/ BeginLoose(r) \/ BeginReport(r)
         \/ Handle(r)
    \/ \E t \in Tokens : ExpireLogin(t)
    \/ \E p \in Plays : ExpirePlay(p)
    \/ \E s \in Servers : RemoveUpstream(s) \/ CleanupServer(s) \/ HideUpstream(s)
    \/ Restart

GatewaySpec == GatewayInit /\ [][GatewayNext]_vars

-----------------------------------------------------------------------------
(* Properties.                                                             *)

Call == [
    pc : {"idle", "look", "find", "resolve", "write", "called", "refused"},
    kind : DOMAIN Sources,
    v : VirtualIds \cup {None}, q : VirtualIds \cup {None}, also : VirtualIds \cup {None},
    p : Plays \cup {None}, about : Plays \cup {None}, t : Tokens \cup {None},
    n : Nat, srv : Servers \cup {None}, orig : Items \cup {None}, user : BOOLEAN,
    sent : Items \cup VirtualIds \cup {None}, query : SUBSET (Items \cup VirtualIds),
    gone : SUBSET Servers]

\* Type invariant: what the variables hold.
TypeOK ==
    /\ listed \subseteq Servers /\ removed \subseteq Servers /\ listed \cap removed = {}
    /\ hidden \subseteq Servers /\ cleaning \subseteq removed /\ cleaned \subseteq removed
    /\ bound \subseteq VirtualIds
    /\ sess \in [Tokens -> [srv : Servers \cup {None}, user : BOOLEAN, live : BOOLEAN]]
    /\ play \in [Plays -> VirtualIds \cup {None}]
    /\ known \subseteq {p \in Plays : play[p] # None}
    /\ mix \in Mixes /\ req \in [Requests -> Call]

InCall(r) == req[r].pc = "called"

\* What a request names is all of one server.
Ids(c) == {c.v, c.q, c.also, IF c.p = None THEN None ELSE play[c.p]} \ {None}
OneServer(c) == \A x, y \in Ids(c) : Server(x) = Server(y)

\* Whatever a request names and whichever upstream it ends up at, the ids its
\* path and body carry are that upstream's own, or virtual ids no upstream
\* knows: never the original id of another server's item
\* (rewritePathForUpstream, devirtualizeRequestBody, resolveStreamTarget).
\* The ids in the query of a stream, which handleStreamCompat resolves without
\* a look at their server (playback_compat.go:150-157), are so too when the
\* request names one server only, as a player's does; when it mixes servers
\* the code sends an upstream ids that are not its own.
CallsNameOwnItems ==
    \A r \in Requests : \A i \in Items :
        /\ InCall(r)
        /\ i = req[r].sent \/ (i \in req[r].query /\ OneServer(req[r]))
        => SrvOf[i] = req[r].srv

\* A request begun after a DELETE was answered never reaches the upstream
\* deleted: not through a session or an id that outlives it, and not after a
\* reorder or a restart.
RemovedIsNeverCalled ==
    \A r \in Requests : InCall(r) => req[r].srv \notin req[r].gone

\* Something a client was shown is refused only when its upstream was deleted
\* or is missing from the list: neither a restart that reads its row nor the end
\* of a session makes it unreachable, and one that was dropped is back with it.
RefusedOnlyWhenGone ==
    \A r \in Requests :
        LET id == IF req[r].v # None THEN req[r].v ELSE req[r].q
        IN  /\ req[r].pc = "refused"
            /\ req[r].kind \in {"info", "single", "image", "stream"}
            /\ id # None
            => Server(id) \in removed \cup hidden

\* What is played on one upstream stays there: a stream or a report goes to
\* another upstream only when the player's was deleted or dropped, or when
\* the playback session is lost and the request names no item.
PlaybackStaysPut ==
    \A r \in Requests :
        InCall(r) /\ req[r].about # None /\ req[r].srv # Player(req[r].about)
        => \/ Player(req[r].about) \in removed \cup hidden
           \/ /\ req[r].about \notin known \/ req[r].p = None
              /\ req[r].v = None /\ req[r].q = None
=============================================================================

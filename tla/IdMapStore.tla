----------------------------- MODULE IdMapStore -----------------------------
(***************************************************************************)
(* internal/idmap/store.go: the bidirectional map between the virtual ids  *)
(* handed to Emby clients and the ids of the upstream servers.  The store  *)
(* is shared by every HTTP handler goroutine, and by the admin API when an *)
(* upstream is deleted.                                                    *)
(*                                                                         *)
(* Durable state are two SQLite tables; the volatile state is a cache and  *)
(* a reverse map under one RWMutex.  internal/db opens the database with a *)
(* pool of ONE connection (db.go:34), so a goroutine iterating over rows   *)
(* keeps every other statement of the process waiting.  A section under    *)
(* RLock never blocks, so it is one step guarded by the lock being free; a *)
(* section under Lock that talks to the database is several steps.         *)
(***************************************************************************)
EXTENDS Naturals, FiniteSets

CONSTANTS
    Threads,      \* goroutines that call the store
    Originals,    \* item ids on the upstream servers
    Servers,      \* upstream ids (AUTOINCREMENT: never used twice)
    Vids,         \* the random ids generateVirtualID may produce
    SeedKeys,     \* the keys already mapped in the database at first start
    Ops,          \* the store operations the environment issues
    MaxCrashes,   \* bound on process restarts
    LoadMayFail,  \* may the query of loadCache fail (its error is ignored)
    DBMayFail,    \* may an Exec or a Query fail
    Torn,         \* an original id read while another goroutine writes it
    None          \* "no value": nil, "", a lock nobody holds

Keys == Originals \X Servers            \* "originalID:serverID"
Srv(k) == k[2]
AnyKey == (Originals \cup {Torn}) \X Servers

AllOps == {"GetOrCreate", "Resolve", "AddInstance", "GetInstances", "CleanupServer"}

ASSUME ConstantsAssumption ==
    /\ None \notin Threads \cup Vids \cup Servers \cup Keys
    /\ Torn \notin Originals
    /\ SeedKeys \subseteq Keys
    /\ Ops \subseteq AllOps
    /\ MaxCrashes \in Nat
    /\ LoadMayFail \in BOOLEAN
    /\ DBMayFail \in BOOLEAN

VARIABLES
    \* -- SQLite
    mapping,    \* id_mapping: virtual_id -> (original_id, server_id)
    instances,  \* id_instances: virtual_id -> its (original_id, server_id) rows
    conn,       \* the goroutine whose open rows hold the one connection
    \* -- Store
    mu,         \* the goroutine inside s.mu.Lock
    cache,      \* s.cache, the main instance of each cached Mapping
    memInst,    \* Mapping.Instances of the cached Mapping
    rmap,       \* s.rmap
    \* -- the locals of the calls in progress
    pc, key, vid, srv, got,
    \* -- history, not part of the program
    birth,      \* the key each virtual id was generated for
    known,      \* virtual ids some client has been given
    issued,     \* per key, the virtual ids returned since its last cleanup
    added,      \* per virtual id, the instances whose AddInstance returned
    want,       \* added[vid], as it was when the call of GetInstances began
    gone,       \* servers cleaned up, and not named by a call since
    crashes

dbVars == <<mapping, instances>>
memVars == <<cache, memInst, rmap>>
localVars == <<key, vid, srv, got, want>>
histVars == <<birth, known, issued, added, gone>>
vars == <<dbVars, conn, mu, memVars, pc, localVars, histVars, crashes>>

-----------------------------------------------------------------------------
Injective(m) == \A v, w \in Vids : m[v] = m[w] /\ m[v] # None => v = w

VidsOf(m, k) == {v \in Vids : m[v] = k}

\* The reverse map of a table.
ReverseOf(m) ==
    [k \in Keys |-> IF VidsOf(m, k) = {} THEN None ELSE CHOOSE v \in VidsOf(m, k) : TRUE]

\* INSERT OR REPLACE under PRIMARY KEY(virtual_id, server_id), and the search
\* by ServerID in Mapping.Instances: one instance per server.
Replace(S, k) == {j \in S : Srv(j) # Srv(k)} \cup {k}

\* WHERE server_id = s
Without(S, s) == {j \in S : Srv(j) # s}

Fresh == {v \in Vids : birth[v] = None}

Init ==
    /\ mapping \in [Vids -> Keys \cup {None}]
    /\ Injective(mapping)
    /\ {mapping[v] : v \in Vids} \ {None} = SeedKeys
    /\ instances = [v \in Vids |-> {}]
    /\ conn = None
    /\ mu = None
    /\ cache = mapping
    /\ memInst = [v \in Vids |-> {}]
    /\ rmap = ReverseOf(mapping)
    /\ pc = [t \in Threads |-> "idle"]
    /\ key = [t \in Threads |-> None]
    /\ vid = [t \in Threads |-> None]
    /\ srv = [t \in Threads |-> None]
    /\ got = [t \in Threads |-> {}]
    /\ birth = mapping
    /\ known = {v \in Vids : mapping[v] # None}
    /\ issued = [k \in Keys |-> VidsOf(mapping, k)]
    /\ added = [v \in Vids |-> {}]
    /\ want = [t \in Threads |-> {}]
    /\ gone = {}
    /\ crashes = 0

-----------------------------------------------------------------------------
Goto(t, l) == pc' = [pc EXCEPT ![t] = l]

\* A call returns: its locals are gone.
Return(t) ==
    /\ pc' = [pc EXCEPT ![t] = "idle"]
    /\ key' = [key EXCEPT ![t] = None]
    /\ vid' = [vid EXCEPT ![t] = None]
    /\ srv' = [srv EXCEPT ![t] = None]
    /\ got' = [got EXCEPT ![t] = {}]
    /\ want' = [want EXCEPT ![t] = {}]

\* GetOrCreate hands v to a client.
Issue(k, v) ==
    /\ issued' = [issued EXCEPT ![k] = @ \cup {v}]
    /\ known' = known \cup {v}

-----------------------------------------------------------------------------
(* GetOrCreate(originalID, serverID)                                       *)

\* The bound on ids: a call starts only if an id is left for it.
IdsLeft ==
    Cardinality({t \in Threads : pc[t] \in {"goc_read", "goc_lock", "goc_insert"}})
        < Cardinality(Fresh)

CallGetOrCreate(t, k) ==
    /\ "GetOrCreate" \in Ops
    /\ IdsLeft
    /\ pc[t] = "idle"
    /\ Goto(t, "goc_read")
    /\ key' = [key EXCEPT ![t] = k]
    /\ gone' = gone \ {Srv(k)}
    /\ UNCHANGED <<dbVars, conn, mu, memVars, vid, srv, got, want, birth, known, issued, added, crashes>>

\* Both look-ups in rmap: under RLock, and again under Lock.
GocHit(t) ==
    /\ pc[t] \in {"goc_read", "goc_lock"}
    /\ mu = None
    /\ rmap[key[t]] # None
    /\ Issue(key[t], rmap[key[t]])
    /\ Return(t)
    /\ UNCHANGED <<dbVars, conn, mu, memVars, birth, added, gone, crashes>>

GocMiss(t) ==
    /\ pc[t] = "goc_read"
    /\ mu = None
    /\ rmap[key[t]] = None
    /\ Goto(t, "goc_lock")
    /\ UNCHANGED <<dbVars, conn, mu, memVars, localVars, histVars, crashes>>

\* A bug to catch: the double check under the write lock is dropped.
GocLockUnchecked(t) ==
    /\ pc[t] = "goc_lock"
    /\ mu = None
    /\ mu' = t
    /\ Goto(t, "goc_insert")
    /\ UNCHANGED <<dbVars, conn, memVars, localVars, histVars, crashes>>

GocLock(t) ==
    /\ pc[t] = "goc_lock"
    /\ mu = None
    /\ rmap[key[t]] = None
    /\ mu' = t
    /\ Goto(t, "goc_insert")
    /\ UNCHANGED <<dbVars, conn, memVars, localVars, histVars, crashes>>

\* A bug to catch: the id is published although its INSERT never ran.
GocInsertSkipped(t) ==
    /\ pc[t] = "goc_insert"
    /\ conn = None
    /\ \E v \in Fresh :
         /\ birth' = [birth EXCEPT ![v] = key[t]]
         /\ vid' = [vid EXCEPT ![t] = v]
    /\ Goto(t, "goc_publish")
    /\ UNCHANGED <<dbVars, conn, mu, memVars, key, srv, got, want, known, issued, added, gone, crashes>>

\* A bug to catch: INSERT OR REPLACE, which deletes the row of the older id.
GocInsertReplaces(t) ==
    /\ pc[t] = "goc_insert"
    /\ conn = None
    /\ \E v \in Fresh :
         /\ birth' = [birth EXCEPT ![v] = key[t]]
         /\ vid' = [vid EXCEPT ![t] = v]
         /\ mapping' = [w \in Vids |-> IF w = v THEN key[t]
                                       ELSE IF mapping[w] = key[t] THEN None ELSE mapping[w]]
    /\ Goto(t, "goc_publish")
    /\ UNCHANGED <<instances, conn, mu, memVars, key, srv, got, want, known, issued, added, gone, crashes>>

\* INSERT OR IGNORE: no row is written when UNIQUE(original_id, server_id)
\* already has one, and no error is reported either.
GocInsert(t) ==
    /\ pc[t] = "goc_insert"
    /\ conn = None
    /\ \E v \in Fresh :
         /\ birth' = [birth EXCEPT ![v] = key[t]]
         /\ vid' = [vid EXCEPT ![t] = v]
         /\ mapping' = IF VidsOf(mapping, key[t]) = {}
                       THEN [mapping EXCEPT ![v] = key[t]]
                       ELSE mapping
    /\ Goto(t, "goc_publish")
    /\ UNCHANGED <<instances, conn, mu, memVars, key, srv, got, want, known, issued, added, gone, crashes>>

GocInsertFails(t) ==
    /\ DBMayFail
    /\ pc[t] = "goc_insert"
    /\ conn = None
    /\ Goto(t, "goc_query")
    /\ UNCHANGED <<dbVars, conn, mu, memVars, localVars, histVars, crashes>>

\* A bug to catch: the query is by original id only.
GocExistingAnyServer(t) ==
    /\ pc[t] = "goc_query"
    /\ conn = None
    /\ \E v \in UNION {VidsOf(mapping, <<key[t][1], s>>) : s \in Servers} :
         /\ rmap' = [rmap EXCEPT ![key[t]] = v]
         /\ Issue(key[t], v)
    /\ mu' = None
    /\ Return(t)
    /\ UNCHANGED <<dbVars, conn, cache, memInst, birth, added, gone, crashes>>

\* The INSERT failed, but the key has a row: that row's id is used.
GocExisting(t) ==
    /\ pc[t] = "goc_query"
    /\ conn = None
    /\ \E v \in VidsOf(mapping, key[t]) :
         /\ rmap' = [rmap EXCEPT ![key[t]] = v]
         /\ Issue(key[t], v)
    /\ mu' = None
    /\ Return(t)
    /\ UNCHANGED <<dbVars, conn, cache, memInst, birth, added, gone, crashes>>

\* No row, or the query fails too: the original id is returned as it is.
GocDegraded(t) ==
    /\ pc[t] = "goc_query"
    /\ conn = None
    /\ mu' = None
    /\ Return(t)
    /\ UNCHANGED <<dbVars, conn, memVars, histVars, crashes>>

GocPublish(t) ==
    /\ pc[t] = "goc_publish"
    /\ cache' = [cache EXCEPT ![vid[t]] = key[t]]
    /\ memInst' = [memInst EXCEPT ![vid[t]] = {}]
    /\ rmap' = [rmap EXCEPT ![key[t]] = vid[t]]
    /\ mu' = None
    /\ Issue(key[t], vid[t])
    /\ Return(t)
    /\ UNCHANGED <<dbVars, conn, birth, added, gone, crashes>>

GetOrCreate(t) ==
    \/ \E k \in Keys : CallGetOrCreate(t, k)
    \/ GocHit(t)
    \/ GocMiss(t)
    \/ GocLock(t)
    \/ GocInsert(t)
    \/ GocInsertFails(t)
    \/ GocExisting(t)
    \/ GocDegraded(t)
    \/ GocPublish(t)

-----------------------------------------------------------------------------
(* Resolve(virtualID), for ids that clients hold                           *)

CallResolve(t, v) ==
    /\ "Resolve" \in Ops
    /\ pc[t] = "idle"
    /\ Goto(t, "res_read")
    /\ vid' = [vid EXCEPT ![t] = v]
    /\ UNCHANGED <<dbVars, conn, mu, memVars, key, srv, got, want, histVars, crashes>>

ResHit(t) ==
    /\ pc[t] = "res_read"
    /\ mu = None
    /\ cache[vid[t]] # None
    /\ key' = [key EXCEPT ![t] = cache[vid[t]]]
    /\ Goto(t, "res_done")
    /\ UNCHANGED <<dbVars, conn, mu, memVars, vid, srv, got, want, histVars, crashes>>

ResMiss(t) ==
    /\ pc[t] = "res_read"
    /\ mu = None
    /\ cache[vid[t]] = None
    /\ Goto(t, "res_query")
    /\ UNCHANGED <<dbVars, conn, mu, memVars, localVars, histVars, crashes>>

\* The row is read without the lock.
ResRow(t) ==
    /\ pc[t] = "res_query"
    /\ conn = None
    /\ mapping[vid[t]] # None
    /\ key' = [key EXCEPT ![t] = mapping[vid[t]]]
    /\ Goto(t, "res_fill")
    /\ UNCHANGED <<dbVars, conn, mu, memVars, vid, srv, got, want, histVars, crashes>>

ResNotFound(t) ==
    /\ pc[t] = "res_query"
    /\ conn = None
    /\ mapping[vid[t]] = None \/ DBMayFail
    /\ Return(t)
    /\ UNCHANGED <<dbVars, conn, mu, memVars, histVars, crashes>>

\* A bug to catch: the lock is kept.
ResFillLocked(t) ==
    /\ pc[t] = "res_fill"
    /\ mu = None
    /\ mu' = t
    /\ cache' = [cache EXCEPT ![vid[t]] = key[t]]
    /\ memInst' = [memInst EXCEPT ![vid[t]] = {}]
    /\ rmap' = [rmap EXCEPT ![key[t]] = vid[t]]
    /\ Goto(t, "res_done")
    /\ UNCHANGED <<dbVars, conn, localVars, histVars, crashes>>

\* A new Mapping, without Instances, replaces whatever is cached by now.
ResFill(t) ==
    /\ pc[t] = "res_fill"
    /\ mu = None
    /\ cache' = [cache EXCEPT ![vid[t]] = key[t]]
    /\ memInst' = [memInst EXCEPT ![vid[t]] = {}]
    /\ rmap' = [rmap EXCEPT ![key[t]] = vid[t]]
    /\ Goto(t, "res_done")
    /\ UNCHANGED <<dbVars, conn, mu, localVars, histVars, crashes>>

ResReturn(t) ==
    /\ pc[t] = "res_done"
    /\ Return(t)
    /\ UNCHANGED <<dbVars, conn, mu, memVars, histVars, crashes>>

Resolve(t) ==
    \/ \E v \in known : CallResolve(t, v)
    \/ ResHit(t)
    \/ ResMiss(t)
    \/ ResRow(t)
    \/ ResNotFound(t)
    \/ ResFill(t)
    \/ ResReturn(t)

-----------------------------------------------------------------------------
(* AddInstance(virtualID, originalID, serverID): the aggregator calls it   *)
(* with an id GetOrCreate has just returned and an item of another server. *)

CallAddInstance(t, v, k) ==
    /\ "AddInstance" \in Ops
    /\ pc[t] = "idle"
    /\ k # birth[v]
    /\ Goto(t, "add_insert")
    /\ vid' = [vid EXCEPT ![t] = v]
    /\ key' = [key EXCEPT ![t] = k]
    /\ gone' = gone \ {Srv(k)}
    /\ UNCHANGED <<dbVars, conn, mu, memVars, srv, got, want, birth, known, issued, added, crashes>>

AddInsert(t) ==
    /\ pc[t] = "add_insert"
    /\ conn = None
    /\ instances' = [instances EXCEPT ![vid[t]] = Replace(@, key[t])]
    /\ Goto(t, "add_lock")
    /\ UNCHANGED <<mapping, conn, mu, memVars, localVars, histVars, crashes>>

AddInsertFails(t) ==
    /\ DBMayFail
    /\ pc[t] = "add_insert"
    /\ conn = None
    /\ Return(t)
    /\ UNCHANGED <<dbVars, conn, mu, memVars, histVars, crashes>>

AddLock(t) ==
    /\ pc[t] = "add_lock"
    /\ mu = None
    /\ mu' = t
    /\ Goto(t, "add_write")
    /\ UNCHANGED <<dbVars, conn, memVars, localVars, histVars, crashes>>

AddWrite(t) ==
    /\ pc[t] = "add_write"
    /\ memInst' = IF cache[vid[t]] # None
                  THEN [memInst EXCEPT ![vid[t]] = Replace(@, key[t])]
                  ELSE memInst
    /\ added' = [added EXCEPT ![vid[t]] = Replace(@, key[t])]
    /\ mu' = None
    /\ Return(t)
    /\ UNCHANGED <<dbVars, conn, cache, rmap, birth, known, issued, gone, crashes>>

AddInstance(t) ==
    \/ \E v \in known, k \in Keys : CallAddInstance(t, v, k)
    \/ AddInsert(t)
    \/ AddInsertFails(t)
    \/ AddLock(t)
    \/ AddWrite(t)

-----------------------------------------------------------------------------
(* GetInstances(virtualID).  Both callers (proxy/handler.go:1325-1340 and  *)
(* aggregator.go:585-601) have just resolved the id.                       *)

CallGetInstances(t, v) ==
    /\ "GetInstances" \in Ops
    /\ pc[t] = "idle"
    /\ mu = None
    /\ cache[v] # None
    /\ Goto(t, "gi_read")
    /\ vid' = [vid EXCEPT ![t] = v]
    /\ want' = [want EXCEPT ![t] = added[v]]
    /\ UNCHANGED <<dbVars, conn, mu, memVars, key, srv, got, histVars, crashes>>

GiCached(t) ==
    /\ pc[t] = "gi_read"
    /\ mu = None
    /\ cache[vid[t]] # None
    /\ memInst[vid[t]] # {}
    /\ key' = [key EXCEPT ![t] = cache[vid[t]]]
    /\ got' = [got EXCEPT ![t] = memInst[vid[t]]]
    /\ Goto(t, "gi_list")
    /\ UNCHANGED <<dbVars, conn, mu, memVars, vid, srv, want, histVars, crashes>>

\* m.Instances is read after RUnlock.  What is seen is the list as it was, the
\* list as it is now or, while AddInstance writes it, a torn element.
SeenLists(t) ==
    {got[t]}
    \cup ({memInst[vid[t]]} \ {{}})
    \cup {Replace(got[t], <<Torn, Srv(key[u])>>) :
             u \in {w \in Threads : pc[w] = "add_write" /\ vid[w] = vid[t]}}

\* A bug to catch: the list is copied from its second element on.
GiListOffByOne(t) ==
    /\ pc[t] = "gi_list"
    /\ \E seen \in SeenLists(t), k \in AnyKey :
         k \in seen /\ got' = [got EXCEPT ![t] = (seen \ {k}) \cup {key[t]}]
    /\ Goto(t, "gi_done")
    /\ UNCHANGED <<dbVars, conn, mu, memVars, key, vid, srv, want, histVars, crashes>>

GiList(t) ==
    /\ pc[t] = "gi_list"
    /\ \E seen \in SeenLists(t) : got' = [got EXCEPT ![t] = seen \cup {key[t]}]
    /\ Goto(t, "gi_done")
    /\ UNCHANGED <<dbVars, conn, mu, memVars, key, vid, srv, want, histVars, crashes>>

\* A bug to catch: the lock is kept through the query.
GiUncachedLocked(t) ==
    /\ pc[t] = "gi_read"
    /\ mu = None
    /\ cache[vid[t]] = None \/ memInst[vid[t]] = {}
    /\ mu' = t
    /\ Goto(t, "gi_query")
    /\ UNCHANGED <<dbVars, conn, memVars, localVars, histVars, crashes>>

GiUncached(t) ==
    /\ pc[t] = "gi_read"
    /\ mu = None
    /\ cache[vid[t]] = None \/ memInst[vid[t]] = {}
    /\ Goto(t, "gi_query")
    /\ UNCHANGED <<dbVars, conn, mu, memVars, localVars, histVars, crashes>>

\* db.Query: the rows stay open, and keep the connection.
GiQuery(t) ==
    /\ pc[t] = "gi_query"
    /\ conn = None
    /\ conn' = t
    /\ got' = [got EXCEPT ![t] = instances[vid[t]]]
    /\ Goto(t, "gi_resolve")
    /\ UNCHANGED <<dbVars, mu, memVars, key, vid, srv, want, histVars, crashes>>

GiQueryFails(t) ==
    /\ DBMayFail
    /\ pc[t] = "gi_query"
    /\ conn = None
    /\ Return(t)
    /\ UNCHANGED <<dbVars, conn, mu, memVars, histVars, crashes>>

\* The nested call of Resolve, while the rows are open.
GiResolveHit(t) ==
    /\ pc[t] = "gi_resolve"
    /\ mu = None
    /\ cache[vid[t]] # None
    /\ got' = [got EXCEPT ![t] = @ \cup {cache[vid[t]]}]
    /\ conn' = None
    /\ Goto(t, "gi_done")
    /\ UNCHANGED <<dbVars, mu, memVars, key, vid, srv, want, histVars, crashes>>

\* On a miss Resolve asks for a connection: the goroutine waits, forever, for
\* the one it holds itself.  There is no action from "gi_requery".
GiResolveMiss(t) ==
    /\ pc[t] = "gi_resolve"
    /\ mu = None
    /\ cache[vid[t]] = None
    /\ Goto(t, "gi_requery")
    /\ UNCHANGED <<dbVars, conn, mu, memVars, localVars, histVars, crashes>>

GiReturn(t) ==
    /\ pc[t] = "gi_done"
    /\ Return(t)
    /\ UNCHANGED <<dbVars, conn, mu, memVars, histVars, crashes>>

GetInstances(t) ==
    \/ \E v \in known : CallGetInstances(t, v)
    \/ GiCached(t)
    \/ GiList(t)
    \/ GiUncached(t)
    \/ GiQuery(t)
    \/ GiQueryFails(t)
    \/ GiResolveHit(t)
    \/ GiResolveMiss(t)
    \/ GiReturn(t)

-----------------------------------------------------------------------------
(* CleanupServer(serverID)                                                 *)

CallCleanupServer(t, s) ==
    /\ "CleanupServer" \in Ops
    /\ pc[t] = "idle"
    /\ Goto(t, "cl_lock")
    /\ srv' = [srv EXCEPT ![t] = s]
    /\ UNCHANGED <<dbVars, conn, mu, memVars, key, vid, got, want, histVars, crashes>>

ClLock(t) ==
    /\ pc[t] = "cl_lock"
    /\ mu = None
    /\ mu' = t
    /\ Goto(t, "cl_instances")
    /\ UNCHANGED <<dbVars, conn, memVars, localVars, histVars, crashes>>

ClInstances(t) ==
    /\ pc[t] = "cl_instances"
    /\ conn = None
    /\ instances' = [v \in Vids |-> Without(instances[v], srv[t])]
    /\ added' = [v \in Vids |-> Without(added[v], srv[t])]
    /\ Goto(t, "cl_mapping")
    /\ UNCHANGED <<mapping, conn, mu, memVars, localVars, birth, known, issued, gone, crashes>>

\* A bug to catch: an early return that does not unlock.
ClFailsLocked(t) ==
    /\ DBMayFail
    /\ pc[t] \in {"cl_instances", "cl_mapping"}
    /\ conn = None
    /\ Return(t)
    /\ UNCHANGED <<dbVars, conn, mu, memVars, histVars, crashes>>

\* Either DELETE may fail: the call returns, the cache is left as it is.
ClFails(t) ==
    /\ DBMayFail
    /\ pc[t] \in {"cl_instances", "cl_mapping"}
    /\ conn = None
    /\ mu' = None
    /\ Return(t)
    /\ UNCHANGED <<dbVars, conn, memVars, histVars, crashes>>

\* From here on the ids of the server are void.
ClMapping(t) ==
    /\ pc[t] = "cl_mapping"
    /\ conn = None
    /\ mapping' = [v \in Vids |-> IF mapping[v] \in Originals \X {srv[t]} THEN None ELSE mapping[v]]
    /\ issued' = [k \in Keys |-> IF Srv(k) = srv[t] THEN {} ELSE issued[k]]
    /\ Goto(t, "cl_cache")
    /\ UNCHANGED <<instances, conn, mu, memVars, localVars, birth, known, added, gone, crashes>>

\* The cached mappings of the server, and their rmap entries.
Doomed(t) == {v \in Vids : cache[v] \in Originals \X {srv[t]}}

\* Nobody else is about to store something for server s.
NobodyUses(t, s) ==
    \A u \in Threads \ {t} : key[u] = None \/ Srv(key[u]) # s

\* A bug to catch: the loop deletes from cache and forgets rmap.
ClCacheKeepsRmap(t) ==
    /\ pc[t] = "cl_cache"
    /\ cache' = [v \in Vids |-> IF v \in Doomed(t) THEN None ELSE cache[v]]
    /\ gone' = IF NobodyUses(t, srv[t]) THEN gone \cup {srv[t]} ELSE gone
    /\ mu' = None
    /\ Return(t)
    /\ UNCHANGED <<dbVars, conn, memInst, rmap, birth, known, issued, added, crashes>>

ClCache(t) ==
    /\ pc[t] = "cl_cache"
    /\ cache' = [v \in Vids |-> IF v \in Doomed(t) THEN None ELSE cache[v]]
    /\ rmap' = [k \in Keys |-> IF \E v \in Doomed(t) : cache[v] = k THEN None ELSE rmap[k]]
    /\ gone' = IF NobodyUses(t, srv[t]) THEN gone \cup {srv[t]} ELSE gone
    /\ mu' = None
    /\ Return(t)
    /\ UNCHANGED <<dbVars, conn, memInst, birth, known, issued, added, crashes>>

CleanupServer(t) ==
    \/ \E s \in Servers : CallCleanupServer(t, s)
    \/ ClLock(t)
    \/ ClInstances(t)
    \/ ClFails(t)
    \/ ClMapping(t)
    \/ ClCache(t)

-----------------------------------------------------------------------------
(* The process ends, at any point, and starts again: NewStore.             *)

EndOfProcess ==
    /\ crashes < MaxCrashes
    /\ crashes' = crashes + 1
    /\ conn' = None
    /\ mu' = None
    /\ pc' = [t \in Threads |-> "idle"]
    /\ key' = [t \in Threads |-> None]
    /\ vid' = [t \in Threads |-> None]
    /\ srv' = [t \in Threads |-> None]
    /\ got' = [t \in Threads |-> {}]
    /\ want' = [t \in Threads |-> {}]
    /\ memInst' = [v \in Vids |-> {}]
    /\ UNCHANGED <<dbVars, histVars>>

\* loadCache reads id_mapping, and does not read id_instances.
Restart ==
    /\ EndOfProcess
    /\ cache' = mapping
    /\ rmap' = ReverseOf(mapping)

\* The query of loadCache fails; nothing reports it.
RestartLoadFails ==
    /\ LoadMayFail
    /\ EndOfProcess
    /\ cache' = [v \in Vids |-> None]
    /\ rmap' = [k \in Keys |-> None]

Call(t) ==
    \/ GetOrCreate(t)
    \/ Resolve(t)
    \/ AddInstance(t)
    \/ GetInstances(t)
    \/ CleanupServer(t)

Next ==
    \/ \E t \in Threads : Call(t)
    \/ Restart
    \/ RestartLoadFails

Spec == Init /\ [][Next]_vars

\* Go's mutexes hand over to a goroutine that has waited long (starvation
\* mode), and database/sql hands a freed connection to one of its waiters: a
\* goroutine that can run again and again is scheduled in the end.
FairSpec == Spec /\ \A t \in Threads : SF_vars(pc[t] # "idle" /\ Call(t))

-----------------------------------------------------------------------------
PCs == {"idle", "goc_read", "goc_lock", "goc_insert", "goc_query", "goc_publish",
        "res_read", "res_query", "res_fill", "res_done",
        "add_insert", "add_lock", "add_write",
        "gi_read", "gi_list", "gi_query", "gi_resolve", "gi_requery", "gi_done",
        "cl_lock", "cl_instances", "cl_mapping", "cl_cache"}

\* The program points between s.mu.Lock and s.mu.Unlock.
LockedPCs == {"goc_insert", "goc_query", "goc_publish", "add_write",
              "cl_instances", "cl_mapping", "cl_cache"}

UsesKey == {"goc_read", "goc_lock", "goc_insert", "goc_query", "goc_publish",
            "res_fill", "res_done", "add_insert", "add_lock", "add_write", "gi_list"}

UsesVid == {"goc_publish", "res_read", "res_query", "res_fill", "res_done",
            "add_insert", "add_lock", "add_write",
            "gi_read", "gi_list", "gi_query", "gi_resolve", "gi_requery", "gi_done"}

UsesSrv == {"cl_lock", "cl_instances", "cl_mapping", "cl_cache"}

\* The program points between db.Query and rows.Close.
RowsOpenPCs == {"gi_resolve", "gi_requery"}

TablesOK ==
    /\ mapping \in [Vids -> Keys \cup {None}]
    /\ instances \in [Vids -> SUBSET Keys]

MemoryOK ==
    /\ cache \in [Vids -> Keys \cup {None}]
    /\ memInst \in [Vids -> SUBSET Keys]
    /\ rmap \in [Keys -> Vids \cup {None}]

HistoryOK ==
    /\ birth \in [Vids -> Keys \cup {None}]
    /\ known \in SUBSET Vids
    /\ issued \in [Keys -> SUBSET Vids]
    /\ added \in [Vids -> SUBSET Keys]
    /\ gone \in SUBSET Servers
    /\ crashes \in 0..MaxCrashes

\* A local has its type, and a value where the code uses it.
LocalsOK ==
    /\ pc \in [Threads -> PCs]
    /\ key \in [Threads -> Keys \cup {None}]
    /\ vid \in [Threads -> Vids \cup {None}]
    /\ srv \in [Threads -> Servers \cup {None}]
    /\ got \in [Threads -> SUBSET AnyKey]
    /\ want \in [Threads -> SUBSET Keys]
    /\ \A t \in Threads :
         /\ pc[t] \in UsesKey => key[t] \in Keys
         /\ pc[t] \in UsesVid => vid[t] \in Vids
         /\ pc[t] \in UsesSrv => srv[t] \in Servers

\* The write lock is held by the goroutine that is inside it, the connection by
\* the one whose rows are open.
HoldersOK ==
    /\ mu \in Threads \cup {None}
    /\ conn \in Threads \cup {None}
    /\ \A t \in Threads : mu = t <=> pc[t] \in LockedPCs
    /\ \A t \in Threads : conn = t <=> pc[t] \in RowsOpenPCs

\* Every variable has its type; no path of any operation, error paths and
\* early returns included, leaves with the write lock or the connection, or
\* enters while another goroutine has it (store.go:49-245).
TypeOK == TablesOK /\ MemoryOK /\ HistoryOK /\ LocalsOK /\ HoldersOK

\* Whatever is concurrent and however often the process restarts, a key has at
\* most one virtual id until its server is cleaned up: a client that has stored
\* an id (favourites, resume points) meets the same item under the same id.
\* The double-checked lock of GetOrCreate, store.go:49-97.
StableIds == \A k \in Keys : \A v, w \in issued[k] : v = w

\* An id a client holds has its row in the database, so a crash right after the
\* reply does not lose it: the INSERT comes before the publication, and the
\* cleanup deletes the row before the cache entry.  store.go:67-96, 225-242.
DurableIds == \A k \in Keys : issued[k] \subseteq VidsOf(mapping, k)

\* Outside the write lock cache, reverse map and table agree exactly, also
\* after a failed INSERT or DELETE and after a restart.  store.go:49-97, 216-283.
Coherent == mu = None => cache = mapping /\ rmap = ReverseOf(mapping)

\* The inductive form of the three invariants above, for a process whose
\* loadCache never fails.  What the table has and memory does not is the row of
\* the one call between INSERT and publication; what memory has and the table
\* does not are the mappings CleanupServer is about to drop.
CoherenceInv ==
    /\ Injective(mapping)
    /\ \A v \in Vids :
         /\ birth[v] = None => mapping[v] = None /\ cache[v] = None /\ v \notin known
         /\ mapping[v] # None =>
              \/ cache[v] = mapping[v] /\ rmap[mapping[v]] = v
              \/ \E t \in Threads : pc[t] = "goc_publish" /\ vid[t] = v
         /\ cache[v] # None =>
              \/ mapping[v] = cache[v]
              \/ /\ mapping[v] = None
                 /\ \E t \in Threads : pc[t] = "cl_cache" /\ Srv(cache[v]) = srv[t]
    /\ \A k \in Keys : rmap[k] # None => cache[rmap[k]] = k
    /\ \A t \in Threads :
         /\ pc[t] \in {"goc_insert", "goc_query", "goc_publish"} => rmap[key[t]] = None
         /\ pc[t] = "goc_publish" =>
              mapping[vid[t]] = key[t] /\ cache[vid[t]] = None /\ vid[t] \notin known
         /\ pc[t] \in {"res_read", "res_query"} => vid[t] \in known
         /\ pc[t] = "res_query" => cache[vid[t]] = None
         /\ pc[t] # "res_fill"
         /\ pc[t] = "cl_cache" => \A v \in Vids : mapping[v] # None => Srv(mapping[v]) # srv[t]
    /\ DurableIds

\* Even when loadCache failed and rows are read back one at a time, the id a
\* client got for an item resolves to that item or to nothing, never to the
\* item of another server.  store.go:73-84, 100-132.
RoundTrip ==
    /\ \A k \in Keys : \A v \in issued[k] : birth[v] = k
    /\ \A t \in Threads : pc[t] = "res_done" => key[t] = birth[vid[t]]

\* The inductive form of RoundTrip: nothing the store keeps or a call carries
\* pairs an id with another key than the one it was drawn for.
BirthInv ==
    /\ \A v \in Vids :
         /\ mapping[v] # None => mapping[v] = birth[v]
         /\ cache[v] # None => cache[v] = birth[v]
    /\ \A k \in Keys : rmap[k] # None => birth[rmap[k]] = k
    /\ \A k \in Keys : \A v \in issued[k] : birth[v] = k
    /\ \A t \in Threads :
         /\ pc[t] = "goc_publish" => birth[vid[t]] = key[t]
         /\ pc[t] \in {"res_fill", "res_done"} => birth[vid[t]] = key[t]

OnServer(S, s) == \E k \in S : Srv(k) = s

\* GetInstances lists a copy on every server whose AddInstance had returned
\* when the call began, and that was not cleaned up since (store.go:169, "all
\* instances of the virtual id").
InstancesComplete ==
    \A t \in Threads : pc[t] = "gi_done" =>
        \A s \in Servers :
            OnServer(want[t], s) /\ OnServer(added[vid[t]], s) => OnServer(got[t], s)

\* The same, in a process that has not been restarted: a reader of the list
\* meets a writer, a cleanup, a failed statement.
InstancesCompleteUntilRestart == crashes = 0 => InstancesComplete

\* The inductive form of it, for a process whose loadCache never fails.  The
\* cached list of a cached id has a copy on every server added; a call that
\* finds the list empty, or the id gone from the cache, wants none.
ListInv ==
    crashes = 0 =>
        /\ \A v \in Vids :
             /\ added[v] # {} => v \in known
             /\ cache[v] # None =>
                  \A s \in Servers : OnServer(added[v], s) => OnServer(memInst[v], s)
        /\ \A t \in Threads :
             /\ pc[t] \in {"add_insert", "add_lock", "add_write",
                          "gi_read", "gi_list", "gi_query", "gi_resolve"} => vid[t] \in known
             /\ pc[t] \in {"gi_read", "gi_list"} =>
                  \A s \in Servers : OnServer(want[t], s) => OnServer(memInst[vid[t]], s)
             /\ pc[t] \in {"gi_list", "gi_done"} =>
                  \A s \in Servers : OnServer(want[t], s) => OnServer(got[t], s)
             /\ pc[t] \in {"gi_query", "gi_resolve"} => cache[vid[t]] = None \/ want[t] = {}

\* GetInstances lists instances that exist: no original id that is half one
\* and half another (store_test.go:52).
NoTornInstance == \A t \in Threads : pc[t] = "gi_done" => got[t] \subseteq Keys

\* What GetInstances(v) answers when nothing else runs.
Listed(v) == {cache[v]} \cup (IF memInst[v] # {} THEN memInst[v] ELSE instances[v])

\* After CleanupServer, and with no call in progress that names the server, no
\* list of instances has one of that server (store.go:215).
CleanupComplete ==
    (\A t \in Threads : pc[t] = "idle") =>
        \A s \in gone, v \in known : cache[v] # None => \A k \in Listed(v) : Srv(k) # s

\* k is a key of server s, and not None.
IsOf(k, s) == k \in Keys /\ Srv(k) = s

\* What CleanupServer does achieve, failed calls, late answers and restarts
\* included: until a call names the server again no row, no cached mapping and
\* no call in progress does, so no restart and no read of a table brings it
\* back.  (The lists in the cache are what CleanupComplete misses.)
NothingLeft ==
    \A s \in gone :
        /\ \A v \in Vids : ~IsOf(mapping[v], s) /\ ~IsOf(cache[v], s) /\ ~OnServer(instances[v], s)
        /\ \A t \in Threads : ~IsOf(key[t], s)

\* What a clean-up has done at each step: AddInstance, which stores its row
\* without the lock, may have put one behind it, and then waits for the lock.
CleanInv ==
    /\ NothingLeft
    /\ \A t \in Threads :
         /\ pc[t] \in {"cl_mapping", "cl_cache"} => \A v \in Vids :
              OnServer(instances[v], srv[t]) =>
                  \E u \in Threads : pc[u] = "add_lock" /\ Srv(key[u]) = srv[t]
         /\ pc[t] = "cl_cache" => \A v \in Vids : ~IsOf(mapping[v], srv[t])

WaitForLock == {"goc_read", "goc_lock", "res_read", "res_fill", "add_lock",
                "gi_read", "gi_resolve", "cl_lock"}
WaitForConn == {"goc_insert", "goc_query", "res_query", "add_insert",
                "gi_query", "gi_requery", "cl_instances", "cl_mapping"}

\* A call in progress that nothing keeps waiting.
MayRun(t) ==
    /\ pc[t] # "idle"
    /\ pc[t] \in WaitForLock => mu = None
    /\ pc[t] \in WaitForConn => conn = None

\* GetInstances has its rows open, and its nested Resolve waits for the lock of
\* a call that waits for the connection, or for that connection itself.
RowsKeptOpen ==
    \E t \in Threads :
        \/ pc[t] = "gi_requery"
        \/ pc[t] = "gi_resolve" /\ \E u \in Threads : mu = u /\ pc[u] \in WaitForConn

\* The one lock and the one connection leave the store no other deadlock than
\* that: calls in progress never all wait for each other, on any path through
\* the operations, unless GetInstances calls Resolve with its rows open
\* (store.go:184-197; the rest takes the lock first, 59-72, 217-225, or
\* lets go of the connection before it locks, 112-121, 136-145).
OnlyThisDeadlock ==
    (\E t \in Threads : pc[t] # "idle") => (\E t \in Threads : MayRun(t)) \/ RowsKeptOpen

\* Every call of the store returns.
CallsReturn == \A t \in Threads : pc[t] # "idle" ~> pc[t] = "idle"

\* The table id_mapping is a directory of ids.
Directory == INSTANCE IdDirectory WITH
    bound <- ReverseOf(mapping),
    drawn <- {v \in Vids : birth[v] # None}

\* The store, with everything that may fail failing, implements that directory.
ImplementsDirectory == Directory!Spec
=============================================================================

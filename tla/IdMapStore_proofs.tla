------------------------- MODULE IdMapStore_proofs -------------------------
(***************************************************************************)
(* Theorems of IdMapStore, for any number of goroutines, items, servers,   *)
(* ids and restarts.  In turn: types and holders of the lock and of the    *)
(* connection; no id is paired with a key it was not drawn for; memory and *)
(* table agree, if loadCache never fails; until a restart, a list of       *)
(* instances is complete; what a clean-up leaves; the table is an          *)
(* IdDirectory; there is one way to deadlock.                              *)
(***************************************************************************)
EXTENDS IdMapStore, TLAPS

\* Replacing an instance adds a key, and nothing else.
LEMMA ReplaceType == ASSUME NEW D, NEW S \in SUBSET D, NEW k \in D PROVE Replace(S, k) \in SUBSET D
  BY DEF Replace

\* A key is an instance.
LEMMA KeysAreAnyKeys == Keys \subseteq AnyKey
  BY DEF Keys, AnyKey

\* A torn instance keeps its server.
LEMMA TornType == \A k \in Keys : <<Torn, Srv(k)>> \in AnyKey
  BY DEF Keys, AnyKey, Srv

\* The initial states have their types.
LEMMA TypeInit == Init => TypeOK
  BY ConstantsAssumption DEF Init, TypeOK, TablesOK, MemoryOK, HistoryOK, LocalsOK, HoldersOK,
     ReverseOf, VidsOf, PCs, UsesKey, UsesVid, UsesSrv, LockedPCs, RowsOpenPCs, AnyKey, Keys

\* GetOrCreate keeps every type, and who holds the lock and the connection.
LEMMA TypeGetOrCreate == ASSUME TypeOK, NEW t \in Threads, GetOrCreate(t) PROVE TypeOK'
  <1> USE ConstantsAssumption, KeysAreAnyKeys DEF TypeOK, TablesOK, MemoryOK, HistoryOK, LocalsOK, HoldersOK, PCs, UsesKey, UsesVid, UsesSrv, LockedPCs, RowsOpenPCs, Goto, Return, dbVars, memVars, localVars, histVars
  <1>1. CASE \E k \in Keys : CallGetOrCreate(t, k)
    BY <1>1 DEF CallGetOrCreate
  <1>2. CASE GocHit(t)
    BY <1>2 DEF GocHit, Issue
  <1>3. CASE GocMiss(t)
    BY <1>3 DEF GocMiss
  <1>4. CASE GocLock(t)
    BY <1>4 DEF GocLock
  <1>5. CASE GocInsert(t)
    BY <1>5 DEF GocInsert, Fresh
  <1>6. CASE GocInsertFails(t)
    BY <1>6 DEF GocInsertFails
  <1>7. CASE GocExisting(t)
    BY <1>7 DEF GocExisting, Issue, VidsOf
  <1>8. CASE GocDegraded(t)
    BY <1>8 DEF GocDegraded
  <1>9. CASE GocPublish(t)
    BY <1>9 DEF GocPublish, Issue
  <1> QED
    BY <1>1, <1>2, <1>3, <1>4, <1>5, <1>6, <1>7, <1>8, <1>9 DEF GetOrCreate

\* Resolve keeps every type, and who holds the lock and the connection.
LEMMA TypeResolve == ASSUME TypeOK, NEW t \in Threads, Resolve(t) PROVE TypeOK'
  <1> USE ConstantsAssumption, KeysAreAnyKeys DEF TypeOK, TablesOK, MemoryOK, HistoryOK, LocalsOK, HoldersOK, PCs, UsesKey, UsesVid, UsesSrv, LockedPCs, RowsOpenPCs, Goto, Return, dbVars, memVars, localVars, histVars
  <1>1. CASE \E v \in known : CallResolve(t, v)
    BY <1>1 DEF CallResolve
  <1>2. CASE ResHit(t)
    BY <1>2 DEF ResHit
  <1>3. CASE ResMiss(t)
    BY <1>3 DEF ResMiss
  <1>4. CASE ResRow(t)
    BY <1>4 DEF ResRow
  <1>5. CASE ResNotFound(t)
    BY <1>5 DEF ResNotFound
  <1>6. CASE ResFill(t)
    BY <1>6 DEF ResFill
  <1>7. CASE ResReturn(t)
    BY <1>7 DEF ResReturn
  <1> QED
    BY <1>1, <1>2, <1>3, <1>4, <1>5, <1>6, <1>7 DEF Resolve

\* AddInstance keeps every type, and who holds the lock and the connection.
LEMMA TypeAddInstance == ASSUME TypeOK, NEW t \in Threads, AddInstance(t) PROVE TypeOK'
  <1> USE ConstantsAssumption, KeysAreAnyKeys DEF TypeOK, TablesOK, MemoryOK, HistoryOK, LocalsOK, HoldersOK, PCs, UsesKey, UsesVid, UsesSrv, LockedPCs, RowsOpenPCs, Goto, Return, dbVars, memVars, localVars, histVars
  <1>1. CASE \E v \in known, k \in Keys : CallAddInstance(t, v, k)
    BY <1>1 DEF CallAddInstance
  <1>2. CASE AddInsert(t)
    <2>1. Replace(instances[vid[t]], key[t]) \in SUBSET Keys
      <3>1. vid[t] \in Vids /\ key[t] \in Keys /\ instances[vid[t]] \in SUBSET Keys
        BY <1>2 DEF AddInsert
      <3> QED
        BY ONLY <3>1, ReplaceType
    <2> QED
      BY <1>2, <2>1 DEF AddInsert
  <1>3. CASE AddInsertFails(t)
    BY <1>3 DEF AddInsertFails
  <1>4. CASE AddLock(t)
    BY <1>4 DEF AddLock
  <1>5. CASE AddWrite(t)
    <2>1. /\ Replace(memInst[vid[t]], key[t]) \in SUBSET Keys
          /\ Replace(added[vid[t]], key[t]) \in SUBSET Keys
      <3>1. /\ vid[t] \in Vids /\ key[t] \in Keys
            /\ memInst[vid[t]] \in SUBSET Keys /\ added[vid[t]] \in SUBSET Keys
        BY <1>5 DEF AddWrite
      <3> QED
        BY ONLY <3>1, ReplaceType
    <2> QED
      BY <1>5, <2>1 DEF AddWrite
  <1> QED
    BY <1>1, <1>2, <1>3, <1>4, <1>5 DEF AddInstance

\* GetInstances keeps every type, and who holds the lock and the connection.
LEMMA TypeGetInstances == ASSUME TypeOK, NEW t \in Threads, GetInstances(t) PROVE TypeOK'
  <1> USE ConstantsAssumption, KeysAreAnyKeys DEF TypeOK, TablesOK, MemoryOK, HistoryOK, LocalsOK, HoldersOK, PCs, UsesKey, UsesVid, UsesSrv, LockedPCs, RowsOpenPCs, Goto, Return, dbVars, memVars, localVars, histVars
  <1>1. CASE \E v \in known : CallGetInstances(t, v)
    BY <1>1 DEF CallGetInstances
  <1>2. CASE GiCached(t)
    BY <1>2 DEF GiCached
  <1>3. CASE GiList(t)
    <2>1. PICK seen \in SeenLists(t) : got' = [got EXCEPT ![t] = seen \cup {key[t]}]
      BY <1>3 DEF GiList
    <2>2. got[t] \in SUBSET AnyKey /\ memInst[vid[t]] \in SUBSET AnyKey
      BY <1>3 DEF GiList
    <2>3. ASSUME NEW u \in Threads, pc[u] = "add_write"
          PROVE  Replace(got[t], <<Torn, Srv(key[u])>>) \in SUBSET AnyKey
      <3>1. <<Torn, Srv(key[u])>> \in AnyKey
        BY <2>3, TornType
      <3> QED
        BY ONLY <3>1, <2>2, ReplaceType
    <2>4. seen \in SUBSET AnyKey
      <3>1. CASE seen \in {got[t]} \cup ({memInst[vid[t]]} \ {{}})
        BY <3>1, <2>2
      <3>2. CASE seen \in {Replace(got[t], <<Torn, Srv(key[u])>>) :
                             u \in {w \in Threads : pc[w] = "add_write" /\ vid[w] = vid[t]}}
        <4>1. PICK u \in Threads : /\ pc[u] = "add_write"
                                   /\ seen = Replace(got[t], <<Torn, Srv(key[u])>>)
          BY <3>2
        <4> QED
          BY <4>1, <2>3
      <3> QED
        BY <2>1, <3>1, <3>2 DEF SeenLists
    <2>5. seen \cup {key[t]} \in SUBSET AnyKey
      BY <1>3, <2>4 DEF GiList
    <2> QED
      BY <1>3, <2>1, <2>5 DEF GiList
  <1>4. CASE GiUncached(t)
    BY <1>4 DEF GiUncached
  <1>5. CASE GiQuery(t)
    BY <1>5 DEF GiQuery
  <1>6. CASE GiQueryFails(t)
    BY <1>6 DEF GiQueryFails
  <1>7. CASE GiResolveHit(t)
    BY <1>7 DEF GiResolveHit
  <1>8. CASE GiResolveMiss(t)
    BY <1>8 DEF GiResolveMiss
  <1>9. CASE GiReturn(t)
    BY <1>9 DEF GiReturn
  <1> QED
    BY <1>1, <1>2, <1>3, <1>4, <1>5, <1>6, <1>7, <1>8, <1>9 DEF GetInstances

\* CleanupServer keeps every type, and who holds the lock and the connection.
LEMMA TypeCleanupServer == ASSUME TypeOK, NEW t \in Threads, CleanupServer(t) PROVE TypeOK'
  <1> USE ConstantsAssumption, KeysAreAnyKeys DEF TypeOK, TablesOK, MemoryOK, HistoryOK, LocalsOK, HoldersOK, PCs, UsesKey, UsesVid, UsesSrv, LockedPCs, RowsOpenPCs, Goto, Return, dbVars, memVars, localVars, histVars
  <1>1. CASE \E s \in Servers : CallCleanupServer(t, s)
    BY <1>1 DEF CallCleanupServer
  <1>2. CASE ClLock(t)
    BY <1>2 DEF ClLock
  <1>3. CASE ClInstances(t)
    BY <1>3 DEF ClInstances, Without
  <1>4. CASE ClFails(t)
    BY <1>4 DEF ClFails
  <1>5. CASE ClMapping(t)
    BY <1>5 DEF ClMapping
  <1>6. CASE ClCache(t)
    BY <1>6 DEF ClCache
  <1> QED
    BY <1>1, <1>2, <1>3, <1>4, <1>5, <1>6 DEF CleanupServer

\* A restart keeps every type, and who holds the lock and the connection.
LEMMA TypeRestart == ASSUME TypeOK, Restart \/ RestartLoadFails PROVE TypeOK'
  <1> USE ConstantsAssumption
      DEF TypeOK, TablesOK, MemoryOK, HistoryOK, LocalsOK, HoldersOK, dbVars, histVars,
          PCs, UsesKey, UsesVid, UsesSrv, LockedPCs, RowsOpenPCs
  <1>1. ReverseOf(mapping) \in [Keys -> Vids \cup {None}]
    BY DEF ReverseOf, VidsOf
  <1>2. CASE Restart
    BY <1>1, <1>2 DEF Restart, EndOfProcess
  <1>3. CASE RestartLoadFails
    BY <1>3 DEF RestartLoadFails, EndOfProcess
  <1> QED
    BY <1>2, <1>3

\* A stuttering step keeps every type, and who holds the lock and the connection.
LEMMA TypeStutter == ASSUME TypeOK, UNCHANGED vars PROVE TypeOK'
  BY DEF vars, dbVars, memVars, localVars, histVars,
     TypeOK, TablesOK, MemoryOK, HistoryOK, LocalsOK, HoldersOK

\* Every step of the store keeps the types.
LEMMA TypeStep == TypeOK /\ [Next]_vars => TypeOK'
  BY TypeGetOrCreate, TypeResolve, TypeAddInstance, TypeGetInstances, TypeCleanupServer,
     TypeRestart, TypeStutter DEF Next, Call

\* Every variable keeps its type, and no operation leaves a path on which it
\* keeps the lock or the connection, whatever the number of goroutines, items,
\* servers and restarts.
THEOREM TypeCorrect == Spec => []TypeOK
  BY TypeInit, TypeStep, PTL DEF Spec

-----------------------------------------------------------------------------
\* No id is paired with a key it was not drawn for.

\* At the start an id is paired with the key it was drawn for.
LEMMA BirthInit == Init => BirthInv
  BY ConstantsAssumption DEF Init, BirthInv, ReverseOf, VidsOf

\* GetOrCreate pairs no id with another key than its own.
LEMMA BirthGetOrCreate ==
  ASSUME TypeOK, BirthInv, NEW t \in Threads, GetOrCreate(t)
  PROVE  BirthInv'
  <1> USE ConstantsAssumption
      DEF BirthInv, TypeOK, TablesOK, MemoryOK, HistoryOK, LocalsOK, UsesKey, UsesVid, UsesSrv,
          Goto, Return, dbVars, memVars, localVars, histVars
  <1>1. CASE \E k \in Keys : CallGetOrCreate(t, k)
    BY <1>1 DEF CallGetOrCreate
  <1>2. CASE GocHit(t)
    BY <1>2 DEF GocHit, Issue
  <1>3. CASE GocMiss(t)
    BY <1>3 DEF GocMiss
  <1>4. CASE GocLock(t)
    BY <1>4 DEF GocLock
  <1>5. CASE GocInsert(t)
    BY <1>5 DEF GocInsert, Fresh
  <1>6. CASE GocInsertFails(t)
    BY <1>6 DEF GocInsertFails
  <1>7. CASE GocExisting(t)
    BY <1>7 DEF GocExisting, Issue, VidsOf
  <1>8. CASE GocDegraded(t)
    BY <1>8 DEF GocDegraded
  <1>9. CASE GocPublish(t)
    BY <1>9 DEF GocPublish, Issue
  <1> QED
    BY <1>1, <1>2, <1>3, <1>4, <1>5, <1>6, <1>7, <1>8, <1>9 DEF GetOrCreate

\* Resolve pairs no id with another key than its own.
LEMMA BirthResolve ==
  ASSUME TypeOK, BirthInv, NEW t \in Threads, Resolve(t)
  PROVE  BirthInv'
  <1> USE ConstantsAssumption
      DEF BirthInv, TypeOK, TablesOK, MemoryOK, HistoryOK, LocalsOK, UsesKey, UsesVid, UsesSrv,
          Goto, Return, dbVars, memVars, localVars, histVars
  <1>1. CASE \E v \in known : CallResolve(t, v)
    BY <1>1 DEF CallResolve
  <1>2. CASE ResHit(t)
    BY <1>2 DEF ResHit
  <1>3. CASE ResMiss(t)
    BY <1>3 DEF ResMiss
  <1>4. CASE ResRow(t)
    BY <1>4 DEF ResRow
  <1>5. CASE ResNotFound(t)
    BY <1>5 DEF ResNotFound
  <1>6. CASE ResFill(t)
    BY <1>6 DEF ResFill
  <1>7. CASE ResReturn(t)
    BY <1>7 DEF ResReturn
  <1> QED
    BY <1>1, <1>2, <1>3, <1>4, <1>5, <1>6, <1>7 DEF Resolve

\* AddInstance pairs no id with another key than its own.
LEMMA BirthAddInstance ==
  ASSUME TypeOK, BirthInv, NEW t \in Threads, AddInstance(t)
  PROVE  BirthInv'
  <1> USE ConstantsAssumption
      DEF BirthInv, TypeOK, TablesOK, MemoryOK, HistoryOK, LocalsOK, UsesKey, UsesVid, UsesSrv,
          Goto, Return, dbVars, memVars, localVars, histVars
  <1>1. CASE \E v \in known, k \in Keys : CallAddInstance(t, v, k)
    BY <1>1 DEF CallAddInstance
  <1>2. CASE AddInsert(t)
    BY <1>2 DEF AddInsert
  <1>3. CASE AddInsertFails(t)
    BY <1>3 DEF AddInsertFails
  <1>4. CASE AddLock(t)
    BY <1>4 DEF AddLock
  <1>5. CASE AddWrite(t)
    BY <1>5 DEF AddWrite
  <1> QED
    BY <1>1, <1>2, <1>3, <1>4, <1>5 DEF AddInstance

\* GetInstances pairs no id with another key than its own.
LEMMA BirthGetInstances ==
  ASSUME TypeOK, BirthInv, NEW t \in Threads, GetInstances(t)
  PROVE  BirthInv'
  <1> USE ConstantsAssumption
      DEF BirthInv, TypeOK, TablesOK, MemoryOK, HistoryOK, LocalsOK, UsesKey, UsesVid, UsesSrv,
          Goto, Return, dbVars, memVars, localVars, histVars
  <1>1. CASE \E v \in known : CallGetInstances(t, v)
    BY <1>1 DEF CallGetInstances
  <1>2. CASE GiCached(t)
    BY <1>2 DEF GiCached
  <1>3. CASE GiList(t)
    BY <1>3 DEF GiList
  <1>4. CASE GiUncached(t)
    BY <1>4 DEF GiUncached
  <1>5. CASE GiQuery(t)
    BY <1>5 DEF GiQuery
  <1>6. CASE GiQueryFails(t)
    BY <1>6 DEF GiQueryFails
  <1>7. CASE GiResolveHit(t)
    BY <1>7 DEF GiResolveHit
  <1>8. CASE GiResolveMiss(t)
    BY <1>8 DEF GiResolveMiss
  <1>9. CASE GiReturn(t)
    BY <1>9 DEF GiReturn
  <1> QED
    BY <1>1, <1>2, <1>3, <1>4, <1>5, <1>6, <1>7, <1>8, <1>9 DEF GetInstances

\* CleanupServer pairs no id with another key than its own.
LEMMA BirthCleanupServer ==
  ASSUME TypeOK, BirthInv, NEW t \in Threads, CleanupServer(t)
  PROVE  BirthInv'
  <1> USE ConstantsAssumption
      DEF BirthInv, TypeOK, TablesOK, MemoryOK, HistoryOK, LocalsOK, UsesKey, UsesVid, UsesSrv,
          Goto, Return, dbVars, memVars, localVars, histVars
  <1>1. CASE \E s \in Servers : CallCleanupServer(t, s)
    BY <1>1 DEF CallCleanupServer
  <1>2. CASE ClLock(t)
    BY <1>2 DEF ClLock
  <1>3. CASE ClInstances(t)
    BY <1>3 DEF ClInstances
  <1>4. CASE ClFails(t)
    BY <1>4 DEF ClFails
  <1>5. CASE ClMapping(t)
    BY <1>5 DEF ClMapping
  <1>6. CASE ClCache(t)
    BY <1>6 DEF ClCache, Doomed
  <1> QED
    BY <1>1, <1>2, <1>3, <1>4, <1>5, <1>6 DEF CleanupServer

\* A restart pairs no id with another key than its own.
LEMMA BirthRestart == ASSUME TypeOK, BirthInv, Restart \/ RestartLoadFails PROVE BirthInv'
  <1> USE ConstantsAssumption
      DEF BirthInv, TypeOK, TablesOK, HistoryOK, EndOfProcess, ReverseOf, VidsOf, dbVars, histVars
  <1>1. CASE Restart
    BY <1>1 DEF Restart
  <1>2. CASE RestartLoadFails
    BY <1>2 DEF RestartLoadFails
  <1> QED
    BY <1>1, <1>2

\* A stuttering step pairs no id with another key than its own.
LEMMA BirthStutter == ASSUME BirthInv, UNCHANGED vars PROVE BirthInv'
  BY DEF vars, dbVars, memVars, localVars, histVars, BirthInv

\* No id is ever paired with another key than its own.
LEMMA BirthAlways == Spec => []BirthInv
  <1>1. TypeOK /\ BirthInv /\ [Next]_vars => BirthInv'
    BY BirthGetOrCreate, BirthResolve, BirthAddInstance, BirthGetInstances, BirthCleanupServer,
       BirthRestart, BirthStutter DEF Next, Call
  <1> QED
    BY TypeCorrect, BirthInit, <1>1, PTL DEF Spec

\* An id resolves to the item it was drawn for or to nothing, whatever fails:
\* the INSERT, the queries, the load of the cache.
THEOREM RoundTripAlways == Spec => []RoundTrip
  <1>1. BirthInv => RoundTrip
    BY DEF BirthInv, RoundTrip
  <1> QED
    BY BirthAlways, <1>1, PTL

-----------------------------------------------------------------------------
\* Memory and table agree, in a process whose loadCache does not fail.

\* At the start memory and table agree.
LEMMA CoherenceInit == Init => CoherenceInv
  BY ConstantsAssumption DEF Init, CoherenceInv, DurableIds, Injective, ReverseOf, VidsOf

\* GetOrCreate keeps memory and table in agreement.
LEMMA CoherenceGetOrCreate ==
  ASSUME TypeOK, CoherenceInv, ~LoadMayFail, NEW t \in Threads, GetOrCreate(t)
  PROVE  CoherenceInv'
  <1> USE ConstantsAssumption
      DEF CoherenceInv, DurableIds, Injective, VidsOf, TypeOK, TablesOK, MemoryOK, HistoryOK, LocalsOK,
          HoldersOK, LockedPCs, UsesKey, UsesVid, UsesSrv, Goto, Return, dbVars, memVars, localVars, histVars
  <1>1. CASE \E k \in Keys : CallGetOrCreate(t, k)
    BY <1>1 DEF CallGetOrCreate
  <1>2. CASE GocHit(t)
    BY <1>2 DEF GocHit, Issue
  <1>3. CASE GocMiss(t)
    BY <1>3 DEF GocMiss
  <1>4. CASE GocLock(t)
    BY <1>4 DEF GocLock
  <1>5. CASE GocInsert(t)
    BY <1>5 DEF GocInsert, Fresh
  <1>6. CASE GocInsertFails(t)
    BY <1>6 DEF GocInsertFails
  <1>7. CASE GocExisting(t)
    BY <1>7 DEF GocExisting, Issue
  <1>8. CASE GocDegraded(t)
    BY <1>8 DEF GocDegraded
  <1>9. CASE GocPublish(t)
    BY <1>9 DEF GocPublish, Issue
  <1> QED
    BY <1>1, <1>2, <1>3, <1>4, <1>5, <1>6, <1>7, <1>8, <1>9 DEF GetOrCreate

\* Resolve keeps memory and table in agreement.
LEMMA CoherenceResolve ==
  ASSUME TypeOK, CoherenceInv, ~LoadMayFail, NEW t \in Threads, Resolve(t)
  PROVE  CoherenceInv'
  <1> USE ConstantsAssumption
      DEF CoherenceInv, DurableIds, Injective, VidsOf, TypeOK, TablesOK, MemoryOK, HistoryOK, LocalsOK,
          HoldersOK, LockedPCs, UsesKey, UsesVid, UsesSrv, Goto, Return, dbVars, memVars, localVars, histVars
  <1>1. CASE \E v \in known : CallResolve(t, v)
    BY <1>1 DEF CallResolve
  <1>2. CASE ResHit(t)
    BY <1>2 DEF ResHit
  <1>3. CASE ResMiss(t)
    BY <1>3 DEF ResMiss
  <1>4. CASE ResRow(t)
    BY <1>4 DEF ResRow
  <1>5. CASE ResNotFound(t)
    BY <1>5 DEF ResNotFound
  <1>6. CASE ResFill(t)
    BY <1>6 DEF ResFill
  <1>7. CASE ResReturn(t)
    BY <1>7 DEF ResReturn
  <1> QED
    BY <1>1, <1>2, <1>3, <1>4, <1>5, <1>6, <1>7 DEF Resolve

\* AddInstance keeps memory and table in agreement.
LEMMA CoherenceAddInstance ==
  ASSUME TypeOK, CoherenceInv, ~LoadMayFail, NEW t \in Threads, AddInstance(t)
  PROVE  CoherenceInv'
  <1> USE ConstantsAssumption
      DEF CoherenceInv, DurableIds, Injective, VidsOf, TypeOK, TablesOK, MemoryOK, HistoryOK, LocalsOK,
          HoldersOK, LockedPCs, UsesKey, UsesVid, UsesSrv, Goto, Return, dbVars, memVars, localVars, histVars
  <1>1. CASE \E v \in known, k \in Keys : CallAddInstance(t, v, k)
    BY <1>1 DEF CallAddInstance
  <1>2. CASE AddInsert(t)
    BY <1>2 DEF AddInsert
  <1>3. CASE AddInsertFails(t)
    BY <1>3 DEF AddInsertFails
  <1>4. CASE AddLock(t)
    BY <1>4 DEF AddLock
  <1>5. CASE AddWrite(t)
    BY <1>5 DEF AddWrite
  <1> QED
    BY <1>1, <1>2, <1>3, <1>4, <1>5 DEF AddInstance

\* GetInstances keeps memory and table in agreement.
LEMMA CoherenceGetInstances ==
  ASSUME TypeOK, CoherenceInv, ~LoadMayFail, NEW t \in Threads, GetInstances(t)
  PROVE  CoherenceInv'
  <1> USE ConstantsAssumption
      DEF CoherenceInv, DurableIds, Injective, VidsOf, TypeOK, TablesOK, MemoryOK, HistoryOK, LocalsOK,
          HoldersOK, LockedPCs, UsesKey, UsesVid, UsesSrv, Goto, Return, dbVars, memVars, localVars, histVars
  <1>1. CASE \E v \in known : CallGetInstances(t, v)
    BY <1>1 DEF CallGetInstances
  <1>2. CASE GiCached(t)
    BY <1>2 DEF GiCached
  <1>3. CASE GiList(t)
    BY <1>3 DEF GiList
  <1>4. CASE GiUncached(t)
    BY <1>4 DEF GiUncached
  <1>5. CASE GiQuery(t)
    BY <1>5 DEF GiQuery
  <1>6. CASE GiQueryFails(t)
    BY <1>6 DEF GiQueryFails
  <1>7. CASE GiResolveHit(t)
    BY <1>7 DEF GiResolveHit
  <1>8. CASE GiResolveMiss(t)
    BY <1>8 DEF GiResolveMiss
  <1>9. CASE GiReturn(t)
    BY <1>9 DEF GiReturn
  <1> QED
    BY <1>1, <1>2, <1>3, <1>4, <1>5, <1>6, <1>7, <1>8, <1>9 DEF GetInstances

\* CleanupServer keeps memory and table in agreement.
LEMMA CoherenceCleanupServer ==
  ASSUME TypeOK, CoherenceInv, ~LoadMayFail, NEW t \in Threads, CleanupServer(t)
  PROVE  CoherenceInv'
  <1> USE ConstantsAssumption
      DEF CoherenceInv, DurableIds, Injective, VidsOf, TypeOK, TablesOK, MemoryOK, HistoryOK, LocalsOK,
          HoldersOK, LockedPCs, UsesKey, UsesVid, UsesSrv, Goto, Return, dbVars, memVars, localVars, histVars
  <1>1. CASE \E s \in Servers : CallCleanupServer(t, s)
    BY <1>1 DEF CallCleanupServer
  <1>2. CASE ClLock(t)
    BY <1>2 DEF ClLock
  <1>3. CASE ClInstances(t)
    BY <1>3 DEF ClInstances
  <1>4. CASE ClFails(t)
    BY <1>4 DEF ClFails
  <1>5. CASE ClMapping(t)
    BY <1>5 DEF ClMapping, Keys, Srv
  <1>6. CASE ClCache(t)
    <2> USE DEF ClCache, Doomed, Keys, Srv
    <2>1. Injective(mapping)' /\ DurableIds'
      BY <1>6
    <2>2. ASSUME NEW v \in Vids
          PROVE  /\ birth'[v] = None => mapping'[v] = None /\ cache'[v] = None /\ v \notin known'
                 /\ mapping'[v] # None =>
                      \/ cache'[v] = mapping'[v] /\ rmap'[mapping'[v]] = v
                      \/ \E x \in Threads : pc'[x] = "goc_publish" /\ vid'[x] = v
                 /\ cache'[v] # None => mapping'[v] = cache'[v]
      BY <1>6
    <2>3. \A k \in Keys : rmap'[k] # None => cache'[rmap'[k]] = k
      BY <1>6
    <2>4. ASSUME NEW x \in Threads
          PROVE  /\ pc'[x] \notin {"goc_insert", "goc_query", "goc_publish", "cl_cache"}
                 /\ pc'[x] \in {"res_read", "res_query"} => vid'[x] \in known'
                 /\ pc'[x] = "res_query" => cache'[vid'[x]] = None
                 /\ pc'[x] # "res_fill"
      BY <1>6
    <2> QED
      BY <2>1, <2>2, <2>3, <2>4
  <1> QED
    BY <1>1, <1>2, <1>3, <1>4, <1>5, <1>6 DEF CleanupServer

\* A restart keeps memory and table in agreement.
LEMMA CoherenceRestart == ASSUME TypeOK, CoherenceInv, Restart PROVE CoherenceInv'
  BY ConstantsAssumption
  DEF CoherenceInv, DurableIds, Injective, TypeOK, TablesOK, HistoryOK, Restart, EndOfProcess,
      ReverseOf, VidsOf, dbVars, histVars

\* A stuttering step keeps memory and table in agreement.
LEMMA CoherenceStutter == ASSUME CoherenceInv, UNCHANGED vars PROVE CoherenceInv'
  BY DEF vars, dbVars, memVars, localVars, histVars, CoherenceInv, DurableIds, Injective, VidsOf

\* Every step keeps memory and table in agreement, if loadCache does not fail.
LEMMA CoherenceStep == ~LoadMayFail => (TypeOK /\ CoherenceInv /\ [Next]_vars => CoherenceInv')
  BY CoherenceGetOrCreate, CoherenceResolve, CoherenceAddInstance, CoherenceGetInstances,
     CoherenceCleanupServer, CoherenceRestart, CoherenceStutter DEF Next, Call, RestartLoadFails

\* While loadCache does not fail, an id that a client holds is a row of the
\* table; a key has one id; and outside the write lock memory is the table.
THEOREM StableIdsAlways == ASSUME ~LoadMayFail PROVE Spec => [](StableIds /\ DurableIds /\ Coherent)
  <1>1. TypeOK /\ CoherenceInv /\ [Next]_vars => CoherenceInv'
    BY CoherenceStep
  <1>2. TypeOK /\ CoherenceInv => StableIds /\ DurableIds /\ Coherent
    <2> SUFFICES ASSUME TypeOK, CoherenceInv PROVE StableIds /\ DurableIds /\ Coherent
      OBVIOUS
    <2>1. DurableIds
      BY DEF CoherenceInv
    <2>2. StableIds
      BY ConstantsAssumption, <2>1 DEF StableIds, DurableIds, CoherenceInv, Injective, VidsOf
    <2>3. ASSUME mu = None PROVE cache = mapping
      BY <2>3, ConstantsAssumption
      DEF CoherenceInv, TypeOK, TablesOK, MemoryOK, HoldersOK, LockedPCs
    <2>4. ASSUME mu = None, NEW k \in Keys PROVE rmap[k] = ReverseOf(mapping)[k]
      BY <2>3, <2>4, ConstantsAssumption
      DEF CoherenceInv, TypeOK, TablesOK, MemoryOK, HoldersOK, LockedPCs, Injective, ReverseOf, VidsOf
    <2>5. ASSUME mu = None PROVE rmap = ReverseOf(mapping)
      BY <2>4, <2>5 DEF TypeOK, MemoryOK, ReverseOf
    <2> QED
      BY <2>1, <2>2, <2>3, <2>5 DEF Coherent
  <1> QED
    BY TypeCorrect, CoherenceInit, <1>1, <1>2, PTL DEF Spec

\* An id that a client holds has its row in the table: a crash after the reply
\* does not lose it.
THEOREM DurableIdsAlways == ASSUME ~LoadMayFail PROVE Spec => []DurableIds
  BY StableIdsAlways, PTL

\* When nobody is inside the write lock, the cache and the reverse map are what
\* loadCache would build from the table.
THEOREM CoherentAlways == ASSUME ~LoadMayFail PROVE Spec => []Coherent
  BY StableIdsAlways, PTL

-----------------------------------------------------------------------------
\* A list of instances is complete, in a process that has not been restarted.

\* Replacing an instance keeps a copy on every server that had one, and has one
\* on the server of the new instance.
LEMMA ReplaceKeeps ==
  ASSUME NEW S, NEW k, NEW s
  PROVE  OnServer(Replace(S, k), s) <=> OnServer(S, s) \/ s = Srv(k)
  BY DEF OnServer, Replace

\* Without the instances of a server, no other server loses its own.
LEMMA WithoutKeeps ==
  ASSUME NEW S, NEW r, NEW s, OnServer(Without(S, r), s)
  PROVE  OnServer(S, s)
  BY DEF OnServer, Without

\* A list that has no copy on any server is empty.
LEMMA OnNoServer ==
  ASSUME NEW S \in SUBSET Keys, \A s \in Servers : ~OnServer(S, s)
  PROVE  S = {}
  BY DEF OnServer, Keys, Srv

\* At the start no list is kept and none is wanted.
LEMMA ListsInit == Init => ListInv
  BY ConstantsAssumption DEF Init, ListInv, OnServer

\* GetOrCreate publishes an id nobody had, with no instance.
LEMMA ListsGetOrCreate ==
  ASSUME TypeOK, CoherenceInv, ListInv, ~LoadMayFail, NEW t \in Threads, GetOrCreate(t)
  PROVE  ListInv'
  <1> USE ConstantsAssumption
      DEF ListInv, TypeOK, TablesOK, MemoryOK, HistoryOK, LocalsOK, UsesKey, UsesVid, UsesSrv,
          Goto, Return, dbVars, memVars, localVars, histVars
  <1>1. CASE \E k \in Keys : CallGetOrCreate(t, k)
    BY <1>1 DEF CallGetOrCreate
  <1>2. CASE GocHit(t)
    BY <1>2 DEF GocHit, Issue
  <1>3. CASE GocMiss(t)
    BY <1>3 DEF GocMiss
  <1>4. CASE GocLock(t)
    BY <1>4 DEF GocLock
  <1>5. CASE GocInsert(t)
    BY <1>5 DEF GocInsert
  <1>6. CASE GocInsertFails(t)
    BY <1>6 DEF GocInsertFails
  <1>7. CASE GocExisting(t)
    BY <1>7 DEF GocExisting, Issue
  <1>8. CASE GocDegraded(t)
    BY <1>8 DEF GocDegraded
  <1>9. CASE GocPublish(t)
    <2>1. vid[t] \in Vids /\ vid[t] \notin known /\ pc[t] = "goc_publish"
      BY <1>9 DEF GocPublish, CoherenceInv
    <2>2. ASSUME crashes = 0
          PROVE  \A s \in Servers : ~OnServer(added[vid[t]], s)
      BY <2>1, <2>2 DEF OnServer
    <2>3. \A v \in Vids : v # vid[t] => cache'[v] = cache[v] /\ memInst'[v] = memInst[v]
      BY <1>9 DEF GocPublish
    <2>4. \A u \in Threads : u # t =>
            pc'[u] = pc[u] /\ vid'[u] = vid[u] /\ got'[u] = got[u] /\ want'[u] = want[u]
      BY <1>9 DEF GocPublish
    <2>5. pc'[t] = "idle" /\ known \subseteq known' /\ UNCHANGED <<added, crashes>>
      BY <1>9 DEF GocPublish, Issue
    <2>6. crashes = 0 =>
            \A v \in Vids : /\ added'[v] # {} => v \in known'
                           /\ cache'[v] # None =>
                                \A s \in Servers : OnServer(added'[v], s) => OnServer(memInst'[v], s)
      BY <2>1, <2>2, <2>3, <2>5
    <2>7. crashes = 0 =>
            \A u \in Threads : u # t =>
             /\ pc[u] \in {"add_insert", "add_lock", "add_write",
                          "gi_read", "gi_list", "gi_query", "gi_resolve"} =>
                  vid[u] \in Vids /\ vid[u] # vid[t]
      BY <2>1
    <2> QED
      BY <2>1, <2>3, <2>4, <2>5, <2>6, <2>7
  <1> QED
    BY <1>1, <1>2, <1>3, <1>4, <1>5, <1>6, <1>7, <1>8, <1>9 DEF GetOrCreate

\* Resolve, whose cache is never short of a row, changes nothing.
LEMMA ListsResolve ==
  ASSUME TypeOK, CoherenceInv, ListInv, ~LoadMayFail, NEW t \in Threads, Resolve(t)
  PROVE  ListInv'
  <1> USE ConstantsAssumption
      DEF ListInv, TypeOK, TablesOK, MemoryOK, HistoryOK, LocalsOK, UsesKey, UsesVid, UsesSrv,
          Goto, Return, dbVars, memVars, localVars, histVars
  <1>1. CASE \E v \in known : CallResolve(t, v)
    BY <1>1 DEF CallResolve
  <1>2. CASE ResHit(t)
    BY <1>2 DEF ResHit
  <1>3. CASE ResMiss(t)
    BY <1>3 DEF ResMiss
  <1>4. CASE ResRow(t)
    BY <1>4 DEF ResRow
  <1>5. CASE ResNotFound(t)
    BY <1>5 DEF ResNotFound
  <1>6. CASE ResFill(t)
    BY <1>6 DEF ResFill, CoherenceInv
  <1>7. CASE ResReturn(t)
    BY <1>7 DEF ResReturn
  <1> QED
    BY <1>1, <1>2, <1>3, <1>4, <1>5, <1>6, <1>7 DEF Resolve

\* AddInstance gives the cached list of a cached id its copy on the server.
LEMMA ListsAddInstance ==
  ASSUME TypeOK, CoherenceInv, ListInv, ~LoadMayFail, NEW t \in Threads, AddInstance(t)
  PROVE  ListInv'
  <1> USE ConstantsAssumption
      DEF ListInv, TypeOK, TablesOK, MemoryOK, HistoryOK, LocalsOK, UsesKey, UsesVid, UsesSrv,
          Goto, Return, dbVars, memVars, localVars, histVars
  <1>1. CASE \E v \in known, k \in Keys : CallAddInstance(t, v, k)
    BY <1>1 DEF CallAddInstance
  <1>2. CASE AddInsert(t)
    BY <1>2 DEF AddInsert
  <1>3. CASE AddInsertFails(t)
    BY <1>3 DEF AddInsertFails
  <1>4. CASE AddLock(t)
    BY <1>4 DEF AddLock
  <1>5. CASE AddWrite(t)
    <2>1. vid[t] \in Vids /\ pc[t] = "add_write"
      BY <1>5 DEF AddWrite
    <2>2. \A v \in Vids, s \in Servers :
            /\ OnServer(memInst[v], s) => OnServer(memInst'[v], s)
            /\ OnServer(added'[v], s) => OnServer(added[v], s) \/ (v = vid[t] /\ s = Srv(key[t]))
            /\ v = vid[t] /\ s = Srv(key[t]) /\ cache[v] # None => OnServer(memInst'[v], s)
      BY <1>5, <2>1, ReplaceKeeps DEF AddWrite
    <2>3. \A v \in Vids : added'[v] # {} => added[v] # {} \/ v = vid[t]
      BY <1>5, <2>1 DEF AddWrite
    <2> QED
      BY <1>5, <2>1, <2>2, <2>3 DEF AddWrite
  <1> QED
    BY <1>1, <1>2, <1>3, <1>4, <1>5 DEF AddInstance

\* GetInstances lists what was added, or waits for the connection it holds.
LEMMA ListsGetInstances ==
  ASSUME TypeOK, CoherenceInv, ListInv, ~LoadMayFail, NEW t \in Threads, GetInstances(t)
  PROVE  ListInv'
  <1> USE ConstantsAssumption
      DEF ListInv, TypeOK, TablesOK, MemoryOK, HistoryOK, LocalsOK, UsesKey, UsesVid, UsesSrv,
          Goto, Return, dbVars, memVars, localVars, histVars
  <1>1. CASE \E v \in known : CallGetInstances(t, v)
    BY <1>1 DEF CallGetInstances
  <1>2. CASE GiCached(t)
    BY <1>2 DEF GiCached
  <1>3. CASE GiList(t)
    <2>1. vid[t] \in Vids /\ pc[t] = "gi_list"
      BY <1>3 DEF GiList
    <2>2. PICK seen \in SeenLists(t) : got' = [got EXCEPT ![t] = seen \cup {key[t]}]
      BY <1>3 DEF GiList
    <2>3. ASSUME crashes = 0, NEW s \in Servers, OnServer(want[t], s)
          PROVE  OnServer(seen, s)
      <3>1. OnServer(got[t], s) /\ OnServer(memInst[vid[t]], s)
        BY <2>1, <2>3
      <3>2. \/ seen = got[t]
            \/ seen = memInst[vid[t]]
            \/ \E u \in Threads : seen = Replace(got[t], <<Torn, Srv(key[u])>>)
        BY <2>2 DEF SeenLists
      <3> QED
        BY ONLY <3>1, <3>2, ReplaceKeeps
    <2>4. crashes = 0 => \A s \in Servers : OnServer(want[t], s) => OnServer(got'[t], s)
      BY <2>2, <2>3 DEF OnServer
    <2> QED
      BY <1>3, <2>1, <2>2, <2>4 DEF GiList
  <1>4. CASE GiUncached(t)
    <2>1. vid[t] \in Vids /\ pc[t] = "gi_read"
      BY <1>4 DEF GiUncached
    <2>2. crashes = 0 => cache[vid[t]] = None \/ want[t] = {}
      <3> SUFFICES ASSUME crashes = 0, memInst[vid[t]] = {} PROVE want[t] = {}
        BY <1>4 DEF GiUncached
      <3>1. \A s \in Servers : ~OnServer(want[t], s)
        BY <2>1 DEF OnServer
      <3> QED
        BY <3>1, OnNoServer
    <2> QED
      BY <1>4, <2>1, <2>2 DEF GiUncached
  <1>5. CASE GiQuery(t)
    BY <1>5 DEF GiQuery
  <1>6. CASE GiQueryFails(t)
    BY <1>6 DEF GiQueryFails
  <1>7. CASE GiResolveHit(t)
    BY <1>7 DEF GiResolveHit, OnServer
  <1>8. CASE GiResolveMiss(t)
    BY <1>8 DEF GiResolveMiss
  <1>9. CASE GiReturn(t)
    BY <1>9 DEF GiReturn
  <1> QED
    BY <1>1, <1>2, <1>3, <1>4, <1>5, <1>6, <1>7, <1>8, <1>9 DEF GetInstances

\* CleanupServer empties the table, never the cached list of an id.
LEMMA ListsCleanupServer ==
  ASSUME TypeOK, CoherenceInv, ListInv, ~LoadMayFail, NEW t \in Threads, CleanupServer(t)
  PROVE  ListInv'
  <1> USE ConstantsAssumption
      DEF ListInv, TypeOK, TablesOK, MemoryOK, HistoryOK, LocalsOK, UsesKey, UsesVid, UsesSrv,
          Goto, Return, dbVars, memVars, localVars, histVars
  <1>1. CASE \E s \in Servers : CallCleanupServer(t, s)
    BY <1>1 DEF CallCleanupServer
  <1>2. CASE ClLock(t)
    BY <1>2 DEF ClLock
  <1>3. CASE ClInstances(t)
    <2>1. \A v \in Vids : /\ added'[v] # {} => added[v] # {}
                         /\ \A s \in Servers : OnServer(added'[v], s) => OnServer(added[v], s)
      <3>1. \A v \in Vids : added'[v] = Without(added[v], srv[t])
        BY <1>3 DEF ClInstances
      <3>2. \A v \in Vids : Without(added[v], srv[t]) # {} => added[v] # {}
        BY DEF Without
      <3> QED
        BY ONLY <3>1, <3>2, WithoutKeeps
    <2> QED
      BY <1>3, <2>1 DEF ClInstances
  <1>4. CASE ClFails(t)
    BY <1>4 DEF ClFails
  <1>5. CASE ClMapping(t)
    BY <1>5 DEF ClMapping
  <1>6. CASE ClCache(t)
    BY <1>6 DEF ClCache
  <1> QED
    BY <1>1, <1>2, <1>3, <1>4, <1>5, <1>6 DEF CleanupServer

\* Every step keeps the lists complete, if loadCache does not fail.
LEMMA ListsStep == ~LoadMayFail => (TypeOK /\ CoherenceInv /\ ListInv /\ [Next]_vars => ListInv')
  <1>1. ASSUME ListInv, UNCHANGED vars PROVE ListInv'
    BY <1>1 DEF vars, dbVars, memVars, localVars, histVars, ListInv
  <1>2. ASSUME TypeOK, Restart PROVE ListInv'
    BY <1>2 DEF Restart, EndOfProcess, ListInv, TypeOK, HistoryOK
  <1> QED
    BY <1>1, <1>2, ListsGetOrCreate, ListsResolve, ListsAddInstance, ListsGetInstances,
       ListsCleanupServer DEF Next, Call, RestartLoadFails

\* Until the process restarts, a call of GetInstances that returns a list has in
\* it a copy on every server whose AddInstance had returned when it began,
\* whatever runs beside it and whichever statement fails.
THEOREM ListsAreComplete == ASSUME ~LoadMayFail PROVE Spec => []InstancesCompleteUntilRestart
  <1>1. TypeOK /\ CoherenceInv /\ ListInv /\ [Next]_vars => ListInv'
    BY ListsStep
  <1>2. ListInv => InstancesCompleteUntilRestart
    BY DEF ListInv, InstancesCompleteUntilRestart, InstancesComplete
  <1>3. TypeOK /\ CoherenceInv /\ [Next]_vars => CoherenceInv'
    BY CoherenceStep
  <1> QED
    BY TypeCorrect, CoherenceInit, ListsInit, <1>1, <1>2, <1>3, PTL DEF Spec

-----------------------------------------------------------------------------
\* What a clean-up leaves.

\* At the start nothing has been cleaned up.
LEMMA CleanInit == Init => CleanInv
  BY DEF Init, CleanInv, NothingLeft

\* A call that begins about a key makes its server one that is used.
LEMMA CleanCall ==
  ASSUME TypeOK, CleanInv, NEW t \in Threads, NEW k \in Keys,
         CallGetOrCreate(t, k) \/ \E v \in known : CallAddInstance(t, v, k)
  PROVE  CleanInv'
  <1>1. /\ UNCHANGED <<mapping, instances, cache, srv>>
        /\ gone' = gone \ {Srv(k)} /\ pc[t] = "idle" /\ pc'[t] \in {"goc_read", "add_insert"}
        /\ key' = [key EXCEPT ![t] = k]
        /\ \A u \in Threads \ {t} : pc'[u] = pc[u] /\ key'[u] = key[u]
    BY DEF TypeOK, LocalsOK, CallGetOrCreate, CallAddInstance, Goto, dbVars, memVars
  <1>2. key'[t] = k
    BY <1>1 DEF TypeOK, LocalsOK
  <1>3. NothingLeft'
    BY <1>1, <1>2 DEF CleanInv, NothingLeft, IsOf
  <1> QED
    BY <1>1, <1>3 DEF CleanInv

\* GetOrCreate stores what it was called about.
LEMMA CleanGetOrCreate ==
  ASSUME TypeOK, CleanInv, NEW t \in Threads, GetOrCreate(t)
  PROVE  CleanInv'
  <1> USE ConstantsAssumption
      DEF CleanInv, NothingLeft, IsOf, TypeOK, TablesOK, MemoryOK, HistoryOK, LocalsOK, UsesKey, UsesVid,
          UsesSrv, Goto, Return, dbVars, memVars, localVars, histVars
  <1>1. CASE \E k \in Keys : CallGetOrCreate(t, k)
    BY <1>1, CleanCall
  <1>2. CASE GocHit(t)
    BY <1>2 DEF GocHit, Issue
  <1>3. CASE GocMiss(t)
    BY <1>3 DEF GocMiss
  <1>4. CASE GocLock(t)
    BY <1>4 DEF GocLock
  <1>5. CASE GocInsert(t)
    <2>1. \A u \in Threads : pc[u] # "cl_cache" /\ (pc'[u] = "cl_mapping" => pc[u] = "cl_mapping")
                             /\ pc'[u] # "cl_cache" /\ (pc[u] = "add_lock" => pc'[u] = "add_lock")
      BY <1>5 DEF GocInsert, HoldersOK, LockedPCs
    <2>2. \A v \in Vids : mapping'[v] = mapping[v] \/ mapping'[v] = key[t]
      BY <1>5 DEF GocInsert
    <2> QED
      BY <1>5, <2>1, <2>2 DEF GocInsert
  <1>6. CASE GocInsertFails(t)
    BY <1>6 DEF GocInsertFails
  <1>7. CASE GocExisting(t)
    BY <1>7 DEF GocExisting, Issue
  <1>8. CASE GocDegraded(t)
    BY <1>8 DEF GocDegraded
  <1>9. CASE GocPublish(t)
    BY <1>9 DEF GocPublish, Issue
  <1> QED
    BY <1>1, <1>2, <1>3, <1>4, <1>5, <1>6, <1>7, <1>8, <1>9 DEF GetOrCreate

\* Resolve carries what it read, and whoever cleans up meanwhile sees it.
LEMMA CleanResolve ==
  ASSUME TypeOK, CleanInv, NEW t \in Threads, Resolve(t)
  PROVE  CleanInv'
  <1> USE ConstantsAssumption
      DEF CleanInv, NothingLeft, IsOf, TypeOK, TablesOK, MemoryOK, HistoryOK, LocalsOK, UsesKey, UsesVid,
          UsesSrv, Goto, Return, dbVars, memVars, localVars, histVars
  <1>1. CASE \E v \in known : CallResolve(t, v)
    BY <1>1 DEF CallResolve
  <1>2. CASE ResHit(t)
    BY <1>2 DEF ResHit
  <1>3. CASE ResMiss(t)
    BY <1>3 DEF ResMiss
  <1>4. CASE ResRow(t)
    BY <1>4 DEF ResRow
  <1>5. CASE ResNotFound(t)
    BY <1>5 DEF ResNotFound
  <1>6. CASE ResFill(t)
    BY <1>6 DEF ResFill
  <1>7. CASE ResReturn(t)
    BY <1>7 DEF ResReturn
  <1> QED
    BY <1>1, <1>2, <1>3, <1>4, <1>5, <1>6, <1>7 DEF Resolve

\* AddInstance stores a row without the lock; if a clean-up holds it, the call
\* then waits, and is seen.
LEMMA CleanAddInstance ==
  ASSUME TypeOK, CleanInv, NEW t \in Threads, AddInstance(t)
  PROVE  CleanInv'
  <1> USE ConstantsAssumption
      DEF CleanInv, NothingLeft, IsOf, TypeOK, TablesOK, MemoryOK, HistoryOK, LocalsOK, UsesKey, UsesVid,
          UsesSrv, Goto, Return, dbVars, memVars, localVars, histVars
  <1>1. CASE \E v \in known, k \in Keys : CallAddInstance(t, v, k)
    BY <1>1, CleanCall
  <1>2. CASE AddInsert(t)
    <2>1. vid[t] \in Vids /\ key[t] \in Keys /\ pc[t] = "add_insert" /\ pc'[t] = "add_lock"
      BY <1>2 DEF AddInsert
    <2>2. \A v \in Vids, s \in Servers :
            OnServer(instances'[v], s) => OnServer(instances[v], s) \/ s = Srv(key[t])
      BY <1>2, <2>1, ReplaceKeeps DEF AddInsert
    <2>3. \A u \in Threads : u # t => pc'[u] = pc[u]
      BY <1>2 DEF AddInsert
    <2>4. UNCHANGED <<mapping, cache, gone, key, srv>>
      BY <1>2 DEF AddInsert
    <2>5. NothingLeft'
      BY <2>1, <2>2, <2>4
    <2> QED
      BY <2>1, <2>2, <2>3, <2>4, <2>5
  <1>3. CASE AddInsertFails(t)
    BY <1>3 DEF AddInsertFails
  <1>4. CASE AddLock(t)
    <2>1. \A u \in Threads : pc[u] \notin {"cl_mapping", "cl_cache"}
      BY <1>4 DEF AddLock, HoldersOK, LockedPCs
    <2> QED
      BY <1>4, <2>1 DEF AddLock
  <1>5. CASE AddWrite(t)
    BY <1>5 DEF AddWrite
  <1> QED
    BY <1>1, <1>2, <1>3, <1>4, <1>5 DEF AddInstance

\* GetInstances stores nothing.
LEMMA CleanGetInstances ==
  ASSUME TypeOK, CleanInv, NEW t \in Threads, GetInstances(t)
  PROVE  CleanInv'
  <1> USE ConstantsAssumption
      DEF CleanInv, NothingLeft, IsOf, TypeOK, TablesOK, MemoryOK, HistoryOK, LocalsOK, UsesKey, UsesVid,
          UsesSrv, Goto, Return, dbVars, memVars, localVars, histVars
  <1>1. CASE \E v \in known : CallGetInstances(t, v)
    BY <1>1 DEF CallGetInstances
  <1>2. CASE GiCached(t)
    BY <1>2 DEF GiCached
  <1>3. CASE GiList(t)
    <2>1. /\ UNCHANGED <<mapping, instances, cache, key, srv, gone>>
          /\ pc[t] = "gi_list" /\ pc' = [pc EXCEPT ![t] = "gi_done"]
      BY <1>3 DEF GiList
    <2> QED
      BY <2>1
  <1>4. CASE GiUncached(t)
    BY <1>4 DEF GiUncached
  <1>5. CASE GiQuery(t)
    BY <1>5 DEF GiQuery
  <1>6. CASE GiQueryFails(t)
    BY <1>6 DEF GiQueryFails
  <1>7. CASE GiResolveHit(t)
    BY <1>7 DEF GiResolveHit
  <1>8. CASE GiResolveMiss(t)
    BY <1>8 DEF GiResolveMiss
  <1>9. CASE GiReturn(t)
    BY <1>9 DEF GiReturn
  <1> QED
    BY <1>1, <1>2, <1>3, <1>4, <1>5, <1>6, <1>7, <1>8, <1>9 DEF GetInstances

\* CleanupServer deletes the instances, the mappings and what is cached of
\* them, in this order.
LEMMA CleanCleanupServer ==
  ASSUME TypeOK, CleanInv, NEW t \in Threads, CleanupServer(t)
  PROVE  CleanInv'
  <1> USE ConstantsAssumption
      DEF CleanInv, NothingLeft, IsOf, TypeOK, TablesOK, MemoryOK, HistoryOK, LocalsOK, UsesKey, UsesVid,
          UsesSrv, Goto, Return, dbVars, memVars, localVars, histVars
  <1>1. CASE \E s \in Servers : CallCleanupServer(t, s)
    BY <1>1 DEF CallCleanupServer
  <1>2. CASE ClLock(t)
    BY <1>2 DEF ClLock
  <1>3. CASE ClInstances(t)
    <2>1. /\ \A v \in Vids, s \in Servers : OnServer(instances'[v], s) => OnServer(instances[v], s)
          /\ \A v \in Vids : ~OnServer(instances'[v], srv[t])
      BY <1>3, WithoutKeeps DEF ClInstances, OnServer, Without
    <2>2. \A u \in Threads : u # t => pc'[u] = pc[u] /\ pc[u] \notin {"cl_mapping", "cl_cache"}
      BY <1>3 DEF ClInstances, HoldersOK, LockedPCs
    <2>3. pc'[t] = "cl_mapping" /\ UNCHANGED <<mapping, cache, gone, key, srv>>
      BY <1>3 DEF ClInstances
    <2> QED
      BY <2>1, <2>2, <2>3
  <1>4. CASE ClFails(t)
    BY <1>4 DEF ClFails
  <1>5. CASE ClMapping(t)
    <2>1. \A v \in Vids : /\ mapping'[v] = mapping[v] \/ mapping'[v] = None
                          /\ ~IsOf(mapping'[v], srv[t])
      BY <1>5 DEF ClMapping, Keys, Srv
    <2>2. \A u \in Threads : u # t => pc'[u] = pc[u] /\ pc[u] \notin {"cl_mapping", "cl_cache"}
      BY <1>5 DEF ClMapping, HoldersOK, LockedPCs
    <2>3. /\ pc[t] = "cl_mapping" /\ pc'[t] = "cl_cache"
          /\ UNCHANGED <<instances, cache, gone, key, srv>>
      BY <1>5 DEF ClMapping
    <2>4. NothingLeft'
      <3>1. \A v \in Vids, s \in Servers : IsOf(mapping'[v], s) => IsOf(mapping[v], s)
        BY <2>1
      <3> QED
        BY <2>3, <3>1
    <2>5. ASSUME NEW v \in Vids, OnServer(instances'[v], srv[t])
          PROVE  \E u \in Threads : pc'[u] = "add_lock" /\ Srv(key'[u]) = srv[t]
      <3>1. PICK u \in Threads : pc[u] = "add_lock" /\ Srv(key[u]) = srv[t]
        BY <2>3, <2>5
      <3> QED
        BY <2>2, <2>3, <3>1
    <2>6. \A u \in Threads : pc'[u] \in {"cl_mapping", "cl_cache"} => u = t
      BY <2>2
    <2> QED
      BY <2>1, <2>3, <2>4, <2>5, <2>6
  <1>6. CASE ClCache(t)
    <2>1. /\ pc[t] = "cl_cache" /\ srv[t] \in Servers
          /\ UNCHANGED <<mapping, instances>>
          /\ key' = [key EXCEPT ![t] = None]
          /\ \A u \in Threads : u # t => /\ pc'[u] = pc[u] /\ pc[u] \notin {"cl_mapping", "cl_cache"}
                                         /\ srv'[u] = srv[u]
          /\ pc'[t] = "idle"
      BY <1>6 DEF ClCache, HoldersOK, LockedPCs
    <2>2. \A v \in Vids : /\ cache'[v] = cache[v] \/ cache'[v] = None
                          /\ ~IsOf(cache'[v], srv[t])
      BY <1>6 DEF ClCache, Doomed, Keys, Srv
    <2>3. ASSUME srv[t] \in gone' \ gone
          PROVE  /\ \A u \in Threads : ~IsOf(key'[u], srv[t])
                 /\ \A v \in Vids : ~IsOf(mapping[v], srv[t]) /\ ~OnServer(instances[v], srv[t])
      <3>1. \A u \in Threads : u # t => key[u] = None \/ Srv(key[u]) # srv[t]
        BY <1>6, <2>3 DEF ClCache, NobodyUses
      <3>2. \A u \in Threads : pc[u] = "add_lock" => u # t /\ key[u] \in Keys
        BY <2>1
      <3>3. \A v \in Vids : ~OnServer(instances[v], srv[t])
        BY <2>1, <3>1, <3>2
      <3> QED
        BY <2>1, <3>1, <3>3
    <2>4. gone' \subseteq gone \cup {srv[t]}
      BY <1>6 DEF ClCache
    <2>5. ASSUME NEW s \in gone'
          PROVE  /\ \A v \in Vids : ~IsOf(mapping'[v], s) /\ ~IsOf(cache'[v], s) /\ ~OnServer(instances'[v], s)
                 /\ \A u \in Threads : ~IsOf(key'[u], s)
      <3>1. CASE s \in gone
        BY <2>1, <2>2, <3>1
      <3>2. CASE s \notin gone
        BY <2>1, <2>2, <2>3, <2>4, <2>5, <3>2
      <3> QED
        BY <3>1, <3>2
    <2>6. NothingLeft'
      BY <2>5
    <2> QED
      BY <2>1, <2>6
  <1> QED
    BY <1>1, <1>2, <1>3, <1>4, <1>5, <1>6 DEF CleanupServer

\* A restart caches what the table has, or nothing, and there are no calls.
LEMMA CleanRestart == ASSUME CleanInv, Restart \/ RestartLoadFails PROVE CleanInv'
  <1>1. /\ UNCHANGED <<mapping, instances, gone>>
        /\ \A v \in Vids : cache'[v] = mapping[v] \/ cache'[v] = None
        /\ \A t \in Threads : pc'[t] = "idle" /\ key'[t] = None
    BY DEF Restart, RestartLoadFails, EndOfProcess, dbVars, histVars
  <1> QED
    BY <1>1, ConstantsAssumption DEF CleanInv, NothingLeft, IsOf

LEMMA CleanStep == TypeOK /\ CleanInv /\ [Next]_vars => CleanInv'
  <1>1. ASSUME CleanInv, UNCHANGED vars PROVE CleanInv'
    BY <1>1 DEF vars, dbVars, memVars, localVars, histVars, CleanInv, NothingLeft
  <1> QED
    BY <1>1, CleanGetOrCreate, CleanResolve, CleanAddInstance, CleanGetInstances,
       CleanCleanupServer, CleanRestart DEF Next, Call

\* Nothing in the tables, in the maps of the cache or in a call names a server
\* whose clean-up has returned, until a new call names it: statements that
\* fail, rows that AddInstance stores beside the clean-up, and restarts whose
\* load fails do not bring it back (store.go:49-132, 134-150, 215-245, 267-283).
THEOREM NothingIsLeft == Spec => []NothingLeft
  <1>1. CleanInv => NothingLeft
    BY DEF CleanInv
  <1> QED
    BY TypeCorrect, CleanInit, CleanStep, <1>1, PTL DEF Spec

\* The next import of an item whose server was cleaned up gets a new id: the
\* reverse map has none for it, if loadCache never fails.  (After a failed load
\* GetOrCreate, when its INSERT fails, may put an id into the reverse map alone,
\* where CleanupServer does not look for it: store.go:73-84, 231-242.)
THEOREM NextImportIsNew ==
  ASSUME ~LoadMayFail
  PROVE  Spec => [](\A k \in Keys : Srv(k) \in gone => rmap[k] = None)
  <1>1. TypeOK /\ CoherenceInv /\ NothingLeft => \A k \in Keys : Srv(k) \in gone => rmap[k] = None
    <2> SUFFICES ASSUME TypeOK, CoherenceInv, NothingLeft, NEW k \in Keys, Srv(k) \in gone, rmap[k] # None
                 PROVE  FALSE
      OBVIOUS
    <2>1. rmap[k] \in Vids /\ cache[rmap[k]] = k
      BY DEF TypeOK, MemoryOK, CoherenceInv
    <2> QED
      BY <2>1 DEF NothingLeft, IsOf
  <1>2. TypeOK /\ CoherenceInv /\ [Next]_vars => CoherenceInv'
    BY CoherenceStep
  <1> QED
    BY TypeCorrect, NothingIsLeft, CoherenceInit, <1>1, <1>2, PTL DEF Spec

-----------------------------------------------------------------------------
\* The store implements IdDirectory.

\* Of an injective table, the reverse map is what one expects.
LEMMA ReverseEntry ==
  ASSUME NEW m \in [Vids -> Keys \cup {None}], Injective(m), NEW k \in Keys
  PROVE  /\ \A v \in Vids : ReverseOf(m)[k] = v <=> m[v] = k
         /\ ReverseOf(m)[k] = None <=> VidsOf(m, k) = {}
         /\ ReverseOf(m)[k] \in Vids \cup {None}
  BY ConstantsAssumption DEF ReverseOf, VidsOf, Injective

\* The table is changed by an INSERT and by a DELETE only, the set of drawn ids
\* by an INSERT only.
LEMMA TableChanges ==
  ASSUME [Next]_vars
  PROVE  \/ \E t \in Threads : GocInsert(t) \/ ClMapping(t)
         \/ UNCHANGED <<mapping, birth>>
  <1> USE DEF dbVars, histVars
  <1>1. ASSUME NEW t \in Threads, GetOrCreate(t) PROVE GocInsert(t) \/ UNCHANGED <<mapping, birth>>
    BY <1>1 DEF GetOrCreate, CallGetOrCreate, GocHit, GocMiss, GocLock, GocInsertFails, GocExisting,
       GocDegraded, GocPublish
  <1>2. ASSUME NEW t \in Threads, Resolve(t) PROVE UNCHANGED <<mapping, birth>>
    BY <1>2 DEF Resolve, CallResolve, ResHit, ResMiss, ResRow, ResNotFound, ResFill, ResReturn
  <1>3. ASSUME NEW t \in Threads, AddInstance(t) PROVE UNCHANGED <<mapping, birth>>
    BY <1>3 DEF AddInstance, CallAddInstance, AddInsert, AddInsertFails, AddLock, AddWrite
  <1>4. ASSUME NEW t \in Threads, GetInstances(t) PROVE UNCHANGED <<mapping, birth>>
    BY <1>4 DEF GetInstances, CallGetInstances, GiCached, GiList, GiUncached, GiQuery, GiQueryFails,
       GiResolveHit, GiResolveMiss, GiReturn
  <1>5. ASSUME NEW t \in Threads, CleanupServer(t) PROVE ClMapping(t) \/ UNCHANGED <<mapping, birth>>
    BY <1>5 DEF CleanupServer, CallCleanupServer, ClLock, ClInstances, ClFails, ClCache
  <1>6. ASSUME Restart \/ RestartLoadFails PROVE UNCHANGED <<mapping, birth>>
    BY <1>6 DEF Restart, RestartLoadFails, EndOfProcess
  <1>7. ASSUME UNCHANGED vars PROVE UNCHANGED <<mapping, birth>>
    BY <1>7 DEF vars
  <1> QED
    BY <1>1, <1>2, <1>3, <1>4, <1>5, <1>6, <1>7 DEF Next, Call

\* The table never has two ids for one key: id_mapping is UNIQUE there (db.go:88-95).
LEMMA TableInjective ==
  ASSUME TypeOK, Injective(mapping), [Next]_vars
  PROVE  Injective(mapping)'
  <1> USE ConstantsAssumption DEF Injective, TypeOK, TablesOK, HistoryOK, LocalsOK, UsesKey
  <1>1. ASSUME NEW t \in Threads, GocInsert(t) PROVE Injective(mapping)'
    BY <1>1 DEF GocInsert, VidsOf
  <1>2. ASSUME NEW t \in Threads, ClMapping(t) PROVE Injective(mapping)'
    BY <1>2 DEF ClMapping
  <1> QED
    BY <1>1, <1>2, TableChanges

\* The table at the start is a directory at its start.
LEMMA DirectoryInit == Init => Directory!Init
  <1> SUFFICES ASSUME Init PROVE Directory!Init
    OBVIOUS
  <1> DEFINE R == ReverseOf(mapping)
             D == {v \in Vids : birth[v] # None}
  <1>1. /\ mapping \in [Vids -> Keys \cup {None}]
        /\ Injective(mapping)
        /\ birth = mapping
    BY DEF Init
  <1>2. R \in [Keys -> Vids \cup {None}]
    BY <1>1, ReverseEntry DEF ReverseOf
  <1>3. \A j, k \in Keys : R[j] = R[k] /\ R[j] # None => j = k
    BY <1>1, <1>2, ReverseEntry
  <1>4. D = {R[k] : k \in Keys} \ {None}
    BY <1>1, <1>2, ReverseEntry, ConstantsAssumption
  <1> QED
    BY <1>2, <1>3, <1>4 DEF Directory!Init

\* What a step does to the table is a step of the directory, or nothing.
LEMMA DirectoryStep ==
  ASSUME TypeOK, BirthInv, Injective(mapping), [Next]_vars
  PROVE  [Directory!Next]_Directory!vars
  <1> DEFINE R == ReverseOf(mapping)
             D == {v \in Vids : birth[v] # None}
  <1>1. mapping \in [Vids -> Keys \cup {None}] /\ mapping' \in [Vids -> Keys \cup {None}]
    <2>1. TypeOK'
      BY TypeStep
    <2> QED
      BY <2>1 DEF TypeOK, TablesOK
  <1>2. Injective(mapping')
    BY TableInjective DEF Injective
  <1>3. CASE UNCHANGED <<mapping, birth>>
    BY <1>3 DEF Directory!vars, ReverseOf, VidsOf
  <1>6. R' \in [Keys -> Vids \cup {None}]
    <2>1. R' = ReverseOf(mapping')
      BY DEF ReverseOf, VidsOf
    <2>2. \A k \in Keys : ReverseOf(mapping')[k] \in Vids \cup {None}
      BY <1>1, <1>2, ReverseEntry
    <2> QED
      BY <2>1, <2>2 DEF ReverseOf
  <1>4. ASSUME NEW t \in Threads, GocInsert(t)
        PROVE  Directory!Next
    <2>1. PICK v \in Fresh :
            /\ birth' = [birth EXCEPT ![v] = key[t]]
            /\ mapping' = IF VidsOf(mapping, key[t]) = {}
                          THEN [mapping EXCEPT ![v] = key[t]] ELSE mapping
      BY <1>4 DEF GocInsert
    <2>2. key[t] \in Keys /\ v \in Vids /\ birth[v] = None /\ mapping[v] = None
      BY <1>4, <2>1 DEF GocInsert, Fresh, TypeOK, LocalsOK, UsesKey, BirthInv
    <2>3. v \notin D /\ D' = D \cup {v}
      BY <2>1, <2>2, ConstantsAssumption DEF TypeOK, HistoryOK
    <2>4. CASE VidsOf(mapping, key[t]) = {}
      <3>1. R[key[t]] = None
        BY <1>1, <2>2, <2>4, ReverseEntry
      <3>2. \A k \in Keys : R'[k] = IF k = key[t] THEN v ELSE R[k]
        <4> SUFFICES ASSUME NEW k \in Keys PROVE R'[k] = IF k = key[t] THEN v ELSE R[k]
          OBVIOUS
        <4>1. mapping' = [mapping EXCEPT ![v] = key[t]]
          BY <2>1, <2>4
        <4>2. \A w \in Vids : mapping'[w] = k <=> IF k = key[t] THEN w = v ELSE mapping[w] = k
          BY <1>1, <2>2, <2>4, <4>1, ConstantsAssumption DEF VidsOf
        <4>3. /\ \A w \in Vids : R[k] = w <=> mapping[w] = k
              /\ R[k] = None <=> VidsOf(mapping, k) = {}
              /\ R[k] \in Vids \cup {None}
          BY <1>1, ReverseEntry
        <4>4. /\ \A w \in Vids : ReverseOf(mapping')[k] = w <=> mapping'[w] = k
              /\ ReverseOf(mapping')[k] \in Vids \cup {None}
          BY <1>1, <1>2, ReverseEntry
        <4>5. R' = ReverseOf(mapping')
          BY DEF ReverseOf, VidsOf
        <4> QED
          BY <2>2, <4>2, <4>3, <4>4, <4>5, ConstantsAssumption
      <3>3. \A k \in Directory!Changed : k = key[t] /\ R'[k] = v
        BY <3>2 DEF Directory!Changed
      <3>4. Directory!Bind
        BY <1>6, <2>3, <3>1, <3>3 DEF Directory!Bind
      <3> QED
        BY <2>3, <3>4 DEF Directory!Next
    <2>5. CASE VidsOf(mapping, key[t]) # {}
      <3>1. R' = R
        <4>1. mapping' = mapping
          BY <2>1, <2>5
        <4> QED
          BY <4>1 DEF ReverseOf, VidsOf
      <3>2. Directory!Bind
        BY <1>6, <3>1 DEF Directory!Bind, Directory!Changed
      <3> QED
        BY <2>3, <3>2 DEF Directory!Next
    <2> QED
      BY <2>4, <2>5
  <1>5. ASSUME NEW t \in Threads, ClMapping(t)
        PROVE  Directory!Next
    <2>1. srv[t] \in Servers
      BY <1>5 DEF ClMapping, TypeOK, LocalsOK, UsesSrv
    <2>2. D' = D
      BY <1>5 DEF ClMapping
    <2>3. \A k \in Keys : R'[k] = IF Srv(k) = srv[t] THEN None ELSE R[k]
      <3> SUFFICES ASSUME NEW k \in Keys PROVE R'[k] = IF Srv(k) = srv[t] THEN None ELSE R[k]
        OBVIOUS
      <3>1. \A w \in Vids : mapping'[w] = k <=> Srv(k) # srv[t] /\ mapping[w] = k
        BY <1>1, <1>5, ConstantsAssumption DEF ClMapping, Keys, Srv
      <3>2. /\ \A w \in Vids : R[k] = w <=> mapping[w] = k
            /\ R[k] \in Vids \cup {None}
        BY <1>1, ReverseEntry
      <3>3. /\ \A w \in Vids : ReverseOf(mapping')[k] = w <=> mapping'[w] = k
            /\ ReverseOf(mapping')[k] \in Vids \cup {None}
        BY <1>1, <1>2, ReverseEntry
      <3>4. R' = ReverseOf(mapping')
        BY DEF ReverseOf, VidsOf
      <3> QED
        BY <3>1, <3>2, <3>3, <3>4
    <2>4. R' = [k \in Keys |-> IF Srv(k) = srv[t] THEN None ELSE R[k]]
      BY <2>3 DEF ReverseOf
    <2>5. Directory!Forget(srv[t])
      BY <2>4 DEF Directory!Forget
    <2> QED
      BY <2>1, <2>2, <2>5 DEF Directory!Next
  <1> QED
    BY TableChanges, <1>3, <1>4, <1>5

\* The store, crashing and failing in every way the model knows, is a directory
\* of ids: a key is given a new id, keeps it, and loses it to a cleanup only.
THEOREM StoreImplementsDirectory == Spec => ImplementsDirectory
  <1>1. Init => Injective(mapping)
    BY DEF Init
  <1>2. TypeOK /\ Injective(mapping) /\ [Next]_vars => Injective(mapping)'
    BY TableInjective
  <1>3. TypeOK /\ BirthInv /\ Injective(mapping) /\ [Next]_vars => [Directory!Next]_Directory!vars
    BY DirectoryStep
  <1> QED
    BY TypeCorrect, BirthAlways, DirectoryInit, <1>1, <1>2, <1>3, PTL
    DEF Spec, ImplementsDirectory, Directory!Spec

\* Calls in progress never all wait for each other, unless GetInstances has
\* called Resolve with its rows open: who holds the lock and may not run waits
\* for the connection, and who holds the connection is such a GetInstances
\* (store.go:59-72, 112-121, 136-145, 184-197, 217-225).
THEOREM NoOtherDeadlock == Spec => []OnlyThisDeadlock
  <1>1. TypeOK => OnlyThisDeadlock
    <2> SUFFICES ASSUME TypeOK, NEW t \in Threads, pc[t] # "idle", \A u \in Threads : ~MayRun(u)
                 PROVE  RowsKeptOpen
      BY DEF OnlyThisDeadlock
    <2>1. ASSUME mu # None PROVE RowsKeptOpen
      <3>1. PICK u \in Threads : mu = u /\ pc[u] \in LockedPCs
        BY <2>1 DEF TypeOK, HoldersOK
      <3>2. pc[u] \in WaitForConn /\ conn # None
        BY <3>1 DEF MayRun, LockedPCs, WaitForLock, WaitForConn
      <3>3. PICK w \in Threads : pc[w] \in RowsOpenPCs
        BY <3>2 DEF TypeOK, HoldersOK
      <3> QED
        BY <3>1, <3>2, <3>3 DEF RowsKeptOpen, RowsOpenPCs
    <2>2. ASSUME conn # None, mu = None PROVE RowsKeptOpen
      <3>1. PICK w \in Threads : pc[w] \in RowsOpenPCs
        BY <2>2 DEF TypeOK, HoldersOK
      <3>2. pc[w] = "gi_requery"
        BY <2>2, <3>1 DEF MayRun, RowsOpenPCs, WaitForLock, WaitForConn
      <3> QED
        BY <3>2 DEF RowsKeptOpen
    <2>3. mu # None \/ conn # None
      BY DEF MayRun
    <2> QED
      BY <2>1, <2>2, <2>3
  <1> QED
    BY TypeCorrect, <1>1, PTL
=============================================================================

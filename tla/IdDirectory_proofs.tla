------------------------ MODULE IdDirectory_proofs ------------------------
(***************************************************************************)
(* What follows from the promise of IdDirectory alone, and so for every    *)
(* module that implements it: IdMapStore, Aggregate and Gateway.           *)
(***************************************************************************)
EXTENDS IdDirectory, TLAPS

\* An id is the id of one key.
OneKeyPerId == \A j, k \in Keys : bound[j] = bound[k] /\ bound[j] # None => j = k

\* The ids in use are drawn, so that no key can get them any more.
UsedAreDrawn == \A k \in Keys : bound[k] = None \/ bound[k] \in drawn

DirectoryInv ==
    /\ bound \in [Keys -> Vids \cup {None}]
    /\ OneKeyPerId
    /\ UsedAreDrawn

\* The id v is used up, and no key but k can have it.
OnlyNames(v, k) == v \in drawn /\ \A j \in Keys : bound[j] = v => j = k

\* A directory begins with the ids of an earlier process.
LEMMA DirectoryInvInit == Init => DirectoryInv
BY DEF Init, DirectoryInv, OneKeyPerId, UsedAreDrawn

\* Binding and forgetting keep the ids of the keys apart and used up.
LEMMA DirectoryInvNext == DirectoryInv /\ [Next]_vars => DirectoryInv'
  <1> SUFFICES ASSUME DirectoryInv, [Next]_vars
               PROVE  DirectoryInv'
    OBVIOUS
  <1> USE DEF DirectoryInv, OneKeyPerId, UsedAreDrawn
  <1>1. CASE UNCHANGED bound /\ drawn \subseteq drawn'
    BY <1>1
  <1>2. CASE Bind /\ drawn \subseteq drawn'
    <2>1. bound' \in [Keys -> Vids \cup {None}]
      BY <1>2 DEF Bind
    <2>2. ASSUME NEW k \in Keys
          PROVE  \/ bound'[k] = bound[k]
                 \/ k \in Changed /\ bound'[k] \in drawn' \ drawn
      BY <1>2 DEF Bind, Changed
    <2>3. OneKeyPerId'
      BY <1>2, <2>2 DEF Bind
    <2>4. UsedAreDrawn'
      BY <1>2, <2>2
    <2>5. QED
      BY <2>1, <2>3, <2>4
  <1>3. ASSUME NEW s \in Servers, Forget(s), drawn \subseteq drawn'
        PROVE  DirectoryInv'
    BY <1>3 DEF Forget
  <1>4. QED
    BY <1>1, <1>2, <1>3 DEF Next, vars

\* What may become of the id of a key in one step: nothing, or it is
\* forgotten, or the key had none and gets one that no key ever had.
IdsChange ==
    \A k \in Keys : \/ bound'[k] = bound[k]
                    \/ bound'[k] = None
                    \/ bound[k] = None /\ bound'[k] \in drawn' \ drawn

LEMMA StepChangesIds == DirectoryInv /\ [Next]_vars => IdsChange /\ drawn \subseteq drawn'
  <1> SUFFICES ASSUME DirectoryInv, [Next]_vars
               PROVE  IdsChange /\ drawn \subseteq drawn'
    OBVIOUS
  <1>1. CASE Bind /\ drawn \subseteq drawn'
    BY <1>1 DEF Bind, Changed, IdsChange
  <1>2. ASSUME NEW s \in Servers, Forget(s), drawn \subseteq drawn'
        PROVE  IdsChange
    BY <1>2 DEF Forget, IdsChange
  <1>3. QED
    BY <1>1, <1>2 DEF Next, vars, IdsChange

\* A used-up id stays the id of the key it was drawn for or of nobody.
LEMMA StepKeepsMeaning ==
  ASSUME NEW v \in Vids \ {None}, NEW k \in Keys
  PROVE  DirectoryInv /\ OnlyNames(v, k) /\ [Next]_vars => OnlyNames(v, k)'
BY StepChangesIds DEF OnlyNames, IdsChange

\* No two keys ever have one id: two items are never shown to a client under
\* one virtual id, in whatever order ids are drawn, lost and forgotten
\* (db/db.go:88-95, idmap/store.go:49-97).
THEOREM IdsKeepApart == Spec => []OneKeyPerId
  <1>1. DirectoryInv => OneKeyPerId
    BY DEF DirectoryInv
  <1>2. QED
    BY <1>1, DirectoryInvInit, DirectoryInvNext, PTL DEF Spec

\* A key that has an id keeps it until its server is cleaned up, and a new id
\* is one that no key ever had (idmap/store.go:49-97, 215-245).
THEOREM IdsStayUntilForgotten == Spec => [][IdsChange]_vars
  <1>1. DirectoryInv /\ [Next]_vars => [IdsChange]_vars
    BY StepChangesIds
  <1>2. QED
    BY <1>1, DirectoryInvInit, DirectoryInvNext, PTL DEF Spec

\* An id that was once the id of a key never is the id of another one, not
\* after a clean-up, a restart or a second import of the same title either: an
\* id that a client kept opens what it always opened, or nothing.
THEOREM AnIdMeansOneThing ==
  ASSUME NEW v \in Vids \ {None}, NEW k \in Keys
  PROVE  Spec => []((bound[k] = v) => [](\A j \in Keys : bound[j] = v => j = k))
  <1>1. DirectoryInv /\ bound[k] = v => OnlyNames(v, k)
    BY DEF DirectoryInv, OneKeyPerId, UsedAreDrawn, OnlyNames
  <1>2. OnlyNames(v, k) => \A j \in Keys : bound[j] = v => j = k
    BY DEF OnlyNames
  <1>3. DirectoryInv /\ OnlyNames(v, k) /\ [Next]_vars => OnlyNames(v, k)'
    BY StepKeepsMeaning
  <1>4. QED
    BY <1>1, <1>2, <1>3, DirectoryInvInit, DirectoryInvNext, PTL DEF Spec
=============================================================================

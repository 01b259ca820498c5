----------------------------- MODULE IdDirectory -----------------------------
(***************************************************************************)
(* What the id store promises the rest of the proxy: a key gets an id      *)
(* nobody had before, keeps it through every concurrent call, failure and  *)
(* restart, and loses it only when its server is cleaned up.               *)
(* internal/idmap/store.go:13, db.go:88-95.                                *)
(***************************************************************************)
CONSTANTS Keys, Servers, Vids, None, Srv(_)

VARIABLES
    bound,  \* the id of each key, or None
    drawn   \* the ids that no key can get any more: drawn before, or set aside

Init ==
    /\ bound \in [Keys -> Vids \cup {None}]
    /\ {bound[k] : k \in Keys} \ {None} \subseteq drawn
    /\ \A j, k \in Keys : bound[j] = bound[k] /\ bound[j] # None => j = k

\* The keys whose id changes.
Changed == {k \in Keys : bound'[k] # bound[k]}

\* New keys get new ids, as many in one step as the caller has new keys: one
\* in GetOrCreate, all of one answer where a whole answer is one step.
Bind ==
    /\ bound' \in [Keys -> Vids \cup {None}]
    /\ \A k \in Changed : bound[k] = None /\ bound'[k] \in drawn' \ drawn
    /\ \A j, k \in Changed : bound'[j] = bound'[k] => j = k

\* The keys of a server are forgotten.
Forget(s) == bound' = [k \in Keys |-> IF Srv(k) = s THEN None ELSE bound[k]]

\* Ids may be drawn that no key is given.
Next ==
    /\ drawn \subseteq drawn'
    /\ UNCHANGED bound \/ Bind \/ \E s \in Servers : Forget(s)

vars == <<bound, drawn>>

Spec == Init /\ [][Next]_vars
=============================================================================

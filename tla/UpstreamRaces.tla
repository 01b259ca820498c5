--------------------------- MODULE UpstreamRaces ---------------------------
(***************************************************************************)
(* Upstream with history variables that record which of the goroutines met *)
(* an update halfway: what may then be wrong, and that nothing else can.   *)
(***************************************************************************)
EXTENDS Upstream

VARIABLES
    raced,      \* an authentication, a restart, another update or a failing
                \* statement has met an update that changes the credentials
    crossed     \* the fields two updates in progress at a time have both set

Fields == {"creds", "enable"}

\* A field is stored and not yet assigned (manager.go:264-270).
Setting(f) == \E w \in Admins : upc[w] = "stored" /\ patch[w][f] # None

\* An authentication has read the settings (manager.go:478-485).
Busy == \E s \in Slots : apc[s] \notin {"free", "started"}

Storing(w) == upc[w] = "idle" /\ upc'[w] = "stored"
Restarting == crashes' # crashes

Meeting ==
    \/ \* the update finds an authentication under way, or another update
       \E w \in Admins :
         /\ Storing(w) /\ patch'[w].creds # None
         /\ Busy \/ \E x \in Admins : upc[x] # "idle"
    \/ \* an authentication reads the settings the update is about to replace
       \E s \in Slots : apc[s] = "started" /\ apc'[s] = "calling" /\ Setting("creds")
    \/ \* the second statement of the update fails
       \E w \in Admins :
         /\ upc[w] = "applied" /\ upc'[w] = "forgotten"
         /\ patch[w].creds # None /\ DBMayFail /\ dbSession' = dbSession /\ dbSession # None
    \/ \* the process ends between the two
       /\ Restarting
       /\ \E w \in Admins : upc[w] \in {"stored", "applied"} /\ patch[w].creds # None

RacesInit == Init /\ raced = FALSE /\ crossed = {}

RacesNext ==
    /\ Next
    /\ raced' = (raced \/ Meeting)
    /\ crossed' = IF Restarting THEN {}
                  ELSE crossed \cup {f \in Fields : Setting(f) /\
                         \E w \in Admins : Storing(w) /\ patch'[w][f] # None}

RacesSpec == RacesInit /\ [][RacesNext]_<<vars, raced, crossed>>

-----------------------------------------------------------------------------
\* Settings the admin was told are saved are the ones in use, and the ones a
\* restart brings back: row and memory differ only inside Update, between the
\* UPDATE statement and the assignments (manager.go:262-323).  Two updates
\* that overlap there may set one field in opposite orders (crossed), but no
\* other field, and a restart makes row and memory agree again.
ConfigDurable ==
    /\ "creds" \in crossed \/ Setting("creds") \/ cfg = dbCfg
    /\ "enable" \in crossed \/ Setting("enable") \/ enabled = dbEnabled

\* The proxy serves with a session of other credentials than the upstream has
\* (manager.go:501), or restores one after a restart (326), only when an
\* authentication, a restart, another update or a failing statement met the
\* update that changed them halfway.
SessionIsCurrentUnlessRaced == raced \/ session \in {None, cfg}
=============================================================================

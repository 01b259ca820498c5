------------------------------ MODULE Upstream ------------------------------
(***************************************************************************)
(* internal/upstream/manager.go: the life of ONE upstream: its settings,   *)
(* the session the proxy holds on it, its health, and their copies in the  *)
(* table upstreams.  Four kinds of goroutines share it: the admin requests *)
(* that update it, the authentications that any of the others start, the   *)
(* periodic health check and, after a restart, Server.Start.               *)
(*                                                                         *)
(* The settings that make Update drop the session (url, username, password,*)
(* api_key, spoof_mode) are one number, the version of the settings; a     *)
(* session is the version it was obtained with.                            *)
(***************************************************************************)
EXTENDS Naturals, FiniteSets

CONSTANTS
    Admins,       \* admin requests that may be in Update at the same time
    Slots,        \* authentications that may be in flight
    MaxRequests,  \* bound on Update, Reconnect and RefreshSession together
    Budgets,      \* bounds on requests, authentications in flight, outages of the server
                  \* and restarts of the process; a behaviour keeps to one of them
    Accepted,     \* the versions whose credentials the server accepts
    DBMayFail,    \* may an UPDATE of the table fail
    None

Versions == 0..MaxRequests
Session == Versions \cup {None}
Health == {"online", "offline", "unknown"}

ASSUME UpstreamAssumption ==
    /\ MaxRequests \in Nat
    /\ Budgets \subseteq [requests : 0..MaxRequests, auths : Nat, outages : Nat, crashes : Nat]
    /\ Accepted \subseteq Versions
    /\ DBMayFail \in BOOLEAN
    /\ Slots # {}
    /\ None \notin Versions /\ None \notin Health /\ None \notin BOOLEAN

VARIABLES
    \* -- Upstream, in memory
    cfg, enabled, session, health,
    \* -- its row in the table upstreams
    dbCfg, dbEnabled, dbSession, dbHealth,
    \* -- Update: program point, the fields of the request, u.Enabled as read
    upc, patch, wasEnabled,
    \* -- authenticate: program point, the settings it read
    apc, aver,
    \* -- checkAllHealth: program point, the status it read, the status it wrote
    hpc, prev, new,
    \* -- Server.Start: "checking", "reconnect", "up"
    boot,
    \* -- the upstream server
    reachable,
    \* -- history: was a check overtaken by an authentication that failed
    overtaken,
    \* -- bounds, and what has been used of them
    budget, requests, outages, crashes

memVars == <<cfg, enabled, session, health>>
dbVars == <<dbCfg, dbEnabled, dbSession, dbHealth>>
updateVars == <<upc, patch, wasEnabled>>
authVars == <<apc, aver>>
checkVars == <<hpc, prev, new>>
bounds == <<budget, requests, outages, crashes>>
vars == <<memVars, dbVars, updateVars, authVars, checkVars, boot, reachable, overtaken, bounds>>

\* A request of the admin page: new credentials or not, and what to do with
\* "enabled".
Patches == [creds : Versions \cup {None}, enable : BOOLEAN \cup {None}]

\* Add has stored the upstream and started its first authentication.
Init ==
    /\ cfg = 0 /\ enabled = TRUE /\ session = None /\ health = "unknown"
    /\ dbCfg = 0 /\ dbEnabled = TRUE /\ dbSession = None /\ dbHealth = "unknown"
    /\ upc = [w \in Admins |-> "idle"]
    /\ patch = [w \in Admins |-> None]
    /\ wasEnabled = [w \in Admins |-> FALSE]
    /\ LET first == CHOOSE s \in Slots : TRUE
       IN  apc = [s \in Slots |-> IF s = first THEN "started" ELSE "free"]
    /\ aver = [s \in Slots |-> None]
    /\ hpc = "idle" /\ prev = None /\ new = None
    /\ boot = "up"
    /\ reachable = TRUE
    /\ overtaken = FALSE
    /\ budget \in Budgets /\ requests = 0 /\ outages = 0 /\ crashes = 0

-----------------------------------------------------------------------------
\* go m.authenticate(u): a goroutine that has not run yet.
\* Free slots differ in nothing, so it takes any of them.
Spawn ==
    LET free == {s \in Slots : apc[s] = "free"} IN
    /\ free # {} /\ Cardinality(Slots \ free) < budget.auths
    /\ apc' = [apc EXCEPT ![CHOOSE s \in free : TRUE] = "started"]

(* Update                                                                  *)

\* A bug to catch: new credentials do not ask for a new session.
DropsWhenEnabled(p) == p.enable = TRUE

\* shouldReconnect: the session is dropped for new credentials, and also when
\* an upstream is (re-)enabled.
Drops(p) == p.creds # None \/ p.enable = TRUE

UpdateStore(w, p) ==
    /\ upc[w] = "idle"
    /\ boot = "up"
    /\ requests < budget.requests
    /\ requests' = requests + 1
    /\ p.creds \in {None, requests + 1}
    /\ p.creds # None \/ p.enable # None
    /\ dbCfg' = IF p.creds # None THEN p.creds ELSE dbCfg
    /\ dbEnabled' = IF p.enable # None THEN p.enable ELSE dbEnabled
    /\ patch' = [patch EXCEPT ![w] = p]
    /\ upc' = [upc EXCEPT ![w] = "stored"]
    /\ UNCHANGED <<memVars, dbSession, dbHealth, wasEnabled, authVars, checkVars, boot,
                   reachable, budget, outages, crashes, overtaken>>

\* A bug to catch: an upstream that is switched off stays on in memory.
UpdateApplySwitchOn(w) ==
    LET p == patch[w] IN
    /\ upc[w] = "stored"
    /\ cfg' = IF p.creds # None THEN p.creds ELSE cfg
    /\ enabled' = (enabled \/ p.enable = TRUE)
    /\ IF Drops(p)
       THEN session' = None /\ health' = "unknown"
       ELSE UNCHANGED <<session, health>>
    /\ wasEnabled' = [wasEnabled EXCEPT ![w] = enabled']
    /\ upc' = [upc EXCEPT ![w] = "applied"]
    /\ UNCHANGED <<dbVars, patch, authVars, checkVars, boot, reachable, bounds, overtaken>>

\* A bug to catch: the status is cleared and not set to "unknown".
UpdateApplyBlank(w) ==
    LET p == patch[w] IN
    /\ upc[w] = "stored"
    /\ cfg' = IF p.creds # None THEN p.creds ELSE cfg
    /\ enabled' = IF p.enable # None THEN p.enable ELSE enabled
    /\ IF Drops(p)
       THEN session' = None /\ health' = None
       ELSE UNCHANGED <<session, health>>
    /\ wasEnabled' = [wasEnabled EXCEPT ![w] = enabled']
    /\ upc' = [upc EXCEPT ![w] = "applied"]
    /\ UNCHANGED <<dbVars, patch, authVars, checkVars, boot, reachable, bounds, overtaken>>

\* Under u.Mu.Lock.
UpdateApply(w) ==
    LET p == patch[w] IN
    /\ upc[w] = "stored"
    /\ cfg' = IF p.creds # None THEN p.creds ELSE cfg
    /\ enabled' = IF p.enable # None THEN p.enable ELSE enabled
    /\ IF Drops(p)
       THEN session' = None /\ health' = "unknown"
       ELSE UNCHANGED <<session, health>>
    /\ wasEnabled' = [wasEnabled EXCEPT ![w] = enabled']
    /\ upc' = [upc EXCEPT ![w] = "applied"]
    /\ UNCHANGED <<dbVars, patch, authVars, checkVars, boot, reachable, bounds, overtaken>>

\* session_token = '' (an error is ignored); health_status stays as it is.
UpdateForget(w) ==
    /\ upc[w] = "applied"
    /\ Drops(patch[w])
    /\ dbSession' \in {None} \cup (IF DBMayFail THEN {dbSession} ELSE {})
    /\ upc' = [upc EXCEPT ![w] = "forgotten"]
    /\ UNCHANGED <<memVars, dbCfg, dbEnabled, dbHealth, patch, wasEnabled, authVars, checkVars,
                   boot, reachable, bounds, overtaken>>

UpdateDone(w) ==
    /\ upc' = [upc EXCEPT ![w] = "idle"]
    /\ patch' = [patch EXCEPT ![w] = None]
    /\ wasEnabled' = [wasEnabled EXCEPT ![w] = FALSE]

UpdateReturn(w) ==
    /\ \/ upc[w] = "applied" /\ ~Drops(patch[w])
       \/ upc[w] = "forgotten" /\ ~wasEnabled[w]
    /\ UpdateDone(w)
    /\ UNCHANGED <<memVars, dbVars, authVars, checkVars, boot, reachable, bounds, overtaken>>

UpdateReconnect(w) ==
    /\ upc[w] = "forgotten"
    /\ wasEnabled[w]
    /\ Spawn
    /\ UpdateDone(w)
    /\ UNCHANGED <<memVars, dbVars, aver, checkVars, boot, reachable, bounds, overtaken>>

Update(w) ==
    \/ \E p \in Patches : UpdateStore(w, p)
    \/ UpdateApply(w)
    \/ UpdateForget(w)
    \/ UpdateReturn(w)
    \/ UpdateReconnect(w)

\* The admin's button, and RefreshSession of a request that has no user id.
Reconnect ==
    /\ boot = "up"
    /\ requests < budget.requests
    /\ requests' = requests + 1
    /\ Spawn
    /\ UNCHANGED <<memVars, dbVars, updateVars, aver, checkVars, boot, reachable,
                   budget, outages, crashes, overtaken>>

-----------------------------------------------------------------------------
(* authenticate                                                            *)

\* The settings are copied under the lock...
AuthRead(s) ==
    /\ apc[s] = "started"
    /\ apc' = [apc EXCEPT ![s] = "calling"]
    /\ aver' = [aver EXCEPT ![s] = cfg]
    /\ UNCHANGED <<memVars, dbVars, updateVars, checkVars, boot, reachable, bounds, overtaken>>

\* ...and used without it, for up to ten seconds.
AuthCall(s) ==
    /\ apc[s] = "calling"
    /\ apc' = [apc EXCEPT ![s] = IF reachable /\ aver[s] \in Accepted THEN "accepted" ELSE "refused"]
    /\ UNCHANGED <<memVars, dbVars, updateVars, aver, checkVars, boot, reachable, bounds, overtaken>>

AuthRefused(s) ==
    /\ apc[s] = "refused"
    /\ health' = "offline"
    /\ overtaken' = (overtaken \/ hpc \in {"checking", "answered"})
    /\ apc' = [apc EXCEPT ![s] = "free"]
    /\ aver' = [aver EXCEPT ![s] = None]
    /\ UNCHANGED <<cfg, enabled, session, dbVars, updateVars, checkVars, boot, reachable, bounds>>

\* Whatever the settings are by now.
AuthInstall(s) ==
    /\ apc[s] = "accepted"
    /\ session' = aver[s]
    /\ health' = "online"
    /\ apc' = [apc EXCEPT ![s] = "installed"]
    /\ UNCHANGED <<cfg, enabled, dbVars, updateVars, aver, checkVars, boot, reachable, bounds, overtaken>>

\* session_token and health_status = 'online'; an error is ignored.
AuthStore(s) ==
    /\ apc[s] = "installed"
    /\ \/ dbSession' = aver[s] /\ dbHealth' = "online"
       \/ DBMayFail /\ UNCHANGED <<dbSession, dbHealth>>
    /\ apc' = [apc EXCEPT ![s] = "free"]
    /\ aver' = [aver EXCEPT ![s] = None]
    /\ UNCHANGED <<memVars, dbCfg, dbEnabled, updateVars, checkVars, boot, reachable, bounds, overtaken>>

Authenticate(s) ==
    \/ AuthRead(s)
    \/ AuthCall(s)
    \/ AuthRefused(s)
    \/ AuthInstall(s)
    \/ AuthStore(s)

-----------------------------------------------------------------------------
(* checkAllHealth, for this upstream                                       *)

NoAuth == \A s \in Slots : apc[s] = "free"

\* The first check is made by Start itself, the others by the ticker.
CheckStart ==
    /\ hpc = "idle"
    /\ enabled
    /\ prev' = health
    /\ hpc' = "checking"
    /\ UNCHANGED <<memVars, dbVars, updateVars, authVars, new, boot, reachable, bounds, overtaken>>

\* The ticker passes over a disabled upstream.
CheckDisabled ==
    /\ hpc = "idle"
    /\ ~enabled
    /\ UNCHANGED vars

\* /System/Info/Public needs no credentials.
CheckWrite ==
    /\ hpc = "checking"
    /\ new' = IF reachable THEN "online" ELSE "offline"
    /\ hpc' = "answered"
    /\ UNCHANGED <<memVars, dbVars, updateVars, authVars, prev, boot, reachable, bounds, overtaken>>

CheckApply ==
    /\ hpc = "answered"
    /\ health' = new
    /\ hpc' = "applied"
    /\ UNCHANGED <<cfg, enabled, session, dbVars, updateVars, authVars, prev, new, boot,
                   reachable, bounds, overtaken>>

\* A bug to catch: only an upstream that was never checked is authenticated.
NeedsAuthUnknown == prev = "unknown" /\ new = "online" /\ session = None

\* The status has become "online" and, read without the lock, there is no
\* session.
NeedsAuth == prev # new /\ new = "online" /\ session = None

CheckReconnect ==
    /\ hpc = "applied"
    /\ NeedsAuth
    /\ Spawn
    /\ hpc' = "decided"
    /\ UNCHANGED <<memVars, dbVars, updateVars, aver, prev, new, boot, reachable, bounds, overtaken>>

CheckSkip ==
    /\ hpc = "applied"
    /\ ~NeedsAuth
    /\ hpc' = "decided"
    /\ UNCHANGED <<memVars, dbVars, updateVars, authVars, prev, new, boot, reachable, bounds, overtaken>>

\* The check of Start returns to Start.
CheckStore ==
    /\ hpc = "decided"
    /\ dbHealth' \in {new} \cup (IF DBMayFail THEN {dbHealth} ELSE {})
    /\ hpc' = "idle"
    /\ prev' = None
    /\ new' = None
    /\ boot' = IF boot = "checking" THEN "reconnect" ELSE boot
    /\ UNCHANGED <<memVars, dbCfg, dbEnabled, dbSession, updateVars, authVars, reachable, bounds, overtaken>>

Check ==
    \/ CheckStart
    \/ CheckDisabled
    \/ CheckWrite
    \/ CheckApply
    \/ CheckReconnect
    \/ CheckSkip
    \/ CheckStore

-----------------------------------------------------------------------------
(* Restart: loadFromDB, the first check, one authentication if needed      *)

Crash ==
    /\ crashes < budget.crashes
    /\ crashes' = crashes + 1
    /\ cfg' = dbCfg
    /\ enabled' = dbEnabled
    /\ session' = dbSession
    /\ health' = dbHealth
    /\ upc' = [w \in Admins |-> "idle"]
    /\ patch' = [w \in Admins |-> None]
    /\ wasEnabled' = [w \in Admins |-> FALSE]
    /\ apc' = [s \in Slots |-> "free"]
    /\ aver' = [s \in Slots |-> None]
    /\ hpc' = "idle" /\ prev' = None /\ new' = None
    /\ boot' = IF dbEnabled THEN "checking" ELSE "reconnect"
    /\ UNCHANGED <<dbVars, reachable, budget, requests, outages, overtaken>>

\* A bug to catch: the restored status is trusted.
BootTrustsStatus ==
    /\ boot = "reconnect"
    /\ boot' = "up"
    /\ IF enabled /\ session = None /\ health # "online" THEN Spawn ELSE UNCHANGED apc
    /\ UNCHANGED <<memVars, dbVars, updateVars, aver, checkVars, reachable, bounds, overtaken>>

\* Start authenticates an upstream that has no session.
BootReconnect ==
    /\ boot = "reconnect"
    /\ boot' = "up"
    /\ IF enabled /\ session = None THEN Spawn ELSE UNCHANGED apc
    /\ UNCHANGED <<memVars, dbVars, updateVars, aver, checkVars, reachable, bounds, overtaken>>

-----------------------------------------------------------------------------
(* The upstream server                                                     *)

GoDown ==
    /\ reachable
    /\ outages < budget.outages
    /\ outages' = outages + 1
    /\ reachable' = FALSE
    /\ UNCHANGED <<memVars, dbVars, updateVars, authVars, checkVars, boot,
                   budget, requests, crashes, overtaken>>

ComeBack ==
    /\ ~reachable
    /\ reachable' = TRUE
    /\ UNCHANGED <<memVars, dbVars, updateVars, authVars, checkVars, boot, bounds, overtaken>>

Next ==
    \/ \E w \in Admins : Update(w)
    \/ Reconnect
    \/ \E s \in Slots : Authenticate(s)
    \/ Check
    \/ Crash
    \/ BootReconnect
    \/ GoDown
    \/ ComeBack

Spec == Init /\ [][Next]_vars

\* A request in Update runs to its end, every network call has a timeout, the
\* ticker goes on, and an outage ends.
FairSpec ==
    /\ Spec
    /\ \A w \in Admins : WF_vars(upc[w] # "idle" /\ Update(w))
    /\ \A s \in Slots : WF_vars(Authenticate(s))
    /\ WF_vars(Check)
    /\ WF_vars(BootReconnect)
    /\ WF_vars(ComeBack)

-----------------------------------------------------------------------------
\* Every variable has its type, and a goroutine's locals a value while it runs.
TypeOK ==
    /\ cfg \in Versions /\ enabled \in BOOLEAN /\ session \in Session /\ health \in Health
    /\ dbCfg \in Versions /\ dbEnabled \in BOOLEAN /\ dbSession \in Session /\ dbHealth \in Health
    /\ upc \in [Admins -> {"idle", "stored", "applied", "forgotten"}]
    /\ patch \in [Admins -> Patches \cup {None}]
    /\ wasEnabled \in [Admins -> BOOLEAN]
    /\ apc \in [Slots -> {"free", "started", "calling", "accepted", "refused", "installed"}]
    /\ aver \in [Slots -> Versions \cup {None}]
    /\ hpc \in {"idle", "checking", "answered", "applied", "decided"}
    /\ prev \in Health \cup {None}
    /\ new \in Health \cup {None}
    /\ hpc # "idle" => prev # None
    /\ hpc \in {"answered", "applied", "decided"} => new # None
    /\ \A s \in Slots : apc[s] \notin {"free", "started"} => aver[s] \in Versions
    /\ \A w \in Admins : upc[w] # "idle" => patch[w] \in Patches
    /\ boot \in {"checking", "reconnect", "up"}
    /\ reachable \in BOOLEAN
    /\ overtaken \in BOOLEAN
    /\ requests \in 0..MaxRequests
    /\ budget \in Budgets /\ outages \in Nat /\ crashes \in Nat

\* No goroutine is at work on the upstream.
Quiet ==
    /\ boot = "up"
    /\ NoAuth
    /\ hpc = "idle"
    /\ \A w \in Admins : upc[w] = "idle"

\* The health check looks for a change of status to decide whether to
\* authenticate (manager.go:543-548), so an upstream must never come to rest
\* online and without a session: nothing would authenticate it again.  The one
\* way there is a check whose status, read before the call, is overwritten by
\* an authentication that fails before the check writes its own.
NeverStuck ==
    Quiet /\ enabled /\ cfg \in Accepted /\ session = None /\ ~overtaken => health # "online"

\* A session is a session of the upstream as it is configured
\* (upstream_auth.go:12, "the session of an upstream server").
SessionIsCurrent == Quiet /\ enabled => session \in {None, cfg}

\* What Online() asks for.
Serving == enabled /\ health = "online" /\ session # None

\* An enabled upstream whose server accepts the credentials comes back into
\* service, for good, once outages and restarts are over
\* (manager.go:320, "waiting to reconnect").
EventuallyServing == <>[](enabled /\ cfg \in Accepted => Serving)

\* The same, unless a check was overtaken as NeverStuck says.
EventuallyServingUnlessOvertaken ==
    <>[](enabled /\ cfg \in Accepted /\ ~overtaken => Serving)
=============================================================================

------------------------ MODULE UpstreamRaces_proofs ------------------------
(***************************************************************************)
(* Theorems of Upstream and UpstreamRaces, for any number of admins and    *)
(* authentications, settings, outages and restarts.  In turn: types; row   *)
(* and memory agree; the session is current unless raced; an upstream does *)
(* not come to rest online and without a session.                          *)
(***************************************************************************)
EXTENDS UpstreamRaces, TLAPS

-----------------------------------------------------------------------------
(* Types                                                                   *)

\* Spawn starts one authentication, in a slot that was free.
LEMMA SpawnShape ==
    ASSUME Spawn
    PROVE  \E c \in Slots : apc[c] = "free" /\ apc' = [apc EXCEPT ![c] = "started"]
  BY DEF Spawn

\* The initial states have their types.
LEMMA TypeInit == Init => TypeOK
  <1> SUFFICES ASSUME Init PROVE TypeOK
    OBVIOUS
  <1>1. enabled \in BOOLEAN /\ dbEnabled \in BOOLEAN /\ reachable \in BOOLEAN /\ overtaken \in BOOLEAN
    BY DEF Init
  <1>2. upc \in [Admins -> {"idle"}] /\ patch \in [Admins -> {None}] /\ wasEnabled \in [Admins -> BOOLEAN]
    BY DEF Init
  <1>3. apc \in [Slots -> {"free", "started"}] /\ aver \in [Slots -> {None}]
    BY DEF Init
  <1>4. 0 \in 0..MaxRequests
    BY UpstreamAssumption
  <1> QED
    BY <1>1, <1>2, <1>3, <1>4 DEF Init, TypeOK, Versions, Session, Health

\* Spawning an authentication keeps the types of the slots.
LEMMA TypeSpawn ==
    ASSUME TypeOK, Spawn, aver' = aver
    PROVE  /\ apc' \in [Slots -> {"free", "started", "calling", "accepted", "refused", "installed"}]
           /\ \A s \in Slots : apc'[s] \notin {"free", "started"} => aver'[s] \in Versions
  BY SpawnShape DEF TypeOK

\* Update keeps every type.
LEMMA TypeUpdate == ASSUME TypeOK, NEW w \in Admins, Update(w) PROVE TypeOK'
  <1> USE UpstreamAssumption DEF TypeOK, memVars, dbVars, updateVars, authVars, checkVars, bounds
  <1>1. CASE \E p \in Patches : UpdateStore(w, p)
    <2>1. PICK p \in Patches : UpdateStore(w, p)
      BY <1>1
    <2>2. p.creds \in Versions \cup {None} /\ p.enable \in BOOLEAN \cup {None}
      BY <2>1 DEF Patches
    <2>3. requests + 1 \in 0..MaxRequests
      BY <2>1 DEF UpdateStore
    <2> QED
      BY <2>1, <2>2, <2>3 DEF UpdateStore
  <1>2. CASE UpdateApply(w)
    <2>1. /\ patch[w].creds \in Versions \cup {None}
          /\ patch[w].enable \in BOOLEAN \cup {None}
      BY <1>2 DEF UpdateApply, Patches
    <2>2. cfg' \in Versions /\ enabled' \in BOOLEAN /\ session' \in Session /\ health' \in Health
      BY <1>2, <2>1 DEF UpdateApply, Session, Health
    <2> QED
      BY <1>2, <2>2 DEF UpdateApply
  <1>3. CASE UpdateForget(w)
    BY <1>3 DEF UpdateForget, Session
  <1>4. CASE UpdateReturn(w)
    BY <1>4 DEF UpdateReturn, UpdateDone
  <1>5. CASE UpdateReconnect(w)
    BY <1>5, TypeSpawn DEF UpdateReconnect, UpdateDone
  <1> QED
    BY <1>1, <1>2, <1>3, <1>4, <1>5 DEF Update

\* Authenticate keeps every type.
LEMMA TypeAuthenticate == ASSUME TypeOK, NEW s \in Slots, Authenticate(s) PROVE TypeOK'
  <1> USE UpstreamAssumption DEF TypeOK, Session, Health, memVars, dbVars, updateVars, authVars, checkVars, bounds
  <1>1. CASE AuthRead(s)
    BY <1>1 DEF AuthRead
  <1>2. CASE AuthCall(s)
    BY <1>2 DEF AuthCall
  <1>3. CASE AuthRefused(s)
    BY <1>3 DEF AuthRefused
  <1>4. CASE AuthInstall(s)
    BY <1>4 DEF AuthInstall
  <1>5. CASE AuthStore(s)
    BY <1>5 DEF AuthStore
  <1> QED
    BY <1>1, <1>2, <1>3, <1>4, <1>5 DEF Authenticate

\* The health check keeps every type.
LEMMA TypeCheck == ASSUME TypeOK, Check PROVE TypeOK'
  <1> USE UpstreamAssumption DEF TypeOK, Health, memVars, dbVars, updateVars, authVars, checkVars, bounds
  <1>1. CASE CheckStart
    BY <1>1 DEF CheckStart
  <1>2. CASE CheckDisabled
    BY <1>2 DEF CheckDisabled, vars
  <1>3. CASE CheckWrite
    BY <1>3 DEF CheckWrite
  <1>4. CASE CheckApply
    BY <1>4 DEF CheckApply
  <1>5. CASE CheckReconnect
    BY <1>5, TypeSpawn DEF CheckReconnect
  <1>6. CASE CheckSkip
    BY <1>6 DEF CheckSkip
  <1>7. CASE CheckStore
    BY <1>7 DEF CheckStore
  <1> QED
    BY <1>1, <1>2, <1>3, <1>4, <1>5, <1>6, <1>7 DEF Check

\* Every step keeps every type.
LEMMA TypeStep == TypeOK /\ [Next]_vars => TypeOK'
  <1> SUFFICES ASSUME TypeOK, [Next]_vars PROVE TypeOK'
    OBVIOUS
  <1> USE UpstreamAssumption DEF memVars, dbVars, updateVars, authVars, checkVars, bounds
  <1>1. CASE \E w \in Admins : Update(w)
    BY <1>1, TypeUpdate
  <1>2. CASE Reconnect
    BY <1>2, TypeSpawn DEF Reconnect, TypeOK
  <1>3. CASE \E s \in Slots : Authenticate(s)
    BY <1>3, TypeAuthenticate
  <1>4. CASE Check
    BY <1>4, TypeCheck
  <1>5. CASE Crash
    BY <1>5 DEF Crash, TypeOK
  <1>6. CASE BootReconnect
    BY <1>6, TypeSpawn DEF BootReconnect, TypeOK
  <1>7. CASE GoDown
    <2>1. reachable' \in BOOLEAN
      BY <1>7 DEF GoDown
    <2>2. outages' \in Nat
      BY <1>7 DEF GoDown, TypeOK
    <2> QED
      BY <1>7, <2>1, <2>2 DEF GoDown, TypeOK
  <1>8. CASE ComeBack
    BY <1>8 DEF ComeBack, TypeOK
  <1>9. CASE UNCHANGED vars
    BY <1>9 DEF vars, TypeOK
  <1> QED
    BY <1>1, <1>2, <1>3, <1>4, <1>5, <1>6, <1>7, <1>8, <1>9 DEF Next

\* Every variable keeps its type, and a goroutine's locals have a value while
\* it runs (manager.go:208-330, 478-560).
THEOREM TypeCorrect == Spec => []TypeOK
  <1>1. QED
    BY TypeInit, TypeStep, PTL DEF Spec

-----------------------------------------------------------------------------
(* Row and memory                                                          *)

\* An update that is between statement and assignments, and the only one
\* there for field f, is the one whose value the row holds.
Alone(f, row) ==
    f \notin crossed =>
        \A w \in Admins : upc[w] = "stored" /\ patch[w][f] # None =>
            /\ patch[w][f] = row
            /\ \A x \in Admins : upc[x] = "stored" /\ patch[x][f] # None => x = w

CredsAgree ==
    /\ "creds" \in crossed \/ Setting("creds") \/ cfg = dbCfg
    /\ Alone("creds", dbCfg)

EnableAgree ==
    /\ "enable" \in crossed \/ Setting("enable") \/ enabled = dbEnabled
    /\ Alone("enable", dbEnabled)

\* What no step between the two does: move a setting, or an update that has
\* stored and not yet applied one.
Apart ==
    /\ UNCHANGED <<cfg, enabled, dbCfg, dbEnabled, crashes>>
    /\ \A x \in Admins : (upc'[x] = "stored") <=> (upc[x] = "stored")
    /\ \A x \in Admins : upc[x] = "stored" => patch'[x] = patch[x]

\* Authentications and checks keep apart from the settings and the updates.
LEMMA OthersApart ==
    ASSUME \/ \E s \in Slots : Authenticate(s)
           \/ Check \/ Reconnect \/ BootReconnect \/ GoDown \/ ComeBack \/ UNCHANGED vars
    PROVE  UNCHANGED <<cfg, enabled, dbCfg, dbEnabled, crashes, upc, patch, wasEnabled>>
  <1> USE DEF memVars, dbVars, updateVars, authVars, checkVars, bounds
  <1>1. CASE \E s \in Slots : Authenticate(s)
    BY <1>1 DEF Authenticate, AuthRead, AuthCall, AuthRefused, AuthInstall, AuthStore
  <1>2. CASE Check
    BY <1>2 DEF Check, CheckStart, CheckDisabled, CheckWrite, CheckApply, CheckReconnect,
                CheckSkip, CheckStore, vars
  <1>3. CASE Reconnect \/ BootReconnect \/ GoDown \/ ComeBack \/ UNCHANGED vars
    BY <1>3 DEF Reconnect, BootReconnect, GoDown, ComeBack, vars
  <1> QED
    BY <1>1, <1>2, <1>3

\* So do the later steps of an update.
LEMMA UpdateApart ==
    ASSUME TypeOK, NEW w \in Admins, UpdateForget(w) \/ UpdateReturn(w) \/ UpdateReconnect(w)
    PROVE  Apart
  <1> USE DEF memVars, dbVars, bounds, TypeOK
  <1>1. UNCHANGED <<cfg, enabled, dbCfg, dbEnabled, crashes>>
    BY DEF UpdateForget, UpdateReturn, UpdateReconnect
  <1>2. /\ upc[w] # "stored" /\ upc'[w] # "stored"
        /\ \A x \in Admins \ {w} : upc'[x] = upc[x] /\ patch'[x] = patch[x]
    BY DEF UpdateForget, UpdateReturn, UpdateReconnect, UpdateDone
  <1> QED
    BY <1>1, <1>2 DEF Apart

\* A step that keeps apart leaves the agreement of row and memory.
LEMMA ApartAgrees ==
    ASSUME Apart, CredsAgree, EnableAgree,
           crossed' = IF Restarting THEN {}
                      ELSE crossed \cup {f \in Fields : Setting(f) /\
                             \E w \in Admins : Storing(w) /\ patch'[w][f] # None}
    PROVE  crossed' = crossed /\ CredsAgree' /\ EnableAgree'
  <1>1. crossed' = crossed
    BY DEF Apart, Restarting, Storing
  <1>2. CredsAgree'
    BY <1>1 DEF Apart, CredsAgree, Alone, Setting
  <1>3. EnableAgree'
    BY <1>1 DEF Apart, EnableAgree, Alone, Setting
  <1> QED
    BY <1>1, <1>2, <1>3

\* So does the UPDATE statement, which makes the row differ for the fields it
\* sets and records the fields another update is setting.
LEMMA StoreAgrees ==
    ASSUME TypeOK, NEW w \in Admins, NEW p \in Patches, UpdateStore(w, p),
           CredsAgree, EnableAgree,
           crossed' = IF Restarting THEN {}
                      ELSE crossed \cup {f \in Fields : Setting(f) /\
                             \E x \in Admins : Storing(x) /\ patch'[x][f] # None}
    PROVE  CredsAgree' /\ EnableAgree'
  <1>1. crashes' = crashes /\ cfg' = cfg /\ enabled' = enabled
    BY DEF UpdateStore, memVars
  <1>2. /\ upc[w] = "idle" /\ upc'[w] = "stored" /\ patch'[w] = p
        /\ \A x \in Admins \ {w} : upc'[x] = upc[x] /\ patch'[x] = patch[x]
    BY DEF UpdateStore, TypeOK
  <1>3. crossed' = crossed \cup {f \in Fields : Setting(f) /\ p[f] # None}
    BY <1>1, <1>2 DEF Restarting, Storing
  <1>4. CredsAgree'
    <2>1. CASE p.creds = None
      <3>1. dbCfg' = dbCfg
        BY <2>1 DEF UpdateStore
      <3>2. "creds" \in crossed' <=> "creds" \in crossed
        BY <1>3, <2>1 DEF Fields
      <3> QED
        BY <1>1, <1>2, <2>1, <3>1, <3>2 DEF CredsAgree, Alone, Setting
    <2>2. CASE p.creds # None
      <3>1. dbCfg' = p.creds
        BY <2>2 DEF UpdateStore
      <3>2. Setting("creds") => "creds" \in crossed'
        BY <1>3, <2>2 DEF Fields
      <3> QED
        BY <1>1, <1>2, <2>2, <3>1, <3>2 DEF CredsAgree, Alone, Setting
    <2> QED
      BY <2>1, <2>2
  <1>5. EnableAgree'
    <2>1. CASE p.enable = None
      <3>1. dbEnabled' = dbEnabled
        BY <2>1 DEF UpdateStore
      <3>2. "enable" \in crossed' <=> "enable" \in crossed
        BY <1>3, <2>1 DEF Fields
      <3> QED
        BY <1>1, <1>2, <2>1, <3>1, <3>2 DEF EnableAgree, Alone, Setting
    <2>2. CASE p.enable # None
      <3>1. dbEnabled' = p.enable
        BY <2>2 DEF UpdateStore
      <3>2. Setting("enable") => "enable" \in crossed'
        BY <1>3, <2>2 DEF Fields
      <3> QED
        BY <1>1, <1>2, <2>2, <3>1, <3>2 DEF EnableAgree, Alone, Setting
    <2> QED
      BY <2>1, <2>2
  <1> QED
    BY <1>4, <1>5

\* The assignments of an update that was alone bring memory up to the row.
LEMMA ApplyAgrees ==
    ASSUME TypeOK, NEW w \in Admins, UpdateApply(w), CredsAgree, EnableAgree,
           crossed' = IF Restarting THEN {}
                      ELSE crossed \cup {f \in Fields : Setting(f) /\
                             \E x \in Admins : Storing(x) /\ patch'[x][f] # None}
    PROVE  crossed' = crossed /\ CredsAgree' /\ EnableAgree'
  <1>1. UNCHANGED <<crashes, dbCfg, dbEnabled, patch>>
    BY DEF UpdateApply, dbVars, bounds
  <1>2. /\ upc[w] = "stored" /\ upc'[w] = "applied"
        /\ \A x \in Admins \ {w} : upc'[x] = upc[x]
    BY DEF UpdateApply, TypeOK
  <1>3. crossed' = crossed
    BY <1>1, <1>2 DEF Restarting, Storing
  <1>4. /\ cfg' = IF patch[w].creds # None THEN patch[w].creds ELSE cfg
        /\ enabled' = IF patch[w].enable # None THEN patch[w].enable ELSE enabled
    BY DEF UpdateApply
  <1>5. CredsAgree'
    BY <1>1, <1>2, <1>3, <1>4 DEF CredsAgree, Alone, Setting
  <1>6. EnableAgree'
    BY <1>1, <1>2, <1>3, <1>4 DEF EnableAgree, Alone, Setting
  <1> QED
    BY <1>3, <1>5, <1>6

\* loadFromDB takes the settings from the row, and nothing is in progress.
LEMMA CrashAgrees ==
    ASSUME Crash, TypeOK,
           crossed' = IF Restarting THEN {}
                      ELSE crossed \cup {f \in Fields : Setting(f) /\
                             \E x \in Admins : Storing(x) /\ patch'[x][f] # None}
    PROVE  crossed' = {} /\ CredsAgree' /\ EnableAgree'
  <1>1. crossed' = {}
    BY DEF Crash, TypeOK, Restarting
  <1>2. /\ cfg' = dbCfg' /\ enabled' = dbEnabled' /\ \A x \in Admins : upc'[x] = "idle"
    BY DEF Crash, dbVars
  <1> QED
    BY <1>1, <1>2 DEF CredsAgree, EnableAgree, Alone, Setting

racesVars == <<vars, raced, crossed>>

\* Every step keeps the agreement of row and memory.
LEMMA AgreeStep ==
    TypeOK /\ CredsAgree /\ EnableAgree /\ [RacesNext]_racesVars => CredsAgree' /\ EnableAgree'
  <1> SUFFICES ASSUME TypeOK, CredsAgree, EnableAgree, [RacesNext]_racesVars
               PROVE  CredsAgree' /\ EnableAgree'
    OBVIOUS
  <1>1. CASE UNCHANGED racesVars
    BY <1>1 DEF racesVars, vars, memVars, dbVars, updateVars, CredsAgree, EnableAgree, Alone, Setting
  <1>2. CASE RacesNext
    <2>1. crossed' = IF Restarting THEN {}
                     ELSE crossed \cup {f \in Fields : Setting(f) /\
                            \E x \in Admins : Storing(x) /\ patch'[x][f] # None}
      BY <1>2 DEF RacesNext
    <2>2. CASE \E w \in Admins : Update(w)
      <3>1. PICK w \in Admins : Update(w)
        BY <2>2
      <3>2. CASE \E p \in Patches : UpdateStore(w, p)
        BY <2>1, <3>2, StoreAgrees
      <3>3. CASE UpdateApply(w)
        BY <2>1, <3>3, ApplyAgrees
      <3>4. CASE UpdateForget(w) \/ UpdateReturn(w) \/ UpdateReconnect(w)
        BY <2>1, <3>4, UpdateApart, ApartAgrees
      <3> QED
        BY <3>1, <3>2, <3>3, <3>4 DEF Update
    <2>3. CASE Crash
      BY <2>1, <2>3, CrashAgrees
    <2>4. CASE \/ \E s \in Slots : Authenticate(s)
               \/ Check \/ Reconnect \/ BootReconnect \/ GoDown \/ ComeBack
      <3>1. Apart
        BY <2>4, OthersApart DEF Apart
      <3> QED
        BY <2>1, <3>1, ApartAgrees
    <2> QED
      BY <1>2, <2>2, <2>3, <2>4 DEF RacesNext, Next
  <1> QED
    BY <1>1, <1>2

\* Upstream with the history variables keeps the types of Upstream.
LEMMA RacesTypeStep == TypeOK /\ [RacesNext]_racesVars => TypeOK'
  BY TypeStep DEF RacesNext, racesVars

\* Types hold of the specification with history variables as well.
LEMMA RacesTypeCorrect == RacesSpec => []TypeOK
  <1>1. RacesInit => TypeOK
    BY TypeInit DEF RacesInit
  <1> QED
    BY <1>1, RacesTypeStep, PTL DEF RacesSpec, racesVars

\* Row and memory agree from the start.
LEMMA AgreeInit == RacesInit => CredsAgree /\ EnableAgree
  <1> SUFFICES ASSUME RacesInit PROVE CredsAgree /\ EnableAgree
    OBVIOUS
  <1>1. \A w \in Admins : upc[w] = "idle"
    BY DEF RacesInit, Init
  <1>2. cfg = dbCfg /\ enabled = dbEnabled
    BY DEF RacesInit, Init
  <1> QED
    BY <1>1, <1>2 DEF CredsAgree, EnableAgree, Alone, Setting

LEMMA AgreeCorrect == RacesSpec => [](CredsAgree /\ EnableAgree)
  BY AgreeInit, AgreeStep, RacesTypeCorrect, PTL DEF RacesSpec, racesVars

\* The settings in use are those of the row, and so those a restart brings
\* back, but for an update between its statement and its assignments or two
\* that crossed there (manager.go:262-323).
THEOREM SettingsDurable == RacesSpec => []ConfigDurable
  <1>1. CredsAgree /\ EnableAgree => ConfigDurable
    BY DEF CredsAgree, EnableAgree, ConfigDurable
  <1> QED
    BY <1>1, AgreeCorrect, PTL

-----------------------------------------------------------------------------
(* The session                                                             *)

\* An update of the credentials has begun and its session is not forgotten
\* in the row yet.
Changing == \E w \in Admins : upc[w] \in {"stored", "applied"} /\ patch[w].creds # None

\* While nobody has met an update of the credentials halfway: sessions and
\* authentications under way are of the present settings.
Unmet ==
    /\ "creds" \notin crossed
    /\ session \in {None, cfg}
    /\ \A s \in Slots : apc[s] \notin {"free", "started"} => aver[s] = cfg
    /\ Setting("creds") => ~Busy
    /\ Changing \/ dbSession \in {None, dbCfg}

\* The UPDATE statement: an unraced one finds no authentication under way and
\* no other update.
LEMMA StoreUnmet ==
    ASSUME TypeOK, NEW w \in Admins, NEW p \in Patches, UpdateStore(w, p), Unmet, ~Meeting,
           crossed' = crossed \cup {f \in Fields : Setting(f) /\
                                     \E x \in Admins : Storing(x) /\ patch'[x][f] # None}
    PROVE  Unmet'
  <1>1. UNCHANGED <<cfg, session, dbSession, apc, aver>>
    BY DEF UpdateStore, memVars, authVars
  <1>2. /\ upc[w] = "idle" /\ upc'[w] = "stored" /\ patch'[w] = p
        /\ \A x \in Admins \ {w} : upc'[x] = upc[x] /\ patch'[x] = patch[x]
    BY DEF UpdateStore, TypeOK
  <1>3. CASE p.creds = None
    <2>1. dbCfg' = dbCfg
      BY <1>3 DEF UpdateStore
    <2>2. "creds" \notin crossed'
      BY <1>2, <1>3 DEF Storing, Unmet
    <2> QED
      BY <1>1, <1>2, <1>3, <2>1, <2>2 DEF Unmet, Setting, Busy, Changing
  <1>4. CASE p.creds # None
    <2>1. ~Busy /\ \A x \in Admins : upc[x] = "idle"
      BY <1>2, <1>4 DEF Meeting, Storing
    <2>2. "creds" \notin crossed'
      BY <2>1 DEF Unmet, Setting
    <2>3. Changing'
      BY <1>2, <1>4 DEF Changing
    <2> QED
      BY <1>1, <2>1, <2>2, <2>3 DEF Unmet, Busy
  <1> QED
    BY <1>3, <1>4

\* The assignments: new credentials drop the session, and no authentication
\* has read the old ones.
LEMMA ApplyUnmet ==
    ASSUME TypeOK, NEW w \in Admins, UpdateApply(w), Unmet, crossed' = crossed
    PROVE  Unmet'
  <1>1. UNCHANGED <<dbCfg, dbSession, patch, apc, aver>>
    BY DEF UpdateApply, dbVars, authVars
  <1>2. /\ upc[w] = "stored" /\ upc'[w] = "applied"
        /\ \A x \in Admins \ {w} : upc'[x] = upc[x]
    BY DEF UpdateApply, TypeOK
  <1>3. Changing' <=> Changing
    BY <1>1, <1>2 DEF Changing
  <1>4. Setting("creds")' => Setting("creds")
    BY <1>1, <1>2 DEF Setting
  <1>5. session' \in {None, cfg'} /\ (cfg' = cfg \/ ~Busy)
    <2>1. CASE patch[w].creds = None
      BY <2>1 DEF UpdateApply, Unmet
    <2>2. CASE patch[w].creds # None
      BY <1>2, <2>2 DEF UpdateApply, Drops, Unmet, Setting
    <2> QED
      BY <2>1, <2>2
  <1> QED
    BY <1>1, <1>3, <1>4, <1>5 DEF Unmet, Busy

\* The statement that forgets the session in the row, unless it fails.
LEMMA ForgetUnmet ==
    ASSUME TypeOK, NEW w \in Admins, UpdateForget(w), Unmet, ~Meeting, crossed' = crossed
    PROVE  Unmet'
  <1>1. UNCHANGED <<cfg, session, dbCfg, patch, apc, aver>>
    BY DEF UpdateForget, memVars, authVars
  <1>2. /\ upc[w] = "applied" /\ upc'[w] = "forgotten"
        /\ \A x \in Admins \ {w} : upc'[x] = upc[x]
    BY DEF UpdateForget, TypeOK
  <1>3. Setting("creds")' <=> Setting("creds")
    BY <1>1, <1>2 DEF Setting
  <1>4. CASE patch[w].creds = None
    <2>1. Changing' <=> Changing
      BY <1>1, <1>2, <1>4 DEF Changing
    <2> QED
      BY <1>1, <1>3, <2>1 DEF UpdateForget, Unmet, Busy
  <1>5. CASE patch[w].creds # None
    <2>1. dbSession' = None
      BY <1>2, <1>5 DEF UpdateForget, Meeting
    <2> QED
      BY <1>1, <1>3, <2>1 DEF Unmet, Busy
  <1> QED
    BY <1>4, <1>5

\* The last step of an update.
LEMMA ReturnUnmet ==
    ASSUME TypeOK, NEW w \in Admins, UpdateReturn(w) \/ UpdateReconnect(w), Unmet, crossed' = crossed
    PROVE  Unmet'
  <1>1. UNCHANGED <<cfg, session, dbCfg, dbSession, aver>>
    BY DEF UpdateReturn, UpdateReconnect, memVars, dbVars, authVars
  <1>2. /\ upc[w] # "stored" /\ (upc[w] = "applied" => patch[w].creds = None)
        /\ upc'[w] = "idle"
        /\ \A x \in Admins \ {w} : upc'[x] = upc[x] /\ patch'[x] = patch[x]
    BY DEF UpdateReturn, UpdateReconnect, UpdateDone, Drops, TypeOK
  <1>3. (Changing' <=> Changing) /\ (Setting("creds")' <=> Setting("creds"))
    BY <1>2 DEF Changing, Setting, TypeOK, UpdateReturn, UpdateReconnect
  <1>4. \A s \in Slots : apc'[s] \in {"free", "started"} \/ apc'[s] = apc[s]
    BY SpawnShape DEF UpdateReturn, UpdateReconnect, authVars, TypeOK
  <1> QED
    BY <1>1, <1>3, <1>4 DEF Unmet, Busy

\* An authentication that reads the settings, with no update of them waiting,
\* or installs a session and stores it.
LEMMA AuthUnmet ==
    ASSUME TypeOK, CredsAgree, NEW s \in Slots, Authenticate(s), Unmet, ~Meeting, crossed' = crossed
    PROVE  Unmet'
  <1>1. UNCHANGED <<cfg, dbCfg, upc, patch>>
    BY OthersApart
  <1>2. (Changing' <=> Changing) /\ (Setting("creds")' <=> Setting("creds"))
    BY <1>1 DEF Changing, Setting
  <1>3. \A x \in Slots \ {s} : apc'[x] = apc[x] /\ aver'[x] = aver[x]
    BY DEF Authenticate, AuthRead, AuthCall, AuthRefused, AuthInstall, AuthStore, TypeOK
  <1>4. CASE AuthRead(s)
    <2>1. apc[s] = "started" /\ apc'[s] = "calling" /\ aver'[s] = cfg
      BY <1>4 DEF AuthRead, TypeOK
    <2>2. ~Setting("creds")
      BY <2>1 DEF Meeting
    <2>3. session' = session /\ dbSession' = dbSession
      BY <1>4 DEF AuthRead, memVars, dbVars
    <2> QED
      BY <1>1, <1>2, <1>3, <2>1, <2>2, <2>3 DEF Unmet
  <1>5. CASE AuthCall(s)
    <2>1. apc[s] = "calling" /\ aver' = aver /\ session' = session /\ dbSession' = dbSession
      BY <1>5 DEF AuthCall, memVars, dbVars
    <2> QED
      BY <1>1, <1>2, <1>3, <2>1 DEF Unmet, Busy
  <1>6. CASE AuthRefused(s)
    <2>1. apc'[s] = "free" /\ session' = session /\ dbSession' = dbSession
      BY <1>6 DEF AuthRefused, dbVars, TypeOK
    <2> QED
      BY <1>1, <1>2, <1>3, <2>1 DEF Unmet, Busy
  <1>7. CASE AuthInstall(s)
    <2>1. apc[s] = "accepted" /\ aver' = aver /\ session' = aver[s] /\ dbSession' = dbSession
      BY <1>7 DEF AuthInstall, dbVars
    <2> QED
      BY <1>1, <1>2, <1>3, <2>1 DEF Unmet, Busy
  <1>8. CASE AuthStore(s)
    <2>1. /\ apc[s] = "installed" /\ apc'[s] = "free" /\ session' = session
          /\ dbSession' \in {dbSession, aver[s]}
      BY <1>8 DEF AuthStore, memVars, TypeOK
    <2>2. aver[s] = cfg /\ cfg = dbCfg
      BY <2>1 DEF Unmet, Busy, CredsAgree
    <2> QED
      BY <1>1, <1>2, <1>3, <2>1, <2>2 DEF Unmet, Busy
  <1> QED
    BY <1>4, <1>5, <1>6, <1>7, <1>8 DEF Authenticate

\* Steps that spawn an authentication, or have nothing to do with sessions.
LEMMA OtherUnmet ==
    ASSUME TypeOK, Check \/ Reconnect \/ BootReconnect \/ GoDown \/ ComeBack, Unmet, crossed' = crossed
    PROVE  Unmet'
  <1> USE DEF memVars, dbVars, updateVars, authVars
  <1>1. UNCHANGED <<cfg, dbCfg, upc, patch>>
    BY OthersApart
  <1>2. UNCHANGED <<session, dbSession, aver>> /\ (apc' = apc \/ Spawn)
    BY DEF Check, CheckStart, CheckDisabled, CheckWrite, CheckApply, CheckReconnect, CheckSkip,
           CheckStore, Reconnect, BootReconnect, GoDown, ComeBack, vars
  <1>3. \A s \in Slots : apc'[s] \in {"free", "started"} \/ apc'[s] = apc[s]
    BY <1>2, SpawnShape DEF TypeOK
  <1>4. (Changing' <=> Changing) /\ (Setting("creds")' <=> Setting("creds"))
    BY <1>1 DEF Changing, Setting
  <1> QED
    BY <1>1, <1>2, <1>3, <1>4 DEF Unmet, Busy

\* A restart that no update of the credentials was caught in.
LEMMA CrashUnmet ==
    ASSUME TypeOK, Crash, Unmet, ~Meeting, crossed' = {}
    PROVE  Unmet'
  <1>1. Restarting
    BY DEF Crash, Restarting, TypeOK
  <1>2. ~Changing
    BY <1>1 DEF Meeting, Changing
  <1>3. /\ session' = dbSession /\ cfg' = dbCfg /\ dbSession' = dbSession /\ dbCfg' = dbCfg
        /\ \A s \in Slots : apc'[s] = "free"
        /\ \A w \in Admins : upc'[w] = "idle"
    BY DEF Crash, dbVars
  <1> QED
    BY <1>2, <1>3 DEF Unmet, Setting, Busy

\* Until a step meets an update halfway, Unmet goes on.
LEMMA UnmetStep ==
    /\ TypeOK /\ CredsAgree /\ EnableAgree /\ (raced \/ Unmet)
    /\ [RacesNext]_racesVars
    => (raced \/ Unmet)'
  <1> SUFFICES ASSUME TypeOK, CredsAgree, EnableAgree, raced \/ Unmet,
                      [RacesNext]_racesVars, ~raced'
               PROVE  Unmet'
    OBVIOUS
  <1>1. CASE UNCHANGED racesVars
    BY <1>1 DEF racesVars, vars, memVars, dbVars, updateVars, authVars, Unmet, Setting, Busy, Changing
  <1>2. CASE RacesNext
    <2>1. /\ Unmet /\ ~Meeting
          /\ crossed' = IF Restarting THEN {}
                        ELSE crossed \cup {f \in Fields : Setting(f) /\
                               \E x \in Admins : Storing(x) /\ patch'[x][f] # None}
      BY <1>2 DEF RacesNext
    <2>2. CASE \E w \in Admins : Update(w)
      <3>1. PICK w \in Admins : Update(w)
        BY <2>2
      <3>2. CASE \E p \in Patches : UpdateStore(w, p)
        <4>1. ~Restarting
          BY <3>2 DEF UpdateStore, Restarting
        <4> QED
          BY <2>1, <3>2, <4>1, StoreUnmet
      <3>3. CASE UpdateApply(w)
        <4>1. crossed' = crossed
          BY <2>1, <3>3, ApplyAgrees
        <4> QED
          BY <2>1, <3>3, <4>1, ApplyUnmet
      <3>4. CASE UpdateForget(w) \/ UpdateReturn(w) \/ UpdateReconnect(w)
        <4>1. crossed' = crossed
          BY <2>1, <3>4, UpdateApart, ApartAgrees
        <4> QED
          BY <2>1, <3>4, <4>1, ForgetUnmet, ReturnUnmet
      <3> QED
        BY <3>1, <3>2, <3>3, <3>4 DEF Update
    <2>3. CASE Crash
      BY <2>1, <2>3, CrashAgrees, CrashUnmet
    <2>4. CASE \/ \E s \in Slots : Authenticate(s)
               \/ Check \/ Reconnect \/ BootReconnect \/ GoDown \/ ComeBack
      <3>1. Apart
        BY <2>4, OthersApart DEF Apart
      <3>2. crossed' = crossed
        BY <2>1, <3>1, ApartAgrees
      <3> QED
        BY <2>1, <2>4, <3>2, AuthUnmet, OtherUnmet
    <2> QED
      BY <1>2, <2>2, <2>3, <2>4 DEF RacesNext, Next
  <1> QED
    BY <1>1, <1>2

\* At the start nothing has been met.
LEMMA UnmetInit == RacesInit => Unmet
  <1> SUFFICES ASSUME RacesInit PROVE Unmet
    OBVIOUS
  <1>1. /\ \A w \in Admins : upc[w] = "idle"
        /\ \A s \in Slots : apc[s] \in {"free", "started"}
        /\ session = None /\ dbSession = None /\ crossed = {}
    BY DEF RacesInit, Init
  <1> QED
    BY <1>1 DEF Unmet, Setting, Busy

\* Memory holds a session of other settings than the present ones only when
\* an authentication, another update, a failing statement or a restart met
\* the update that changed them halfway (manager.go:262-330, 478-505).
THEOREM SessionCurrent == RacesSpec => []SessionIsCurrentUnlessRaced
  <1>1. raced \/ Unmet => SessionIsCurrentUnlessRaced
    BY DEF Unmet, SessionIsCurrentUnlessRaced
  <1>2. RacesSpec => [](raced \/ Unmet)
    BY UnmetInit, UnmetStep, RacesTypeCorrect, AgreeCorrect, PTL DEF RacesSpec, racesVars
  <1> QED
    BY <1>1, <1>2, PTL

-----------------------------------------------------------------------------
(* No upstream comes to rest online and without a session                  *)

\* The upstream needs an authentication that no failed one has kept from it.
Unserved == enabled /\ session = None /\ ~overtaken

\* An authentication is under way, or the update that dropped the session has
\* still to start one.
Pending ==
    \/ \E s \in Slots : apc[s] \in {"started", "calling", "accepted", "refused"}
    \/ \E w \in Admins : upc[w] \in {"applied", "forgotten"} /\ Drops(patch[w]) /\ wasEnabled[w]

\* Who will authenticate: Start, one of the above, or the check that has just
\* seen the status change.
Owed == boot # "up" \/ Pending \/ (hpc = "applied" /\ prev # new /\ new = "online")

\* A status that the next check will not find changed: it is online, or a
\* check under way has read it online.
LooksOnline == health = "online" \/ (hpc \in {"checking", "answered"} /\ prev = "online")

NoRest == Unserved /\ LooksOnline => Owed

\* Add has started an authentication.
LEMMA NoRestInit == Init => NoRest
  BY UpstreamAssumption DEF Init, NoRest, LooksOnline, Health

\* An update that enables the upstream, or drops the session of an enabled
\* one, starts an authentication.
LEMMA NoRestUpdate == ASSUME TypeOK, NEW w \in Admins, Update(w), NoRest PROVE NoRest'
  <1> USE DEF memVars, dbVars, authVars, checkVars, bounds
  <1>1. UNCHANGED <<hpc, prev, new, boot, overtaken>>
    BY DEF Update, UpdateStore, UpdateApply, UpdateForget, UpdateReturn, UpdateReconnect
  <1>2. CASE \E p \in Patches : UpdateStore(w, p)
    <2>1. UNCHANGED <<cfg, enabled, session, health, apc, wasEnabled>>
      BY <1>2 DEF UpdateStore
    <2>2. /\ upc[w] = "idle"
          /\ \A x \in Admins \ {w} : upc'[x] = upc[x] /\ patch'[x] = patch[x]
      BY <1>2 DEF UpdateStore, TypeOK
    <2>3. Pending => Pending'
      BY <2>1, <2>2 DEF Pending
    <2> QED
      BY <1>1, <2>1, <2>3 DEF NoRest, Unserved, LooksOnline, Owed
  <1>3. CASE UpdateApply(w)
    <2>1. /\ upc[w] = "stored" /\ upc'[w] = "applied" /\ apc' = apc /\ patch' = patch
          /\ \A x \in Admins \ {w} : upc'[x] = upc[x] /\ wasEnabled'[x] = wasEnabled[x]
          /\ wasEnabled'[w] = enabled'
      BY <1>3 DEF UpdateApply, TypeOK
    <2>2. Pending => Pending'
      BY <2>1 DEF Pending
    <2>3. CASE Drops(patch[w])
      <3>1. enabled' => Pending'
        BY <2>1, <2>3 DEF Pending
      <3> QED
        BY <3>1 DEF NoRest, Unserved, Owed
    <2>4. CASE ~Drops(patch[w])
      <3>1. session' = session /\ health' = health /\ (enabled' => enabled)
        <4>1. patch[w].enable \in BOOLEAN \cup {None}
          BY <2>1 DEF TypeOK, Patches
        <4> QED
          BY <1>3, <2>4, <4>1 DEF UpdateApply, Drops
      <3> QED
        BY <1>1, <2>2, <3>1 DEF NoRest, Unserved, LooksOnline, Owed
    <2> QED
      BY <2>3, <2>4
  <1>4. CASE UpdateForget(w)
    <2>1. UNCHANGED <<enabled, session, health, apc, patch, wasEnabled>>
      BY <1>4 DEF UpdateForget
    <2>2. upc'[w] = "forgotten" /\ \A x \in Admins \ {w} : upc'[x] = upc[x]
      BY <1>4 DEF UpdateForget, TypeOK
    <2>3. Pending => Pending'
      BY <2>1, <2>2 DEF Pending
    <2> QED
      BY <1>1, <2>1, <2>3 DEF NoRest, Unserved, LooksOnline, Owed
  <1>5. CASE UpdateReturn(w)
    <2>1. UNCHANGED <<enabled, session, health, apc>>
      BY <1>5 DEF UpdateReturn
    <2>2. /\ ~(upc[w] \in {"applied", "forgotten"} /\ Drops(patch[w]) /\ wasEnabled[w])
          /\ \A x \in Admins \ {w} : /\ upc'[x] = upc[x] /\ patch'[x] = patch[x]
                                     /\ wasEnabled'[x] = wasEnabled[x]
      BY <1>5 DEF UpdateReturn, UpdateDone, TypeOK
    <2>3. Pending => Pending'
      BY <2>1, <2>2 DEF Pending
    <2> QED
      BY <1>1, <2>1, <2>3 DEF NoRest, Unserved, LooksOnline, Owed
  <1>6. CASE UpdateReconnect(w)
    <2>1. Pending'
      BY <1>6, SpawnShape DEF UpdateReconnect, Pending, TypeOK
    <2> QED
      BY <2>1 DEF NoRest, Owed
  <1> QED
    BY <1>2, <1>3, <1>4, <1>5, <1>6 DEF Update

\* An authentication gives the upstream a session, or marks it offline and
\* tells the check it overtook.
LEMMA NoRestAuthenticate == ASSUME TypeOK, NEW s \in Slots, Authenticate(s), NoRest PROVE NoRest'
  <1> USE DEF memVars, dbVars, updateVars, checkVars, bounds
  <1>1. /\ UNCHANGED <<enabled, upc, patch, wasEnabled, hpc, prev, new, boot>>
        /\ \A x \in Slots \ {s} : apc'[x] = apc[x]
    BY DEF Authenticate, AuthRead, AuthCall, AuthRefused, AuthInstall, AuthStore, TypeOK
  <1>2. CASE AuthRead(s) \/ AuthCall(s)
    <2>1. UNCHANGED <<session, health, overtaken>>
      BY <1>2 DEF AuthRead, AuthCall
    <2>2. Pending'
      BY <1>2 DEF AuthRead, AuthCall, Pending, TypeOK
    <2> QED
      BY <2>2 DEF NoRest, Owed
  <1>3. CASE AuthRefused(s)
    <2>1. health' = "offline" /\ (~overtaken' => hpc \notin {"checking", "answered"})
      BY <1>3 DEF AuthRefused
    <2> QED
      BY <1>1, <2>1 DEF NoRest, Unserved, LooksOnline
  <1>4. CASE AuthInstall(s)
    <2>1. session' \in Versions
      BY <1>4 DEF AuthInstall, TypeOK
    <2> QED
      BY <2>1, UpstreamAssumption DEF NoRest, Unserved
  <1>5. CASE AuthStore(s)
    <2>1. UNCHANGED <<session, health, overtaken>> /\ apc[s] = "installed"
      BY <1>5 DEF AuthStore
    <2>2. Pending => Pending'
      BY <1>1, <2>1 DEF Pending
    <2> QED
      BY <1>1, <2>1, <2>2 DEF NoRest, Unserved, LooksOnline, Owed
  <1> QED
    BY <1>2, <1>3, <1>4, <1>5 DEF Authenticate

\* A check that sets the status to online has either read another one, and
\* then authenticates, or read it online and leaves things as they were.
LEMMA NoRestCheck == ASSUME TypeOK, Check, NoRest PROVE NoRest'
  <1> USE DEF memVars, dbVars, updateVars, authVars, bounds
  <1>1. UNCHANGED <<enabled, session, overtaken, upc, patch, wasEnabled>>
    BY DEF Check, CheckStart, CheckDisabled, CheckWrite, CheckApply, CheckReconnect, CheckSkip,
           CheckStore, vars
  <1>2. apc' = apc => (Pending' <=> Pending)
    BY <1>1 DEF Pending
  <1>3. CASE CheckStart
    BY <1>1, <1>2, <1>3 DEF CheckStart, NoRest, Unserved, LooksOnline, Owed
  <1>4. CASE CheckDisabled
    BY <1>1, <1>2, <1>4 DEF CheckDisabled, vars, checkVars, NoRest, Unserved, LooksOnline, Owed
  <1>5. CASE CheckWrite
    BY <1>1, <1>2, <1>5 DEF CheckWrite, NoRest, Unserved, LooksOnline, Owed
  <1>6. CASE CheckApply
    BY <1>1, <1>2, <1>6 DEF CheckApply, NoRest, Unserved, LooksOnline, Owed
  <1>7. CASE CheckReconnect
    <2>1. Pending'
      BY <1>7, SpawnShape DEF CheckReconnect, Pending, TypeOK
    <2> QED
      BY <2>1 DEF NoRest, Owed
  <1>8. CASE CheckSkip
    BY <1>1, <1>2, <1>8 DEF CheckSkip, NeedsAuth, NoRest, Unserved, LooksOnline, Owed
  <1>9. CASE CheckStore
    <2>1. boot # "up" => boot' # "up"
      BY <1>9 DEF CheckStore
    <2> QED
      BY <1>1, <1>2, <1>9, <2>1 DEF CheckStore, NoRest, Unserved, LooksOnline, Owed
  <1> QED
    BY <1>3, <1>4, <1>5, <1>6, <1>7, <1>8, <1>9 DEF Check

\* Every step keeps the obligation, or fulfils it.
LEMMA NoRestStep == TypeOK /\ NoRest /\ [Next]_vars => NoRest'
  <1> SUFFICES ASSUME TypeOK, NoRest, [Next]_vars PROVE NoRest'
    OBVIOUS
  <1> USE DEF memVars, dbVars, updateVars, authVars, checkVars, bounds
  <1>1. CASE \E w \in Admins : Update(w)
    BY <1>1, NoRestUpdate
  <1>2. CASE \E s \in Slots : Authenticate(s)
    BY <1>2, NoRestAuthenticate
  <1>3. CASE Check
    BY <1>3, NoRestCheck
  <1>4. CASE Crash
    BY <1>4 DEF Crash, NoRest, Owed
  <1>5. CASE Reconnect
    <2>1. Pending'
      BY <1>5, SpawnShape DEF Reconnect, Pending, TypeOK
    <2> QED
      BY <2>1 DEF NoRest, Owed
  <1>6. CASE BootReconnect
    <2>1. CASE enabled /\ session = None
      <3>1. Pending'
        BY <1>6, <2>1, SpawnShape DEF BootReconnect, Pending, TypeOK
      <3> QED
        BY <3>1 DEF NoRest, Owed
    <2>2. CASE ~(enabled /\ session = None)
      BY <1>6, <2>2 DEF BootReconnect, NoRest, Unserved
    <2> QED
      BY <2>1, <2>2
  <1>7. CASE GoDown \/ ComeBack \/ UNCHANGED vars
    BY <1>7 DEF GoDown, ComeBack, vars, NoRest, Unserved, LooksOnline, Owed, Pending
  <1> QED
    BY <1>1, <1>2, <1>3, <1>4, <1>5, <1>6, <1>7 DEF Next

\* An enabled upstream never comes to rest online and without a session,
\* where no check would authenticate it again, unless an authentication that
\* failed overtook a check (manager.go:536-560).
THEOREM NeverComesToRest == Spec => []NeverStuck
  <1>1. NoRest => NeverStuck
    BY DEF NoRest, Unserved, LooksOnline, Owed, Pending, NeverStuck, Quiet, NoAuth
  <1> QED
    BY <1>1, NoRestInit, NoRestStep, TypeCorrect, PTL DEF Spec
=============================================================================

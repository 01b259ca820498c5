---------------------------- MODULE MCServices ----------------------------
(***************************************************************************)
(* The parts of the program that share nothing with each other or with     *)
(* the id map, checked in one run: a behaviour is one of one part.         *)
(***************************************************************************)
EXTENDS TLC, Roster, Meter, EventHub, ConfigStore, AdminAccount, ImageCache,
        LogFiles, StatusLocks

VARIABLE part       \* the part this behaviour is of

vars == <<part, rosterVars, meterVars, hubVars, cfgVars, adminVars, cacheVars, logVars, lockVars>>

Init ==
    /\ part \in {"roster", "meter", "hub", "config", "account", "cache", "log", "locks"}
    /\ RosterInit /\ MeterInit /\ HubInit /\ CfgInit
    /\ AccountInit /\ CacheInit /\ LogInit /\ LocksInit
    /\ part # "account" => configured = NoPassword /\ password = NoPassword

\* The parts that do not move.
Rest ==
    /\ UNCHANGED part
    /\ part # "roster" => UNCHANGED rosterVars
    /\ part # "meter" => UNCHANGED meterVars
    /\ part # "hub" => UNCHANGED hubVars
    /\ part # "config" => UNCHANGED cfgVars
    /\ part # "account" => UNCHANGED adminVars
    /\ part # "cache" => UNCHANGED cacheVars
    /\ part # "log" => UNCHANGED logVars
    /\ part # "locks" => UNCHANGED lockVars

Next ==
    \/ part = "roster" /\ RosterNext /\ Rest
    \/ part = "meter" /\ MeterNext /\ Rest
    \/ part = "hub" /\ HubNext /\ Rest
    \/ part = "config" /\ CfgNext /\ Rest
    \/ part = "account" /\ AccountNext /\ Rest
    \/ part = "cache" /\ CacheNext /\ Rest
    \/ part = "log" /\ LogNext /\ Rest
    \/ part = "locks" /\ LocksNext /\ Rest

\* A Broadcast that has begun goes on: its sends never wait.
ServicesSpec ==
    Init /\ [][Next]_vars /\ WF_vars(part = "hub" /\ HubOffer /\ Rest)
=============================================================================

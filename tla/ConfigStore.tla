---------------------------- MODULE ConfigStore ----------------------------
(***************************************************************************)
(* The configuration and its file: PUT settings changes it in memory and   *)
(* saves it through a temporary file (internal/admin/api.go,               *)
(* internal/config/config.go).  Saves are not serialised, and all use one  *)
(* temporary name; the process may end between any two steps.  A file is   *)
(* an inode with a content: what the settings page set, nothing, or the    *)
(* mixture two saves leave that write into one inode.                      *)
(***************************************************************************)
EXTENDS Naturals, FiniteSets

CONSTANTS
    Savers,         \* PUT settings requests
    Settings,       \* what they can set
    DefaultConfig,  \* what Load starts from
    MaxSaves,       \* bound: requests in a behaviour
    NoFile

ASSUME ConfigAssumption ==
    /\ MaxSaves \in Nat /\ NoFile \notin Nat
    /\ {"empty", "mixed"} \cap (Settings \cup {DefaultConfig}) = {}

VARIABLES
    memory,     \* the Config
    saver,      \* the step each request is at
    wanted,     \* the setting it makes
    snapshot,   \* what it marshalled
    handle,     \* the inode it has open
    content,    \* the inodes
    tmpFile,    \* the inode path.tmp names
    cfgFile,    \* the inode path names
    \* history
    saves,      \* requests begun
    overlap,    \* two saves have run at a time, or one failed halfway
    answered    \* setting of the last request that was answered

cfgVars == <<memory, saver, wanted, snapshot, handle, content, tmpFile,
             cfgFile, saves, overlap, answered>>

Inodes == 0 .. MaxSaves
Whole == Settings \cup {DefaultConfig}
FreeInodes == {n \in Inodes : n # cfgFile /\ n # tmpFile /\ \A w \in Savers : handle[w] # n}
Saving == {w \in Savers : saver[w] # "idle"}

CfgInit ==
    /\ memory = DefaultConfig /\ answered = DefaultConfig
    /\ saver = [w \in Savers |-> "idle"]
    /\ wanted = [w \in Savers |-> DefaultConfig]
    /\ snapshot = [w \in Savers |-> DefaultConfig]
    /\ handle = [w \in Savers |-> NoFile]
    /\ content = [n \in Inodes |-> IF n = 0 THEN DefaultConfig ELSE "empty"]
    /\ cfgFile = 0 /\ tmpFile = NoFile
    /\ saves = 0 /\ overlap = FALSE

\* UpdateFunc: the change and validateLocked under c.mu.Lock.
UpdateConfig(w, v) ==
    /\ saver[w] = "idle" /\ saves < MaxSaves
    /\ saver' = [saver EXCEPT ![w] = "marshal"]
    /\ wanted' = [wanted EXCEPT ![w] = v]
    /\ memory' = v /\ saves' = saves + 1
    /\ overlap' = (overlap \/ Saving # {})
    /\ UNCHANGED <<snapshot, handle, content, tmpFile, cfgFile, answered>>

\* Save: the snapshot under c.mu.RLock.
Marshal(w) ==
    /\ saver[w] = "marshal"
    /\ saver' = [saver EXCEPT ![w] = "open"]
    /\ snapshot' = [snapshot EXCEPT ![w] = memory]
    /\ UNCHANGED <<memory, wanted, handle, content, tmpFile, cfgFile, saves, overlap, answered>>

\* A bug to catch: the file itself is written, without a temporary one.
OpenTmpInPlace(w) ==
    /\ saver[w] = "open"
    /\ tmpFile' = cfgFile /\ content' = [content EXCEPT ![cfgFile] = "empty"]
    /\ handle' = [handle EXCEPT ![w] = cfgFile]
    /\ saver' = [saver EXCEPT ![w] = "write"]
    /\ UNCHANGED <<memory, wanted, snapshot, cfgFile, saves, overlap, answered>>

\* os.WriteFile, first half: O_CREATE|O_TRUNC on the common name.
OpenTmp(w) ==
    /\ saver[w] = "open"
    /\ tmpFile # NoFile \/ FreeInodes # {}
    /\ tmpFile' = IF tmpFile # NoFile THEN tmpFile ELSE CHOOSE n \in FreeInodes : TRUE
    /\ handle' = [handle EXCEPT ![w] = tmpFile']
    /\ content' = [content EXCEPT ![tmpFile'] = "empty"]
    /\ saver' = [saver EXCEPT ![w] = "write"]
    /\ UNCHANGED <<memory, wanted, snapshot, cfgFile, saves, overlap, answered>>

\* Second half; with another writer's text in the inode the longer one shows
\* behind the shorter.
WriteTmp(w) ==
    /\ saver[w] = "write"
    /\ \E text \in {snapshot[w]} \cup
                   (IF content[handle[w]] \in {"empty", snapshot[w]} THEN {} ELSE {"mixed"}) :
         content' = [content EXCEPT ![handle[w]] = text]
    /\ handle' = [handle EXCEPT ![w] = NoFile]
    /\ saver' = [saver EXCEPT ![w] = "rename"]
    /\ UNCHANGED <<memory, wanted, snapshot, tmpFile, cfgFile, saves, overlap, answered>>

\* A bug to catch: the answer is sent and the file forgotten.
RenameForgotten(w) ==
    /\ saver[w] = "rename"
    /\ tmpFile' = NoFile /\ UNCHANGED cfgFile
    /\ saver' = [saver EXCEPT ![w] = "idle"]
    /\ answered' = wanted[w]
    /\ UNCHANGED <<memory, wanted, snapshot, handle, content, saves, overlap>>

\* os.Rename; the other save may have taken the file away.
RenameTmp(w) ==
    /\ saver[w] = "rename"
    /\ IF tmpFile = NoFile THEN UNCHANGED <<tmpFile, cfgFile>>
       ELSE cfgFile' = tmpFile /\ tmpFile' = NoFile
    /\ saver' = [saver EXCEPT ![w] = "idle"]
    /\ answered' = wanted[w]
    /\ UNCHANGED <<memory, wanted, snapshot, handle, content, saves, overlap>>

\* No space, no permission: the error is logged and the answer is "ok".
SaveFails(w) ==
    /\ saver[w] \in {"open", "write", "rename"}
    /\ saver' = [saver EXCEPT ![w] = "idle"]
    /\ handle' = [handle EXCEPT ![w] = NoFile]
    /\ overlap' = TRUE /\ answered' = wanted[w]
    /\ UNCHANGED <<memory, wanted, snapshot, content, tmpFile, cfgFile, saves>>

\* The process ends; the next one loads the file.  An empty file leaves the
\* defaults; one that does not parse ends the process again.
CfgRestart ==
    /\ content[cfgFile] # "mixed"
    /\ memory' = IF content[cfgFile] = "empty" THEN DefaultConfig ELSE content[cfgFile]
    /\ saver' = [w \in Savers |-> "idle"] /\ handle' = [w \in Savers |-> NoFile]
    /\ answered' = memory'
    /\ UNCHANGED <<wanted, snapshot, content, tmpFile, cfgFile, saves, overlap>>

CfgNext ==
    \/ \E w \in Savers :
         \/ \E v \in Settings : UpdateConfig(w, v)
         \/ Marshal(w) \/ OpenTmp(w) \/ WriteTmp(w) \/ RenameTmp(w) \/ SaveFails(w)
    \/ CfgRestart

CfgSpec == CfgInit /\ [][CfgNext]_cfgVars

\* At every moment the process may end, the file is a configuration somebody
\* set, unless two saves were in progress at a time or one failed.
FileIsWhole == overlap \/ content[cfgFile] \in Whole

\* When no save is in progress the file holds the setting answered last and
\* the one in memory; with the same exceptions.
AnsweredIsSaved ==
    overlap \/ Saving # {} \/ (content[cfgFile] = answered /\ memory = answered)
=============================================================================

------------------------ MODULE ConfigStore_proofs ------------------------
(***************************************************************************)
(* Proofs about ConfigStore, for any number of saves and settings: as long *)
(* as saves do not overlap or fail, the file is whole at every moment the  *)
(* process may end, and holds what was answered when none is in progress.  *)
(***************************************************************************)
EXTENDS ConfigStore, TLAPS

CfgTypeOK ==
    /\ memory \in Whole /\ answered \in Whole
    /\ saver \in [Savers -> {"idle", "marshal", "open", "write", "rename"}]
    /\ wanted \in [Savers -> Whole] /\ snapshot \in [Savers -> Whole]
    /\ handle \in [Savers -> Inodes \cup {NoFile}]
    /\ content \in [Inodes -> Whole \cup {"empty", "mixed"}]
    /\ tmpFile \in Inodes \cup {NoFile} /\ cfgFile \in Inodes

\* How far a save that is alone has come: memory is what it set, the
\* temporary file is its own, and is empty or what it set.
Progress(w) ==
    /\ memory = wanted[w]
    /\ saver[w] \in {"open", "write", "rename"} => snapshot[w] = wanted[w]
    /\ saver[w] = "write" =>
         handle[w] = tmpFile /\ tmpFile # NoFile /\ content[tmpFile] = "empty"
    /\ saver[w] = "rename" => tmpFile # NoFile /\ content[tmpFile] = wanted[w]

\* Nobody else is saving.
OneSaver == \A w, x \in Savers : saver[w] # "idle" /\ saver[x] # "idle" => w = x

Alone ==
    /\ cfgFile # tmpFile /\ content[cfgFile] \in Whole
    /\ OneSaver
    /\ \A w \in Savers : saver[w] # "idle" => Progress(w)
    /\ (\A w \in Savers : saver[w] = "idle") => content[cfgFile] = answered /\ memory = answered

CfgInv == CfgTypeOK /\ (overlap \/ Alone)

\* The program starts with a file that holds the defaults.
LEMMA CfgInvInit == CfgInit => CfgInv
<1> SUFFICES ASSUME CfgInit PROVE CfgInv
    OBVIOUS
<1>1. 0 \in Inodes /\ NoFile \notin Inodes
    BY ConfigAssumption DEF Inodes
<1>2. CfgTypeOK
    BY <1>1 DEF CfgInit, CfgTypeOK, Whole
<1>3. Alone
    BY <1>1 DEF CfgInit, Alone, OneSaver, Whole
<1>4. QED
    BY <1>2, <1>3 DEF CfgInv

\* Every step keeps the types.
LEMMA CfgTypes == CfgTypeOK /\ [CfgNext]_cfgVars => CfgTypeOK'
<1> SUFFICES ASSUME CfgTypeOK, [CfgNext]_cfgVars PROVE CfgTypeOK'
    OBVIOUS
<1> USE DEF CfgTypeOK
<1>1. ASSUME NEW w \in Savers, NEW v \in Settings, UpdateConfig(w, v) PROVE CfgTypeOK'
    BY <1>1 DEF UpdateConfig, Whole
<1>2. ASSUME NEW w \in Savers, Marshal(w) PROVE CfgTypeOK'
    BY <1>2 DEF Marshal
<1>3. ASSUME NEW w \in Savers, OpenTmp(w) PROVE CfgTypeOK'
  <2>1. tmpFile' \in Inodes
    BY <1>3 DEF OpenTmp, FreeInodes
  <2>2. QED
    BY <1>3, <2>1 DEF OpenTmp
<1>4. ASSUME NEW w \in Savers, WriteTmp(w) PROVE CfgTypeOK'
    BY <1>4, ZenonT(60) DEF WriteTmp
<1>5. ASSUME NEW w \in Savers, RenameTmp(w) PROVE CfgTypeOK'
    BY <1>5 DEF RenameTmp
<1>6. ASSUME NEW w \in Savers, SaveFails(w) PROVE CfgTypeOK'
    BY <1>6 DEF SaveFails
<1>7. CASE CfgRestart
    BY <1>7 DEF CfgRestart, Whole
<1>8. CASE UNCHANGED cfgVars
    BY <1>8 DEF cfgVars
<1>9. QED
    BY <1>1, <1>2, <1>3, <1>4, <1>5, <1>6, <1>7, <1>8 DEF CfgNext

\* A save that is alone when a step begins, and not overlapped by it, is
\* alone after it.
LEMMA AloneStays ==
    CfgTypeOK /\ Alone /\ ~overlap /\ ~overlap' /\ [CfgNext]_cfgVars => Alone'
<1> SUFFICES ASSUME CfgTypeOK, Alone, ~overlap, ~overlap', [CfgNext]_cfgVars PROVE Alone'
    OBVIOUS
<1>0. CfgTypeOK' /\ NoFile \notin Inodes /\ "empty" \notin Whole
    BY CfgTypes, ConfigAssumption DEF Inodes, Whole
<1> USE DEF CfgTypeOK
<1>1. ASSUME NEW w \in Savers, NEW v \in Settings, UpdateConfig(w, v) PROVE Alone'
  <2>1. Saving = {}
    BY <1>1, Zenon DEF UpdateConfig
  <2>2. \A x \in Savers : saver[x] = "idle"
    BY <2>1 DEF Saving
  <2>3. saver' = [saver EXCEPT ![w] = "marshal"] /\ wanted' = [wanted EXCEPT ![w] = v]
        /\ memory' = v /\ UNCHANGED <<content, tmpFile, cfgFile>>
    BY <1>1 DEF UpdateConfig
  <2>4. OneSaver' /\ Progress(w)'
    BY <2>2, <2>3 DEF OneSaver, Progress
  <2>5. QED
    BY <2>2, <2>3, <2>4 DEF Alone
<1>2. ASSUME NEW w \in Savers, Marshal(w) PROVE Alone'
    BY <1>2 DEF Marshal, Alone, OneSaver, Progress
<1>3. ASSUME NEW w \in Savers, OpenTmp(w) PROVE Alone'
  <2>1. tmpFile' \in Inodes /\ tmpFile' # cfgFile
    BY <1>3 DEF OpenTmp, FreeInodes, Alone
  <2>2. saver' = [saver EXCEPT ![w] = "write"] /\ handle' = [handle EXCEPT ![w] = tmpFile']
        /\ content' = [content EXCEPT ![tmpFile'] = "empty"]
        /\ UNCHANGED <<memory, wanted, snapshot, cfgFile>>
    BY <1>3 DEF OpenTmp
  <2>3. Progress(w) /\ saver[w] = "open" /\ \A x \in Savers : x # w => saver[x] = "idle"
    BY <1>3 DEF OpenTmp, Alone, OneSaver
  <2>4. OneSaver' /\ Progress(w)'
    BY <1>0, <2>1, <2>2, <2>3 DEF OneSaver, Progress
  <2>5. content'[cfgFile] = content[cfgFile]
    BY <2>1, <2>2
  <2>6. QED
    BY <2>1, <2>2, <2>3, <2>4, <2>5 DEF Alone
<1>4. ASSUME NEW w \in Savers, WriteTmp(w) PROVE Alone'
  <2>1. Progress(w) /\ \A x \in Savers : x # w => saver[x] = "idle"
    BY <1>4 DEF WriteTmp, Alone, OneSaver
  <2>2. content' = [content EXCEPT ![tmpFile] = wanted[w]]
    BY <1>4, <2>1 DEF WriteTmp, Progress
  <2>3. tmpFile \in Inodes /\ tmpFile # cfgFile
    BY <1>4, <2>1 DEF WriteTmp, Progress, Alone
  <2>4. QED
    BY <1>4, <2>1, <2>2, <2>3 DEF WriteTmp, Alone, OneSaver, Progress
<1>5. ASSUME NEW w \in Savers, RenameTmp(w) PROVE Alone'
  <2>1. Progress(w) /\ \A x \in Savers : x # w => saver[x] = "idle"
    BY <1>5 DEF RenameTmp, Alone, OneSaver
  <2>2. cfgFile' = tmpFile /\ tmpFile' = NoFile /\ content[tmpFile] = wanted[w]
    BY <1>5, <2>1 DEF RenameTmp, Progress
  <2>3. \A x \in Savers : saver'[x] = "idle"
    BY <1>5, <2>1 DEF RenameTmp
  <2>4. QED
    BY <1>0, <1>5, <2>1, <2>2, <2>3 DEF RenameTmp, Alone, OneSaver, Progress
<1>6. ASSUME NEW w \in Savers, SaveFails(w) PROVE Alone'
    BY <1>6, Zenon DEF SaveFails
<1>7. CASE CfgRestart
  <2>1. memory' = content[cfgFile] /\ answered' = memory'
    BY <1>0, <1>7 DEF CfgRestart, Alone
  <2>2. \A x \in Savers : saver'[x] = "idle"
    BY <1>7 DEF CfgRestart
  <2>3. QED
    BY <1>7, <2>1, <2>2 DEF CfgRestart, Alone, OneSaver
<1>8. CASE UNCHANGED cfgVars
    BY <1>8 DEF cfgVars, Alone, OneSaver, Progress
<1>9. QED
    BY <1>1, <1>2, <1>3, <1>4, <1>5, <1>6, <1>7, <1>8 DEF CfgNext

\* A history variable: what overlapped has overlapped.
LEMMA OverlapStays == overlap /\ [CfgNext]_cfgVars => overlap'
BY Zenon DEF CfgNext, UpdateConfig, Marshal, OpenTmp, WriteTmp, RenameTmp, SaveFails,
   CfgRestart, cfgVars

\* The invariant holds in every state of every behaviour.
LEMMA CfgInvHolds == CfgSpec => []CfgInv
<1>1. CfgInv /\ [CfgNext]_cfgVars => CfgInv'
    BY CfgTypes, AloneStays, OverlapStays, Zenon DEF CfgInv
<1>2. QED
    BY CfgInvInit, <1>1, PTL DEF CfgSpec

\* At every moment the process may end, the file is a configuration somebody
\* set, unless saves overlapped or one failed (Save, UpdateFunc).
THEOREM ConfigFileIsWhole == CfgSpec => []FileIsWhole
<1>1. CfgInv => FileIsWhole
    BY Zenon DEF CfgInv, Alone, FileIsWhole
<1>2. QED
    BY <1>1, CfgInvHolds, PTL

\* When no save is in progress the file and the memory hold the setting
\* answered last, with the same exceptions.
THEOREM AnsweredSettingIsSaved == CfgSpec => []AnsweredIsSaved
<1>1. Saving = {} => \A w \in Savers : saver[w] = "idle"
    BY DEF Saving
<1>2. CfgInv => AnsweredIsSaved
    BY <1>1, Zenon DEF CfgInv, Alone, AnsweredIsSaved
<1>3. QED
    BY <1>2, CfgInvHolds, PTL
=============================================================================

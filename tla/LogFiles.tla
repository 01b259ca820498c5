----------------------------- MODULE LogFiles -----------------------------
(***************************************************************************)
(* The logger (internal/logger/logger.go): every entry goes to a bounded   *)
(* buffer and to a file that is renamed to .1 when it is full; the admin   *)
(* page reads and clears both.  Entries are numbered as they are logged.   *)
(* The write that fills a file and the calls that rotate it are steps of   *)
(* their own: the program may end between any two of them, and each may    *)
(* fail, which can leave the logger with a file it closed; writes to that  *)
(* fail silently.  An entry is written whole or not at all, and one whose  *)
(* write the end of the program prevents counts as not logged.             *)
(***************************************************************************)
EXTENDS Naturals, Sequences, SequencesExt

CONSTANTS
    MaxBuf,     \* entries of the buffer: 2000
    MaxLog,     \* entries of a file that is rotated: 5 MB
    MaxEntries  \* bound: entries logged in a behaviour

ASSUME LogAssumption == MaxBuf \in Nat /\ MaxLog \in Nat \ {0} /\ MaxEntries \in Nat

VARIABLES
    entries,    \* how many have been logged
    buf,        \* l.buf
    file,       \* l.file: "open", "closed" or nil
    main,       \* the file
    old,        \* the file .1
    phase,      \* "idle": l.mu is free; or the next of rotateIfNeeded's calls
    \* history
    started,    \* entries logged before the last start
    cleared,    \* and before the last Clear
    failed,     \* a file operation has failed
    cut         \* starts after a program that ended in the middle of a rotation

logVars == <<entries, buf, file, main, old, phase, started, cleared, failed, cut>>

LogInit ==
    /\ entries = 0 /\ buf = <<>> /\ file = "open" /\ main = <<>> /\ old = <<>>
    /\ phase = "idle" /\ started = 0 /\ cleared = 0 /\ failed = FALSE /\ cut = 0

\* A bug to catch: the buffer is cut at the wrong end.
KeepFirst(s, n) == SubSeq(s, 1, IF Len(s) < n THEN Len(s) ELSE n)

KeepLast(s, n) == SubSeq(s, IF Len(s) > n THEN Len(s) - n + 1 ELSE 1, Len(s))

\* log, under l.mu: the buffer, then the file and its size.
LogEntry ==
    /\ phase = "idle" /\ entries < MaxEntries
    /\ entries' = entries + 1
    /\ buf' = KeepLast(Append(buf, entries + 1), MaxBuf)
    /\ IF file = "open"
       THEN /\ \/ main' = Append(main, entries + 1) /\ UNCHANGED failed
               \/ main' = main /\ failed' = TRUE      \* the write fails
            /\ phase' = IF Len(main') < MaxLog THEN "idle" ELSE "full"
       ELSE UNCHANGED <<main, failed, phase>>
    /\ UNCHANGED <<file, old, started, cleared, cut>>

\* The size cannot be read: the file stays as it is.
RotateRefused ==
    /\ phase = "full" /\ phase' = "idle" /\ failed' = TRUE
    /\ UNCHANGED <<entries, buf, file, main, old, started, cleared, cut>>

\* Close and Remove.
RotateRemove ==
    /\ phase = "full" /\ phase' = "rename"
    /\ file' = "closed"
    /\ \/ old' = <<>> /\ UNCHANGED failed
       \/ old' = old /\ failed' = TRUE
    /\ UNCHANGED <<entries, buf, main, started, cleared, cut>>

\* A bug to catch: the full file is removed, not renamed.
RotateRenameLoses ==
    /\ phase = "rename" /\ phase' = "create"
    /\ main' = <<>>
    /\ UNCHANGED <<entries, buf, file, old, started, cleared, failed, cut>>

RotateRename ==
    /\ phase = "rename" /\ phase' = "create"
    /\ \/ old' = main /\ main' = <<>> /\ UNCHANGED failed
       \/ UNCHANGED <<old, main>> /\ failed' = TRUE
    /\ UNCHANGED <<entries, buf, file, started, cleared, cut>>

\* Create also empties a file that was not renamed.
RotateCreate ==
    /\ phase = "create" /\ phase' = "idle"
    /\ \/ main' = <<>> /\ file' = "open" /\ UNCHANGED failed
       \/ UNCHANGED <<main, file>> /\ failed' = TRUE
    /\ UNCHANGED <<entries, buf, old, started, cleared, cut>>

\* Clear empties the buffer and the file, not .1; it reopens a file a failed
\* rotation left closed.
ClearLog ==
    /\ phase = "idle"
    /\ buf' = <<>> /\ cleared' = entries
    /\ \/ file # "nil" /\ main' = <<>> /\ file' = "open" /\ UNCHANGED failed
       \/ file # "nil" /\ file' = "closed" /\ failed' = TRUE /\ UNCHANGED main
       \/ file = "nil" /\ UNCHANGED <<file, main, failed>>
    /\ UNCHANGED <<entries, old, phase, started, cut>>

\* The program ends, at any step, and starts again: New opens the file to
\* append to it, whatever its size.
LogRestart ==
    /\ buf' = <<>> /\ started' = entries
    /\ \/ file' = "open" /\ UNCHANGED failed
       \/ file' = "nil" /\ failed' = TRUE
    /\ phase' = "idle" /\ cut' = IF phase = "idle" THEN cut ELSE cut + 1
    /\ UNCHANGED <<entries, main, old, cleared>>

LogNext ==
    \/ LogEntry \/ RotateRefused \/ RotateRemove \/ RotateRename \/ RotateCreate
    \/ ClearLog \/ LogRestart

LogSpec == LogInit /\ [][LogNext]_logVars

LogNumbers(a, b) == [i \in 1 .. (IF a <= b THEN b - a + 1 ELSE 0) |-> a + i - 1]
Later(m, n) == IF m > n THEN m ELSE n

\* The admin page shows the newest entries since it was cleared or the
\* program started, in order and without a gap (Recent).
RecentIsNewest ==
    LET n == IF entries > MaxBuf THEN entries - MaxBuf ELSE 0
    IN  buf = LogNumbers(Later(n, Later(cleared, started)) + 1, entries)

\* As long as no file operation failed, at every step and wherever the program
\* ended: the newest entries are on disk, in order and without a gap, and they
\* are all there have been since the log was cleared or a full file of them;
\* whatever else .1 holds is from before.  The file stays below the limit, but
\* for the entry that is being rotated out and one for each time the program
\* ended in the middle of a rotation.
NewestAreOnDisk ==
    failed \/ /\ Len(main) < MaxLog + cut + (IF phase = "idle" THEN 0 ELSE 1)
              /\ LET text == old \o main
                 IN  \E n \in 0 .. Len(text) :
                       /\ n <= entries - cleared
                       /\ n = entries - cleared \/ n >= MaxLog
                       /\ \A i \in 1 .. Len(text) - n : text[i] <= cleared
                       /\ SubSeq(text, Len(text) - n + 1, Len(text))
                            = LogNumbers(entries - n + 1, entries)
=============================================================================

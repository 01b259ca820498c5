------------------------------- MODULE Meter -------------------------------
(***************************************************************************)
(* The traffic meter for one upstream (internal/traffic/meter.go): streams *)
(* add what they sent, a timer moves the counter to the database, the      *)
(* admin page reads the total, and the program ends, by Shutdown (with a   *)
(* last flush nobody waits for) or not.  The counter in the map is one     *)
(* number: once made it is never replaced while the program runs.          *)
(***************************************************************************)
EXTENDS Naturals

CONSTANTS
    MeterStreams,   \* goroutines that call Add
    MaxAdded        \* bound: chunks added in a behaviour

VARIABLES
    counting,   \* the counter is in the map
    val,        \* its value
    adder,      \* where each call of Add is
    flushing,   \* amount flush took from the counter and has not stored: it
                \* holds m.mu.RLock meanwhile
    stopping,   \* stopCh is closed
    stored,     \* SUM(bytes_out) of the table
    reading,    \* where TotalStats is
    sum,        \* what it has so far
    \* history
    added,      \* all that was sent
    lost,       \* what was sent and can never be stored
    moved,      \* what flushes took since TotalStats read the table
    base        \* what was sent when it did

meterVars == <<counting, val, adder, flushing, stopping, stored,
               reading, sum, added, lost, moved, base>>
meterCount == <<counting, val, adder, added>>
meterFlush == <<flushing, stored, lost, moved, stopping>>
meterRead == <<reading, sum, base>>

MeterInit ==
    /\ counting = FALSE /\ val = 0 /\ adder = [a \in MeterStreams |-> "idle"]
    /\ flushing = 0 /\ stopping = FALSE /\ stored = 0
    /\ reading = "idle" /\ sum = 0
    /\ added = 0 /\ lost = 0 /\ moved = 0 /\ base = 0

FindCounter(a) ==
    /\ adder[a] = "idle" /\ added < MaxAdded
    /\ adder' = [adder EXCEPT ![a] = IF counting THEN "add" ELSE "make"]
    /\ UNCHANGED <<counting, val, added, meterFlush, meterRead>>

\* A bug to catch: the map is not looked at again under the write lock.
MakeCounterBlind(a) ==
    /\ adder[a] = "make" /\ flushing = 0
    /\ counting' = TRUE /\ val' = 0
    /\ adder' = [adder EXCEPT ![a] = "add"]
    /\ UNCHANGED <<added, meterFlush, meterRead>>

\* Under m.mu.Lock, which waits for flush.
MakeCounter(a) ==
    /\ adder[a] = "make" /\ flushing = 0
    /\ counting' = TRUE
    /\ adder' = [adder EXCEPT ![a] = "add"]
    /\ UNCHANGED <<val, added, meterFlush, meterRead>>

AddBytes(a) ==
    /\ adder[a] = "add" /\ added < MaxAdded
    /\ val' = val + 1 /\ added' = added + 1
    /\ adder' = [adder EXCEPT ![a] = "idle"]
    /\ UNCHANGED <<counting, meterFlush, meterRead>>

\* flush: by the timer, or for the last time when stopCh is closed.
FlushSwap ==
    /\ flushing = 0 /\ val > 0
    /\ flushing' = val /\ val' = 0
    /\ moved' = IF reading = "counters" THEN moved + val ELSE moved
    /\ UNCHANGED <<counting, adder, added, stored, lost, stopping, meterRead>>

\* The INSERT, whose error is ignored.
FlushStore ==
    /\ flushing > 0
    /\ \/ stored' = stored + flushing /\ UNCHANGED lost
       \/ lost' = lost + flushing /\ UNCHANGED stored
    /\ flushing' = 0
    /\ UNCHANGED <<meterCount, moved, stopping, meterRead>>

\* A bug to catch: TotalStats reads the counters first.
TotalsPartSwapped(n) == IF n = 1 THEN val ELSE stored

\* TotalStats: first the table, then the counters.
TotalsPart(n) == IF n = 1 THEN stored ELSE val

ReadTable ==
    /\ reading = "idle"
    /\ reading' = "counters" /\ sum' = TotalsPart(1) /\ base' = added
    /\ moved' = flushing
    /\ UNCHANGED <<meterCount, flushing, stored, lost, stopping>>

ReadCounters ==
    /\ reading = "counters"
    /\ reading' = "answered" /\ sum' = sum + TotalsPart(2)
    /\ UNCHANGED <<meterCount, meterFlush, base>>

ReadAnswered ==
    /\ reading = "answered"
    /\ reading' = "idle" /\ sum' = 0 /\ base' = 0
    /\ UNCHANGED <<meterCount, meterFlush>>

\* Shutdown calls Stop and does not wait.
StopMeter ==
    /\ ~stopping
    /\ stopping' = TRUE
    /\ UNCHANGED <<meterCount, flushing, stored, lost, moved, meterRead>>

\* main returns, or the process is killed; the next start finds the table.
EndProcess ==
    /\ lost' = lost + val + flushing
    /\ counting' = FALSE /\ val' = 0 /\ flushing' = 0
    /\ adder' = [a \in MeterStreams |-> "idle"]
    /\ stopping' = FALSE /\ reading' = "idle" /\ sum' = 0 /\ base' = 0 /\ moved' = 0
    /\ UNCHANGED <<stored, added>>

MeterNext ==
    \/ \E a \in MeterStreams : FindCounter(a) \/ MakeCounter(a) \/ AddBytes(a)
    \/ FlushSwap \/ FlushStore
    \/ ReadTable \/ ReadCounters \/ ReadAnswered
    \/ StopMeter \/ EndProcess

MeterSpec == MeterInit /\ [][MeterNext]_meterVars

\* Every byte sent is stored once, or still counted, or on its way to the
\* table, or was lost by a failed INSERT or the end of the process: creating
\* the counter, adding, flushing and reading lose and double nothing.
MeterConserves == added = stored + val + flushing + lost

\* The total on the admin page never exceeds what was sent, and falls short
\* of what had been sent when it was asked for by no more than what flushes
\* took meanwhile and what was lost.
TotalsBounded ==
    reading = "answered" => sum <= added /\ base <= sum + moved + lost
=============================================================================

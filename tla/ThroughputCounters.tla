------------------------- MODULE ThroughputCounters -------------------------
(***************************************************************************)
(* What the throughput ring promises (spec.md 4.3): for every thread and   *)
(* direction, one counter per 500 ms window of a monotonic clock, which    *)
(* only grows by the bytes logged in the current window and saturates at  *)
(* the largest value of its width; destroying the logging forgets them.   *)
(***************************************************************************)
EXTENDS Naturals

CONSTANTS
    Threads,      \* thread ids
    Dirs,         \* "sent" and "recv"
    Bytes,        \* byte counts a call may log
    UMax,         \* UINT32_MAX at the model's width
    TimestepMs,   \* the window length
    TickMs,       \* the clock's resolution in the model
    MaxMs         \* the last clock value

VARIABLES counts, now

Windows == 0..(MaxMs \div TimestepMs)

NoCounts == [td \in Threads \X Dirs |-> [i \in Windows |-> 0]]

Init == counts = NoCounts /\ now = 0

\* A counter of the current window grows, saturating.
Add(t, d, b) ==
    LET i == now \div TimestepMs
    IN /\ counts' = [counts EXCEPT ![<<t, d>>][i] =
                        IF @ + b > UMax THEN UMax ELSE @ + b]
       /\ UNCHANGED now

Tick == now + TickMs <= MaxMs /\ now' = now + TickMs /\ UNCHANGED counts

\* destroy_throughput_logging forgets a thread's counters.
Clear(t) ==
    /\ counts' = [td \in DOMAIN counts |->
                    IF td[1] = t THEN [i \in Windows |-> 0] ELSE counts[td]]
    /\ UNCHANGED now

Next == (\E t \in Threads, d \in Dirs, b \in Bytes : Add(t, d, b))
        \/ Tick \/ \E t \in Threads : Clear(t)

Spec == Init /\ [][Next]_<<counts, now>>
=============================================================================

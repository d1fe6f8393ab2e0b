--------------------------- MODULE ThroughputRing ---------------------------
(***************************************************************************)
(* The per-thread throughput rings of                                       *)
(* src/tor/src/core/mainloop/throughput_logging.c.                         *)
(*                                                                         *)
(* The main thread initialises the logging before the worker threads       *)
(* start, writes the log, and destroys the logging.  Each worker binds     *)
(* itself to its slot under throughput_logging_lock and holds the slot's   *)
(* mutex for its whole life; log_sent_bytes and log_recv_bytes add to the  *)
(* counter of the current 500 ms window of its own lists, growing them    *)
(* when the window lies past the end.  write_throughput_log takes the      *)
(* global lock and then every slot mutex, so it waits for the workers to   *)
(* exit.  Counters are uint32 in the code; here they have Width bits.      *)
(* The clock is monotime_coarse in ms since the start, advanced by TickMs. *)
(***************************************************************************)
EXTENDS Integers, Sequences

CONSTANTS
    NThreads,     \* relay_bytes_lists_len, the num_threads of the init
    Bytes,        \* positive byte counts a call may log
    Width,        \* the counters' width (32 in the code)
    TimestepMs,   \* timestep_ms
    HeadroomMs,   \* the 60000 ms of extra room a growth adds
    TickMs,       \* the clock's resolution in the model
    MaxMs,        \* the last clock value
    MaxLogs,      \* calls a thread makes before it exits
    WallBehind,   \* the wall clock may read earlier than the monotonic one
    Main, NoOne

Threads == 0..(NThreads - 1)
Dirs == {"sent", "recv"}
UMax == 2^Width - 1

VARIABLES
    enabled,     \* throughput_logging_enabled
    glock,       \* holder of throughput_logging_lock
    slot,        \* slot[i]: holder of bytes_list_mutexes[i]
    lists,       \* lists[i][d]: sent_lists[i] or recv_lists[i]
    now,         \* ms since throughput_logging_coarse_start_time
    tpc,         \* a worker's phase
    logs,        \* calls a worker has made
    mpc,         \* the main thread's phase
    wi,          \* the index of the main thread's loop over the slots
    fileRows     \* rows the log file holds, -1 before a file is written

vars == <<enabled, glock, slot, lists, now, tpc, logs, mpc, wi, fileRows>>

Empty == [i \in Threads |-> [d \in Dirs |-> <<>>]]

\* additional_elements: ceil(60000 / timestep_ms) windows.
AdditionalElements == (HeadroomMs - 1) \div TimestepMs + 1

LogThroughputNoWidth(list, bytes, t) ==
    LET idx == t \div TimestepMs
        grown == IF idx >= Len(list)
                 THEN list \o [k \in 1..(idx + 1 + AdditionalElements - Len(list)) |-> 0]
                 ELSE list
    IN [grown EXCEPT ![idx + 1] = @ + bytes]

LogThroughputWrap(list, bytes, t) ==
    LET idx == t \div TimestepMs
        grown == IF idx >= Len(list)
                 THEN list \o [k \in 1..(idx + 1 + AdditionalElements - Len(list)) |-> 0]
                 ELSE list
    IN [grown EXCEPT ![idx + 1] = (@ + bytes) % (UMax + 1)]

(* log_throughput: the window's index; past the end, smartlist_grow to    *)
(* idx + 1 + additional_elements zeroed entries; then the uint32 sum,     *)
(* saturated when it wrapped.                                              *)
LogThroughput(list, bytes, t) ==
    LET idx == t \div TimestepMs
        grown == IF idx >= Len(list)
                 THEN list \o [k \in 1..(idx + 1 + AdditionalElements - Len(list)) |-> 0]
                 ELSE list
        old == grown[idx + 1]
        new == (old + bytes) % (UMax + 1)
    IN [grown EXCEPT ![idx + 1] = IF new < old THEN UMax ELSE new]

HadDataNoClock(ti, cur) ==
    \E i \in Threads, d \in Dirs :
       ti < Len(lists[i][d]) /\ lists[i][d][ti + 1] # 0

(* The condition of a row of write_throughput_log: some list reaches the  *)
(* row, and the row's wall time is not after the current time or its      *)
(* counter is not 0.                                                      *)
HadData(ti, cur) ==
    \E i \in Threads, d \in Dirs :
       /\ ti < Len(lists[i][d])
       /\ ti * TimestepMs <= cur \/ lists[i][d][ti + 1] # 0

(* The row loop of write_throughput_log: the number of rows it writes,    *)
(* starting at time_index ti.                                             *)
RECURSIVE Rows(_, _)
Rows(ti, cur) == IF HadData(ti, cur) THEN Rows(ti + 1, cur) ELSE ti + 1

-----------------------------------------------------------------------------

Init ==
    /\ enabled = FALSE
    /\ glock = NoOne
    /\ slot = [i \in Threads |-> NoOne]
    /\ lists = Empty
    /\ now = 0
    /\ tpc = [i \in Threads |-> "new"]
    /\ logs = [i \in Threads |-> 0]
    /\ mpc = "boot"
    /\ wi = 0
    /\ fileRows = -1

(* init_throughput_logging, before any worker exists: fresh lists and     *)
(* mutexes, then enabled.                                                 *)
InitThroughputLogging ==
    /\ mpc = "boot"
    /\ enabled' = TRUE
    /\ lists' = Empty
    /\ mpc' = "ready"
    /\ UNCHANGED <<glock, slot, now, tpc, logs, wi, fileRows>>

(* init_thread_throughput_logging, first half: the global lock.           *)
ThreadTakeGlobal(t) ==
    /\ tpc[t] = "new" /\ enabled /\ glock = NoOne
    /\ glock' = t
    /\ tpc' = [tpc EXCEPT ![t] = "binding"]
    /\ UNCHANGED <<enabled, slot, lists, now, logs, mpc, wi, fileRows>>

(* Second half: the slot mutex, held for the thread's life, then the      *)
(* global lock is released.                                               *)
ThreadTakeSlot(t) ==
    /\ tpc[t] = "binding" /\ slot[t] = NoOne
    /\ slot' = [slot EXCEPT ![t] = t]
    /\ glock' = NoOne
    /\ tpc' = [tpc EXCEPT ![t] = "running"]
    /\ UNCHANGED <<enabled, lists, now, logs, mpc, wi, fileRows>>

(* log_sent_bytes / log_recv_bytes with bytes > 0 on a running thread.    *)
LogBytes(t, d, b) ==
    /\ tpc[t] = "running" /\ enabled /\ logs[t] < MaxLogs
    /\ lists' = [lists EXCEPT ![t][d] = LogThroughput(@, b, now)]
    /\ logs' = [logs EXCEPT ![t] = @ + 1]
    /\ UNCHANGED <<enabled, glock, slot, now, tpc, mpc, wi, fileRows>>

ThreadExitKeepSlot(t) ==
    /\ tpc[t] = "running"
    /\ tpc' = [tpc EXCEPT ![t] = "exited"]
    /\ UNCHANGED <<enabled, glock, slot, lists, now, logs, mpc, wi, fileRows>>

(* destroy_thread_throughput_logging: release the slot mutex.             *)
ThreadExit(t) ==
    /\ tpc[t] = "running"
    /\ slot' = [slot EXCEPT ![t] = NoOne]
    /\ tpc' = [tpc EXCEPT ![t] = "exited"]
    /\ UNCHANGED <<enabled, glock, lists, now, logs, mpc, wi, fileRows>>

Tick ==
    /\ now + TickMs <= MaxMs
    /\ now' = now + TickMs
    /\ UNCHANGED <<enabled, glock, slot, lists, tpc, logs, mpc, wi, fileRows>>

(* write_throughput_log: take the global lock; a missing file name or a   *)
(* failed fopen releases it and returns.                                  *)
WriteBegin ==
    /\ mpc = "ready" /\ enabled /\ glock = NoOne
    /\ \/ /\ glock' = Main
          /\ mpc' = "acquiring"
          /\ wi' = 0
       \/ /\ mpc' = "written"
          /\ UNCHANGED <<glock, wi>>
    /\ UNCHANGED <<enabled, slot, lists, now, tpc, logs, fileRows>>

(* One pass of the loop that acquires every slot mutex; it blocks while a *)
(* worker still holds its slot.                                           *)
WriteAcquire ==
    /\ mpc = "acquiring" /\ wi < NThreads /\ slot[wi] = NoOne
    /\ slot' = [slot EXCEPT ![wi] = Main]
    /\ wi' = wi + 1
    /\ UNCHANGED <<enabled, glock, lists, now, tpc, logs, mpc, fileRows>>

WriteRowsEarly ==
    /\ mpc = "acquiring" /\ wi >= NThreads - 1
    /\ \E cur \in IF WallBehind THEN 0..now ELSE {now} :
          fileRows' = Rows(0, cur)
    /\ slot' = [i \in Threads |-> IF slot[i] = Main THEN NoOne ELSE slot[i]]
    /\ glock' = NoOne
    /\ mpc' = "written"
    /\ UNCHANGED <<enabled, lists, now, tpc, logs, wi>>

(* With every slot held: the rows, read at the wall time cur, then every  *)
(* mutex released, fclose, and the global lock released.                 *)
WriteRows ==
    /\ mpc = "acquiring" /\ wi = NThreads
    /\ \E cur \in IF WallBehind THEN 0..now ELSE {now} :
          fileRows' = Rows(0, cur)
    /\ slot' = [i \in Threads |-> NoOne]
    /\ glock' = NoOne
    /\ mpc' = "written"
    /\ UNCHANGED <<enabled, lists, now, tpc, logs, wi>>

(* destroy_throughput_logging: the global lock, then each slot in turn    *)
(* (waiting for its worker), whose lists are freed.                       *)
DestroyBegin ==
    /\ mpc = "written" /\ glock = NoOne
    /\ glock' = Main
    /\ mpc' = "destroying"
    /\ wi' = 0
    /\ UNCHANGED <<enabled, slot, lists, now, tpc, logs, fileRows>>

DestroySlot ==
    /\ mpc = "destroying" /\ wi < NThreads /\ slot[wi] = NoOne
    /\ lists' = [lists EXCEPT ![wi] = [d \in Dirs |-> <<>>]]
    /\ wi' = wi + 1
    /\ UNCHANGED <<enabled, glock, slot, now, tpc, logs, mpc, fileRows>>

DestroyEnd ==
    /\ mpc = "destroying" /\ wi = NThreads
    /\ enabled' = FALSE
    /\ glock' = NoOne
    /\ mpc' = "destroyed"
    /\ UNCHANGED <<slot, lists, now, tpc, logs, wi, fileRows>>

ThreadStep(t) ==
    \/ ThreadTakeGlobal(t) \/ ThreadTakeSlot(t)
    \/ \E d \in Dirs, b \in Bytes : LogBytes(t, d, b)
    \/ ThreadExit(t)

MainStep ==
    \/ InitThroughputLogging \/ WriteBegin \/ WriteAcquire \/ WriteRows
    \/ DestroyBegin \/ DestroySlot \/ DestroyEnd

\* The process stops once the logging is destroyed and the workers exited.
Next == (\E t \in Threads : ThreadStep(t)) \/ MainStep \/ Tick

Spec == Init /\ [][Next]_vars

(* The header's contract: workers run to completion, and the main thread  *)
(* goes on with its calls.  Nothing makes the clock advance.              *)
FairSpec == Spec /\ WF_vars(MainStep) /\ \A t \in Threads : WF_vars(ThreadStep(t))

-----------------------------------------------------------------------------

TypeOK ==
    /\ enabled \in BOOLEAN
    /\ glock \in Threads \cup {Main, NoOne}
    /\ slot \in [Threads -> Threads \cup {Main, NoOne}]
    /\ \A i \in Threads, d \in Dirs : lists[i][d] \in Seq(0..UMax)
    /\ now \in 0..MaxMs
    /\ tpc \in [Threads -> {"new", "binding", "running", "exited"}]
    /\ logs \in [Threads -> 0..MaxLogs]
    /\ mpc \in {"boot", "ready", "acquiring", "written", "destroying",
                "destroyed"}
    /\ wi \in 0..NThreads
    /\ fileRows >= -1

(* The log is a snapshot: write_throughput_log writes its rows only when  *)
(* no worker is still running and able to add to a list it reads (it     *)
(* holds every slot mutex, each of which a worker keeps for its life).   *)
SnapshotQuiescent ==
    [][mpc = "acquiring" /\ mpc' = "written" /\ fileRows' # fileRows
         => \A t \in Threads : tpc[t] # "running"]_vars

(* Every window with a non-zero counter at the time of writing has its   *)
(* row in the file: the row loop does not stop before it.                *)
LogCoversAllBytes ==
    [][mpc = "acquiring" /\ mpc' = "written" /\ fileRows' # fileRows
         => \A i \in Threads, d \in Dirs :
               \A k \in DOMAIN lists[i][d] : lists[i][d][k] # 0 => k <= fileRows']_vars

(* A started write ends: no slot mutex stays held by a worker that has   *)
(* exited.                                                               *)
WriterFinishes == mpc = "acquiring" ~> mpc = "written"

(* The counters the rings hold, window by window. *)
CountsOf ==
    [td \in Threads \X Dirs |->
       [i \in 0..(MaxMs \div TimestepMs) |->
          IF i < Len(lists[td[1]][td[2]]) THEN lists[td[1]][td[2]][i + 1]
          ELSE 0]]

Abstract == INSTANCE ThroughputCounters WITH counts <- CountsOf, UMax <- UMax

(* The rings implement the saturating per-window counters of spec.md 4.3. *)
RingsRefineCounters == Abstract!Spec
=============================================================================

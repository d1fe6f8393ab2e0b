----------------------------- MODULE WorkQueue -----------------------------
(***************************************************************************)
(* The thread pool of src/lib/evloop/workqueue.c: NWorkers worker threads  *)
(* running worker_thread_main, the pool lock and condition, the priority   *)
(* work queues, the update generation with its per-thread argument slots, *)
(* threadpool_shutdown, and one reply queue per client thread with its    *)
(* alert socket and replyqueue_process.                                    *)
(*                                                                         *)
(* Every worker step is one stretch of worker_thread_main between two      *)
(* operations on the pool lock; the work and update functions themselves   *)
(* are opaque and return a nondeterministic workqueue_reply_t.  The client *)
(* threads (the event loops that call the pool) are not in this            *)
(* repository: which call they make, and when, is free, except that Main   *)
(* makes no call after it started threadpool_shutdown, and the others only *)
(* when CallsAfterShutdown holds.                                          *)
(***************************************************************************)
EXTENDS Integers, Sequences, FiniteSets, SequencesExt

CONSTANTS
    NWorkers,           \* pool->n_threads
    Clients,            \* threads that own a reply queue and call the pool
    Main,               \* the client that calls threadpool_shutdown
    Items,              \* the work entries the clients may queue
    Owner,              \* Owner[i]: the client whose reply queue entry i names
    Prios,              \* WORKQUEUE_PRIORITY_FIRST .. WORKQUEUE_PRIORITY_LAST
    WorkResults,        \* what a work function may return
    UpdateResults,      \* what an update function may return
    MaxUpdates,         \* bound on the number of threadpool_queue_update calls
    CallsAfterShutdown, \* clients other than Main may call after shutdown
    NoOne               \* the lock is free / no entry

Workers == 1..NWorkers

VARIABLES
    lock,        \* pool->lock: its holder, or NoOne
    work,        \* pool->work[prio]: the pending entries
    generation,  \* pool->generation
    updateArgs,  \* pool->update_args: the update each slot holds, 0 for NULL
    shutdown,    \* pool->shutdown
    wpc,         \* where each worker is in worker_thread_main
    wgen,        \* thread->generation
    wcur,        \* the entry a worker took, or NoOne
    warg,        \* the update argument a worker took, 0 for none
    wres,        \* the reply_status a worker is about to queue
    status,      \* the life of each entry
    answers,     \* answers of each client's reply queue
    alert,       \* whether each client's alert socket is readable
    cpc,         \* where each client is
    cold,        \* old_args of a client's threadpool_queue_update
    rcur,        \* the answer a client's replyqueue_process is handling
    jidx,        \* the thread threadpool_shutdown is joining
    ran,         \* <<thread, update>>: update arguments passed to update_fn
    freed        \* <<thread, update>>: update arguments passed to free_fn

vars == <<lock, work, generation, updateArgs, shutdown, wpc, wgen, wcur, warg,
          wres, status, answers, alert, cpc, cold, rcur, jidx, ran, freed>>

WorkerPcs == {"start", "check", "update", "run", "reply", "sreply", "wait",
              "exit"}
ClientPcs == {"idle", "updfree", "join", "joinwait", "shutfree", "replies",
              "replyfn"}
Statuses == {"idle", "queued", "running", "answered", "done", "cancelled"}

Init ==
    /\ lock = NoOne
    /\ work = [p \in Prios |-> <<>>]
    /\ generation = 0
    /\ updateArgs = [w \in Workers |-> 0]
    /\ shutdown = FALSE
    /\ wpc = [w \in Workers |-> "start"]
    /\ wgen = [w \in Workers |-> 0]
    /\ wcur = [w \in Workers |-> NoOne]
    /\ warg = [w \in Workers |-> 0]
    /\ wres = [w \in Workers |-> "Reply"]
    /\ status = [i \in Items |-> "idle"]
    /\ answers = [c \in Clients |-> <<>>]
    /\ alert = [c \in Clients |-> FALSE]
    /\ cpc = [c \in Clients |-> "idle"]
    /\ cold = [c \in Clients |-> [w \in Workers |-> 0]]
    /\ rcur = [c \in Clients |-> NoOne]
    /\ jidx = 1
    /\ ran = {}
    /\ freed = {}

(* tor_cond_signal_one and tor_cond_signal_all on pool->condition: a      *)
(* waiting worker becomes runnable and must reacquire the lock.           *)
Waiting == {w \in Workers : wpc[w] = "wait"}
WakeOne == IF Waiting = {} THEN {wpc}
           ELSE {[wpc EXCEPT ![w] = "start"] : w \in Waiting}
WakeAll == [w \in Workers |-> IF wpc[w] = "wait" THEN "start" ELSE wpc[w]]

(* queue_reply: append under the reply queue's lock, alert if it was empty *)
QueueReply(c, i) ==
    /\ answers' = [answers EXCEPT ![c] = Append(@, i)]
    /\ alert' = [alert EXCEPT ![c] = @ \/ answers[c] = <<>>]

(* worker_thread_has_work *)
HasWork(w) == (\E p \in Prios : work[p] # <<>>) \/ wgen[w] # generation

---------------------------------------------------------------------------
(* Worker threads: worker_thread_main.                                    *)

(* Acquire pool->lock: at entry, after an update or a reply, after a wait *)
WStart(w) ==
    /\ wpc[w] = "start"
    /\ lock = NoOne
    /\ lock' = w
    /\ wpc' = [wpc EXCEPT ![w] = "check"]
    /\ UNCHANGED <<work, generation, updateArgs, shutdown, wgen, wcur, warg,
                   wres, status, answers, alert, cpc, cold, rcur, jidx, ran,
                   freed>>

WTakeUpdateSkipGen(w) ==
    /\ wpc[w] = "check" /\ lock = w /\ generation # wgen[w]
    /\ warg' = [warg EXCEPT ![w] = updateArgs[w]]
    /\ updateArgs' = [updateArgs EXCEPT ![w] = 0]
    /\ wgen' = [wgen EXCEPT ![w] = generation + 1]
    /\ lock' = NoOne
    /\ wpc' = [wpc EXCEPT ![w] = "update"]
    /\ UNCHANGED <<work, generation, shutdown, wcur, wres, status, answers,
                   alert, cpc, cold, rcur, jidx, ran, freed>>

WTakeUpdateKeepArg(w) ==
    /\ wpc[w] = "check" /\ lock = w /\ generation # wgen[w]
    /\ warg' = [warg EXCEPT ![w] = updateArgs[w]]
    /\ wgen' = [wgen EXCEPT ![w] = generation]
    /\ lock' = NoOne
    /\ wpc' = [wpc EXCEPT ![w] = "update"]
    /\ UNCHANGED <<work, generation, updateArgs, shutdown, wcur, wres, status,
                   answers, alert, cpc, cold, rcur, jidx, ran, freed>>

(* A newer generation: take this thread's argument, clear its slot,       *)
(* catch up, and release the lock to run update_fn.                       *)
WTakeUpdate(w) ==
    /\ wpc[w] = "check" /\ lock = w /\ generation # wgen[w]
    /\ warg' = [warg EXCEPT ![w] = updateArgs[w]]
    /\ updateArgs' = [updateArgs EXCEPT ![w] = 0]
    /\ wgen' = [wgen EXCEPT ![w] = generation]
    /\ lock' = NoOne
    /\ wpc' = [wpc EXCEPT ![w] = "update"]
    /\ UNCHANGED <<work, generation, shutdown, wcur, wres, status, answers,
                   alert, cpc, cold, rcur, jidx, ran, freed>>

(* update_fn runs unlocked; anything but WQ_RPL_REPLY ends the thread     *)
WRunUpdate(w) ==
    /\ wpc[w] = "update"
    /\ \E r \in UpdateResults :
          wpc' = [wpc EXCEPT ![w] = IF r = "Reply" THEN "start" ELSE "exit"]
    /\ ran' = ran \cup {<<w, warg[w]>>}
    /\ warg' = [warg EXCEPT ![w] = 0]
    /\ UNCHANGED <<lock, work, generation, updateArgs, shutdown, wgen, wcur,
                   wres, status, answers, alert, cpc, cold, rcur, jidx, freed>>

(* worker_thread_extract_next_work: the head of a non-empty queue, which  *)
(* may be a lower priority one when the rng says so; then, unlocked,     *)
(* either a SHUTDOWN reply or the work function.                         *)
WExtract(w) ==
    /\ wpc[w] = "check" /\ lock = w /\ generation = wgen[w]
    /\ \E p \in Prios :
          /\ work[p] # <<>>
          /\ work' = [work EXCEPT ![p] = Tail(@)]
          /\ status' = [status EXCEPT ![Head(work[p])] = "running"]
          /\ wcur' = [wcur EXCEPT ![w] = Head(work[p])]
    /\ lock' = NoOne
    /\ wpc' = [wpc EXCEPT ![w] = IF shutdown THEN "sreply" ELSE "run"]
    /\ wres' = [wres EXCEPT ![w] = IF shutdown THEN "Shutdown" ELSE @]
    /\ UNCHANGED <<generation, updateArgs, shutdown, wgen, warg, answers,
                   alert, cpc, cold, rcur, jidx, ran, freed>>

(* work->fn runs unlocked *)
WRun(w) ==
    /\ wpc[w] = "run"
    /\ \E r \in WorkResults : wres' = [wres EXCEPT ![w] = r]
    /\ wpc' = [wpc EXCEPT ![w] = "reply"]
    /\ UNCHANGED <<lock, work, generation, updateArgs, shutdown, wgen, wcur,
                   warg, status, answers, alert, cpc, cold, rcur, jidx, ran,
                   freed>>

(* queue_reply, then relock; a work function's non-REPLY result ends the *)
(* thread, a SHUTDOWN reply from the extract path does not.              *)
WReply(w) ==
    /\ wpc[w] \in {"reply", "sreply"}
    /\ QueueReply(Owner[wcur[w]], wcur[w])
    /\ status' = [status EXCEPT ![wcur[w]] = "answered"]
    /\ wcur' = [wcur EXCEPT ![w] = NoOne]
    /\ wpc' = [wpc EXCEPT ![w] =
                 IF wpc[w] = "sreply" \/ wres[w] = "Reply" THEN "start"
                 ELSE "exit"]
    /\ UNCHANGED <<lock, work, generation, updateArgs, shutdown, wgen, warg,
                   wres, cpc, cold, rcur, jidx, ran, freed>>

WIdleIgnoreShutdown(w) ==
    /\ wpc[w] = "check" /\ lock = w /\ ~HasWork(w)
    /\ lock' = NoOne
    /\ wpc' = [wpc EXCEPT ![w] = "wait"]
    /\ UNCHANGED <<work, generation, updateArgs, shutdown, wgen, wcur, warg,
                   wres, status, answers, alert, cpc, cold, rcur, jidx, ran,
                   freed>>

(* No work: return on shutdown, otherwise tor_cond_wait, which releases  *)
(* the lock atomically with joining the waiters.                         *)
WIdle(w) ==
    /\ wpc[w] = "check" /\ lock = w /\ ~HasWork(w)
    /\ lock' = NoOne
    /\ wpc' = [wpc EXCEPT ![w] = IF shutdown THEN "exit" ELSE "wait"]
    /\ UNCHANGED <<work, generation, updateArgs, shutdown, wgen, wcur, warg,
                   wres, status, answers, alert, cpc, cold, rcur, jidx, ran,
                   freed>>

WorkerStep(w) ==
    \/ WStart(w) \/ WTakeUpdate(w) \/ WRunUpdate(w) \/ WExtract(w)
    \/ WRun(w) \/ WReply(w) \/ WIdle(w)

---------------------------------------------------------------------------
(* Client threads: the pool's API and replyqueue_process.                 *)

(* Main makes no call once it has started threadpool_shutdown. *)
MayCall(c) == ~shutdown \/ (c # Main /\ CallsAfterShutdown)

ClientUnchanged ==
    UNCHANGED <<generation, updateArgs, wgen, wcur, warg, wres, answers, alert,
                cold, rcur, jidx, ran, freed>>

QueueWorkNoSignal(c, i, p) ==
    /\ cpc[c] = "idle" /\ MayCall(c) /\ Owner[i] = c /\ status[i] = "idle"
    /\ lock = NoOne
    /\ IF shutdown
         THEN /\ lock' = c
              /\ UNCHANGED <<work, status, wpc>>
         ELSE /\ work' = [work EXCEPT ![p] = Append(@, i)]
              /\ status' = [status EXCEPT ![i] = "queued"]
              /\ UNCHANGED <<lock, wpc>>
    /\ UNCHANGED <<shutdown, cpc>>
    /\ ClientUnchanged

(* threadpool_queue_work_priority: on shutdown it returns NULL with the   *)
(* lock still held; otherwise it appends a pending entry and signals one  *)
(* waiting worker.                                                        *)
QueueWork(c, i, p) ==
    /\ cpc[c] = "idle" /\ MayCall(c) /\ Owner[i] = c /\ status[i] = "idle"
    /\ lock = NoOne
    /\ IF shutdown
         THEN /\ lock' = c
              /\ UNCHANGED <<work, status, wpc>>
         ELSE /\ work' = [work EXCEPT ![p] = Append(@, i)]
              /\ status' = [status EXCEPT ![i] = "queued"]
              /\ wpc' \in WakeOne
              /\ UNCHANGED lock
    /\ UNCHANGED <<shutdown, cpc>>
    /\ ClientUnchanged

CancelNoPendingCheck(c, i) ==
    /\ cpc[c] = "idle" /\ MayCall(c) /\ Owner[i] = c
    /\ status[i] \in {"queued", "running", "answered"}
    /\ lock = NoOne
    /\ work' = [p \in Prios |-> Remove(work[p], i)]
    /\ status' = [status EXCEPT ![i] = "cancelled"]
    /\ UNCHANGED <<lock, shutdown, wpc, cpc>>
    /\ ClientUnchanged

(* workqueue_entry_cancel, on an entry whose reply has not run: removes   *)
(* it only while it is still pending.                                     *)
Cancel(c, i) ==
    /\ cpc[c] = "idle" /\ MayCall(c) /\ Owner[i] = c
    /\ status[i] \in {"queued", "running", "answered"}
    /\ lock = NoOne
    /\ IF status[i] = "queued"
         THEN /\ work' = [p \in Prios |-> Remove(work[p], i)]
              /\ status' = [status EXCEPT ![i] = "cancelled"]
         ELSE UNCHANGED <<work, status>>
    /\ UNCHANGED <<lock, shutdown, wpc, cpc>>
    /\ ClientUnchanged

QueueUpdateSignalOne(c) ==
    /\ cpc[c] = "idle" /\ MayCall(c) /\ generation < MaxUpdates
    /\ lock = NoOne
    /\ IF shutdown
         THEN /\ lock' = c
              /\ UNCHANGED <<generation, updateArgs, cold, wpc, cpc>>
         ELSE /\ cold' = [cold EXCEPT ![c] = updateArgs]
              /\ updateArgs' = [w \in Workers |-> generation + 1]
              /\ generation' = generation + 1
              /\ wpc' \in WakeOne
              /\ cpc' = [cpc EXCEPT ![c] = "updfree"]
              /\ UNCHANGED lock
    /\ UNCHANGED <<work, shutdown, wgen, wcur, warg, wres, status, answers,
                   alert, rcur, jidx, ran, freed>>

(* threadpool_queue_update: on shutdown it returns -1 with the lock held; *)
(* otherwise it installs a fresh argument for every thread, bumps the     *)
(* generation, wakes every waiter and, after unlocking, frees the old     *)
(* arguments (FreeOldArgs).                                               *)
QueueUpdate(c) ==
    /\ cpc[c] = "idle" /\ MayCall(c) /\ generation < MaxUpdates
    /\ lock = NoOne
    /\ IF shutdown
         THEN /\ lock' = c
              /\ UNCHANGED <<generation, updateArgs, cold, wpc, cpc>>
         ELSE /\ cold' = [cold EXCEPT ![c] = updateArgs]
              /\ updateArgs' = [w \in Workers |-> generation + 1]
              /\ generation' = generation + 1
              /\ wpc' = WakeAll
              /\ cpc' = [cpc EXCEPT ![c] = "updfree"]
              /\ UNCHANGED lock
    /\ UNCHANGED <<work, shutdown, wgen, wcur, warg, wres, status, answers,
                   alert, rcur, jidx, ran, freed>>

FreeOldArgs(c) ==
    /\ cpc[c] = "updfree"
    /\ freed' = freed \cup {<<w, cold[c][w]>> : w \in {v \in Workers : cold[c][v] # 0}}
    /\ cold' = [cold EXCEPT ![c] = [w \in Workers |-> 0]]
    /\ cpc' = [cpc EXCEPT ![c] = "idle"]
    /\ UNCHANGED <<lock, work, generation, updateArgs, shutdown, wpc, wgen,
                   wcur, warg, wres, status, answers, alert, rcur, jidx, ran>>

(* threadpool_shutdown: set the flag and broadcast under the lock, then   *)
(* for each thread release the lock, join it, and reacquire.              *)
ShutdownBegin ==
    /\ cpc[Main] = "idle" /\ ~shutdown /\ lock = NoOne
    /\ shutdown' = TRUE
    /\ wpc' = WakeAll
    /\ lock' = Main
    /\ cpc' = [cpc EXCEPT ![Main] = "join"]
    /\ jidx' = 1
    /\ UNCHANGED <<work, status>>
    /\ UNCHANGED <<generation, updateArgs, wgen, wcur, warg, wres, answers,
                   alert, cold, rcur, ran, freed>>

JoinRelease ==
    /\ cpc[Main] = "join"
    /\ lock' = NoOne
    /\ cpc' = [cpc EXCEPT ![Main] = "joinwait"]
    /\ UNCHANGED <<work, status, shutdown, wpc, jidx>>
    /\ UNCHANGED <<generation, updateArgs, wgen, wcur, warg, wres, answers,
                   alert, cold, rcur, ran, freed>>

JoinDone ==
    /\ cpc[Main] = "joinwait" /\ wpc[jidx] = "exit" /\ lock = NoOne
    /\ lock' = Main
    /\ jidx' = IF jidx < NWorkers THEN jidx + 1 ELSE jidx
    /\ cpc' = [cpc EXCEPT ![Main] = IF jidx < NWorkers THEN "join"
                                     ELSE "shutfree"]
    /\ UNCHANGED <<work, status, shutdown, wpc>>
    /\ UNCHANGED <<generation, updateArgs, wgen, wcur, warg, wres, answers,
                   alert, cold, rcur, ran, freed>>

ShutdownEnd ==
    /\ cpc[Main] = "shutfree"
    /\ lock' = NoOne
    /\ cpc' = [cpc EXCEPT ![Main] = "idle"]
    /\ UNCHANGED <<work, status, shutdown, wpc, jidx>>
    /\ UNCHANGED <<generation, updateArgs, wgen, wcur, warg, wres, answers,
                   alert, cold, rcur, ran, freed>>

ReplyFnOnce(c) ==
    /\ cpc[c] = "replyfn"
    /\ status' = [status EXCEPT ![rcur[c]] = "done"]
    /\ rcur' = [rcur EXCEPT ![c] = NoOne]
    /\ cpc' = [cpc EXCEPT ![c] = "idle"]
    /\ UNCHANGED <<lock, work, generation, updateArgs, shutdown, wpc, wgen,
                   wcur, warg, wres, answers, alert, cold, jidx, ran, freed>>

(* reply_event_cb: the alert socket is readable; replyqueue_process       *)
(* drains it first.                                                       *)
ReplyEvent(c) ==
    /\ cpc[c] = "idle" /\ alert[c]
    /\ alert' = [alert EXCEPT ![c] = FALSE]
    /\ cpc' = [cpc EXCEPT ![c] = "replies"]
    /\ UNCHANGED <<lock, work, generation, updateArgs, shutdown, wpc, wgen,
                   wcur, warg, wres, status, answers, cold, rcur, jidx, ran,
                   freed>>

(* Under the reply queue's lock: pop the first answer, or stop when empty *)
ReplyPop(c) ==
    /\ cpc[c] = "replies"
    /\ IF answers[c] # <<>>
         THEN /\ rcur' = [rcur EXCEPT ![c] = Head(answers[c])]
              /\ answers' = [answers EXCEPT ![c] = Tail(@)]
              /\ cpc' = [cpc EXCEPT ![c] = "replyfn"]
         ELSE /\ cpc' = [cpc EXCEPT ![c] = "idle"]
              /\ UNCHANGED <<rcur, answers>>
    /\ UNCHANGED <<lock, work, generation, updateArgs, shutdown, wpc, wgen,
                   wcur, warg, wres, status, alert, cold, jidx, ran, freed>>

(* reply_fn runs unlocked, the entry is freed, and the loop goes on *)
ReplyFn(c) ==
    /\ cpc[c] = "replyfn"
    /\ status' = [status EXCEPT ![rcur[c]] = "done"]
    /\ rcur' = [rcur EXCEPT ![c] = NoOne]
    /\ cpc' = [cpc EXCEPT ![c] = "replies"]
    /\ UNCHANGED <<lock, work, generation, updateArgs, shutdown, wpc, wgen,
                   wcur, warg, wres, answers, alert, cold, jidx, ran, freed>>

ClientCall(c) ==
    \/ \E i \in Items, p \in Prios : QueueWork(c, i, p)
    \/ \E i \in Items : Cancel(c, i)
    \/ QueueUpdate(c)

ClientInternal(c) ==
    \/ FreeOldArgs(c) \/ ReplyEvent(c) \/ ReplyPop(c) \/ ReplyFn(c)

(* The rest of threadpool_shutdown, once Main has begun it *)
ShutdownSteps == JoinRelease \/ JoinDone \/ ShutdownEnd

Next ==
    \/ \E w \in Workers : WorkerStep(w)
    \/ \E c \in Clients : ClientCall(c) \/ ClientInternal(c)
    \/ ShutdownBegin
    \/ ShutdownSteps

Spec == Init /\ [][Next]_vars

(* The scheduler runs every runnable thread eventually, and each client's *)
(* loop runs its pending callbacks; the clients' calls are not forced.    *)
FairSpec ==
    /\ Spec
    /\ \A w \in Workers : WF_vars(WorkerStep(w))
    /\ \A c \in Clients : WF_vars(ClientInternal(c))
    /\ WF_vars(ShutdownSteps)

---------------------------------------------------------------------------
(* Properties.                                                            *)

TypeOK ==
    /\ lock \in Workers \cup Clients \cup {NoOne}
    /\ work \in [Prios -> Seq(Items)]
    /\ generation \in 0..MaxUpdates
    /\ updateArgs \in [Workers -> 0..MaxUpdates]
    /\ shutdown \in BOOLEAN
    /\ wpc \in [Workers -> WorkerPcs]
    /\ wgen \in [Workers -> 0..MaxUpdates]
    /\ wcur \in [Workers -> Items \cup {NoOne}]
    /\ warg \in [Workers -> 0..MaxUpdates]
    /\ wres \in [Workers -> {"Reply", "Error", "Shutdown"}]
    /\ status \in [Items -> Statuses]
    /\ answers \in [Clients -> Seq(Items)]
    /\ alert \in [Clients -> BOOLEAN]
    /\ cpc \in [Clients -> ClientPcs]
    /\ cold \in [Clients -> [Workers -> 0..MaxUpdates]]
    /\ rcur \in [Clients -> Items \cup {NoOne}]
    /\ jidx \in Workers
    /\ ran \subseteq Workers \X (1..MaxUpdates)
    /\ freed \subseteq Workers \X (1..MaxUpdates)

Occurrences(s, i) == Cardinality({k \in DOMAIN s : s[k] = i})
InWork(i) ==
    Cardinality(UNION {{<<p, k>> : k \in {j \in DOMAIN work[p] : work[p][j] = i}}
                       : p \in Prios})

(* Every entry is in exactly the one place its life says: once in one     *)
(* work queue while pending, held by exactly one worker while running,   *)
(* once in its owner's reply queue or in its reply_fn while answered,     *)
(* and nowhere once cancelled or done.  Cancel racing the extraction and  *)
(* the reply queue breaks this when a pending check is wrong.             *)
ItemsAccounted ==
    \A i \in Items :
       /\ InWork(i) = IF status[i] = "queued" THEN 1 ELSE 0
       /\ Cardinality({w \in Workers : wcur[w] = i})
            = IF status[i] = "running" THEN 1 ELSE 0
       /\ Occurrences(answers[Owner[i]], i)
            + (IF rcur[Owner[i]] = i THEN 1 ELSE 0)
            = IF status[i] = "answered" THEN 1 ELSE 0

(* An answer never sits in a reply queue that nobody will look at: while *)
(* the queue is non-empty its alert socket is readable or its owner is   *)
(* inside replyqueue_process.  queue_reply alerts only on an empty queue, *)
(* so this depends on the owner looping until it finds the queue empty.  *)
RepliesNotStranded ==
    \A c \in Clients :
       answers[c] # <<>> => alert[c] \/ cpc[c] \in {"replies", "replyfn"}

(* Each thread's copy of an update argument has one owner: it is either  *)
(* passed to update_fn by the worker or freed by the next                 *)
(* threadpool_queue_update, never both (a use after free or a double      *)
(* free).                                                                 *)
UpdateArgOwnedOnce == ran \cap freed = {}

(* Every queued entry is eventually answered to its reply_fn (or         *)
(* cancelled), as threadpool_queue_work's comment promises "regardless of *)
(* its return value", also when the pool shuts down meanwhile.            *)
AllQueuedAnswered ==
    \A i \in Items : status[i] = "queued" ~> status[i] \in {"done", "cancelled"}

(* A worker that has not exited eventually runs every update queued with *)
(* threadpool_queue_update, even when it was waiting on the condition.    *)
UpdatesReachWorkers ==
    \A w \in Workers, g \in 1..MaxUpdates :
       (generation >= g /\ wpc[w] # "exit") ~> (wgen[w] >= g \/ wpc[w] = "exit")

(* threadpool_shutdown returns: every worker leaves worker_thread_main    *)
(* and is joined, and Main gets the lock back and releases it.            *)
ShutdownCompletes ==
    shutdown ~> (cpc[Main] = "idle" /\ \A w \in Workers : wpc[w] = "exit")
==============================================================================

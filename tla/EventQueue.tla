----------------------------- MODULE EventQueue -----------------------------
(***************************************************************************)
(* The event source and its listeners, src/lib/evloop/events.c: one source *)
(* with a subscription and a deliver-silently flag per label, listeners    *)
(* with a per-label callback table and an iteration cap, publication from  *)
(* any thread and each listener's processing pass on its own loop.         *)
(*                                                                         *)
(* A publication holds the source lock and, inside it, the listener lock:  *)
(* it is one step.  A processing pass releases the listener lock around    *)
(* each callback, so taking an entry, running its callback and ending the  *)
(* pass are separate steps.  An event is a record [label, val, silent]:   *)
(* val numbers publications in order, silent records how it was sent.     *)
(***************************************************************************)
EXTENDS Integers, Sequences, FiniteSets, EventListener

CONSTANTS
    Labels,        \* event labels of the registry
    Coalescing,    \* labels whose callback has an update_fn
    Listeners,     \* event_listener_t objects
    IterChoices,   \* values given to event_listener_set_max_iterations
    MaxPublish,    \* bound on the number of publications
    MaxConfig,     \* bound on subscribe/callback/attach/... calls
    NoOne          \* no subscriber / nothing in flight

Events == [label : Labels, val : 1..MaxPublish, silent : BOOLEAN]

VARIABLES
    subs,       \* source->subscriptions: the listener of each label
    silent,     \* source->deliver_silently
    callbacks,  \* the labels each listener has a callback for
    lst,        \* each listener, as an EventListener record
    maxIter,    \* listener->max_iterations
    counter,    \* the callbacks run in the current pass
    passCap,    \* the max_iterations the current pass read at its start
    inflight,   \* the entry a pass has removed and not yet finished with
    published,  \* publications so far (the next val is published + 1)
    delivered,  \* values each listener's callbacks have been given
    lastRecv,   \* the last val of each label a listener received
    crash,      \* event_active_later_ called on a NULL loop event
    config      \* configuration calls made so far

vars == <<subs, silent, callbacks, lst, maxIter, counter, passCap, inflight,
          published, delivered, lastRecv, crash, config>>

Init ==
    /\ subs = [b \in Labels |-> NoOne]
    /\ silent = [b \in Labels |-> FALSE]
    /\ callbacks = [l \in Listeners |-> {}]
    /\ lst = [l \in Listeners |-> NewListener]
    /\ maxIter = [l \in Listeners |-> -1]
    /\ counter = [l \in Listeners |-> 0]
    /\ passCap = [l \in Listeners |-> -1]
    /\ inflight = [l \in Listeners |-> NoOne]
    /\ published = 0
    /\ delivered = [l \in Listeners |-> <<>>]
    /\ lastRecv = [l \in Listeners |-> [b \in Labels |-> 0]]
    /\ crash = FALSE
    /\ config = 0

(* A configuration call, counted against MaxConfig *)
Configure == config < MaxConfig /\ config' = config + 1

---------------------------------------------------------------------------
(* The source's configuration, each call one step under source->lock.    *)

(* event_source_subscribe: replaces any previous subscriber of the label *)
Subscribe(l, b) ==
    /\ Configure
    /\ subs' = [subs EXCEPT ![b] = l]
    /\ UNCHANGED <<silent, callbacks, lst, maxIter, counter, passCap, inflight,
                   published, delivered, lastRecv, crash>>

(* event_source_unsubscribe: only the current subscriber is removed *)
Unsubscribe(l, b) ==
    /\ Configure
    /\ subs[b] = l
    /\ subs' = [subs EXCEPT ![b] = NoOne]
    /\ UNCHANGED <<silent, callbacks, lst, maxIter, counter, passCap, inflight,
                   published, delivered, lastRecv, crash>>

(* event_source_unsubscribe_all *)
UnsubscribeAll(l) ==
    /\ Configure
    /\ l \in {subs[b] : b \in Labels}
    /\ subs' = [b \in Labels |-> IF subs[b] = l THEN NoOne ELSE subs[b]]
    /\ UNCHANGED <<silent, callbacks, lst, maxIter, counter, passCap, inflight,
                   published, delivered, lastRecv, crash>>

(* event_source_deliver_silently *)
DeliverSilently(b, s) ==
    /\ Configure
    /\ silent[b] # s
    /\ silent' = [silent EXCEPT ![b] = s]
    /\ UNCHANGED <<subs, callbacks, lst, maxIter, counter, passCap, inflight,
                   published, delivered, lastRecv, crash>>

(* event_listener_set_callback: one callback per label, a later one       *)
(* replaces the earlier                                                    *)
SetCallback(l, b) ==
    /\ Configure
    /\ b \notin callbacks[l]
    /\ callbacks' = [callbacks EXCEPT ![l] = @ \cup {b}]
    /\ UNCHANGED <<subs, silent, lst, maxIter, counter, passCap, inflight, published,
                   delivered, lastRecv, crash>>

SetMaxIterationsOffByOne(l, n) ==
    /\ Configure
    /\ maxIter[l] # n - 1
    /\ maxIter' = [maxIter EXCEPT ![l] = n - 1]
    /\ UNCHANGED <<subs, silent, callbacks, lst, counter, passCap, inflight, published,
                   delivered, lastRecv, crash>>

(* event_listener_set_max_iterations *)
SetMaxIterations(l, n) ==
    /\ Configure
    /\ maxIter[l] # n
    /\ maxIter' = [maxIter EXCEPT ![l] = n]
    /\ UNCHANGED <<subs, silent, callbacks, lst, counter, passCap, inflight, published,
                   delivered, lastRecv, crash>>

---------------------------------------------------------------------------
(* Publication, from any thread.                                          *)

(* event_source_publish with a subscriber (without one it only frees the  *)
(* data): event_listener_receive drops an event the listener has no       *)
(* callback for, and otherwise coalesces or appends it, notifying unless  *)
(* the label is delivered silently.                                       *)
Publish(b) ==
    /\ published < MaxPublish
    /\ subs[b] # NoOne
    /\ LET l == subs[b]
           ev == [label |-> b, val |-> published + 1, silent |-> silent[b]]
       IN IF b \in callbacks[l]
            THEN /\ lst' = [lst EXCEPT ![l] = Receive(@, ev, ~silent[b], Coalescing)]
                 /\ lastRecv' = [lastRecv EXCEPT ![l][b] = ev.val]
            ELSE UNCHANGED <<lst, lastRecv>>
    /\ published' = published + 1
    /\ UNCHANGED <<subs, silent, callbacks, maxIter, counter, passCap, inflight,
                   delivered, crash, config>>

(* event_source_wakeup_listener: event_listener_wakeup on the subscriber *)
WakeupListener(b) ==
    /\ subs[b] # NoOne
    /\ lst' = [lst EXCEPT ![subs[b]] = Wakeup(@)]
    /\ UNCHANGED <<subs, silent, callbacks, maxIter, counter, passCap, inflight,
                   published, delivered, lastRecv, crash, config>>

---------------------------------------------------------------------------
(* The listener's loop.                                                   *)

(* The listener's own loop thread attaches and detaches it (the          *)
(* connection's register_events and close_socket): during a pass, only    *)
(* from inside a callback.                                                *)
LoopThreadFree(l) == ~lst[l].running \/ inflight[l] # NoOne

(* event_listener_attach; its tor_assert(eventloop_ev == NULL) holds      *)
(* because the only caller detaches first                                *)
AttachListener(l) ==
    /\ Configure
    /\ LoopThreadFree(l)
    /\ ~lst[l].attached
    /\ lst' = [lst EXCEPT ![l] = Attach(@)]
    /\ UNCHANGED <<subs, silent, callbacks, maxIter, counter, passCap, inflight,
                   published, delivered, lastRecv, crash>>

(* event_listener_detach, also from a callback of the listener itself    *)
DetachListener(l) ==
    /\ Configure
    /\ LoopThreadFree(l)
    /\ lst[l].attached
    /\ lst' = [lst EXCEPT ![l] = Detach(@)]
    /\ UNCHANGED <<subs, silent, callbacks, maxIter, counter, passCap, inflight,
                   published, delivered, lastRecv, crash>>

(* event_listener_eventloop_cb: the activated loop event runs a pass      *)
LoopRun(l) ==
    /\ CanBeginProcess(lst[l])
    /\ lst' = [lst EXCEPT ![l] = BeginProcess(@)]
    /\ counter' = [counter EXCEPT ![l] = 0]
    /\ passCap' = [passCap EXCEPT ![l] = maxIter[l]]
    /\ UNCHANGED <<subs, silent, callbacks, maxIter, inflight, published,
                   delivered, lastRecv, crash, config>>

(* The loop condition of event_listener_process *)
MayTake(l) ==
    /\ inflight[l] = NoOne
    /\ CanProcessOne(lst[l])
    /\ passCap[l] < 0 \/ counter[l] < passCap[l]

(* Remove the head under the lock and look up its callback *)
ProcessTake(l) ==
    /\ MayTake(l)
    /\ inflight' = [inflight EXCEPT ![l] =
                      [ev |-> Head(lst[l].queue),
                       cb |-> Head(lst[l].queue).label \in callbacks[l]]]
    /\ lst' = [lst EXCEPT ![l] = PopHead(@)]
    /\ UNCHANGED <<subs, silent, callbacks, maxIter, counter, passCap,
                   published, delivered, lastRecv, crash, config>>

(* Unlocked: run the callback (counted) or warn, free, relock *)
ProcessCallback(l) ==
    /\ inflight[l] # NoOne
    /\ IF inflight[l].cb
         THEN /\ delivered' = [delivered EXCEPT ![l] = Append(@, inflight[l].ev.val)]
              /\ counter' = [counter EXCEPT ![l] = @ + 1]
         ELSE UNCHANGED <<delivered, counter>>
    /\ inflight' = [inflight EXCEPT ![l] = NoOne]
    /\ UNCHANGED <<subs, silent, callbacks, lst, maxIter, passCap, published,
                   lastRecv, crash, config>>

ProcessEndNoRearm(l) ==
    /\ lst[l].running /\ inflight[l] = NoOne /\ ~MayTake(l)
    /\ IF lst[l].queue = <<>>
         THEN lst' = [lst EXCEPT ![l] = EndProcess(@)]
         ELSE lst' = [lst EXCEPT ![l].running = FALSE]
    /\ UNCHANGED <<subs, silent, callbacks, maxIter, counter, passCap, inflight,
                   published, delivered, lastRecv, crash, config>>

ProcessEnd(l) ==
    /\ lst[l].running /\ inflight[l] = NoOne /\ ~MayTake(l)
    /\ IF lst[l].queue = <<>>
         THEN /\ lst' = [lst EXCEPT ![l] = EndProcess(@)]
              /\ UNCHANGED crash
         ELSE /\ lst' = [lst EXCEPT ![l].running = FALSE, ![l].active = TRUE]
              /\ crash' = (crash \/ ~lst[l].attached)
    /\ UNCHANGED <<subs, silent, callbacks, maxIter, counter, passCap, inflight,
                   published, delivered, lastRecv, config>>

Next ==
    \/ \E l \in Listeners, b \in Labels :
          Subscribe(l, b) \/ Unsubscribe(l, b) \/ SetCallback(l, b)
    \/ \E l \in Listeners : UnsubscribeAll(l)
    \/ \E b \in Labels, s \in BOOLEAN : DeliverSilently(b, s)
    \/ \E l \in Listeners, n \in IterChoices : SetMaxIterations(l, n)
    \/ \E b \in Labels : Publish(b) \/ WakeupListener(b)
    \/ \E l \in Listeners :
          \/ AttachListener(l) \/ DetachListener(l) \/ LoopRun(l)
          \/ ProcessTake(l) \/ ProcessCallback(l) \/ ProcessEnd(l)

Spec == Init /\ [][Next]_vars

(* The loop thread runs an activated loop event, and a running pass       *)
(* continues to its end; nobody is obliged to publish, subscribe, attach  *)
(* or detach.                                                             *)
PassStep(l) ==
    LoopRun(l) \/ ProcessTake(l) \/ ProcessCallback(l) \/ ProcessEnd(l)

FairSpec == Spec /\ \A l \in Listeners : WF_vars(PassStep(l))

---------------------------------------------------------------------------
(* Properties.                                                            *)

TypeOK ==
    /\ subs \in [Labels -> Listeners \cup {NoOne}]
    /\ silent \in [Labels -> BOOLEAN]
    /\ callbacks \in [Listeners -> SUBSET Labels]
    /\ lst \in [Listeners -> ListenerType(Events)]
    /\ maxIter \in [Listeners -> IterChoices \cup {-1}]
    /\ counter \in [Listeners -> 0..MaxPublish]
    /\ passCap \in [Listeners -> IterChoices \cup {-1}]
    /\ inflight \in [Listeners -> [ev : Events, cb : BOOLEAN] \cup {NoOne}]
    /\ published \in 0..MaxPublish
    /\ delivered \in [Listeners -> Seq(1..MaxPublish)]
    /\ lastRecv \in [Listeners -> [Labels -> 0..MaxPublish]]
    /\ crash \in BOOLEAN

(* is_pending suppresses every later activation, so a pending listener on *)
(* a loop must have its loop event active or a pass running: otherwise    *)
(* its queue is never processed (receive, wakeup, attach after detach and *)
(* the end of a capped pass all have to keep this).                       *)
NoLostWakeup ==
    \A l \in Listeners :
       lst[l].pending /\ lst[l].attached => lst[l].active \/ lst[l].running

(* A listener's callbacks see the events in the order they were published *)
(* (spec.md, Ordering), coalescing and lock-free callbacks included.      *)
DeliveredInOrder ==
    \A l \in Listeners :
       \A i, j \in DOMAIN delivered[l] : i < j => delivered[l][i] < delivered[l][j]

QueuedVals(l) == {lst[l].queue[k].val : k \in DOMAIN lst[l].queue}

(* The newest value of a coalescing label a listener received is never    *)
(* lost: it is queued, in the callback now, or already delivered; merging *)
(* keeps the most recent data (spec.md, coalesced state update).          *)
NoUpdateLost ==
    \A l \in Listeners, b \in Coalescing :
       LET v == lastRecv[l][b] IN
          \/ v = 0
          \/ v \in QueuedVals(l)
          \/ (inflight[l] # NoOne /\ inflight[l].ev.val = v)
          \/ \E k \in DOMAIN delivered[l] : delivered[l][k] = v

(* A pending listener that stays attached to its loop eventually drains:  *)
(* processing passes, capped or not, rearm until the queue is empty.      *)
PendingDrains ==
    \A l \in Listeners :
       (lst[l].pending /\ lst[l].attached) ~> (~lst[l].pending \/ ~lst[l].attached)


==============================================================================

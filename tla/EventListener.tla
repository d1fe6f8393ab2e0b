--------------------------- MODULE EventListener ---------------------------
(***************************************************************************)
(* The event listener of src/tor/src/lib/evloop/events.c, as operators on  *)
(* a record that the modules composing a listener keep in a variable.      *)
(*                                                                         *)
(*   queue     the pending_events tail queue (a sequence of events)        *)
(*   pending   is_pending                                                  *)
(*   attached  eventloop_ev # NULL (the listener is attached to a loop)    *)
(*   active    eventloop_ev has been activated and not yet run             *)
(*   running   event_listener_process is executing on the loop thread     *)
(*                                                                         *)
(* Events are records with a "label" field.  A label whose callback has an *)
(* update_fn is a member of Coalescing; the tail of the queue absorbs a    *)
(* new event of the same such label (the update_fn result is abstracted to *)
(* the later event).  event_listener_process releases the listener lock    *)
(* around every callback, so a module takes one step per callback.         *)
(***************************************************************************)
EXTENDS Naturals, Sequences

ListenerType(Events) ==
    [queue : Seq(Events), pending : BOOLEAN, attached : BOOLEAN,
     active : BOOLEAN, running : BOOLEAN]

\* event_listener_new: an empty, detached listener.
NewListener ==
    [queue |-> <<>>, pending |-> FALSE, attached |-> FALSE,
     active |-> FALSE, running |-> FALSE]

ReceiveCoalesceAny(l, ev, notify, Coalescing) ==
    LET same == {k \in DOMAIN l.queue : l.queue[k].label = ev.label}
        coalesce == ev.label \in Coalescing /\ same # {}
        q == IF coalesce
             THEN [l.queue EXCEPT ![CHOOSE k \in same : TRUE] = ev]
             ELSE Append(l.queue, ev)
        wake == notify /\ ~l.pending
    IN [l EXCEPT !.queue = q,
                  !.pending = @ \/ wake,
                  !.active = @ \/ (wake /\ l.attached)]

ReceiveKeepOld(l, ev, notify, Coalescing) ==
    LET coalesce == /\ ev.label \in Coalescing
                    /\ l.queue # <<>>
                    /\ l.queue[Len(l.queue)].label = ev.label
        q == IF coalesce THEN l.queue ELSE Append(l.queue, ev)
        wake == notify /\ ~l.pending
    IN [l EXCEPT !.queue = q,
                  !.pending = @ \/ wake,
                  !.active = @ \/ (wake /\ l.attached)]

\* event_listener_receive: coalesce with the tail or append; a notifying
\* event makes a non-pending listener pending and activates its loop event
\* when it has one.
Receive(l, ev, notify, Coalescing) ==
    LET coalesce == /\ ev.label \in Coalescing
                    /\ l.queue # <<>>
                    /\ l.queue[Len(l.queue)].label = ev.label
        q == IF coalesce
             THEN [l.queue EXCEPT ![Len(l.queue)] = ev]
             ELSE Append(l.queue, ev)
        wake == notify /\ ~l.pending
    IN [l EXCEPT !.queue = q,
                  !.pending = @ \/ wake,
                  !.active = @ \/ (wake /\ l.attached)]

\* event_listener_wakeup: a non-pending listener with queued events becomes
\* pending and is activated when attached.
Wakeup(l) ==
    IF ~l.pending /\ l.queue # <<>>
    THEN [l EXCEPT !.pending = TRUE, !.active = @ \/ l.attached]
    ELSE l

AttachNoActivate(l) == [l EXCEPT !.attached = TRUE]

\* event_listener_attach: a fresh loop event, activated at once when the
\* listener is already pending.
Attach(l) == [l EXCEPT !.attached = TRUE, !.active = l.pending]

\* event_listener_detach: the loop event is freed with any activation it had;
\* is_pending and the queue are left as they are.
Detach(l) == [l EXCEPT !.attached = FALSE, !.active = FALSE]

\* event_listener_eventloop_cb firing: the loop event runs process.
CanBeginProcess(l) == l.attached /\ l.active /\ ~l.running

BeginProcess(l) == [l EXCEPT !.active = FALSE, !.running = TRUE]

CanProcessOne(l) == l.running /\ l.queue # <<>>

\* One iteration of the loop in event_listener_process (max_iterations < 0):
\* the head is removed before its callback runs.
PopHead(l) == [l EXCEPT !.queue = Tail(@)]

\* The end of event_listener_process once the queue is empty.
CanEndProcess(l) == l.running /\ l.queue = <<>>

EndProcess(l) == [l EXCEPT !.running = FALSE, !.pending = FALSE]
=============================================================================

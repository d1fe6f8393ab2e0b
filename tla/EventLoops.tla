------------------------------ MODULE EventLoops ------------------------------
(***************************************************************************)
(* The event loops of src/lib/evloop/compat_libevent.c: one libevent       *)
(* event_base per loop (index 0 on the main thread, one per additional     *)
(* thread), a rescan event per loop, mainloop events (plain and post-loop) *)
(* and periodic timers, with the calls a callback may make on them.       *)
(*                                                                         *)
(* libevent itself is not in this repository; its behaviour is taken as   *)
(* the loop's environment: an iteration polls (timeouts that have expired  *)
(* make their events active), then runs the active queue in FIFO order,    *)
(* events activated meanwhile included, and stops early after a callback   *)
(* that called event_base_loopbreak.  event_active on an active event does *)
(* nothing; running a non-persistent event deletes it; a persistent one is *)
(* re-added before its callback runs.  Time is abstracted: any armed       *)
(* timeout may have expired at a poll.                                     *)
(*                                                                         *)
(* What the user callbacks do is outside this file: each may make one of   *)
(* the calls this file offers on its own loop's events.                    *)
(***************************************************************************)
EXTENDS Integers, Sequences, SequencesExt

CONSTANTS
    NumAdditional,  \* num_additional_eventloops given to tor_libevent_initialize
    UserKinds       \* UserKinds[l]: the events created on loop l: "timer" for a
                    \* periodic timer, "post" for a post-loop mainloop event,
                    \* any other name for a plain mainloop event

\* num_eventloops = num_additional_eventloops + 1; index 0 is the main thread.
Loops == 0 .. NumAdditional

\* An event is its kind and the loop whose base it was created on.
Rescan(l) == <<"rescan", l>>
Events == {Rescan(l) : l \in Loops}
          \cup UNION {{<<k, l>> : k \in UserKinds[l]} : l \in Loops}
EvLoop(e) == e[2]
Kind(e) == e[1]
\* periodic_timer_new creates its event EV_PERSIST; mainloop events and the
\* rescan events are not persistent.
PersistentNone(e) == FALSE

Persistent(e) == Kind(e) = "timer"

MainloopEvents(l) == {<<k, l>> : k \in UserKinds[l] \ {"timer"}}
Timers(l) == {<<k, l>> : k \in UserKinds[l] \cap {"timer"}}

VARIABLES
    aq,       \* aq[l]: the active events of base l, in the order they run
    armed,    \* armed[e]: a timeout is pending for e (event_pending EV_TIMEOUT)
    brk,      \* brk[l]: event_base_loopbreak was called on base l
    phase,    \* phase[l]: "poll" before the dispatch, "process" after it
    waitPoll, \* waitPoll[e]: a post-loop callback activated e since l polled
    asked,    \* asked[l]: rescan_eventloops ran since base l last polled
    enabled   \* enabled[t]: timer t launched and not disabled since

vars == <<aq, armed, brk, phase, waitPoll, asked, enabled>>

-----------------------------------------------------------------------------
(* The state the calls act on, and libevent's primitives over it.          *)

St == [aq |-> aq, armed |-> armed, brk |-> brk, wait |-> waitPoll,
       asked |-> asked, enabled |-> enabled]

IsActive(S, e) == e \in ToSet(S.aq[EvLoop(e)])

EventActiveAgain(S, e, byPost) ==
    [S EXCEPT !.aq[EvLoop(e)] = Append(@, e), !.wait[e] = byPost]

\* event_active(ev, EV_READ, 1); byPost marks an activation a post-loop
\* callback made.
EventActive(S, e, byPost) ==
    IF IsActive(S, e) THEN S
    ELSE [S EXCEPT !.aq[EvLoop(e)] = Append(@, e), !.wait[e] = byPost]

\* event_add(ev, tv) with a timeout.
EventAdd(S, e) == [S EXCEPT !.armed[e] = TRUE]

\* event_del(ev): neither active nor pending.
EventDel(S, e) ==
    [S EXCEPT !.aq[EvLoop(e)] = Remove(@, e), !.armed[e] = FALSE,
              !.wait[e] = FALSE]

-----------------------------------------------------------------------------
(* The calls of compat_libevent.c a callback on loop l can make.           *)

\* rescan_eventloops: activate the rescan event of every loop.
RescanEventloopsFromOne(S) ==
    [S EXCEPT !.aq = [l \in Loops |->
                        IF l = 0 \/ IsActive(S, Rescan(l)) THEN S.aq[l]
                        ELSE Append(S.aq[l], Rescan(l))],
              !.asked = [l \in Loops |-> TRUE]]

RescanEventloops(S) ==
    [S EXCEPT !.aq = [l \in Loops |->
                        IF IsActive(S, Rescan(l)) THEN S.aq[l]
                        ELSE Append(S.aq[l], Rescan(l))],
              !.asked = [l \in Loops |-> TRUE]]

\* periodic_timer_launch: nothing if the timer is pending (or active, which
\* event_pending also reports), else event_add.
PeriodicTimerLaunch(S, t) ==
    IF S.armed[t] \/ IsActive(S, t) THEN [S EXCEPT !.enabled[t] = TRUE]
    ELSE [EventAdd(S, t) EXCEPT !.enabled[t] = TRUE]

\* periodic_timer_disable
PeriodicTimerDisable(S, t) == [EventDel(S, t) EXCEPT !.enabled[t] = FALSE]

\* The calls available to a callback running on loop l.
Calls(l) ==
    {[op |-> "none", x |-> Rescan(l)], [op |-> "rescan", x |-> Rescan(l)],
     [op |-> "exit", x |-> Rescan(l)]}
    \cup {[op |-> o, x |-> x] : o \in {"activate", "schedule", "cancel"},
                                x \in MainloopEvents(l)}
    \cup {[op |-> o, x |-> t] : o \in {"launch", "disable"}, t \in Timers(l)}

\* tor_libevent_exit_loop_after_callback: event_base_loopbreak.
ExitLoopAfterCallback(S, l) == [S EXCEPT !.brk[l] = TRUE]

\* A user callback making call c; byPost: it is a post-loop event's.
\* mainloop_event_activate, mainloop_event_schedule, mainloop_event_cancel,
\* periodic_timer_launch/disable, rescan_eventloops and
\* tor_libevent_exit_loop_after_callback.
UserCall(S, l, byPost, c) ==
    CASE c.op = "activate" -> EventActive(S, c.x, byPost)
      [] c.op = "schedule" -> EventAdd(S, c.x)
      [] c.op = "cancel"   -> EventDel(S, c.x)
      [] c.op = "launch"   -> PeriodicTimerLaunch(S, c.x)
      [] c.op = "disable"  -> PeriodicTimerDisable(S, c.x)
      [] c.op = "rescan"   -> RescanEventloops(S)
      [] c.op = "exit"     -> ExitLoopAfterCallback(S, l)
      [] OTHER             -> S

-----------------------------------------------------------------------------
(* The libevent callbacks of compat_libevent.c.                            *)

\* rescan_mainloop_cb: event_base_loopbreak on its own base.
RescanMainloopCb(S, l) == [S EXCEPT !.brk[l] = TRUE]

\* mainloop_event_cb: run the user callback.
MainloopEventCb(S, l, c) == UserCall(S, l, FALSE, c)

\* periodic_timer_cb: run the timer's user callback.
PeriodicTimerCb(S, l, c) == UserCall(S, l, FALSE, c)

MainloopEventPostloopCbLate(S, l, c) ==
    EventActive(UserCall(S, l, TRUE, c), Rescan(l), FALSE)

\* mainloop_event_postloop_cb: activate this thread's rescan event, then run
\* the user callback.
MainloopEventPostloopCb(S, l, c) ==
    UserCall(EventActive(S, Rescan(l), FALSE), l, TRUE, c)

\* libevent running event e: the callback given to event_new for it.
Callback(S, e, c) ==
    CASE Kind(e) = "rescan" -> RescanMainloopCb(S, EvLoop(e))
      [] Kind(e) = "post"   -> MainloopEventPostloopCb(S, EvLoop(e), c)
      [] Kind(e) = "timer"  -> PeriodicTimerCb(S, EvLoop(e), c)
      [] OTHER              -> MainloopEventCb(S, EvLoop(e), c)

-----------------------------------------------------------------------------
(* tor_libevent_initialize with its rescan events, periodic_timer_new for  *)
(* each timer, mainloop_event_new / _postloop_new for the others, and any  *)
(* of those given a timeout by mainloop_event_schedule during start-up;    *)
(* every loop about to poll.                                               *)

Init ==
    /\ aq = [l \in Loops |-> <<>>]
    /\ \E sched \in SUBSET UNION {MainloopEvents(l) : l \in Loops} :
          armed = [e \in Events |-> Kind(e) = "timer" \/ e \in sched]
    /\ brk = [l \in Loops |-> FALSE]
    /\ phase = [l \in Loops |-> "poll"]
    /\ waitPoll = [e \in Events |-> FALSE]
    /\ asked = [l \in Loops |-> FALSE]
    /\ enabled = [e \in Events |-> Kind(e) = "timer"]

Set(S) ==
    /\ aq' = S.aq
    /\ armed' = S.armed
    /\ brk' = S.brk
    /\ waitPoll' = S.wait
    /\ asked' = S.asked
    /\ enabled' = S.enabled

\* The dispatch of an iteration of base l: the expired timeouts in fired
\* make their events active (an active one moves to the tail: the timeout
\* deletes it, then activates it); every event activated before it has now
\* waited for a poll.
Dispatch(l) ==
    /\ phase[l] = "poll"
    /\ ~brk[l]
    /\ \E fired \in SUBSET {e \in Events : EvLoop(e) = l /\ armed[e]} :
       \E order \in SetToSeqs(fired) :
          /\ aq' = [aq EXCEPT ![l] = SelectSeq(@, LAMBDA e : e \notin fired)
                                     \o order]
          /\ armed' = [e \in Events |-> armed[e] /\ e \notin fired]
    /\ waitPoll' = [e \in Events |-> waitPoll[e] /\ EvLoop(e) # l]
    /\ asked' = [asked EXCEPT ![l] = FALSE]
    /\ phase' = [phase EXCEPT ![l] = "process"]
    /\ UNCHANGED <<brk, enabled>>

\* Run the head of the active queue: a non-persistent event is deleted, a
\* persistent one re-added, then its callback runs.
RunHead(l) ==
    /\ phase[l] = "process"
    /\ ~brk[l]
    /\ aq[l] # <<>>
    /\ LET e == Head(aq[l])
           S0 == [St EXCEPT !.aq[l] = Tail(@), !.wait[e] = FALSE,
                            !.armed[e] = Persistent(e)]
       IN \E c \in Calls(l) : Set(Callback(S0, e, c))
    /\ UNCHANGED phase

\* The active queue is empty: the next iteration polls.
EndIteration(l) ==
    /\ phase[l] = "process"
    /\ ~brk[l]
    /\ aq[l] = <<>>
    /\ phase' = [phase EXCEPT ![l] = "poll"]
    /\ UNCHANGED <<aq, armed, brk, waitPoll, asked, enabled>>

\* event_base_loop returns after a loopbreak and the loop's thread calls
\* tor_libevent_run_event_loop again, which clears the break and polls.
Reenter(l) ==
    /\ brk[l]
    /\ brk' = [brk EXCEPT ![l] = FALSE]
    /\ phase' = [phase EXCEPT ![l] = "poll"]
    /\ UNCHANGED <<aq, armed, waitPoll, asked, enabled>>

LoopStep(l) == Dispatch(l) \/ RunHead(l) \/ EndIteration(l) \/ Reenter(l)

Next == \E l \in Loops : LoopStep(l)

Spec == Init /\ [][Next]_vars

\* Every loop's thread keeps running its loop.
FairSpec == Spec /\ \A l \in Loops : WF_vars(LoopStep(l))

-----------------------------------------------------------------------------
TypeOK ==
    /\ aq \in [Loops -> Seq(Events)]
    /\ \A l \in Loops : \A e \in ToSet(aq[l]) : EvLoop(e) = l
    /\ \A l \in Loops : IsInjective(aq[l])
    /\ armed \in [Events -> BOOLEAN]
    /\ brk \in [Loops -> BOOLEAN]
    /\ phase \in [Loops -> {"poll", "process"}]
    /\ waitPoll \in [Events -> BOOLEAN]
    /\ asked \in [Loops -> BOOLEAN]
    /\ enabled \in [Events -> BOOLEAN]

\* mainloop_event_postloop_cb (compat_libevent.c:481): an event a post-loop
\* callback activates does not run until its loop has polled again.  This
\* rests on the rescan event being queued before the callback's own
\* activations and on loopbreak ending the pass.
PostloopActivationsWaitForPoll ==
    [][\A l \in Loops : RunHead(l) => ~waitPoll[Head(aq[l])]]_vars

\* rescan_eventloops (compat_libevent.c:146) tells every loop to stop soon:
\* each loop polls again afterwards, even while its callbacks keep
\* activating plain mainloop events that would keep the pass going.
RescanForcesPoll == \A l \in Loops : asked[l] ~> ~asked[l]

\* A periodic timer that was launched and not disabled is pending or about
\* to run: it keeps firing every interval (periodic_timer_new creates it
\* EV_PERSIST, and periodic_timer_launch does nothing while it is pending).
EnabledTimerScheduled ==
    \A l \in Loops : \A t \in Timers(l) :
        enabled[t] <=> (armed[t] \/ IsActive(St, t))
==============================================================================

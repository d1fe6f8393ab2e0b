----------------------------- MODULE DelayChain -----------------------------
(***************************************************************************)
(* The per-circuit delay sampler of src/tor/src/core/or/channeltls.c and   *)
(* the default path of channel_tls_handle_cell that uses it.               *)
(*                                                                         *)
(* A middle node that receives a cell whose command lies in                *)
(* CELL_RELAY_DELAY_LOWEST .. CELL_RELAY_DELAY_HIGHEST computes a delay    *)
(* with get_delay_timespec, sleeps, rewrites the command to CELL_RELAY and *)
(* passes the cell on.  The delay walks a Markov chain kept in             *)
(* circ->delay_state:                                                      *)
(*                                                                         *)
(*   get_delay_timespec      retry while ms > scale * 1e6                  *)
(*     get_delay_microseconds  retry while generate_delay returned < 0     *)
(*       update_circ_delay_state  repeat while the state is 0, 7, 10, 24   *)
(*       generate_delay        + or - a log-normal sample                  *)
(*                                                                         *)
(* Every uniform draw r of update_circ_delay_state and generate_delay is   *)
(* abstracted to the choice of a branch whose interval of r is non-empty;  *)
(* every threshold of both functions lies strictly between 0 and 1 and    *)
(* they increase along each row, so every branch written is possible.     *)
(* The log-normal magnitudes are abstracted to their sign, and the         *)
(* comparison ms > scale * 1e6 to a choice that is open only when scale    *)
(* is not 0.                                                               *)
(***************************************************************************)
EXTENDS Naturals, TLC

CONSTANTS
    DelayCommands,   \* CELL_RELAY_DELAY_LOWEST .. CELL_RELAY_DELAY_HIGHEST
    Lowest,          \* CELL_RELAY_DELAY_LOWEST, whose scale factor is 0
    Relay,           \* CELL_RELAY
    NoCommand        \* no cell in hand, nothing passed on yet

ASSUME Lowest \in DelayCommands /\ Relay \notin DelayCommands

VARIABLES
    delay_state,   \* circ->delay_state
    pc,            \* where the cell-processing thread is
    cmd,           \* the command of the cell being delayed
    updates,       \* calls of update_circ_delay_state in the current inner loop
    out            \* the command last handed to channel_process_cell

vars == <<delay_state, pc, cmd, updates, out>>

\* The values delay_state takes: the rows of update_circ_delay_state.
States == 0..27

\* The hop as channel_tls_handle_cell sees it: whether the circuit id names
\* a circuit, whether that circuit has an n_chan, and whether the previous
\* and the next node's addresses are in the nodelist.
Hops == [circ : BOOLEAN, nchan : BOOLEAN, prevKnown : BOOLEAN,
         nextKnown : BOOLEAN]

(* probably_middle_node: false without a circuit or an n_chan (an exit),  *)
(* otherwise both neighbours must be relays of the nodelist.              *)
ProbablyMiddleNode(hop) ==
    hop.circ /\ hop.nchan /\ hop.prevKnown /\ hop.nextKnown

\* update_circ_delay_state, the rows for states 0 to 9: the successors of
\* each state, one per branch of its if/else-if chain on r.
UpdateRowsA ==
    (0 :> {4, 2, 18, 11, 14, 25, 22}) @@ (1 :> {1, 4, 2, 5, 3})
    @@ (2 :> {1, 8, 7}) @@ (3 :> {1, 4, 3}) @@ (4 :> {4, 2, 3, 8})
    @@ (5 :> {9, 8}) @@ (6 :> {4, 5}) @@ (7 :> {0})
    @@ (8 :> {1, 4, 6, 2, 5, 8}) @@ (9 :> {6, 2, 8})

\* The rows for states 10 to 18.
UpdateRowsB ==
    (10 :> {0}) @@ (11 :> {15, 14}) @@ (12 :> {11, 15, 14})
    @@ (13 :> {17, 13, 14, 10}) @@ (14 :> {12, 15})
    @@ (15 :> {18, 17, 11, 13, 10}) @@ (16 :> {0})
    @@ (17 :> {18, 17, 11, 13, 15, 14}) @@ (18 :> {18, 12, 10})

UpdateRowsCTypo ==
    (19 :> {19, 25}) @@ (20 :> {26, 27, 22, 24}) @@ (21 :> {24})
    @@ (22 :> {19, 20, 23, 22, 24}) @@ (23 :> {27, 25, 22, 24})
    @@ (24 :> {0}) @@ (25 :> {22}) @@ (26 :> {20, 23, 21})
    @@ (27 :> {19, 27, 28})

UpdateRowsCSelfLoop ==
    (19 :> {19, 25}) @@ (20 :> {26, 27, 22, 24}) @@ (21 :> {24})
    @@ (22 :> {19, 20, 23, 22, 24}) @@ (23 :> {27, 25, 22, 24})
    @@ (24 :> {24}) @@ (25 :> {22}) @@ (26 :> {20, 23, 21})
    @@ (27 :> {19, 27, 22})

\* The rows for states 19 to 27.
UpdateRowsC ==
    (19 :> {19, 25}) @@ (20 :> {26, 27, 22, 24}) @@ (21 :> {24})
    @@ (22 :> {19, 20, 23, 22, 24}) @@ (23 :> {27, 25, 22, 24})
    @@ (24 :> {0}) @@ (25 :> {22}) @@ (26 :> {20, 23, 21})
    @@ (27 :> {19, 27, 22})

(* update_circ_delay_state: the row of the state, and the final else that *)
(* sends any other value to 0.                                            *)
UpdateCircDelayState(s) ==
    LET rows == UpdateRowsA @@ UpdateRowsB @@ UpdateRowsC
    IN IF s \in DOMAIN rows THEN rows[s] ELSE {0}

\* The states generate_delay has a distribution for; any other returns 0.0.
DelayDistributions == (1..6) \cup {8, 9} \cup (11..23) \cup (25..27)

GenerateDelayNeg27(s) ==
    IF s = 27 THEN {"neg"}
    ELSE IF s \in DelayDistributions THEN {"pos", "neg"} ELSE {"zero"}

(* generate_delay: the sign of the sample.  Every distribution returns   *)
(* +lognormal below its threshold and -lognormal above it.               *)
GenerateDelay(s) ==
    IF s \in DelayDistributions THEN {"pos", "neg"} ELSE {"zero"}

SkipStatesNo24 == {0, 7, 10}

\* The condition of get_delay_microseconds' inner do-while.
SkipStates == {0, 7, 10, 24}

\* get_delay_scale_factor is (command - LOWEST) / (HIGHEST - LOWEST).
ScaleIsZero(c) == c = Lowest

-----------------------------------------------------------------------------

\* A circuit starts with delay_state 0 (circuits are allocated zeroed).
Init ==
    /\ delay_state = 0
    /\ pc = "idle"
    /\ cmd = NoCommand
    /\ updates = 0
    /\ out = NoCommand

(* channel_tls_handle_cell, default branch, for a delay command: a middle *)
(* node enters get_delay_timespec; any other hop passes the cell on with  *)
(* its command unchanged.                                                 *)
HandleDelayCell(c, hop) ==
    /\ pc = "idle"
    /\ IF ProbablyMiddleNode(hop)
         THEN /\ pc' = "update"
              /\ cmd' = c
              /\ updates' = 0
              /\ UNCHANGED out
         ELSE /\ out' = c
              /\ UNCHANGED <<pc, cmd, updates>>
    /\ UNCHANGED delay_state

(* One pass of the inner do-while of get_delay_microseconds.             *)
UpdateStep ==
    /\ pc = "update"
    /\ \E t \in UpdateCircDelayState(delay_state) :
          /\ delay_state' = t
          /\ pc' = IF t \in SkipStates THEN "update" ELSE "generate"
    /\ updates' = updates + 1
    /\ UNCHANGED <<cmd, out>>

(* generate_delay returned a negative value: it is added to sum_delay and *)
(* the outer do-while runs the inner one again.                           *)
DrawNegative ==
    /\ pc = "generate"
    /\ "neg" \in GenerateDelay(delay_state)
    /\ pc' = "update"
    /\ updates' = 0
    /\ UNCHANGED <<delay_state, cmd, out>>

(* A value >= 0 (0.0 for a state without a distribution) ends             *)
(* get_delay_microseconds.                                                *)
DrawNonNegative ==
    /\ pc = "generate"
    /\ GenerateDelay(delay_state) \ {"neg"} # {}
    /\ pc' = "check"
    /\ UNCHANGED <<delay_state, cmd, updates, out>>

(* get_delay_timespec: ms = scale * sum exceeded scale * 1e6, sample again *)
Resample ==
    /\ pc = "check"
    /\ ~ScaleIsZero(cmd)
    /\ pc' = "update"
    /\ updates' = 0
    /\ UNCHANGED <<delay_state, cmd, out>>

(* The sample is kept: nanosleep (retried on EINTR), the command becomes  *)
(* CELL_RELAY and the cell goes to channel_process_cell.                  *)
SleepAndPass ==
    /\ pc = "check"
    /\ pc' = "idle"
    /\ out' = Relay
    /\ cmd' = NoCommand
    /\ UNCHANGED <<delay_state, updates>>

\* The steps of a get_delay_timespec call in progress.
CallStep == UpdateStep \/ DrawNegative \/ DrawNonNegative \/ Resample
            \/ SleepAndPass

Next ==
    \/ \E c \in DelayCommands, hop \in Hops : HandleDelayCell(c, hop)
    \/ CallStep

Spec == Init /\ [][Next]_vars

(* The thread that entered get_delay_timespec keeps running.  Each draw   *)
(* is independent and every branch has a positive probability, so a       *)
(* non-negative delay and an accepted sample, possible again and again,   *)
(* eventually happen (strong fairness stands for probability 1).          *)
FairSpec ==
    /\ Spec
    /\ WF_vars(CallStep)
    /\ SF_vars(DrawNonNegative)
    /\ SF_vars(SleepAndPass)

-----------------------------------------------------------------------------

TypeOK ==
    /\ delay_state \in States
    /\ pc \in {"idle", "update", "generate", "check"}
    /\ cmd \in DelayCommands \cup {NoCommand}
    /\ updates \in Nat
    /\ out \in DelayCommands \cup {Relay, NoCommand}

(* The inner loop of get_delay_microseconds only stops on a state that    *)
(* generate_delay has a distribution for: the skip list 0, 7, 10, 24 and  *)
(* the else branch of generate_delay, written separately, must agree, or  *)
(* a delay of 0.0 ends the sampling.                                      *)
GeneratedStateHasDelay ==
    pc = "generate" => delay_state \in DelayDistributions

(* The inner loop ends after at most three updates: a restart state (7,   *)
(* 10, 24) always goes to 0, and 0 never goes to a restart state, so the  *)
(* do-while cannot spin on the chain.                                     *)
InnerLoopBounded == updates <= 3

(* A cell that a middle node delays is eventually passed on: the negative *)
(* draws of get_delay_microseconds and the retries of get_delay_timespec  *)
(* end.                                                                   *)
DelayedCellPassedOn == pc # "idle" ~> pc = "idle"
=============================================================================

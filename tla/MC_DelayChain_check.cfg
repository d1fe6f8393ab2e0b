\* The delay sampler on a middle node and on every other hop, under the
\* fairness that stands for its draws' probabilities.
CONSTANTS
    d0 = d0
    d1 = d1
    Relay = Relay
    NoCommand = NoCommand
    DelayCommands <- MCDelayCommands
    Lowest = d0
SPECIFICATION FairSpec
INVARIANTS
    TypeOK
    GeneratedStateHasDelay
    InnerLoopBounded
PROPERTIES
    DelayedCellPassedOn

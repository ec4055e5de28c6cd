\* Three jobs of two kinds and two activations: enough for a revoked job to answer
\* while a later one of its own kind holds the slot, twice over.
CONSTANTS
    j1 = j1
    j2 = j2
    j3 = j3
    SpeedTest = SpeedTest
    CoreUpdate = CoreUpdate
    None = None
    Jobs = {j1, j2, j3}
    Kinds = {SpeedTest, CoreUpdate}
    MaxActivations = 2
SPECIFICATION Spec
INVARIANTS OneHolder SlotBelongsToActivation
PROPERTIES SlotFreed ImplementsSlot
\* Every job is asked for once and the activations are bounded: the system may come to rest.
CHECK_DEADLOCK FALSE

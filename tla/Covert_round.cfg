SPECIFICATION Spec
CONSTANTS
    NumSlots = 2
    NumSpares = 1
    InputSlots = {1}
    MaxPhase = 2
    MaxFailures = 2
INVARIANTS TypeOK PhaseComplete UnlinkedSlots
CHECK_DEADLOCK FALSE

SPECIFICATION Spec
CONSTANTS
    NumSlots = 2
    NumSpares = 1
    InputSlots = {1}
    MaxPhase = 2
    MaxFailures = 2
INVARIANTS SlotIsServed
CHECK_DEADLOCK FALSE

CONSTANTS
    SIZE = 3
    Registers = {r1, r2, r3}
    Immediates <- MC_Immediates
    Multiplies = {"stacked"}
    MaxSteps = 1
SPECIFICATION Spec
CHECK_DEADLOCK FALSE
INVARIANTS NoConstants LengthExact
PROPERTY ImplementsIsa

CONSTANTS
    SIZE = 3
    Registers = {r1, r2}
    Immediates <- MC_Immediates
    Multiplies = {"stacked", "plain"}
    MaxSteps = 1
SPECIFICATION Spec
CHECK_DEADLOCK FALSE
PROPERTY MulMultiplies

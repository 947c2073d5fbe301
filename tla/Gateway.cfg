SPECIFICATION Spec
CONSTANTS
    Requests = {r1, r2, r3}
    NoRequest = NoRequest
    NoKey = NoKey
    Shapes <- FourShapes
    Plans <- TwoPlans
    FirstPlan <- Small
    Window = 3
    MaxStall = 1
    MaxTime = 3
    MaxTrouble = 1
SYMMETRY RequestSymmetry
INVARIANTS OneMeaning CapHeld RateHeld
CHECK_DEADLOCK FALSE

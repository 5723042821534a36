SPECIFICATION Spec
CONSTANTS
    Cases <- RangeCases
    HeapSize = 240
    StackSize = 260
    MaxSteps = 3000
INVARIANT ComputesMeaning

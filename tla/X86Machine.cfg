SPECIFICATION Spec
CONSTANTS
    Cases <- MCCases
    HeapSize = 240
    StackSize = 260
    MaxSteps = 3000
INVARIANTS ComputesMeaning FramesRestored StackAgreesAtLabels

SPECIFICATION Spec
CONSTANTS
    w1 = w1
    w2 = w2
    Writer = {w1, w2}
    Window = 3
    SampleAbove = 2
    SampleStep = 2
    DefaultTime = 100
    MaxTime = 2
    MaxSamples = 7
SYMMETRY Symmetry
INVARIANTS
    AverageIsRecent
    AverageOfWindow

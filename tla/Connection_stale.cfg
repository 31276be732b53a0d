SPECIFICATION Spec
CONSTANTS
    Loops = {g1, g2}
    Main = main
    MaxStrikes = 2
SYMMETRY Interchangeable
PROPERTY
    StaleLoopIsInert

SPECIFICATION FairSpec
CONSTANTS
    Loops = {g1}
    Main = main
    MaxStrikes = 1
PROPERTIES
    Reconnects
    LossEndsProcess

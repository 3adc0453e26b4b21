CONSTANTS
    MaxIncoming = 2
    MaxTexts = 1
    MaxRuns = 2
    MaxRestarts = 1
SPECIFICATION FairSpec
INVARIANTS ConvInv ScreenComplete InOrder
PROPERTIES WhyDiscarded NothingForgotten ShownSoon
CHECK_DEADLOCK FALSE

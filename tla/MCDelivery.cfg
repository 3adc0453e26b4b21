CONSTANTS
    short = short
    long = long
    Adder <- TwoAdders
    Size <- Sizes
    MaxAdds <- Adds
    MaxLoads = 3
    Overlap = {TRUE, FALSE}
    MaxCrashes = 1
SPECIFICATION FairDSpec
INVARIANTS FileInv DeliveryInv
PROPERTIES ImplementsStore AcceptedIsSent
CHECK_DEADLOCK FALSE

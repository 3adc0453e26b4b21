CONSTANTS
    User = {a, b}
    NewUser = {b}
    MaxRequests = 2
    MaxSent = 3
    MaxStops = 1
SPECIFICATION Spec
INVARIANTS FriendsInv KeysMatch FirstsAgree CanReturn
CHECK_DEADLOCK FALSE

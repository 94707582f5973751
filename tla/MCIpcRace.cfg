SPECIFICATION Spec
CONSTANTS
    Proc = {1, 2}
    Mortal = {}
    MaxSends = 3
INVARIANT
    ReceivedWasSent

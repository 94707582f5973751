SPECIFICATION FairSpec
CONSTANTS
    Proc = {1, 2, 3}
    Mortal = {}
    MaxSends = 2
PROPERTY
    WaiterReturns

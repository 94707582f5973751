SPECIFICATION Spec
CONSTANTS
    Proc = {1, 2}
    Mortal = {2}
    MaxSends = 3
INVARIANT
    AssertPtr

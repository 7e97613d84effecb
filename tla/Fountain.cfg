SPECIFICATION FairSpec
CONSTANTS
    v3 = v3
    v6 = v6
    NoCut = NoCut
    Cuts = {v3, v6}
    FragmentsOf <- Lengths
    Fountains <- SmallFountains
    Wrap = 5
    MaxMixed = 2
INVARIANTS Faithful PeelingComplete
PROPERTY Completes

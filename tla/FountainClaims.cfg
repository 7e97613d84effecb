\* Two claims the code makes of itself and does not keep: put one of them in
\* the place of the last line.
\*   PROPERTY RepeatRedundant   PROPERTY SwitchCompletes
SPECIFICATION FairSpec
CONSTANTS
    v3 = v3
    v6 = v6
    NoCut = NoCut
    Cuts = {v3, v6}
    FragmentsOf <- Lengths
    Fountains <- SmallFountains
    Wrap = 5
    MaxMixed = 2
PROPERTY SwitchCompletes

\* Up to four threads, two images (or seven), two groups and up to three blocks
\* of channels; the source is transposed or read in place.
SPECIFICATION FairSpec
CONSTANTS
    Threads = {2, 4}
    InPlaceThreads = {3}
    Groups = {1, 2}
    Shapes <- SmallShapes
INVARIANTS FitsTheTeam NoDataRace ResultIsComplete
PROPERTY Terminates

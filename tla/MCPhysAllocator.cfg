CONSTANTS
    WordBits = 2
    BitmapSize = 4
    StartPage = 3
    NumPages = 9
    Owners = {o1, o2}
    MaxRun = 3
SYMMETRY Symmetry
SPECIFICATION Spec
INVARIANTS
    TypeOK
    NoPageHandedOutTwice
    NoPageLost
    CountIsExact
    NoneOnlyWhenExhausted
    HintBelowFree
    UsedIsHeld

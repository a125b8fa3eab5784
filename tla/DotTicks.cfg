SPECIFICATION DotSpec
CONSTANTS
    flay = flay
    poison = poison
    Dots = {flay, poison}
    Channels = {flay}
    OwnEnding = {poison}
    Hasted = {flay, poison}
    Shrinking = {flay}
    NoDot = NoDot
    BaseCount = 2
    BaseLength = 2
    Periods = {1, 3}
    GCD = 3
    Reaction = 1
    Clip = 1
    Window = 1
    Never = 99
    FightEnd = 7
CHECK_DEADLOCK FALSE
INVARIANTS
    DotTypeOK
    NoExtraTick
    TicksKept
    RotationNeverLost

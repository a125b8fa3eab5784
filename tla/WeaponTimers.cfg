CONSTANTS
    player = player
    boss = boss
    mh = mh
    oh = oh
    bite = bite
    NoAttack = NoAttack
    Units = {player, boss}
    Roster <- MCRoster
    Hands <- MCHands
    Speed <- MCSpeed
    MaxDelay = 1
    MaxTime = 5
    Never = 20
SPECIFICATION Spec
INVARIANTS
    TypeOK
    AttacksKept
PROPERTIES
    SwingsOnTime

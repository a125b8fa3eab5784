CONSTANTS
    player = player
    fox = fox
    owl = owl
    slice = slice
    subtlety = subtlety
    frenzy = frenzy
    roar = roar
    NoUnit = NoUnit
    Auras = {slice, subtlety, frenzy, roar}
    Roster <- MCRoster
    Pets = {fox, owl}
    UnitOf <- MCUnitOf
    Durations <- MCDurations
    MaxTime = 3
    Never = 6
SPECIFICATION Spec
INVARIANTS
    TypeOK
    ListsAgree
    CachesCover
    NoExpiredAura

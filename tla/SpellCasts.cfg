SPECIFICATION Spec
CONSTANTS
  bolt = bolt
  slam = slam
  trinket = trinket
  Spells = {bolt, slam, trinket}
  CastTime <- MCCastTime
  Gcd <- MCGcd
  Cooldown <- MCCooldown
  NoSpell = NoSpell
  Rulesets = {"tbc", "classic60"}
  Reaction = 4
  Pushback = 4
  QueueWindow = 8
  EventTimes <- MCEventTimes
  MaxTime = 21
  MaxHits = 2
INVARIANTS TypeOK CastsOnTime AgendaKept
PROPERTIES CooldownsHold
CHECK_DEADLOCK FALSE

SPECIFICATION Spec
CONSTANTS
  bolt = bolt
  slam = slam
  trinket = trinket
  Spells = {bolt, slam, trinket}
  CastTime <- MCCastTime
  Gcd <- MCGcd
  Cooldown <- MCCooldown
  NoSpell = NoSpell
  Rulesets = {"tbc"}
  Reaction = 4
  Pushback = 4
  QueueWindow = 8
  EventTimes <- MCEventTimes
  MaxTime = 21
  MaxHits = 2
INVARIANT EveryCastEnds
CHECK_DEADLOCK FALSE

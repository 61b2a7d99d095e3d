CONSTANTS
  gasSeen = gasSeen
  opcSeen = opcSeen
  ldUnseen = ldUnseen
  bfdBroken = bfdBroken
  Mutants = {gasSeen, opcSeen, ldUnseen, bfdBroken}
  NoMutant = NoMutant
  FileOf <- MCFileOf
  LineOf <- MCLineOf
  Visible = {gasSeen, opcSeen}
  NoBuild = {bfdBroken}
  MaxRuns = 2
SPECIFICATION Spec
INVARIANTS
  SurvivorIsAHole
  KillIsEarned
  SourcesAsFound
CHECK_DEADLOCK FALSE

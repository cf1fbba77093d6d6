SPECIFICATION FairSpec
CONSTANTS
  sample = sample
  other = other
  Programs <- MCPrograms
  Sample = sample
  NoLink = NoLink
  Broken = Broken
  MaxBoots = 3
  MaxFailures = 2
  MaxReloads = 2
INVARIANTS TypeOK OneSession FreshIsFresh DisabledWhileBooting EditsSurvive
PROPERTIES ButtonsComeBack CrashedIsReplaced
CHECK_DEADLOCK FALSE

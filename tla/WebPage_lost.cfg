SPECIFICATION Spec
CONSTANTS
  sample = sample
  other = other
  Programs <- MCPrograms
  Sample = sample
  NoLink = NoLink
  Broken = Broken
  MaxBoots = 3
  MaxFailures = 1
  MaxReloads = 1

PROPERTIES DefinitionsKept
CHECK_DEADLOCK FALSE

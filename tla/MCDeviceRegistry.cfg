\* Four files, any two events.
CONSTANTS
  None = None
  Files <- FourFiles
  KeyOf <- TwoKeys
  Arrivals <- FewArrivals
  Present <- AtStart
  Customers = {"c", "d"}
  Users = {"u"}
  RuleSet <- OneRule
  Forms <- FewForms
  MaxEvents = 2
SPECIFICATION Spec
INVARIANTS
  TypeOK
  NoOrphans
  MergedDisjoint
  SyncAssigns
  SeenByRight
PROPERTIES
  RegistrySettles

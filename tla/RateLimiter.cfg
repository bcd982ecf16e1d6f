SPECIFICATION Spec
CONSTANTS
  Limit = 3
  Window = 3
  MaxHits = 8
  Horizon = 8
INVARIANTS
  TypeOK
  NeverTooMany
  RefusedOnlyWhenFull

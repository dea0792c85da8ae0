SPECIFICATION Spec
CONSTANTS
  v1 = v1
  v2 = v2
  v3 = v3
  None = None
  Versions <- MCVersions
  Variant <- MCVariant
  Window = 2
  MaxElections = 3
INVARIANTS
  TypeOK
  MissingRatherThanWrong
  OkSyncAgrees
PROPERTY
  AliasIsCatalogued

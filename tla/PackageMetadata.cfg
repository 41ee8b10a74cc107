SPECIFICATION Spec
CONSTANTS
  Package <- MCPackage
  Option = {"C", "O"}
  Virtual = {"V"}
  Metadata <- MCMetadata
  None = None
INVARIANTS
  DependsMet
  NothingMoreAsked
  CompiledBefore
CHECK_DEADLOCK FALSE

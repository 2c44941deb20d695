CONSTANTS
  Entries = {"tx", "rx0"}
  Callbacks = {f, g}
  Nodes = {n1, n2}
  Null = Null
  Garbage = Garbage
  MaxFails = 1
  Order <- MCOrder
  Once = {"a_rx"}
  FlagFirst = {"d_ini"}
  Role <- MCRole
  Uses <- MCUses
SPECIFICATION MCSpec
INVARIANTS TypesOK HeapBalanced OnlyOwnCallbacks FlagsClearAtStart
PROPERTIES ListsAreSets RunsOncePerStart EveryTaskGetsItsTurn

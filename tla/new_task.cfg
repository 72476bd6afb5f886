SPECIFICATION Spec
CONSTANTS
  CloneFlags <- SomeCalls
  Maps <- SomeMaps
INVARIANTS GivesBackOwn InheritanceExact SeccompExact AllOrNothing
CHECK_DEADLOCK FALSE

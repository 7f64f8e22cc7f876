CONSTANT NumHooks <- SomeHooks
SPECIFICATION Spec
CHECK_DEADLOCK FALSE
INVARIANT
  StopIsGraceful

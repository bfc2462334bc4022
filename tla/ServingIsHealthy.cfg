CONSTANT MaxVersion = 4
SPECIFICATION Spec
INVARIANT ServingIsHealthy
CHECK_DEADLOCK FALSE

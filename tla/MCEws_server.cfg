CONSTANT Conns = {c1, c2, c3}
SPECIFICATION FairSpec
INVARIANTS NoUseAfterFree CountExact ActiveExact NoLostWakeup
PROPERTIES
  ImplementsService
  StopReturnsOnceBound ClientsReleased

CONSTANT Conns = {c1}
SPECIFICATION FairSpec
PROPERTY StopReturns

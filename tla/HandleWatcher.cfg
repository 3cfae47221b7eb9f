SPECIFICATION Spec

INVARIANT TypeOK
INVARIANT StopReadsOwnRound
INVARIANT WaitsetExclusive
PROPERTY StopReturns
PROPERTY SignalDispatched

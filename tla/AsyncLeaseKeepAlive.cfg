SPECIFICATION FairSpec
INVARIANTS NothingInFlight TTLIsFresh
PROPERTIES ImplementsCall OperationReturns

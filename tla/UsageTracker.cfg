SPECIFICATION FairSpec
CONSTANTS
  Event = {e1, e2}
  Querier = {q1}
  Worker = Worker
  Closer = Closer
  BufferSize = 2
  MaxRetries = 1
  Postgres = TRUE
INVARIANT TypeOK StoredOnce FlushRequested QueryMissesOnlyInFlight CloseDrains
PROPERTY KeepsLedger Settles

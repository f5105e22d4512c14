SPECIFICATION FairSpec
CONSTANTS
  Event = {e1, e2, e3}
  QueueSize = 1
  MaxRetries = 1
  NoEvent = NoEvent
INVARIANT InOrder Accounted CloseDrains
PROPERTY Settled

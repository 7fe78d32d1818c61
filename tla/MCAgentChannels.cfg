\* Terminals do not meet but for the message counter: one is enough.
SPECIFICATION FairSpec
CONSTANTS
  Terminal = {t1}
  MaxMessages = 3
  MaxRecords = 1
  NoSession = NoSession
  Nobody = Nobody
INVARIANTS TypedOnceInOrder
PROPERTIES WaitingOutlastsThePoll DeliveredAtTurnsEnd

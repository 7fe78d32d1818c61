\* Three registry states: one on disk, one on its way, one to come.
SPECIFICATION FairSpec
CONSTANTS
  Value = {v1, v2, v3}
  Torn = Torn
  None = None
PROPERTIES GracefulStopIsDurable RefinesWriteBehind EventuallyOnDisk
\* A torn file stops the next start.
CHECK_DEADLOCK FALSE

SPECIFICATION FairSpec
CONSTANTS
  Notices = {n1, n2}
  NoNotice = NoNotice
  MaxFaults = 2
INVARIANT TypeOK
INVARIANT NoLostWakeup
INVARIANT BackoffUndisturbed
INVARIANT EmailedRowsGone
INVARIANT NothingForgotten
PROPERTY EveryNoticeSettled
CHECK_DEADLOCK FALSE

SPECIFICATION Spec
CONSTANTS
  Stream <- MCStream
  First = 14
  SeqSpace = 16
  Opening = {1}
  Ahead = 3
  Behind = 2
  MaxTwice = 1
  MaxTime = 4
  Window = 4
  MaxFrames = 2
  MaxPackets = 2
  MaxNackGap = 1
  MaxRanges = 1
  MaxRounds = 2
  NackBudget = 1
  NackSpan = 1
  NackWindow = 1
  RetryAfter = 1
  Rtt = 1
  Hold = 1
  MissingHold = 2
  RecoveryHold = 3
  MaxFrameHold = 3
  NotifyGap = 3
  SoftWindow = 2
  MaxHeadBlocked = 1
  HeadBlockedHold = 1
INVARIANTS RequestSafety AccountingSafety
PROPERTIES DeliversFrames
CHECK_DEADLOCK FALSE

\* Two reports of one fingerprint in two overlapping calls, judged by two rules; a firing told to two channels;
\* three rows and a window of two days; exceptions one level deep; one rule, from a form with three fields filled in.
CONSTANTS
  Events = {e1, e2}
  Alike = {e1, e2}
  Calls = {c1, c2}
  Rules = {"new_fingerprint", "volume_threshold"}
  Fingerprint <- MCFingerprint
  Matching <- MCMatching
  Condition <- MCCondition
  Threshold <- Twos
  Window <- Ones
  Cooldown <- Ones
  MaxNow = 2
  Null = Null
  Firings = {f1}
  Channels = {h1, h2}
  SendTimeout = 2
  Delays <- MCDelays
  Silent = Silent
  MaxRows = 3
  MaxDay = 4
  Days = 2
  Retention = 2
  Hundred = 1
  Nothing = Nothing
  MaxDepth = 1
  MaxFrames = 1
  MaxChildren = 2
  Absent = Absent
  Odd = Odd
  Exceptions <- MCExceptions
  MaxCount = 2
  MaxChannels = 1
  MaxFilled = 3
  Missing = Missing
  NaN = NaN
SPECIFICATION ReportsSpec
SYMMETRY Symmetry
CHECK_DEADLOCK FALSE
INVARIANTS NotifiedOnce FirstSeenOnce MissedOnlyByOverlap NotificationsInv DashboardInv StoredInv AlertRulesInv

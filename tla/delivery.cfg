CONSTANTS
  t1 = t1
  t2 = t2
  l1 = l1
  l2 = l2
  f1 = f1
  f2 = f2
  Threads = {t1, t2}
  Applications <- SmallApplications
  Workers = {w1, w2}
  Errors = {e1}
  Logs = {l1, l2}
  Spans = {s1}
  Flushes = {f1, f2}
  Senders = {"log"}
  MaxBatch = 2
  Stop = Stop
  Null = Null
CHECK_DEADLOCK FALSE
SPECIFICATION FairSpec
INVARIANTS TypeOK
PROPERTIES FlushTruth SentOnce QueuedIsDelivered CallsReturn

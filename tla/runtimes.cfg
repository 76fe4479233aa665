\* A report, two log records of which two fill a batch, a flush and a close that may be called again;
\* two chains inside of two blocks each; two libraries' hooks among those of three inits.
CONSTANTS
    Reports = {r1}
    Logs = {l1, l2}
    Spans = {}
    Callers = {f1, f2}
    Closers = {f2}
    MaxBatch = 2
    Chains = {c1, c2}
    Main = c1
    SpanNames = {s1, s2}
    Bags = {b0, b1, b2}
    Root = b0
    None = None
    MaxBlocks = 2
    Libraries = {x1, x2}
    MaxClients = 3
    MaxHooks = 3
SPECIFICATION Spec
CHECK_DEADLOCK FALSE
INVARIANTS ReporterInv ContextsInv HooksInv
PROPERTIES CapturedIsAccountedFor

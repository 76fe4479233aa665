-------------------------- MODULE MCDeliveryWorker --------------------------
EXTENDS DeliveryWorker, TLC

CONSTANTS t1, t2, l1, l2, f1, f2

\* One that flushes from two threads, one that also forks, one that closes and
\* captures every kind of event, and one that closes from both threads.
Flusher == [closers |-> {}, forkers |-> {}, events |-> Logs, flushes |-> Flushes, maxQueueSize |-> 1]
Forker == [Flusher EXCEPT !.forkers = {t1}, !.flushes = {f1}, !.maxQueueSize = 2]
Closer == [Flusher EXCEPT !.closers = {t1}, !.events = Items \ {l2}, !.flushes = {f1}]
Closers == [Flusher EXCEPT !.closers = {t1, t2}, !.events = {l1}]

SmallApplications == {Flusher, Forker, Closer, Closers}

=============================================================================

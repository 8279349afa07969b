\* Three clients and a channel of two: the channel fills up.
CONSTANTS
    c1 = c1
    c2 = c2
    Conns = {c1, c2}
    Sched = Sched
    Main = Main
    QueueCap = 2
    LoadFails = TRUE
SPECIFICATION DaemonFairSpec
\* The daemon can block for good while it shuts down:
\* ShutsDownUnlessFull says when.
CHECK_DEADLOCK FALSE
INVARIANTS
    CommandHeldOnce
PROPERTIES
    RequestsAnswered
    ShutsDownUnlessFull

\* The promise of ServiceListener.h about unregistered services, against what
\* two threads can do.
CONSTANTS
    t1 = t1
    t2 = t2
    n1 = n1
    r1 = r1
    l1 = l1
    Threads = {t1, t2}
    Names = {n1}
    Refs = {r1}
    Listeners = {l1}
    Interest <- MCInterest
    NoRef = NoRef
    NoName = NoName
    NoListener = NoListener
SPECIFICATION Spec
INVARIANT NoStaleService
CHECK_DEADLOCK FALSE

\* Three threads: one can register while another unregisters and a third
\* creates or destroys the listener; two ServiceRefs, so that a name can be
\* registered again after it was unregistered.
CONSTANTS
    t1 = t1
    t2 = t2
    t3 = t3
    n1 = n1
    n2 = n2
    r1 = r1
    r2 = r2
    l1 = l1
    Threads = {t1, t2, t3}
    Names = {n1, n2}
    Refs = {r1, r2}
    Listeners = {l1}
    Interest <- MCInterest
    NoRef = NoRef
    NoName = NoName
    NoListener = NoListener
SPECIFICATION FairSpec
INVARIANT TypeOK
INVARIANT NoMissedService
PROPERTY SilentAfterDestroy
PROPERTY EventuallyTold
\* Every ServiceRef has been used and the listener is dead.
CHECK_DEADLOCK FALSE

SPECIFICATION FairSpec
CONSTANTS
    Threads = {t1, t2, t3}
    Nobody = Nobody
INVARIANTS
    TypeOK
    NoCircularWait
PROPERTIES
    LocksGranted

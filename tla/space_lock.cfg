CONSTANTS
    Tasks = {t1, t2, t3, t4}
SPECIFICATION LockSpec
INVARIANTS
    NoLostWakeup
PROPERTIES
    ImplementsReadersWriter
    WriterGetsIn

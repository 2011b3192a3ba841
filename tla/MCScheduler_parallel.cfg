SPECIFICATION Spec
CONSTANTS
    P = P
    A = A
    B = B
    C = C
    S1 = S1
    S2 = S2
    main = main
    f = f
    t1 = t1
    t2 = t2
    NoImport = NoImport
    NoFunction = NoFunction
    Threads = {t1, t2}
    Imports = {A, B}
    Structs = {S1, S2}
    Functions = {main, f}
    Jobs <- ParallelJobs
INVARIANTS
    BatonOK
    CountersOK
    NeverStuck
    OnceEach
PROPERTIES
    GivesUpOnlyWhenQuiet

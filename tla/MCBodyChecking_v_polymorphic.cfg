SPECIFICATION Spec
CONSTANTS
    Threads = {t1, t2}
    Functions = {main, alias, f, g, m, n, k}
    Structs = {V, W}
    Types = {A, B}
    None = None
    T = T
    S = S
    MaxTries = 2
    Programs <- RecursivePrograms
    main = main
    alias = alias
    f = f
    g = g
    m = m
    n = n
    k = k
    V = V
    W = W
    A = A
    B = B
    t1 = t1
    t2 = t2
INVARIANT
    WaitsEnd
CHECK_DEADLOCK FALSE

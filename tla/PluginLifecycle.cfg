CONSTANTS
    c = c
    f = f
    g = g
    e = e
    nc = nc
    nf = nf
    ng = ng
    None = None
    Compiled = {c}
    Files = {f, g}
    Elsewhere = {e}
    Names = {nc, nf, ng}
    NameOf <- MCNameOf
    Derived <- MCDerived
    Subscribers = {c, f}
    Requests = {r1, r2}
    Flushers = {t1, t2}
    MaxOps = 2
    MaxChanges = 2
    MaxHandlers = 4
SPECIFICATION Spec
SYMMETRY Workers
PROPERTIES CompiledStay SamePlugins
CHECK_DEADLOCK FALSE

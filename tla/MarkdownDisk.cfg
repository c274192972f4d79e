CONSTANTS
    p = p  q = q  k1 = k1  k2 = k2  k3 = k3
    Instances = {p, q}
    Workers = {w1, w2, w3}
    Keys = {k1, k2, k3}
    Temps = {t1, t2, t3, t4}
    None = None
    Cost <- MCCost
    Budget <- MCBudget
SYMMETRY Symmetry
SPECIFICATION Spec
INVARIANTS EveryFileCharged AccountsAddUp

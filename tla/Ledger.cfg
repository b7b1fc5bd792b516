CONSTANTS
    Keys = {k1, k2, k3}
    Accounts = {a1, a2}
    Portfolios = {p1}
    Manual = {m1}
    Imported = imp
    Digests = {d1, d2}
    MaxCalls = 1
    MaxVersion = 2
    None = None
SPECIFICATION Spec
SYMMETRY Symmetry
INVARIANTS MembersLive DeletedGone ReceiptsStand
PROPERTY ImplementsOnceOnly

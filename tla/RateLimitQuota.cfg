\* Two counters of their own in all: the third client is on the overflow counter
\* until the sweep makes room for it.
SPECIFICATION QSpec
CONSTANTS
    Clients = {c1, c2, c3}
    Overflow = Overflow
    TTL = 2
    Limit = 1
    MaxEntries = 3
    MaxNow = 5
SYMMETRY ClientSymmetry
INVARIANT QuotaPerWindow

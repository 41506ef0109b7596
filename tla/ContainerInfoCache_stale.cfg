\* Two requests, one mutation that takes effect: SharedCacheFresh.
CONSTANTS
    c1 = c1
    c2 = c2
    Client <- MCClient
    MaxVersion = 1
SPECIFICATION Spec
SYMMETRY MCSymmetry
INVARIANT
    SharedCacheFresh

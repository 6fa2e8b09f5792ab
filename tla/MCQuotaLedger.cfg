CONSTANTS
    Items <- MCItems
    Size <- MCSize
    Limits <- MCLimits
SPECIFICATION Spec
INVARIANTS TypeOK CountersExact WithinLimit

\* Every list of up to six elements, every count of a four-bit int.
CONSTANTS
    Value = {v1, v2}
    MaxLen = 6
    IntMax = 7
SPECIFICATION LRemSpec
INVARIANT LRemExact
PROPERTY LRemReturns
PROPERTY TurnsVisitOne

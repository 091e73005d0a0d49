SPECIFICATION Spec
CONSTANTS
    none = none
    photo = photo
    flat = flat
    broken = broken
    Versions = {photo, flat, broken}
    Pictures = {photo, flat}
    Size <- MCSize
    Smaller <- MCSmaller
    Decodes = {"br", "gzip"}
    None = none
    MaxChanges = 3
INVARIANTS
    VariantsTrue
    Acceptable
    ShownIsServed
CONSTRAINT OneChangeBrowsed

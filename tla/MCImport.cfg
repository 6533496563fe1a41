SPECIFICATION ImportSpec
CONSTANTS
    twin1 = twin1
    twin2 = twin2
    other = other
    Trades = {twin1, twin2, other}
    FingerprintOf <- FingerprintsOf
    Exports <- WithIds
    MaxHeld = 3
    MaxImports = 1
    NoReview = NoReview
CHECK_DEADLOCK FALSE
PROPERTIES
    SelectedIsImported

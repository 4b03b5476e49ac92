SPECIFICATION Spec
CONSTANTS
    Activation = {a, b, c, d}
    Process = {p, q}
    MaxSecret = 5
    None = None
    Receipt = Receipt
    Gone = Gone
SYMMETRY Symmetry
INVARIANTS
    IssuedSecretsKept
    NoThirdCredential
    
    PromotedIsCurrent
CHECK_DEADLOCK FALSE

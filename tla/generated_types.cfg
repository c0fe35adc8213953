SPECIFICATION Spec
CONSTANTS
    Templates <- MCTemplates
    VariantIdent <- MCIdent
    Lower <- MCLower
    Texts = {"", "None", "a"}
    Numbers = {1}
    Inlines <- MCInlines
    MaxItems = 2
INVARIANTS
    ContextConforms
    RoundTrips
    ConstantsAsDeclared
    VerdictsAgree
CHECK_DEADLOCK FALSE

CONSTANTS
    Inputs <- MCInputs
    Paths <- MCPaths
    Conditions <- MCConditions
    Guards <- MCGuards
    Labels <- MCLabels
    Bindings <- MCBindings
    MaxDepth = 2
    MaxCarry = 1

SPECIFICATION Spec

INVARIANTS
    NarrowingsLast
    AcceptedRenders

PROPERTY ExhaustiveMatchRenders

SPECIFICATION Spec
CONSTANTS
    Phrases <- MCPhrases
    MaxPhrases = 5
    TypeOf <- MCTypeOf
    Variants <- MCVariants
    Envs <- MCEnvs
INVARIANTS OneSyntax OneVerdict
CHECK_DEADLOCK FALSE

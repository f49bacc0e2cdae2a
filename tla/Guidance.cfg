\* Two Events, two ways a start may find the world
CONSTANTS
    Events = {1, 2}
    Description <- MCDescription
    Facts <- MCFacts
    Principles <- MCPrinciples
    Cap = 2
    Validity = 2
    MaxReflections = 3
    MaxStrays = 1
SPECIFICATION FairSpec
INVARIANT OncePending
INVARIANT LinkTells
PROPERTY NothingStarves

CONSTANTS
    Declared <- MCDeclared
    Digits <- MCDigits
    Builds <- MCBuilds
    Limits <- MCLimits
SPECIFICATION Spec
INVARIANTS
    RowsAreReached
    ShortNamesAreDistinct
    RelationsHaveTwoSides
    PrismaAcceptsSchemas
    CreateSchemasMatchClient
    ImportsAreGenerated
    DocumentedRequestsAreServed

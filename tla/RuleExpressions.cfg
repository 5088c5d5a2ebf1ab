SPECIFICATION Spec
CONSTANTS
    Null = Null
    Undefined = Undefined
    Rules <- MCRules
    Users <- MCUsers
    Items <- MCItems
    Inputs <- MCInputs
CHECK_DEADLOCK FALSE
INVARIANT GuardsMeanTheRule
INVARIANT CheckersMeanTheRule
INVARIANT AbsentFieldsAreTolerated

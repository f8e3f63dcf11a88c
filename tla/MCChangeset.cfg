SPECIFICATION Spec
CONSTANTS
    Modules <- MCModules
    Order <- MCOrder
    MaxSecondaries = 1
    NamedBy <- MCNamedBy
    Roles <- MCRoles
    RolesOf <- MCRolesOf
    RulesOf <- MCRulesOf
    Outputs <- MCOutputs
    Remarks <- MCRemarks
    BaseRole = "System Manager"
INVARIANTS
    TypeOK
    AgentValuesKept
    PillsTellWriter
    HandoffIsAuthoritative
    NotesTraceBack
CHECK_DEADLOCK FALSE

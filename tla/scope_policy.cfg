\* Three policies installed one after another while files are opened and
\* directories appear.
CONSTANTS
    Paths <- MCPaths
    Worlds <- MCWorlds
    Requests <- MCRequests
    Policies <- MCPolicies
    NoScope = NoScope
SPECIFICATION Spec
INVARIANTS
    TypeOK
    ApprovedIsPermitted
PROPERTIES
    RefusedIsForbidden

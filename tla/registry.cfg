SPECIFICATION Spec
CONSTANTS
    Namespaces <- MCNamespaces
    Skills <- MCSkills
    Versions <- MCVersions
    Digests = {d1}
    Payloads <- MCPayloads
    Subjects = {ann}
    Visibilities = {"public", "private"}
    Reasons = {reason}
    Ids = {i1, i2, i3}
    None = None
    Queries <- MCQueries
    Limits <- MCLimits
SYMMETRY Symmetry
INVARIANTS TypeOK TablesAgree SearchFindsTheBest 
PROPERTIES PublicationsAreFinal
CHECK_DEADLOCK FALSE

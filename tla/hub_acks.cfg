SPECIFICATION FairSpec
CONSTANTS
    Tasks = {t1, t2}
    Namespaces <- MCNamespaces
    Names <- MCNames
    Versions <- MCVersions
    Paths <- MCPaths
    Contents = {"c1", "c2"}
    Urls <- MCUrls
    KeyPairs = {"k1"}
    Subjects = {"ann", "bob", "eve"}
    Visibilities = {"public", "private"}
    Reasons = {"yanked by API"}
    Scopes <- MCScopes
    Roles <- MCRoles
    Requests <- Contended
    WellFormed <- MCWellFormed
    Drive = "C:"
    Backslashed = "with-backslash"
    DefaultReason = "yanked by API"
    AllowUnsigned = FALSE
    MaxConnections = 2
    None = None
    Garbled = Garbled
INVARIANTS AckIsDurable QueueMatchesReplies EventsFollowRows
PROPERTIES EveryRequestEnds

SPECIFICATION Spec
CONSTANTS
    Tasks = {t1, t2, t3}
    s1 = s1
    s2 = s2
    v1 = v1
    v2 = v2
    d1 = d1
    d2 = d2
    ann = ann
    bob = bob
    reason = reason
    None = None
    Skills <- TwoSkills
    Versions <- MCVersions
    Digests <- MCDigests
    Payloads <- MCSubjects
    Subjects <- MCSubjects
    Visibilities = {"public", "private"}
    Reasons = {reason}
    Calls <- MCCalls
    MaxConnections = 2
SYMMETRY TaskSymmetry
INVARIANTS TypeOK NoRowAppears OneWriterPerSkill OkMeansStored ConflictIsReal RowsHaveOneSource TablesAgree
PROPERTIES CallsAreAtomic

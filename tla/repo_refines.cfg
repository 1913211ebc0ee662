SPECIFICATION FairSpec
CONSTANTS
    Tasks = {t1, t2, t3}
    s1 = s1
    s2 = s2
    v1 = v1
    v2 = v2
    d1 = d1
    d2 = d2
    ann = ann
    bob = bob
    reason = reason
    None = None
    Skills <- OneSkill
    Versions <- OneVersion
    Digests <- MCDigests
    Payloads <- MCSubjects
    Subjects <- MCSubjects
    Visibilities = {"public", "private"}
    Reasons = {reason}
    Calls <- OneVersionCalls
    MaxConnections = 2
PROPERTIES ImplementsRegistry PublicationsAreFinal EveryCallEnds

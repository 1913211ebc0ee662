SPECIFICATION Spec
CONSTANTS
    Clients = {c1}
    Namespaces = {1, 2}
    Names = {"lint"}
    Versions = {"1.0.0"}
    Contents = {"a", "b"}
    Urls = {"file:///x"}
    KeyPairs = {k1}
    Subjects = {"ann"}
    Visibilities = {"public", "private"}
    Reasons = {"broken"}
    Ids = {i1, i2}
    None = None
SYMMETRY Symmetry
INVARIANTS ListedDigestIsServed

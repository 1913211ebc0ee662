SPECIFICATION FairSpec
CONSTANTS
    Starts = {p1, p2, p3}
    Writers = {w1}
    None = None
INVARIANTS TypeOK SchemaIsWhole ServingHasSchema StartsDoNotCollide OneMigration
PROPERTIES EveryStartEnds EveryWriteEnds

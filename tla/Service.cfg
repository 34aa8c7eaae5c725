SPECIFICATION Spec
CONSTANTS
    p1 = p1
    p2 = p2
    Processes = {p1, p2}
    Scripts <- MCScripts
    FoundAtStart <- MCFound
    MaxFailures = 1
    Writers = {w1, w2}
    Readers = {r1}
    Limits <- MCLimits
    DefaultLimit = 1
    MaxLimit = 2
    OldEvents = 1
    MaxTime = 1
    Nowhere = Nowhere
SYMMETRY Reorder
INVARIANTS TypeOK RecordedIffMade AppliedOnce AppliedInOrder ServesMigrated NotAllRefused HandledByMigrated HistoryRespectsTime NothingSkipped

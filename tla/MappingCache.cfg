SPECIFICATION FairSpec
CONSTANTS
    Roles = {member}
    Groups = {dev}
    RoleSets = {{member}}
    Bootstrap = boss
    AdminGroup = admin
    Lookups = {l1, l2}
    Editors = {e1, e2}
    TTLs = {0, 1}
    Nobody = Nobody
    MaxTables = 3
    Horizon = 1
INVARIANTS TypeOK CacheNotBehind LookupSound NeverExpired
PROPERTIES NoStampede KeepsPromise LookupsReturn EditsReturn
CHECK_DEADLOCK FALSE

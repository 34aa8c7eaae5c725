SPECIFICATION Spec
CONSTANTS
    Roles = {member}
    Groups = {dev}
    RoleSets = {{member}}
    Bootstrap = boss
    AdminGroup = admin
    Lookups = {l1, l2}
    Editors = {e1, e2}
    TTLs = {1}
    Nobody = Nobody
    MaxTables = 2
    Horizon = 1
INVARIANTS NoSpuriousDenial
CHECK_DEADLOCK FALSE

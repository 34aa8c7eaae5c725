SPECIFICATION Spec
CONSTANTS
    Requests = {r1, r2, r3}
    Processes = {p1, p2}
    Calls <- SessionCalls
    Ids = {s1, s2, s3}
    Users = {ann, bob}
    Groups = {dev, admin}
    Roles = {member, boss}
    AdminGroup = admin
    Bootstrap = boss
    Labels = {"auth", "app", "ex", "far", "com", "*"}
    DnsLabels = {"auth", "app", "ex", "far", "com"}
    Star = "*"
    AuthHost <- auth
    CookieDomain <- MCDomain
    Patterns <- MCPatterns
    Unopened = Unopened
    Ended = Ended
    NoOne = NoOne
    NoCookie = NoCookie
    HolderAtStart <- SessionHolder
    PoliciesAtStart <- MCPolicies
    MappingsAtStart <- MCMappings
    ann = ann
    bob = bob
    s1 = s1
    s2 = s2
    s3 = s3
    dev = dev
    member = member
SYMMETRY Reorder
INVARIANTS TypeOK KickEffective AuditSound SessionsJustified
    KickEndsStaleSessions
CHECK_DEADLOCK FALSE

SPECIFICATION Spec
CONSTANTS
    Callers = {r1, r2}
    Browsers = {b1, b2}
    Returning = {}
    Visits <- Older
    b1 = b1
    b2 = b2
    MaxStates = 2
    MaxCodes = 1
    MaxIds = 2
    Labels = {"auth", "app", "ex", "far", "com", "*"}
    DnsLabels = {"auth", "app", "ex", "far", "com"}
    Star = "*"
    AuthHost <- auth
    CookieDomain <- MCDomain
    AdminGroup = admin
    Bootstrap = boss
INVARIANTS SubresourcesSpareCsrf

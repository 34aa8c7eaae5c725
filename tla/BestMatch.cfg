SPECIFICATION Spec
CONSTANTS
    Labels = {"a", "b", "ex", "com", "*", "-"}
    DnsLabels = {"a", "b", "ex", "com"}
    Star = "*"
    AuthHost <- MCAuthHost
    CookieDomain <- MCCookieDomain
    AdminGroup = admin
    Bootstrap = boss
    Hosts <- MCHosts
    Lists <- MCLists
INVARIANTS TypeOK FindsGoverning
CHECK_DEADLOCK FALSE

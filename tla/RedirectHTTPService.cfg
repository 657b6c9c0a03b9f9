SPECIFICATION Spec
CONSTANTS
    c1 = c1
    c2 = c2
    c3 = c3
    c4 = c4
    c5 = c5
    r1 = r1
    r2 = r2
    foo = foo
    foobar = foobar
    live = live
    edge = edge
    g1 = g1
    g2 = g2
    Ccr = ccr
    NoName = noname
    NoRegex = noregex
    NoGroup = nogroup
    Groups = {g1, g2}
    Names <- MCNames
    Inside <- MCInside
    Starts <- MCStarts
    Ends <- MCEnds
    Handlers = {h1}
    Files <- MCFiles
    Polled <- MCPolled
    FileStates <- MCFileStates
    PolledStates <- MCPolledStates
    Ranks <- MCRanks
    ZoneFiles <- MCZoneFiles
    Clients <- MCClients
    Domains <- MCDomains
INVARIANTS
    HTTPServiceRedirectsToCache

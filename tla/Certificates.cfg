SPECIFICATION FairSpec
CONSTANTS
    a = a
    b = b
    star = star
    Star = star
    Labels <- MCLabels
    Hosts <- MCHosts
    Asked <- MCAsked
    Clients = {h1}
    MaxPair <- MCMaxPair
    MaxLoads = 2
INVARIANTS
    TypeOK
    KeptHostAnswers
    NeverRetired
    OneLoadInService
    StoreMirrorsDirectory
PROPERTIES
    SearchEnds

SPECIFICATION FairSpec
CONSTANTS
    None = None
    Nobody = Nobody
    Main = Main
    Clients = {c1, c2, c3}
    Users = {c1, c2, c3, Main}
    Sockets = {3, 4, 5, 6}
    Delay = 2
    UseDb = TRUE
    Limits = TRUE
    MaxAccepts = 3
INVARIANTS TypeOK ClientListIsSound NoUseAfterFree DescriptorsAccounted HandleIsExclusive
PROPERTIES ConnectsSpaced EveryClientEnds

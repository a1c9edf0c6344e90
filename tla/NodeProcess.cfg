CONSTANTS
    good = good
    bad = bad
    Nodes = {n1, n2}
    Servers = {n1, n2}
    Monitors = {n1, n2}
    MaxDatabase = 1
    Services = {good, bad}
    BadServices = {bad}
    NoService = NoService
    StartMaps <- FewMaps
    ServeNodes = {n1}
SPECIFICATION FairSpec
INVARIANTS TypeOK StoppedIsQuiet StopEventMeansReleased NoStrayMonitor UpIsPolling OffersWhatItRegistered
PROPERTIES OnlyRestartsLose ServeIsReported

CONSTANTS
    shop = shop
    blog = blog
    s1 = s1
    s2 = s2
    NoServer = NoServer
    Threads = {t1, t2}
    Apps = {shop, blog}
    PRs = {0}
    Servers = {s1, s2}
    Home <- MCHome
    Extra <- MCExtra
    ConcurrentBuilds = 1
    QueueLimit = 2
    MaxDeployments = 3
    MaxRequests = 2
    MaxInterventions = 1
SPECIFICATION LiveSpec
INVARIANTS InProgressHasJob NoLostWakeup
PROPERTIES EveryDeploymentEnds
CHECK_DEADLOCK FALSE

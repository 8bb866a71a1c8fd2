SPECIFICATION LiveSpec
CONSTANTS
    Links = {l1}
    Package <- MCPackage
    Playlists <- MCPlaylists
    Media <- MCMedia
    Second = 2
    TTL = 2
    RequestTime = 1
    MaxTime = 7
INVARIANTS LinkKeepsItsPromise
PROPERTIES LinkReachesEverything
CHECK_DEADLOCK FALSE

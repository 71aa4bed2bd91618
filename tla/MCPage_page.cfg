CONSTANTS
    here = here
    there = there
    oneshot = oneshot
    maps = maps
    nas = nas
    None = None
    Root = {here, there}
    Startup = here
    Request = {1, 2}
    Changing = {here}
    World = {oneshot}
    Folder = {maps}
    Package <- Packages
    Holds <- Installed
    Blocked <- NotInstalled
    Stale = {}
    Dest = {nas}
    MaxSwitched = 1
SPECIFICATION FairSpec
INVARIANTS TypeOK ReadingOfChosen OneTransfer RunIsShown AsPressed BlockedStays Awaited
PROPERTIES ReadingsAdvance WaitsEnd LockFreed

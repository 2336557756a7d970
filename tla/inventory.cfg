SPECIFICATION Spec
CONSTANTS
    Ids = {1, 2}
    Cameras = {11, 12}
    NoId = NoId
    Generated <- MCGenerated
    Configs <- MCConfigs
    Accounts = {a1, a2}
    NoAccount = NoAccount
    AtStart <- MCAtStart
    a1 = a1
    a2 = a2
    Inventories <- MCInventories
    Worker = worker
    Enrollers = {e1}
    Listers = {l1}
    Callers = {c1}
    MaxIntercoms = 1
    MaxCameras = 1
    MaxChanges = 1
INVARIANTS TypeOK RightDoor
PROPERTIES ToldAliasLeads RoutesFollow
CHECK_DEADLOCK FALSE

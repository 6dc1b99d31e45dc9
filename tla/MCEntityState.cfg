CONSTANTS
    zone = zone
    hashZone = hashZone
    setpoint = setpoint
    mode = mode
    NoEntity = NoEntity
    NoPoint = NoPoint
    Entities = {zone, hashZone}
    Points = {setpoint, mode}
    Watches <- MCWatches
    Asks <- MCAsks
    Commands <- MCCommands
    Reports <- MCReports
    MaxState <- MCMaxState
    MaxStream = 2
SPECIFICATION Spec
INVARIANTS
    TypeOK
    AvailableIsConnected
    NothingInvented
    StaleForAReason
PROPERTY RequestsEnd

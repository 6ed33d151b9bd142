SPECIFICATION Spec
CONSTANTS
    c1 = c1
    c2 = c2
    d1 = d1
    d2 = d2
    r1 = r1
    r2 = r2
    Networks = {1, 2}
    Stations = {c1, c2, d1, d2}
    HomeOf <- Sides
    Bodies <- AllBodies
    MaxHop = 2
    TTL = 0
    Duplicating = FALSE
    Router = Router
    Global = Global
    None = None
    Requests = {r1, r2}
    ClientOf <- TwoClients
    TargetOf <- OwnDevices
    Ways <- AnyWay
    Devices = {d1, d2}
    StyleOf <- Mixed
    Lossy = TRUE
    MaxWire = 2
INVARIANTS TypeOK Deliverable RepliesReachTheirClient SourceIsTheDevice
CHECK_DEADLOCK FALSE

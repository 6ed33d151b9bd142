SPECIFICATION Spec
CONSTANTS
    c1 = c1
    c2 = c2
    d1 = d1
    d2 = d2
    r1 = r1
    r2 = r2
    Networks = {1, 2}
    Stations = {c1, c2, d1}
    HomeOf <- Sides
    Bodies <- AllBodies
    MaxHop = 2
    TTL = 1
    Duplicating = FALSE
    Router = Router
    Global = Global
    None = None
    Requests = {r1, r2}
    ClientOf <- TwoClients
    TargetOf <- OneDevice
    Ways <- AllUnicast
    Devices = {d1}
    StyleOf <- AllDirect
    Lossy = TRUE
    MaxWire = 2
INVARIANTS RepliesReachTheirClient
CHECK_DEADLOCK FALSE

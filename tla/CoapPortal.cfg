\* Few enough buffers for the pool to run dry, a time-out while the mesh is away.
SPECIFICATION CoapSpec
CONSTANTS
    Buffers = 2
    Polls = 2
INVARIANTS
    CoapTypeOK
    HandlerSafe
    PoolWhole
PROPERTY
    RequestsServed
    PortalCallsReturn

SPECIFICATION ApiSpec
CHECK_DEADLOCK FALSE
CONSTANTS
    c1 = c1
    c2 = c2
    ma = ma
    mb = mb
    mx = mx
    my = my
    Clients = {c1, c2}
    Messages = {ma, mb, mx, my}
    Batch <- SmallBatches
    Admissible = {ma, mb, my}
    Routed = {ma, mb}
    MaxInserted = 0
    MaxRestarts = 0
INVARIANT CheckpointNamesItsLeaf

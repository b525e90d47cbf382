SPECIFICATION Spec
CONSTANTS
    Nothing = Nothing
    a = a
    b = b
    c = c
    f = f
    g = g
    Runs = {a, b, c}
    HostOf <- TwoMachines
    TaskRoles = {a}
    Octets = 2
    Requests = {x, y}
    VerdictTtl = 2
    KeysTtl = 3
    FailureTtl = 1
    Expiry = 3
    MaxClock = 4
    Clients = {x, y}
    Replicas = {r1, r2}
    Lambdas <- TwoTargets
    Wrap = 3
    MaxBoots = 3
    Invokes = {i1}
    Proxied = {q1}
    MaxRows = 1
    MaxLogs = 1
    MaxDrops = 1
    MaxServes = 2
    MaxProxies = 2
    Upstreams = {u1}
INVARIANTS
    
    Authorized
    Listed
PROPERTIES
    WhatIsShown
    RoundRobin
    ShutsDown
    Settles
CHECK_DEADLOCK FALSE

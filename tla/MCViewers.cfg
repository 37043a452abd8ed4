\* One request slot and one socket; two changes of rows, roles and sessions.
SPECIFICATION BoundedSpec
CONSTANTS
    u1 = u1
    u2 = u2
    d1 = d1
    d2 = d2
    a1 = a1
    a2 = a2
    m1 = m1
    t1 = t1
    p1 = p1
    z1 = z1
    g1 = g1
    s1 = s1
    NoOne = none
    Users <- Everyone
    Readings = {q1}
    Rows <- Everything
    KindOf <- Kind
    DeviceOf <- About
    MakerOf <- Maker
    Located = {m1}
    Recent = {t1}
    Silent = {d2}
    Stored <- AtStart
    Admins = {}
    MaxReads = 2
    MaxChanges = 2
    Sockets <- Pages
    UserOf <- Tokens
    Calls = {c1, c2}
    Announced <- Announce
    MaxCalls = 3
    MaxLost = 1
INVARIANTS
    WhatIsListedOpens
    FiguresAgree
    HearsOnlyItsOwn
    LastWordHolds
    NoAlertIsMissed
CHECK_DEADLOCK FALSE

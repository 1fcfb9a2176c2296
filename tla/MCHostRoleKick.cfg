CONSTANTS
    ana = ana
    bia = bia
    caio = caio
    a1 = a1
    a2 = a2
    b1 = b1
    c1 = c1
    Conns <- MCConns
    Users <- MCUsers
    UserOf <- MCUserOf
    NoUser = NoUser
    Timers = {t1, t2}
    Subscribers = {a1, a2}
    MaxDisruptions = 1
SPECIFICATION HandedOverSpec
PROPERTIES
    KickHandsOver
CHECK_DEADLOCK FALSE

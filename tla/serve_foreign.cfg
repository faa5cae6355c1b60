\* Another user of the daemon takes a name that came free.
SPECIFICATION Spec
CONSTANTS
    s1 = s1
    s2 = s2
    s3 = s3
    s4 = s4
    orca = orca
    radix = radix
    loopback = loopback
    lan = lan
    any = any
    Free = Free
    Server = {s1, s2}
    Target = {orca}
    TargetOf <- MCSameTarget
    PortOf <- MCDefaultPort
    BindOf <- MCLoopback
    Address = {loopback, lan, any}
    Loopback = loopback
    AnyAddress = any
    Replacing = {s1, s2}
    Overriding = {}
    ForeignArrives = TRUE
CHECK_DEADLOCK FALSE
PROPERTIES ForeignKept

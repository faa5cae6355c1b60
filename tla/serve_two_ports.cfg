\* Two targets on two ports.
SPECIFICATION Spec
CONSTANTS
    s1 = s1
    s2 = s2
    s3 = s3
    s4 = s4
    orca = orca
    radix = radix
    loopback = loopback
    lan = lan
    any = any
    Free = Free
    Server = {s1, s4}
    Target = {orca, radix}
    TargetOf <- MCTargetOf
    PortOf <- MCPorts
    BindOf <- MCLoopback
    Address = {loopback, lan, any}
    Loopback = loopback
    AnyAddress = any
    Replacing = {}
    Overriding = {}
    ForeignArrives = FALSE
CHECK_DEADLOCK FALSE
INVARIANTS OneModelUp

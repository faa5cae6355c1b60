\* Four invocations of serve for two targets, on two ports, with three addresses.
SPECIFICATION FairSpec
CONSTANTS
    s1 = s1
    s2 = s2
    s3 = s3
    s4 = s4
    orca = orca
    radix = radix
    loopback = loopback
    lan = lan
    any = any
    Free = Free
    Server = {s1, s2, s3, s4}
    Target = {orca, radix}
    TargetOf <- MCTargetOf
    PortOf <- MCPorts
    BindOf <- MCBinds
    Address = {loopback, lan, any}
    Loopback = loopback
    AnyAddress = any
    Replacing = {s1, s3}
    Overriding = {s3}
    ForeignArrives = TRUE
CHECK_DEADLOCK FALSE
INVARIANTS TypeOK SecondNeedsOverride
PROPERTIES ForeignKept ReplacementTakesPlace

\* A builder call on a QoS object an endpoint already holds.
CONSTANTS
    q1 = q1
    q2 = q2
    e1 = e1
    p1 = p1
    Native = Native
    KeepAll = KeepAll
    SysMaxsize = SysMaxsize
    QosObjs <- MCQosObjs
    Endpoints <- MCEndpoints
    Millis <- MCMillis
    Depths <- MCDepths
    Names <- MCNames
    MaxBuilds <- MCMaxBuilds
SPECIFICATION QSpec
INVARIANT EndpointQosAsCreated
CHECK_DEADLOCK FALSE

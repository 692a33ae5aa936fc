\* request_reply.py: two clients and a server that is restarted once.
CONSTANTS
    c1 = c1
    c2 = c2
    s1 = s1
    Clients <- MCClients
    Servers <- MCServers
    ClientId <- MCClientId
    MaxRuns <- MCMaxRuns
    ServeLimit = 3
SPECIFICATION Spec
SYMMETRY MCSymmetry
INVARIANT TypeOK
INVARIANT RepliesCorrelated
\* Every run ends (main returns or the process is stopped) and no slot is
\* started beyond its bound: the system stops.
CHECK_DEADLOCK FALSE

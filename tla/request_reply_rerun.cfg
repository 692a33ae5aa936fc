\* request_reply.py: a client run again with the same client id while the
\* server keeps running.
CONSTANTS
    c1 = c1
    c2 = c2
    s1 = s1
    Clients <- MCClients
    Servers <- MCServers
    ClientId <- MCClientId
    MaxRuns <- MCMaxRunsRerun
    ServeLimit = 3
SPECIFICATION Spec
INVARIANT RepliesCorrelated
CHECK_DEADLOCK FALSE

\* A client more than workers; no client sends ahead of the replies.
CONSTANTS
    c1 = c1
    c2 = c2
    c3 = c3
    Client = {c1, c2, c3}
    Worker = {w1, w2}
    NoClient = NoClient
    Requests <- MCRequests
    MaxRequests = 2
    Window = 1
SPECIFICATION Spec
INVARIANTS TypeOK SocketsOwned 
PROPERTIES RequestsAnswered IdleWorkersServe JoinsWhenClientsLeave
\* The clients may have said all, and the process may have ended.
CHECK_DEADLOCK FALSE

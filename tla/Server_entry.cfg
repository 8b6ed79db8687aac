SPECIFICATION EntrySpec
CONSTANTS
    Together <- MCTogether
    MaxRounds = 2
    r1 = r1
    r2 = r2
    Requests <- MCRequests
    Clients <- MCClients
    Tokens = {t1}
    Sessions = {s1}
    Width = 2
    Loopback <- MCLoopback
    Envs <- MCEnvs
    Ttl = 2
    Life = 1
    LoginMax = 1
    NoOne = NoOne
INVARIANT EntryTypeOK
 
INVARIANT OneRowPerKey
INVARIANT OkIsDone
INVARIANT GateIsRight
INVARIANT LoginIsLimited
PROPERTY Answered
PROPERTY LabelsSettle
CHECK_DEADLOCK FALSE

SPECIFICATION Spec
CONSTANTS
    NumRequests = 3
    TokenLen = 1
    SpanLen = 2
    Workers = {w1, w2}
    MaxTasks = 1
    Pools = {TRUE, FALSE}
INVARIANTS HttpTypeOK UrlAndBodyWhole AnswersWellFormed CloseIsAnnounced
PROPERTIES RequestsAnswered
CHECK_DEADLOCK FALSE

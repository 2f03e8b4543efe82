SPECIFICATION FairSpec
CONSTANTS
    Calls = {c1, c2, c3, c4}
    MaxConcurrency = 2
    MaxRetries = 2
    Outcomes = {"ok", "bad_json", "client_error", "timeout", "server_error"}
    None = None
INVARIANTS
    TypeOK
    PermitsConserved
    NoLostWakeup
    VerdictFollowsAnswers
PROPERTIES
    NoOvertaking
    GoesForward
    EveryCallEnds

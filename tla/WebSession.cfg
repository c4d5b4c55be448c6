CONSTANTS
    Tabs = {t1}
    Accounts = {alice, bob}
    Nobody = Nobody
    MaxTokens = 2
    MaxWire = 2
SPECIFICATION FairSpec
INVARIANTS TypeOK ProfileMatchesToken StatusFollowsToken
PROPERTIES NewerSessionSurvives EndedSessionNoticed ProfileArrives
CHECK_DEADLOCK FALSE

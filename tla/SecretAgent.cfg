SPECIFICATION Spec
CONSTANTS
    Ids = {1, 2, 3, 4, 5, 6}
    RequestOf <- MCRequests
    TypedSecrets = {"", "a", "b"}
    TypedIdentities = {"", "user"}
INVARIANTS TypeOK AnswerIsItsOwn
PROPERTIES AgentSpec
CHECK_DEADLOCK FALSE

SPECIFICATION Spec
CONSTANTS
    MaxPolls = 6
    RetryEvery = 3
    MaxWait = 4
    MaxDialogs = 1
INVARIANTS TypeOK SessionWatched RequestsBounded
PROPERTIES Settles

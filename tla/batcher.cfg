SPECIFICATION Spec
CONSTANTS
    Workers = {"w1", "w2"}
    Rounds <- FirstTwice
    Tiles = 2
    Ceiling = 3
    Pooled = FALSE
    LateStop = TRUE
INVARIANTS AnswersMatch InOnePlace
PROPERTIES AllAnswered
CHECK_DEADLOCK FALSE

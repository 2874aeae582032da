SPECIFICATION Spec
CONSTANTS
    Reqs = {r1, r2}
SYMMETRY Symmetry
INVARIANTS TypeOK AnswersAreKept PointsFollowDecisions  
CHECK_DEADLOCK FALSE

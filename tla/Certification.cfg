CONSTANTS
    Participants = {"p"}
    Pages = {g1, g2}
    PageOwner <- MCOwner
    Reviewers = {r1, r2}
    Barred = {}
    LastDay = 2
    MaxCerts = 2
    ForcedAt = {2}
SYMMETRY TabSymmetry
SPECIFICATION Spec
INVARIANTS TypeOK OneRewardPerDay PhotosAccounted
CHECK_DEADLOCK FALSE

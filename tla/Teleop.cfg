\* Controllers, poses and polls may be missing.
CONSTANTS
    Arms = {"left", "right"}
    Drops = TRUE
SPECIFICATION Spec
INVARIANTS
    TypeOK
    NoStaleMotion
    OnePressOneToggle

\* Every poll sees both controllers: only resets and the operator act.
CONSTANTS
    Arms = {"left", "right"}
    Drops = FALSE
SPECIFICATION Spec
INVARIANTS
    HeldDisplayActsOnce

\* Settings: two callers, or one and a change of the facts, or two changes, and one
\* failure, in the build as it is.  Model: two windows, two tabs, two changes.
SPECIFICATION ExtensionSpec
CONSTANTS
    Callers = {c1, c2}
    Implemented = FALSE
    MaxChanges = 2
    MaxFailures = 1
    MaxOccasions = 2
    WindowIds = {w1, w2}
    TabIds = {t1, t2}
    ModelCallers = {c1}
    Frozen = TRUE
    ModelChanges = 2
    ModelFailures = 1
INVARIANTS
    SettingsHold
    ModelIsTrue
PROPERTIES
    BothConverge
    EveryCallerIsAnswered
CHECK_DEADLOCK FALSE

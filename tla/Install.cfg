\* Two installations on Windows, together or after the machine has stopped, twice at most.
SPECIFICATION InstallSpec
CONSTANTS
    Processes = {p1, p2}
    Installers = {p1, p2}
    Good = good
    Bad = bad
    Before = before
    Windows = TRUE
    MaxStops = 2
INVARIANTS
    TokenIsSound
    ManifestIsSound
PROPERTIES
    WrittenOnce
CHECK_DEADLOCK FALSE

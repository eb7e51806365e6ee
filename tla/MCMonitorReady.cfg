\* Is the service ready once its node answers again?
SPECIFICATION Spec
CONSTANTS
    Targets = 1
    Configured = TRUE
INVARIANTS
    ReadyWhenAllAnswer

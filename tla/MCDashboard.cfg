\* Two forms: a page and its redraw, or two pages; four acts of users.
SPECIFICATION FairSpec
CONSTANTS
    Forms = {f1, f2}
    Settings = {safe, a, b}
    Safe = safe
    None = none
    MaxActs = 4
INVARIANTS
    SafeStays
    ShownIsSet
PROPERTY
    ComesToRest
\* Users do a bounded number of things, then everything is at rest.
CHECK_DEADLOCK FALSE

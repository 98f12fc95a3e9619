SPECIFICATION FairSpec
CONSTANTS
    Kinds = {"undef", "pref_abt", "dat_abt", "irq"}
    Last = 4
    Installs = 1
    PageFrames = 2
    SvcFrames = 1
    JunkStatuses <- MCStatuses
INVARIANTS
    ExceptionInvariant
    ReportIsRight
PROPERTIES
    HandlersFinish

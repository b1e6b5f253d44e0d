\* Three tabs at most and five paths; one webhook; two timers.
CONSTANTS
    Paths <- AppPaths
    HomePath = "/"
    NewTabPaths <- NewTabs
    IdOf <- PathIds
    MaxTabs = 3
    MaxRecent = 2
    Messages <- ShellMessages
    NoToast = NoToast
    MaxTimers = 2
    Hooks = {h1}
    NoHook = NoHook
SPECIFICATION Spec
INVARIANTS
    TypeOK
    HomeStays
    ActiveExists
    StripIsBounded
    PinLimitNeverMet
    ToastHasTimer
PROPERTIES
    PinnedStays

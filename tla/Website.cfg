CONSTANTS
    Langs <- Languages
    SiteLangs = {"zh-cn", "en-us"}
    MaxBuilds = 2
    Pages <- Contents
    LinksBefore = 2
    SideHeight = 3
    MaxTimers = 2
SPECIFICATION Spec
INVARIANTS
    FailureReported
    LeavesNothing
    HighlightRight
PROPERTY
    LinkInView

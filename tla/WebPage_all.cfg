SPECIFICATION Spec
CONSTANTS
    Platforms = {"webkit", "wpe", "webview2"}
    Families = {"views", "tree", "download", "auth", "net", "input"}
    MaxViews = 2
    MaxLoads = 3
    MaxDocs = 2
    MaxChanges = 3
    MaxJobs = 2
    MAX_ENTRIES = 2
    Capacity = 2
    Frames = {f1, f2}
    Dbs = {d1, d2}
    Cookies <- SiteCookies
    Legacy <- LegacyCookies
    Points = {1, 2}
    Chars = {7, 8}
    MaxText = 2
    MaxInputs = 3
INVARIANTS
    ViewsOwned
    OkShowsPage
    ReadsCurrent
    DownloadsHonest
    AuthRoundTrip
    BuffersSound
    InputSettles
SYMMETRY Symm
CHECK_DEADLOCK FALSE

SPECIFICATION FairSpec
CONSTANTS
    recent = recent
    filesView = filesView
    folder = folder
    inner = inner
    View = {filesView, recent}
    FilesView = filesView
    Flat = {recent}
    Cancelable = {filesView, recent}
    File = {inner}
    Folder = {folder}
    Parent <- MCParent
    Root = Root
    None = None
    MaxFetch = 4
INVARIANTS TypeOK LoadingIsOwn ErrorIsOwn ListIsCurrent
PROPERTY LoadingEnds
CHECK_DEADLOCK FALSE

\* One small instance of each part.  Ids of rows run out.
SPECIFICATION PartsSpec
CONSTANTS
    u1 = u1
    u2 = u2
    r1 = r1
    r2 = r2
    s1 = s1
    s2 = s2
    s3 = s3
    k1 = k1
    k2 = k2
    t1 = t1
    t2 = t2
    t3 = t3
    n1 = n1
    n2 = n2
    None = None
    Unborn = Unborn
    Gone = Gone
    Local = Local
    Users = {u1, u2}
    UserNames = {n1, n2}
    Passwords = {n1, n2}
    UserChanges <- MCUserChanges
    Keys = {k1, k2}
    Profiles = {u1, u2}
    Values = {n1, n2}
    NewProfiles <- MCNewProfiles
    ProfileChanges <- MCProfileChanges
    Sites = {s1}
    SiteProfiles = {u1}
    SiteValues = {n1}
    NewSiteProfiles <- MCNewProfiles
    SiteProfileChanges = {}
    EnrolTokens = {u1, u2}
    AccessTokens = {t1, t2, t3}
    Source = {s1}
    Priority1 <- MCPriority1
    Keys1 = {k1, k2}
    Like1 <- MCLike1
    SelImages <- MCSelImages
    SelOpen <- MCSelOpen
    Rows1 = {u1, u2}
    Sources = {s1, s2, s3}
    Priority <- MCPriority
    Like <- MCLike
    Rows2 = {u1, u2, t1}
    Images = {k1, k2}
    Folder <- MCFolder
    Similar <- MCSimilar
    Assets = {1, 2, 3}
    Items = {1, 2, 3}
    Base = 3
    IndexSources = {u1, u2}
    Priorities = {1, 2}
    Version = {1}
    Versions = {1, 2}
    Request = {r1}
    Providers = {u1, u2}
    People = {k1}
    Requests = {r1, r2}
    Default = Default
SYMMETRY Symmetry
CHECK_DEADLOCK FALSE
INVARIANTS PartsTypeOK OneProviderEnabled BoundWhereSignedIn OwnPasswordOnly ChangeIsKept TriggerReachesSite StateCreatedOnce StoredTokenIsKept SelectionIsKept ListedOnce NoDuplicateProduct SelectedIsFetched EachImageListedOnce LastUploadIsServed OfferedIsSent IndexIsCurrent OfferedIsStored
PROPERTIES AdminRemains EnabledIsNotDeleted

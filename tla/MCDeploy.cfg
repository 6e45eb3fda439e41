\* Two requests on one name that is deleted and taken again; o2 is an admin.
CONSTANTS
    Requests = {r1, r2}
    Owners = {o1, o2}
    Admins = {o2}
    None = None
    maxVersions = 2
    MaxKeys = 3
    MaxVersion = 3
    MaxUid = 2
SYMMETRY Symmetry
SPECIFICATION Spec
CHECK_DEADLOCK FALSE
INVARIANTS RetainedSourcesStored LinksFollowApp
PROPERTIES VersionsGrow NoTakeover

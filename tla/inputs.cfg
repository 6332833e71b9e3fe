\* One file changed during a load, one store to the details of an event, three
\* daemons one after the other on two runtime directories.  A load, a report and
\* a daemon end: they have no step after that.
CONSTANTS
    Options <- MCOptions
    Schemas = {"", "v1", "v2"}
    Bodies = {"", "x", "y"}
    Manifests <- MCManifests
    LuaFiles = {"f", "g"}
    LuaContents <- MCLuaContents
    MaxEdits = 1
    Observations <- MCObservations
    MaxWrites = 1
    Dirs = {"r1", "r2"}
    DefaultDir = "r1"
    Ids = {"a", "b", "c"}
    Commands <- MCLaunches
    MaxLaunches = 3
SPECIFICATION Spec
CHECK_DEADLOCK FALSE
INVARIANTS
    ValidatesIffValid
    IdentityFromDigest
    QuietLoadIsExact
    AdminHidesPaths
    DisplayRedacts
    AcceptedIsShown
    HostRunsNamed
    DefaultLogIsCurrent

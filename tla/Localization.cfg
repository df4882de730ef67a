SPECIFICATION FairSpec
CONSTANTS
    Languages = {"ru", "en"}
    Bundled = {"ru"}
    Keys = {"open", "drop"}
    Optional = {"drop"}
    Partial = {1}
    Broken = {3}
    MaxPacks = 3
    MaxFailures = 2
    ItemKeys = {"l1", "l2", "pet1"}
    ItemNames = {"blade", "fang"}
    ItemTypes = {{"l1", "l2"}, {"pet1"}}
    Nameless = {"l2"}
INVARIANTS
    CatalogIsSound
    RestartFindsCatalog
    DropIsUnambiguous
PROPERTIES
    FollowsManifest

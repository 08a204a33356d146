SPECIFICATION Spec
CONSTANTS
    MaxWrites = 5
    Env = {"offlineset", "delete"}
    None = None
INVARIANTS UnloadedIsSaved OnlineStaysLoaded DeletedIsGone
PROPERTIES StoreSpec

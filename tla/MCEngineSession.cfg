CONSTANTS
    Scenes = {bright, dark}
    NoScene = NoScene
SPECIFICATION Spec
INVARIANTS
    TypeOK
    ReleaseHasResolver
PROPERTIES
    SnapshotIsKept
    ReleaseEnds
    ImplementsContract

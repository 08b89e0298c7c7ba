SPECIFICATION Spec
CONSTANTS
    Files = {"a", "b", "c"}
    FileLen <- Lengths
    ValidPatches = {"b"}
    Copies <- SmallCopies
    MaxCopies = 2
INVARIANTS
    AcceptedWhole
    CopySound
    AreasBalanced
PROPERTIES
    RebootWhole
    TransferSettles

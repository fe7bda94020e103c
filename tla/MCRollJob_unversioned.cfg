SPECIFICATION RollSpec
CONSTANTS
    a = a  b = b  dev = dev  curve = curve  n1 = n1  n2 = n2  d1 = d1  d2 = d2
    NoId = NoId  NoRow = NoRow  Keep = Keep
    Clients = {a, b}
    Owners = {dev}
    OwnerOf <- MCOwnerOf
    Ids = {curve}
    Names = {n1, n2}
    Bodies = {d1, d2}
    Patches <- MCPatches
    Inherited <- MCInherited
    MaxVersions = 3
    RollOwner = dev
    Marked = {curve}
INVARIANTS HeadIsLastVersion

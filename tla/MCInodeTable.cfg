SPECIFICATION Spec
CONSTANTS
    Procs = {p1, p2}
    NINODE = 2
    NS5INODE = 2
    NIno = 3
    NICINOD = 2
    INOPB = 2
    MAXLINK = 1
    Unreadable = {1}
    Named = {1}
    Linkable = {1}
    Openable = {1}
    Nobody = Nobody
SYMMETRY Symmetry
INVARIANTS
    TypeOK
    OneInode
    Counted
    S5Accounted
    ListedFree
    NoCircle
PROPERTIES
    ImplementsInodeList

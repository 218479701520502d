CONSTANTS
    Task = {t1, t2, t3}
    Inode = {f1, f2}
    None = None
    Zero = Zero
    Junk = Junk
    NDIRECT = 1
    NENTRIES = 2
    NZONES = 3
    Pos <- PosValue
    MaxErrors = 1
    Uncached = {"write", "truncate"}
    OneWriter = TRUE
SYMMETRY Perms
SPECIFICATION Spec
INVARIANT BlocksSound
PROPERTY FilesSpec

\* Three directories, every set of candidate files, at most one -I argument.
CONSTANTS
    p1 = p1
    p2 = p2
    pkgs = pkgs
    nodir = nodir
    Places <- MCPlaces
    NotADir = nodir
    Pkgs = pkgs
    MaxUserDirs = 1
SPECIFICATION Spec
INVARIANTS
    TypeOK
    FirstDirectoryContributes
    NothingFoundIsReported
    ModuleImportsExist

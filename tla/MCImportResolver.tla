-------------------------- MODULE MCImportResolver --------------------------
(* ImportResolver on a small machine: a few directories, one of which may be *)
(* the package directory, and every set of candidate files in them.         *)
EXTENDS ImportResolver

CONSTANTS p1, p2, pkgs, nodir

MCPlaces      == {p1, p2, pkgs}
MCPlacesSmall == {p1, p2}

=============================================================================

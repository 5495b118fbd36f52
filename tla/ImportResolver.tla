--------------------------- MODULE ImportResolver ---------------------------
(***************************************************************************)
(* How one `import a::b` is turned into files on disk: process_paths builds  *)
(* the list of directories to search, final_import_normalizer walks it and  *)
(* find_import_priority picks one of the four files a path may name:        *)
(*                                                                         *)
(*   mod      a/b.hlx        mod_lib   a/b/b.hlx                            *)
(*   hdr      a/b.hdlx       hdr_lib   a/b/b.hdlx                           *)
(*                                                                         *)
(* One step of the model is one iteration of the loop over the -I arguments *)
(* or of the directory loop.                                                *)
(* Directories are numbered from 1 here and from 0 in the code.             *)
(***************************************************************************)
EXTENDS Naturals, Sequences

CONSTANTS
    Places,       \* the directories that exist
    NotADir,      \* an -I argument that names no directory
    Pkgs,         \* <exe>/../../pkgs: one of Places, or NotADir when absent
    MaxUserDirs   \* bound: -I arguments on the command line

ASSUME PlacesAssumption ==
    /\ Places # {}
    /\ NotADir \notin Places
    /\ Pkgs \in Places \cup {NotADir}
    /\ MaxUserDirs \in Nat

Kinds       == {"mod", "hdr", "mod_lib", "hdr_lib"}
ModuleKinds == {"mod", "mod_lib"}

VARIABLES
    args,      \* the -I arguments that process_paths has not looked at yet
    dirs,      \* import_dirs
    fs,        \* the candidate files on disk: pairs <<directory, kind>>
    isModule,  \* `import module a::b` rather than `import a::b`
    i,         \* the directory the loop is at
    seen,      \* the four found_helix_* flags, declared before the loop
    entries,   \* found_paths, in the order they were pushed
    foundAny,  \* found_any_import
    resolved,  \* what the call returns, once it has
    reported,  \* "could not locate import" was reported
    pc

vars == <<args, dirs, fs, isModule, i, seen, entries, foundAny, resolved,
          reported, pc>>
inputs == <<fs, isModule>>

Entry == [kind : Kinds, index : 1 .. Len(dirs)]

-----------------------------------------------------------------------------

IsDirectory(d) == d \in Places

(* The base file's directory unless it is the cwd, the cwd, the package     *)
(* directory if it is there.                                                *)
ProcessPaths(base, cwd) ==
    (IF base # cwd THEN <<base>> ELSE <<>>)
        \o <<cwd>>
        \o (IF IsDirectory(Pkgs) THEN <<Pkgs>> ELSE <<>>)

(* A mistake: the row of a library header alone is missing.                  *)
PriorityWithoutLoneLibrary(explicitModule, s) ==
    CASE s = {"hdr_lib"} -> "none"
      [] "mod_lib" \in s -> "mod_lib"
      [] "hdr_lib" \in s -> "hdr_lib"
      [] "hdr" \in s /\ ~explicitModule -> "hdr"
      [] "mod" \in s -> "mod"
      [] OTHER -> "none"

(* The sixteen-row table of find_import_priority.  An explicit module       *)
(* import takes the library, then the plain module.  Otherwise a plain      *)
(* header wins when nothing is a library, and also when the plain module    *)
(* and the library header are there; then the library header, the library   *)
(* module and the plain module, in this order.                              *)
FindImportPriority(explicitModule, s) ==
    IF explicitModule /\ s \cap ModuleKinds # {}
    THEN IF "mod_lib" \in s THEN "mod_lib" ELSE "mod"
    ELSE IF /\ "hdr" \in s
            /\ \/ "mod" \in s /\ "hdr_lib" \in s
               \/ "mod_lib" \notin s /\ "hdr_lib" \notin s
         THEN "hdr"
         ELSE IF "hdr_lib" \in s THEN "hdr_lib"
         ELSE IF "mod_lib" \in s THEN "mod_lib"
         ELSE IF "mod" \in s THEN "mod"
         ELSE "none"

(* A mistake: headers are looked for whatever the import says.               *)
PresentAnyKind(d) == {k \in Kinds : <<d, k>> \in fs}

(* The candidates of this import in directory d: an explicit module import  *)
(* does not look for headers.                                               *)
Present(d) == {k \in Kinds : <<d, k>> \in fs /\ (isModule => k \in ModuleKinds)}

(* A mistake: the directory that comes last wins.                            *)
HighestIndexes(es) ==
    {e \in {es[n] : n \in DOMAIN es} :
        \A n \in DOMAIN es : es[n].kind = e.kind => e.index >= es[n].index}

(* check_and_remove_duplicates: of the entries for one relative path, the   *)
(* one of the lowest directory index survives.                              *)
LowestIndexes(es) ==
    {e \in {es[n] : n \in DOMAIN es} :
        \A n \in DOMAIN es : es[n].kind = e.kind => e.index <= es[n].index}

-----------------------------------------------------------------------------

UserDirs == UNION {[1 .. n -> Places \cup {NotADir}] : n \in 0 .. MaxUserDirs}

Init ==
    /\ args \in UserDirs
    /\ \E base, cwd \in Places : dirs = ProcessPaths(base, cwd)
    /\ fs \in SUBSET (Places \X Kinds)
    /\ isModule \in BOOLEAN
    /\ i = 1
    /\ seen = {}
    /\ entries = <<>>
    /\ foundAny = FALSE
    /\ resolved = {}
    /\ reported = FALSE
    /\ pc = "paths"

(* A mistake: the -I arguments are taken as they are.                        *)
AddDirUnchecked ==
    /\ pc = "paths" /\ args # <<>>
    /\ dirs' = Append(dirs, Head(args))
    /\ args' = Tail(args)
    /\ UNCHANGED <<inputs, i, seen, entries, foundAny, resolved, reported, pc>>

(* The -I arguments come last; what is no directory is dropped.              *)
AddDir ==
    /\ pc = "paths" /\ args # <<>>
    /\ dirs' = IF IsDirectory(Head(args)) THEN Append(dirs, Head(args)) ELSE dirs
    /\ args' = Tail(args)
    /\ UNCHANGED <<inputs, i, seen, entries, foundAny, resolved, reported, pc>>

StartScan ==
    /\ pc = "paths" /\ args = <<>>
    /\ pc' = "scan"
    /\ UNCHANGED <<inputs, args, dirs, i, seen, entries, foundAny, resolved, reported>>

(* One iteration.  The flags are not reset between directories, and         *)
(* found_any_import looks at three of the four.                             *)
ScanDir ==
    /\ pc = "scan"
    /\ i <= Len(dirs)
    /\ seen' = seen \cup Present(dirs[i])
    /\ LET k == FindImportPriority(isModule, seen')
       IN entries' = IF k = "none" THEN entries
                     ELSE Append(entries, [kind |-> k, index |-> i])
    /\ foundAny' = (foundAny \/ seen' \cap {"mod", "hdr", "mod_lib"} # {})
    /\ i' = i + 1
    /\ UNCHANGED <<inputs, args, dirs, resolved, reported, pc>>

(* After the loop: the error, then the duplicates, then the return.         *)
Return ==
    /\ pc = "scan"
    /\ i > Len(dirs)
    /\ reported' = ~foundAny
    /\ resolved' = LowestIndexes(entries)
    /\ pc' = "done"
    /\ UNCHANGED <<inputs, args, dirs, i, seen, entries, foundAny>>

Done == pc = "done" /\ UNCHANGED vars

Next == AddDir \/ StartScan \/ ScanDir \/ Return \/ Done

Spec == Init /\ [][Next]_vars

-----------------------------------------------------------------------------

TypeOK ==
    /\ args \in Seq(Places \cup {NotADir})
    /\ dirs \in Seq(Places)
    /\ fs \subseteq Places \X Kinds
    /\ isModule \in BOOLEAN
    /\ i \in 1 .. Len(dirs) + 1
    /\ seen \subseteq Kinds
    /\ entries \in Seq(Entry)
    /\ foundAny \in BOOLEAN
    /\ resolved \subseteq Entry
    /\ reported \in BOOLEAN
    /\ pc \in {"paths", "scan", "done"}

HasCandidate(d) == Present(d) # {}

(* The first directory of the list that holds any candidate always          *)
(* contributes a file that is really there, whatever later directories      *)
(* hold: an earlier -I is never shadowed by a later one.                     *)
FirstDirectoryContributes ==
    pc = "done" =>
        \A j \in 1 .. Len(dirs) :
            /\ HasCandidate(dirs[j])
            /\ \A h \in 1 .. j - 1 : ~HasCandidate(dirs[h])
            => \E e \in resolved : e.index = j /\ <<dirs[j], e.kind>> \in fs

(* No import is lost in silence: nothing is returned exactly when no         *)
(* directory has a candidate, and then the error was reported.              *)
NothingFoundIsReported ==
    pc = "done" =>
        /\ resolved = {} <=> \A j \in 1 .. Len(dirs) : ~HasCandidate(dirs[j])
        /\ resolved = {} => reported

(* `import module` only returns files that exist where it says, although    *)
(* the flags of earlier directories still count in later ones.              *)
ModuleImportsExist ==
    pc = "done" /\ isModule =>
        \A e \in resolved : e.kind \in ModuleKinds /\ <<dirs[e.index], e.kind>> \in fs

=============================================================================

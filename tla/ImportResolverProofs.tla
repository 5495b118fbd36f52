------------------------ MODULE ImportResolverProofs ------------------------
(* Theorems about ImportResolver, for any directories, any number of -I      *)
(* arguments and any set of files.                                           *)
EXTENDS ImportResolver, TLAPS

Best == FindImportPriority(isModule, seen)

(* The flags are those of the directories the loop has been to.              *)
SeenSoFar ==
    \A k \in Kinds :
        k \in seen <=> \E j \in 1 .. i - 1 : k \in Present(dirs[j])

(* There is an entry as soon as a flag is set; found_any_import misses the   *)
(* library header, and never speaks when there is none.                     *)
EntriesWhenSeen ==
    /\ seen = {} <=> entries = <<>>
    /\ foundAny => seen # {}

(* The entries come from directories the loop has been to, in their order,   *)
(* and at or behind the first directory with a candidate.                   *)
EntriesInOrder ==
    /\ \A n \in DOMAIN entries :
          /\ entries[n].index < i
          /\ \E h \in 1 .. entries[n].index : Present(dirs[h]) # {}
    /\ \A n, m \in DOMAIN entries : n <= m => entries[n].index <= entries[m].index

(* The first directory with a candidate has an entry, of a file it has.      *)
FirstHasEntry ==
    \A j \in 1 .. i - 1 :
        /\ Present(dirs[j]) # {}
        /\ \A h \in 1 .. j - 1 : Present(dirs[h]) = {}
        => \E n \in DOMAIN entries :
              entries[n].index = j /\ <<dirs[j], entries[n].kind>> \in fs

IsPresent(e) == <<dirs[e.index], e.kind>> \in fs

(* For a module import, what the flags of earlier directories make the loop  *)
(* repeat was really found where it was entered for the first time.         *)
ModulesWereFound ==
    isModule =>
        /\ seen \subseteq ModuleKinds
        /\ seen # {} => \E n \in DOMAIN entries : entries[n].kind = Best
        /\ \A n \in DOMAIN entries :
              /\ entries[n].kind \in ModuleKinds
              /\ \E m \in 1 .. n : entries[m].kind = entries[n].kind /\ IsPresent(entries[m])

Returned ==
    pc = "done" =>
        /\ i > Len(dirs)
        /\ resolved = LowestIndexes(entries)
        /\ reported <=> ~foundAny

(* Before the loop nothing has happened.                                    *)
Fresh == pc = "paths" => i = 1 /\ seen = {} /\ entries = <<>> /\ ~foundAny

Inv ==
    /\ TypeOK /\ Fresh /\ SeenSoFar /\ EntriesWhenSeen /\ EntriesInOrder
    /\ FirstHasEntry /\ ModulesWereFound /\ Returned

-----------------------------------------------------------------------------

(* The priority table picks one of the kinds that were found, and one        *)
(* whenever there is one.                                                   *)
LEMMA PriorityPicks ==
    ASSUME NEW m \in BOOLEAN, NEW s \in SUBSET Kinds
    PROVE  /\ FindImportPriority(m, s) \in s \cup {"none"}
           /\ FindImportPriority(m, s) = "none" <=> s = {}
           /\ FindImportPriority(m, s) \in Kinds \cup {"none"}
  BY DEF FindImportPriority, Kinds, ModuleKinds

(* For a module import, what was found before is picked again only if        *)
(* nothing better has been found since.                                     *)
LEMMA PriorityIsStable ==
    ASSUME NEW s \in SUBSET ModuleKinds, NEW t \in SUBSET ModuleKinds,
           FindImportPriority(TRUE, s \cup t) \in s
    PROVE  FindImportPriority(TRUE, s \cup t) = FindImportPriority(TRUE, s)
  BY DEF FindImportPriority, ModuleKinds

(* The initial states satisfy the invariant.                                *)
LEMMA InitInv == Init => Inv
  <1> SUFFICES ASSUME Init PROVE Inv  OBVIOUS
  <1> USE PlacesAssumption
  <1>1. args \in Seq(Places \cup {NotADir})
    BY DEF Init, UserDirs
  <1>2. dirs \in Seq(Places) /\ Len(dirs) \in Nat
    BY DEF Init, ProcessPaths, IsDirectory
  <1>3. TypeOK
    <2>1. i \in 1 .. Len(dirs) + 1
      BY <1>2 DEF Init
    <2>2. entries \in Seq(Entry)
      BY DEF Init
    <2> QED BY <1>1, <1>2, <2>1, <2>2 DEF Init, TypeOK
  <1>4. Fresh /\ SeenSoFar /\ EntriesWhenSeen /\ EntriesInOrder /\ FirstHasEntry
        /\ ModulesWereFound /\ Returned
    BY DEF Init, Fresh, SeenSoFar, EntriesWhenSeen, EntriesInOrder, FirstHasEntry,
           ModulesWereFound, Returned, Best
  <1> QED BY <1>3, <1>4 DEF Inv

(* The part of the invariant about the loop is kept by one iteration.       *)
LEMMA ScanDirInv == Inv /\ ScanDir => Inv'
  <1> SUFFICES ASSUME Inv, ScanDir PROVE Inv'  OBVIOUS
  <1> DEFINE k == FindImportPriority(isModule, seen')
             new == [kind |-> k, index |-> i]
  <1>1. /\ TypeOK
        /\ pc = "scan" /\ i \in Nat /\ i >= 1 /\ i <= Len(dirs) /\ Len(dirs) \in Nat
        /\ dirs \in Seq(Places) /\ entries \in Seq(Entry) /\ isModule \in BOOLEAN
        /\ seen \subseteq Kinds /\ Present(dirs[i]) \subseteq Kinds
    BY DEF Inv, TypeOK, ScanDir, Present
  <1>2. /\ seen' = seen \cup Present(dirs[i]) /\ seen' \in SUBSET Kinds
        /\ i' = i + 1
        /\ UNCHANGED <<fs, isModule, args, dirs, resolved, reported, pc>>
    BY <1>1 DEF ScanDir, inputs
  <1>3. /\ k \in seen' \cup {"none"}
        /\ k = "none" <=> seen' = {}
        /\ k \in Kinds \cup {"none"}
    BY <1>1, <1>2, PriorityPicks
  <1>4. entries' = IF k = "none" THEN entries ELSE Append(entries, new)
    BY DEF ScanDir
  <1>5. foundAny' <=> (foundAny \/ seen' \cap {"mod", "hdr", "mod_lib"} # {})
    BY DEF ScanDir
  <1>6. \A d : Present(d)' = Present(d)
    BY <1>2 DEF Present
  <1>7. /\ entries' \in Seq(Entry)
        /\ k # "none" => /\ Len(entries') = Len(entries) + 1
                         /\ entries'[Len(entries')] = new
                         /\ \A n \in DOMAIN entries : n \in DOMAIN entries' /\ entries'[n] = entries[n]
                         /\ DOMAIN entries' = DOMAIN entries \cup {Len(entries) + 1}
                         /\ DOMAIN entries = 1 .. Len(entries)
                         /\ Len(entries) \in Nat
    <2>1. k # "none" => new \in Entry
      BY <1>1, <1>3 DEF Entry
    <2> HIDE DEF new, k
    <2> QED BY <2>1, <1>1, <1>4
  <1> HIDE DEF k
  <1>8. TypeOK'
    BY <1>1, <1>2, <1>5, <1>7 DEF TypeOK, Entry, Inv, ScanDir
  <1>9. Fresh' /\ Returned'
    BY <1>1, <1>2 DEF Fresh, Returned
  <1>10. SeenSoFar'
    BY <1>1, <1>2, <1>6 DEF Inv, SeenSoFar
  <1>11. EntriesWhenSeen'
    BY <1>1, <1>2, <1>3, <1>4, <1>5, <1>7 DEF Inv, EntriesWhenSeen
  <1>12. seen' # {} => \E h \in 1 .. i : Present(dirs[h]) # {}
    <2> SUFFICES ASSUME NEW kind \in seen' PROVE \E h \in 1 .. i : Present(dirs[h]) # {}
      OBVIOUS
    <2>1. CASE kind \in seen
      <3>1. PICK j \in 1 .. i - 1 : kind \in Present(dirs[j])
        BY <2>1, <1>1 DEF Inv, SeenSoFar
      <3>2. j \in 1 .. i
        BY <1>1
      <3> QED BY <3>1, <3>2
    <2>2. CASE kind \in Present(dirs[i])
      <3>1. i \in 1 .. i /\ Present(dirs[i]) # {}
        BY <2>2, <1>1
      <3> QED BY <3>1
    <2> QED BY <2>1, <2>2, <1>2
  <1>13. EntriesInOrder'
    <2>1. /\ \A n \in DOMAIN entries :
                /\ entries[n].index < i /\ entries[n].index \in Nat
                /\ \E h \in 1 .. entries[n].index : Present(dirs[h]) # {}
          /\ \A n, m \in DOMAIN entries : n <= m => entries[n].index <= entries[m].index
      <3>1. \A n \in DOMAIN entries : entries[n] \in Entry
        BY <1>1
      <3>2. \A n \in DOMAIN entries : entries[n].index \in Nat
        BY <3>1 DEF Entry
      <3> QED BY <3>2 DEF Inv, EntriesInOrder
    <2>2. CASE k = "none"
      <3>1. entries' = entries
        BY <2>2, <1>4
      <3>2. \A n \in DOMAIN entries : entries[n].index < i'
        BY <2>1, <1>1, <1>2
      <3> QED BY <3>1, <3>2, <2>1, <1>2, <1>6 DEF EntriesInOrder
    <2>3. CASE k # "none"
      <3>1. \E h \in 1 .. i : Present(dirs[h]) # {}
        BY <2>3, <1>3, <1>12
      <3>2. new.index = i
        BY DEF new
      <3> HIDE DEF new
      <3>3. ASSUME NEW n \in DOMAIN entries'
            PROVE  entries'[n].index < i' /\ \E h \in 1 .. entries'[n].index : Present(dirs[h]) # {}
        <4>1. CASE n \in DOMAIN entries
          <5>1. entries'[n] = entries[n]
            BY <4>1, <2>3, <1>7
          <5>2. entries[n].index < i'
            BY <4>1, <2>1, <1>1, <1>2
          <5> QED BY <5>1, <5>2, <4>1, <2>1
        <4>2. CASE n = Len(entries) + 1
          <5>1. entries'[n].index = i
            BY <4>2, <3>2, <2>3, <1>7
          <5>2. i < i'
            BY <1>1, <1>2
          <5> QED BY <5>1, <5>2, <3>1
        <4>3. n \in DOMAIN entries \/ n = Len(entries) + 1
          BY <2>3, <1>7
        <4> QED BY <4>1, <4>2, <4>3
      <3>4. ASSUME NEW n \in DOMAIN entries', NEW m \in DOMAIN entries', n <= m
            PROVE  entries'[n].index <= entries'[m].index
        <4>1. CASE m \in DOMAIN entries
          <5>1. n \in DOMAIN entries
            BY <4>1, <3>4, <2>3, <1>7
          <5> QED BY <5>1, <4>1, <3>4, <2>1, <2>3, <1>7
        <4>2. CASE m = Len(entries) + 1
          <5>1. entries'[m].index = i
            BY <4>2, <3>2, <2>3, <1>7
          <5>2. entries'[n].index < i + 1 /\ entries'[n].index \in Nat
            <6>1. CASE n \in DOMAIN entries
              BY <6>1, <2>1, <2>3, <1>1, <1>7
            <6>2. CASE n = Len(entries) + 1
              BY <6>2, <3>2, <2>3, <1>1, <1>7
            <6> QED BY <6>1, <6>2, <2>3, <1>7
          <5> QED BY <5>1, <5>2, <1>1
        <4> QED BY <4>1, <4>2, <2>3, <1>7
      <3> QED BY <3>3, <3>4, <1>2, <1>6 DEF EntriesInOrder
    <2> QED BY <2>2, <2>3
  <1>14. FirstHasEntry'
    <2> SUFFICES ASSUME NEW j \in 1 .. i, Present(dirs[j]) # {},
                        \A h \in 1 .. j - 1 : Present(dirs[h]) = {}
                 PROVE  \E n \in DOMAIN entries' :
                            entries'[n].index = j /\ <<dirs[j], entries'[n].kind>> \in fs
      <3>1. i' - 1 = i
        BY <1>1, <1>2
      <3> QED BY <3>1, <1>2, <1>6 DEF FirstHasEntry
    <2>1. CASE j < i
      <3>1. PICK n \in DOMAIN entries :
                entries[n].index = j /\ <<dirs[j], entries[n].kind>> \in fs
        <4>1. j \in 1 .. i - 1
          BY <2>1, <1>1
        <4> QED BY <4>1 DEF Inv, FirstHasEntry
      <3> QED BY <3>1, <1>4, <1>7
    <2>2. CASE j = i
      <3>1. seen = {}
        BY <2>2, <1>1 DEF Inv, SeenSoFar
      <3>2. seen' = Present(dirs[i]) /\ k # "none" /\ k \in Present(dirs[i])
        BY <3>1, <2>2, <1>2, <1>3
      <3> QED BY <3>2, <2>2, <1>7 DEF Present
    <2> QED BY <2>1, <2>2, <1>1
  <1>15. ModulesWereFound'
    <2> SUFFICES ASSUME isModule PROVE ModulesWereFound'
      BY <1>2 DEF ModulesWereFound
    <2>1. isModule' /\ seen \subseteq ModuleKinds /\ Present(dirs[i]) \subseteq ModuleKinds
          /\ seen' \subseteq ModuleKinds
      BY <1>1, <1>2 DEF Inv, ModulesWereFound, Present
    <2>2. Best' = k
      BY <1>2 DEF Best, k
    <2>3. CASE k = "none"
      BY <2>1, <2>2, <2>3, <1>2, <1>3, <1>4, <1>6 DEF Inv, ModulesWereFound, IsPresent
    <2>4. CASE k # "none"
      <3>1. k \in ModuleKinds /\ k \in seen'
        BY <2>1, <2>4, <1>3
      <3>2. k \notin Present(dirs[i]) =>
                \E m \in DOMAIN entries : entries[m].kind = k
        <4> SUFFICES ASSUME k \notin Present(dirs[i])
                     PROVE  \E m \in DOMAIN entries : entries[m].kind = k
          OBVIOUS
        <4>1. k \in seen
          BY <3>1, <1>2
        <4>2. isModule = TRUE
          BY <1>1
        <4>3. k = Best
          BY <2>1, <4>1, <4>2, <1>2, PriorityIsStable DEF k, Best
        <4> QED BY <4>1, <4>3 DEF Inv, ModulesWereFound
      <3>3. \E m \in 1 .. Len(entries') :
                entries'[m].kind = k /\ <<dirs[entries'[m].index], entries'[m].kind>> \in fs
        <4>1. CASE k \in Present(dirs[i])
          BY <4>1, <2>4, <1>7 DEF Present
        <4>2. CASE k \notin Present(dirs[i])
          <5>1. PICK m \in DOMAIN entries : entries[m].kind = k
            BY <4>2, <3>2
          <5>2. PICK h \in 1 .. m : entries[h].kind = k /\ IsPresent(entries[h])
            BY <5>1 DEF Inv, ModulesWereFound
          <5>3. h \in DOMAIN entries /\ h \in 1 .. Len(entries')
            BY <2>4, <1>7
          <5>4. entries'[h] = entries[h]
            BY <5>3, <2>4, <1>7
          <5> QED BY <5>2, <5>3, <5>4 DEF IsPresent
        <4> QED BY <4>1, <4>2
      <3>4. ASSUME NEW n \in DOMAIN entries'
            PROVE  /\ entries'[n].kind \in ModuleKinds
                   /\ \E m \in 1 .. n : /\ entries'[m].kind = entries'[n].kind
                                        /\ <<dirs[entries'[m].index], entries'[m].kind>> \in fs
        <4>1. CASE n \in DOMAIN entries
          <5>1. PICK h \in 1 .. n : entries[h].kind = entries[n].kind /\ IsPresent(entries[h])
            BY <4>1 DEF Inv, ModulesWereFound
          <5>2. h \in DOMAIN entries /\ entries[n].kind \in ModuleKinds
            BY <4>1, <2>4, <1>7 DEF Inv, ModulesWereFound
          <5> QED BY <5>1, <5>2, <4>1, <2>4, <1>7 DEF IsPresent
        <4>2. CASE n = Len(entries')
          <5>1. entries'[n].kind = k
            BY <4>2, <2>4, <1>7 DEF new
          <5> QED BY <5>1, <4>2, <3>1, <3>3
        <4> QED BY <4>1, <4>2, <2>4, <1>7
      <3>5. \E n \in DOMAIN entries' : entries'[n].kind = k
        BY <2>4, <1>7
      <3> QED BY <3>4, <3>5, <2>1, <2>2, <1>2 DEF ModulesWereFound, IsPresent
    <2> QED BY <2>3, <2>4
  <1> QED BY <1>8, <1>9, <1>10, <1>11, <1>13, <1>14, <1>15 DEF Inv

(* The parts about the loop do not depend on the variables of the other      *)
(* steps.                                                                   *)
LEMMA LoopPartsKept ==
    ASSUME Inv, UNCHANGED <<dirs, fs, isModule, i, seen, entries, foundAny>>
    PROVE  /\ SeenSoFar' /\ EntriesWhenSeen' /\ EntriesInOrder'
           /\ FirstHasEntry' /\ ModulesWereFound'
  <1>1. /\ \A d : Present(d)' = Present(d)
        /\ \A e : IsPresent(e)' <=> IsPresent(e)
        /\ Best' = Best
    BY DEF Present, IsPresent, Best
  <1>2. SeenSoFar'        BY <1>1 DEF Inv, SeenSoFar
  <1>3. EntriesWhenSeen'  BY DEF Inv, EntriesWhenSeen
  <1>4. EntriesInOrder'   BY <1>1 DEF Inv, EntriesInOrder
  <1>5. FirstHasEntry'    BY <1>1 DEF Inv, FirstHasEntry
  <1>6. ModulesWereFound' BY <1>1 DEF Inv, ModulesWereFound
  <1> QED BY <1>2, <1>3, <1>4, <1>5, <1>6

(* The steps before the loop, its end and stuttering keep the invariant.    *)
LEMMA OtherStepsInv == Inv /\ (AddDir \/ StartScan \/ Return \/ Done \/ UNCHANGED vars) => Inv'
  <1> SUFFICES ASSUME Inv, AddDir \/ StartScan \/ Return \/ Done \/ UNCHANGED vars
               PROVE  Inv'
    OBVIOUS
  <1>1. CASE AddDir
    <2>1. /\ TypeOK /\ pc = "paths" /\ pc' = pc
          /\ i = 1 /\ seen = {} /\ entries = <<>> /\ ~foundAny
          /\ UNCHANGED <<fs, isModule, i, seen, entries, foundAny, resolved, reported>>
      BY <1>1 DEF Inv, Fresh, AddDir, inputs
    <2>2. args' \in Seq(Places \cup {NotADir}) /\ dirs' \in Seq(Places) /\ Len(dirs') \in Nat
          /\ Len(dirs) \in Nat /\ Len(dirs) <= Len(dirs')
      BY <1>1, <2>1, PlacesAssumption DEF AddDir, TypeOK, IsDirectory
    <2>3. resolved \subseteq Entry'
      BY <2>1, <2>2 DEF TypeOK, Entry
    <2>4. TypeOK'
      BY <2>1, <2>2, <2>3 DEF TypeOK
    <2>5. Fresh' /\ SeenSoFar' /\ EntriesWhenSeen' /\ EntriesInOrder' /\ FirstHasEntry'
          /\ ModulesWereFound' /\ Returned'
      BY <2>1 DEF Fresh, SeenSoFar, EntriesWhenSeen, EntriesInOrder, FirstHasEntry,
                  ModulesWereFound, Returned, Best
    <2> QED BY <2>4, <2>5 DEF Inv
  <1>2. CASE StartScan
    <2>1. /\ TypeOK /\ pc = "paths" /\ pc' = "scan"
          /\ UNCHANGED <<args, dirs, fs, isModule, i, seen, entries, foundAny, resolved, reported>>
      BY <1>2 DEF Inv, StartScan, inputs
    <2>2. TypeOK' /\ Fresh' /\ Returned'
      BY <2>1 DEF TypeOK, Entry, Fresh, Returned
    <2> QED BY <2>1, <2>2, LoopPartsKept DEF Inv
  <1>3. CASE Return
    <2>1. /\ TypeOK /\ i > Len(dirs) /\ pc' = "done"
          /\ reported' = ~foundAny /\ resolved' = LowestIndexes(entries)
          /\ UNCHANGED <<args, dirs, fs, isModule, i, seen, entries, foundAny>>
      BY <1>3 DEF Inv, Return, inputs
    <2>2. LowestIndexes(entries) \subseteq Entry
      BY <2>1 DEF TypeOK, LowestIndexes
    <2>3. TypeOK'
      BY <2>1, <2>2 DEF TypeOK, Entry
    <2>4. LowestIndexes(entries)' = LowestIndexes(entries)
      BY <2>1 DEF LowestIndexes
    <2>5. Returned'
      BY <2>1, <2>4 DEF Returned
    <2>6. Fresh'
      BY <2>1 DEF Fresh
    <2> QED BY <2>1, <2>3, <2>5, <2>6, LoopPartsKept DEF Inv
  <1>4. CASE Done \/ UNCHANGED vars
    <2>1. UNCHANGED <<args, dirs, fs, isModule, i, seen, entries, foundAny, resolved, reported, pc>>
      BY <1>4 DEF Done, vars
    <2>2. LowestIndexes(entries)' = LowestIndexes(entries)
      BY <2>1 DEF LowestIndexes
    <2>3. TypeOK' /\ Fresh' /\ Returned'
      BY <2>1, <2>2 DEF Inv, TypeOK, Entry, Fresh, Returned
    <2> QED BY <2>1, <2>3, LoopPartsKept DEF Inv
  <1> QED BY <1>1, <1>2, <1>3, <1>4

(* The parts above and the type invariant hold in every reachable state.    *)
THEOREM Invariance == Spec => []Inv
  <1>1. Inv /\ [Next]_vars => Inv'
    BY ScanDirInv, OtherStepsInv DEF Next
  <1> QED BY InitInv, <1>1, PTL DEF Spec

(* Every variable keeps its type.                                           *)
THEOREM TypeCorrect == Spec => []TypeOK
  <1>1. Inv => TypeOK  BY DEF Inv
  <1> QED BY <1>1, Invariance, PTL

(* The first directory with a candidate contributes a file that it has, for  *)
(* any number of directories: final_import_normalizer.                      *)
THEOREM FirstDirectoryWins == Spec => []FirstDirectoryContributes
  <1>1. Inv => FirstDirectoryContributes
    <2> SUFFICES ASSUME Inv, pc = "done", NEW j \in 1 .. Len(dirs), HasCandidate(dirs[j]),
                        \A h \in 1 .. j - 1 : ~HasCandidate(dirs[h])
                 PROVE  \E e \in resolved : e.index = j /\ <<dirs[j], e.kind>> \in fs
      BY DEF FirstDirectoryContributes
    <2>1. i > Len(dirs) /\ resolved = LowestIndexes(entries)
          /\ entries \in Seq(Entry) /\ i \in Nat /\ Len(dirs) \in Nat
      BY DEF Inv, Returned, TypeOK
    <2>2. PICK n \in DOMAIN entries :
              entries[n].index = j /\ <<dirs[j], entries[n].kind>> \in fs
      <3>1. j \in 1 .. i - 1
        BY <2>1
      <3>2. FirstHasEntry
        BY DEF Inv
      <3> QED BY <3>1, <3>2 DEF FirstHasEntry, HasCandidate
    <2>3. ASSUME NEW m \in DOMAIN entries PROVE entries[n].index <= entries[m].index
      <3>1. PICK h \in 1 .. entries[m].index : Present(dirs[h]) # {}
        BY DEF Inv, EntriesInOrder
      <3>2. entries[m].index \in Nat
        <4>1. entries[m] \in Entry
          BY <2>1
        <4> QED BY <4>1 DEF Entry
      <3>3. ~(h \in 1 .. j - 1)
        BY <3>1 DEF HasCandidate
      <3>4. j \in Nat /\ h \in Nat /\ h >= j
        BY <3>2, <3>3, <2>1
      <3> QED BY <3>2, <3>4, <2>2
    <2>4. entries[n] \in resolved
      BY <2>1, <2>3 DEF LowestIndexes
    <2> QED BY <2>2, <2>4
  <1> QED BY <1>1, Invariance, PTL

(* Nothing is returned exactly when there is nothing to find, and then the   *)
(* error "could not locate import" was reported.                            *)
THEOREM NothingIsLostSilently == Spec => []NothingFoundIsReported
  <1>1. Inv => NothingFoundIsReported
    <2> SUFFICES ASSUME Inv, pc = "done"
                 PROVE  /\ resolved = {} <=> \A j \in 1 .. Len(dirs) : ~HasCandidate(dirs[j])
                        /\ resolved = {} => reported
      BY DEF NothingFoundIsReported
    <2>1. /\ i > Len(dirs) /\ resolved = LowestIndexes(entries) /\ (reported <=> ~foundAny)
          /\ entries \in Seq(Entry) /\ i \in 1 .. Len(dirs) + 1 /\ Len(dirs) \in Nat
          /\ seen \subseteq Kinds
      BY DEF Inv, Returned, TypeOK
    <2>2. seen = {} <=> \A j \in 1 .. Len(dirs) : ~HasCandidate(dirs[j])
      <3>1. i - 1 = Len(dirs)
        BY <2>1
      <3>2. \A j \in 1 .. Len(dirs) : Present(dirs[j]) \subseteq Kinds
        BY DEF Present
      <3> QED BY <3>1, <3>2, <2>1 DEF Inv, SeenSoFar, HasCandidate
    <2>3. resolved = {} <=> entries = <<>>
      <3>1. CASE entries = <<>>
        BY <3>1, <2>1 DEF LowestIndexes
      <3>2. CASE entries # <<>>
        <4>1. 1 \in DOMAIN entries /\ \A n \in DOMAIN entries : 1 <= n
          BY <3>2, <2>1
        <4>2. \A n \in DOMAIN entries : entries[1].index <= entries[n].index
          BY <4>1 DEF Inv, EntriesInOrder
        <4>3. entries[1] \in resolved
          BY <4>1, <4>2, <2>1 DEF LowestIndexes
        <4> QED BY <4>3, <3>2
      <3> QED BY <3>1, <3>2
    <2>4. seen = {} <=> entries = <<>>
      BY DEF Inv, EntriesWhenSeen
    <2>5. foundAny => seen # {}
      BY DEF Inv, EntriesWhenSeen
    <2> QED BY <2>1, <2>2, <2>3, <2>4, <2>5
  <1> QED BY <1>1, Invariance, PTL

(* A module import returns only files that are where the entry says, in      *)
(* spite of the flags that are not reset between directories.               *)
THEOREM ModuleImportsAreReal == Spec => []ModuleImportsExist
  <1>1. Inv => ModuleImportsExist
    <2> SUFFICES ASSUME Inv, pc = "done", isModule, NEW e \in resolved
                 PROVE  e.kind \in ModuleKinds /\ <<dirs[e.index], e.kind>> \in fs
      BY DEF ModuleImportsExist
    <2>1. resolved = LowestIndexes(entries) /\ entries \in Seq(Entry)
      BY DEF Inv, Returned, TypeOK
    <2>2. PICK n \in DOMAIN entries : entries[n] = e
      BY <2>1 DEF LowestIndexes
    <2>3. PICK m \in 1 .. n : entries[m].kind = e.kind /\ IsPresent(entries[m])
      BY <2>2 DEF Inv, ModulesWereFound
    <2>4. m \in DOMAIN entries /\ m <= n /\ entries[m] \in Entry /\ entries[n] \in Entry
      BY <2>1
    <2>5. entries[m].index <= entries[n].index
      BY <2>4 DEF Inv, EntriesInOrder
    <2>6. e.index <= entries[m].index
      BY <2>1, <2>3, <2>4 DEF LowestIndexes
    <2>7. entries[m].index = e.index
      BY <2>2, <2>4, <2>5, <2>6 DEF Entry
    <2>8. e.kind \in ModuleKinds
      BY <2>2 DEF Inv, ModulesWereFound
    <2> QED BY <2>3, <2>7, <2>8 DEF IsPresent
  <1> QED BY <1>1, Invariance, PTL


-----------------------------------------------------------------------------
(* find_import_priority, return by return as it is written.                  *)
Chain(explicitModule, mod, hdr, modLib, hdrLib) ==
    IF explicitModule /\ modLib THEN "mod_lib"
    ELSE IF explicitModule /\ mod THEN "mod"
    ELSE IF mod /\ hdr /\ modLib /\ hdrLib THEN "hdr"
    ELSE IF mod /\ modLib /\ hdrLib THEN "hdr_lib"
    ELSE IF mod /\ hdr /\ hdrLib THEN "hdr"
    ELSE IF mod /\ hdr /\ modLib THEN "mod_lib"
    ELSE IF hdr /\ modLib /\ hdrLib THEN "hdr_lib"
    ELSE IF mod /\ hdr THEN "hdr"
    ELSE IF mod /\ modLib THEN "mod_lib"
    ELSE IF mod /\ hdrLib THEN "hdr_lib"
    ELSE IF hdr /\ modLib THEN "mod_lib"
    ELSE IF hdr /\ hdrLib THEN "hdr_lib"
    ELSE IF modLib /\ hdrLib THEN "hdr_lib"
    ELSE IF mod THEN "mod"
    ELSE IF hdr THEN "hdr"
    ELSE IF modLib THEN "mod_lib"
    ELSE IF hdrLib THEN "hdr_lib"
    ELSE "none"

(* The rule that the model states is what the nineteen returns of the code     *)
(* come to, for every combination of the four flags.                         *)
THEOREM PriorityIsTheChain ==
    ASSUME NEW s \in SUBSET Kinds, NEW explicitModule \in BOOLEAN
    PROVE  FindImportPriority(explicitModule, s) =
               Chain(explicitModule, "mod" \in s, "hdr" \in s, "mod_lib" \in s, "hdr_lib" \in s)
<1>1. s \cap ModuleKinds # {} <=> "mod" \in s \/ "mod_lib" \in s
  BY DEF ModuleKinds
<1>2. CASE "mod" \in s
  BY <1>1, <1>2 DEF FindImportPriority, Chain
<1>3. CASE "mod" \notin s
  BY <1>1, <1>3 DEF FindImportPriority, Chain
<1>4. QED BY <1>2, <1>3
=============================================================================

---------------------------- MODULE FileArchives ----------------------------
(* What a file task stores and what restoring it brings back (FileRunner    *)
(* with its manifest): a full backup walks a directory and archives every   *)
(* entry, a differential one archives what changed since the full backup    *)
(* and names what is gone, and a restore extracts the one over the other.   *)
(* The directory is written to while it is walked, a file also between the  *)
(* moment it is looked up and the moment its content has been copied.       *)
EXTENDS Integers, Sequences, FiniteSets, SequencesExt

CONSTANTS
    Absent,
    Order,       \* the paths below the source in the order of a walk
    ParentOf,    \* [paths -> path or Absent at the top]
    Exclusions,  \* what the patterns of a run may exclude: sets of paths
    MaxWrites,   \* bound: changes of the source
    MaxRefusals  \* bound: entries the file system refuses to show

Paths == Range(Order)

(* An entry: a directory, or a file with the version of its content.  Size  *)
(* and time of modification tell versions apart; modes are left out.        *)
Dir == [kind |-> "dir", version |-> 0]
File(v) == [kind |-> "file", version |-> v]
(* A file with some bytes of one version and some of another.               *)
Torn == File(0)
Entries == {Dir} \cup [kind : {"file"}, version : Nat]
Trees == [Paths -> Entries \cup {Absent}]

(* A path comes once, after the directory it is in.                         *)
ASSUME ArchivesAssumption ==
    /\ Order \in Seq(Paths) /\ IsInjective(Order)
    /\ ParentOf \in [Paths -> Paths \cup {Absent}]
    /\ \A i \in DOMAIN Order :
         ParentOf[Order[i]] = Absent \/ \E j \in 1 .. i - 1 : Order[j] = ParentOf[Order[i]]
    /\ Absent \notin Paths /\ Absent \notin Entries /\ Absent \notin Trees
    /\ Exclusions \subseteq SUBSET Paths
    /\ MaxWrites \in Nat /\ MaxRefusals \in Nat

VARIABLES
    source,   \* [Paths -> entry or Absent]
    writes, refusals,
    walk,     \* the run that walks the source, or Absent
    full,     \* the last full backup, or Absent
    diff      \* the last differential on it, or Absent

archivesVars == <<source, writes, refusals, walk, full, diff>>

Nothing == [p \in Paths |-> Absent]

IsDirIn(tree, p) == tree[p] # Absent /\ tree[p].kind = "dir"
HasParent(tree, p) == ParentOf[p] # Absent => IsDirIn(tree, ParentOf[p])

AboveOf[p \in Paths] ==
    IF ParentOf[p] = Absent THEN {} ELSE {ParentOf[p]} \cup AboveOf[ParentOf[p]]
Under(p) == {q \in Paths : q = p \/ p \in AboveOf[q]}

-----------------------------------------------------------------------------
(* The source.                                                              *)

Becomes(tree) ==
    /\ writes < MaxWrites
    /\ writes' = writes + 1
    /\ source' = tree
    /\ UNCHANGED <<refusals, walk, full, diff>>

PutFile(p) ==
    /\ HasParent(source, p) /\ ~IsDirIn(source, p)
    /\ Becomes([source EXCEPT ![p] = File(writes + 1)])

PutDir(p) ==
    /\ HasParent(source, p) /\ source[p] = Absent
    /\ Becomes([source EXCEPT ![p] = Dir])

Erase(p) ==
    /\ source[p] # Absent
    /\ Becomes([q \in Paths |-> IF q \in Under(p) THEN Absent ELSE source[q]])

-----------------------------------------------------------------------------
(* A run.                                                                   *)

(* readDirNames of a directory, of the source itself when p is Absent.      *)
Names(p) ==
    FoldLeft(LAMBDA names, q : IF ParentOf[q] = p /\ source[q] # Absent THEN Append(names, q) ELSE names,
             <<>>, Order)

(* The entries a manifest lists.                                            *)
index(manifest) == {p \in Paths : manifest[p] # Absent}

(* A differential run needs a full backup with a manifest that is not empty.*)
StartRun(differential, excluded) ==
    /\ walk = Absent
    /\ differential => full # Absent /\ index(full.manifest) # {}
    /\ walk' = [differential |-> differential, excluded |-> excluded, todo |-> Names(Absent),
                archive |-> <<>>, seen |-> Nothing, copying |-> Absent, torn |-> {}, short |-> FALSE]
    /\ UNCHANGED <<source, writes, refusals, full, diff>>

changedSince(base, p, entry) ==
    \/ base[p] = Absent
    \/ entry.kind # "dir" /\ base[p] # entry

(* Mutant: only files that are gone are named. *)
DeletedFiles(base, seen) == {p \in index(base) \ index(seen) : base[p].kind = "file"}

deletedPaths(base, seen) == index(base) \ index(seen)

Goes(w) == walk' = w /\ UNCHANGED <<source, writes, full, diff>>

(* The next name is looked up.  It may be gone by now: it is passed over.   *)
(* A name that is shown goes into the manifest, and with its header into    *)
(* the archive, unless the tar writer still waits for bytes of the last     *)
(* file; what a file holds is copied after that.                            *)
Visit ==
    /\ walk # Absent /\ walk.todo # <<>> /\ walk.copying = Absent
    /\ LET p == Head(walk.todo)
           entry == source[p]
           archived == ~walk.differential \/ changedSince(full.manifest, p, entry)
       IN IF entry = Absent \/ p \in walk.excluded
          THEN Goes([walk EXCEPT !.todo = Tail(@)])
          ELSE /\ archived => ~walk.short
               /\ Goes([walk EXCEPT
                    !.todo = (IF entry.kind = "dir" THEN Names(p) ELSE <<>>) \o Tail(@),
                    !.seen[p] = entry,
                    !.archive = IF archived THEN Append(@, [path |-> p, entry |-> entry]) ELSE @,
                    !.copying = IF archived /\ entry.kind = "file" THEN p ELSE Absent])
    /\ UNCHANGED refusals

(* The file system refuses a name: it is passed over with a warning.        *)
Refuse ==
    /\ walk # Absent /\ walk.todo # <<>> /\ walk.copying = Absent /\ refusals < MaxRefusals
    /\ refusals' = refusals + 1
    /\ Goes([walk EXCEPT !.todo = Tail(@)])

(* As many bytes are copied as the file had when it was looked up.  It was  *)
(* opened before anything happened to it, or it was written to and what is  *)
(* copied is torn.  The end of a file that has shrunk is no error: the      *)
(* entry stays short.                                                       *)
Copy ==
    /\ walk # Absent /\ walk.copying # Absent
    /\ LET p == walk.copying IN
         \/ Goes([walk EXCEPT !.copying = Absent])
         \/ /\ source[p] # Absent /\ source[p].kind = "file" /\ source[p] # walk.seen[p]
            /\ \E shrunk \in BOOLEAN :
                 Goes([walk EXCEPT !.copying = Absent, !.torn = @ \cup {p}, !.short = shrunk])
    /\ UNCHANGED refusals

(* A file cannot be opened or read, or the archive cannot be written, for   *)
(* one because the last file was short: the run fails.                      *)
FailRun ==
    /\ walk # Absent
    /\ Goes(Absent) /\ UNCHANGED refusals

(* The list of what is gone is the last entry of a differential archive.  A *)
(* full archive that ends with a short file is a success: the error of the  *)
(* deferred Close is lost.                                                  *)
FinishRun ==
    /\ walk # Absent /\ walk.todo = <<>> /\ walk.copying = Absent
    /\ IF walk.differential
       THEN /\ ~walk.short
            /\ diff' = [archive |-> walk.archive, manifest |-> walk.seen,
                        torn |-> walk.torn, short |-> FALSE,
                        deletions |-> deletedPaths(full.manifest, walk.seen)]
            /\ UNCHANGED full
       ELSE /\ full' = [archive |-> walk.archive, manifest |-> walk.seen,
                        torn |-> walk.torn, short |-> walk.short, deletions |-> {}]
            /\ diff' = Absent
    /\ walk' = Absent
    /\ UNCHANGED <<source, writes, refusals>>

-----------------------------------------------------------------------------
(* A restore, of a selection of paths and what is below them.  A tree that  *)
(* is Absent is a restore that failed.                                      *)

(* Nothing selected is everything.                                          *)
pathSelected(p, selected) == selected = {} \/ \E q \in selected : p \in Under(q)

(* MkdirAll: what is missing above p is created, unless a file is in the    *)
(* way.                                                                     *)
MkdirAll(tree, ps) ==
    IF \E q \in ps : tree[q] # Absent /\ tree[q].kind = "file" THEN Absent
    ELSE [q \in Paths |-> IF q \in ps THEN Dir ELSE tree[q]]

Extract(tree, item) ==
    LET p == item.path
        ready == IF tree = Absent THEN Absent
                 ELSE MkdirAll(tree, AboveOf[p] \cup IF item.entry.kind = "dir" THEN {p} ELSE {})
    IN IF ready = Absent THEN Absent
       ELSE IF item.entry.kind = "dir" THEN ready
       ELSE IF IsDirIn(ready, p) THEN Absent
       ELSE [ready EXCEPT ![p] = item.entry]

(* The deletions are applied after everything is extracted.                 *)
applyDeletions(tree, deletions) ==
    IF tree = Absent THEN Absent
    ELSE [q \in Paths |-> IF \E p \in deletions : q \in Under(p) THEN Absent ELSE tree[q]]

ExtractSelected(tree, item, selected) ==
    IF pathSelected(item.path, selected) THEN Extract(tree, item) ELSE tree

(* What is stored of a path, and the entries as they are read: a torn file  *)
(* is what was copied of it.                                                *)
Stored(backup, p) == IF p \in backup.torn THEN Torn ELSE backup.manifest[p]

EntriesRead(backup) ==
    [i \in DOMAIN backup.archive |->
       [path |-> backup.archive[i].path,
        entry |-> IF backup.archive[i].path \in backup.torn THEN Torn ELSE backup.archive[i].entry]]

(* Reading an archive that ends too early fails, whatever is selected.      *)
Restore(tree, backup, selected) ==
    IF backup.short THEN Absent
    ELSE applyDeletions(FoldLeft(LAMBDA t, item : ExtractSelected(t, item, selected), tree, EntriesRead(backup)),
                        {p \in backup.deletions : pathSelected(p, selected)})

-----------------------------------------------------------------------------
ArchivesInit ==
    /\ source = Nothing /\ writes = 0 /\ refusals = 0
    /\ walk = Absent /\ full = Absent /\ diff = Absent

ArchivesNext ==
    \/ \E p \in Paths : PutFile(p) \/ PutDir(p) \/ Erase(p)
    \/ \E differential \in BOOLEAN, excluded \in Exclusions : StartRun(differential, excluded)
    \/ Visit \/ Refuse \/ Copy \/ FailRun \/ FinishRun

ArchivesSpec == ArchivesInit /\ [][ArchivesNext]_archivesVars

-----------------------------------------------------------------------------
(* A path was a file in the full backup and is a directory in the           *)
(* differential one, or the other way round.                                *)
KindChanged ==
    \E p \in index(full.manifest) \cap index(diff.manifest) :
      full.manifest[p].kind # diff.manifest[p].kind

(* Restoring the full backup and the differential over it brings back every *)
(* selected path as the walk of the differential saw it, and no other, for  *)
(* whatever was written during the walks, excluded or refused: a file the   *)
(* full backup holds torn is replaced, and only a file that was written to  *)
(* while the differential copied it is of neither version.  This is unless  *)
(* a path changed its kind, which the code does not handle (differential    *)
(* archives and deletions.json, "恢复时 ... 在基线之上删除对应路径"), or    *)
(* the full archive ends with a short file.                                 *)
DifferentialRestores ==
    (diff # Absent /\ ~KindChanged /\ ~full.short) =>
      \A selected \in SUBSET Paths :
        LET tree == Restore(Restore(Nothing, full, selected), diff, selected) IN
          /\ tree # Absent
          /\ \A p \in Paths :
               IF pathSelected(p, selected) THEN tree[p] = Stored(diff, p)
               ELSE tree[p] # Absent => \E q \in selected : p \in AboveOf[q]
=============================================================================

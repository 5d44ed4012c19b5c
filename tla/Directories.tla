----------------------------- MODULE Directories -----------------------------
(* Directory, TempDirectory and DataDirectory (directories.hpp and .cpp) on  *)
(* one file system, used by several processes at once. The file system is    *)
(* external: which paths exist and which of them are files. A path is the    *)
(* sequence of its names below the base of all of them.                      *)
EXTENDS Integers, Sequences, FiniteSets

CONSTANTS
  DirUsers,         \* processes, each with at most one TempDirectory
  TempNames,        \* what get_random_alpha_string may return
  DrawnApart        \* no name is drawn by two processes at the same time

ASSUME NamesAssumption == "data" \notin TempNames /\ DrawnApart \in BOOLEAN

VARIABLES
  files, dirs,      \* the paths that exist
  dirPc,            \* per process: idle, found (a path), alive (its directory)
  dirName,          \* per process: the name of its TempDirectory
  put,              \* per process: what it put below its directory (history)
  stored            \* files the node put in its data directory (history)

directoriesVars == <<files, dirs, dirPc, dirName, put, stored>>

DataSubdirs == {<<"data", "chaindata">>, <<"data", "etl-tmp">>, <<"data", "nodes">>}

Below(path) == {q \in files \union dirs : Len(q) > Len(path) /\ SubSeq(q, 1, Len(path)) = path}
Existing == files \union dirs

DirectoriesInit ==
  /\ files = {} /\ dirs = {<<>>}
  /\ dirPc = [p \in DirUsers |-> "idle"] /\ dirName = [p \in DirUsers |-> "none"]
  /\ put = [p \in DirUsers |-> {}] /\ stored = {}

Mine(p) == <<dirName[p]>>
Has(p) == dirPc[p] = "alive"

-----------------------------------------------------------------------------
(* Directory::create, and the parents with it. *)
Created(path) == {SubSeq(path, 1, i) : i \in 0..Len(path)}

\* Mutant: a name is taken whether or not it exists.
UniquePathAny(p) ==
  /\ dirPc[p] = "idle"
  /\ \E n \in TempNames :
       /\ DrawnApart => \A q \in DirUsers : dirPc[q] = "found" => dirName[q] # n
       /\ dirName' = [dirName EXCEPT ![p] = n]
  /\ dirPc' = [dirPc EXCEPT ![p] = "found"]
  /\ UNCHANGED <<files, dirs, put, stored>>

(* get_unique_temporary_path: some path that does not exist. When all the    *)
(* attempts fail it throws, and nothing happens.                             *)
UniquePath(p) ==
  /\ dirPc[p] = "idle"
  /\ \E n \in TempNames :
       /\ <<n>> \notin Existing
       /\ DrawnApart => \A q \in DirUsers : dirPc[q] = "found" => dirName[q] # n
       /\ dirName' = [dirName EXCEPT ![p] = n]
  /\ dirPc' = [dirPc EXCEPT ![p] = "found"]
  /\ UNCHANGED <<files, dirs, put, stored>>

(* The constructor, later: throws if there is a file by now. *)
TempCreate(p) ==
  /\ dirPc[p] = "found"
  /\ IF Mine(p) \in files THEN dirPc' = [dirPc EXCEPT ![p] = "idle"] /\ UNCHANGED dirs
     ELSE dirPc' = [dirPc EXCEPT ![p] = "alive"] /\ dirs' = dirs \union Created(Mine(p))
  /\ UNCHANGED <<files, dirName, put, stored>>

(* The destructor of a TempDirectory: remove_all. *)
TempDestroy(p) ==
  /\ Has(p) /\ dirPc' = [dirPc EXCEPT ![p] = "idle"]
  /\ files' = files \ (Below(Mine(p)) \union {Mine(p)})
  /\ dirs' = dirs \ (Below(Mine(p)) \union {Mine(p)})
  /\ put' = [put EXCEPT ![p] = {}]
  /\ UNCHANGED <<dirName, stored>>

(* operator[]: the subdirectory is created when it is not there. *)
Subdir(p) ==
  /\ Has(p)
  /\ dirs' = dirs \union Created(Mine(p) \o <<"sub">>)
  /\ put' = [put EXCEPT ![p] = @ \union {Mine(p) \o <<"sub">>}]
  /\ UNCHANGED <<files, dirPc, dirName, stored>>

(* The process writes a file where there is a directory for it. *)
PutFile(p) ==
  /\ Has(p)
  /\ \E d \in dirs \intersect {Mine(p), Mine(p) \o <<"sub">>} :
       /\ files' = files \union {d \o <<"file">>}
       /\ put' = [put EXCEPT ![p] = @ \union {d \o <<"file">>}]
  /\ UNCHANGED <<dirs, dirPc, dirName, stored>>

(* Directory::clear: without recurse the subdirectories are passed over. *)
ClearDir(p, recurse) ==
  LET gone == {q \in Below(Mine(p)) :
                 recurse \/ SubSeq(q, 1, 2) \notin dirs}
  IN  /\ Has(p)
      /\ files' = files \ gone /\ dirs' = dirs \ gone
      /\ put' = [put EXCEPT ![p] = IF recurse THEN {} ELSE @ \ {Mine(p) \o <<"file">>}]
      /\ UNCHANGED <<dirPc, dirName, stored>>

(* Directory::size, with files of one byte. *)
DirSize(path, recurse) ==
  Cardinality({q \in Below(path) \intersect files : recurse \/ Len(q) = Len(path) + 1})

(* Some other program creates a file of that name, or deletes its file. *)
Stranger ==
  /\ \E n \in TempNames :
       \/ <<n>> \notin Existing /\ files' = files \union {<<n>>}
       \/ <<n>> \in files /\ files' = files \ {<<n>>}
  /\ UNCHANGED <<dirs, dirPc, dirName, put, stored>>

-----------------------------------------------------------------------------
(* DataDirectory::deploy *)
Deploy ==
  /\ dirs' = dirs \union UNION {Created(d) : d \in DataSubdirs}
  /\ UNCHANGED <<files, dirPc, dirName, put, stored>>

(* The database writes its file in one of them. *)
StoreData ==
  /\ \E d \in DataSubdirs \intersect dirs :
       files' = files \union {d \o <<"file">>} /\ stored' = stored \union {d \o <<"file">>}
  /\ UNCHANGED <<dirs, dirPc, dirName, put>>

DirectoriesNext ==
  \/ \E p \in DirUsers :
       \/ UniquePath(p) \/ TempCreate(p) \/ TempDestroy(p) \/ Subdir(p) \/ PutFile(p)
       \/ \E recurse \in BOOLEAN : ClearDir(p, recurse)
  \/ Stranger \/ Deploy \/ StoreData

DirectoriesSpec == DirectoriesInit /\ [][DirectoriesNext]_directoriesVars

-----------------------------------------------------------------------------
(* Between the look at a path and its creation others create and remove      *)
(* theirs. Still, with names drawn apart: a temporary directory holds just   *)
(* what its own process put there and not yet cleared; none is left behind   *)
(* without a process; every file is in a directory; and what is stored in    *)
(* the data directory stays (TempDirectory, Directory::clear,                *)
(* DataDirectory::deploy). The sizes of the parts add up (Directory::size).  *)
TempsApart ==
  DrawnApart =>
    /\ \A p \in DirUsers : Has(p) => Mine(p) \in dirs /\ Below(Mine(p)) = put[p]
    /\ \A n \in TempNames : <<n>> \in dirs => \E p \in DirUsers : Has(p) /\ dirName[p] = n
    /\ \A q \in Existing : Len(q) > 0 => SubSeq(q, 1, Len(q) - 1) \in dirs
    /\ stored \subseteq files
    /\ \A p \in DirUsers : Has(p) =>
         DirSize(Mine(p), TRUE) = DirSize(Mine(p), FALSE) + DirSize(Mine(p) \o <<"sub">>, TRUE)
=============================================================================

-------------------------------- MODULE Env ---------------------------------
(* Opening an MDBX environment (open_env of mdbx.cpp): which configurations  *)
(* open which directory, in the order of the checks, what a refused one      *)
(* leaves behind, and the room of a leaf page. Several processes may open    *)
(* one directory, so that looking at the data file and opening it are two    *)
(* steps. Sizes are in units of 64 MiB. MDBX is external; what it maps is    *)
(* taken to be what it is asked to map.                                      *)
EXTENDS Integers

CONSTANTS
  Processes,        \* the processes that open the directory
  MaxFile,          \* bound: the largest data file
  PageSizes         \* page sizes a configuration may ask for

VARIABLES
  disk,             \* what the path is, the size of the data file, its page size
  env               \* each process: its open_env or its environment

envVars == <<disk, env>>

kInMemorySize == 2  \* 128 MiB

ASSUME EnvAssumption == MaxFile \in Nat /\ kInMemorySize <= MaxFile

EnvConfigs ==
  [create : BOOLEAN, readonly : BOOLEAN, exclusive : BOOLEAN, inmemory : BOOLEAN,
   shared : BOOLEAN, page_size : PageSizes, max_size : 1..MaxFile]

Closed == [at |-> "closed", create |-> FALSE, readonly |-> FALSE, page |-> 0, map |-> 0]

(* Any path, with a data file of any page size where there is a directory. *)
EnvInit ==
  /\ \/ \E p \in {"absent", "file"} : disk = [path |-> p, size |-> 0, page |-> 0]
     \/ \E n \in 0..MaxFile, p \in PageSizes :
          disk = [path |-> "directory", size |-> n, page |-> IF n = 0 THEN 0 ELSE p]
  /\ env = [p \in Processes |-> Closed]

\* Mutant: a missing data file is not noticed.
AcceptsMissing(config) ==
  /\ disk.path # "file"
  /\ config.create => disk.size = 0
  /\ disk.size <= config.max_size
  /\ ~(config.exclusive /\ config.shared)
  /\ ~(config.create /\ (config.shared \/ config.readonly))

(* The checks that throw before MDBX is called. *)
Accepts(config) ==
  /\ disk.path # "file"
  /\ config.create <=> disk.size = 0
  /\ disk.size <= config.max_size
  /\ ~(config.exclusive /\ config.shared)
  /\ ~(config.create /\ (config.shared \/ config.readonly))

(* The geometry: a shared environment has the one its first process gave it. *)
MapSize(config) ==
  IF config.shared THEN MaxFile ELSE IF config.inmemory THEN kInMemorySize ELSE config.max_size

(* open_env up to MDBX. An empty path throws at once and is left out; a      *)
(* missing directory is created before anything else is checked.             *)
CheckEnv(p, config) ==
  /\ env[p].at = "closed"
  /\ disk' = [disk EXCEPT !.path = IF @ = "absent" THEN "directory" ELSE @]
  /\ env' = IF Accepts(config)
              THEN [env EXCEPT ![p] = [at |-> "checked", create |-> config.create,
                                       readonly |-> config.readonly,
                                       page |-> config.page_size, map |-> MapSize(config)]]
              ELSE env

\* What MDBX leaves on disk when it opens: a data file, of the configured page size
\* when there was none.
OpenedDisk(p) ==
  IF disk.size = 0 THEN [disk EXCEPT !.size = 1, !.page = env[p].page] ELSE disk

\* Mutant: the page size of the environment is not compared with the configured one.
OpenEnvAnyPage(p) ==
  /\ env[p].at = "checked"
  /\ \/ disk' \in {disk, OpenedDisk(p)} /\ env' = [env EXCEPT ![p] = Closed]
     \/ disk' = OpenedDisk(p) /\ env' = [env EXCEPT ![p].at = "open"]

(* The rest of open_env. It throws when MDBX does not open the file, another *)
(* process holding it exclusively included, when an option cannot be set,    *)
(* and when the page size is not the configured one.                         *)
OpenEnv(p) ==
  /\ env[p].at = "checked"
  /\ \/ disk' \in {disk, OpenedDisk(p)} /\ env' = [env EXCEPT ![p] = Closed]
     \/ /\ OpenedDisk(p).page = env[p].page
        /\ disk' = OpenedDisk(p) /\ env' = [env EXCEPT ![p].at = "open"]

(* Writes make the data file grow within the map. *)
GrowFile(p) ==
  /\ env[p].at = "open" /\ ~env[p].readonly
  /\ disk.size < env[p].map /\ disk.size < MaxFile
  /\ disk' = [disk EXCEPT !.size = @ + 1]
  /\ UNCHANGED env

CloseEnv(p) == env[p].at = "open" /\ env' = [env EXCEPT ![p] = Closed] /\ UNCHANGED disk

EnvNext ==
  \E p \in Processes :
    (\E config \in EnvConfigs : CheckEnv(p, config)) \/ OpenEnv(p) \/ GrowFile(p) \/ CloseEnv(p)

EnvSpec == EnvInit /\ [][EnvNext]_envVars

-----------------------------------------------------------------------------
(* max_value_size_for_leaf_page; the examples are those of its comment. *)
MaxValueSizeForLeafPage(page_size, key_size) ==
  LET room == (page_size - 32) \div 2
  IN  room - (room % 2) - 2 * 2 - key_size

ASSUME LeafPageExamples ==
  MaxValueSizeForLeafPage(4096, 28) = 2000 /\ MaxValueSizeForLeafPage(4096, 60) = 1968

Disks ==
  [path : {"absent", "file", "directory"}, size : 0..MaxFile, page : {0} \union PageSizes]

Envs ==
  [at : {"closed", "checked", "open"}, create : BOOLEAN, readonly : BOOLEAN,
   page : {0} \union PageSizes, map : 0..MaxFile]

(* The state is well typed. *)
EnvTypeOK == disk \in Disks /\ env \in [Processes -> Envs]

(* Although another process may create the data file between the look at it  *)
(* (mdbx.cpp:66) and its opening (mdbx.cpp:129): MDBX is called on a         *)
(* directory, and for a configuration without create on a data file that is  *)
(* there, so that none is created unasked; an open environment has a data    *)
(* file of the page size its configuration names.                            *)
OpenSound ==
  \A p \in Processes :
    /\ env[p].at # "closed" => disk.path = "directory" /\ (~env[p].create => disk.size > 0)
    /\ env[p].at = "open" => disk.size > 0 /\ disk.page = env[p].page

(* "Prevent mapping a file with a smaller map size than the size on disk.    *)
(* Opening would not fail but only a part of data would be mapped."          *)
(* (mdbx.cpp:74-75): the map open_env asks for holds the file.               *)
MapHoldsFile == \A p \in Processes : env[p].at = "open" => disk.size <= env[p].map

=============================================================================

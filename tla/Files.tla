------------------------------- MODULE Files -------------------------------
(***************************************************************************)
(* Files as config::secure_write, std::fs::rename and remove_file use      *)
(* them: a directory of names and what each inode holds.  What a power     *)
(* loss leaves is up to the file system: data not synced may be lost or    *)
(* torn; names are journaled, so the directory is as it was at some moment *)
(* since it was last written back.  The program never syncs the directory. *)
(***************************************************************************)
EXTENDS Naturals, FiniteSets

CONSTANTS
    Name,           \* file names
    Inode,          \* bound: inodes there are
    Absent,         \* no inode, no content
    Blank, Torn     \* an empty file; a part of a value, or a mixture of two

ASSUME FileConstants == Inode \subseteq Nat /\ Absent \notin Inode /\ Blank # Torn

VARIABLES
    dir,        \* name -> inode
    versions,   \* directories that may be found after a power loss
    data,       \* inode -> what it holds
    unsynced    \* inodes whose data may not be on disk

fileVars == <<dir, versions, data, unsynced>>

InitFiles ==
    /\ dir = [ f \in Name |-> Absent ]
    /\ versions = {dir}
    /\ data = [ i \in Inode |-> Blank ]
    /\ unsynced = {}

(* What is under a name now, and in directory d.                           *)
ContentIn(d, f) == IF d[f] = Absent THEN Absent ELSE data[d[f]]
Content(f) == ContentIn(dir, f)

SetDir(d) == dir' = d /\ versions' = versions \union {d}

(* Inodes to be had, besides those in use by open files.                   *)
Free(open) == Inode \ (open \union { d[f] : d \in versions, f \in Name })

(* OpenOptions: write, create, truncate.                                   *)
OpenTruncated(f, i) ==
    /\ SetDir([ dir EXCEPT ![f] = i ])
    /\ data' = [ data EXCEPT ![i] = Blank ]
    /\ unsynced' = unsynced \union {i}

(* write_all: into a file that someone else has written, of another        *)
(* length, it leaves a mixture.                                            *)
WriteAll(i, v) ==
    /\ \E new \in IF data[i] = Blank THEN {v} ELSE {v, Torn} :
          data' = [ data EXCEPT ![i] = new ]
    /\ unsynced' = unsynced \union {i}
    /\ UNCHANGED <<dir, versions>>

(* The disk is full.                                                       *)
WriteSome(i) ==
    /\ data' = [ data EXCEPT ![i] = Torn ]
    /\ unsynced' = unsynced \union {i}
    /\ UNCHANGED <<dir, versions>>

(* A slip: sync_all is forgotten.                                          *)
SyncNothing(i) == UNCHANGED fileVars

SyncAll(i) ==
    /\ unsynced' = unsynced \ {i}
    /\ UNCHANGED <<dir, versions, data>>

(* A slip: the old name stays.                                             *)
RenameLeavingBoth(from, to) ==
    /\ SetDir([ dir EXCEPT ![to] = dir[from] ])
    /\ UNCHANGED <<data, unsynced>>

Rename(from, to) ==
    /\ SetDir([ dir EXCEPT ![to] = dir[from], ![from] = Absent ])
    /\ UNCHANGED <<data, unsynced>>

Remove(f) ==
    /\ SetDir([ dir EXCEPT ![f] = Absent ])
    /\ UNCHANGED <<data, unsynced>>

(* The system writes everything back, in its own time.                     *)
WriteBack ==
    /\ versions' = {dir} /\ unsynced' = {}
    /\ UNCHANGED <<dir, data>>

LosePower ==
    /\ dir' \in versions
    /\ versions' = {dir'}
    /\ \E lost \in SUBSET unsynced, new \in {Blank, Torn} :
          data' = [ i \in Inode |-> IF i \in lost THEN new ELSE data[i] ]
    /\ unsynced' = {}

=============================================================================

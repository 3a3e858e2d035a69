------------------------------ MODULE DataDir ------------------------------
(***************************************************************************)
(* The data directory and the jobs that work on it at once, each in a      *)
(* process of its own or on a thread: changes of the key store             *)
(* (crypto/keystore.rs), `aegis identity create` and `import`, `aegis      *)
(* wipe` (commands/), and a connection to the SQLite store.  There is no   *)
(* lock between them.                                                      *)
(***************************************************************************)
EXTENDS Naturals, FiniteSets, Files, SqliteStore

CONSTANTS
    Job,            \* bound: jobs at one time
    Key,            \* keys of the key store
    Identity,       \* identities there are to create or import
    MaxCommands     \* bound: calls of the store, and twice the jobs started

ASSUME DataDirConstants ==
    /\ Name = {"identity", "keys", "tmp"}
    /\ MaxCommands \in Nat
    /\ Identity \intersect {None, Absent, Blank, Torn} = {}
    /\ None \notin Inode /\ {None, Absent} \intersect {Blank, Torn} = {}

VARIABLES
    job,        \* what each job is at
    commands,   \* calls made, and twice the jobs started
    made,       \* identities created so far, each a new one
    mine,       \* history: the identity last written and reported, if
                \* neither an import, a wipe nor a directory that a power
                \* loss brought back has changed its entry since
    clash       \* history: what jobs worked on at the same time

ctlVars == <<job, commands, made, mine, clash>>
vars == <<fileVars, sqlVars, ctlVars>>

(* A job that has no file open.                                            *)
Task(cmd, at, target, value, todo) ==
    [ cmd |-> cmd, at |-> at, target |-> target, value |-> value, ino |-> None, todo |-> todo ]
Idle == Task("none", "idle", None, None, {})

Active == { j \in Job : job[j] # Idle }
OpenInodes == { job[j].ino : j \in Job } \ {None}

(* What a command works on.                                                *)
Concerns(cmd) ==
    CASE cmd \in {"store", "delete"} -> {"keys"}
      [] cmd \in {"create", "import"} -> {"identity"}
      [] cmd = "wipe" -> {"keys", "identity"}
      [] OTHER -> {}

Begin(j, record) ==
    /\ job[j] = Idle /\ commands + 2 <= MaxCommands
    /\ job' = [ job EXCEPT ![j] = record ]
    /\ commands' = commands + 2
    /\ clash' = clash \union
                  { c \in Concerns(record.cmd) : \E k \in Active : c \in Concerns(job[k].cmd) }

Goto(j, place) == job' = [ job EXCEPT ![j].at = place ]
End(j) == job' = [ job EXCEPT ![j] = Idle ]

-----------------------------------------------------------------------------
(* Beginnings: what a job reads before it writes.                          *)

(* What is in an encrypted map: a version, a salt and a ciphertext.        *)
Encrypted(m) == [ map |-> m ]
EncryptedMap == [ map : SUBSET Key ]

ASSUME MarksAreNoMaps == {Absent, Blank, Torn} \intersect EncryptedMap = {}

(* load_all: no file is an empty map, and a file that does not decrypt is  *)
(* an error, with which the call ends.                                     *)
KeysIn(d) ==
    LET blob == ContentIn(d, "keys") IN
    CASE blob = Absent -> {}
      [] blob \in EncryptedMap -> blob.map
      [] OTHER -> Torn
Loaded == KeysIn(dir)

(* flush writes beside the file, under one name for all callers.           *)
FlushInPlace(cmd, m) == Task(cmd, "open", "keys", Encrypted(m), {})
Flush(cmd, m) == Task(cmd, "open", "tmp", Encrypted(m), {})

(* FileKeyStore::store and delete.                                         *)
StartChange(j, cmd, key) ==
    /\ Loaded # Torn
    /\ Begin(j, Flush(cmd, IF cmd = "store" THEN Loaded \union {key} ELSE Loaded \ {key}))
    /\ UNCHANGED <<fileVars, sqlVars, made, mine>>

WriteIdentity(cmd, id) == Task(cmd, "open", "identity", id, {})

(* A slip: create does not look.                                           *)
StartCreateAnyway(j, id) ==
    /\ id \notin made
    /\ Begin(j, WriteIdentity("create", id))
    /\ made' = made \union {id}
    /\ UNCHANGED <<fileVars, sqlVars, mine>>

(* `aegis identity create` refuses if there is a file, whatever is in it.  *)
(* Then it asks for a passphrase.                                          *)
StartCreate(j, id) ==
    /\ Content("identity") = Absent
    /\ id \notin made
    /\ Begin(j, WriteIdentity("create", id))
    /\ made' = made \union {id}
    /\ UNCHANGED <<fileVars, sqlVars, mine>>

(* `aegis identity import` does not look.                                  *)
StartImport(j, id) ==
    /\ Begin(j, WriteIdentity("import", id))
    /\ UNCHANGED <<fileVars, sqlVars, made, mine>>

(* The regular files there are: is_file passes over the hub's socket and   *)
(* over directories, which stay.                                           *)
Listed == { f \in Name : dir[f] # Absent } \union (IF db = None THEN {} ELSE {"db"})

(* `aegis wipe` opens the directory.  Its value is what it could not       *)
(* remove.                                                                 *)
StartWipe(j) ==
    /\ Begin(j, Task("wipe", "remove", None, {}, Listed))
    /\ UNCHANGED <<fileVars, sqlVars, made, mine>>

-----------------------------------------------------------------------------
(* secure_write.                                                           *)

Open(j) ==
    LET f == job[j].target IN
    /\ job[j].at = "open"
    /\ dir[f] = Absent => Free(OpenInodes) # {}
    /\ \E i \in IF dir[f] # Absent THEN {dir[f]}
                ELSE { CHOOSE i \in Free(OpenInodes) : TRUE } :
          /\ OpenTruncated(f, i)
          /\ job' = [ job EXCEPT ![j].at = "write", ![j].ino = i ]
    /\ mine' = IF job[j].cmd = "import" THEN None ELSE mine
    /\ UNCHANGED <<sqlVars, commands, made, clash>>

Write(j) ==
    /\ job[j].at = "write"
    /\ WriteAll(job[j].ino, job[j].value)
    /\ Goto(j, "sync")
    /\ UNCHANGED <<sqlVars, commands, made, mine, clash>>

WriteFails(j) ==
    /\ job[j].at = "write"
    /\ WriteSome(job[j].ino)
    /\ End(j)
    /\ UNCHANGED <<sqlVars, commands, made, mine, clash>>

(* For an identity this is the end, and it is reported as written.         *)
Sync(j) ==
    /\ job[j].at = "sync"
    /\ SyncAll(job[j].ino)
    /\ IF job[j].target = "identity" THEN End(j) /\ mine' = job[j].value
                                     ELSE Goto(j, "rename") /\ UNCHANGED mine
    /\ UNCHANGED <<sqlVars, commands, made, clash>>

(* The rename of flush, an error if the temporary file is gone.            *)
Replace(j) ==
    /\ job[j].at = "rename"
    /\ IF dir["tmp"] = Absent THEN UNCHANGED fileVars ELSE Rename("tmp", "keys")
    /\ End(j)
    /\ UNCHANGED <<sqlVars, commands, made, mine, clash>>

-----------------------------------------------------------------------------
(* Wipe, crashes, and the SQLite store.                                    *)

(* read_dir goes on as files are removed: what has appeared meanwhile may  *)
(* be listed too.                                                          *)
WipeNotices(j, f) ==
    /\ job[j].at = "remove" /\ f \in Listed \ (job[j].todo \union job[j].value)
    /\ job' = [ job EXCEPT ![j].todo = @ \union {f} ]
    /\ UNCHANGED <<fileVars, sqlVars, commands, made, mine, clash>>

(* One file; an error is ignored.                                          *)
WipeOne(j, f, removed) ==
    /\ job[j].at = "remove" /\ f \in job[j].todo
    /\ job' = [ job EXCEPT ![j].todo = @ \ {f},
                           ![j].value = IF removed THEN @ ELSE @ \union {f} ]
    /\ IF removed /\ f # "db" THEN Remove(f) ELSE UNCHANGED fileVars
    /\ IF removed /\ f = "db" THEN UnlinkStore ELSE UNCHANGED sqlVars
    /\ mine' = IF removed /\ f = "identity" THEN None ELSE mine
    /\ UNCHANGED <<commands, made, clash>>

(* "All data wiped."                                                       *)
WipeEnds(j) ==
    /\ job[j].at = "remove" /\ job[j].todo = {}
    /\ End(j)
    /\ UNCHANGED <<fileVars, sqlVars, commands, made, mine, clash>>

(* A job is killed, or fails at something else.                            *)
Kill(j) ==
    /\ job[j] # Idle
    /\ End(j)
    /\ UNCHANGED <<fileVars, sqlVars, commands, made, mine, clash>>

PowerLoss ==
    /\ LosePower
    /\ LoseCommits
    /\ job' = [ j \in Job |-> Idle ]
    /\ mine' = IF dir'["identity"] = dir["identity"] THEN mine ELSE None
    /\ UNCHANGED <<commands, made, clash>>

Settle ==
    /\ WriteBack /\ SettleCommits
    /\ UNCHANGED ctlVars

SqlCall ==
    \/ OpenStore \/ Wipe \/ VacuumFails \/ KvDelete
    \/ \E e \in EnvelopeId : StoreEnvelope(e) \/ MarkDelivered(e)
    \/ \E t \in Upserted : Upsert(t)
    \/ \E tables \in Deleted : WipeFails(tables)

UseStore ==
    /\ commands < MaxCommands
    /\ SqlCall
    /\ commands' = commands + 1
    /\ UNCHANGED <<fileVars, job, made, mine, clash>>

LeaveStore == CloseStore /\ UNCHANGED <<fileVars, ctlVars>>

-----------------------------------------------------------------------------

Init ==
    /\ InitFiles /\ InitStore
    /\ job = [ j \in Job |-> Idle ]
    /\ commands = 0 /\ made = {} /\ mine = None /\ clash = {}

Start(j) ==
    \/ \E key \in Key, cmd \in {"store", "delete"} : StartChange(j, cmd, key)
    \/ \E id \in Identity : StartCreate(j, id) \/ StartImport(j, id)
    \/ StartWipe(j)

Step(j) ==
    \/ Open(j) \/ Write(j) \/ WriteFails(j) \/ Sync(j) \/ Replace(j)
    \/ \E f \in Name \union {"db"} : WipeNotices(j, f)
    \/ \E f \in Name \union {"db"}, removed \in BOOLEAN : WipeOne(j, f, removed)
    \/ WipeEnds(j) \/ Kill(j)

Next ==
    \/ \E j \in Job : Start(j) \/ Step(j)
    \/ PowerLoss \/ Settle \/ UseStore \/ LeaveStore

Spec == Init /\ [][Next]_vars

-----------------------------------------------------------------------------

(* No inode has two names in any directory there may be.                   *)
TypeOK ==
    /\ dir \in versions /\ versions \subseteq [Name -> Inode \union {Absent}]
    /\ \A d \in versions : \A f, g \in Name : d[f] = d[g] /\ d[f] # Absent => f = g
    /\ data \in [Inode -> {Blank, Torn} \union Identity \union EncryptedMap]
    /\ unsynced \subseteq Inode
    /\ db \in dbPast /\ dbPast \subseteq Row \union {None}
    /\ conn # None =>
          /\ conn.file \in Row /\ conn.tx \in Row \union {None} /\ told \subseteq Row
          /\ conn.linked => db = conn.file
    /\ \A j \in Job : job[j].at \in {"write", "sync"} => job[j].ino \in Inode
    /\ clash \subseteq {"keys", "identity"} /\ made \subseteq Identity

(* The key store's file is missing or whole, now and after a loss of power *)
(* at any moment, through kills and full disks: as long as no two callers  *)
(* changed it at once; see WholeForAllCallers.                             *)
KeyStoreWhole ==
    "keys" \notin clash =>
        /\ Content("keys") \notin {Blank, Torn}
        /\ \A d \in versions : d["keys"] # Absent =>
              data[d["keys"]] \in EncryptedMap /\ d["keys"] \notin unsynced

(* keystore.rs:9, :61: callers may share the store, and each writes it     *)
(* atomically.                                                             *)
WholeForAllCallers == Content("keys") \notin {Blank, Torn}

(* keystore.rs:1, :16: an older store is not taken for the present one.    *)
NoRollback == [][ PowerLoss => Loaded' \in {Loaded, Torn} ]_vars

Abstract == INSTANCE KeyMap WITH
    map <- KeysIn(dir),
    past <- { KeysIn(d) : d \in versions },
    shared <- "keys" \in clash

(* As long as no two changes overlap, the key store is a map on which each *)
(* change happens all at once, at the rename, survives a kill, and is      *)
(* undone by nothing but a loss of power.                                  *)
ImplementsKeyMap == Abstract!Spec

(* An identity that was reported as written is whole under its name: not   *)
(* another create, a kill, a full disk or a loss of power takes it away,   *)
(* only import, wipe, and a loss of power that takes the directory's entry *)
(* back.  Unless two commands were at it together: both may find no file   *)
(* (identity.rs:50).                                                       *)
AcknowledgedIdentity ==
    mine # None /\ "identity" \notin clash => Content("identity") = mine

(* wipe.rs:35: "All data wiped."  Nothing is left, then, that it found     *)
(* and failed to remove.                                                   *)
AllDataWiped == [][ \A j \in Job : WipeEnds(j) => job[j].value \intersect Listed = {} ]_vars

(* What the calls of a connection returned agrees with its file, and so    *)
(* with what the next one finds: a wipe that returned Err has been done or *)
(* not, never in part.  This is as long as no failing wipe has left its    *)
(* transaction open (sqlite.rs:202); see OkMeansStored.                    *)
StoreKeepsItsWord == conn # None /\ conn.tx = None => conn.file \in told

(* sqlite.rs:199: wipe is a transaction; the calls after it are as before. *)
OkMeansStored == conn # None => conn.file \in told

(* An envelope delivered does not wait again, however often it is stored,  *)
(* whatever wipe fails and whenever the connection ends: its row would     *)
(* have to be wiped first.  Only a loss of power undoes it.                *)
DeliveredStaysDelivered ==
    [][ \A e \in EnvelopeId :
            db # None /\ db' # None /\ db.envelopes[e] = "delivered"
            /\ db'.envelopes[e] = "waiting" => PowerLoss ]_vars

=============================================================================

---------------------------- MODULE DataDirProofs ----------------------------
(***************************************************************************)
(* DataDir.tla for every set of jobs, keys, identities, inodes and         *)
(* envelopes: with its changes one at a time the key store is whole and is *)
(* a map, a reported identity stays, and what the SQLite store holds is    *)
(* what its calls reported.                                                *)
(***************************************************************************)
EXTENDS DataDir, TLAPS

-----------------------------------------------------------------------------
(* The shape of things: what jobs there are, and what the store holds.     *)

ChangeJob ==
    [ cmd : {"store", "delete"}, at : {"open", "write", "sync", "rename"}, target : {"tmp"},
      value : EncryptedMap, ino : Inode \union {None}, todo : {{}} ]
IdentityJob ==
    [ cmd : {"create", "import"}, at : {"open", "write", "sync"}, target : {"identity"},
      value : Identity, ino : Inode \union {None}, todo : {{}} ]
WipeJob ==
    [ cmd : {"wipe"}, at : {"remove"}, target : {None},
      value : SUBSET (Name \union {"db"}), ino : {None}, todo : SUBSET (Name \union {"db"}) ]
Started == ChangeJob \union IdentityJob \union WipeJob

(* A job has a file open from its open to its end.                         *)
Holding == { j \in Job : job[j].at \in {"write", "sync", "rename"} }

JobsTyped ==
    /\ job \in [ Job -> Started \union {Idle} ]
    /\ \A j \in Job : job[j].ino \in Inode <=> j \in Holding

Typed == TypeOK /\ JobsTyped /\ mine \in Identity \union {None}

(* What is not in clash did not happen: two jobs at one thing.             *)
Alone ==
    \A x \in {"keys", "identity"} \ clash : \A j, k \in Job :
        x \in Concerns(job[j].cmd) /\ x \in Concerns(job[k].cmd) => j = k

(* An inode of the identity file is none of the key store or its temporary *)
(* file, in no directory there may be and through no open file.            *)
Apart ==
    /\ \A d, e \in versions : d["identity"] # Absent => d["identity"] \notin {e["keys"], e["tmp"]}
    /\ \A j \in Holding, d \in versions :
          IF job[j].target = "identity" THEN job[j].ino \notin {d["keys"], d["tmp"]}
                                        ELSE job[j].ino # d["identity"]
    /\ \A j, k \in Holding : job[j].ino = job[k].ino => job[j].target = job[k].target

(* What a job has done to the file it holds.                               *)
Stage(j) ==
    CASE job[j].at = "write" -> data[job[j].ino] = Blank
      [] job[j].at = "sync" -> data[job[j].ino] = job[j].value
      [] job[j].at = "rename" -> data[job[j].ino] = job[j].value /\ job[j].ino \notin unsynced
      [] OTHER -> TRUE

(* The key store is whole in every directory there may be, and none of     *)
(* them has the temporary file's inode for it.                             *)
KeysWhole ==
    \A d \in versions : d["keys"] # Absent =>
        data[d["keys"]] \in EncryptedMap /\ d["keys"] \notin unsynced

TmpApart == dir["tmp"] # Absent => \A d \in versions : d["keys"] # dir["tmp"]

(* The temporary file is the caller's, whose change is one key away from   *)
(* what the store is.                                                      *)
Caller(j) ==
    /\ j \in Holding => dir["tmp"] = job[j].ino /\ Stage(j)
    /\ \E key \in Key : job[j].value.map \in {Loaded \union {key}, Loaded \ {key}}

Changing == { j \in Job : job[j].cmd \in {"store", "delete"} }

KeysInv ==
    "keys" \notin clash => KeysWhole /\ TmpApart /\ \A j \in Changing : Caller(j)

(* A reported identity is under its name and on disk.                      *)
Acknowledged ==
    mine # None => /\ dir["identity"] # Absent
                   /\ data[dir["identity"]] = mine /\ dir["identity"] \notin unsynced

(* Who writes an identity has found none, or has made the one there is the *)
(* user's to lose; the file is the writer's.                               *)
Writer(j) ==
    /\ mine = None \/ (job[j].cmd = "import" /\ job[j].at = "open")
    /\ j \in Holding => dir["identity"] = job[j].ino /\ Stage(j)

Writing == { j \in Job : job[j].cmd \in {"create", "import"} }

IdentityInv ==
    "identity" \notin clash => Acknowledged /\ \A j \in Writing : Writer(j)

-----------------------------------------------------------------------------
(* What the steps do, said once.                                           *)

(* What a job may be at, by what it was started for.                       *)
LEMMA Kinds ==
    ASSUME JobsTyped, NEW j \in Job
    PROVE  /\ job[j].cmd \in {"none", "store", "delete", "create", "import", "wipe"}
           /\ job[j].cmd = "none" <=> job[j] = Idle
           /\ job[j].cmd \in {"none", "wipe"} => j \notin Holding /\ job[j].at # "open"
           /\ job[j].cmd = "wipe" <=> job[j].at = "remove"
           /\ job[j].cmd \in {"store", "delete"} =>
                 job[j].target = "tmp" /\ job[j].value \in EncryptedMap
           /\ job[j].cmd \in {"create", "import"} =>
                 /\ job[j].target = "identity" /\ job[j].value \in Identity
                 /\ job[j].at # "rename"
           /\ j \in Holding => job[j].ino \in Inode
           /\ job[j].ino \in Inode \union {None}
           /\ job[j].todo \subseteq Name \union {"db"}
<1>1. job[j] \in Started \/ job[j] = Idle
  BY DEF JobsTyped
<1>2. j \in Holding => job[j].ino \in Inode
  BY DEF JobsTyped
<1>3. CASE job[j] = Idle
  BY <1>2, <1>3 DEF Idle, Task, Holding
<1>4. CASE job[j] \in ChangeJob
  BY <1>2, <1>4 DEF ChangeJob, Idle, Task, Holding
<1>5. CASE job[j] \in IdentityJob
  BY <1>2, <1>5 DEF IdentityJob, Idle, Task, Holding
<1>6. CASE job[j] \in WipeJob
  BY <1>2, <1>6 DEF WipeJob, Idle, Task, Holding
<1> QED
  BY <1>1, <1>3, <1>4, <1>5, <1>6 DEF Started

(* How any job begins: with no file open, and what it has read.            *)
Begins(j, r) ==
    /\ r \in Started /\ r.ino = None /\ r.at \in {"open", "remove"}
    /\ Begin(j, r)
    /\ UNCHANGED <<fileVars, sqlVars, mine>>
    /\ made' \subseteq made \union Identity
    /\ r.cmd = "create" => Content("identity") = Absent
    /\ r.cmd \in {"store", "delete"} =>
          \E key \in Key : r.value.map \in {Loaded \union {key}, Loaded \ {key}}

(* A job ends by itself or is killed.                                      *)
Ends(j) ==
    /\ End(j)
    /\ UNCHANGED <<fileVars, sqlVars, commands, made, mine, clash>>

(* A change starts from the keys it finds.                                 *)
LEMMA ChangeBegins ==
    ASSUME NEW j \in Job, NEW cmd \in {"store", "delete"}, NEW key \in Key, StartChange(j, cmd, key)
    PROVE  \E r \in Started : Begins(j, r)
<1> DEFINE m == IF cmd = "store" THEN Loaded \union {key} ELSE Loaded \ {key}
           r == Flush(cmd, m)
<1>1. Loaded \subseteq Key
  BY DEF StartChange, Loaded, KeysIn, EncryptedMap
<1>2. m \subseteq Key /\ m \in {Loaded \union {key}, Loaded \ {key}}
  BY <1>1
<1>3. /\ Begin(j, r) /\ UNCHANGED <<fileVars, sqlVars, made, mine>>
  BY DEF StartChange
<1> HIDE DEF m
<1>4. r = [ cmd |-> cmd, at |-> "open", target |-> "tmp", value |-> [ map |-> m ],
            ino |-> None, todo |-> {} ]
  BY DEF Flush, Task, Encrypted
<1>5. r \in ChangeJob
  BY <1>2, <1>4 DEF ChangeJob, EncryptedMap
<1>6. /\ r.ino = None /\ r.at = "open" /\ r.cmd # "create" /\ r.cmd # "wipe"
      /\ r.value.map = m
  BY <1>4
<1> HIDE DEF r
<1> QED
  BY <1>2, <1>3, <1>5, <1>6 DEF Begins, Started

(* create and import start from the identity they are to write.            *)
LEMMA IdentityBegins ==
    ASSUME NEW j \in Job, NEW id \in Identity, StartCreate(j, id) \/ StartImport(j, id)
    PROVE  \E r \in Started : Begins(j, r)
<1>1. ASSUME NEW cmd \in {"create", "import"}, Begin(j, WriteIdentity(cmd, id)),
             UNCHANGED <<fileVars, sqlVars, mine>>, made' \subseteq made \union Identity,
             cmd = "create" => Content("identity") = Absent
      PROVE  \E r \in Started : Begins(j, r)
  <2> DEFINE r == WriteIdentity(cmd, id)
  <2>1. r = [ cmd |-> cmd, at |-> "open", target |-> "identity", value |-> id,
              ino |-> None, todo |-> {} ]
    BY DEF WriteIdentity, Task
  <2>2. r \in IdentityJob
    BY <2>1 DEF IdentityJob
  <2>3. r.ino = None /\ r.at = "open" /\ r.cmd = cmd
    BY <2>1
  <2>4. Begin(j, r)
    BY <1>1
  <2> HIDE DEF r
  <2> QED
    BY <1>1, <2>2, <2>3, <2>4 DEF Begins, Started
<1>2. CASE StartCreate(j, id)
  BY <1>1, <1>2 DEF StartCreate
<1>3. CASE StartImport(j, id)
  BY <1>1, <1>3 DEF StartImport
<1> QED
  BY <1>2, <1>3

(* wipe starts from the listing.                                           *)
LEMMA WipeBegins ==
    ASSUME NEW j \in Job, StartWipe(j)
    PROVE  \E r \in Started : Begins(j, r)
<1> DEFINE r == Task("wipe", "remove", None, {}, Listed)
<1>1. Listed \subseteq Name \union {"db"}
  BY DEF Listed
<1>2. Begin(j, r) /\ UNCHANGED <<fileVars, sqlVars, made, mine>>
  BY DEF StartWipe
<1>3. r = [ cmd |-> "wipe", at |-> "remove", target |-> None, value |-> {},
            ino |-> None, todo |-> Listed ]
  BY DEF Task
<1>4. r \in WipeJob /\ r.ino = None /\ r.at = "remove" /\ r.cmd = "wipe"
  BY <1>1, <1>3 DEF WipeJob
<1> HIDE DEF r
<1> QED
  BY <1>2, <1>4 DEF Begins, Started

(* A wipe removes a file, fails to, or lists one more.                     *)
Wipes(j, f) == WipeOne(j, f, TRUE) \/ WipeOne(j, f, FALSE) \/ WipeNotices(j, f)

(* Every step is one of these.                                             *)
LEMMA StepCases ==
    ASSUME [Next]_vars, NEW P,
           \A j \in Job, r \in Started : Begins(j, r) => P,
           \A j \in Job : Open(j) => P,
           \A j \in Job : Write(j) \/ WriteFails(j) => P,
           \A j \in Job : Sync(j) => P,
           \A j \in Job : Replace(j) => P,
           \A j \in Job, f \in Name \union {"db"} : Wipes(j, f) => P,
           \A j \in Job : Ends(j) => P,
           PowerLoss => P, Settle => P, UseStore => P, LeaveStore => P,
           UNCHANGED vars => P
    PROVE  P
<1>1. ASSUME NEW j \in Job, Start(j) PROVE P
  BY <1>1, ChangeBegins, IdentityBegins, WipeBegins DEF Start
<1>2. ASSUME NEW j \in Job, WipeEnds(j) \/ Kill(j) PROVE P
  BY <1>2 DEF WipeEnds, Kill, Ends
<1>3. ASSUME NEW j \in Job, NEW f \in Name \union {"db"}, NEW removed \in BOOLEAN,
             WipeOne(j, f, removed)
      PROVE  P
  <2>1. removed = TRUE \/ removed = FALSE
    OBVIOUS
  <2> QED
    BY <1>3, <2>1 DEF Wipes
<1>4. ASSUME NEW j \in Job, NEW f \in Name \union {"db"}, WipeNotices(j, f) PROVE P
  BY <1>4 DEF Wipes
<1> QED
  BY <1>1, <1>2, <1>3, <1>4 DEF Next, Step

(* A job that begins takes its record, if it is not beside another at one  *)
(* thing; every other job is as it was.                                    *)
LEMMA BeginsTo ==
    ASSUME JobsTyped, NEW j \in Job, NEW r \in Started, Begins(j, r)
    PROVE  /\ job' = [ k \in Job |-> IF k = j THEN r ELSE job[k] ]
           /\ job[j] = Idle
           /\ \A k \in Job : k \in Holding' <=> k \in Holding
           /\ clash \subseteq clash'
           /\ \A x \in Concerns(r.cmd), k \in Job :
                 job[k] # Idle /\ x \in Concerns(job[k].cmd) => x \in clash'
<1>1. job' = [ k \in Job |-> IF k = j THEN r ELSE job[k] ] /\ job[j] = Idle
  BY DEF Begins, Begin, JobsTyped
<1>2. r.at \in {"open", "remove"} /\ job[j].at = "idle"
  BY <1>1 DEF Begins, Idle, Task
<1>3. \A k \in Job : k \in Holding' <=> k \in Holding
  BY <1>1, <1>2 DEF Holding
<1>4. clash' = clash \union
                  { c \in Concerns(r.cmd) : \E k \in Active : c \in Concerns(job[k].cmd) }
  BY DEF Begins, Begin
<1>5. \A k \in Job : job[k] # Idle <=> k \in Active
  BY DEF Active
<1> QED
  BY <1>1, <1>3, <1>4, <1>5

(* A job goes on, or ends: every other job is as it was.                   *)
LEMMA GoesTo ==
    ASSUME JobsTyped, NEW j \in Job, NEW place, Goto(j, place)
    PROVE  /\ job' = [ k \in Job |-> IF k = j THEN job'[j] ELSE job[k] ]
           /\ job'[j] = [ cmd |-> job[j].cmd, at |-> place, target |-> job[j].target,
                          value |-> job[j].value, ino |-> job[j].ino, todo |-> job[j].todo ]
           /\ job'[j].cmd = job[j].cmd /\ job'[j].at = place /\ job'[j].target = job[j].target
           /\ job'[j].value = job[j].value /\ job'[j].ino = job[j].ino
           /\ \A k \in Job \ {j} : job'[k] = job[k]
<1>1. job' = [ k \in Job |-> IF k = j THEN [ job[j] EXCEPT !.at = place ] ELSE job[k] ]
  BY DEF Goto, JobsTyped
<1>2. job[j] \in Started \/ job[j] = Idle
  BY DEF JobsTyped
<1>3. [ job[j] EXCEPT !.at = place ] =
        [ cmd |-> job[j].cmd, at |-> place, target |-> job[j].target,
          value |-> job[j].value, ino |-> job[j].ino, todo |-> job[j].todo ]
  BY <1>2 DEF Started, ChangeJob, IdentityJob, WipeJob, Idle, Task
<1> DEFINE new == [ job[j] EXCEPT !.at = place ]
<1>4. /\ new.cmd = job[j].cmd /\ new.at = place /\ new.target = job[j].target
      /\ new.value = job[j].value /\ new.ino = job[j].ino
  BY <1>3
<1>5. job' = [ k \in Job |-> IF k = j THEN new ELSE job[k] ]
  BY <1>1
<1> HIDE DEF new
<1> QED
  BY <1>3, <1>4, <1>5 DEF new

(* A job that ends is idle and holds no file; every other job is as it     *)
(* was.                                                                    *)
LEMMA EndsTo ==
    ASSUME JobsTyped, NEW j \in Job, End(j)
    PROVE  /\ job' = [ k \in Job |-> IF k = j THEN Idle ELSE job[k] ]
           /\ \A k \in Job : k \in Holding' <=> k \in Holding /\ k # j
<1>1. job' = [ k \in Job |-> IF k = j THEN Idle ELSE job[k] ]
  BY DEF End, JobsTyped
<1>2. Idle.at = "idle"
  BY DEF Idle, Task
<1> QED
  BY <1>1, <1>2 DEF Holding

(* A file is opened at the inode its name has, or at one that is in no     *)
(* directory there may be and in no job's hands.                           *)
LEMMA OpensAt ==
    ASSUME Typed, NEW j \in Job, Open(j)
    PROVE  LET f == job[j].target IN
           /\ job[j].at = "open" /\ f \in {"tmp", "identity"} /\ f \in Name
           /\ job[j].cmd \in {"store", "delete", "create", "import"}
           /\ \E i \in Inode :
                /\ \/ dir[f] = i
                   \/ /\ dir[f] = Absent
                      /\ \A d \in versions, g \in Name : d[g] # i
                      /\ \A k \in Job : job[k].ino # i
                /\ dir' = [ g \in Name |-> IF g = f THEN i ELSE dir[g] ]
                /\ versions' = versions \union {dir'}
                /\ data' = [ n \in Inode |-> IF n = i THEN Blank ELSE data[n] ]
                /\ unsynced' = unsynced \union {i}
                /\ job' = [ k \in Job |-> IF k = j THEN job'[j] ELSE job[k] ]
                /\ job'[j] = [ cmd |-> job[j].cmd, at |-> "write", target |-> f,
                               value |-> job[j].value, ino |-> i, todo |-> job[j].todo ]
                /\ job'[j].cmd = job[j].cmd
                /\ \A k \in Job \ {j} : job'[k] = job[k]
<1> DEFINE f == job[j].target
<1>1. job[j].at = "open"
  BY DEF Open
<1>2. /\ job[j].cmd \in {"store", "delete", "create", "import"}
      /\ f \in {"tmp", "identity"}
  BY <1>1, Kinds DEF Typed
<1>3. f \in Name
  BY <1>2, DataDirConstants
<1>4. PICK i \in IF dir[f] # Absent THEN {dir[f]}
                 ELSE { CHOOSE n \in Free(OpenInodes) : TRUE } :
         /\ OpenTruncated(f, i)
         /\ job' = [ job EXCEPT ![j].at = "write", ![j].ino = i ]
  BY DEF Open
<1>5. i \in Inode /\ (\/ dir[f] = i
                      \/ dir[f] = Absent /\ i \in Free(OpenInodes))
  <2>1. CASE dir[f] # Absent
    BY <1>3, <1>4, <2>1 DEF Typed, TypeOK
  <2>2. CASE dir[f] = Absent
    <3>1. Free(OpenInodes) # {}
      BY <2>2 DEF Open
    <3>2. i \in Free(OpenInodes)
      BY <1>4, <2>2, <3>1
    <3> QED
      BY <2>2, <3>2 DEF Free
  <2> QED
    BY <2>1, <2>2
<1>6. i \in Free(OpenInodes) =>
        /\ \A d \in versions, g \in Name : d[g] # i
        /\ \A k \in Job : job[k].ino # i
  <2>1. i # None
    BY <1>5, DataDirConstants
  <2> QED
    BY <2>1 DEF Free, OpenInodes
<1>7. /\ dir' = [ g \in Name |-> IF g = f THEN i ELSE dir[g] ]
      /\ versions' = versions \union {dir'}
      /\ data' = [ n \in Inode |-> IF n = i THEN Blank ELSE data[n] ]
      /\ unsynced' = unsynced \union {i}
  <2>1. dir \in [Name -> Inode \union {Absent}]
    BY DEF Typed, TypeOK
  <2> QED
    BY <1>3, <1>4, <2>1 DEF OpenTruncated, SetDir, Typed, TypeOK
<1> DEFINE half == [ job[j] EXCEPT !.at = "write" ]
           full == [ half EXCEPT !.ino = i ]
<1>8. job' = [ k \in Job |-> IF k = j THEN full ELSE job[k] ]
  <2>1. job = [ k \in Job |-> job[k] ]
    BY DEF Typed, JobsTyped
  <2> QED
    BY <1>4, <2>1
<1>9. job[j] \in ChangeJob \union IdentityJob
  BY <1>2 DEF Typed, JobsTyped, Started, ChangeJob, IdentityJob, WipeJob, Idle, Task
<1>10. half = [ cmd |-> job[j].cmd, at |-> "write", target |-> f,
                value |-> job[j].value, ino |-> job[j].ino, todo |-> job[j].todo ]
  BY <1>9 DEF ChangeJob, IdentityJob
<1> HIDE DEF half
<1>11. full = [ cmd |-> job[j].cmd, at |-> "write", target |-> f,
                value |-> job[j].value, ino |-> i, todo |-> job[j].todo ]
  BY <1>10
<1>12. full.cmd = job[j].cmd
  BY <1>11
<1> HIDE DEF full
<1>13. job'[j] = full /\ \A k \in Job \ {j} : job'[k] = job[k]
  BY <1>8
<1> QED
  BY <1>1, <1>2, <1>3, <1>5, <1>6, <1>7, <1>8, <1>11, <1>12, <1>13

(* Something is written through an open file: all of the value, if the     *)
(* file was empty, or anything between.                                    *)
LEMMA WritesAt ==
    ASSUME Typed, NEW j \in Job, Write(j) \/ WriteFails(j)
    PROVE  /\ j \in Holding /\ job[j].at = "write" /\ job[j].ino \in Inode
           /\ UNCHANGED <<dir, versions>>
           /\ unsynced' = unsynced \union {job[j].ino}
           /\ \E new \in {job[j].value, Torn} :
                /\ data' = [ n \in Inode |-> IF n = job[j].ino THEN new ELSE data[n] ]
                /\ Write(j) /\ data[job[j].ino] = Blank => new = job[j].value
           /\ Write(j) => Goto(j, "sync")
           /\ WriteFails(j) => End(j)
<1> USE Kinds DEF Typed, TypeOK
<1>1. job[j].at = "write" /\ j \in Holding /\ job[j].ino \in Inode
  BY DEF Write, WriteFails, Holding
<1>2. CASE Write(j)
  <2>1. PICK new \in IF data[job[j].ino] = Blank THEN {job[j].value} ELSE {job[j].value, Torn} :
            data' = [ data EXCEPT ![job[j].ino] = new ]
    BY <1>2 DEF Write, WriteAll
  <2>2. data' = [ n \in Inode |-> IF n = job[j].ino THEN new ELSE data[n] ]
    BY <2>1
  <2>3. /\ UNCHANGED <<dir, versions>> /\ unsynced' = unsynced \union {job[j].ino}
        /\ Goto(j, "sync")
    BY <1>2 DEF Write, WriteAll
  <2>4. ~WriteFails(j) \/ End(j)
    BY DEF WriteFails
  <2> QED
    BY <1>1, <2>1, <2>2, <2>3, <2>4
<1>3. CASE WriteFails(j) /\ ~Write(j)
  <2>1. data' = [ n \in Inode |-> IF n = job[j].ino THEN Torn ELSE data[n] ]
    BY <1>3 DEF WriteFails, WriteSome
  <2>2. /\ UNCHANGED <<dir, versions>> /\ unsynced' = unsynced \union {job[j].ino}
        /\ End(j)
    BY <1>3 DEF WriteFails, WriteSome
  <2> QED
    BY <1>1, <1>3, <2>1, <2>2
<1> QED
  BY <1>2, <1>3

(* After sync_all the file's content is on disk: an identity is reported,  *)
(* a key file is next to be renamed.                                       *)
LEMMA SyncsAt ==
    ASSUME Typed, NEW j \in Job, Sync(j)
    PROVE  /\ j \in Holding /\ job[j].at = "sync" /\ job[j].ino \in Inode
           /\ UNCHANGED <<dir, versions, data>>
           /\ unsynced' = unsynced \ {job[j].ino}
           /\ job[j].target = "identity" => End(j) /\ mine' = job[j].value
           /\ job[j].target # "identity" => Goto(j, "rename") /\ UNCHANGED mine
<1>1. job[j].at = "sync" /\ j \in Holding
  BY DEF Sync, Holding
<1> QED
  BY <1>1, Kinds DEF Sync, SyncAll, Typed

(* The rename puts the temporary file in the key store's place, in a       *)
(* directory that may or may not survive a power loss.                     *)
LEMMA ReplacesAt ==
    ASSUME Typed, NEW j \in Job, Replace(j)
    PROVE  /\ j \in Holding /\ job[j].at = "rename" /\ job[j].cmd \in {"store", "delete"}
           /\ End(j) /\ UNCHANGED <<data, unsynced, sqlVars, commands, made, mine, clash>>
           /\ IF dir["tmp"] = Absent THEN UNCHANGED <<dir, versions>>
              ELSE /\ dir' = [ g \in Name |-> IF g = "keys" THEN dir["tmp"]
                                              ELSE IF g = "tmp" THEN Absent ELSE dir[g] ]
                   /\ versions' = versions \union {dir'}
<1>1. job[j].at = "rename" /\ j \in Holding
  BY DEF Replace, Holding
<1>2. job[j].cmd \in {"store", "delete"}
  BY <1>1, Kinds DEF Typed
<1>3. dir = [ g \in Name |-> dir[g] ]
  BY DEF Typed, TypeOK
<1>4. CASE dir["tmp"] = Absent
  BY <1>1, <1>2, <1>4 DEF Replace, fileVars
<1>5. CASE dir["tmp"] # Absent
  <2>1. Rename("tmp", "keys")
    BY <1>5 DEF Replace
  <2>2. dir' = [ g \in Name |-> IF g = "keys" THEN dir["tmp"]
                                ELSE IF g = "tmp" THEN Absent ELSE dir[g] ]
    BY <1>3, <2>1, DataDirConstants DEF Rename, SetDir
  <2>3. versions' = versions \union {dir'} /\ UNCHANGED <<data, unsynced>>
    BY <2>1 DEF Rename, SetDir
  <2> QED
    BY <1>1, <1>2, <1>5, <2>2, <2>3 DEF Replace
<1> QED
  BY <1>4, <1>5

(* The directory without a name.                                           *)
DirLess(f) == [ g \in Name |-> IF g = f THEN Absent ELSE dir[g] ]

(* A wipe goes on with its list, in which a file was, is or comes to be:   *)
(* at most the file is gone, or the store's has lost its name.             *)
LEMMA WipesOne ==
    ASSUME Typed, NEW j \in Job, NEW f \in Name \union {"db"}, Wipes(j, f)
    PROVE  /\ job[j].cmd = "wipe" /\ j \notin Holding
           /\ job' = [ k \in Job |-> IF k = j THEN job'[j] ELSE job[k] ]
           /\ job'[j] \in WipeJob
           /\ job'[j].cmd = "wipe"
           /\ \A k \in Job \ {j} : job'[k] = job[k]
           /\ \A k \in Job : k \in Holding' <=> k \in Holding
           /\ UNCHANGED <<data, unsynced, commands, made, clash>>
           /\ \/ dir' = dir /\ versions' = versions /\ mine' = mine /\ UNCHANGED sqlVars
              \/ /\ f = "db" /\ UnlinkStore
                 /\ dir' = dir /\ versions' = versions /\ mine' = mine
              \/ /\ f \in Name
                 /\ dir' = DirLess(f)
                 /\ versions' = versions \union {dir'}
                 /\ mine' = IF f = "identity" THEN None ELSE mine
                 /\ UNCHANGED sqlVars
<1>1. job[j].at = "remove" /\ job[j].cmd = "wipe" /\ j \notin Holding
  BY Kinds DEF Wipes, WipeOne, WipeNotices, Typed
<1>2. job[j] \in WipeJob
  BY <1>1 DEF Typed, JobsTyped, Started, ChangeJob, IdentityJob, WipeJob, Idle, Task
<1>3. PICK todo, kept \in SUBSET (Name \union {"db"}) :
         job' = [ job EXCEPT ![j].todo = todo, ![j].value = kept ]
  <2> DEFINE full == SUBSET (Name \union {"db"})
  <2>1. job[j].todo \in full /\ job[j].value \in full
    BY <1>2 DEF WipeJob
  <2>2. /\ job[j].todo \ {f} \in full /\ job[j].todo \union {f} \in full
        /\ job[j].value \union {f} \in full
    BY <2>1
  <2>3. CASE WipeOne(j, f, TRUE)
    <3>1. job' = [ job EXCEPT ![j].todo = job[j].todo \ {f}, ![j].value = job[j].value ]
      BY <2>3 DEF WipeOne
    <3> QED
      BY <2>1, <2>2, <3>1
  <2>4. CASE WipeOne(j, f, FALSE)
    <3>1. job' = [ job EXCEPT ![j].todo = job[j].todo \ {f},
                              ![j].value = job[j].value \union {f} ]
      BY <2>4 DEF WipeOne
    <3> QED
      BY <2>2, <3>1
  <2>5. CASE WipeNotices(j, f)
    <3>1. job' = [ job EXCEPT ![j].todo = job[j].todo \union {f}, ![j].value = job[j].value ]
      BY <1>2, <2>5 DEF WipeNotices, WipeJob, Typed, JobsTyped
    <3> QED
      BY <2>1, <2>2, <3>1
  <2> QED
    BY <2>3, <2>4, <2>5 DEF Wipes
<1> DEFINE half == [ job[j] EXCEPT !.todo = todo ]
           done == [ half EXCEPT !.value = kept ]
<1>4. job' = [ k \in Job |-> IF k = j THEN done ELSE job[k] ]
  <2>1. job = [ k \in Job |-> job[k] ]
    BY DEF Typed, JobsTyped
  <2> QED
    BY <1>3, <2>1
<1>5. half \in WipeJob /\ half.cmd = "wipe"
  BY <1>2 DEF WipeJob
<1> HIDE DEF half
<1>6. done \in WipeJob /\ done.cmd = "wipe" /\ done.at = "remove"
  BY <1>5 DEF WipeJob
<1> HIDE DEF done
<1>7. job'[j] = done /\ \A k \in Job \ {j} : job'[k] = job[k]
  BY <1>4
<1>8. \A k \in Job : k \in Holding' <=> k \in Holding
  BY <1>1, <1>6, <1>7 DEF Holding
<1>9. UNCHANGED <<commands, made, clash>>
  BY DEF Wipes, WipeOne, WipeNotices
<1> DEFINE Spared == dir' = dir /\ versions' = versions /\ mine' = mine /\ UNCHANGED sqlVars
           Unlinked == /\ f = "db" /\ UnlinkStore
                       /\ dir' = dir /\ versions' = versions /\ mine' = mine
           Removed == /\ f \in Name
                      /\ dir' = DirLess(f)
                      /\ versions' = versions \union {dir'}
                      /\ mine' = IF f = "identity" THEN None ELSE mine
                      /\ UNCHANGED sqlVars
<1>10. UNCHANGED <<data, unsynced>> /\ (Spared \/ Unlinked \/ Removed)
  <2>1. CASE WipeOne(j, f, FALSE) \/ WipeNotices(j, f)
    BY <2>1 DEF WipeOne, WipeNotices, fileVars, sqlVars
  <2>2. CASE WipeOne(j, f, TRUE) /\ f = "db"
    <3>1. UnlinkStore /\ UNCHANGED <<dir, versions, data, unsynced, mine>>
      BY <2>2 DEF WipeOne, fileVars
    <3> QED
      BY <2>2, <3>1
  <2>3. CASE WipeOne(j, f, TRUE) /\ f # "db"
    <3>1. /\ Remove(f) /\ f \in Name /\ UNCHANGED sqlVars
          /\ mine' = IF f = "identity" THEN None ELSE mine
      BY <2>3 DEF WipeOne
    <3>2. dir = [ g \in Name |-> dir[g] ]
      BY DEF Typed, TypeOK
    <3> QED
      BY <3>1, <3>2 DEF Remove, SetDir, DirLess
  <2> QED
    BY <2>1, <2>2, <2>3 DEF Wipes
<1> HIDE DEF Spared, Unlinked, Removed
<1> QED
  BY <1>1, <1>4, <1>6, <1>7, <1>8, <1>9, <1>10 DEF Spared, Unlinked, Removed

-----------------------------------------------------------------------------
(* The SQLite store.                                                       *)

(* The connection's file is what the calls reported, one way or the other, *)
(* unless a transaction is open.                                           *)
StoreInv ==
    /\ db \in dbPast /\ dbPast \subseteq Row \union {None}
    /\ conn # None =>
          /\ conn \in [ file : Row, tx : Row \union {None}, linked : BOOLEAN ]
          /\ told \subseteq Row
          /\ conn.linked => db = conn.file
          /\ conn.tx = None => conn.file \in told

(* A statement does not make an envelope wait that is delivered.           *)
Keeps(before, after) ==
    \A e \in EnvelopeId : before.envelopes[e] = "delivered" => after.envelopes[e] # "waiting"

(* A call that has returned, and with Err only a wipe that was done: what  *)
(* it made of the rows it saw, and of those the earlier calls reported.    *)
Returned ==
    /\ conn # None
    /\ \E after \in Row :
          /\ Execute(after) /\ told' \subseteq Row
          /\ View \in told => after \in told'
          /\ Keeps(View, after)

(* A new database is one, with no envelope in it.                          *)
LEMMA EmptyIsARow == Empty \in Row /\ \A e \in EnvelopeId : Empty.envelopes[e] = "absent"
BY DEF Empty, Row

(* A database without the rows of some tables is one.                      *)
LEMMA WithoutIsARow ==
    ASSUME NEW c \in Row, NEW tables \in Deleted
    PROVE  Without(c, tables) \in Row
<1>1. tables \subseteq Table
  BY DEF Deleted, Table, Upserted
<1> QED
  BY <1>1 DEF Without, Row, Empty

(* What the connection's statements see is a row.                          *)
LEMMA ViewIsARow ==
    ASSUME StoreInv, conn # None
    PROVE  View \in Row /\ told \subseteq Row
BY DEF StoreInv, View

(* store_envelope and mark_delivered return, and what they report is what  *)
(* is in the file.                                                         *)
LEMMA EnvelopeCalls ==
    ASSUME StoreInv, NEW e \in EnvelopeId, StoreEnvelope(e) \/ MarkDelivered(e)
    PROVE  Returned
<1> DEFINE Stored(c) == [ c EXCEPT !.envelopes[e] = IF @ = "absent" THEN "waiting" ELSE @ ]
           Marked(c) == [ c EXCEPT !.envelopes[e] = IF @ = "waiting" THEN "delivered" ELSE @ ]
<1>1. \A c \in Row : /\ Stored(c) \in Row /\ Keeps(c, Stored(c))
                     /\ Marked(c) \in Row /\ Keeps(c, Marked(c))
  BY DEF Row, Keeps
<1>2. conn # None
  BY DEF StoreEnvelope, MarkDelivered, Call
<1>3. CASE StoreEnvelope(e)
  <2>1. Execute(Stored(View)) /\ told' = { Stored(c) : c \in told }
    BY <1>3 DEF StoreEnvelope, Call
  <2> HIDE DEF Stored
  <2> QED
    BY <1>1, <1>2, <2>1, ViewIsARow DEF Returned
<1>4. CASE MarkDelivered(e)
  <2>1. Execute(Marked(View)) /\ told' = { Marked(c) : c \in told }
    BY <1>4 DEF MarkDelivered, Call
  <2> HIDE DEF Marked
  <2> QED
    BY <1>1, <1>2, <2>1, ViewIsARow DEF Returned
<1> QED
  BY <1>3, <1>4

(* So do wipe, kv_delete and the calls that insert or replace a row; a     *)
(* wipe whose VACUUM fails reports that it may have been done.             *)
LEMMA OtherCalls ==
    ASSUME StoreInv, Wipe \/ VacuumFails \/ KvDelete \/ \E t \in Upserted : Upsert(t)
    PROVE  Returned
<1> DEFINE Filled(c, t) == [ c EXCEPT !.filled = @ \union {t} ]
           Deleting(c) == [ c EXCEPT !.filled = @ \ {"kv_store"} ]
<1>1. conn # None
  BY DEF Wipe, VacuumFails, KvDelete, Upsert, Call
<1>2. CASE Wipe
  <2>1. Execute(Empty) /\ told' = { Empty : c \in told }
    BY <1>2 DEF Wipe, Call
  <2> QED
    BY <1>1, <2>1, EmptyIsARow DEF Returned, Keeps
<1>5. CASE VacuumFails
  <2>1. Execute(Empty) /\ told' = told \union {Empty}
    BY <1>5 DEF VacuumFails, WipeReportsError
  <2> QED
    BY <1>1, <2>1, EmptyIsARow, ViewIsARow DEF Returned, Keeps
<1>3. CASE KvDelete
  <2>1. Execute(Deleting(View)) /\ told' = { Deleting(c) : c \in told }
    BY <1>3 DEF KvDelete, Call
  <2>2. \A c \in Row : Deleting(c) \in Row /\ Keeps(c, Deleting(c))
    BY DEF Row, Keeps
  <2> HIDE DEF Deleting
  <2> QED
    BY <1>1, <2>1, <2>2, ViewIsARow DEF Returned
<1>4. ASSUME NEW t \in Upserted, Upsert(t) PROVE Returned
  <2>1. Execute(Filled(View, t)) /\ told' = { Filled(c, t) : c \in told }
    BY <1>4 DEF Upsert, Call
  <2>2. \A c \in Row : Filled(c, t) \in Row /\ Keeps(c, Filled(c, t))
    BY DEF Row, Keeps
  <2> HIDE DEF Filled
  <2> QED
    BY <1>1, <2>1, <2>2, ViewIsARow DEF Returned
<1> QED
  BY <1>2, <1>3, <1>4, <1>5

(* Every call, and what else happens to a connection.                      *)
LEMMA SqlCases ==
    ASSUME StoreInv, SqlCall
    PROVE  OpenStore \/ Returned \/ \E tables \in Deleted : WipeFails(tables)
BY EnvelopeCalls, OtherCalls DEF SqlCall

(* A call that returned keeps the store's promise.                         *)
LEMMA ReturnedKeeps ==
    ASSUME StoreInv, Returned
    PROVE  StoreInv'
<1> PICK after \in Row :
        /\ Execute(after) /\ told' \subseteq Row
        /\ View \in told => after \in told'
  BY DEF Returned
<1>1. conn # None /\ conn \in [ file : Row, tx : Row \union {None}, linked : BOOLEAN ]
  BY DEF Returned, StoreInv
<1>2. CASE conn.tx # None
  <2>1. conn' = [ conn EXCEPT !.tx = after ] /\ UNCHANGED <<db, dbPast>>
    BY <1>2 DEF Execute
  <2>2. /\ conn' \in [ file : Row, tx : Row \union {None}, linked : BOOLEAN ]
        /\ conn'.tx = after /\ conn'.file = conn.file /\ conn'.linked = conn.linked
    BY <1>1, <2>1
  <2> QED
    BY <1>1, <2>1, <2>2, NoneIsNoRow DEF StoreInv
<1>3. CASE conn.tx = None
  <2>1. conn' = [ conn EXCEPT !.file = after ]
    BY <1>3 DEF Execute
  <2>2. IF conn.linked THEN SetDb(after) ELSE UNCHANGED <<db, dbPast>>
    BY <1>3 DEF Execute
  <2>3. /\ conn' \in [ file : Row, tx : Row \union {None}, linked : BOOLEAN ]
        /\ conn'.tx = None /\ conn'.file = after /\ conn'.linked = conn.linked
    BY <1>1, <1>3, <2>1
  <2>4. after \in told'
    BY <1>1, <1>3 DEF StoreInv, View
  <2> QED
    BY <1>1, <2>2, <2>3, <2>4 DEF StoreInv, SetDb
<1> QED
  BY <1>2, <1>3

(* A file that is opened, a transaction left open, a file removed under a  *)
(* connection, and a loss of power.                                        *)
LEMMA OpenStoreKeeps == ASSUME StoreInv, OpenStore PROVE StoreInv'
<1> DEFINE content == IF db = None THEN Empty ELSE db
<1>1. content \in Row
  BY EmptyIsARow DEF StoreInv
<1>2. /\ conn' = [ file |-> content, tx |-> None, linked |-> TRUE ]
      /\ db' = content /\ dbPast' = dbPast \union {content} /\ told' = {content}
  BY DEF OpenStore, SetDb
<1> HIDE DEF content
<1>3. /\ conn' \in [ file : Row, tx : Row \union {None}, linked : BOOLEAN ]
      /\ conn'.file = content
  BY <1>1, <1>2
<1> QED
  BY <1>1, <1>2, <1>3 DEF StoreInv

(* A wipe that fails after some of the tables leaves them in an open       *)
(* transaction.                                                            *)
LEMMA WipeFailsKeeps ==
    ASSUME StoreInv, NEW tables \in Deleted, WipeFails(tables) PROVE StoreInv'
<1> DEFINE rows == Without(conn.file, tables)
<1>1. /\ conn # None /\ conn \in [ file : Row, tx : Row \union {None}, linked : BOOLEAN ]
      /\ conn' = [ conn EXCEPT !.tx = rows ] /\ UNCHANGED <<db, dbPast>>
      /\ told' = told \union {Empty}
  BY DEF WipeFails, WipeReportsError, StoreInv
<1>2. rows \in Row /\ rows # None
  BY <1>1, WithoutIsARow, NoneIsNoRow
<1> HIDE DEF rows
<1>3. /\ conn' \in [ file : Row, tx : Row \union {None}, linked : BOOLEAN ]
      /\ conn'.tx = rows /\ conn'.file = conn.file /\ conn'.linked = conn.linked
  BY <1>1, <1>2
<1> QED
  BY <1>1, <1>2, <1>3, EmptyIsARow DEF StoreInv

(* Once the file is removed, nothing of it is promised.                    *)
LEMMA UnlinkKeeps == ASSUME StoreInv, UnlinkStore PROVE StoreInv'
<1>1. db' = None /\ dbPast' = dbPast \union {None} /\ told' = told
  BY DEF UnlinkStore, SetDb
<1>2. CASE conn = None
  BY <1>1, <1>2 DEF UnlinkStore, StoreInv
<1>3. CASE conn # None
  <2>1. conn' = [ conn EXCEPT !.linked = FALSE ]
    BY <1>3 DEF UnlinkStore
  <2>2. /\ conn' \in [ file : Row, tx : Row \union {None}, linked : BOOLEAN ]
        /\ conn'.tx = conn.tx /\ conn'.file = conn.file /\ ~conn'.linked
    BY <1>3, <2>1 DEF StoreInv
  <2> QED
    BY <1>1, <1>3, <2>2 DEF StoreInv
<1> QED
  BY <1>2, <1>3

(* Losing or settling commits, and closing, keep the store's promise: what *)
(* is promised is what survived.                                           *)
LEMMA ForgottenKeeps ==
    ASSUME StoreInv, LoseCommits \/ SettleCommits \/ CloseStore PROVE StoreInv'
BY DEF StoreInv, LoseCommits, SettleCommits, CloseStore

(* What every step is for the store.                                       *)
LEMMA StoreCases ==
    ASSUME [Next]_vars
    PROVE  \/ UNCHANGED sqlVars
           \/ UnlinkStore
           \/ SqlCall
           \/ (LoseCommits /\ PowerLoss)
           \/ SettleCommits
           \/ CloseStore
<1> DEFINE P == \/ UNCHANGED sqlVars
                \/ UnlinkStore
                \/ SqlCall
                \/ (LoseCommits /\ PowerLoss)
                \/ SettleCommits
                \/ CloseStore
<1>1. \A j \in Job, r \in Started : Begins(j, r) => P
  BY DEF Begins, sqlVars
<1>2. \A j \in Job : Open(j) \/ Write(j) \/ WriteFails(j) \/ Sync(j) \/ Replace(j) \/ Ends(j) => P
  BY DEF Open, Write, WriteFails, Sync, Replace, Ends, sqlVars
<1>3. \A j \in Job, f \in Name \union {"db"} : Wipes(j, f) => P
  BY DEF Wipes, WipeOne, WipeNotices, sqlVars
<1>4. /\ PowerLoss => P
      /\ Settle => P
      /\ UseStore => P
      /\ LeaveStore => P
      /\ UNCHANGED vars => P
  BY DEF PowerLoss, Settle, UseStore, LeaveStore, vars, sqlVars
<1> HIDE DEF P
<1>5. P
  BY <1>1, <1>2, <1>3, <1>4, StepCases
<1> QED
  BY <1>5 DEF P

(* What a connection's file holds is what its calls reported, unless a     *)
(* failing wipe has left its transaction open (sqlite.rs).                 *)
THEOREM StoreCorrect == Spec => []StoreInv
<1>1. Init => StoreInv
  BY DEF Init, InitStore, StoreInv
<1>2. StoreInv /\ [Next]_vars => StoreInv'
  <2> SUFFICES ASSUME StoreInv, [Next]_vars PROVE StoreInv'
    OBVIOUS
  <2>1. CASE UNCHANGED sqlVars
    BY <2>1 DEF sqlVars, StoreInv
  <2>2. CASE SqlCall
    BY <2>2, SqlCases, OpenStoreKeeps, ReturnedKeeps, WipeFailsKeeps
  <2> QED
    BY <2>1, <2>2, StoreCases, UnlinkKeeps, ForgottenKeeps
<1> QED
  BY <1>1, <1>2, PTL DEF Spec

(* What StoreKeepsItsWord says of sqlite.rs, for all envelopes.            *)
THEOREM StoreKeepsItsWordHolds == Spec => []StoreKeepsItsWord
<1>1. StoreInv => StoreKeepsItsWord
  BY DEF StoreInv, StoreKeepsItsWord
<1> QED
  BY <1>1, StoreCorrect, PTL

(* An envelope delivered does not wait again, but for a loss of power.     *)
THEOREM DeliveredStays == Spec => DeliveredStaysDelivered
<1> DEFINE Waits(e) == /\ db # None /\ db' # None /\ db.envelopes[e] = "delivered"
                       /\ db'.envelopes[e] = "waiting"
<1>1. ASSUME StoreInv, [Next]_vars, NEW e \in EnvelopeId, Waits(e)
      PROVE  PowerLoss
  <2>1. CASE UNCHANGED sqlVars \/ UnlinkStore \/ SettleCommits \/ CloseStore
    BY <1>1, <2>1 DEF sqlVars, UnlinkStore, SetDb, SettleCommits, CloseStore
  <2>2. CASE OpenStore
    BY <1>1, <2>2 DEF OpenStore, SetDb
  <2>3. ASSUME NEW tables \in Deleted, WipeFails(tables) PROVE FALSE
    BY <1>1, <2>3 DEF WipeFails
  <2>4. CASE Returned
    <3> PICK after \in Row : Execute(after) /\ Keeps(View, after)
      BY <2>4 DEF Returned
    <3>1. conn.tx = None /\ conn.linked /\ db' = after
      BY <1>1 DEF Execute, SetDb
    <3>2. View = db
      BY <1>1, <2>4, <3>1 DEF View, StoreInv, Returned
    <3> QED
      BY <1>1, <3>1, <3>2 DEF Keeps
  <2> QED
    BY <1>1, <2>1, <2>2, <2>3, <2>4, StoreCases, SqlCases
<1>2. StoreInv /\ [Next]_vars =>
        [ \A e \in EnvelopeId :
            db # None /\ db' # None /\ db.envelopes[e] = "delivered"
            /\ db'.envelopes[e] = "waiting" => PowerLoss ]_vars
  BY <1>1
<1> QED
  BY <1>2, StoreCorrect, PTL DEF Spec, DeliveredStaysDelivered

-----------------------------------------------------------------------------
(* Types, and who is alone at what.                                        *)

FilesTyped ==
    /\ dir \in versions /\ versions \subseteq [Name -> Inode \union {Absent}]
    /\ \A d \in versions : \A f, g \in Name : d[f] = d[g] /\ d[f] # Absent => f = g
    /\ data \in [Inode -> {Blank, Torn} \union Identity \union EncryptedMap]
    /\ unsynced \subseteq Inode

CtlTyped ==
    /\ JobsTyped
    /\ clash \subseteq {"keys", "identity"} /\ made \subseteq Identity
    /\ mine \in Identity \union {None}

(* The shape of the state is that of the files and that of the jobs.       *)
LEMMA TypedIs == Typed /\ StoreInv <=> FilesTyped /\ CtlTyped /\ StoreInv
<1>1. JobsTyped => \A j \in Job : job[j].at \in {"write", "sync"} => job[j].ino \in Inode
  BY DEF JobsTyped, Holding
<1>2. StoreInv => /\ db \in dbPast /\ dbPast \subseteq Row \union {None}
                  /\ conn # None =>
                        /\ conn.file \in Row /\ conn.tx \in Row \union {None}
                        /\ told \subseteq Row
                        /\ conn.linked => db = conn.file
  BY DEF StoreInv
<1> QED
  BY <1>1, <1>2 DEF Typed, TypeOK, FilesTyped, CtlTyped

(* A job that takes a record of a job's shape, with a file open where it   *)
(* should be, leaves the jobs well-shaped.                                 *)
LEMMA JobOfAType ==
    ASSUME JobsTyped, NEW j \in Job, NEW r \in Started \union {Idle},
           job' = [ k \in Job |-> IF k = j THEN r ELSE job[k] ],
           r.ino \in Inode <=> r.at \in {"write", "sync", "rename"}
    PROVE  JobsTyped'
<1>1. job' \in [ Job -> Started \union {Idle} ]
  BY DEF JobsTyped
<1>2. \A k \in Job : job'[k].ino \in Inode <=> job'[k].at \in {"write", "sync", "rename"}
  BY DEF JobsTyped, Holding
<1> QED
  BY <1>1, <1>2 DEF JobsTyped, Holding

(* A job that goes on from its write or its sync keeps its shape and the   *)
(* file it holds.                                                          *)
LEMMA GoesOn ==
    ASSUME JobsTyped, NEW j \in Job, NEW place, Goto(j, place),
           \/ job[j].at = "write" /\ place = "sync"
           \/ job[j].at = "sync" /\ place = "rename" /\ job[j].target # "identity"
    PROVE  JobsTyped' /\ \A k \in Job : k \in Holding' <=> k \in Holding
<1>1. /\ job' = [ k \in Job |-> IF k = j THEN job'[j] ELSE job[k] ]
      /\ job'[j] = [ cmd |-> job[j].cmd, at |-> place, target |-> job[j].target,
                     value |-> job[j].value, ino |-> job[j].ino, todo |-> job[j].todo ]
  BY GoesTo
<1>2. job[j].ino \in Inode /\ job[j] \in ChangeJob \union IdentityJob
  BY DEF JobsTyped, Holding, Started, ChangeJob, IdentityJob, WipeJob, Idle, Task
<1>3. job'[j] \in ChangeJob \union IdentityJob
  BY <1>1, <1>2 DEF ChangeJob, IdentityJob
<1>4. job'[j].ino \in Inode /\ job'[j].at \in {"sync", "rename"}
  BY <1>1, <1>2
<1>5. JobsTyped'
  BY <1>1, <1>3, <1>4, JobOfAType DEF Started
<1>6. \A k \in Job : k \in Holding' <=> k \in Holding
  BY <1>1, <1>4 DEF Holding
<1> QED
  BY <1>5, <1>6

(* A job that ends leaves the jobs well-shaped.                            *)
LEMMA EndsOfAType ==
    ASSUME JobsTyped, NEW j \in Job, End(j)
    PROVE  JobsTyped'
<1>1. job' = [ k \in Job |-> IF k = j THEN Idle ELSE job[k] ]
  BY EndsTo
<1>2. Idle.ino = None /\ Idle.at = "idle"
  BY DEF Idle, Task
<1> HIDE DEF Idle
<1> QED
  BY <1>1, <1>2, JobOfAType, DataDirConstants

(* Each step leaves the control variables of their types.                  *)
LEMMA CtlStep == ASSUME Typed, [Next]_vars PROVE CtlTyped'
<1> USE DEF CtlTyped
<1>0. CtlTyped
  BY DEF Typed, TypeOK
<1>1. ASSUME NEW j \in Job, NEW r \in Started, Begins(j, r) PROVE CtlTyped'
  <2>1. job' = [ k \in Job |-> IF k = j THEN r ELSE job[k] ]
    BY <1>0, <1>1, BeginsTo
  <2>2. JobsTyped'
    BY <1>0, <1>1, <2>1, JobOfAType, DataDirConstants DEF Begins
  <2>3. clash' \subseteq {"keys", "identity"}
    <3>1. Concerns(r.cmd) \subseteq {"keys", "identity"}
      BY DEF Concerns
    <3> QED
      BY <1>0, <1>1, <3>1 DEF Begins, Begin
  <2> QED
    BY <1>0, <1>1, <2>2, <2>3 DEF Begins
<1>2. ASSUME NEW j \in Job, Open(j) PROVE CtlTyped'
  <2>1. PICK i \in Inode :
          /\ job' = [ k \in Job |-> IF k = j THEN job'[j] ELSE job[k] ]
          /\ job'[j] = [ cmd |-> job[j].cmd, at |-> "write", target |-> job[j].target,
                         value |-> job[j].value, ino |-> i, todo |-> job[j].todo ]
    BY <1>2, OpensAt
  <2>2. job[j] \in ChangeJob \union IdentityJob
    BY <1>0, <1>2 DEF Open, JobsTyped, Started, ChangeJob, IdentityJob, WipeJob, Idle, Task
  <2>3. job'[j] \in ChangeJob \union IdentityJob
    BY <2>1, <2>2 DEF ChangeJob, IdentityJob
  <2>4. job'[j].ino \in Inode /\ job'[j].at = "write"
    BY <2>1
  <2>5. JobsTyped'
    BY <1>0, <2>1, <2>3, <2>4, JobOfAType DEF Started
  <2> QED
    BY <1>0, <1>2, <2>5 DEF Open
<1>3. ASSUME NEW j \in Job, Write(j) \/ WriteFails(j) PROVE CtlTyped'
  BY <1>0, <1>3, WritesAt, GoesOn, EndsOfAType DEF Write, WriteFails
<1>4. ASSUME NEW j \in Job, Sync(j) PROVE CtlTyped'
  <2>1. JobsTyped'
    BY <1>0, <1>4, SyncsAt, GoesOn, EndsOfAType
  <2>2. mine' \in Identity \union {None}
    <3>1. job[j].target = "identity" => job[j].value \in Identity
      <4>1. job[j].cmd \in {"store", "delete", "create", "import"} /\ "tmp" # "identity"
        BY <1>0, <1>4, SyncsAt, Kinds
      <4> QED
        BY <1>0, <4>1, Kinds
    <3> QED
      BY <1>0, <1>4, <3>1, SyncsAt
  <2> QED
    BY <1>0, <1>4, <2>1, <2>2 DEF Sync
<1>5. ASSUME NEW j \in Job, Replace(j) PROVE CtlTyped'
  BY <1>0, <1>5, EndsOfAType DEF Replace
<1>6. ASSUME NEW j \in Job, NEW f \in Name \union {"db"}, Wipes(j, f)
      PROVE  CtlTyped'
  <2>1. /\ job[j].cmd = "wipe"
        /\ job' = [ k \in Job |-> IF k = j THEN job'[j] ELSE job[k] ]
        /\ job'[j] \in WipeJob
    BY <1>6, WipesOne
  <2>4. job'[j].ino = None /\ job'[j].at = "remove"
    BY <2>1 DEF WipeJob
  <2>5. job'[j] \in Started \union {Idle}
    BY <2>1 DEF Started
  <2>6. job'[j].ino \in Inode <=> job'[j].at \in {"write", "sync", "rename"}
    BY <2>4, DataDirConstants
  <2>7. JobsTyped'
    BY <1>0, <2>1, <2>5, <2>6, JobOfAType
  <2> QED
    BY <1>0, <1>6, <2>7, WipesOne
<1>7. ASSUME NEW j \in Job, Ends(j) PROVE CtlTyped'
  BY <1>0, <1>7, EndsOfAType DEF Ends
<1>8. ASSUME PowerLoss PROVE CtlTyped'
  <2>1. Idle.ino = None /\ Idle.at = "idle"
    BY DEF Idle, Task
  <2>2. job' = [ j \in Job |-> Idle ]
    BY <1>8 DEF PowerLoss
  <2>3. JobsTyped'
    BY <2>1, <2>2, DataDirConstants DEF JobsTyped, Holding
  <2> QED
    BY <1>0, <1>8, <2>3 DEF PowerLoss
<1>9. ASSUME Settle \/ LeaveStore \/ UNCHANGED vars PROVE CtlTyped'
  BY <1>0, <1>9 DEF Settle, LeaveStore, vars, ctlVars, JobsTyped, Holding
<1>10. ASSUME UseStore PROVE CtlTyped'
  BY <1>0, <1>10 DEF UseStore, JobsTyped, Holding
<1> HIDE DEF CtlTyped
<1> QED
  BY <1>1, <1>2, <1>3, <1>4, <1>5, <1>6, <1>7, <1>8, <1>9, <1>10, StepCases

(* A directory with one name at another inode, or at none, has no inode    *)
(* under two names.                                                        *)
OneName(d) == \A f, g \in Name : d[f] = d[g] /\ d[f] # Absent => f = g

(* Every step keeps the shape of the files.                                *)
LEMMA FilesStep == ASSUME Typed, [Next]_vars PROVE FilesTyped'
<1> USE DEF FilesTyped
<1>0. FilesTyped
  BY DEF Typed, TypeOK
<1>a. \A d \in versions : OneName(d)
  BY <1>0 DEF OneName
<1>b. \A d : d \in [Name -> Inode \union {Absent}] /\ OneName(d) /\ d = dir'
             /\ versions' = versions \union {d}
             => /\ dir' \in versions' /\ versions' \subseteq [Name -> Inode \union {Absent}]
                /\ \A e \in versions' : \A f, g \in Name : e[f] = e[g] /\ e[f] # Absent => f = g
  BY <1>0 DEF OneName
<1>1. ASSUME NEW j \in Job, Open(j) PROVE FilesTyped'
  <2> DEFINE f == job[j].target
  <2>1. f \in Name
    BY <1>1, OpensAt
  <2>2. PICK i \in Inode :
          /\ \/ dir[f] = i
             \/ \A d \in versions, g \in Name : d[g] # i
          /\ dir' = [ g \in Name |-> IF g = f THEN i ELSE dir[g] ]
          /\ versions' = versions \union {dir'}
          /\ data' = [ n \in Inode |-> IF n = i THEN Blank ELSE data[n] ]
          /\ unsynced' = unsynced \union {i}
    BY <1>1, OpensAt
  <2> HIDE DEF f
  <2>3. dir' \in [Name -> Inode \union {Absent}]
    BY <1>0, <2>2
  <2>4. OneName(dir')
    <3> SUFFICES ASSUME NEW g \in Name, NEW h \in Name, dir'[g] = dir'[h], dir'[g] # Absent
                 PROVE  g = h
      BY DEF OneName
    <3>1. /\ dir'[g] = IF g = f THEN i ELSE dir[g]
          /\ dir'[h] = IF h = f THEN i ELSE dir[h]
      BY <2>2
    <3> QED
      BY <1>0, <2>1, <2>2, <3>1, FileConstants
  <2>5. /\ data' \in [Inode -> {Blank, Torn} \union Identity \union EncryptedMap]
        /\ unsynced' \subseteq Inode
    BY <1>0, <2>2
  <2> QED
    BY <1>b, <2>2, <2>3, <2>4, <2>5
<1>2. ASSUME NEW j \in Job, Write(j) \/ WriteFails(j) PROVE FilesTyped'
  <2>1. job[j].value \in Identity \union EncryptedMap
    BY <1>2, WritesAt, Kinds DEF Typed
  <2>2. PICK new \in {job[j].value, Torn} :
          data' = [ n \in Inode |-> IF n = job[j].ino THEN new ELSE data[n] ]
    BY <1>2, WritesAt
  <2>3. data' \in [Inode -> {Blank, Torn} \union Identity \union EncryptedMap]
    BY <1>0, <2>1, <2>2
  <2> QED
    BY <1>0, <1>2, <2>3, WritesAt
<1>3. ASSUME NEW j \in Job, Sync(j) PROVE FilesTyped'
  BY <1>0, <1>3, SyncsAt
<1>4. ASSUME NEW j \in Job, Replace(j) PROVE FilesTyped'
  <2>1. CASE dir["tmp"] = Absent
    BY <1>0, <1>4, <2>1, ReplacesAt
  <2>2. CASE dir["tmp"] # Absent
    <3>1. /\ dir' = [ g \in Name |-> IF g = "keys" THEN dir["tmp"]
                                     ELSE IF g = "tmp" THEN Absent ELSE dir[g] ]
          /\ versions' = versions \union {dir'}
      BY <1>4, <2>2, ReplacesAt
    <3>2. dir' \in [Name -> Inode \union {Absent}]
      BY <1>0, <3>1, DataDirConstants
    <3>3. OneName(dir')
      BY <1>0, <3>1, DataDirConstants DEF OneName
    <3>4. UNCHANGED <<data, unsynced>>
      BY <1>4, ReplacesAt
    <3> QED
      BY <1>0, <1>b, <3>1, <3>2, <3>3, <3>4
  <2> QED
    BY <2>1, <2>2
<1>5. ASSUME NEW j \in Job, NEW f \in Name \union {"db"}, Wipes(j, f)
      PROVE  FilesTyped'
  <2>1. UNCHANGED <<data, unsynced>>
    BY <1>5, WipesOne
  <2>2. CASE dir' = dir /\ versions' = versions
    BY <1>0, <2>1, <2>2
  <2>3. CASE /\ dir' = DirLess(f)
             /\ versions' = versions \union {dir'}
    <3>1. dir' \in [Name -> Inode \union {Absent}] /\ OneName(dir')
      BY <1>0, <2>3 DEF OneName, DirLess
    <3> QED
      BY <1>0, <1>b, <2>1, <2>3, <3>1
  <2> QED
    BY <1>5, <2>2, <2>3, WipesOne
<1>6. ASSUME PowerLoss PROVE FilesTyped'
  <2>1. PICK lost \in SUBSET unsynced, new \in {Blank, Torn} :
          data' = [ i \in Inode |-> IF i \in lost THEN new ELSE data[i] ]
    BY <1>6 DEF PowerLoss, LosePower
  <2>2. data' \in [Inode -> {Blank, Torn} \union Identity \union EncryptedMap]
    BY <1>0, <2>1
  <2> QED
    BY <1>0, <1>6, <2>2 DEF PowerLoss, LosePower
<1>7. ASSUME Settle PROVE FilesTyped'
  BY <1>0, <1>7 DEF Settle, WriteBack
<1>8. (\E j \in Job, r \in Started : Begins(j, r)) \/ (\E j \in Job : Ends(j))
      \/ UseStore \/ LeaveStore \/ UNCHANGED vars => FilesTyped'
  BY <1>0 DEF Begins, Ends, UseStore, LeaveStore, vars, fileVars
<1> HIDE DEF FilesTyped
<1> QED
  BY <1>1, <1>2, <1>3, <1>4, <1>5, <1>6, <1>7, <1>8, StepCases

(* Every reachable state has its type: the variables, the jobs and the     *)
(* inodes' names.                                                          *)
THEOREM TypedHolds == Spec => []Typed
<1>1. Init => Typed
  <2> SUFFICES ASSUME Init PROVE Typed
    OBVIOUS
  <2>1. Idle.ino = None /\ Idle.at = "idle"
    BY DEF Idle, Task
  <2>2. JobsTyped
    BY <2>1, DataDirConstants DEF Init, JobsTyped, Holding
  <2>3. FilesTyped
    BY DEF Init, InitFiles, FilesTyped
  <2>4. StoreInv
    BY DEF Init, InitStore, StoreInv
  <2> QED
    BY <2>2, <2>3, <2>4, TypedIs DEF Init, CtlTyped
<1>2. StoreInv' /\ Typed /\ [Next]_vars => Typed'
  <2> SUFFICES ASSUME StoreInv', Typed, [Next]_vars PROVE Typed'
    OBVIOUS
  <2>1. FilesTyped' /\ CtlTyped'
    BY FilesStep, CtlStep
  <2>2. (FilesTyped /\ CtlTyped /\ StoreInv)' => Typed'
    BY TypedIs, PTL
  <2> QED
    BY <2>1, <2>2
<1> QED
  BY <1>1, <1>2, StoreCorrect, PTL DEF Spec

(* The files, the commands' jobs and the store's connection have their     *)
(* shape in every reachable state (config.rs, keystore.rs, sqlite.rs).          *)
THEOREM TypeCorrect == Spec => []TypeOK
<1>1. Typed => TypeOK
  BY DEF Typed
<1> QED
  BY <1>1, TypedHolds, PTL

(* A step that begins no job leaves each at its command or ends it, and    *)
(* nothing takes anything from clash.                                      *)
LEMMA Commands ==
    ASSUME Typed, [Next]_vars
    PROVE  /\ clash \subseteq clash'
           /\ \/ \E j \in Job, r \in Started : Begins(j, r)
              \/ \A k \in Job : job'[k].cmd \in {job[k].cmd, "none"}
<1> DEFINE Stays == /\ clash \subseteq clash'
                    /\ \/ \E j \in Job, r \in Started : Begins(j, r)
                       \/ \A k \in Job : job'[k].cmd \in {job[k].cmd, "none"}
<1>a. JobsTyped /\ Idle.cmd = "none"
  BY DEF Typed, Idle, Task
<1>1. ASSUME NEW j \in Job, NEW r \in Started, Begins(j, r) PROVE Stays
  BY <1>a, <1>1, BeginsTo
<1>2. ASSUME NEW j \in Job, Open(j) PROVE Stays
  <2>1. PICK i \in Inode :
          /\ job' = [ k \in Job |-> IF k = j THEN job'[j] ELSE job[k] ]
          /\ job'[j] = [ cmd |-> job[j].cmd, at |-> "write", target |-> job[j].target,
                         value |-> job[j].value, ino |-> i, todo |-> job[j].todo ]
    BY <1>2, OpensAt
  <2>2. clash' = clash
    BY <1>2 DEF Open
  <2> QED
    BY <2>1, <2>2
<1>3. ASSUME NEW j \in Job, NEW place, Goto(j, place), clash' = clash PROVE Stays
  <2>1. job' = [ k \in Job |-> IF k = j THEN job'[j] ELSE job[k] ] /\ job'[j].cmd = job[j].cmd
    BY <1>a, <1>3, GoesTo
  <2> QED
    BY <1>3, <2>1
<1>4. ASSUME NEW j \in Job, End(j), clash' = clash PROVE Stays
  BY <1>a, <1>4, EndsTo
<1>5. ASSUME NEW j \in Job, NEW f \in Name \union {"db"}, Wipes(j, f)
      PROVE  Stays
  <2>1. /\ job[j].cmd = "wipe" /\ clash' = clash
        /\ job' = [ k \in Job |-> IF k = j THEN job'[j] ELSE job[k] ]
        /\ job'[j].cmd = "wipe"
    BY <1>5, WipesOne
  <2> QED
    BY <2>1
<1>6. PowerLoss => Stays
  BY <1>a DEF PowerLoss
<1>7. Settle \/ UseStore \/ LeaveStore \/ UNCHANGED vars => Stays
  BY DEF Settle, UseStore, LeaveStore, vars, ctlVars
<1> HIDE DEF Stays
<1>8. \A j \in Job : Write(j) \/ WriteFails(j) \/ Sync(j) \/ Replace(j) \/ Ends(j) => Stays
  BY <1>3, <1>4 DEF Write, WriteFails, Sync, Replace, Ends
<1>9. Stays
  BY <1>1, <1>2, <1>5, <1>6, <1>7, <1>8, StepCases
<1> QED
  BY <1>9 DEF Stays

(* A step of secure_write or flush is one job's, which is not wiping.      *)
Works(j) == Open(j) \/ Write(j) \/ WriteFails(j) \/ Sync(j) \/ Replace(j)

(* A step of a job's work leaves the other jobs alone, and its command     *)
(* until it ends.                                                          *)
LEMMA OneWorks ==
    ASSUME Typed, NEW j \in Job, Works(j)
    PROVE  /\ job[j].cmd \notin {"none", "wipe"} /\ job'[j].cmd \in {job[j].cmd, "none"}
           /\ \A k \in Job \ {j} : job'[k] = job[k]
<1>0. JobsTyped /\ Idle.cmd = "none"
  BY DEF Typed, Idle, Task
<1>1. job[j].cmd \notin {"none", "wipe"}
  BY <1>0, Kinds DEF Works, Open, Write, WriteFails, Sync, Replace, Holding
<1> DEFINE Goal == job'[j].cmd \in {job[j].cmd, "none"} /\ \A k \in Job \ {j} : job'[k] = job[k]
<1>2. ASSUME Open(j) PROVE Goal
  BY <1>2, OpensAt
<1>3. ASSUME NEW place, Goto(j, place) PROVE Goal
  BY <1>0, <1>3, GoesTo
<1>4. ASSUME End(j) PROVE Goal
  <2>1. job' = [ k \in Job |-> IF k = j THEN Idle ELSE job[k] ]
    BY <1>0, <1>4, EndsTo
  <2> QED
    BY <1>0, <2>1
<1> HIDE DEF Goal
<1>5. Goal
  BY <1>2, <1>3, <1>4 DEF Works, Write, WriteFails, Sync, Replace, Goal
<1> QED
  BY <1>1, <1>5 DEF Goal

(* What is not in clash has not happened.                                  *)
LEMMA AloneHolds == Spec => []Alone
<1>1. Init => Alone
  BY DEF Init, Alone, Idle, Task, Concerns
<1>2. Typed /\ Alone /\ [Next]_vars => Alone'
  <2> SUFFICES ASSUME Typed, Alone, [Next]_vars PROVE Alone'
    OBVIOUS
  <2>0. Concerns("none") = {} /\ clash \subseteq clash'
    BY Commands DEF Concerns
  <2>1. CASE \A k \in Job : job'[k].cmd \in {job[k].cmd, "none"}
    BY <2>0, <2>1 DEF Alone
  <2>2. ASSUME NEW j \in Job, NEW r \in Started, Begins(j, r) PROVE Alone'
    <3>1. /\ job' = [ k \in Job |-> IF k = j THEN r ELSE job[k] ]
          /\ \A x \in Concerns(r.cmd), k \in Job :
                job[k] # Idle /\ x \in Concerns(job[k].cmd) => x \in clash'
      BY <2>2, BeginsTo DEF Typed
    <3>2. \A k \in Job : job[k].cmd = "none" <=> job[k] = Idle
      BY Kinds DEF Typed
    <3>3. \A x \in {"keys", "identity"} \ clash' : \A k, l \in Job :
             x \in Concerns(job'[k].cmd) /\ x \in Concerns(job'[l].cmd) => k = l
      BY <2>0, <3>1, <3>2 DEF Alone
    <3> QED
      BY <3>3 DEF Alone
  <2> QED
    BY <2>1, <2>2, Commands
<1> QED
  BY <1>1, <1>2, TypedHolds, PTL DEF Spec

-----------------------------------------------------------------------------
(* The inodes of the identity file and those of the key store.             *)

(* A step that changes no directory and opens no file.                     *)
LEMMA ApartStays ==
    ASSUME Apart, \A d \in versions' : d \in versions,
           \A k \in Job : k \in Holding' =>
              k \in Holding /\ job'[k].ino = job[k].ino /\ job'[k].target = job[k].target
    PROVE  Apart'
BY DEF Apart, Holding

(* A step whose new directory has for each name what an older one has, or  *)
(* nothing, or for the key store what the temporary file is.               *)
LEMMA ApartMoves ==
    ASSUME Apart, dir \in versions, versions' = versions \union {dir'},
           dir'["identity"] \in {dir["identity"], Absent},
           dir'["keys"] \in {dir["keys"], dir["tmp"], Absent}, dir'["tmp"] \in {dir["tmp"], Absent},
           \A k \in Job : k \in Holding' =>
              k \in Holding /\ job'[k].ino = job[k].ino /\ job'[k].target = job[k].target,
           \A k \in Holding : job[k].ino # Absent
    PROVE  Apart'
<1>1. \A d, e \in versions' :
        d["identity"] # Absent => d["identity"] \notin {e["keys"], e["tmp"]}
  BY DEF Apart
<1>2. \A k \in Holding', d \in versions' :
        IF job'[k].target = "identity" THEN job'[k].ino \notin {d["keys"], d["tmp"]}
                                       ELSE job'[k].ino # d["identity"]
  BY DEF Apart, Holding
<1> QED
  BY <1>1, <1>2 DEF Apart, Holding

(* A file is opened at the inode its name has already, or at one that      *)
(* nothing else knows.                                                     *)
LEMMA ApartOpens ==
    ASSUME Typed, Apart, NEW j \in Job, Open(j)
    PROVE  Apart'
<1> DEFINE f == job[j].target
<1>1. PICK i \in Inode :
        /\ \/ dir[f] = i
           \/ /\ dir[f] = Absent
              /\ \A d \in versions, g \in Name : d[g] # i
              /\ \A k \in Job : job[k].ino # i
        /\ dir' = [ g \in Name |-> IF g = f THEN i ELSE dir[g] ]
        /\ versions' = versions \union {dir'}
        /\ job' = [ k \in Job |-> IF k = j THEN job'[j] ELSE job[k] ]
        /\ job'[j] = [ cmd |-> job[j].cmd, at |-> "write", target |-> f,
                       value |-> job[j].value, ino |-> i, todo |-> job[j].todo ]
  BY OpensAt
<1>2. f \in {"tmp", "identity"} /\ job[j].at = "open" /\ j \notin Holding
  BY OpensAt DEF Holding
<1>3. /\ job'[j].ino = i /\ job'[j].target = f
      /\ \A k \in Job : k \in Holding' <=> k \in Holding \/ k = j
      /\ \A k \in Job \ {j} : job'[k] = job[k]
  BY <1>1 DEF Holding
<1>4. /\ dir'["identity"] = IF f = "identity" THEN i ELSE dir["identity"]
      /\ dir'["tmp"] = IF f = "tmp" THEN i ELSE dir["tmp"]
      /\ dir'["keys"] = dir["keys"]
  BY <1>1, <1>2, DataDirConstants
<1>5. dir \in versions /\ i # Absent
  BY FileConstants DEF Typed, TypeOK
<1>6. \A k \in Holding : job[k].target \in {"tmp", "identity"} /\ job[k].ino \in Inode
  BY Kinds DEF Typed, Holding
<1> HIDE DEF f
<1>n. "identity" \in Name /\ "keys" \in Name /\ "tmp" \in Name
  BY DataDirConstants
<1>7. \A d, e \in versions' :
        d["identity"] # Absent => d["identity"] \notin {e["keys"], e["tmp"]}
  <2>1. CASE f = "identity"
    <3>1. \A d \in versions : i # d["keys"] /\ i # d["tmp"]
      BY <1>1, <1>5, <1>n, <2>1 DEF Apart
    <3> QED
      BY <1>1, <1>4, <1>5, <2>1, <3>1 DEF Apart
  <2>2. CASE f = "tmp"
    <3>1. \A d \in versions : d["identity"] # i
      BY <1>1, <1>5, <1>n, <2>2 DEF Apart
    <3> QED
      BY <1>1, <1>4, <1>5, <2>2, <3>1 DEF Apart
  <2> QED
    BY <1>2, <2>1, <2>2
<1>8. \A k \in Holding, d \in versions' :
        IF job[k].target = "identity" THEN job[k].ino \notin {d["keys"], d["tmp"]}
                                      ELSE job[k].ino # d["identity"]
  <2>1. CASE dir[f] = i
    BY <1>1, <1>2, <1>4, <1>5, <2>1 DEF Apart
  <2>2. CASE \A k \in Job : job[k].ino # i
    BY <1>1, <1>2, <1>4, <1>5, <2>2 DEF Apart, Holding
  <2> QED
    BY <1>1, <2>1, <2>2
<1>9. \A d \in versions' : IF f = "identity" THEN i \notin {d["keys"], d["tmp"]}
                                             ELSE i # d["identity"]
  BY <1>1, <1>2, <1>4, <1>5, <1>n DEF Apart
<1>10. \A k \in Holding : job[k].ino = i => job[k].target = f
  BY <1>1, <1>2, <1>5, <1>6, <1>n DEF Apart, Holding
<1> QED
  BY <1>3, <1>7, <1>8, <1>9, <1>10 DEF Apart, Holding

(* The identity file and the key file never share an inode.                *)
LEMMA ApartHolds == Spec => []Apart
<1>1. Init => Apart
  <2> SUFFICES ASSUME Init PROVE Apart
    OBVIOUS
  <2>1. Holding = {}
    BY DEF Init, Holding, Idle, Task
  <2> QED
    BY <2>1, DataDirConstants DEF Init, InitFiles, Apart
<1>2. Typed /\ Apart /\ [Next]_vars => Apart'
  <2> SUFFICES ASSUME Typed, Apart, [Next]_vars PROVE Apart'
    OBVIOUS
  <2>0. /\ dir \in versions /\ JobsTyped
        /\ "identity" \in Name /\ "keys" \in Name /\ "tmp" \in Name
        /\ \A k \in Holding : job[k].ino # Absent
    BY Kinds, DataDirConstants, FileConstants DEF Typed, TypeOK, Holding
  <2>1. ASSUME NEW j \in Job, NEW r \in Started, Begins(j, r) PROVE Apart'
    <3>1. /\ job' = [ k \in Job |-> IF k = j THEN r ELSE job[k] ]
          /\ \A k \in Job : k \in Holding' <=> k \in Holding
          /\ j \notin Holding
      BY <2>0, <2>1, BeginsTo DEF Holding, Idle, Task
    <3>2. versions' = versions
      BY <2>1 DEF Begins, fileVars
    <3> QED
      BY <3>1, <3>2, ApartStays
  <2>2. ASSUME NEW j \in Job, Open(j) PROVE Apart'
    BY <2>2, ApartOpens
  <2>3. ASSUME NEW j \in Job, NEW place, Goto(j, place), j \in Holding, versions' = versions
        PROVE  Apart'
    <3>1. /\ job' = [ k \in Job |-> IF k = j THEN job'[j] ELSE job[k] ]
          /\ job'[j] = [ cmd |-> job[j].cmd, at |-> place, target |-> job[j].target,
                         value |-> job[j].value, ino |-> job[j].ino, todo |-> job[j].todo ]
      BY <2>0, <2>3, GoesTo
    <3>2. \A k \in Job : k \in Holding' =>
             k \in Holding /\ job'[k].ino = job[k].ino /\ job'[k].target = job[k].target
      BY <2>3, <3>1 DEF Holding
    <3> QED
      BY <2>3, <3>2, ApartStays
  <2>4. ASSUME NEW j \in Job, End(j), versions' = versions PROVE Apart'
    BY <2>0, <2>4, EndsTo, ApartStays
  <2>5. ASSUME NEW j \in Job, Replace(j) PROVE Apart'
    <3>1. CASE versions' = versions
      BY <2>4, <2>5, <3>1, ReplacesAt
    <3>2. CASE /\ dir' = [ g \in Name |-> IF g = "keys" THEN dir["tmp"]
                                          ELSE IF g = "tmp" THEN Absent ELSE dir[g] ]
               /\ versions' = versions \union {dir'}
      <4>1. \A k \in Job : k \in Holding' =>
               k \in Holding /\ job'[k].ino = job[k].ino /\ job'[k].target = job[k].target
        BY <2>0, <2>5, EndsTo DEF Replace
      <4> QED
        BY <2>0, <3>2, <4>1, ApartMoves
    <3> QED
      BY <2>5, <3>1, <3>2, ReplacesAt
  <2>6. ASSUME NEW j \in Job, NEW f \in Name \union {"db"}, Wipes(j, f)
        PROVE  Apart'
    <3>1. \A k \in Job : k \in Holding' =>
             k \in Holding /\ job'[k].ino = job[k].ino /\ job'[k].target = job[k].target
      BY <2>6, WipesOne
    <3>2. CASE dir' = dir /\ versions' = versions
      BY <3>1, <3>2, ApartStays
    <3>3. CASE /\ dir' = DirLess(f)
               /\ versions' = versions \union {dir'}
      BY <2>0, <3>1, <3>3, ApartMoves DEF DirLess
    <3>4. \/ UNCHANGED <<dir, versions>>
          \/ /\ dir' = DirLess(f)
             /\ versions' = versions \union {dir'}
      BY <2>6, WipesOne
    <3> QED
      BY <3>2, <3>3, <3>4
  <2>7. ASSUME PowerLoss PROVE Apart'
    <3>1. Holding' = {}
      BY <2>7 DEF PowerLoss, Holding, Idle, Task
    <3> QED
      BY <2>7, <3>1, ApartStays DEF PowerLoss, LosePower
  <2>8. Settle \/ UseStore \/ LeaveStore \/ UNCHANGED vars => Apart'
    BY <2>0, ApartStays
       DEF Settle, WriteBack, UseStore, LeaveStore, vars, ctlVars, fileVars, Holding
  <2>9. \A j \in Job : Write(j) \/ WriteFails(j) \/ Sync(j) \/ Ends(j) => Apart'
    BY <2>3, <2>4, WritesAt, SyncsAt DEF Ends, fileVars
  <2> QED
    BY <2>1, <2>2, <2>5, <2>6, <2>7, <2>8, <2>9, StepCases
<1> QED
  BY <1>1, <1>2, TypedHolds, PTL DEF Spec

-----------------------------------------------------------------------------
(* The key store.                                                          *)

(* What a directory's key file holds is its map; without the file,         *)
(* nothing.                                                                *)
LEMMA KeysInIs ==
    ASSUME NEW d, d["keys"] # Absent => data[d["keys"]] \in EncryptedMap
    PROVE  /\ d["keys"] = Absent => KeysIn(d) = {}
           /\ d["keys"] # Absent => KeysIn(d) = data[d["keys"]].map
<1>1. CASE d["keys"] = Absent
  BY <1>1, MarksAreNoMaps DEF KeysIn, ContentIn
<1>2. CASE d["keys"] # Absent
  <2>1. ContentIn(d, "keys") = data[d["keys"]] /\ ContentIn(d, "keys") # Absent
    BY <1>2, MarksAreNoMaps DEF ContentIn
  <2> QED
    BY <1>2, <2>1, MarksAreNoMaps DEF KeysIn
<1> QED
  BY <1>1, <1>2

(* The same after a step.                                                  *)
LEMMA KeysInIsNext ==
    ASSUME NEW d, d["keys"] # Absent => data'[d["keys"]] \in EncryptedMap
    PROVE  /\ d["keys"] = Absent => KeysIn(d)' = {}
           /\ d["keys"] # Absent => KeysIn(d)' = data'[d["keys"]].map
<1>1. CASE d["keys"] = Absent
  BY <1>1, MarksAreNoMaps DEF KeysIn, ContentIn
<1>2. CASE d["keys"] # Absent
  <2>1. ContentIn(d, "keys")' = data'[d["keys"]] /\ ContentIn(d, "keys")' # Absent
    BY <1>2, MarksAreNoMaps DEF ContentIn
  <2> QED
    BY <1>2, <2>1, MarksAreNoMaps DEF KeysIn
<1> QED
  BY <1>1, <1>2

(* The same of what load reads after a step.                               *)
LEMMA LoadedIsNext ==
    ASSUME dir'["keys"] # Absent => data'[dir'["keys"]] \in EncryptedMap
    PROVE  /\ dir'["keys"] = Absent => Loaded' = {}
           /\ dir'["keys"] # Absent => Loaded' = data'[dir'["keys"]].map
<1>1. CASE dir'["keys"] = Absent
  BY <1>1, MarksAreNoMaps DEF Loaded, KeysIn, ContentIn
<1>2. CASE dir'["keys"] # Absent
  <2>1. ContentIn(dir, "keys")' = data'[dir'["keys"]] /\ ContentIn(dir, "keys")' # Absent
    BY <1>2, MarksAreNoMaps DEF ContentIn
  <2> QED
    BY <1>2, <2>1, MarksAreNoMaps DEF Loaded, KeysIn
<1> QED
  BY <1>1, <1>2

(* A step that leaves the key store as it is in every directory.           *)
Elsewhere ==
    /\ dir'["keys"] = dir["keys"] /\ versions' = versions \union {dir'}
    /\ \A d \in versions : d["keys"] # Absent =>
          /\ data'[d["keys"]] = data[d["keys"]]
          /\ d["keys"] \in unsynced' => d["keys"] \in unsynced

(* A step elsewhere than at the key files changes no map of any directory. *)
LEMMA ElsewhereKeeps ==
    ASSUME KeysWhole, Elsewhere, dir \in versions
    PROVE  /\ KeysWhole' /\ Loaded' = Loaded
           /\ \A d \in versions : KeysIn(d)' = KeysIn(d)
<1>1. KeysWhole'
  BY DEF KeysWhole, Elsewhere
<1>2. \A d \in versions : KeysIn(d)' = KeysIn(d)
  BY KeysInIs, KeysInIsNext DEF KeysWhole, Elsewhere
<1>3. Loaded' = Loaded
  <2>1. /\ dir["keys"] = Absent => Loaded = {}
        /\ dir["keys"] # Absent => Loaded = data[dir["keys"]].map
    BY KeysInIs DEF KeysWhole, Loaded
  <2>2. /\ dir["keys"] # Absent => data'[dir["keys"]] = data[dir["keys"]]
                                   /\ data[dir["keys"]] \in EncryptedMap
        /\ dir'["keys"] = dir["keys"]
    BY DEF KeysWhole, Elsewhere
  <2> QED
    BY <2>1, <2>2, LoadedIsNext
<1> QED
  BY <1>1, <1>2, <1>3

(* A caller that is left alone, with its file, stays as it was.            *)
LEMMA CallerStays ==
    ASSUME NEW j \in Job, Caller(j), job'[j] = job[j], dir'["tmp"] = dir["tmp"], Loaded' = Loaded,
           j \in Holding => /\ data'[job[j].ino] = data[job[j].ino]
                            /\ job[j].ino \in unsynced' => job[j].ino \in unsynced
    PROVE  Caller(j)'
BY DEF Caller, Holding, Stage

(* A job that opens a file does so at the temporary file's inode, or at    *)
(* one that is the key store's in no directory.                            *)
LEMMA KeysOpen ==
    ASSUME Typed, Alone, Apart, KeysInv, "keys" \notin clash, NEW j \in Job, Open(j)
    PROVE  Elsewhere /\ TmpApart' /\ \A k \in Changing' : Caller(k)'
<1>0. /\ dir \in versions /\ KeysWhole /\ TmpApart /\ \A k \in Changing : Caller(k)
      /\ "keys" \in Name /\ "identity" \in Name /\ "tmp" \in Name
  BY DataDirConstants DEF Typed, TypeOK, KeysInv
<1> DEFINE f == job[j].target
<1>1. PICK i \in Inode :
        /\ \/ dir[f] = i
           \/ /\ dir[f] = Absent
              /\ \A d \in versions, g \in Name : d[g] # i
              /\ \A k \in Job : job[k].ino # i
        /\ dir' = [ g \in Name |-> IF g = f THEN i ELSE dir[g] ]
        /\ versions' = versions \union {dir'}
        /\ data' = [ n \in Inode |-> IF n = i THEN Blank ELSE data[n] ]
        /\ unsynced' = unsynced \union {i}
        /\ job' = [ k \in Job |-> IF k = j THEN job'[j] ELSE job[k] ]
        /\ job'[j] = [ cmd |-> job[j].cmd, at |-> "write", target |-> f,
                       value |-> job[j].value, ino |-> i, todo |-> job[j].todo ]
  BY OpensAt
<1>2. f \in {"tmp", "identity"} /\ (f = "tmp" <=> j \in Changing) /\ j \notin Holding
  BY OpensAt, Kinds DEF Typed, Changing, Holding
<1> HIDE DEF f
<1>3. i # Absent
  BY FileConstants
<1>4. \A d \in versions : d["keys"] # i
  BY <1>0, <1>1, <1>2, <1>3 DEF Apart, TmpApart
<1>5. dir'["keys"] = dir["keys"]
  BY <1>0, <1>1, <1>2
<1>6. Elsewhere
  <2>1. \A d \in versions : d["keys"] # Absent => d["keys"] \in Inode
    BY <1>0 DEF Typed, TypeOK
  <2> QED
    BY <1>1, <1>4, <1>5, <2>1 DEF Elsewhere
<1>7. Loaded' = Loaded
  BY <1>0, <1>6, ElsewhereKeeps
<1>8. CASE f = "tmp"
  <2>1. dir'["tmp"] = i
    BY <1>0, <1>1, <1>8
  <2>2. TmpApart'
    BY <1>0, <1>1, <1>4, <1>5, <2>1 DEF TmpApart
  <2>3. \A k \in Changing : k = j
    BY <1>2, <1>8 DEF Alone, Concerns, Changing
  <2>4. \A k \in Changing' : k = j
    BY <1>1, <2>3 DEF Changing
  <2>5. Caller(j)'
    <3>1. \E key \in Key : job[j].value.map \in {Loaded \union {key}, Loaded \ {key}}
      BY <1>0, <1>2, <1>8 DEF Caller
    <3>2. job'[j].at = "write" /\ job'[j].ino = i /\ job'[j].value = job[j].value
      BY <1>1
    <3>3. data'[i] = Blank
      BY <1>1
    <3>4. Stage(j)'
      BY <3>2, <3>3 DEF Stage
    <3> QED
      BY <1>7, <2>1, <3>1, <3>2, <3>4 DEF Caller
  <2> QED
    BY <1>6, <2>2, <2>4, <2>5
<1>9. CASE f = "identity"
  <2>1. dir'["tmp"] = dir["tmp"]
    BY <1>0, <1>1, <1>9
  <2>2. TmpApart'
    BY <1>0, <1>1, <1>5, <2>1 DEF TmpApart
  <2>3. ASSUME NEW k \in Changing' PROVE Caller(k)'
    <3>1. k \in Job /\ k # j /\ job'[k] = job[k] /\ k \in Changing
      BY <1>1, <1>2, <1>9, <2>3 DEF Changing
    <3>2. k \in Holding => job[k].ino # i /\ job[k].ino \in Inode
      <4>1. k \in Holding => job[k].target = "tmp" /\ job[k].ino \in Inode
        BY <3>1, Kinds DEF Typed, Changing
      <4> QED
        BY <1>0, <1>1, <1>9, <3>1, <4>1 DEF Apart
    <3>3. k \in Holding => /\ data'[job[k].ino] = data[job[k].ino]
                           /\ job[k].ino \in unsynced' => job[k].ino \in unsynced
      BY <1>1, <3>2
    <3> QED
      BY <1>0, <1>7, <2>1, <3>1, <3>3, CallerStays
  <2> QED
    BY <1>6, <2>2, <2>3
<1> QED
  BY <1>2, <1>8, <1>9

(* A job writes to, and syncs, what is the key store in no directory.      *)
LEMMA KeysWrite ==
    ASSUME Typed, Alone, Apart, KeysInv, "keys" \notin clash, NEW j \in Job,
           Write(j) \/ WriteFails(j) \/ Sync(j)
    PROVE  Elsewhere /\ TmpApart' /\ \A k \in Changing' : Caller(k)'
<1>0. /\ dir \in versions /\ KeysWhole /\ TmpApart /\ \A k \in Changing : Caller(k)
      /\ JobsTyped /\ \A d \in versions : d["keys"] # Absent => d["keys"] \in Inode
  BY DataDirConstants DEF Typed, TypeOK, KeysInv
<1>1. /\ j \in Holding /\ UNCHANGED <<dir, versions>> /\ job[j].ino \in Inode
      /\ \A n \in Inode : n # job[j].ino =>
            data'[n] = data[n] /\ (n \in unsynced' => n \in unsynced)
  <2>1. CASE Sync(j)
    BY <2>1, SyncsAt
  <2>2. CASE Write(j) \/ WriteFails(j)
    BY <2>2, WritesAt
  <2> QED
    BY <2>1, <2>2
<1>2. \/ End(j)
      \/ \E place : Goto(j, place)
  BY DEF Write, WriteFails, Sync
<1>3. \A k \in Job \ {j} : job'[k] = job[k]
  <2>1. CASE End(j)
    BY <1>0, <2>1, EndsTo
  <2>2. ASSUME NEW place, Goto(j, place) PROVE \A k \in Job \ {j} : job'[k] = job[k]
    BY <1>0, <2>2, GoesTo
  <2> QED
    BY <1>2, <2>1, <2>2
<1>4. j \in Changing \/ job[j].target = "identity"
  BY <1>0, <1>1, Kinds DEF Changing
<1>5. \A d \in versions : d["keys"] # job[j].ino
  <2>1. CASE j \in Changing
    <3>1. dir["tmp"] = job[j].ino /\ job[j].ino # Absent
      BY <1>0, <1>1, <2>1, FileConstants DEF Caller
    <3> QED
      BY <1>0, <3>1 DEF TmpApart
  <2>2. CASE job[j].target = "identity"
    BY <1>1, <2>2 DEF Apart
  <2> QED
    BY <1>4, <2>1, <2>2
<1>6. Elsewhere
  BY <1>0, <1>1, <1>5 DEF Elsewhere
<1>7. Loaded' = Loaded
  BY <1>0, <1>6, ElsewhereKeeps
<1>8. TmpApart'
  BY <1>0, <1>1 DEF TmpApart
<1>9. ASSUME NEW k \in Changing', k # j PROVE Caller(k)'
  <2>1. k \in Job /\ job'[k] = job[k] /\ k \in Changing
    BY <1>3, <1>9 DEF Changing
  <2>2. job[j].target = "identity"
    BY <1>4, <1>9, <2>1 DEF Alone, Concerns, Changing
  <2>3. k \in Holding => job[k].ino # job[j].ino /\ job[k].ino \in Inode
    <3>1. k \in Holding => job[k].target = "tmp" /\ job[k].ino \in Inode
      BY <1>0, <2>1, Kinds DEF Changing
    <3> QED
      BY <1>1, <2>2, <3>1 DEF Apart
  <2> QED
    BY <1>0, <1>1, <1>7, <2>1, <2>3, CallerStays
<1>10. ASSUME j \in Changing' PROVE Caller(j)'
  <2>1. j \in Changing /\ ~End(j)
    <3>1. End(j) => job'[j].cmd = "none"
      BY <1>0, EndsTo DEF Idle, Task
    <3>2. job'[j].cmd = job[j].cmd \/ End(j)
      BY <1>0, <1>2, GoesTo
    <3> QED
      BY <1>10, <3>1, <3>2 DEF Changing
  <2>2. /\ dir["tmp"] = job[j].ino /\ Stage(j)
        /\ \E key \in Key : job[j].value.map \in {Loaded \union {key}, Loaded \ {key}}
    BY <1>0, <1>1, <2>1 DEF Caller
  <2>3. PICK place : /\ Goto(j, place)
                     /\ \/ /\ Write(j) /\ place = "sync"
                        \/ /\ Sync(j) /\ place = "rename"
    <3>1. \/ Write(j) /\ Goto(j, "sync")
          \/ Sync(j) /\ Goto(j, "rename")
      BY <2>1, WritesAt, SyncsAt
    <3> QED
      BY <3>1
  <2>4. /\ job'[j].at = place /\ job'[j].ino = job[j].ino /\ job'[j].value = job[j].value
    BY <1>0, <2>3, GoesTo
  <2>5. CASE Write(j) /\ place = "sync"
    <3>1. data[job[j].ino] = Blank
      BY <2>2, <2>5, WritesAt DEF Stage
    <3>2. data'[job[j].ino] = job[j].value
      BY <1>1, <2>5, <3>1, WritesAt
    <3>3. Stage(j)'
      BY <2>4, <2>5, <3>2 DEF Stage
    <3> QED
      BY <1>1, <1>7, <2>2, <2>4, <3>3 DEF Caller
  <2>6. CASE Sync(j) /\ place = "rename"
    <3>1. /\ data[job[j].ino] = job[j].value /\ data' = data
          /\ unsynced' = unsynced \ {job[j].ino}
      BY <2>2, <2>6, SyncsAt DEF Stage
    <3>2. Stage(j)'
      BY <2>4, <2>6, <3>1 DEF Stage
    <3> QED
      BY <1>1, <1>7, <2>2, <2>4, <3>2 DEF Caller
  <2> QED
    BY <2>3, <2>5, <2>6
<1> QED
  BY <1>6, <1>8, <1>9, <1>10

(* The rename, and what a wipe removes.                                    *)
LEMMA KeysReplace ==
    ASSUME Typed, Alone, KeysInv, "keys" \notin clash, NEW j \in Job, Replace(j)
    PROVE  /\ KeysWhole' /\ TmpApart' /\ Changing' = {}
           /\ versions' = versions \union {dir'} /\ UNCHANGED data
           /\ \A d \in versions : d["keys"] # Absent => data[d["keys"]] \in EncryptedMap
           /\ Loaded' = job[j].value.map
           /\ \E key \in Key : job[j].value.map \in {Loaded \union {key}, Loaded \ {key}}
<1>0. /\ dir \in versions /\ KeysWhole /\ \A k \in Changing : Caller(k)
      /\ "keys" \in Name /\ "tmp" \in Name /\ JobsTyped
  BY DataDirConstants DEF Typed, TypeOK, KeysInv
<1>1. /\ j \in Changing /\ j \in Holding /\ job[j].at = "rename" /\ End(j)
      /\ UNCHANGED <<data, unsynced>>
  BY ReplacesAt DEF Changing
<1>2. /\ dir["tmp"] = job[j].ino
      /\ data[job[j].ino] = job[j].value /\ job[j].ino \notin unsynced
      /\ \E key \in Key : job[j].value.map \in {Loaded \union {key}, Loaded \ {key}}
  BY <1>0, <1>1 DEF Caller, Stage
<1>3. job[j].ino # Absent /\ job[j].value \in EncryptedMap
  BY <1>0, <1>1, Kinds, FileConstants DEF Changing
<1>4. /\ dir' = [ g \in Name |-> IF g = "keys" THEN dir["tmp"]
                                 ELSE IF g = "tmp" THEN Absent ELSE dir[g] ]
      /\ versions' = versions \union {dir'}
  BY <1>2, <1>3, ReplacesAt
<1>5. dir'["keys"] = job[j].ino /\ dir'["tmp"] = Absent
  BY <1>0, <1>2, <1>4
<1>6. KeysWhole'
  BY <1>0, <1>1, <1>2, <1>3, <1>4, <1>5 DEF KeysWhole
<1>7. TmpApart'
  BY <1>5 DEF TmpApart
<1>8. Changing' = {}
  <2>1. \A k \in Changing : k = j
    BY <1>1 DEF Alone, Concerns, Changing
  <2>2. job' = [ k \in Job |-> IF k = j THEN Idle ELSE job[k] ] /\ Idle.cmd = "none"
    BY <1>0, <1>1, EndsTo DEF Idle, Task
  <2> QED
    BY <2>1, <2>2 DEF Changing
<1>9. Loaded' = job[j].value.map
  BY <1>1, <1>2, <1>3, <1>5, LoadedIsNext
<1> QED
  BY <1>0, <1>1, <1>2, <1>4, <1>6, <1>7, <1>8, <1>9 DEF KeysWhole

(* wipe leaves the key store whole or removes it, and nobody is changing   *)
(* it then.                                                                *)
LEMMA KeysWipe ==
    ASSUME Typed, Alone, KeysInv, "keys" \notin clash,
           NEW j \in Job, NEW f \in Name \union {"db"}, Wipes(j, f)
    PROVE  /\ KeysWhole' /\ TmpApart' /\ Changing' = {}
           /\ UNCHANGED <<data, unsynced>> /\ versions' = versions \union {dir'}
           /\ dir'["keys"] \in {dir["keys"], Absent}
<1>0. /\ dir \in versions /\ KeysWhole /\ TmpApart
      /\ "keys" \in Name /\ "tmp" \in Name /\ JobsTyped
  BY DataDirConstants DEF Typed, TypeOK, KeysInv
<1>1. /\ UNCHANGED <<data, unsynced>> /\ job[j].cmd = "wipe"
      /\ job' = [ k \in Job |-> IF k = j THEN job'[j] ELSE job[k] ]
      /\ job'[j].cmd = "wipe"
  BY WipesOne
<1>2. Changing' = {}
  <2>1. Changing = {}
    BY <1>1 DEF Alone, Concerns, Changing
  <2> QED
    BY <1>1, <2>1 DEF Changing
<1>3. /\ versions' = versions \union {dir'}
      /\ dir'["keys"] \in {dir["keys"], Absent} /\ dir'["tmp"] \in {dir["tmp"], Absent}
  <2>1. CASE dir' = dir /\ versions' = versions
    BY <1>0, <2>1
  <2>2. CASE /\ dir' = DirLess(f)
             /\ versions' = versions \union {dir'}
    BY <1>0, <2>2 DEF DirLess
  <2> QED
    BY <2>1, <2>2, WipesOne
<1>4. KeysWhole'
  BY <1>0, <1>1, <1>3 DEF KeysWhole
<1>5. TmpApart'
  BY <1>0, <1>3 DEF TmpApart
<1> QED
  BY <1>1, <1>2, <1>3, <1>4, <1>5

(* After a power loss the key store is whole, as one of the directories    *)
(* there were has it, and nobody is changing it.                           *)
LEMMA KeysPower ==
    ASSUME Typed, KeysInv, "keys" \notin clash, PowerLoss
    PROVE  /\ KeysWhole' /\ TmpApart' /\ Changing' = {}
           /\ dir' \in versions /\ versions' = {dir'}
           /\ dir'["keys"] # Absent => /\ data'[dir'["keys"]] = data[dir'["keys"]]
                                       /\ data[dir'["keys"]] \in EncryptedMap
<1>0. /\ dir \in versions /\ KeysWhole /\ "keys" \in Name /\ "tmp" \in Name
      /\ \A d \in versions : d \in [Name -> Inode \union {Absent}]
      /\ \A d \in versions : \A f, g \in Name : d[f] = d[g] /\ d[f] # Absent => f = g
  BY DataDirConstants DEF Typed, TypeOK, KeysInv
<1>1. PICK lost \in SUBSET unsynced, new \in {Blank, Torn} :
        data' = [ i \in Inode |-> IF i \in lost THEN new ELSE data[i] ]
  BY DEF PowerLoss, LosePower
<1>2. dir' \in versions /\ versions' = {dir'} /\ unsynced' = {}
  BY DEF PowerLoss, LosePower
<1>3. dir'["keys"] # Absent =>
        /\ dir'["keys"] \in Inode /\ dir'["keys"] \notin unsynced
        /\ data[dir'["keys"]] \in EncryptedMap
  BY <1>0, <1>2 DEF KeysWhole
<1>4. dir'["keys"] # Absent => data'[dir'["keys"]] = data[dir'["keys"]]
  BY <1>1, <1>3
<1>5. KeysWhole'
  BY <1>2, <1>3, <1>4 DEF KeysWhole
<1>6. TmpApart'
  BY <1>0, <1>2 DEF TmpApart
<1>7. Changing' = {}
  BY DEF PowerLoss, Changing, Idle, Task
<1> QED
  BY <1>2, <1>3, <1>4, <1>5, <1>6, <1>7

(* The key store's invariant holds in every reachable state.               *)
LEMMA KeysHolds == Spec => []KeysInv
<1>1. Init => KeysInv
  BY DataDirConstants
     DEF Init, InitFiles, KeysInv, KeysWhole, TmpApart, Changing, Idle, Task
<1>2. Typed /\ Alone /\ Apart /\ KeysInv /\ [Next]_vars => KeysInv'
  <2> SUFFICES ASSUME Typed, Alone, Apart, KeysInv, [Next]_vars, "keys" \notin clash'
               PROVE  KeysInv'
    BY DEF KeysInv
  <2>0. /\ "keys" \notin clash /\ dir \in versions /\ JobsTyped
        /\ KeysWhole /\ TmpApart /\ \A k \in Changing : Caller(k)
    BY Commands DEF Typed, TypeOK, KeysInv
  <2>a. KeysWhole' /\ TmpApart' /\ (\A k \in Changing' : Caller(k)') => KeysInv'
    BY DEF KeysInv
  <2>1. ASSUME NEW j \in Job, NEW r \in Started, Begins(j, r) PROVE KeysInv'
    <3>1. /\ job' = [ k \in Job |-> IF k = j THEN r ELSE job[k] ]
          /\ UNCHANGED <<dir, versions, data, unsynced>>
      BY <2>0, <2>1, BeginsTo DEF Begins, fileVars
    <3>2. KeysWhole' /\ TmpApart'
      BY <2>0, <3>1 DEF KeysWhole, TmpApart
    <3>3. Loaded' = Loaded
      BY <3>1 DEF Loaded, KeysIn, ContentIn
    <3>4. ASSUME NEW k \in Changing', k # j PROVE Caller(k)'
      <4>1. k \in Changing /\ job'[k] = job[k]
        BY <3>1, <3>4 DEF Changing
      <4> QED
        BY <2>0, <3>1, <3>3, <4>1, CallerStays DEF Changing
    <3>5. ASSUME j \in Changing' PROVE Caller(j)'
      <4>1. job'[j] = r
        BY <3>1
      <4>2. j \notin Holding' /\ r.cmd \in {"store", "delete"}
        BY <2>1, <3>5, <4>1 DEF Begins, Holding, Changing
      <4> QED
        BY <2>1, <3>3, <4>1, <4>2 DEF Begins, Caller
    <3> QED
      BY <2>a, <3>2, <3>4, <3>5
  <2>2. ASSUME UNCHANGED fileVars, \A k \in Job : job'[k] \in {job[k], Idle} PROVE KeysInv'
    <3>1. Loaded' = Loaded
      BY <2>2 DEF Loaded, KeysIn, ContentIn, fileVars
    <3>2. ASSUME NEW k \in Changing' PROVE Caller(k)'
      <4>1. k \in Changing /\ job'[k] = job[k]
        BY <2>2, <3>2 DEF Changing, Idle, Task
      <4> QED
        BY <2>0, <2>2, <3>1, <4>1, CallerStays DEF Changing, fileVars
    <3>3. KeysWhole' /\ TmpApart'
      BY <2>0, <2>2 DEF KeysWhole, TmpApart, fileVars
    <3> QED
      BY <2>a, <3>2, <3>3
  <2>3. ASSUME Settle PROVE KeysInv'
    <3>1. /\ job' = job /\ UNCHANGED <<dir, data>>
          /\ versions' = {dir} /\ unsynced' = {}
      BY <2>3 DEF Settle, WriteBack, ctlVars
    <3>2. KeysWhole' /\ TmpApart'
      BY <2>0, <3>1 DEF KeysWhole, TmpApart
    <3>3. Loaded' = Loaded
      BY <3>1 DEF Loaded, KeysIn, ContentIn
    <3>4. \A k \in Changing' : k \in Job /\ Caller(k) /\ job'[k] = job[k]
      BY <2>0, <3>1 DEF Changing
    <3>5. \A k \in Changing' : Caller(k)'
      BY <3>1, <3>3, <3>4, CallerStays
    <3> QED
      BY <2>a, <3>2, <3>5
  <2>4. \A j \in Job : Open(j) \/ Write(j) \/ WriteFails(j) \/ Sync(j) => KeysInv'
    <3> SUFFICES ASSUME NEW j \in Job, Open(j) \/ Write(j) \/ WriteFails(j) \/ Sync(j)
                 PROVE  KeysInv'
      OBVIOUS
    <3>1. Elsewhere /\ TmpApart' /\ \A k \in Changing' : Caller(k)'
      BY <2>0, KeysOpen, KeysWrite
    <3> QED
      BY <2>0, <2>a, <3>1, ElsewhereKeeps
  <2>5. \A j \in Job : Replace(j) => KeysInv'
    BY <2>0, <2>a, KeysReplace
  <2>6. \A j \in Job, f \in Name \union {"db"} : Wipes(j, f) => KeysInv'
    BY <2>0, <2>a, KeysWipe
  <2>7. PowerLoss => KeysInv'
    BY <2>0, <2>a, KeysPower
  <2>8. \A j \in Job : Ends(j) => UNCHANGED fileVars /\ \A k \in Job : job'[k] \in {job[k], Idle}
    BY <2>0, EndsTo DEF Ends
  <2>9. UseStore \/ LeaveStore \/ UNCHANGED vars =>
            UNCHANGED fileVars /\ \A k \in Job : job'[k] \in {job[k], Idle}
    BY DEF UseStore, LeaveStore, vars, ctlVars
  <2> QED
    BY <2>1, <2>2, <2>3, <2>4, <2>5, <2>6, <2>7, <2>8, <2>9, StepCases
<1> QED
  BY <1>1, <1>2, TypedHolds, AloneHolds, ApartHolds, PTL DEF Spec

(* The key store's file is missing or whole, now and after any loss of     *)
(* power, through kills and full disks (keystore.rs flush, config.rs       *)
(* secure_write), as long as no two callers changed it at once.            *)
THEOREM KeyStoreWholeHolds == Spec => []KeyStoreWhole
<1>1. Typed /\ KeysInv => KeyStoreWhole
  <2> SUFFICES ASSUME Typed, KeysInv, "keys" \notin clash PROVE KeyStoreWhole
    BY DEF KeyStoreWhole
  <2>1. KeysWhole /\ dir \in versions
    BY DEF Typed, TypeOK, KeysInv
  <2>2. Content("keys") \notin {Blank, Torn}
    BY <2>1, MarksAreNoMaps, DataDirConstants DEF Content, ContentIn, KeysWhole
  <2> QED
    BY <2>1, <2>2 DEF KeyStoreWhole, KeysWhole
<1> QED
  BY <1>1, TypedHolds, KeysHolds, PTL

-----------------------------------------------------------------------------
(* The identity.                                                           *)

(* A writer that is left alone, with its file, stays as it was.            *)
LEMMA WriterStays ==
    ASSUME NEW j \in Job, Writer(j), job'[j] = job[j], mine' = mine,
           dir'["identity"] = dir["identity"],
           j \in Holding => /\ data'[job[j].ino] = data[job[j].ino]
                            /\ job[j].ino \in unsynced' => job[j].ino \in unsynced
    PROVE  Writer(j)'
BY DEF Writer, Holding, Stage

(* A reported identity that is left alone stays, or is no longer promised. *)
LEMMA AcknowledgedStays ==
    ASSUME Acknowledged, mine' \in {mine, None}, dir'["identity"] = dir["identity"],
           mine # None => /\ data'[dir["identity"]] = data[dir["identity"]]
                          /\ dir["identity"] \in unsynced' => dir["identity"] \in unsynced
    PROVE  Acknowledged'
BY DEF Acknowledged

(* An identity is opened for a writer, and another file is not the         *)
(* identity's.                                                             *)
LEMMA IdentityOpen ==
    ASSUME Typed, Alone, Apart, IdentityInv, "identity" \notin clash, NEW j \in Job, Open(j)
    PROVE  Acknowledged' /\ \A k \in Writing' : Writer(k)'
<1>0. /\ dir \in versions /\ Acknowledged /\ \A k \in Writing : Writer(k)
      /\ "keys" \in Name /\ "identity" \in Name /\ "tmp" \in Name
      /\ \A d \in versions : d \in [Name -> Inode \union {Absent}]
  BY DataDirConstants DEF Typed, TypeOK, IdentityInv
<1> DEFINE f == job[j].target
<1>1. PICK i \in Inode :
        /\ \/ dir[f] = i
           \/ /\ dir[f] = Absent
              /\ \A d \in versions, g \in Name : d[g] # i
              /\ \A k \in Job : job[k].ino # i
        /\ dir' = [ g \in Name |-> IF g = f THEN i ELSE dir[g] ]
        /\ versions' = versions \union {dir'}
        /\ data' = [ n \in Inode |-> IF n = i THEN Blank ELSE data[n] ]
        /\ unsynced' = unsynced \union {i}
        /\ job' = [ k \in Job |-> IF k = j THEN job'[j] ELSE job[k] ]
        /\ job'[j] = [ cmd |-> job[j].cmd, at |-> "write", target |-> f,
                       value |-> job[j].value, ino |-> i, todo |-> job[j].todo ]
  BY OpensAt
<1>2. f \in {"tmp", "identity"} /\ (f = "identity" <=> j \in Writing)
  BY OpensAt, Kinds DEF Typed, Writing
<1>3. mine' = IF job[j].cmd = "import" THEN None ELSE mine
  BY DEF Open
<1> HIDE DEF f
<1>4. CASE f = "identity"
  <2>1. j \in Writing /\ Writer(j)
    BY <1>0, <1>2, <1>4
  <2>2. mine' = None
    BY <1>3, <2>1 DEF Writer
  <2>3. \A k \in Writing' : k = j
    <3>1. \A k \in Writing : k = j
      BY <2>1 DEF Alone, Concerns, Writing
    <3> QED
      BY <1>1, <3>1 DEF Writing
  <2>4. Writer(j)'
    <3>1. job'[j].at = "write" /\ job'[j].ino = i
      BY <1>1
    <3>2. data'[i] = Blank /\ dir'["identity"] = i
      BY <1>0, <1>1, <1>4
    <3>3. Stage(j)'
      BY <3>1, <3>2 DEF Stage
    <3> QED
      BY <2>2, <3>1, <3>2, <3>3 DEF Writer
  <2>5. Acknowledged'
    BY <2>2 DEF Acknowledged
  <2> QED
    BY <2>3, <2>4, <2>5
<1>5. CASE f = "tmp"
  <2>1. dir'["identity"] = dir["identity"] /\ mine' = mine /\ j \notin Writing
    BY <1>0, <1>1, <1>2, <1>3, <1>5 DEF Writing
  <2>2. dir["identity"] # i
    BY <1>0, <1>1, <1>5, FileConstants DEF Apart
  <2>3. dir["identity"] # Absent => dir["identity"] \in Inode
    BY <1>0
  <2>4. Acknowledged'
    BY <1>0, <1>1, <2>1, <2>2, <2>3, AcknowledgedStays DEF Acknowledged
  <2>5. ASSUME NEW k \in Writing' PROVE Writer(k)'
    <3>1. k \in Job /\ k # j /\ job'[k] = job[k] /\ k \in Writing
      BY <1>1, <2>1, <2>5 DEF Writing
    <3>2. k \in Holding => job[k].ino # i /\ job[k].ino \in Inode
      <4>1. k \in Holding => job[k].target = "identity" /\ job[k].ino \in Inode
        BY <3>1, Kinds DEF Typed, Writing
      <4> QED
        BY <1>0, <1>1, <1>5, <3>1, <4>1 DEF Apart
    <3>3. k \in Holding => /\ data'[job[k].ino] = data[job[k].ino]
                           /\ job[k].ino \in unsynced' => job[k].ino \in unsynced
      BY <1>1, <3>2
    <3> QED
      BY <1>0, <2>1, <3>1, <3>3, WriterStays
  <2> QED
    BY <2>4, <2>5
<1> QED
  BY <1>2, <1>4, <1>5

(* Writing and syncing an identity keep what was reported: the writer had  *)
(* found none, or replaces one its user gave up.                           *)
LEMMA IdentityWrite ==
    ASSUME Typed, Alone, Apart, IdentityInv, "identity" \notin clash, NEW j \in Job,
           Write(j) \/ WriteFails(j) \/ Sync(j)
    PROVE  Acknowledged' /\ \A k \in Writing' : Writer(k)'
<1>0. /\ dir \in versions /\ JobsTyped /\ Acknowledged /\ \A k \in Writing : Writer(k)
      /\ dir["identity"] # Absent => dir["identity"] \in Inode
  BY DataDirConstants DEF Typed, TypeOK, IdentityInv
<1>1. /\ j \in Holding /\ UNCHANGED <<dir, versions>> /\ job[j].ino \in Inode
      /\ \A n \in Inode : n # job[j].ino =>
            data'[n] = data[n] /\ (n \in unsynced' => n \in unsynced)
  <2>1. CASE Sync(j)
    BY <2>1, SyncsAt
  <2>2. CASE Write(j) \/ WriteFails(j)
    BY <2>2, WritesAt
  <2> QED
    BY <2>1, <2>2
<1>2. \/ WriteFails(j) /\ End(j) /\ mine' = mine
      \/ Write(j) /\ Goto(j, "sync") /\ mine' = mine
      \/ Sync(j) /\ Goto(j, "rename") /\ mine' = mine /\ job[j].target # "identity"
      \/ Sync(j) /\ End(j) /\ mine' = job[j].value /\ job[j].target = "identity"
  BY SyncsAt DEF Write, WriteFails
<1>3. \A k \in Job \ {j} : job'[k] = job[k]
  BY OneWorks DEF Works
<1>4. /\ job[j].target \in {"tmp", "identity"}
      /\ job[j].target = "identity" <=> j \in Writing
  BY <1>0, <1>1, Kinds DEF Writing
<1>5. CASE job[j].target = "tmp"
  <2>1. dir["identity"] # job[j].ino /\ mine' = mine /\ j \notin Writing
    BY <1>0, <1>1, <1>2, <1>4, <1>5 DEF Apart
  <2>2. Acknowledged'
    BY <1>0, <1>1, <2>1, AcknowledgedStays DEF Acknowledged
  <2>3. ASSUME NEW k \in Writing' PROVE Writer(k)'
    <3>1. k # j
      BY <2>1, <2>3, OneWorks DEF Works, Writing
    <3>2. k \in Job /\ job'[k] = job[k] /\ k \in Writing
      BY <1>3, <2>3, <3>1 DEF Writing
    <3>3. k \in Holding => job[k].ino # job[j].ino /\ job[k].ino \in Inode
      <4>1. k \in Holding => job[k].target = "identity" /\ job[k].ino \in Inode
        BY <1>0, <3>2, Kinds DEF Writing
      <4> QED
        BY <1>1, <1>5, <4>1 DEF Apart
    <3> QED
      BY <1>0, <1>1, <2>1, <3>2, <3>3, WriterStays
  <2> QED
    BY <2>2, <2>3
<1>6. CASE job[j].target = "identity"
  <2>1. /\ j \in Writing /\ mine = None
        /\ dir["identity"] = job[j].ino /\ Stage(j) /\ job[j].ino # Absent
    BY <1>0, <1>1, <1>4, <1>6, FileConstants DEF Writer, Holding
  <2>2. \A k \in Writing : k = j
    BY <2>1 DEF Alone, Concerns, Writing
  <2>3. CASE End(j) /\ (mine' = mine \/ (Sync(j) /\ mine' = job[j].value))
    <3>1. Writing' = {}
      BY <1>0, <1>3, <2>2, <2>3, EndsTo DEF Writing, Idle, Task
    <3>2. Acknowledged'
      <4>1. CASE mine' = mine
        BY <2>1, <4>1 DEF Acknowledged
      <4>2. CASE Sync(j) /\ mine' = job[j].value
        <5>1. /\ data[job[j].ino] = job[j].value /\ data' = data
              /\ unsynced' = unsynced \ {job[j].ino}
          BY <2>1, <4>2, SyncsAt DEF Stage
        <5> QED
          BY <1>1, <2>1, <4>2, <5>1 DEF Acknowledged
      <4> QED
        BY <2>3, <4>1, <4>2
    <3> QED
      BY <3>1, <3>2
  <2>4. CASE Write(j) /\ Goto(j, "sync") /\ mine' = mine
    <3>1. /\ job'[j].at = "sync" /\ job'[j].ino = job[j].ino /\ job'[j].value = job[j].value
      BY <1>0, <2>4, GoesTo
    <3>2. data[job[j].ino] = Blank
      BY <2>1, <2>4, WritesAt DEF Stage
    <3>3. data'[job[j].ino] = job[j].value
      BY <1>1, <2>4, <3>2, WritesAt
    <3>4. Stage(j)'
      BY <3>1, <3>3 DEF Stage
    <3>5. Writer(j)'
      BY <1>1, <2>1, <2>4, <3>1, <3>4 DEF Writer
    <3>6. \A k \in Writing' : k = j
      BY <1>3, <2>2 DEF Writing
    <3> QED
      BY <2>1, <2>4, <3>5, <3>6 DEF Acknowledged
  <2> QED
    BY <1>2, <1>6, <2>3, <2>4
<1> QED
  BY <1>4, <1>5, <1>6


(* A loss of power that leaves the identity's entry leaves the identity:   *)
(* its content was synced.                                                 *)
LEMMA IdentityPower ==
    ASSUME Typed, IdentityInv, "identity" \notin clash, PowerLoss
    PROVE  Acknowledged' /\ Writing' = {}
<1>1. Writing' = {}
  BY DEF PowerLoss, Writing, Idle, Task
<1>2. ASSUME mine' # None PROVE Acknowledged'
  <2>1. mine' = mine /\ mine # None /\ dir'["identity"] = dir["identity"]
    BY <1>2 DEF PowerLoss
  <2>2. /\ dir["identity"] \in Inode /\ dir["identity"] # Absent
        /\ dir["identity"] \notin unsynced /\ data[dir["identity"]] = mine
    BY <2>1, DataDirConstants DEF Typed, TypeOK, IdentityInv, Acknowledged
  <2>3. PICK lost \in SUBSET unsynced, new \in {Blank, Torn} :
          data' = [ i \in Inode |-> IF i \in lost THEN new ELSE data[i] ]
    BY DEF PowerLoss, LosePower
  <2>4. data'[dir["identity"]] = mine /\ unsynced' = {}
    BY <2>2, <2>3 DEF PowerLoss, LosePower
  <2> QED
    BY <2>1, <2>2, <2>4 DEF Acknowledged
<1> QED
  BY <1>1, <1>2 DEF Acknowledged

(* The identity's invariant holds in every reachable state.                *)
LEMMA IdentityHolds == Spec => []IdentityInv
<1>1. Init => IdentityInv
  BY DEF Init, IdentityInv, Acknowledged, Writing, Idle, Task
<1>2. Typed /\ Alone /\ Apart /\ IdentityInv /\ [Next]_vars => IdentityInv'
  <2> SUFFICES ASSUME Typed, Alone, Apart, IdentityInv, [Next]_vars,
                      "identity" \notin clash'
               PROVE  Acknowledged' /\ \A k \in Writing' : Writer(k)'
    BY DEF IdentityInv
  <2>0. /\ "identity" \notin clash /\ dir \in versions /\ JobsTyped /\ Acknowledged
        /\ "identity" \in Name /\ "keys" \in Name /\ "tmp" \in Name
        /\ \A k \in Writing : Writer(k)
    BY Commands, DataDirConstants DEF Typed, TypeOK, IdentityInv
  <2> DEFINE Goal == Acknowledged' /\ \A k \in Writing' : Writer(k)'
  <2>1. ASSUME NEW j \in Job, NEW r \in Started, Begins(j, r) PROVE Goal
    <3>1. /\ job' = [ k \in Job |-> IF k = j THEN r ELSE job[k] ]
          /\ UNCHANGED <<dir, versions, data, unsynced, mine>>
      BY <2>0, <2>1, BeginsTo DEF Begins, fileVars
    <3>2. Acknowledged'
      BY <2>0, <3>1 DEF Acknowledged
    <3>3. ASSUME NEW k \in Writing', k # j PROVE Writer(k)'
      <4>1. k \in Writing /\ job'[k] = job[k]
        BY <3>1, <3>3 DEF Writing
      <4> QED
        BY <2>0, <3>1, <4>1, WriterStays DEF Writing
    <3>4. ASSUME j \in Writing' PROVE Writer(j)'
      <4>1. job'[j] = r /\ r.cmd \in {"create", "import"} /\ j \notin Holding'
        BY <2>1, <3>1, <3>4 DEF Begins, Holding, Writing
      <4>2. r.at = "open"
        BY <2>1, <4>1 DEF Begins, Started, ChangeJob, IdentityJob, WipeJob
      <4>3. r.cmd = "create" => mine = None
        <5>1. r.cmd = "create" => dir["identity"] = Absent \/ data[dir["identity"]] = Absent
          BY <2>1 DEF Begins, Content, ContentIn
        <5> QED
          BY <2>0, <5>1, DataDirConstants DEF Acknowledged, Typed
      <4> QED
        BY <3>1, <4>1, <4>2, <4>3 DEF Writer
    <3> QED
      BY <3>2, <3>3, <3>4
  <2>2. ASSUME \A k \in Job : job'[k] \in {job[k], Idle}, mine' = mine, data' = data,
               dir'["identity"] = dir["identity"], unsynced' \subseteq unsynced
        PROVE  Goal
    <3>1. ASSUME NEW k \in Writing' PROVE Writer(k)'
      <4>1. k \in Writing /\ job'[k] = job[k]
        BY <2>2, <3>1 DEF Writing, Idle, Task
      <4> QED
        BY <2>0, <2>2, <4>1, WriterStays DEF Writing
    <3> QED
      BY <2>0, <2>2, <3>1, AcknowledgedStays
  <2>3. ASSUME NEW j \in Job, Replace(j) PROVE Goal
    <3>1. dir'["identity"] = dir["identity"]
      BY <2>0, <2>3, ReplacesAt
    <3>2. \A k \in Job : job'[k] \in {job[k], Idle}
      BY <2>0, <2>3, ReplacesAt, EndsTo
    <3> QED
      BY <2>2, <2>3, <3>1, <3>2, ReplacesAt
  <2>4. ASSUME NEW j \in Job, NEW f \in Name \union {"db"}, Wipes(j, f)
        PROVE  Goal
    <3>1. /\ UNCHANGED <<data, unsynced>> /\ job[j].cmd = "wipe"
          /\ job' = [ k \in Job |-> IF k = j THEN job'[j] ELSE job[k] ]
          /\ job'[j].cmd = "wipe"
      BY <2>4, WipesOne
    <3>2. Writing' = {}
      <4>1. Writing = {}
        BY <2>0, <3>1 DEF Alone, Concerns, Writing
      <4> QED
        BY <3>1, <4>1 DEF Writing
    <3>3. mine' = None \/ (mine' = mine /\ dir'["identity"] = dir["identity"])
      <4>1. \/ dir' = dir /\ mine' = mine
            \/ dir' = DirLess(f) /\ mine' = IF f = "identity" THEN None ELSE mine
        BY <2>4, WipesOne
      <4>2. CASE dir' = DirLess(f) /\ mine' = IF f = "identity" THEN None ELSE mine
        BY <2>0, <4>2 DEF DirLess
      <4> QED
        BY <4>1, <4>2
    <3>4. Acknowledged'
      BY <2>0, <3>1, <3>3, AcknowledgedStays DEF Acknowledged
    <3> QED
      BY <3>2, <3>4
  <2>5. \A j \in Job : Open(j) \/ Write(j) \/ WriteFails(j) \/ Sync(j) => Goal
    BY <2>0, IdentityOpen, IdentityWrite
  <2>6. PowerLoss => Goal
    BY <2>0, IdentityPower
  <2>7. \A j \in Job : Ends(j) => Goal
    BY <2>0, <2>2, EndsTo DEF Ends, fileVars
  <2>8. UseStore \/ LeaveStore \/ Settle \/ UNCHANGED vars => Goal
    BY <2>2 DEF UseStore, LeaveStore, Settle, WriteBack, vars, ctlVars, fileVars
  <2> HIDE DEF Goal
  <2>9. Goal
    BY <2>1, <2>3, <2>4, <2>5, <2>6, <2>7, <2>8, StepCases
  <2> QED
    BY <2>9 DEF Goal
<1> QED
  BY <1>1, <1>2, TypedHolds, AloneHolds, ApartHolds, PTL DEF Spec

(* An identity reported as written (commands/identity.rs) is whole under   *)
(* its name until an import, a wipe or a loss of power that takes the      *)
(* directory's entry back, unless two commands were at it together.        *)
THEOREM AcknowledgedIdentityHolds == Spec => []AcknowledgedIdentity
<1>1. IdentityInv => AcknowledgedIdentity
  BY DEF IdentityInv, Acknowledged, AcknowledgedIdentity, Content, ContentIn
<1> QED
  BY <1>1, IdentityHolds, PTL

-----------------------------------------------------------------------------
(* The key store as a map.                                                 *)

(* What a loss of power may bring back.                                    *)
Past == { KeysIn(d) : d \in versions }

(* What the key store may come back with after a step, directory by        *)
(* directory.                                                              *)
LEMMA PastIs ==
    /\ Loaded' \in Past' <=> \E d \in versions' : Loaded' = KeysIn(d)'
    /\ \A m : m \in Past' <=> \E d \in versions' : m = KeysIn(d)'
    /\ \A d : d = dir' => KeysIn(d)' = Loaded'
<1>1. \A m : m \in Past' <=> \E d \in versions' : m = KeysIn(d)'
  BY DEF Past
<1>2. \A d : d = dir' => KeysIn(d)' = Loaded'
  BY DEF KeysIn, Loaded, ContentIn
<1> QED
  BY <1>1, <1>2

(* A step that changes the directory adds what it holds to what may come   *)
(* back.                                                                   *)
LEMMA PastGrows ==
    ASSUME versions' = versions \union {dir'}, \A d \in versions : KeysIn(d)' = KeysIn(d)
    PROVE  Past' = Past \union {Loaded'}
<1>1. ASSUME NEW m PROVE m \in Past' <=> m \in Past \/ m = Loaded'
  <2>1. m \in Past' => m \in Past \/ m = Loaded'
    BY PastIs DEF Past
  <2>2. m \in Past => m \in Past'
    BY PastIs DEF Past
  <2>3. \E d \in versions' : d = dir'
    OBVIOUS
  <2>4. m = Loaded' => m \in Past'
    BY <2>3, PastIs
  <2> QED
    BY <2>1, <2>2, <2>4
<1> QED
  BY <1>1

(* Once the directory is on disk, nothing else may come back.              *)
LEMMA PastShrinks ==
    ASSUME versions' = {dir'}
    PROVE  Past' = {Loaded'}
<1>1. ASSUME NEW m PROVE m \in Past' <=> m = Loaded'
  <2>1. \E d \in versions' : d = dir'
    OBVIOUS
  <2> QED
    BY <2>1, PastIs
<1> QED
  BY <1>1

(* As long as no two changes of it have overlapped, every step of the      *)
(* directory is a step of the key map or none at all: a change happens at  *)
(* its rename, all at once, and a loss of power may bring back an earlier  *)
(* store (keystore.rs flush).                                              *)
THEOREM DataDirImplementsKeyMap == Spec => ImplementsKeyMap
<1> DEFINE Mapped == <<KeysIn(dir), { KeysIn(d) : d \in versions }, "keys" \in clash>>
<1>1. Init => Abstract!Init
  <2> SUFFICES ASSUME Init PROVE Abstract!Init
    OBVIOUS
  <2>1. versions = {dir} /\ dir["keys"] = Absent /\ clash = {}
    BY DataDirConstants DEF Init, InitFiles
  <2>2. KeysIn(dir) = {}
    BY <2>1, KeysInIs
  <2> QED
    BY <2>1, <2>2 DEF Abstract!Init
<1>2. Typed /\ Alone /\ Apart /\ KeysInv /\ [Next]_vars => [Abstract!Next]_Mapped
  <2> SUFFICES ASSUME Typed, Alone, Apart, KeysInv, [Next]_vars
               PROVE  Abstract!Next \/ UNCHANGED Mapped
    OBVIOUS
  <2> DEFINE Goal == Abstract!Next \/ UNCHANGED Mapped
  <2>a. CASE "keys" \in clash'
    BY <2>a DEF Abstract!Next
  <2>b. CASE "keys" \notin clash'
    <3>0. "keys" \notin clash /\ dir \in versions /\ KeysWhole
      BY <2>b, Commands DEF Typed, TypeOK, KeysInv
    <3>a. Loaded = KeysIn(dir) /\ Loaded \in Past
      BY <3>0 DEF Loaded, Past
    <3>b. Loaded' = Loaded /\ Past' = Past => Goal
      BY <2>b, <3>0 DEF Loaded, Past
    <3>c. Past' = Past \union {Loaded'} /\ Loaded' = {} => Goal
      BY DEF Loaded, Past, Abstract!Next, Abstract!Wiped, Abstract!Change
    <3>d. ASSUME NEW key \in Key, Loaded' \in {Loaded \union {key}, Loaded \ {key}},
                 Past' = Past \union {Loaded'}
          PROVE  Goal
      BY <3>d DEF Loaded, Past, Abstract!Next, Abstract!Store, Abstract!Delete, Abstract!Change
    <3>e. Loaded' \in Past /\ Past' = {Loaded'} => Goal
      BY DEF Loaded, Past, Abstract!Next, Abstract!GoBack
    <3>f. Loaded' = Loaded /\ Past' = {Loaded} => Goal
      BY DEF Loaded, Past, Abstract!Next, Abstract!Settled
    <3> HIDE DEF Goal
    <3>1. UNCHANGED fileVars => Goal
      <4>1. UNCHANGED fileVars => Loaded' = Loaded /\ Past' = Past
        BY DEF fileVars, Loaded, Past, KeysIn, ContentIn
      <4> QED
        BY <3>b, <4>1
    <3>2. Elsewhere => Goal
      <4>1. Elsewhere => Loaded' = Loaded /\ Past' = Past
        BY <3>0, <3>a, ElsewhereKeeps, PastGrows DEF Elsewhere
      <4> QED
        BY <3>b, <4>1
    <3>3. ASSUME NEW j \in Job, Replace(j) PROVE Goal
      <4>1. versions' = versions \union {dir'} /\ data' = data
        BY <3>0, <3>3, KeysReplace
      <4>2. \A d \in versions : KeysIn(d)' = KeysIn(d)
        BY <4>1 DEF KeysIn, ContentIn
      <4>3. \E key \in Key : Loaded' \in {Loaded \union {key}, Loaded \ {key}}
        BY <3>0, <3>3, KeysReplace
      <4> QED
        BY <3>d, <4>1, <4>2, <4>3, PastGrows
    <3>4. ASSUME NEW j \in Job, NEW f \in Name \union {"db"}, Wipes(j, f) PROVE Goal
      <4>1. /\ versions' = versions \union {dir'} /\ data' = data
            /\ dir'["keys"] \in {dir["keys"], Absent}
        BY <3>0, <3>4, KeysWipe
      <4>2. \A d \in versions : KeysIn(d)' = KeysIn(d)
        BY <4>1 DEF KeysIn, ContentIn
      <4>3. Past' = Past \union {Loaded'}
        BY <4>1, <4>2, PastGrows
      <4>4. CASE dir'["keys"] = dir["keys"]
        <5>1. Loaded' = Loaded
          BY <4>1, <4>4 DEF Loaded, KeysIn, ContentIn
        <5> QED
          BY <3>a, <3>b, <4>3, <5>1
      <4>5. CASE dir'["keys"] = Absent
        BY <3>c, <4>3, <4>5, LoadedIsNext
      <4> QED
        BY <4>1, <4>4, <4>5
    <3>5. ASSUME PowerLoss PROVE Goal
      <4>1. /\ dir' \in versions /\ versions' = {dir'}
            /\ dir'["keys"] # Absent => /\ data'[dir'["keys"]] = data[dir'["keys"]]
                                        /\ data[dir'["keys"]] \in EncryptedMap
        BY <3>0, <3>5, KeysPower
      <4>2. PICK d \in versions : d = dir'
        BY <4>1
      <4>3. Loaded' = KeysIn(d)
        BY <4>1, <4>2, KeysInIs, LoadedIsNext
      <4>4. Loaded' \in Past
        BY <4>2, <4>3 DEF Past
      <4> QED
        BY <3>e, <4>1, <4>4, PastShrinks
    <3>6. ASSUME Settle PROVE Goal
      <4>1. versions' = {dir'} /\ UNCHANGED <<dir, data>>
        BY <3>6 DEF Settle, WriteBack
      <4>2. Loaded' = Loaded
        BY <4>1 DEF Loaded, KeysIn, ContentIn
      <4> QED
        BY <3>f, <4>1, <4>2, PastShrinks
    <3>7. \A j \in Job : Open(j) \/ Write(j) \/ WriteFails(j) \/ Sync(j) => Elsewhere
      BY <3>0, KeysOpen, KeysWrite
    <3>8. /\ \A j \in Job, r \in Started : Begins(j, r) => UNCHANGED fileVars
          /\ \A j \in Job : Ends(j) => UNCHANGED fileVars
          /\ UseStore \/ LeaveStore \/ UNCHANGED vars => UNCHANGED fileVars
      BY DEF Begins, Ends, UseStore, LeaveStore, vars, fileVars
    <3>9. Goal
      BY <3>1, <3>2, <3>3, <3>4, <3>5, <3>6, <3>7, <3>8, StepCases
    <3> QED
      BY <3>9 DEF Goal
  <2> QED
    BY <2>a, <2>b
<1> QED
  BY <1>1, <1>2, TypedHolds, AloneHolds, ApartHolds, KeysHolds, PTL
     DEF Spec, ImplementsKeyMap, Abstract!Spec
=============================================================================

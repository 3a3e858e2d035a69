---------------------------- MODULE SqliteStore ----------------------------
(***************************************************************************)
(* SqliteStore (storage/sqlite.rs): one connection, whose mutex each       *)
(* method holds from beginning to end.  Outside a transaction a statement  *)
(* is a transaction of its own; wipe opens one, and returns from a failing *)
(* statement without closing it.                                           *)
(***************************************************************************)
EXTENDS Naturals

CONSTANTS
    EnvelopeId,  \* ids of envelopes
    None

Upserted == {"channels", "kv_store"}    \* tables with INSERT OR REPLACE
Table == {"envelopes"} \union Upserted
Row == [ envelopes : [EnvelopeId -> {"absent", "waiting", "delivered"}], filled : SUBSET Upserted ]
Empty == [ envelopes |-> [ e \in EnvelopeId |-> "absent" ], filled |-> {} ]

ASSUME NoneIsNoRow == None \notin Row

VARIABLES
    db,         \* what the file holds that aegis.db names, or None
    dbPast,     \* what it may hold after a loss of power
    conn,       \* the connection: what its file holds, its open transaction,
                \* and whether aegis.db still names that file
    told        \* history: what the calls since the connection was opened
                \* may amount to, going by what they returned; a wipe that
                \* returned Err may have been done or not

sqlVars == <<db, dbPast, conn, told>>

InitStore == db = None /\ dbPast = {None} /\ conn = None /\ told = {}

(* What a statement sees.                                                  *)
View == IF conn.tx = None THEN conn.file ELSE conn.tx

SetDb(content) == db' = content /\ dbPast' = dbPast \union {content}

(* A statement leaves content: committed, or in the open transaction.      *)
Execute(content) ==
    IF conn.tx # None
    THEN conn' = [ conn EXCEPT !.tx = content ] /\ UNCHANGED <<db, dbPast>>
    ELSE /\ conn' = [ conn EXCEPT !.file = content ]
         /\ IF conn.linked THEN SetDb(content) ELSE UNCHANGED <<db, dbPast>>

(* A call that returns Ok after op.                                        *)
Call(op(_)) == conn # None /\ Execute(op(View)) /\ told' = { op(c) : c \in told }

(* SqliteStore::open, with CREATE TABLE IF NOT EXISTS.                     *)
OpenStore ==
    LET content == IF db = None THEN Empty ELSE db IN
    /\ conn = None
    /\ conn' = [ file |-> content, tx |-> None, linked |-> TRUE ]
    /\ SetDb(content)
    /\ told' = {content}

(* A slip: INSERT OR REPLACE, with delivered = 0.                          *)
StoreEnvelopeReplaces(e) == Call(LAMBDA c : [ c EXCEPT !.envelopes[e] = "waiting" ])

(* INSERT OR IGNORE.                                                       *)
StoreEnvelope(e) ==
    Call(LAMBDA c : [ c EXCEPT !.envelopes[e] = IF @ = "absent" THEN "waiting" ELSE @ ])

MarkDelivered(e) ==
    Call(LAMBDA c : [ c EXCEPT !.envelopes[e] = IF @ = "waiting" THEN "delivered" ELSE @ ])

(* store_channel and kv_set.                                               *)
Upsert(t) == Call(LAMBDA c : [ c EXCEPT !.filled = @ \union {t} ])

KvDelete == Call(LAMBDA c : [ c EXCEPT !.filled = @ \ {"kv_store"} ])

(* The rows left when wipe has deleted from these tables.                  *)
Without(c, tables) ==
    [ envelopes |-> IF "envelopes" \in tables THEN Empty.envelopes ELSE c.envelopes,
      filled |-> c.filled \ tables ]

(* wipe, all of it.  In a transaction left open, BEGIN fails and nothing   *)
(* happens.                                                                *)
Wipe ==
    /\ conn # None /\ conn.tx = None
    /\ Call(LAMBDA c : Empty)

(* wipe returns Err.                                                       *)
WipeReportsError == told' = told \union {Empty}

(* VACUUM fails after COMMIT.                                              *)
VacuumFails ==
    /\ conn # None /\ conn.tx = None
    /\ Execute(Empty)
    /\ WipeReportsError

Deleted == { {}, {"envelopes"}, {"envelopes", "channels"}, Table }

(* A slip: without BEGIN.                                                  *)
WipeFailsUnguarded(tables) ==
    /\ conn # None /\ conn.tx = None
    /\ Execute(Without(conn.file, tables))
    /\ WipeReportsError

(* wipe returns at a failing DELETE or COMMIT.  SQLite itself rolls back   *)
(* after some errors, and nothing has happened; otherwise the transaction  *)
(* stays open.                                                             *)
WipeFails(tables) ==
    /\ conn # None /\ conn.tx = None
    /\ conn' = [ conn EXCEPT !.tx = Without(conn.file, tables) ]
    /\ WipeReportsError
    /\ UNCHANGED <<db, dbPast>>

(* The process ends, and an open transaction with it.                      *)
CloseStore ==
    /\ conn # None
    /\ conn' = None /\ told' = {}
    /\ UNCHANGED <<db, dbPast>>

(* `aegis wipe` removes the file; a connection keeps using it.             *)
UnlinkStore ==
    /\ SetDb(None)
    /\ conn' = IF conn = None THEN None ELSE [ conn EXCEPT !.linked = FALSE ]
    /\ UNCHANGED told

(* synchronous = NORMAL: the last commits may go.                          *)
LoseCommits ==
    /\ db' \in dbPast /\ dbPast' = {db'}
    /\ conn' = None /\ told' = {}

SettleCommits == dbPast' = {db} /\ UNCHANGED <<db, conn, told>>

=============================================================================

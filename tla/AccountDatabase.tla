-------------------------- MODULE AccountDatabase ---------------------------
(***************************************************************************)
(* The account database (crates/storage-sqlite), in two parts that share   *)
(* no state: the connection its threads share, and the migrations its      *)
(* openers run.                                                            *)
(***************************************************************************)
EXTENDS Naturals, Sequences

(***************************************************************************)
(* The connection of an account database shared by the threads of a        *)
(* process (crates/storage-sqlite/src/connection.rs).  A statement takes   *)
(* the connection's mutex for its own duration; a transaction takes it     *)
(* anew for BEGIN, for every statement and for COMMIT, and keeps the other *)
(* threads out by transaction_owner, guarded by a second mutex and         *)
(* announced by a condition variable.  No thread asks for the connection   *)
(* while it holds the mutex of the owner, so a section under that mutex is *)
(* one step here.  Another process may hold the database's write lock, and *)
(* COMMIT and ROLLBACK may fail.                                           *)
(***************************************************************************)

CONSTANTS
    ScThreads,
    ScOps,     \* bound: operations a thread starts
    ScBody,    \* bound: statements and nested calls of a callback
    ScTries,   \* BUSY_MAX_ATTEMPTS
    NoThread

ASSUME ScAssumption ==
    /\ NoThread \notin ScThreads
    /\ ScOps \in Nat /\ ScBody \in Nat /\ ScTries \in Nat \ {0}

VARIABLES
    scPc,       \* thread -> where it stands
    scInside,   \* thread -> it runs the callback of its own transaction
    scLeft,     \* thread -> operations it may still start
    scTried,    \* thread -> failed attempts to begin
    scWrote,    \* thread -> statements of its transaction so far
    scAnswer,   \* thread -> what its last operation returned
    scConn,     \* holder of the connection's mutex
    scOwner,    \* transaction_owner
    scUnusable, \* transaction_unusable
    scOpen,     \* the thread whose SQL transaction is open on the connection
    scPending,  \* statements of the open transaction
    scDb        \* statements in effect: <<thread, operation, statement>>

scVars == <<scPc, scInside, scLeft, scTried, scWrote, scAnswer, scConn, scOwner, scUnusable,
            scOpen, scPending, scDb>>

Goes(t, to) == scPc' = [scPc EXCEPT ![t] = to]

\* Every waiter looks again (notify_all).
GoesNotifying(t, to) ==
    scPc' = [u \in ScThreads |-> IF u = t THEN to
                                 ELSE IF scPc[u] = "slotWait" THEN "lock"
                                 ELSE IF scPc[u] = "txWait" THEN "enter"
                                 ELSE scPc[u]]
Foreign(t) == scOwner \notin {NoThread, t}
Returns(t, answer) ==
    /\ Goes(t, IF scInside[t] THEN "body" ELSE "idle")
    /\ scAnswer' = [scAnswer EXCEPT ![t] = answer]

\* ---------------------------------------------------------------- statements

StartStatement(t) ==
    /\ scPc[t] = "idle" /\ scLeft[t] > 0
    /\ scLeft' = [scLeft EXCEPT ![t] = @ - 1]
    /\ scWrote' = [scWrote EXCEPT ![t] = 0]
    /\ Goes(t, "lock")
    /\ UNCHANGED <<scInside, scTried, scAnswer, scConn, scOwner, scUnusable, scOpen, scPending, scDb>>

\* wait_for_transaction_slot
WaitForSlot(t) ==
    /\ scPc[t] = "lock"
    /\ IF scUnusable THEN Returns(t, "failed")
       ELSE Goes(t, IF Foreign(t) THEN "slotWait" ELSE "connWait") /\ UNCHANGED scAnswer
    /\ UNCHANGED <<scInside, scLeft, scTried, scWrote, scConn, scOwner, scUnusable, scOpen, scPending, scDb>>

TakeConnection(t) ==
    /\ scPc[t] = "connWait" /\ scConn = NoThread
    /\ scConn' = t
    /\ Goes(t, "recheck")
    /\ UNCHANGED <<scInside, scLeft, scTried, scWrote, scAnswer, scOwner, scUnusable, scOpen, scPending, scDb>>

\* Seeded bug: the owner is not looked at again once the connection is taken.
NoLongerForeign(t) == FALSE

\* The owner may have changed while the thread waited for the connection.
StillForeign(t) == Foreign(t)

Recheck(t) ==
    /\ scPc[t] = "recheck"
    /\ \/ scUnusable /\ Returns(t, "failed") /\ scConn' = NoThread
       \/ ~scUnusable /\ StillForeign(t) /\ Goes(t, "lock") /\ scConn' = NoThread /\ UNCHANGED scAnswer
       \/ ~scUnusable /\ ~StillForeign(t) /\ Goes(t, "using") /\ UNCHANGED <<scConn, scAnswer>>
    /\ UNCHANGED <<scInside, scLeft, scTried, scWrote, scOwner, scUnusable, scOpen, scPending, scDb>>

\* What a statement writes is the connection's: it belongs to whatever transaction is open.
Statement(t) == <<t, scLeft[t], scWrote[t]>>
Execute(t) ==
    /\ scPc[t] = "using"
    /\ IF scOpen = NoThread
       THEN scDb' = scDb \cup {Statement(t)} /\ UNCHANGED scPending
       ELSE scPending' = scPending \cup {Statement(t)} /\ UNCHANGED scDb
    /\ scConn' = NoThread
    /\ scWrote' = [scWrote EXCEPT ![t] = @ + 1]
    /\ Returns(t, "done")
    /\ UNCHANGED <<scInside, scLeft, scTried, scOwner, scUnusable, scOpen>>

\* -------------------------------------------------------------- transactions

StartTransaction(t) ==
    /\ scPc[t] = "idle" /\ scLeft[t] > 0
    /\ scLeft' = [scLeft EXCEPT ![t] = @ - 1]
    /\ scWrote' = [scWrote EXCEPT ![t] = 0]
    /\ Goes(t, "enter")
    /\ UNCHANGED <<scInside, scTried, scAnswer, scConn, scOwner, scUnusable, scOpen, scPending, scDb>>

\* The head of with_transaction; a nested call runs its callback in the outer one.
Enter(t) ==
    /\ scPc[t] = "enter"
    /\ \/ scUnusable /\ Returns(t, "failed") /\ UNCHANGED <<scOwner, scTried>>
       \/ ~scUnusable /\ Foreign(t) /\ Goes(t, "txWait") /\ UNCHANGED <<scOwner, scTried, scAnswer>>
       \/ ~scUnusable /\ scOwner = t /\ Goes(t, "body") /\ UNCHANGED <<scOwner, scTried, scAnswer>>
       \/ /\ ~scUnusable /\ scOwner = NoThread
          /\ scOwner' = t
          /\ scTried' = [scTried EXCEPT ![t] = 0]
          /\ Goes(t, "begin")
          /\ UNCHANGED scAnswer
    /\ UNCHANGED <<scInside, scLeft, scWrote, scConn, scUnusable, scOpen, scPending, scDb>>

\* begin_immediate_with_retry, while another process may hold the write lock.
Begin(t, busy) ==
    /\ scPc[t] = "begin" /\ scConn = NoThread
    /\ IF busy
       THEN /\ scTried' = [scTried EXCEPT ![t] = @ + 1]
            /\ Goes(t, IF scTried[t] + 1 < ScTries THEN "begin" ELSE "giveUp")
            /\ UNCHANGED <<scOpen, scInside>>
       ELSE /\ scOpen' = t
            /\ scInside' = [scInside EXCEPT ![t] = TRUE]
            /\ Goes(t, "body")
            /\ UNCHANGED scTried
    /\ UNCHANGED <<scLeft, scWrote, scAnswer, scConn, scOwner, scUnusable, scPending, scDb>>

\* The callback of the transaction: statements, nested transactions, then its result.
BodyStatement(t) ==
    /\ scPc[t] = "body" /\ scWrote[t] < ScBody
    /\ \E to \in {"lock", "enter"} : Goes(t, to)
    /\ scWrote' = [scWrote EXCEPT ![t] = IF scPc'[t] = "enter" THEN @ + 1 ELSE @]
    /\ UNCHANGED <<scInside, scLeft, scTried, scAnswer, scConn, scOwner, scUnusable, scOpen, scPending, scDb>>
BodyEnds(t, ok) ==
    /\ scPc[t] = "body"
    /\ scInside' = [scInside EXCEPT ![t] = FALSE]
    /\ Goes(t, IF ok THEN "commit" ELSE "rollback")
    /\ UNCHANGED <<scLeft, scTried, scWrote, scAnswer, scConn, scOwner, scUnusable, scOpen, scPending, scDb>>

\* execute_transaction_boundary("COMMIT"); a failed commit is rolled back.
Commit(t, ok) ==
    /\ scPc[t] = "commit" /\ scConn = NoThread
    /\ IF ok THEN /\ scDb' = scDb \cup scPending /\ scPending' = {} /\ scOpen' = NoThread
                  /\ Goes(t, "committed")
       ELSE Goes(t, "rollback") /\ UNCHANGED <<scDb, scPending, scOpen>>
    /\ UNCHANGED <<scInside, scLeft, scTried, scWrote, scAnswer, scConn, scOwner, scUnusable>>
Rollback(t, ok) ==
    /\ scPc[t] = "rollback" /\ scConn = NoThread
    /\ IF ok THEN scPending' = {} /\ scOpen' = NoThread /\ Goes(t, "giveUp")
       ELSE Goes(t, "spoil") /\ UNCHANGED <<scPending, scOpen>>
    /\ UNCHANGED <<scInside, scLeft, scTried, scWrote, scAnswer, scConn, scOwner, scUnusable, scDb>>

\* Seeded bug: the owner is cleared and nobody is told.
ClearQuietly(t, to) == Goes(t, to) /\ scOwner' = NoThread

\* clear_transaction_owner
ClearOwner(t, to) == GoesNotifying(t, to) /\ scOwner' = NoThread

Leave(t) ==
    /\ scPc[t] \in {"committed", "giveUp"}
    /\ ClearOwner(t, "idle")
    /\ scAnswer' = [scAnswer EXCEPT ![t] = IF scPc[t] = "committed" THEN "done" ELSE "failed"]
    /\ UNCHANGED <<scInside, scLeft, scTried, scWrote, scConn, scUnusable, scOpen, scPending, scDb>>

\* Seeded bug: the owner is cleared although the SQL transaction is still open.
SpoilForgets(t) == scOwner' = NoThread /\ UNCHANGED scUnusable

\* mark_transaction_unusable
MarkUnusable(t) == scOwner' = NoThread /\ scUnusable' = TRUE
Spoil(t) ==
    /\ scPc[t] = "spoil"
    /\ MarkUnusable(t)
    /\ GoesNotifying(t, "idle")
    /\ scAnswer' = [scAnswer EXCEPT ![t] = "failed"]
    /\ UNCHANGED <<scInside, scLeft, scTried, scWrote, scConn, scOpen, scPending, scDb>>

ScRuns(t) ==
    \/ WaitForSlot(t) \/ TakeConnection(t) \/ Recheck(t) \/ Execute(t)
    \/ Enter(t) \/ Leave(t) \/ Spoil(t)
    \/ BodyStatement(t)
    \/ \E ok \in BOOLEAN : Begin(t, ~ok) \/ BodyEnds(t, ok) \/ Commit(t, ok) \/ Rollback(t, ok)
ScInit ==
    /\ scPc = [t \in ScThreads |-> "idle"] /\ scInside = [t \in ScThreads |-> FALSE]
    /\ scLeft = [t \in ScThreads |-> ScOps] /\ scTried = [t \in ScThreads |-> 0]
    /\ scWrote = [t \in ScThreads |-> 0] /\ scAnswer = [t \in ScThreads |-> "none"]
    /\ scConn = NoThread /\ scOwner = NoThread /\ scUnusable = FALSE
    /\ scOpen = NoThread /\ scPending = {} /\ scDb = {}
ScNext ==
    \E t \in ScThreads : StartStatement(t) \/ StartTransaction(t) \/ ScRuns(t)
ScSpec == ScInit /\ [][ScNext]_scVars

ScTypeOK ==
    /\ scPc \in [ScThreads -> {"idle", "lock", "slotWait", "connWait", "recheck", "using", "enter", "txWait",
                               "begin", "body", "commit", "rollback", "committed", "giveUp", "spoil"}]
    /\ scInside \in [ScThreads -> BOOLEAN] /\ scUnusable \in BOOLEAN
    /\ scLeft \in [ScThreads -> 0 .. ScOps] /\ scWrote \in [ScThreads -> Nat]
    /\ scTried \in [ScThreads -> 0 .. ScTries]
    /\ scAnswer \in [ScThreads -> {"none", "done", "failed"}]
    /\ {scConn, scOwner, scOpen} \subseteq ScThreads \cup {NoThread}
    /\ scPending \cup scDb \subseteq ScThreads \X (0 .. ScOps) \X Nat

\* --------------------------------------------------------------- properties

(* While a transaction is open no other thread uses the connection, so it neither    *)
(* sees nor joins what may be rolled back, and a connection whose rollback failed is *)
(* used by nobody (lock, mark_transaction_unusable).                                 *)
TransactionsIsolated ==
    /\ \A t \in ScThreads : scPc[t] = "using" => scOpen \in {NoThread, t} /\ ~scUnusable /\ scConn = t
    /\ \A w \in scPending : w[1] = scOpen

(* A transaction takes effect as a whole, and exactly when it says so: of an         *)
(* operation that failed nothing is in effect (with_transaction).                    *)
TransactionsAtomic ==
    \A t \in ScThreads : scPc[t] = "idle" /\ scAnswer[t] = "failed" =>
        \A w \in scDb : w[1] = t => w[2] # scLeft[t]

(* Nobody waits for ever: a waiter waits for a transaction of another thread that is *)
(* still on its way, and who holds the connection waits for nothing, whether         *)
(* transactions end, fail to begin or spoil the connection (clear_transaction_owner).*)
NoWaiterForgotten ==
    /\ \A t \in ScThreads : scPc[t] \in {"slotWait", "txWait"} =>
         scOwner \notin {NoThread, t} /\ scPc[scOwner] \notin {"idle", "slotWait", "txWait"}
    /\ scConn # NoThread => scPc[scConn] \in {"recheck", "using"}

-----------------------------------------------------------------------------
(***************************************************************************)
(* Opening an account database (crates/storage-sqlite/src/migrations.rs).  *)
(* Several processes, of an older or the current build, may open one file  *)
(* at a time; each looks at the applied versions one by one outside of any *)
(* transaction and applies the missing ones, a transaction each.  A        *)
(* process may crash, or an apply fail, between any two transactions.  An  *)
(* early build gave version 9 to a migration that is number 11 by now.     *)
(***************************************************************************)

CONSTANTS
    MgOpeners,  \* processes
    MgPlans,    \* opener -> its build's migrations: [version, name, adds, guarded]
    MgStarts,   \* what may be found on disk: [applied, columns]
    MgRenamed,  \* the legacy migration: [version, legacy, name, adds]
    MgFaults    \* bound: crashes and failed transactions

VARIABLES
    mgApplied,  \* cgka_schema_migrations: version -> name
    mgColumns,  \* what the schema has
    mgPc,       \* opener -> where it stands
    mgAt,       \* opener -> index of the migration it looks at
    mgSaw,      \* opener -> the name it read of the version it looks at
    mgTwice,    \* a version was applied when it was there
    mgFaults
mgVars == <<mgApplied, mgColumns, mgPc, mgAt, mgSaw, mgTwice, mgFaults>>

Plan(p) == MgPlans[p]
Latest(p) == IF Plan(p) = <<>> THEN 0 ELSE Plan(p)[Len(Plan(p))].version
AppliedName(v) == IF v \in DOMAIN mgApplied THEN mgApplied[v] ELSE "none"
Moves(p, to) == mgPc' = [mgPc EXCEPT ![p] = to]

\* run: the migration table is made if it is missing.
OpenFile(p) ==
    /\ mgPc[p] = "closed"
    /\ Moves(p, "reconcile")
    /\ UNCHANGED <<mgApplied, mgColumns, mgAt, mgSaw, mgTwice, mgFaults>>

\* Seeded bug: the name is corrected, the columns it stands for are not added.
RenamedOnly(columns) == columns

\* add_column_if_missing
WithRenamed(columns) == columns \cup MgRenamed.adds

\* reconcile_legacy_migration_names, one transaction.
Reconcile(p) ==
    /\ mgPc[p] = "reconcile"
    /\ IF /\ \E i \in DOMAIN Plan(p) : Plan(p)[i].version = MgRenamed.version /\ Plan(p)[i].name = MgRenamed.name
          /\ AppliedName(MgRenamed.version) = MgRenamed.legacy
       THEN /\ mgColumns' = WithRenamed(mgColumns)
            /\ mgApplied' = [mgApplied EXCEPT ![MgRenamed.version] = MgRenamed.name]
       ELSE UNCHANGED <<mgColumns, mgApplied>>
    /\ Moves(p, "reject")
    /\ UNCHANGED <<mgAt, mgSaw, mgTwice, mgFaults>>

UnknownFuture(p) == \E v \in DOMAIN mgApplied : v > Latest(p)

\* reject_unknown_future_migrations
Reject(p) ==
    /\ mgPc[p] = "reject"
    /\ Moves(p, IF UnknownFuture(p) THEN "failed" ELSE "loop")
    /\ mgAt' = [mgAt EXCEPT ![p] = 1]
    /\ UNCHANGED <<mgApplied, mgColumns, mgSaw, mgTwice, mgFaults>>

\* applied_name of the next migration; it is as expected, foreign, or missing.
Look(p) ==
    /\ mgPc[p] = "loop" /\ mgSaw[p] = "unread"
    /\ IF mgAt[p] > Len(Plan(p)) THEN Moves(p, "open") /\ UNCHANGED <<mgAt, mgSaw>>
       ELSE LET m == Plan(p)[mgAt[p]]
            IN  \/ /\ AppliedName(m.version) = m.name
                   /\ mgAt' = [mgAt EXCEPT ![p] = @ + 1] /\ UNCHANGED <<mgPc, mgSaw>>
                \/ AppliedName(m.version) \notin {m.name, "none"} /\ Moves(p, "failed") /\ UNCHANGED <<mgAt, mgSaw>>
                \/ /\ AppliedName(m.version) = "none"
                   /\ mgSaw' = [mgSaw EXCEPT ![p] = "none"] /\ UNCHANGED <<mgPc, mgAt>>
    /\ UNCHANGED <<mgApplied, mgColumns, mgTwice, mgFaults>>

\* Seeded bug: the version is recorded by an upsert.
AlwaysFits(m) == TRUE

\* Adding a column that is there fails unless the migration looks first, and the
\* version is the primary key of its row.
Fits(m) == (m.guarded \/ m.adds \cap mgColumns = {}) /\ m.version \notin DOMAIN mgApplied

\* apply_migration: the change and its row, one transaction.
Apply(p) ==
    /\ mgPc[p] = "loop" /\ mgSaw[p] = "none"
    /\ LET m == Plan(p)[mgAt[p]]
       IN  IF Fits(m)
           THEN /\ mgColumns' = mgColumns \cup m.adds
                /\ mgApplied' = [v \in DOMAIN mgApplied \cup {m.version} |->
                                   IF v = m.version THEN m.name ELSE mgApplied[v]]
                /\ mgTwice' = (mgTwice \/ m.version \in DOMAIN mgApplied)
                /\ mgAt' = [mgAt EXCEPT ![p] = @ + 1]
                /\ UNCHANGED mgPc
           ELSE Moves(p, "failed") /\ UNCHANGED <<mgColumns, mgApplied, mgTwice, mgAt>>
    /\ mgSaw' = [mgSaw EXCEPT ![p] = "unread"]
    /\ UNCHANGED mgFaults

\* A crash, or a transaction that fails for any other reason; the file is opened again.
Fault(p) ==
    /\ mgFaults > 0 /\ mgPc[p] \notin {"closed", "open"}
    /\ mgFaults' = mgFaults - 1
    /\ Moves(p, "closed") /\ mgSaw' = [mgSaw EXCEPT ![p] = "unread"]
    /\ UNCHANGED <<mgApplied, mgColumns, mgAt, mgTwice>>
Reopen(p) ==
    /\ mgPc[p] = "failed" /\ mgFaults > 0
    /\ mgFaults' = mgFaults - 1
    /\ Moves(p, "closed")
    /\ UNCHANGED <<mgApplied, mgColumns, mgAt, mgSaw, mgTwice>>

MgInit ==
    /\ \E s \in MgStarts : mgApplied = s.applied /\ mgColumns = s.columns
    /\ mgPc = [p \in MgOpeners |-> "closed"] /\ mgSaw = [p \in MgOpeners |-> "unread"]
    /\ mgAt = [p \in MgOpeners |-> 1] /\ mgTwice = FALSE /\ mgFaults = MgFaults
MgNext ==
    \E p \in MgOpeners :
        OpenFile(p) \/ Reconcile(p) \/ Reject(p) \/ Look(p) \/ Apply(p) \/ Fault(p) \/ Reopen(p)

MgTypeOK ==
    /\ mgPc \in [MgOpeners -> {"closed", "reconcile", "reject", "loop", "open", "failed"}]
    /\ \A p \in MgOpeners : mgAt[p] \in 1 .. Len(Plan(p)) + 1
    /\ mgSaw \in [MgOpeners -> {"unread", "none"}]
    /\ mgFaults \in 0 .. MgFaults /\ mgTwice \in BOOLEAN

\* --------------------------------------------------------------- properties

(* A database that opened has every change its build expects, under the name it      *)
(* expects, whatever the file held, however often the opening was cut short and      *)
(* whoever else opened it meanwhile (run).                                           *)
OpenedMigrated ==
    \A p \in MgOpeners : mgPc[p] = "open" =>
        \A i \in DOMAIN Plan(p) :
            LET m == Plan(p)[i] IN AppliedName(m.version) = m.name /\ m.adds \subseteq mgColumns

(* No change is made twice, and none before the ones it builds on                    *)
(* (apply_migration, ensure_ordered).                                                *)
AppliedInOrder ==
    /\ ~mgTwice
    /\ \A p \in MgOpeners : \A i, j \in DOMAIN Plan(p) :
         i < j /\ Plan(p)[j].version \in DOMAIN mgApplied => Plan(p)[i].version \in DOMAIN mgApplied

=============================================================================

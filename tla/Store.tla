-------------------------------- MODULE Store --------------------------------
(***************************************************************************)
(* The write transaction of the store and the audit log kept in it:        *)
(* src/engine/store/database.py and src/engine/response/audit.py.          *)
(*                                                                         *)
(* One connection serves every task.  A statement is queued for the        *)
(* connection's thread and awaited; a task that is cancelled while it      *)
(* waits goes on with its clean-up, and its statement runs all the same.   *)
(*                                                                         *)
(* The delivery of actions, recoveries and offset resets append their      *)
(* entry within the transaction of the change (commit=False); most routes  *)
(* commit the change first and append in a transaction of their own.       *)
(***************************************************************************)
EXTENDS Naturals, Sequences

CONSTANTS
  Operations,  \* writes: each changes a table and records it in the audit log
  Doubles,     \* of these, the ones that record two decisions
  Apart,       \* of these, the ones that record it in a second transaction
  MaxCuts,     \* bound: cancellations and crashes
  Nobody       \* no operation

ASSUME StoreAssumption ==
  /\ Doubles \subseteq Operations /\ Apart \subseteq Operations \ Doubles
  /\ Nobody \notin Operations

VARIABLES
  job,       \* what an operation waits for: a statement, or the lock for its
             \* first ("new") or second transaction ("between")
  owner,     \* _write_lock
  line,      \* statements queued for the connection's thread
  opened,    \* a transaction is open
  tables,    \* what the connection sees: changes made, entries of the log
  disk,      \* what is committed
  looked,    \* the hash an operation has read for its next entry
  beginCut,  \* a task was cancelled while it waited for BEGIN (a ghost)
  cuts       \* what MaxCuts counts

storeVars == <<job, owner, line, opened, tables, disk, looked, beginCut, cuts>>

Body == {"change", "look", "insert"}
Awaited == Body \cup {"begin", "commit", "rollback"}

\* Entries stand for their hashes; <<>> is GENESIS.
Genesis == <<>>
LastCommitted(log) == IF disk.log = <<>> THEN Genesis ELSE disk.log[Len(disk.log)].entry
LastHash(log) == IF log = <<>> THEN Genesis ELSE log[Len(log)].entry
Written(log) == {log[i].entry : i \in DOMAIN log}
Wanted(o) == IF o \in Doubles THEN {<<o, 1>>, <<o, 2>>} ELSE {<<o, 1>>}

\* await conn.execute(...)
Submit(queue, o, kind) ==
  /\ job' = [job EXCEPT ![o] = kind]
  /\ line' = Append(queue, [kind |-> kind, by |-> o])
  /\ UNCHANGED owner

Release(queue, o, end) ==
  /\ job' = [job EXCEPT ![o] = end]
  /\ line' = queue
  /\ owner' = Nobody

\* Database.transaction: the lock, then BEGIN IMMEDIATE.
Acquire(o) ==
  /\ job[o] \in {"new", "between"} /\ owner = Nobody
  /\ owner' = o
  /\ job' = [job EXCEPT ![o] = "begin"]
  /\ line' = Append(line, [kind |-> "begin", by |-> o])
  /\ UNCHANGED <<opened, tables, disk, looked, beginCut, cuts>>

\* The thread runs a statement.
Entry(o) == IF <<o, 1>> \in Written(tables.log) THEN <<o, 2>> ELSE <<o, 1>>
Execute(s) ==
  /\ opened' = (s.kind \notin {"commit", "rollback"} /\ (opened \/ s.kind = "begin"))
  /\ tables' = CASE s.kind = "change" -> [tables EXCEPT !.changes = @ \cup {s.by}]
                 [] s.kind = "insert" ->
                      [tables EXCEPT !.log = Append(@, [entry |-> Entry(s.by),
                                                        prev |-> looked[s.by]])]
                 [] s.kind = "rollback" -> disk
                 [] OTHER -> tables
  /\ disk' = IF s.kind = "commit" THEN tables ELSE disk
  /\ looked' = IF s.kind = "look" THEN [looked EXCEPT ![s.by] = LastHash(tables.log)]
               ELSE looked

\* What the body of a transaction does next, or its error.  A write that is
\* recorded apart comes twice: to change its table, then to append its entry.
AfterError == "rollback"
Following(s) ==
  CASE s.kind = "begin"  -> {IF s.by \in disk.changes THEN "look" ELSE "change"}
    [] s.kind = "change" -> {IF s.by \in Apart THEN "commit" ELSE "look", AfterError}
    [] s.kind = "look"   -> {"insert"}
    [] s.kind = "insert" -> IF Wanted(s.by) \subseteq Written(tables.log) \cup {Entry(s.by)}
                              THEN {"commit", AfterError} ELSE {"look", AfterError}

AfterCommit(o) == IF Wanted(o) \subseteq Written(tables.log) THEN "done" ELSE "between"

\* A task waits for the statement, or was cancelled and does not.  BEGIN
\* inside a transaction is an error, raised outside the handler that rolls back.
Run ==
  LET s == Head(line)  left == Tail(line)
  IN /\ line # <<>>
     /\ Execute(s)
     /\ IF job[s.by] # s.kind THEN line' = left /\ UNCHANGED <<job, owner>>
        ELSE IF s.kind = "begin" /\ opened THEN Release(left, s.by, "failed")
        ELSE IF s.kind = "commit" THEN Release(left, s.by, AfterCommit(s.by))
        ELSE IF s.kind = "rollback" THEN Release(left, s.by, "failed")
        ELSE \E kind \in Following(s) : Submit(left, s.by, kind)
     /\ UNCHANGED <<beginCut, cuts>>

\* A cancelled task (a worker the supervisor replaces, a request at shutdown).
CutBodyReleases(o) == Release(line, o, "failed")
CutBody(o) == Submit(line, o, AfterError)

Cut(o) ==
  /\ job[o] \in Awaited /\ cuts < MaxCuts /\ cuts' = cuts + 1
  /\ IF job[o] \in Body THEN CutBody(o) ELSE Release(line, o, "failed")
  /\ beginCut' = (beginCut \/ job[o] = "begin")
  /\ UNCHANGED <<opened, tables, disk, looked>>

\* Cancelled between its two transactions, while it waits for the lock.
CutBetween(o) ==
  /\ job[o] = "between" /\ cuts < MaxCuts /\ cuts' = cuts + 1
  /\ job' = [job EXCEPT ![o] = "failed"]
  /\ UNCHANGED <<owner, line, opened, tables, disk, looked, beginCut>>

\* The program dies, and opens the store again.
Reopen ==
  /\ cuts < MaxCuts /\ cuts' = cuts + 1
  /\ job' = [o \in Operations |->
               IF job[o] \in Awaited \cup {"between"} THEN "failed" ELSE job[o]]
  /\ owner' = Nobody /\ line' = <<>> /\ opened' = FALSE
  /\ tables' = disk /\ looked' = [o \in Operations |-> Genesis]
  /\ beginCut' = FALSE
  /\ UNCHANGED disk

StoreInit ==
  /\ job = [o \in Operations |-> "new"]
  /\ owner = Nobody /\ line = <<>> /\ opened = FALSE
  /\ tables = [changes |-> {}, log |-> <<>>] /\ disk = tables
  /\ looked = [o \in Operations |-> Genesis]
  /\ beginCut = FALSE /\ cuts = 0

StoreNext ==
  \/ \E o \in Operations : Acquire(o) \/ Cut(o) \/ CutBetween(o)
  \/ Run \/ Reopen

StoreSpec == StoreInit /\ [][StoreNext]_storeVars

----------------------------------------------------------------------------
\* Properties.

\* verify: every entry carries the hash of the one before it.
Verifies(log) ==
  \A i \in DOMAIN log : log[i].prev = IF i = 1 THEN Genesis ELSE log[i - 1].entry

\* The audit log verifies at every moment, for whoever reads it in the middle
\* of a transaction as well.  It tells nothing that was not committed, whatever
\* was cancelled, rolled back or lost on the way; a change recorded in its own
\* transaction is committed together with every decision it records; and one
\* recorded apart, whose entry a cancellation, an error or a crash between the
\* two transactions takes away, is then never reported as done.
AuditTellsAll ==
  /\ Verifies(tables.log) /\ Verifies(disk.log)
  /\ Written(disk.log) \subseteq UNION {Wanted(o) : o \in disk.changes}
  /\ \A o \in disk.changes \ Apart : Wanted(o) \subseteq Written(disk.log)
  /\ \A o \in Operations :
       job[o] = "done" => o \in disk.changes /\ Wanted(o) \subseteq Written(disk.log)

\* A transaction is left open with nobody to end it, and every later writer
\* refused, only by a cancellation that met BEGIN: the one await that nothing
\* rolls back after.
OpenOnlyIfBeginCut ==
  owner = Nobody /\ line = <<>> /\ opened => beginCut
=============================================================================

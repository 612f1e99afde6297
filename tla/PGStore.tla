------------------------------ MODULE PGStore ------------------------------
(***************************************************************************)
(* pgstore.PGStore on a Postgres database: the transactions of Set and     *)
(* Delete, statement by statement, as any number of processes run them.    *)
(*                                                                         *)
(* Postgres is external and modelled as the code uses it: READ COMMITTED   *)
(* (a statement sees what is committed when it starts), a row lock from    *)
(* the statement that writes the row to the end of its transaction, audit  *)
(* ids from a sequence that is not rolled back, and NOTIFY delivered when  *)
(* the transaction commits, in commit order.                               *)
(*                                                                         *)
(* "log" exists only for the properties and to number store states: the    *)
(* commit with number i leads to state number i + 1.                       *)
(***************************************************************************)
EXTENDS ConfigData, FiniteSets

CONSTANTS
  Writers,  \* goroutines, of any process, that call Set and Delete
  MaxTx     \* bound: number of transactions that write a row

ASSUME PGAssumption ==
  /\ Namespaces # {}
  /\ Keys # {}
  /\ MaxTx \in Nat

VARIABLES
  rows,   \* liveconfig_values: namespace -> overrides
  audit,  \* liveconfig_audit
  seq,    \* last id taken from the sequence of liveconfig_audit
  tx,     \* the open transaction of each writer
  begun,  \* transactions so far
  log     \* the notifications of all commits, in commit order

pgVars == <<rows, audit, seq, tx, begun, log>>

AuditRecord ==
  [id : Nat, ns : Namespaces, key : Keys, old : RawValues, new : RawValues]

(***************************************************************************)
(* A transaction: "read" after Set's SELECT, "written" after the upsert or *)
(* the DELETE, "audited" after the audit INSERT.  old is what goes into    *)
(* the audit record, was the value the row held when it was written (OLD   *)
(* of the trigger), new is Absent in a Delete.                             *)
(***************************************************************************)
Tx == [at : {"idle", "read", "written", "audited"}, ns : Namespaces,
       key : Keys, new : RawValues \cup {Absent}, old : RawValues,
       was : RawValues, id : Nat]

NoTx ==
  [at |-> "idle", ns |-> CHOOSE n \in Namespaces : TRUE,
   key |-> CHOOSE k \in Keys : TRUE, new |-> Absent, old |-> Empty,
   was |-> Empty, id |-> 0]

PGTypeOK ==
  /\ rows \in [Namespaces -> Overrides]
  /\ audit \in SUBSET AuditRecord
  /\ seq \in Nat
  /\ tx \in [Writers -> Tx]
  /\ begun \in Nat
  /\ log \in Seq(ChangeEvent)

\* Migrate has run on a new database.
PGInit ==
  /\ rows = [n \in Namespaces |-> NoOverrides]
  /\ audit = {}
  /\ seq = 0
  /\ tx = [w \in Writers |-> NoTx]
  /\ begun = 0
  /\ log = << >>

-----------------------------------------------------------------------------
\* Get: the committed value, or Absent for "not found".
PGGet(n, k) == rows[n][k]

\* List: one SELECT, so one committed state of the namespace.
PGList(n) == [k \in Keys |-> PGGet(n, k)]

\* The transaction of w holds the lock of a row.
Locks(w, n, k) ==
  tx[w].at \in {"written", "audited"} /\ tx[w].ns = n /\ tx[w].key = k

Lockable(n, k) == \A w \in Writers : ~Locks(w, n, k)

\* Set: BEGIN, and the SELECT of the old value, which takes no lock.
SetRead(w, n, k, v) ==
  /\ tx[w].at = "idle"
  /\ begun < MaxTx
  /\ begun' = begun + 1
  /\ tx' = [tx EXCEPT ![w] =
              [NoTx EXCEPT !.at = "read", !.ns = n, !.key = k, !.new = v,
                           !.old = TextOf(PGGet(n, k))]]
  /\ UNCHANGED <<rows, audit, seq, log>>

\* Seeded fault: the notification carries the value that Set has read.
Fault_UpsertReadValue(w) ==
  /\ tx[w].at = "read"
  /\ Lockable(tx[w].ns, tx[w].key)
  /\ tx' = [tx EXCEPT ![w].at = "written", ![w].was = tx[w].old]
  /\ UNCHANGED <<rows, audit, seq, begun, log>>

(***************************************************************************)
(* Set: the upsert waits for the lock and writes the row as committed by   *)
(* then; the trigger's pg_notify is queued with that row as OLD.           *)
(***************************************************************************)
SetUpsert(w) ==
  /\ tx[w].at = "read"
  /\ Lockable(tx[w].ns, tx[w].key)
  /\ tx' = [tx EXCEPT ![w].at = "written",
                      ![w].was = TextOf(PGGet(tx[w].ns, tx[w].key))]
  /\ UNCHANGED <<rows, audit, seq, begun, log>>

(***************************************************************************)
(* Delete: BEGIN and DELETE ... RETURNING.  A Delete that finds no row     *)
(* commits an empty transaction and changes nothing.                       *)
(***************************************************************************)
DeleteRow(w, n, k) ==
  /\ tx[w].at = "idle"
  /\ begun < MaxTx
  /\ PGGet(n, k) # Absent
  /\ Lockable(n, k)
  /\ begun' = begun + 1
  /\ tx' = [tx EXCEPT ![w] =
              [NoTx EXCEPT !.at = "written", !.ns = n, !.key = k,
                           !.old = TextOf(PGGet(n, k)),
                           !.was = TextOf(PGGet(n, k))]]
  /\ UNCHANGED <<rows, audit, seq, log>>

\* The audit INSERT takes the next id of the sequence.
AuditInsert(w) ==
  /\ tx[w].at = "written"
  /\ seq' = seq + 1
  /\ tx' = [tx EXCEPT ![w].at = "audited", ![w].id = seq + 1]
  /\ UNCHANGED <<rows, audit, begun, log>>

\* Set: the audit INSERT, with the old value read first.
SetAudit(w) == tx[w].new # Absent /\ AuditInsert(w)

\* Delete: the audit INSERT and then pg_notify, both seen at the commit.
DeleteAudit(w) == tx[w].new = Absent /\ AuditInsert(w)

\* The notification of the transaction of w, once it is commit number i.
NotifyPayload(w, i) ==
  [ns |-> tx[w].ns, key |-> tx[w].key, old |-> tx[w].was,
   new |-> TextOf(tx[w].new), ver |-> i + 1]

\* COMMIT: row, audit record and notification become visible together.
Commit(w) ==
  /\ tx[w].at = "audited"
  /\ rows' = [rows EXCEPT ![tx[w].ns][tx[w].key] = tx[w].new]
  /\ audit' = audit \cup
       {[id |-> tx[w].id, ns |-> tx[w].ns, key |-> tx[w].key,
         old |-> tx[w].old, new |-> TextOf(tx[w].new)]}
  /\ log' = Append(log, NotifyPayload(w, Len(log) + 1))
  /\ tx' = [tx EXCEPT ![w] = NoTx]
  /\ UNCHANGED <<seq, begun>>

\* Seeded fault: the upsert is not part of the transaction.
Fault_RollbackKeepsRow(w) ==
  /\ tx[w].at # "idle"
  /\ tx' = [tx EXCEPT ![w] = NoTx]
  /\ rows' = IF tx[w].at = "read" THEN rows
             ELSE [rows EXCEPT ![tx[w].ns][tx[w].key] = tx[w].new]
  /\ UNCHANGED <<audit, seq, begun, log>>

\* A statement fails or the caller's context ends: the deferred Rollback.
Rollback(w) ==
  /\ tx[w].at # "idle"
  /\ tx' = [tx EXCEPT ![w] = NoTx]
  /\ UNCHANGED <<rows, audit, seq, begun, log>>

-----------------------------------------------------------------------------
\* Seeded fault: ORDER BY id.
Fault_OldestFirst(r) ==
  {q \in audit : q.ns = r.ns /\ q.key = r.key /\ q.id < r.id}

\* The records of r's key that History lists before r.
Newer(r) ==
  {q \in audit : q.ns = r.ns /\ q.key = r.key /\ q.id > r.id}

\* History: ORDER BY id DESC LIMIT limit OFFSET offset.
History(n, k, limit, offset) ==
  LET first == NormalOffset(offset)
  IN  {r \in audit : /\ r.ns = n
                     /\ r.key = k
                     /\ Cardinality(Newer(r)) \in first..(first + NormalLimit(limit) - 1)}

(***************************************************************************)
(* Ids are taken before the commit, so that records of different keys      *)
(* become visible out of order.  Those of one key do not: a new record is  *)
(* always on top of its key's History, hence a reader who pages by offset  *)
(* misses none, and nothing that was listed moves up.                      *)
(***************************************************************************)
NewRecordsOnTop ==
  [][\A r \in audit' \ audit : r \in History(r.ns, r.key, 1, 0)']_pgVars

(***************************************************************************)
(* The newest audit record of a key holds the value that Get returns, and  *)
(* a key without records has none, whichever statements fail and however   *)
(* the transactions of a key interleave.                                   *)
(***************************************************************************)
AuditEndsAtRows ==
  \A n \in Namespaces, k \in Keys :
    IF History(n, k, 1, 0) = {}
    THEN PGGet(n, k) = Absent
    ELSE \A r \in History(n, k, 1, 0) : r.new = TextOf(PGGet(n, k))

(***************************************************************************)
(* OLD in the trigger and RETURNING in Delete are read under the row lock: *)
(* in commit order, the old value of each notification of a key is the new *)
(* value of the one before it.                                             *)
(***************************************************************************)
NotificationsChain ==
  \A i \in 1..Len(log) :
    LET Before == {j \in 1..(i - 1) : log[j].ns = log[i].ns
                                      /\ log[j].key = log[i].key}
    IN  \/ Before = {} /\ log[i].old = Empty
        \/ \E j \in Before :
             /\ \A h \in Before : h <= j
             /\ log[i].old = log[j].new

(***************************************************************************)
(* README: "every change is recorded with who made it and what the         *)
(* previous value was".                                                    *)
(***************************************************************************)
AuditRecordsPreviousValue ==
  \A r \in audit : \A q \in audit :
    q.ns = r.ns /\ q.key = r.key /\ Newer(q) = Newer(r) \cup {r}
      => r.old = q.new

=============================================================================

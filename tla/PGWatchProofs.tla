--------------------------- MODULE PGWatchProofs ---------------------------
(***************************************************************************)
(* Proofs about PGStore and its listenLoop, for any number of writers,     *)
(* keys and namespaces: type correctness, what the row locks guarantee for *)
(* rows, audit trail and notifications, what reaches the Provider, and     *)
(* that PGStore keeps the contract of StoreContract.                       *)
(***************************************************************************)
EXTENDS PGWatch, FiniteSetTheorems, SequenceTheorems, TLAPS

\* An event field holds a raw string, also for a missing override.
LEMMA TextType ==
  ASSUME NEW v \in RawValues \cup {Absent}
  PROVE  TextOf(v) \in RawValues
BY DataAssumption DEF TextOf

\* A finished or not yet started transaction is a transaction.
LEMMA NoTxType == NoTx \in Tx
<1>1. (CHOOSE n \in Namespaces : TRUE) \in Namespaces
  BY PGAssumption
<1>2. (CHOOSE k \in Keys : TRUE) \in Keys
  BY PGAssumption
<1> QED
  BY <1>1, <1>2, DataAssumption DEF NoTx, Tx

\* What Get returns is a raw string or Absent.
LEMMA GetType ==
  ASSUME PGTypeOK, NEW n \in Namespaces, NEW k \in Keys
  PROVE  /\ PGGet(n, k) \in RawValues \cup {Absent}
         /\ TextOf(PGGet(n, k)) \in RawValues
<1>1. PGGet(n, k) \in RawValues \cup {Absent}
  BY DEF PGTypeOK, PGGet, Overrides
<1> QED
  BY <1>1, TextType

\* The fields of an open transaction.
LEMMA TxFields ==
  ASSUME PGTypeOK, NEW w \in Writers
  PROVE  /\ tx[w] \in Tx
         /\ tx[w].at \in {"idle", "read", "written", "audited"}
         /\ tx[w].ns \in Namespaces
         /\ tx[w].key \in Keys
         /\ tx[w].new \in RawValues \cup {Absent}
         /\ tx[w].old \in RawValues
         /\ tx[w].was \in RawValues
         /\ tx[w].id \in Nat
<1>1. tx[w] \in Tx
  BY DEF PGTypeOK
<1> QED
  BY <1>1 DEF Tx

\* List returns the row of every key.
LEMMA ListIsRow ==
  ASSUME PGTypeOK
  PROVE  PGList(NS) = rows[NS] /\ PGList(NS) \in Overrides
BY ContractAssumption DEF PGTypeOK, PGList, PGGet, Overrides

-----------------------------------------------------------------------------
(***************************************************************************)
(* The statements of a transaction, as the proofs use them: only the       *)
(* transaction of w changes.                                               *)
(***************************************************************************)
TxEffect(w) ==
  /\ tx' = [tx EXCEPT ![w] = tx'[w]]
  /\ tx'[w] \in Tx
  /\ UNCHANGED <<rows, audit, log>>
  /\ seq' \in Nat
  /\ begun' \in Nat

\* The SELECT of Set opens a transaction that holds no lock.
LEMMA SetReadEffect ==
  ASSUME PGTypeOK, NEW w \in Writers, NEW n \in Namespaces, NEW k \in Keys,
         NEW v \in RawValues, SetRead(w, n, k, v)
  PROVE  TxEffect(w) /\ tx'[w].at = "read" /\ seq' = seq
<1> DEFINE t == [NoTx EXCEPT !.at = "read", !.ns = n, !.key = k, !.new = v,
                             !.old = TextOf(PGGet(n, k))]
<1>1. t \in Tx /\ t.at = "read"
  BY NoTxType, GetType DEF Tx
<1>2. tx' = [tx EXCEPT ![w] = t]
  BY DEF SetRead
<1>3. tx'[w] = t
  BY <1>2 DEF PGTypeOK
<1> QED
  BY <1>1, <1>2, <1>3 DEF SetRead, TxEffect, PGTypeOK

\* DELETE finds the row, and its transaction holds the lock.
LEMMA DeleteRowEffect ==
  ASSUME PGTypeOK, NEW w \in Writers, NEW n \in Namespaces, NEW k \in Keys,
         DeleteRow(w, n, k)
  PROVE  /\ TxEffect(w)
         /\ seq' = seq
         /\ tx'[w].at = "written" /\ tx'[w].ns = n /\ tx'[w].key = k
         /\ tx'[w].was = TextOf(PGGet(n, k))
         /\ Lockable(n, k)
<1> DEFINE t == [NoTx EXCEPT !.at = "written", !.ns = n, !.key = k,
                             !.old = TextOf(PGGet(n, k)),
                             !.was = TextOf(PGGet(n, k))]
<1>1. /\ t \in Tx
      /\ t.at = "written" /\ t.ns = n /\ t.key = k
      /\ t.was = TextOf(PGGet(n, k))
  BY NoTxType, GetType DEF Tx
<1>2. tx' = [tx EXCEPT ![w] = t]
  BY DEF DeleteRow
<1>3. tx'[w] = t
  BY <1>2 DEF PGTypeOK
<1> HIDE DEF t
<1> QED
  BY <1>1, <1>2, <1>3 DEF DeleteRow, TxEffect, PGTypeOK

\* The upsert takes the lock and reads the row under it.
LEMMA SetUpsertEffect ==
  ASSUME PGTypeOK, NEW w \in Writers, SetUpsert(w)
  PROVE  /\ TxEffect(w)
         /\ seq' = seq
         /\ tx'[w].at = "written"
         /\ tx'[w].ns = tx[w].ns /\ tx'[w].key = tx[w].key
         /\ tx'[w].was = TextOf(PGGet(tx[w].ns, tx[w].key))
         /\ Lockable(tx[w].ns, tx[w].key)
<1> DEFINE t == [tx[w] EXCEPT !.at = "written",
                              !.was = TextOf(PGGet(tx[w].ns, tx[w].key))]
<1>1. TextOf(PGGet(tx[w].ns, tx[w].key)) \in RawValues
  BY TxFields, GetType
<1>2. /\ t \in Tx
      /\ t.at = "written" /\ t.ns = tx[w].ns /\ t.key = tx[w].key
      /\ t.was = TextOf(PGGet(tx[w].ns, tx[w].key))
  BY <1>1, TxFields DEF Tx
<1>3. tx' = [tx EXCEPT ![w] = t]
  BY DEF SetUpsert, PGTypeOK
<1>4. tx'[w] = t
  BY <1>3 DEF PGTypeOK
<1> HIDE DEF t
<1> QED
  BY <1>2, <1>3, <1>4 DEF SetUpsert, TxEffect, PGTypeOK

\* The audit INSERT takes the next id.
LEMMA AuditInsertEffect ==
  ASSUME PGTypeOK, NEW w \in Writers, AuditInsert(w)
  PROVE  /\ TxEffect(w)
         /\ seq' = seq + 1
         /\ tx[w].at = "written"
         /\ tx'[w].at = "audited" /\ tx'[w].id = seq + 1
         /\ tx'[w].ns = tx[w].ns /\ tx'[w].key = tx[w].key
         /\ tx'[w].was = tx[w].was
<1> DEFINE t == [tx[w] EXCEPT !.at = "audited", !.id = seq + 1]
<1>0. seq \in Nat /\ seq + 1 \in Nat
  BY DEF PGTypeOK
<1>1. /\ t \in Tx
      /\ t.at = "audited" /\ t.id = seq + 1
      /\ t.ns = tx[w].ns /\ t.key = tx[w].key /\ t.was = tx[w].was
  BY <1>0, TxFields DEF Tx
<1>2. tx' = [tx EXCEPT ![w] = t]
  BY DEF AuditInsert, PGTypeOK
<1>3. tx'[w] = t
  BY <1>2 DEF PGTypeOK
<1> HIDE DEF t
<1> QED
  BY <1>0, <1>1, <1>2, <1>3 DEF AuditInsert, TxEffect, PGTypeOK

\* Rollback forgets the transaction.
LEMMA RollbackEffect ==
  ASSUME PGTypeOK, NEW w \in Writers, Rollback(w)
  PROVE  TxEffect(w) /\ seq' = seq /\ tx'[w].at = "idle"
<1>1. tx'[w] = NoTx /\ NoTx.at = "idle"
  BY DEF Rollback, PGTypeOK, NoTx
<1> QED
  BY <1>1, NoTxType DEF Rollback, TxEffect, PGTypeOK

(***************************************************************************)
(* COMMIT: the record and the notification it publishes, and the one row   *)
(* that changes.                                                           *)
(***************************************************************************)
NewRecord(w) ==
  [id |-> tx[w].id, ns |-> tx[w].ns, key |-> tx[w].key, old |-> tx[w].old,
   new |-> TextOf(tx[w].new)]

Note(w) == NotifyPayload(w, Len(log) + 1)

\* Both are well formed.
LEMMA CommitTypes ==
  ASSUME PGTypeOK, NEW w \in Writers
  PROVE  NewRecord(w) \in AuditRecord /\ Note(w) \in ChangeEvent
<1>1. TextOf(tx[w].new) \in RawValues
  BY TxFields, TextType
<1>2. Len(log) + 1 + 1 \in Nat
  BY DEF PGTypeOK
<1> QED
  BY <1>1, <1>2, TxFields
     DEF NewRecord, AuditRecord, Note, NotifyPayload, ChangeEvent

\* The effect of COMMIT on every row, and on the other transactions.
LEMMA CommitEffect ==
  ASSUME PGTypeOK, NEW w \in Writers, Commit(w)
  PROVE  /\ PGTypeOK'
         /\ tx[w].at = "audited"
         /\ \A n \in Namespaces, k \in Keys :
              PGGet(n, k)' = IF n = tx[w].ns /\ k = tx[w].key
                             THEN tx[w].new ELSE PGGet(n, k)
         /\ audit' = audit \cup {NewRecord(w)}
         /\ log' = Append(log, Note(w))
         /\ \A v \in Writers : tx'[v] = IF v = w THEN NoTx ELSE tx[v]
         /\ seq' = seq
<1>1. /\ rows' = [rows EXCEPT ![tx[w].ns][tx[w].key] = tx[w].new]
      /\ audit' = audit \cup {NewRecord(w)}
      /\ log' = Append(log, Note(w))
      /\ tx' = [tx EXCEPT ![w] = NoTx]
      /\ seq' = seq /\ begun' = begun
      /\ tx[w].at = "audited"
  BY DEF Commit, NewRecord, Note
<1>2. rows' \in [Namespaces -> Overrides]
  BY <1>1, TxFields DEF PGTypeOK, Overrides
<1>3. audit' \in SUBSET AuditRecord /\ log' \in Seq(ChangeEvent)
  BY <1>1, CommitTypes DEF PGTypeOK
<1>4. tx' \in [Writers -> Tx]
  BY <1>1, NoTxType DEF PGTypeOK
<1>5. \A n \in Namespaces, k \in Keys :
        PGGet(n, k)' = IF n = tx[w].ns /\ k = tx[w].key
                       THEN tx[w].new ELSE PGGet(n, k)
  BY <1>1, TxFields DEF PGTypeOK, Overrides, PGGet
<1>6. \A v \in Writers : tx'[v] = IF v = w THEN NoTx ELSE tx[v]
  BY <1>1 DEF PGTypeOK
<1> QED
  BY <1>1, <1>2, <1>3, <1>4, <1>5, <1>6 DEF PGTypeOK

\* A statement before the COMMIT leaves the tables well formed.
LEMMA TxEffectType ==
  ASSUME PGTypeOK, NEW w \in Writers, TxEffect(w)
  PROVE  /\ PGTypeOK'
         /\ \A v \in Writers : v # w => tx'[v] = tx[v]
         /\ \A n \in Namespaces, k \in Keys : PGGet(n, k)' = PGGet(n, k)
<1>1. tx' \in [Writers -> Tx] /\ \A v \in Writers : v # w => tx'[v] = tx[v]
  BY DEF PGTypeOK, TxEffect
<1> QED
  BY <1>1 DEF PGTypeOK, TxEffect, PGGet

-----------------------------------------------------------------------------
(***************************************************************************)
(* The invariant of the database.  A row lock excludes other transactions  *)
(* of its key, so that what was read under it stays true until the commit; *)
(* an id taken under it is newer than every visible record of the key; and *)
(* the newest record and the last notification of a key hold its row.      *)
(***************************************************************************)
Locking == {"written", "audited"}

LocksExclude ==
  \A v, w \in Writers :
    /\ tx[v].at \in Locking /\ tx[w].at \in Locking
    /\ tx[v].ns = tx[w].ns /\ tx[v].key = tx[w].key
    => v = w

LockedValue ==
  \A w \in Writers :
    tx[w].at \in Locking => tx[w].was = TextOf(PGGet(tx[w].ns, tx[w].key))

IdsTaken ==
  /\ \A r \in audit : r.id <= seq
  /\ \A w \in Writers : tx[w].at = "audited" => tx[w].id <= seq

LockedIsNewest ==
  \A w \in Writers : tx[w].at = "audited" =>
    \A r \in audit : r.ns = tx[w].ns /\ r.key = tx[w].key => r.id < tx[w].id

LockInv == LocksExclude /\ LockedValue /\ IdsTaken /\ LockedIsNewest

\* The records of a key without a newer one.
Top(n, k) == {r \in audit : r.ns = n /\ r.key = k /\ Newer(r) = {}}

RowsRecorded ==
  /\ IsFiniteSet(audit)
  /\ \A n \in Namespaces, k \in Keys :
       /\ PGGet(n, k) # Absent => Top(n, k) # {}
       /\ \A r \in Top(n, k) : r.new = TextOf(PGGet(n, k))

\* The numbers of the notifications of a key.
Notes(n, k) == {j \in 1..Len(log) : log[j].ns = n /\ log[j].key = k}

RowsNotified ==
  \A n \in Namespaces, k \in Keys :
    \/ Notes(n, k) = {} /\ PGGet(n, k) = Absent
    \/ \E j \in Notes(n, k) :
         /\ \A h \in Notes(n, k) : h <= j
         /\ log[j].new = TextOf(PGGet(n, k))

DbInv ==
  PGTypeOK /\ LockInv /\ RowsRecorded /\ RowsNotified /\ NotificationsChain

\* A new database satisfies it.
LEMMA InitDb == PGInit => DbInv
<1> SUFFICES ASSUME PGInit PROVE DbInv
  OBVIOUS
<1>1. PGTypeOK
  <2>1. NoOverrides \in Overrides
    BY DEF NoOverrides, Overrides
  <2> QED
    BY <2>1, NoTxType DEF PGInit, PGTypeOK
<1>2. \A w \in Writers : tx[w].at = "idle"
  BY DEF PGInit, NoTx
<1>3. LockInv
  BY <1>2 DEF PGInit, LockInv, LocksExclude, LockedValue, IdsTaken, LockedIsNewest, Locking
<1>4. \A n \in Namespaces, k \in Keys : PGGet(n, k) = Absent
  BY DEF PGInit, PGGet, NoOverrides
<1>5. audit = {} /\ Len(log) = 0
  BY DEF PGInit
<1>6. RowsRecorded
  BY <1>4, <1>5, FS_EmptySet DEF RowsRecorded, Top
<1>7. RowsNotified /\ NotificationsChain
  BY <1>4, <1>5 DEF RowsNotified, Notes, NotificationsChain
<1> QED
  BY <1>1, <1>3, <1>6, <1>7 DEF DbInv

(***************************************************************************)
(* A statement before the COMMIT keeps the lock discipline: it takes a     *)
(* lock only when nobody has it, and ids only grow.                        *)
(***************************************************************************)
LEMMA TxLocks ==
  ASSUME PGTypeOK, LockInv, NEW w \in Writers, TxStep(w)
  PROVE  TxEffect(w) /\ LockInv'
<1> USE DEF LockInv, LocksExclude, LockedValue, IdsTaken, LockedIsNewest, Locking
<1>0. /\ seq \in Nat
      /\ \A r \in audit : r.id \in Nat
      /\ \A v \in Writers : tx[v].id \in Nat
  BY TxFields DEF PGTypeOK, AuditRecord
<1>1. ASSUME TxEffect(w), seq' = seq, tx'[w].at \notin Locking
      PROVE  LockInv'
  BY <1>0, <1>1, TxEffectType, TxFields DEF TxEffect
<1>2. ASSUME TxEffect(w), seq' = seq, tx'[w].at = "written",
             NEW n \in Namespaces, NEW k \in Keys, Lockable(n, k),
             tx'[w].ns = n, tx'[w].key = k, tx'[w].was = TextOf(PGGet(n, k))
      PROVE  LockInv'
  <2>1. \A v \in Writers : v # w /\ tx'[v].at \in Locking
                           => tx'[v].ns # n \/ tx'[v].key # k
    BY <1>2, TxEffectType DEF Lockable, Locks
  <2>2. LocksExclude'
    BY <1>2, <2>1, TxEffectType
  <2>3. LockedValue'
    BY <1>2, TxEffectType, TxFields
  <2>4. IdsTaken' /\ LockedIsNewest'
    BY <1>0, <1>2, TxEffectType DEF TxEffect
  <2> QED
    BY <2>2, <2>3, <2>4
<1>3. ASSUME NEW n \in Namespaces, NEW k \in Keys, NEW v \in RawValues,
             SetRead(w, n, k, v)
      PROVE  TxEffect(w) /\ LockInv'
  BY <1>1, <1>3, SetReadEffect
<1>4. ASSUME NEW n \in Namespaces, NEW k \in Keys, DeleteRow(w, n, k)
      PROVE  TxEffect(w) /\ LockInv'
  BY <1>2, <1>4, DeleteRowEffect
<1>5. CASE SetUpsert(w)
  BY <1>2, <1>5, SetUpsertEffect, TxFields
<1>6. CASE AuditInsert(w)
  <2>1. /\ TxEffect(w) /\ seq' = seq + 1
        /\ tx[w].at = "written" /\ tx'[w].at = "audited" /\ tx'[w].id = seq + 1
        /\ tx'[w].ns = tx[w].ns /\ tx'[w].key = tx[w].key
        /\ tx'[w].was = tx[w].was
    BY <1>6, AuditInsertEffect
  <2>2. LocksExclude'
    BY <2>1, TxEffectType
  <2>3. LockedValue'
    BY <2>1, TxEffectType, TxFields
  <2>4. IdsTaken'
    BY <1>0, <2>1, TxEffectType DEF TxEffect
  <2>5. LockedIsNewest'
    BY <1>0, <2>1, TxEffectType DEF TxEffect
  <2> QED
    BY <2>1, <2>2, <2>3, <2>4, <2>5
<1>7. CASE Rollback(w)
  BY <1>1, <1>7, RollbackEffect
<1> QED
  BY <1>3, <1>4, <1>5, <1>6, <1>7 DEF TxStep, SetAudit, DeleteAudit

(***************************************************************************)
(* COMMIT keeps the lock discipline: the record it publishes has another   *)
(* key than every transaction that still holds a lock.                     *)
(***************************************************************************)
LEMMA CommitLocks ==
  ASSUME PGTypeOK, LockInv, NEW w \in Writers, Commit(w)
  PROVE  LockInv'
<1> USE DEF LockInv, LocksExclude, LockedValue, IdsTaken, LockedIsNewest, Locking
<1>0. NoTx.at = "idle"
  BY DEF NoTx
<1>1. \A v \in Writers : tx'[v].at \in Locking => v # w /\ tx'[v] = tx[v]
  BY <1>0, CommitEffect
<1>2. LocksExclude'
  BY <1>1
<1>3. LockedValue'
  BY <1>1, CommitEffect, TxFields
<1>4. IdsTaken'
  BY <1>1, CommitEffect DEF NewRecord
<1>5. LockedIsNewest'
  BY <1>1, CommitEffect DEF NewRecord
<1> QED
  BY <1>2, <1>3, <1>4, <1>5

-----------------------------------------------------------------------------
(***************************************************************************)
(* The record of a COMMIT is on top of its key; the tops of the other keys *)
(* stay.                                                                   *)
(***************************************************************************)
LEMMA CommitTop ==
  ASSUME PGTypeOK, LockInv, NEW w \in Writers, Commit(w),
         NEW r, r = NewRecord(w), NEW n \in Namespaces, NEW k \in Keys
  PROVE  /\ Newer(r)' = {}
         /\ Top(n, k)' = IF n = tx[w].ns /\ k = tx[w].key THEN {r} ELSE Top(n, k)
<1>1. audit' = audit \cup {r} /\ tx[w].at = "audited"
  BY CommitEffect
<1>2. r.id = tx[w].id /\ r.ns = tx[w].ns /\ r.key = tx[w].key /\ r.id \in Nat
  BY TxFields DEF NewRecord
<1>3. \A q \in audit : q.id \in Nat
  BY DEF PGTypeOK, AuditRecord
<1>4. \A q \in audit : q.ns = r.ns /\ q.key = r.key => q.id < r.id
  BY <1>1, <1>2 DEF LockInv, LockedIsNewest
<1>5. Newer(r)' = {}
  BY <1>1, <1>2, <1>3, <1>4 DEF Newer
<1>6. \A q \in audit : q.ns = r.ns /\ q.key = r.key => r \in Newer(q)'
  BY <1>1, <1>2, <1>3, <1>4 DEF Newer
<1>7. ASSUME NEW q \in audit, q.ns # r.ns \/ q.key # r.key
      PROVE  Newer(q)' = Newer(q)
  <2>1. \A x : x \in Newer(q)' <=> x \in Newer(q)
    BY <1>1, <1>7 DEF Newer
  <2> QED
    BY <2>1
<1>8. CASE n = tx[w].ns /\ k = tx[w].key
  BY <1>1, <1>2, <1>5, <1>6, <1>8 DEF Top
<1>9. CASE ~(n = tx[w].ns /\ k = tx[w].key)
  <2>1. \A q : q \in Top(n, k)' <=> q \in Top(n, k)
    BY <1>1, <1>2, <1>7, <1>9 DEF Top
  <2> QED
    BY <1>5, <1>9, <2>1
<1> QED
  BY <1>5, <1>8, <1>9

\* COMMIT: the newest record of a key keeps up with its row.
LEMMA CommitRecorded ==
  ASSUME PGTypeOK, LockInv, RowsRecorded, NEW w \in Writers, Commit(w)
  PROVE  RowsRecorded'
<1> PICK r : r = NewRecord(w)
  OBVIOUS
<1>1. audit' = audit \cup {r} /\ r.new = TextOf(tx[w].new)
  BY CommitEffect DEF NewRecord
<1>2. IsFiniteSet(audit')
  BY <1>1, FS_AddElement DEF RowsRecorded
<1>3. ASSUME NEW n \in Namespaces, NEW k \in Keys
      PROVE  /\ PGGet(n, k)' # Absent => Top(n, k)' # {}
             /\ \A q \in Top(n, k)' : q.new = TextOf(PGGet(n, k)')
  <2>1. PGGet(n, k)' = IF n = tx[w].ns /\ k = tx[w].key
                       THEN tx[w].new ELSE PGGet(n, k)
    BY CommitEffect
  <2>2. Top(n, k)' = IF n = tx[w].ns /\ k = tx[w].key THEN {r} ELSE Top(n, k)
    BY CommitTop
  <2> QED
    BY <1>1, <2>1, <2>2 DEF RowsRecorded
<1>4. \A n \in Namespaces, k \in Keys :
        TextOf(PGGet(n, k)') = TextOf(PGGet(n, k))'
  BY DEF TextOf
<1> QED
  BY <1>2, <1>3, <1>4 DEF RowsRecorded

(***************************************************************************)
(* COMMIT: the notification becomes the last one of its key; the numbers   *)
(* of the other keys' notifications stay.                                  *)
(***************************************************************************)
LEMMA CommitNotes ==
  ASSUME PGTypeOK, NEW w \in Writers, Commit(w), NEW n \in Namespaces, NEW k \in Keys
  PROVE  /\ Len(log') = Len(log) + 1
         /\ \A i \in 1..Len(log) : log'[i] = log[i]
         /\ log'[Len(log) + 1] = Note(w)
         /\ Notes(n, k)' = IF n = tx[w].ns /\ k = tx[w].key
                           THEN Notes(n, k) \cup {Len(log) + 1} ELSE Notes(n, k)
<1>1. log \in Seq(ChangeEvent) /\ log' = Append(log, Note(w)) /\ Note(w) \in ChangeEvent
  BY CommitEffect, CommitTypes DEF PGTypeOK
<1>2. /\ Len(log) \in Nat
      /\ Len(log') = Len(log) + 1
      /\ \A i \in 1..Len(log) : log'[i] = log[i]
      /\ log'[Len(log) + 1] = Note(w)
  BY <1>1
<1>3. Note(w).ns = tx[w].ns /\ Note(w).key = tx[w].key
  BY DEF Note, NotifyPayload
<1>4. Notes(n, k)' = {j \in 1..(Len(log) + 1) : log'[j].ns = n /\ log'[j].key = k}
  BY <1>2 DEF Notes
<1>5. CASE n = tx[w].ns /\ k = tx[w].key
  <2>1. \A j : j \in Notes(n, k)' <=> j \in Notes(n, k) \cup {Len(log) + 1}
    BY <1>2, <1>3, <1>4, <1>5 DEF Notes
  <2> QED
    BY <1>2, <1>5, <2>1
<1>6. CASE ~(n = tx[w].ns /\ k = tx[w].key)
  <2>1. \A j : j \in Notes(n, k)' <=> j \in Notes(n, k)
    BY <1>2, <1>3, <1>4, <1>6 DEF Notes
  <2> QED
    BY <1>2, <1>6, <2>1
<1> QED
  BY <1>5, <1>6

\* COMMIT: the last notification of a key keeps up with its row.
LEMMA CommitNotified ==
  ASSUME PGTypeOK, RowsNotified, NEW w \in Writers, Commit(w)
  PROVE  RowsNotified'
<1> SUFFICES ASSUME NEW n \in Namespaces, NEW k \in Keys
             PROVE  \/ Notes(n, k)' = {} /\ PGGet(n, k)' = Absent
                    \/ \E j \in Notes(n, k)' :
                         /\ \A h \in Notes(n, k)' : h <= j
                         /\ log'[j].new = TextOf(PGGet(n, k)')
  BY DEF RowsNotified, TextOf
<1>1. /\ \A i \in 1..Len(log) : log'[i] = log[i]
      /\ log'[Len(log) + 1] = Note(w)
      /\ Notes(n, k)' = IF n = tx[w].ns /\ k = tx[w].key
                        THEN Notes(n, k) \cup {Len(log) + 1} ELSE Notes(n, k)
  BY CommitNotes
<1>2. PGGet(n, k)' = IF n = tx[w].ns /\ k = tx[w].key
                     THEN tx[w].new ELSE PGGet(n, k)
  BY CommitEffect
<1>3. Len(log) \in Nat /\ Notes(n, k) \subseteq 1..Len(log)
  BY DEF PGTypeOK, Notes
<1>4. CASE n = tx[w].ns /\ k = tx[w].key
  <2>1. Note(w).new = TextOf(tx[w].new)
    BY DEF Note, NotifyPayload
  <2>2. \A h \in Notes(n, k)' : h <= Len(log) + 1
    BY <1>1, <1>3, <1>4
  <2> QED
    BY <1>1, <1>2, <1>4, <2>1, <2>2
<1>5. CASE ~(n = tx[w].ns /\ k = tx[w].key)
  BY <1>1, <1>2, <1>3, <1>5 DEF RowsNotified
<1> QED
  BY <1>4, <1>5

\* COMMIT: the notification continues the chain of its key.
LEMMA CommitChain ==
  ASSUME PGTypeOK, LockInv, RowsNotified, NotificationsChain,
         NEW w \in Writers, Commit(w)
  PROVE  NotificationsChain'
<1> DEFINE Before(l, i) == {j \in 1..(i - 1) : l[j].ns = l[i].ns /\ l[j].key = l[i].key}
           Link(l, i) == \/ Before(l, i) = {} /\ l[i].old = Empty
                         \/ \E j \in Before(l, i) :
                              /\ \A h \in Before(l, i) : h <= j
                              /\ l[i].old = l[j].new
<1>0. Len(log) \in Nat
  BY DEF PGTypeOK
<1>1. /\ Len(log') = Len(log) + 1
      /\ \A i \in 1..Len(log) : log'[i] = log[i]
      /\ log'[Len(log) + 1] = Note(w)
  BY CommitNotes, TxFields
<1>2. \A i \in 1..Len(log) : Link(log, i)
  BY DEF NotificationsChain
<1>3. ASSUME NEW i \in 1..Len(log) PROVE Link(log', i)
  <2>1. \A j \in 1..(i - 1) : log'[j] = log[j]
    BY <1>0, <1>1
  <2>2. log'[i] = log[i]
    BY <1>1
  <2>3. Before(log', i) = Before(log, i)
    BY <2>1, <2>2
  <2>4. Link(log, i)
    BY <1>2
  <2> QED
    BY <2>1, <2>2, <2>3, <2>4
<1>4. Link(log', Len(log) + 1)
  <2>1. tx[w].at = "audited" /\ tx[w].ns \in Namespaces /\ tx[w].key \in Keys
    BY CommitEffect, TxFields
  <2>2. /\ Note(w).ns = tx[w].ns /\ Note(w).key = tx[w].key
        /\ Note(w).old = TextOf(PGGet(tx[w].ns, tx[w].key))
    BY <2>1 DEF Note, NotifyPayload, LockInv, LockedValue, Locking
  <2>3. Before(log', Len(log) + 1) = Notes(tx[w].ns, tx[w].key)
    <3>1. \A j : j \in Before(log', Len(log) + 1) <=> j \in Notes(tx[w].ns, tx[w].key)
      BY <1>0, <1>1, <2>2 DEF Notes
    <3> QED
      BY <3>1
  <2>4. CASE Notes(tx[w].ns, tx[w].key) = {} /\ PGGet(tx[w].ns, tx[w].key) = Absent
    BY <1>1, <2>2, <2>3, <2>4 DEF TextOf
  <2>5. CASE \E j \in Notes(tx[w].ns, tx[w].key) :
               /\ \A h \in Notes(tx[w].ns, tx[w].key) : h <= j
               /\ log[j].new = TextOf(PGGet(tx[w].ns, tx[w].key))
    <3>1. PICK j \in Notes(tx[w].ns, tx[w].key) :
               /\ \A h \in Notes(tx[w].ns, tx[w].key) : h <= j
               /\ log[j].new = TextOf(PGGet(tx[w].ns, tx[w].key))
      BY <2>5
    <3>2. log'[j] = log[j]
      BY <1>1, <3>1 DEF Notes
    <3> QED
      BY <1>1, <2>2, <2>3, <3>1, <3>2
  <2> QED
    BY <2>1, <2>4, <2>5 DEF RowsNotified
<1>5. \A i \in 1..Len(log') : Link(log', i)
  <2> HIDE DEF Link
  <2>1. \A i \in 1..Len(log') : i \in 1..Len(log) \/ i = Len(log) + 1
    BY <1>0, <1>1
  <2> QED
    BY <1>3, <1>4, <2>1
<1> QED
  BY <1>5 DEF NotificationsChain

\* What every step does to the database.
LEMMA DbCases ==
  ASSUME [Next]_vars
  PROVE  \/ \E w \in Writers : TxStep(w)
         \/ \E w \in Writers : Commit(w)
         \/ UNCHANGED pgVars
<1>1. CASE \E w \in Writers : TxStep(w) \/ CommitStep(w)
  BY <1>1 DEF CommitStep
<1>2. CASE Watch \/ LoopStep \/ NetworkStep \/ LoopReconnect
  BY <1>2 DEF Watch, LoopStep, NetworkStep, LoopReconnect
<1>3. CASE LoopSend \/ LoopEnds \/ ProviderTakes \/ CancelWatch
  BY <1>3 DEF LoopSend, LoopEnds, ProviderTakes, CancelWatch
<1>4. CASE UNCHANGED vars
  BY <1>4 DEF vars
<1> QED
  BY <1>1, <1>2, <1>3, <1>4 DEF Next

\* The invariant of the database is preserved by every step.
LEMMA NextDb == DbInv /\ [Next]_vars => DbInv'
<1> SUFFICES ASSUME DbInv, [Next]_vars PROVE DbInv'
  OBVIOUS
<1> USE DEF DbInv
<1>1. ASSUME NEW w \in Writers, TxStep(w) PROVE DbInv'
  <2>1. TxEffect(w) /\ LockInv'
    BY <1>1, TxLocks
  <2>2. PGTypeOK' /\ UNCHANGED <<rows, audit, log>>
    BY <2>1, TxEffectType DEF TxEffect
  <2>3. RowsRecorded' /\ RowsNotified' /\ NotificationsChain'
    BY <2>2 DEF RowsRecorded, Top, Newer, RowsNotified, Notes, NotificationsChain,
                PGGet
  <2> QED
    BY <2>1, <2>2, <2>3
<1>2. ASSUME NEW w \in Writers, Commit(w) PROVE DbInv'
  BY <1>2, CommitEffect, CommitLocks, CommitRecorded, CommitNotified, CommitChain
<1>3. CASE UNCHANGED pgVars
  <2>1. PGTypeOK' /\ LockInv'
    BY <1>3 DEF pgVars, PGTypeOK, LockInv, LocksExclude, LockedValue, IdsTaken,
                LockedIsNewest, PGGet
  <2>2. RowsRecorded' /\ RowsNotified' /\ NotificationsChain'
    BY <1>3 DEF pgVars, RowsRecorded, Top, Newer, RowsNotified, Notes,
                NotificationsChain, PGGet
  <2> QED
    BY <2>1, <2>2
<1> QED
  BY <1>1, <1>2, <1>3, DbCases

\* The invariant of the database holds in every reachable state.
LEMMA DbInvariance == Spec => []DbInv
<1>1. Init => DbInv
  BY InitDb DEF Init
<1> QED
  BY <1>1, NextDb, PTL DEF Spec

\* The first page of size one of History is the newest record.
TopIsFirstPage ==
  \A n \in Namespaces, k \in Keys : History(n, k, 1, 0) = Top(n, k)

\* It is, in every state of the database and so after every step, too.
LEMMA FirstPage == DbInv => TopIsFirstPage
<1> SUFFICES ASSUME DbInv, NEW n \in Namespaces, NEW k \in Keys
             PROVE  History(n, k, 1, 0) = Top(n, k)
  BY DEF TopIsFirstPage
<1>0. IsFiniteSet(audit)
  BY DEF DbInv, RowsRecorded
<1>1. ASSUME NEW r PROVE Cardinality(Newer(r)) \in 0..(0 + 1 - 1) <=> Newer(r) = {}
  <2>1. IsFiniteSet(Newer(r))
    BY <1>0, FS_Subset DEF Newer
  <2>2. Cardinality(Newer(r)) = 0 <=> Newer(r) = {}
    BY <2>1, FS_EmptySet
  <2> QED
    BY <2>2
<1>2. NormalOffset(0) = 0 /\ NormalLimit(1) = 1
  BY DEF NormalOffset, NormalLimit
<1> QED
  BY <1>1, <1>2 DEF History, Top

(***************************************************************************)
(* Rows and audit trail agree: whichever statements fail and however the   *)
(* transactions of a key interleave, its newest record holds its row.      *)
(***************************************************************************)
THEOREM AuditMatchesRows == Spec => []AuditEndsAtRows
<1>1. DbInv => AuditEndsAtRows
  BY FirstPage DEF DbInv, RowsRecorded, AuditEndsAtRows, TopIsFirstPage
<1> QED
  BY <1>1, DbInvariance, PTL

(***************************************************************************)
(* The notifications of a key chain: each tells the value the row had when *)
(* it was written, which is the new value of the notification before.      *)
(***************************************************************************)
THEOREM NotificationsTellHistory == Spec => []NotificationsChain
<1>1. DbInv => NotificationsChain
  BY DEF DbInv
<1> QED
  BY <1>1, DbInvariance, PTL

\* A COMMIT puts its record on top of its key's History.
LEMMA CommitOnTop ==
  ASSUME DbInv, DbInv', NEW w \in Writers, Commit(w), NEW r \in audit' \ audit
  PROVE  r \in History(r.ns, r.key, 1, 0)'
<1>1. r = NewRecord(w)
  BY CommitEffect DEF DbInv
<1>2. r.ns = tx[w].ns /\ r.key = tx[w].key /\ r.ns \in Namespaces /\ r.key \in Keys
  BY <1>1, TxFields DEF DbInv, NewRecord
<1>3. r \in Top(r.ns, r.key)'
  BY <1>1, <1>2, CommitTop DEF DbInv
<1>4. History(r.ns, r.key, 1, 0)' = Top(r.ns, r.key)'
  <2>1. TopIsFirstPage'
    BY FirstPage, PTL
  <2> QED
    BY <1>2, <2>1 DEF TopIsFirstPage
<1> QED
  BY <1>3, <1>4

(***************************************************************************)
(* Audit ids are taken before the commit, yet History never shows a record *)
(* below one that it has already shown for the same key.                   *)
(***************************************************************************)
THEOREM HistoryGrowsOnTop == Spec => NewRecordsOnTop
<1>1. ASSUME DbInv, DbInv', [Next]_vars
      PROVE  [\A r \in audit' \ audit : r \in History(r.ns, r.key, 1, 0)']_pgVars
  <2>1. ASSUME NEW w \in Writers, TxStep(w)
        PROVE  \A r \in audit' \ audit : r \in History(r.ns, r.key, 1, 0)'
    BY <1>1, <2>1, TxLocks DEF TxEffect, DbInv
  <2>2. ASSUME NEW w \in Writers, Commit(w)
        PROVE  \A r \in audit' \ audit : r \in History(r.ns, r.key, 1, 0)'
    BY <1>1, <2>2, CommitOnTop
  <2> QED
    BY <1>1, <2>1, <2>2, DbCases
<1> QED
  BY <1>1, DbInvariance, PTL DEF Spec, NewRecordsOnTop

-----------------------------------------------------------------------------
\* What CommitStep adds to the database's COMMIT.
LEMMA CommitStepEffect ==
  ASSUME TypeOK, NEW w \in Writers, CommitStep(w)
  PROVE  /\ Commit(w)
         /\ states' = Append(states, PGList(NS)')
         /\ PGList(NS)' = rows'[NS] /\ PGList(NS)' \in StoreStates
         /\ inbox' = IF conn = "listening" THEN Append(inbox, Note(w)) ELSE inbox
         /\ UNCHANGED <<conn, loop, held, watchCh, watchState, ctxDone, listenAt, seenVer>>
<1>1. PGTypeOK'
  BY CommitEffect DEF CommitStep, TypeOK
<1>2. PGList(NS)' = rows'[NS] /\ PGList(NS)' \in StoreStates
  BY <1>1, ContractAssumption, PGWatchAssumption DEF PGTypeOK, PGList, PGGet, Overrides
<1> QED
  BY <1>2 DEF CommitStep, Change, Enqueue, Note

\* A part of the queue, the rest of it, and a longer one.
LEMMA QueueType ==
  ASSUME NEW s \in Seq(ChangeEvent)
  PROVE  /\ \A n \in 0..Len(s) : SubSeq(s, 1, n) \in Seq(ChangeEvent)
         /\ s # << >> => Head(s) \in ChangeEvent /\ Tail(s) \in Seq(ChangeEvent)
         /\ \A ev \in ChangeEvent : Append(s, ev) \in Seq(ChangeEvent)
<1>1. ASSUME NEW n \in 0..Len(s) PROVE SubSeq(s, 1, n) \in Seq(ChangeEvent)
  <2>1. n \in Int /\ \A i \in 1..n : s[i] \in ChangeEvent
    OBVIOUS
  <2> QED
    BY <2>1, SubSeqProperties
<1>2. s # << >> => Head(s) \in ChangeEvent /\ Tail(s) \in Seq(ChangeEvent)
  BY HeadTailProperties
<1> QED
  BY <1>1, <1>2

\* TypeOK holds before Watch is called.
LEMMA InitTypeOK == Init => TypeOK
<1> SUFFICES ASSUME Init PROVE TypeOK
  OBVIOUS
<1>1. PGTypeOK
  BY InitDb DEF Init, DbInv
<1>2. PGList(NS) \in StoreStates
  BY <1>1, ListIsRow, PGWatchAssumption
<1>3. states \in Seq(StoreStates) /\ Len(states) = 1
  BY <1>2 DEF Init
<1>4. << >> \in Seq(ChangeEvent) /\ {} \in SUBSET ChangeEvent
  OBVIOUS
<1>5. ListenTypeOK
  BY <1>4 DEF Init, ListenInit, ListenTypeOK
<1>6. ContractTypeOK
  BY <1>3, <1>4 DEF Init, ContractTypeOK
<1>7. ctxDone \in BOOLEAN /\ listenAt \in Nat /\ seenVer \in Nat
  BY DEF Init
<1> QED
  BY <1>1, <1>5, <1>6, <1>7 DEF TypeOK

\* Every step preserves TypeOK, action by action.
LEMMA NextTypeOK == DbInv /\ TypeOK /\ [Next]_vars => TypeOK'
<1> SUFFICES ASSUME DbInv, TypeOK, [Next]_vars PROVE TypeOK'
  OBVIOUS
<1>0. PGTypeOK'
  BY NextDb DEF DbInv
<1> USE DEF listenVars, storeVars, ListenTypeOK, ContractTypeOK
<1>1. ASSUME NEW w \in Writers, TxStep(w) PROVE TypeOK'
  BY <1>0, <1>1 DEF TxStep, watchVars, TypeOK
<1>2. ASSUME NEW w \in Writers, CommitStep(w) PROVE TypeOK'
  <2>1. Note(w) \in ChangeEvent
    BY CommitTypes DEF TypeOK
  <2>2. inbox' \in Seq(ChangeEvent)
    BY <1>2, <2>1, CommitStepEffect, QueueType DEF TypeOK
  <2>3. states' \in Seq(StoreStates) /\ Len(states') >= 1
    <3>1. PICK ovr \in StoreStates : states' = Append(states, ovr)
      BY <1>2, CommitStepEffect
    <3> QED
      BY <3>1 DEF TypeOK
  <2> QED
    BY <1>0, <1>2, <2>2, <2>3, CommitStepEffect DEF TypeOK
<1>3. CASE Watch
  BY <1>0, <1>3 DEF Watch, WatchListen, OpenWatch, TypeOK, PGTypeOK
<1>4. CASE LoopStep
  <2>1. CASE TakeNotification(NS)
    BY <1>0, <1>4, <2>1, QueueType DEF LoopStep, TakeNotification, TypeOK
  <2>2. CASE WaitFails \/ BackoffOver \/ RelistenFails \/ ReconnectFails
    BY <1>0, <1>4, <2>2
       DEF LoopStep, WaitFails, BackoffOver, RelistenFails, ReconnectFails, TypeOK
  <2> QED
    BY <1>4, <2>1, <2>2 DEF LoopStep
<1>5. CASE NetworkStep
  BY <1>0, <1>5, QueueType DEF NetworkStep, ConnLost, TypeOK
<1>6. CASE LoopReconnect
  BY <1>0, <1>6 DEF LoopReconnect, Reconnect, TypeOK, PGTypeOK
<1>7. CASE LoopSend
  <2>1. PICK ev \in held : Deliver(ev)
    BY <1>7 DEF LoopSend
  <2>2. watchCh' \in Seq(ChangeEvent)
    BY <2>1, QueueType DEF Deliver, TypeOK
  <2> QED
    BY <1>0, <1>7, <2>1, <2>2 DEF LoopSend, Sent, Deliver, TypeOK
<1>8. CASE LoopEnds
  <2>1. << >> \in Seq(ChangeEvent) /\ {} \in SUBSET ChangeEvent
    OBVIOUS
  <2>2. ListenTypeOK'
    BY <1>8, <2>1 DEF LoopEnds, ListenExit, WaitOnNil, TypeOK
  <2>3. ContractTypeOK'
    BY <1>8 DEF LoopEnds, CloseWatch, TypeOK
  <2> QED
    BY <1>0, <1>8, <2>2, <2>3 DEF LoopEnds, TypeOK
<1>9. CASE ProviderTakes
  <2>1. Head(watchCh) \in ChangeEvent /\ watchCh' \in Seq(ChangeEvent)
    BY <1>9, QueueType DEF ProviderTakes, Receive, TypeOK
  <2>2. seenVer' \in Nat
    BY <1>9, <2>1 DEF ProviderTakes, ChangeEvent
  <2> QED
    BY <1>0, <1>9, <2>1, <2>2 DEF ProviderTakes, Receive, TypeOK
<1>10. CASE CancelWatch
  BY <1>0, <1>10 DEF CancelWatch, TypeOK
<1>11. CASE UNCHANGED vars
  BY <1>0, <1>11 DEF vars, TypeOK
<1> QED
  BY <1>1, <1>2, <1>3, <1>4, <1>5, <1>6, <1>7, <1>8, <1>9, <1>10, <1>11 DEF Next

\* Type correctness of the database, listenLoop and the watch channel.
THEOREM TypeCorrect == Spec => []TypeOK
BY InitTypeOK, NextTypeOK, DbInvariance, PTL DEF Spec

-----------------------------------------------------------------------------
(***************************************************************************)
(* The invariant of the watch.  Commit number i leads to store state i + 1;*)
(* every notification of the namespace announces a state it has reached;   *)
(* whatever is on its way to the Provider was notified by some commit.     *)
(***************************************************************************)
Numbered ==
  /\ Len(states) = Len(log) + 1
  /\ Latest = rows[NS]
  /\ \A i \in 1..Len(log) : log[i].ver = i + 1

LogAnnounces == \A i \in 1..Len(log) : log[i].ns = NS => AnnouncesChange(log[i])

\* ev is in the watch channel, held by listenLoop or queued on the connection.
OnItsWay(ev) ==
  \/ \E i \in 1..Len(watchCh) : watchCh[i] = ev
  \/ ev \in held
  \/ \E i \in 1..Len(inbox) : inbox[i] = ev

Logged(ev) == \E i \in 1..Len(log) : ev = log[i]

PipeLogged ==
  /\ \A ev \in ChangeEvent : OnItsWay(ev) => Logged(ev)
  /\ \A ev \in held : ev.ns = NS

WatchInv == Numbered /\ LogAnnounces /\ PipeLogged

\* Elements and lengths of the queues the steps build.
LEMMA QueueSteps ==
  ASSUME NEW s \in Seq(ChangeEvent)
  PROVE  /\ Len(s) \in Nat
         /\ \A i \in 1..Len(s) : s[i] \in ChangeEvent
         /\ \A n \in 0..Len(s) : /\ Len(SubSeq(s, 1, n)) = n
                                 /\ \A i \in 1..n : SubSeq(s, 1, n)[i] = s[i]
         /\ s # << >> => /\ Len(s) >= 1
                         /\ Head(s) = s[1]
                         /\ Len(Tail(s)) = Len(s) - 1
                         /\ \A i \in 1..Len(Tail(s)) : Tail(s)[i] = s[i + 1]
         /\ \A ev \in ChangeEvent :
              /\ Len(Append(s, ev)) = Len(s) + 1
              /\ \A i \in 1..Len(s) : Append(s, ev)[i] = s[i]
              /\ Append(s, ev)[Len(s) + 1] = ev
<1>1. ASSUME NEW n \in 0..Len(s)
      PROVE  Len(SubSeq(s, 1, n)) = n /\ \A i \in 1..n : SubSeq(s, 1, n)[i] = s[i]
  <2>1. n \in Int /\ \A i \in 1..n : s[i] \in ChangeEvent
    OBVIOUS
  <2>2. /\ Len(SubSeq(s, 1, n)) = IF 1 <= n THEN n - 1 + 1 ELSE 0
        /\ \A i \in 1..(n - 1 + 1) : SubSeq(s, 1, n)[i] = s[1 + i - 1]
    BY <2>1, SubSeqProperties
  <2> QED
    BY <2>2
<1>2. s # << >> => /\ Len(s) >= 1
                   /\ Head(s) = s[1]
                   /\ Len(Tail(s)) = Len(s) - 1
                   /\ \A i \in 1..Len(Tail(s)) : Tail(s)[i] = s[i + 1]
  BY HeadTailProperties
<1> QED
  BY <1>1, <1>2

\* The Provider is before Watch when the database is new.
LEMMA InitWatch == Init => WatchInv
<1> SUFFICES ASSUME Init PROVE WatchInv
  OBVIOUS
<1>1. Len(log) = 0 /\ Len(watchCh) = 0 /\ Len(inbox) = 0 /\ held = {}
  BY DEF Init, PGInit, ListenInit
<1>2. PGList(NS) = rows[NS]
  BY InitDb, ListIsRow DEF Init, DbInv
<1>3. Len(states) = 1 /\ Latest = rows[NS]
  BY <1>2 DEF Init, Latest
<1> QED
  BY <1>1, <1>3 DEF WatchInv, Numbered, LogAnnounces, PipeLogged, OnItsWay

\* Nothing but a commit puts something new on the way to the Provider.
LEMMA PipeSteps ==
  ASSUME TypeOK, [Next]_vars, NEW ev \in ChangeEvent, OnItsWay(ev)'
  PROVE  OnItsWay(ev) \/ \E w \in Writers : CommitStep(w) /\ ev = Note(w)
<1> USE DEF OnItsWay, storeVars, listenVars
<1>0. watchCh \in Seq(ChangeEvent) /\ inbox \in Seq(ChangeEvent) /\ held \subseteq ChangeEvent
  BY DEF TypeOK, ListenTypeOK, ContractTypeOK
<1>1. ASSUME NEW w \in Writers, TxStep(w) PROVE OnItsWay(ev)
  BY <1>1 DEF TxStep, watchVars
<1>2. ASSUME NEW w \in Writers, CommitStep(w) PROVE OnItsWay(ev) \/ ev = Note(w)
  <2>1. Note(w) \in ChangeEvent
    BY CommitTypes DEF TypeOK
  <2>2. held' = held /\ watchCh' = watchCh
    BY <1>2, CommitStepEffect
  <2>3. CASE inbox' = inbox
    BY <2>2, <2>3
  <2>4. CASE inbox' = Append(inbox, Note(w))
    <3>1. /\ Len(inbox) \in Nat /\ Len(inbox') = Len(inbox) + 1
          /\ \A i \in 1..Len(inbox) : inbox'[i] = inbox[i]
          /\ inbox'[Len(inbox) + 1] = Note(w)
      BY <1>0, <2>1, <2>4, QueueSteps
    <3> QED
      BY <2>2, <3>1
  <2> QED
    BY <1>2, <2>3, <2>4, CommitStepEffect
<1>3. CASE Watch
  BY <1>3 DEF Watch, WatchListen, OpenWatch
<1>4. CASE LoopStep
  <2>1. CASE TakeNotification(NS)
    <3>1. inbox # << >> /\ inbox' = Tail(inbox) /\ watchCh' = watchCh
      BY <1>4, <2>1 DEF LoopStep, TakeNotification
    <3>2. held' \subseteq held \cup {Head(inbox)}
      BY <2>1 DEF TakeNotification
    <3>3. /\ Len(inbox) \in Nat /\ Len(inbox) >= 1 /\ Head(inbox) = inbox[1]
          /\ Len(inbox') = Len(inbox) - 1
          /\ \A i \in 1..Len(inbox') : inbox'[i] = inbox[i + 1]
      BY <1>0, <3>1, QueueSteps
    <3> QED
      BY <3>1, <3>2, <3>3
  <2>2. CASE WaitFails \/ BackoffOver \/ RelistenFails \/ ReconnectFails
    BY <1>4, <2>2 DEF LoopStep, WaitFails, BackoffOver, RelistenFails, ReconnectFails
  <2> QED
    BY <1>4, <2>1, <2>2 DEF LoopStep
<1>5. CASE NetworkStep
  <2>1. PICK n \in 0..Len(inbox) : inbox' = SubSeq(inbox, 1, n)
    BY <1>5 DEF NetworkStep, ConnLost
  <2>2. Len(inbox) \in Nat /\ Len(inbox') = n /\ \A i \in 1..n : inbox'[i] = inbox[i]
    BY <1>0, <2>1, QueueSteps
  <2> QED
    BY <1>5, <2>2 DEF NetworkStep, ConnLost
<1>6. CASE LoopReconnect
  BY <1>6 DEF LoopReconnect, Reconnect
<1>7. CASE LoopSend
  <2>1. PICK e \in held : watchCh' = Append(watchCh, e)
    BY <1>7 DEF LoopSend, Deliver
  <2>2. held' = {} /\ inbox' = inbox
    BY <1>7 DEF LoopSend, Sent
  <2>3. /\ Len(watchCh) \in Nat /\ Len(watchCh') = Len(watchCh) + 1
        /\ \A i \in 1..Len(watchCh) : watchCh'[i] = watchCh[i]
        /\ watchCh'[Len(watchCh) + 1] = e
    BY <1>0, <2>1, QueueSteps
  <2> QED
    BY <2>1, <2>2, <2>3
<1>8. CASE LoopEnds
  <2>1. CASE ListenExit
    <3>1. Len(inbox') = 0 /\ held' = {} /\ watchCh' = watchCh
      BY <1>8, <2>1 DEF LoopEnds, ListenExit, CloseWatch
    <3> QED
      BY <3>1
  <2>2. CASE WaitOnNil
    BY <1>8, <2>2 DEF LoopEnds, WaitOnNil, CloseWatch
  <2> QED
    BY <1>8, <2>1, <2>2 DEF LoopEnds
<1>9. CASE ProviderTakes
  <2>1. watchCh # << >> /\ watchCh' = Tail(watchCh) /\ held' = held /\ inbox' = inbox
    BY <1>9 DEF ProviderTakes, Receive
  <2>2. /\ Len(watchCh) \in Nat /\ Len(watchCh') = Len(watchCh) - 1
        /\ \A i \in 1..Len(watchCh') : watchCh'[i] = watchCh[i + 1]
    BY <1>0, <2>1, QueueSteps
  <2> QED
    BY <2>1, <2>2
<1>10. CASE CancelWatch
  BY <1>10 DEF CancelWatch
<1>11. CASE UNCHANGED vars
  BY <1>11 DEF vars
<1> QED
  BY <1>1, <1>2, <1>3, <1>4, <1>5, <1>6, <1>7, <1>8, <1>9, <1>10, <1>11 DEF Next

\* What does not commit leaves log, rows and states alone.
LEMMA WatchCases ==
  ASSUME TypeOK, [Next]_vars
  PROVE  \/ \E w \in Writers : CommitStep(w)
         \/ UNCHANGED <<log, rows, states>>
<1> USE DEF storeVars, pgVars
<1>1. ASSUME NEW w \in Writers, TxStep(w) PROVE UNCHANGED <<log, rows, states>>
  BY <1>1 DEF TxStep, watchVars, SetRead, DeleteRow, SetUpsert, SetAudit,
              DeleteAudit, AuditInsert, Rollback
<1>2. CASE Watch \/ LoopStep \/ NetworkStep \/ LoopReconnect
  BY <1>2 DEF Watch, OpenWatch, LoopStep, NetworkStep, LoopReconnect
<1>3. CASE LoopSend \/ LoopEnds \/ ProviderTakes \/ CancelWatch
  BY <1>3 DEF LoopSend, Deliver, LoopEnds, CloseWatch, ProviderTakes, Receive,
              CancelWatch
<1>4. CASE UNCHANGED vars
  BY <1>4 DEF vars
<1> QED
  BY <1>1, <1>2, <1>3, <1>4 DEF Next

\* An announcement stays one while the store goes on.
LEMMA AnnouncementStays ==
  ASSUME TypeOK, NEW ev \in ChangeEvent, AnnouncesChange(ev), NEW ovr,
         states' = Append(states, ovr)
  PROVE  AnnouncesChange(ev)'
<1>1. /\ Len(states) \in Nat /\ Len(states') = Len(states) + 1
      /\ \A m \in 1..Len(states) : states'[m] = states[m]
  BY DEF TypeOK, ContractTypeOK
<1>2. ev.ver \in 2..Len(states) /\ ev.new = TextOf(states[ev.ver][ev.key])
  BY DEF AnnouncesChange
<1>3. PICK m \in 1..(ev.ver - 1) : ev.old = TextOf(states[m][ev.key])
  BY DEF AnnouncesChange
<1>4. states'[ev.ver] = states[ev.ver] /\ states'[m] = states[m]
  BY <1>1, <1>2, <1>3
<1> QED
  BY <1>1, <1>2, <1>3, <1>4 DEF AnnouncesChange, TextOf

\* A commit numbers its notification, and what it announces is the new state.
LEMMA CommitAnnounces ==
  ASSUME DbInv, TypeOK, WatchInv, NEW w \in Writers, CommitStep(w)
  PROVE  Numbered' /\ LogAnnounces'
<1>1. /\ Commit(w) /\ states' = Append(states, rows'[NS])
      /\ log' = Append(log, Note(w)) /\ Note(w) \in ChangeEvent
  BY CommitStepEffect, CommitEffect, CommitTypes DEF DbInv
<1>2. /\ Len(log) \in Nat /\ Len(log') = Len(log) + 1
      /\ \A i \in 1..Len(log) : log'[i] = log[i] /\ log[i] \in ChangeEvent
      /\ log'[Len(log) + 1] = Note(w)
  BY <1>1, QueueSteps DEF DbInv, PGTypeOK
<1>3. /\ Len(states) = Len(log) + 1 /\ Len(states') = Len(states) + 1
      /\ states'[Len(states')] = rows'[NS]
      /\ \A m \in 1..Len(states) : states'[m] = states[m]
      /\ states[Len(states)] = rows[NS]
  BY <1>1, <1>2 DEF TypeOK, ContractTypeOK, WatchInv, Numbered, Latest
<1>4. Note(w).ver = Len(log) + 2
  BY <1>2 DEF Note, NotifyPayload
<1>5. Numbered'
  BY <1>2, <1>3, <1>4 DEF WatchInv, Numbered, Latest
<1>6. ASSUME NEW i \in 1..Len(log), log'[i].ns = NS PROVE AnnouncesChange(log[i])'
  <2> PICK ev : ev = log[i]
    OBVIOUS
  <2>1. ev \in ChangeEvent /\ ev.ns = NS /\ log'[i] = ev
    BY <1>2, <1>6
  <2>2. AnnouncesChange(ev)
    BY <2>1 DEF WatchInv, LogAnnounces
  <2>3. AnnouncesChange(ev)'
    BY <1>1, <2>1, <2>2, AnnouncementStays
  <2> QED
    BY <2>1, <2>3
<1>7. ASSUME NEW i, i = Len(log) + 1, log'[i].ns = NS PROVE AnnouncesChange(log[i])'
  <2> PICK ev : ev = Note(w)
    OBVIOUS
  <2>1. log'[i] = ev /\ ev.ns = NS /\ tx[w].ns = NS
    BY <1>2, <1>7 DEF Note, NotifyPayload
  <2>2. tx[w].at = "audited" /\ tx[w].key \in Keys /\ ev.key = tx[w].key
    BY CommitEffect, <1>1, TxFields DEF DbInv, Note, NotifyPayload
  <2>3. ev.ver = Len(states') /\ ev.ver \in 2..Len(states')
    BY <1>2, <1>3, <1>4
  <2>4. ev.new = TextOf(states'[ev.ver][ev.key])
    <3>1. PGGet(tx[w].ns, ev.key) = rows[NS][ev.key]
      BY <2>1 DEF PGGet
    <3>2. rows'[NS][ev.key] = tx[w].new
      <4>1. \A n \in Namespaces, k \in Keys :
              PGGet(n, k)' = IF n = tx[w].ns /\ k = tx[w].key
                             THEN tx[w].new ELSE PGGet(n, k)
        BY <1>1, CommitEffect DEF DbInv
      <4> QED
        BY <2>1, <2>2, <4>1, ContractAssumption DEF PGGet
    <3> QED
      BY <1>3, <2>3, <3>2 DEF Note, NotifyPayload
  <2>5. ev.old = TextOf(states'[Len(states)][ev.key])
    <3>1. ev.old = TextOf(PGGet(tx[w].ns, tx[w].key))
      BY <2>2 DEF Note, NotifyPayload, DbInv, LockInv, LockedValue, Locking
    <3> QED
      BY <1>2, <1>3, <2>1, <2>2, <3>1 DEF PGGet
  <2>6. Len(states) \in 1..(ev.ver - 1)
    BY <1>2, <1>3, <2>3
  <2>7. AnnouncesChange(ev)'
    BY <2>1, <2>3, <2>4, <2>5, <2>6 DEF AnnouncesChange, TextOf
  <2> QED
    BY <2>1, <2>7
<1>8. \A i \in 1..Len(log') : i \in 1..Len(log) \/ i = Len(log) + 1
  BY <1>2
<1> QED
  BY <1>5, <1>6, <1>7, <1>8 DEF LogAnnounces

\* The invariant of the watch is preserved by every step.
LEMMA NextWatch == DbInv /\ TypeOK /\ WatchInv /\ [Next]_vars => WatchInv'
<1> SUFFICES ASSUME DbInv, TypeOK, WatchInv, [Next]_vars PROVE WatchInv'
  OBVIOUS
<1>1. Numbered' /\ LogAnnounces' /\ \A ev \in ChangeEvent : Logged(ev) => Logged(ev)'
  <2>1. ASSUME NEW w \in Writers, CommitStep(w)
        PROVE  /\ Numbered' /\ LogAnnounces'
               /\ \A ev \in ChangeEvent : Logged(ev) => Logged(ev)'
    <3>1. Numbered' /\ LogAnnounces'
      BY <2>1, CommitAnnounces
    <3>2. /\ Len(log) \in Nat /\ Len(log') = Len(log) + 1
          /\ \A i \in 1..Len(log) : log'[i] = log[i]
      BY <2>1, CommitNotes, TxFields DEF CommitStep, DbInv, PGTypeOK
    <3> QED
      BY <3>1, <3>2 DEF Logged
  <2>2. CASE UNCHANGED <<log, rows, states>>
    BY <2>2 DEF WatchInv, Numbered, Latest, LogAnnounces, AnnouncesChange, Logged
  <2> QED
    BY <2>1, <2>2, WatchCases
<1>2. ASSUME NEW ev \in ChangeEvent, OnItsWay(ev)' PROVE Logged(ev)'
  <2>1. CASE OnItsWay(ev)
    BY <1>1, <2>1 DEF WatchInv, PipeLogged
  <2>2. ASSUME NEW w \in Writers, CommitStep(w), ev = Note(w) PROVE Logged(ev)'
    <3>1. Len(log) \in Nat /\ Len(log') = Len(log) + 1 /\ log'[Len(log) + 1] = Note(w)
      BY <2>2, CommitNotes, TxFields DEF CommitStep, DbInv, PGTypeOK
    <3>2. Len(log) + 1 \in 1..Len(log')
      BY <3>1
    <3> QED
      BY <2>2, <3>1, <3>2 DEF Logged
  <2> QED
    BY <1>2, <2>1, <2>2, PipeSteps
<1>3. \A ev \in held' : ev.ns = NS
  <2>1. CASE held' \subseteq held
    BY <2>1 DEF WatchInv, PipeLogged
  <2>2. CASE TakeNotification(NS)
    BY <2>2 DEF TakeNotification, WatchInv, PipeLogged
  <2>3. held' \subseteq held \/ TakeNotification(NS)
    <3>1. ASSUME NEW w \in Writers, TxStep(w) \/ CommitStep(w) PROVE held' = held
      BY <3>1 DEF TxStep, watchVars, listenVars, CommitStep, Enqueue
    <3>2. CASE Watch \/ LoopStep \/ NetworkStep \/ LoopReconnect
      BY <3>2 DEF Watch, WatchListen, LoopStep, WaitFails, BackoffOver, RelistenFails,
                  ReconnectFails, NetworkStep, ConnLost, LoopReconnect, Reconnect
    <3>3. CASE LoopSend \/ LoopEnds \/ ProviderTakes \/ CancelWatch
      BY <3>3 DEF LoopSend, Sent, LoopEnds, ListenExit, WaitOnNil, ProviderTakes,
                  CancelWatch, listenVars
    <3>4. CASE UNCHANGED vars
      BY <3>4 DEF vars, listenVars
    <3> QED
      BY <3>1, <3>2, <3>3, <3>4 DEF Next
  <2> QED
    BY <2>1, <2>2, <2>3
<1> QED
  BY <1>1, <1>2, <1>3 DEF WatchInv, PipeLogged

\* The invariants hold in every reachable state.
LEMMA WatchInvariance == Spec => [](DbInv /\ TypeOK /\ WatchInv)
<1>1. Init => WatchInv
  BY InitWatch
<1> QED
  BY <1>1, NextWatch, DbInvariance, TypeCorrect, PTL DEF Spec

\* What listenLoop sends announces a state of the store.
LEMMA HeldAnnounces ==
  ASSUME TypeOK, WatchInv, NEW ev \in held
  PROVE  ev \in Announcements
<1>1. ev \in ChangeEvent /\ ev.ns = NS
  BY DEF TypeOK, ListenTypeOK, WatchInv, PipeLogged
<1>2. PICK i \in 1..Len(log) : ev = log[i]
  BY <1>1 DEF WatchInv, PipeLogged, OnItsWay, Logged
<1>3. AnnouncesChange(ev)
  BY <1>1, <1>2 DEF WatchInv, LogAnnounces
<1>4. ev.ver \in 2..Len(states)
  BY <1>3 DEF AnnouncesChange
<1> QED
  BY <1>1, <1>3, <1>4 DEF Announcements, ChangeEvent

\* Every step is a step of the contract, or one the Provider cannot notice.
LEMMA ContractStep ==
  TypeOK /\ WatchInv /\ [Next]_vars => [ContractNext]_storeVars
<1> SUFFICES ASSUME TypeOK, WatchInv, [Next]_vars
             PROVE  ContractNext \/ UNCHANGED storeVars
  OBVIOUS
<1>1. ASSUME NEW w \in Writers, TxStep(w) PROVE UNCHANGED storeVars
  BY <1>1 DEF TxStep, watchVars
<1>2. ASSUME NEW w \in Writers, CommitStep(w) PROVE ContractNext
  <2>1. PGList(NS)' \in StoreStates
    BY <1>2, CommitStepEffect
  <2>2. Change(PGList(NS)')
    BY <1>2 DEF CommitStep
  <2> QED
    BY <2>1, <2>2 DEF ContractNext
<1>3. CASE Watch
  BY <1>3 DEF Watch, ContractNext
<1>4. CASE LoopStep \/ NetworkStep \/ LoopReconnect \/ CancelWatch
  BY <1>4 DEF LoopStep, NetworkStep, LoopReconnect, CancelWatch
<1>5. CASE LoopSend
  BY <1>5, HeldAnnounces DEF LoopSend, ContractNext
<1>6. CASE LoopEnds
  BY <1>6 DEF LoopEnds, ContractNext
<1>7. CASE ProviderTakes
  BY <1>7 DEF ProviderTakes, ContractNext
<1>8. CASE UNCHANGED vars
  BY <1>8 DEF vars
<1> QED
  BY <1>1, <1>2, <1>3, <1>4, <1>5, <1>6, <1>7, <1>8 DEF Next

(***************************************************************************)
(* PGStore keeps the contract of StoreContract: the transactions, NOTIFY   *)
(* and listenLoop, with its reconnections, deliver only changes the store  *)
(* has gone through, on a bounded channel that is closed once.             *)
(***************************************************************************)
THEOREM KeepsContract == Spec => ImplementsContract
<1>1. Init => ContractInit
  <2> SUFFICES ASSUME Init PROVE ContractInit
    OBVIOUS
  <2>1. PGList(NS) \in StoreStates
    BY InitDb, ListIsRow, PGWatchAssumption DEF Init, DbInv
  <2> QED
    BY <2>1 DEF Init, ContractInit
<1> QED
  BY <1>1, ContractStep, WatchInvariance, PTL DEF Spec, ImplementsContract, ContractSpec

-----------------------------------------------------------------------------
(***************************************************************************)
(* The invariant of the order.  listenLoop holds one event exactly while   *)
(* it sends; channel, held event and connection carry ever newer commits,  *)
(* all newer than what was received; and while the connection listens,     *)
(* nothing committed since the LISTEN is missing.                          *)
(***************************************************************************)
Bounds ==
  /\ listenAt <= Len(log)
  /\ seenVer <= Len(log) + 1

OneHeld ==
  /\ loop # "send" => held = {}
  /\ \A e, f \in held : e = f

Rising(s) == \A i, j \in 1..Len(s) : i < j => s[i].ver < s[j].ver

InOrder ==
  /\ Rising(watchCh)
  /\ Rising(inbox)
  /\ \A i \in 1..Len(watchCh) :
       /\ seenVer < watchCh[i].ver
       /\ \A ev \in held : watchCh[i].ver < ev.ver
       /\ \A j \in 1..Len(inbox) : watchCh[i].ver < inbox[j].ver
  /\ \A ev \in held :
       /\ seenVer < ev.ver
       /\ \A j \in 1..Len(inbox) : ev.ver < inbox[j].ver
  /\ \A j \in 1..Len(inbox) : seenVer < inbox[j].ver

NoneMissing ==
  conn = "listening" =>
    \A i \in 1..Len(log) :
      log[i].ns = NS /\ i > listenAt /\ i + 1 > seenVer => OnItsWay(log[i])

OrderInv == Bounds /\ OneHeld /\ InOrder /\ NoneMissing

\* What the proofs use of TypeOK and of the numbers of the log.
LEMMA Queues ==
  ASSUME DbInv, TypeOK, WatchInv
  PROVE  /\ log \in Seq(ChangeEvent) /\ Len(log) \in Nat
         /\ watchCh \in Seq(ChangeEvent) /\ Len(watchCh) \in Nat
         /\ inbox \in Seq(ChangeEvent) /\ Len(inbox) \in Nat
         /\ held \subseteq ChangeEvent
         /\ \A i \in 1..Len(watchCh) :
              watchCh[i] \in ChangeEvent /\ watchCh[i].ver \in 2..(Len(log) + 1)
         /\ \A i \in 1..Len(inbox) :
              inbox[i] \in ChangeEvent /\ inbox[i].ver \in 2..(Len(log) + 1)
         /\ \A ev \in held : ev.ver \in 2..(Len(log) + 1)
         /\ listenAt \in Nat /\ seenVer \in Nat
<1>1. /\ log \in Seq(ChangeEvent) /\ Len(log) \in Nat
      /\ watchCh \in Seq(ChangeEvent) /\ Len(watchCh) \in Nat
      /\ inbox \in Seq(ChangeEvent) /\ Len(inbox) \in Nat
      /\ held \subseteq ChangeEvent
      /\ listenAt \in Nat /\ seenVer \in Nat
  BY DEF TypeOK, PGTypeOK, ListenTypeOK, ContractTypeOK
<1>2. /\ \A i \in 1..Len(watchCh) : watchCh[i] \in ChangeEvent
      /\ \A i \in 1..Len(inbox) : inbox[i] \in ChangeEvent
  BY <1>1, QueueSteps
<1>3. ASSUME NEW ev \in ChangeEvent, OnItsWay(ev) PROVE ev.ver \in 2..(Len(log) + 1)
  <2>1. PICK i \in 1..Len(log) : ev = log[i]
    BY <1>3 DEF WatchInv, PipeLogged, Logged
  <2>2. ev.ver = i + 1
    BY <2>1 DEF WatchInv, Numbered
  <2> QED
    BY <1>1, <2>2
<1> QED
  BY <1>1, <1>2, <1>3 DEF OnItsWay

\* Nothing is on its way when the database is new.
LEMMA InitOrder == Init => OrderInv
<1> SUFFICES ASSUME Init PROVE OrderInv
  OBVIOUS
<1>1. Len(log) = 0 /\ Len(watchCh) = 0 /\ Len(inbox) = 0 /\ held = {}
  BY DEF Init, PGInit, ListenInit
<1>2. listenAt = 0 /\ seenVer = 1 /\ conn = "none"
  BY DEF Init, ListenInit
<1> QED
  BY <1>1, <1>2 DEF OrderInv, Bounds, OneHeld, InOrder, Rising, NoneMissing

\* A commit is newer than all that is on its way.
LEMMA CommitOrder ==
  ASSUME DbInv, TypeOK, WatchInv, OrderInv, NEW w \in Writers, CommitStep(w)
  PROVE  OrderInv'
<1> USE DEF OrderInv
<1>1. /\ Commit(w) /\ held' = held /\ watchCh' = watchCh
      /\ inbox' = IF conn = "listening" THEN Append(inbox, Note(w)) ELSE inbox
      /\ UNCHANGED <<conn, loop, listenAt, seenVer>>
  BY CommitStepEffect
<1>2. Note(w) \in ChangeEvent /\ Note(w).ver = Len(log) + 2
  <2>1. Note(w) \in ChangeEvent
    BY CommitTypes DEF DbInv
  <2>2. Note(w).ver = Len(log) + 1 + 1 /\ Len(log) \in Nat
    BY Queues DEF Note, NotifyPayload
  <2> QED
    BY <2>1, <2>2
<1>3. /\ Len(log') = Len(log) + 1
      /\ \A i \in 1..Len(log) : log'[i] = log[i]
      /\ log'[Len(log) + 1] = Note(w)
  BY <1>1, CommitNotes, TxFields DEF DbInv
<1>4. Bounds' /\ OneHeld'
  BY <1>1, <1>3, Queues DEF Bounds, OneHeld
<1>5. CASE conn # "listening"
  <2>1. inbox' = inbox
    BY <1>1, <1>5
  <2>2. InOrder'
    BY <1>1, <2>1 DEF InOrder, Rising
  <2>3. NoneMissing'
    BY <1>1, <1>5 DEF NoneMissing
  <2> QED
    BY <1>4, <2>2, <2>3
<1>6. CASE conn = "listening"
  <2>1. /\ Len(inbox') = Len(inbox) + 1
        /\ \A i \in 1..Len(inbox) : inbox'[i] = inbox[i]
        /\ inbox'[Len(inbox) + 1] = Note(w)
    BY <1>1, <1>2, <1>6, Queues, QueueSteps
  <2>2. \A j \in 1..Len(inbox') : j \in 1..Len(inbox) \/ j = Len(inbox) + 1
    BY <2>1, Queues
  <2>3. Rising(inbox)'
    <3> SUFFICES ASSUME NEW i \in 1..Len(inbox'), NEW j \in 1..Len(inbox'), i < j
                 PROVE  inbox'[i].ver < inbox'[j].ver
      BY DEF Rising
    <3>1. i \in 1..Len(inbox) /\ inbox'[i] = inbox[i] /\ inbox[i].ver < Len(log) + 2
      BY <2>1, Queues
    <3>2. CASE j \in 1..Len(inbox)
      BY <2>1, <3>1, <3>2 DEF Rising, InOrder
    <3>3. CASE j = Len(inbox) + 1
      BY <1>2, <2>1, <3>1, <3>3
    <3> QED
      BY <2>2, <3>2, <3>3
  <2>4. InOrder'
    <3>1. ASSUME NEW j \in 1..Len(inbox')
          PROVE  /\ seenVer < inbox'[j].ver
                 /\ \A ev \in held : ev.ver < inbox'[j].ver
                 /\ \A i \in 1..Len(watchCh) : watchCh[i].ver < inbox'[j].ver
      <4>1. CASE j \in 1..Len(inbox)
        BY <2>1, <4>1 DEF InOrder
      <4>2. CASE j = Len(inbox) + 1
        <5>1. inbox'[j].ver = Len(log) + 2
          BY <1>2, <2>1, <4>2
        <5> QED
          BY <5>1, Queues DEF Bounds
      <4> QED
        BY <2>2, <4>1, <4>2
    <3> QED
      BY <1>1, <2>3, <3>1 DEF InOrder, Rising
  <2>5. NoneMissing'
    <3> SUFFICES ASSUME NEW i \in 1..Len(log'), log'[i].ns = NS, i > listenAt,
                        i + 1 > seenVer
                 PROVE  OnItsWay(log[i])'
      BY <1>1 DEF NoneMissing
    <3>1. CASE i \in 1..Len(log)
      <4>1. log'[i] = log[i] /\ OnItsWay(log[i])
        BY <1>3, <1>6, <3>1 DEF NoneMissing
      <4>2. \A j \in 1..Len(inbox) : j \in 1..Len(inbox')
        BY <2>1, Queues
      <4> QED
        BY <1>1, <2>1, <4>1, <4>2 DEF OnItsWay
    <3>2. CASE i = Len(log) + 1
      <4>1. Len(inbox) + 1 \in 1..Len(inbox')
        BY <2>1, Queues
      <4> QED
        BY <1>3, <2>1, <3>2, <4>1 DEF OnItsWay
    <3> QED
      BY <1>3, <3>1, <3>2, Queues
  <2> QED
    BY <1>4, <2>4, <2>5
<1> QED
  BY <1>5, <1>6

\* A step that moves nothing and does not start to listen.
LEMMA StillOrder ==
  ASSUME OrderInv,
         UNCHANGED <<log, watchCh, held, inbox, listenAt, seenVer>>,
         conn' = "listening" => conn = "listening",
         loop = "send" => loop' = "send"
  PROVE  OrderInv'
<1>1. Bounds' /\ OneHeld'
  BY DEF OrderInv, Bounds, OneHeld
<1>2. InOrder'
  BY DEF OrderInv, InOrder, Rising
<1>3. NoneMissing'
  BY DEF OrderInv, NoneMissing, OnItsWay
<1> QED
  BY <1>1, <1>2, <1>3 DEF OrderInv

\* A LISTEN: nothing is committed since then.
LEMMA ListenOrder ==
  ASSUME DbInv, TypeOK, WatchInv, OrderInv,
         UNCHANGED <<log, watchCh, held, inbox, seenVer>>,
         listenAt' = Len(log), loop # "send"
  PROVE  OrderInv'
<1>0. Len(log) \in Nat
  BY Queues
<1>1. Bounds' /\ OneHeld'
  BY <1>0 DEF OrderInv, Bounds, OneHeld
<1>2. InOrder'
  BY DEF OrderInv, InOrder, Rising
<1>3. NoneMissing'
  BY <1>0 DEF NoneMissing
<1> QED
  BY <1>1, <1>2, <1>3 DEF OrderInv

\* listenLoop takes a notification, to send it or to skip it.
LEMMA TakeOrder ==
  ASSUME DbInv, TypeOK, WatchInv, OrderInv, TakeNotification(NS),
         UNCHANGED <<log, watchCh, listenAt, seenVer>>
  PROVE  OrderInv'
<1>1. /\ loop = "wait" /\ inbox # << >> /\ inbox' = Tail(inbox) /\ conn' = conn
      /\ Head(inbox).ns = NS => loop' = "send" /\ held' = {Head(inbox)}
      /\ Head(inbox).ns # NS => held' = held
  BY DEF TakeNotification
<1>2. held = {}
  BY <1>1 DEF OrderInv, OneHeld
<1>3. /\ Len(inbox) \in Nat /\ Len(inbox) >= 1 /\ Head(inbox) = inbox[1]
      /\ Len(inbox') = Len(inbox) - 1
      /\ \A i \in 1..Len(inbox') : inbox'[i] = inbox[i + 1]
  BY <1>1, Queues, QueueSteps
<1>4. Bounds' /\ OneHeld'
  BY <1>1, <1>2 DEF OrderInv, Bounds, OneHeld
<1>5. \A j \in 1..Len(inbox') : j + 1 \in 1..Len(inbox) /\ 1 < j + 1
  BY <1>3
<1>6. held' \subseteq {inbox[1]} /\ 1 \in 1..Len(inbox)
  BY <1>1, <1>2, <1>3
<1>7. InOrder'
  <2>1. Rising(inbox)'
    <3> SUFFICES ASSUME NEW i \in 1..Len(inbox'), NEW j \in 1..Len(inbox'), i < j
                 PROVE  inbox'[i].ver < inbox'[j].ver
      BY DEF Rising
    <3>1. i + 1 < j + 1
      BY <1>3
    <3> QED
      BY <1>3, <1>5, <3>1 DEF OrderInv, InOrder, Rising
  <2>2. Rising(watchCh)'
    BY DEF OrderInv, InOrder, Rising
  <2>3. \A i \in 1..Len(watchCh) :
          /\ seenVer < watchCh[i].ver
          /\ \A ev \in held' : watchCh[i].ver < ev.ver
          /\ \A j \in 1..Len(inbox') : watchCh[i].ver < inbox'[j].ver
    BY <1>3, <1>5, <1>6 DEF OrderInv, InOrder
  <2>4. \A ev \in held' : /\ seenVer < ev.ver
                          /\ \A j \in 1..Len(inbox') : ev.ver < inbox'[j].ver
    BY <1>3, <1>5, <1>6 DEF OrderInv, InOrder, Rising
  <2>5. \A j \in 1..Len(inbox') : seenVer < inbox'[j].ver
    BY <1>3, <1>5 DEF OrderInv, InOrder
  <2> QED
    BY <2>1, <2>2, <2>3, <2>4, <2>5 DEF InOrder
<1>8. ASSUME NEW ev, ev.ns = NS, OnItsWay(ev) PROVE OnItsWay(ev)'
  <2>1. ASSUME NEW j \in 1..Len(inbox), inbox[j] = ev PROVE OnItsWay(ev)'
    <3>1. CASE j = 1
      BY <1>1, <1>3, <1>8, <2>1, <3>1 DEF OnItsWay
    <3>2. CASE j # 1
      <4>1. j - 1 \in 1..Len(inbox') /\ inbox'[j - 1] = ev
        BY <1>3, <2>1, <3>2
      <4> QED
        BY <4>1 DEF OnItsWay
    <3> QED
      BY <3>1, <3>2
  <2> QED
    BY <1>2, <1>8, <2>1 DEF OnItsWay
<1>9. NoneMissing'
  BY <1>1, <1>8 DEF OrderInv, NoneMissing
<1> QED
  BY <1>4, <1>7, <1>9 DEF OrderInv

\* What a broken connection has lost was queued behind what arrives.
LEMMA LostOrder ==
  ASSUME DbInv, TypeOK, WatchInv, OrderInv, ConnLost,
         UNCHANGED <<log, watchCh, listenAt, seenVer>>
  PROVE  OrderInv'
<1>1. conn' = "lost" /\ UNCHANGED <<loop, held>>
  BY DEF ConnLost
<1>2. PICK n \in 0..Len(inbox) : inbox' = SubSeq(inbox, 1, n)
  BY DEF ConnLost
<1>3. /\ Len(inbox) \in Nat /\ Len(inbox') = n
      /\ \A i \in 1..n : inbox'[i] = inbox[i] /\ i \in 1..Len(inbox)
  BY <1>2, Queues, QueueSteps
<1>4. Bounds' /\ OneHeld' /\ NoneMissing'
  BY <1>1 DEF OrderInv, Bounds, OneHeld, NoneMissing
<1>5. InOrder'
  BY <1>1, <1>3 DEF OrderInv, InOrder, Rising
<1> QED
  BY <1>4, <1>5 DEF OrderInv

\* The event listenLoop holds goes behind the others of the channel.
LEMMA SendOrder ==
  ASSUME DbInv, TypeOK, WatchInv, OrderInv, LoopSend
  PROVE  OrderInv'
<1>1. PICK ev \in held : watchCh' = Append(watchCh, ev)
  BY DEF LoopSend, Deliver
<1>2. held' = {} /\ UNCHANGED <<log, inbox, conn, listenAt, seenVer>>
  BY DEF LoopSend, Sent, pgVars
<1>3. held = {ev}
  BY DEF OrderInv, OneHeld
<1>4. /\ Len(watchCh) \in Nat /\ Len(watchCh') = Len(watchCh) + 1
      /\ \A i \in 1..Len(watchCh) : watchCh'[i] = watchCh[i]
      /\ watchCh'[Len(watchCh) + 1] = ev
  BY <1>1, Queues, QueueSteps
<1>5. \A i \in 1..Len(watchCh') : i \in 1..Len(watchCh) \/ i = Len(watchCh) + 1
  BY <1>4
<1>6. Bounds' /\ OneHeld'
  BY <1>2 DEF OrderInv, Bounds, OneHeld
<1>7. InOrder'
  <2>1. Rising(watchCh)'
    <3> SUFFICES ASSUME NEW i \in 1..Len(watchCh'), NEW j \in 1..Len(watchCh'), i < j
                 PROVE  watchCh'[i].ver < watchCh'[j].ver
      BY DEF Rising
    <3>1. i \in 1..Len(watchCh)
      BY <1>4
    <3>2. CASE j \in 1..Len(watchCh)
      BY <1>4, <3>1, <3>2 DEF OrderInv, InOrder, Rising
    <3>3. CASE j = Len(watchCh) + 1
      BY <1>4, <3>1, <3>3 DEF OrderInv, InOrder
    <3> QED
      BY <1>5, <3>2, <3>3
  <2>2. \A i \in 1..Len(watchCh') :
          /\ seenVer < watchCh'[i].ver
          /\ \A j \in 1..Len(inbox) : watchCh'[i].ver < inbox[j].ver
    BY <1>4, <1>5 DEF OrderInv, InOrder
  <2> QED
    BY <1>2, <2>1, <2>2 DEF OrderInv, InOrder, Rising
<1>8. ASSUME NEW e, OnItsWay(e) PROVE OnItsWay(e)'
  <2>1. Len(watchCh) + 1 \in 1..Len(watchCh') /\ \A i \in 1..Len(watchCh) : i \in 1..Len(watchCh')
    BY <1>4
  <2> QED
    BY <1>2, <1>3, <1>4, <1>8, <2>1 DEF OnItsWay
<1>9. NoneMissing'
  BY <1>2, <1>8 DEF OrderInv, NoneMissing
<1> QED
  BY <1>6, <1>7, <1>9 DEF OrderInv

\* The Provider receives the oldest of what is on its way.
LEMMA TakesOrder ==
  ASSUME DbInv, TypeOK, WatchInv, OrderInv, ProviderTakes
  PROVE  OrderInv'
<1>1. /\ watchCh # << >> /\ watchCh' = Tail(watchCh) /\ seenVer' = Head(watchCh).ver
      /\ UNCHANGED <<log, inbox, held, loop, conn, listenAt>>
  BY DEF ProviderTakes, Receive, pgVars, listenVars
<1>2. /\ Len(watchCh) \in Nat /\ Len(watchCh) >= 1 /\ seenVer' = watchCh[1].ver
      /\ Len(watchCh') = Len(watchCh) - 1
      /\ \A i \in 1..Len(watchCh') : watchCh'[i] = watchCh[i + 1]
  BY <1>1, Queues, QueueSteps
<1>3. 1 \in 1..Len(watchCh) /\ \A j \in 1..Len(watchCh') : j + 1 \in 1..Len(watchCh) /\ 1 < j + 1
  BY <1>2
<1>4. Bounds' /\ OneHeld'
  <2>1. watchCh[1].ver <= Len(log) + 1
    BY <1>3, Queues
  <2> QED
    BY <1>1, <1>2, <2>1 DEF OrderInv, Bounds, OneHeld
<1>5. InOrder'
  <2>1. Rising(watchCh)'
    <3> SUFFICES ASSUME NEW i \in 1..Len(watchCh'), NEW j \in 1..Len(watchCh'), i < j
                 PROVE  watchCh'[i].ver < watchCh'[j].ver
      BY DEF Rising
    <3>1. i + 1 < j + 1
      BY <1>2
    <3> QED
      BY <1>2, <1>3, <3>1 DEF OrderInv, InOrder, Rising
  <2>2. \A i \in 1..Len(watchCh') :
          /\ seenVer' < watchCh'[i].ver
          /\ \A ev \in held : watchCh'[i].ver < ev.ver
          /\ \A j \in 1..Len(inbox) : watchCh'[i].ver < inbox[j].ver
    BY <1>2, <1>3 DEF OrderInv, InOrder, Rising
  <2>3. /\ \A ev \in held : seenVer' < ev.ver
        /\ \A j \in 1..Len(inbox) : seenVer' < inbox[j].ver
    BY <1>2, <1>3 DEF OrderInv, InOrder
  <2> QED
    BY <1>1, <2>1, <2>2, <2>3 DEF OrderInv, InOrder, Rising
<1>6. NoneMissing'
  <2> SUFFICES ASSUME conn = "listening", NEW i \in 1..Len(log), log[i].ns = NS,
                      i > listenAt, i + 1 > seenVer'
               PROVE  OnItsWay(log[i])'
    BY <1>1 DEF NoneMissing
  <2>1. log[i].ver = i + 1 /\ seenVer < seenVer' /\ i + 1 > seenVer
    BY <1>2, <1>3, Queues DEF WatchInv, Numbered, OrderInv, InOrder
  <2>2. OnItsWay(log[i])
    BY <2>1 DEF OrderInv, NoneMissing
  <2>3. ASSUME NEW j \in 1..Len(watchCh), watchCh[j] = log[i] PROVE OnItsWay(log[i])'
    <3>1. j # 1
      BY <1>2, <2>1, <2>3, Queues
    <3>2. j - 1 \in 1..Len(watchCh') /\ watchCh'[j - 1] = log[i]
      BY <1>2, <2>3, <3>1
    <3> QED
      BY <1>1, <3>2 DEF OnItsWay
  <2> QED
    BY <1>1, <2>2, <2>3 DEF OnItsWay
<1> QED
  BY <1>4, <1>5, <1>6 DEF OrderInv

\* The invariant of the order is preserved by every step.
LEMMA NextOrder == DbInv /\ TypeOK /\ WatchInv /\ OrderInv /\ [Next]_vars => OrderInv'
<1> SUFFICES ASSUME DbInv, TypeOK, WatchInv, OrderInv, [Next]_vars PROVE OrderInv'
  OBVIOUS
<1> USE DEF pgVars, storeVars
<1>1. ASSUME NEW w \in Writers, TxStep(w) PROVE OrderInv'
  <2>1. UNCHANGED <<log, watchCh, held, inbox, listenAt, seenVer, conn, loop>>
    BY <1>1, TxLocks DEF TxStep, watchVars, listenVars, TxEffect, DbInv
  <2> QED
    BY <2>1, StillOrder
<1>2. ASSUME NEW w \in Writers, CommitStep(w) PROVE OrderInv'
  BY <1>2, CommitOrder
<1>3. CASE Watch
  BY <1>3, ListenOrder DEF Watch, WatchListen, OpenWatch
<1>4. CASE LoopStep
  <2>1. CASE TakeNotification(NS)
    BY <1>4, <2>1, TakeOrder DEF LoopStep
  <2>2. CASE WaitFails \/ BackoffOver \/ RelistenFails \/ ReconnectFails
    BY <1>4, <2>2, StillOrder
       DEF LoopStep, WaitFails, BackoffOver, RelistenFails, ReconnectFails
  <2> QED
    BY <1>4, <2>1, <2>2 DEF LoopStep
<1>5. CASE NetworkStep
  BY <1>5, LostOrder DEF NetworkStep
<1>6. CASE LoopReconnect
  BY <1>6, ListenOrder DEF LoopReconnect, Reconnect
<1>7. CASE LoopSend
  BY <1>7, SendOrder
<1>8. CASE LoopEnds
  <2>1. CASE WaitOnNil
    BY <1>8, <2>1, StillOrder DEF LoopEnds, WaitOnNil, CloseWatch
  <2>2. CASE ListenExit
    <3>1. /\ conn' = "closed" /\ held' = {} /\ Len(inbox') = 0
          /\ UNCHANGED <<log, watchCh, listenAt, seenVer>>
      BY <1>8, <2>2 DEF LoopEnds, ListenExit, CloseWatch
    <3>2. Bounds' /\ OneHeld' /\ NoneMissing'
      BY <3>1 DEF OrderInv, Bounds, OneHeld, NoneMissing
    <3>3. InOrder'
      BY <3>1 DEF OrderInv, InOrder, Rising
    <3> QED
      BY <3>2, <3>3 DEF OrderInv
  <2> QED
    BY <1>8, <2>1, <2>2 DEF LoopEnds
<1>9. CASE ProviderTakes
  BY <1>9, TakesOrder
<1>10. CASE CancelWatch
  BY <1>10, StillOrder DEF CancelWatch, listenVars
<1>11. CASE UNCHANGED vars
  BY <1>11, StillOrder DEF vars, listenVars
<1> QED
  BY <1>1, <1>2, <1>3, <1>4, <1>5, <1>6, <1>7, <1>8, <1>9, <1>10, <1>11 DEF Next

\* Two queues in a row, the first of them older.
LEMMA ConcatQueues ==
  ASSUME NEW s \in Seq(ChangeEvent), NEW t \in Seq(ChangeEvent)
  PROVE  /\ s \o t \in Seq(ChangeEvent)
         /\ Rising(s) /\ Rising(t)
            /\ (\A i \in 1..Len(s), j \in 1..Len(t) : s[i].ver < t[j].ver)
            => Rising(s \o t)
         /\ \A ev : (\E i \in 1..Len(s \o t) : (s \o t)[i] = ev) <=>
                      \/ \E i \in 1..Len(s) : s[i] = ev
                      \/ \E i \in 1..Len(t) : t[i] = ev
<1>1. /\ s \o t \in Seq(ChangeEvent)
      /\ Len(s) \in Nat /\ Len(t) \in Nat /\ Len(s \o t) = Len(s) + Len(t)
      /\ \A i \in 1..(Len(s) + Len(t)) :
           (s \o t)[i] = IF i <= Len(s) THEN s[i] ELSE t[i - Len(s)]
  BY ConcatProperties
<1>2. ASSUME Rising(s), Rising(t),
             \A i \in 1..Len(s), j \in 1..Len(t) : s[i].ver < t[j].ver
      PROVE  Rising(s \o t)
  <2> SUFFICES ASSUME NEW i \in 1..Len(s \o t), NEW j \in 1..Len(s \o t), i < j
               PROVE  (s \o t)[i].ver < (s \o t)[j].ver
    BY DEF Rising
  <2>1. CASE j <= Len(s)
    <3>1. i \in 1..Len(s) /\ j \in 1..Len(s) /\ (s \o t)[i] = s[i] /\ (s \o t)[j] = s[j]
      BY <1>1, <2>1
    <3> QED
      BY <1>2, <3>1 DEF Rising
  <2>2. CASE i > Len(s)
    <3>1. /\ i - Len(s) \in 1..Len(t) /\ j - Len(s) \in 1..Len(t)
          /\ (s \o t)[i] = t[i - Len(s)] /\ (s \o t)[j] = t[j - Len(s)]
          /\ i - Len(s) < j - Len(s)
      BY <1>1, <2>2
    <3> QED
      BY <1>2, <3>1 DEF Rising
  <2>3. CASE i <= Len(s) /\ j > Len(s)
    <3>1. /\ i \in 1..Len(s) /\ j - Len(s) \in 1..Len(t)
          /\ (s \o t)[i] = s[i] /\ (s \o t)[j] = t[j - Len(s)]
      BY <1>1, <2>3
    <3> QED
      BY <1>2, <3>1
  <2> QED
    BY <1>1, <2>1, <2>2, <2>3
<1>3. ASSUME NEW ev, NEW i \in 1..Len(s \o t), (s \o t)[i] = ev
      PROVE  (\E j \in 1..Len(s) : s[j] = ev) \/ (\E j \in 1..Len(t) : t[j] = ev)
  <2>1. CASE i <= Len(s)
    BY <1>1, <1>3, <2>1
  <2>2. CASE i > Len(s)
    <3>1. i - Len(s) \in 1..Len(t) /\ t[i - Len(s)] = ev
      BY <1>1, <1>3, <2>2
    <3> QED
      BY <3>1
  <2> QED
    BY <1>1, <2>1, <2>2
<1>4. ASSUME NEW ev, NEW j \in 1..Len(s), s[j] = ev
      PROVE  \E i \in 1..Len(s \o t) : (s \o t)[i] = ev
  <2>1. j \in 1..Len(s \o t) /\ (s \o t)[j] = ev
    BY <1>1, <1>4
  <2> QED
    BY <2>1
<1>5. ASSUME NEW ev, NEW j \in 1..Len(t), t[j] = ev
      PROVE  \E i \in 1..Len(s \o t) : (s \o t)[i] = ev
  <2>1. j + Len(s) \in 1..Len(s \o t) /\ (s \o t)[j + Len(s)] = ev
    BY <1>1, <1>5
  <2> QED
    BY <2>1
<1> QED
  BY <1>1, <1>2, <1>3, <1>4, <1>5

\* The elements of Pipeline, and their order.
LEMMA PipelineParts ==
  ASSUME DbInv, TypeOK, WatchInv, OrderInv
  PROVE  /\ Pipeline \in Seq(ChangeEvent)
         /\ Rising(Pipeline)
         /\ \A ev : (\E i \in 1..Len(Pipeline) : Pipeline[i] = ev) <=> OnItsWay(ev)
<1> DEFINE mid == IF held = {} THEN << >> ELSE <<CHOOSE ev \in held : TRUE>>
<1>0. watchCh \in Seq(ChangeEvent) /\ inbox \in Seq(ChangeEvent)
  BY Queues
<1>1. /\ mid \in Seq(ChangeEvent)
      /\ Rising(mid)
      /\ \A ev : (\E i \in 1..Len(mid) : mid[i] = ev) <=> ev \in held
  <2>1. CASE held = {}
    BY <2>1 DEF Rising
  <2>2. CASE held # {}
    <3>1. PICK e : e = CHOOSE ev \in held : TRUE
      OBVIOUS
    <3>2. e \in held
      BY <2>2, <3>1
    <3>3. held = {e} /\ e \in ChangeEvent
      BY <3>2, Queues DEF OrderInv, OneHeld
    <3>4. mid = <<e>>
      BY <2>2, <3>1
    <3>5. mid \in Seq(ChangeEvent) /\ Len(mid) = 1 /\ mid[1] = e
      BY <3>3, <3>4
    <3> HIDE DEF mid
    <3>6. \A i \in 1..Len(mid) : i = 1
      BY <3>5
    <3>7. Rising(mid)
      BY <3>6 DEF Rising
    <3>8. 1 \in 1..Len(mid)
      BY <3>5
    <3> QED
      BY <3>3, <3>5, <3>6, <3>7, <3>8
  <2> QED
    BY <2>1, <2>2
<1>2. Pipeline = (watchCh \o mid) \o inbox
  BY DEF Pipeline
<1> HIDE DEF mid
<1>3. \A i \in 1..Len(mid) : mid[i] \in held
  BY <1>1
<1>4. /\ watchCh \o mid \in Seq(ChangeEvent)
      /\ \A ev : (\E i \in 1..Len(watchCh \o mid) : (watchCh \o mid)[i] = ev) <=>
                   \/ \E i \in 1..Len(watchCh) : watchCh[i] = ev
                   \/ ev \in held
  <2>1. mid \in Seq(ChangeEvent)
    BY <1>1
  <2>2. /\ watchCh \o mid \in Seq(ChangeEvent)
        /\ \A ev : (\E i \in 1..Len(watchCh \o mid) : (watchCh \o mid)[i] = ev) <=>
                     \/ \E i \in 1..Len(watchCh) : watchCh[i] = ev
                     \/ \E i \in 1..Len(mid) : mid[i] = ev
    BY <1>0, <2>1, ConcatQueues, Zenon
  <2> QED
    BY <1>1, <2>2, Zenon
<1>5. Rising(watchCh \o mid)
  BY <1>0, <1>1, <1>3, ConcatQueues DEF OrderInv, InOrder
<1>6. \A i \in 1..Len(watchCh \o mid), j \in 1..Len(inbox) :
        (watchCh \o mid)[i].ver < inbox[j].ver
  <2> SUFFICES ASSUME NEW i \in 1..Len(watchCh \o mid), NEW j \in 1..Len(inbox)
               PROVE  (watchCh \o mid)[i].ver < inbox[j].ver
    OBVIOUS
  <2> PICK e : e = (watchCh \o mid)[i]
    OBVIOUS
  <2>1. (\E h \in 1..Len(watchCh) : watchCh[h] = e) \/ e \in held
    BY <1>4
  <2> QED
    BY <2>1 DEF OrderInv, InOrder
<1>7. Rising(inbox)
  BY DEF OrderInv, InOrder
<1>8. Pipeline \in Seq(ChangeEvent) /\ Rising(Pipeline)
  BY <1>0, <1>2, <1>4, <1>5, <1>6, <1>7, ConcatQueues
<1>9. \A ev : (\E i \in 1..Len(Pipeline) : Pipeline[i] = ev) <=>
                \/ \E i \in 1..Len(watchCh \o mid) : (watchCh \o mid)[i] = ev
                \/ \E i \in 1..Len(inbox) : inbox[i] = ev
  <2> PICK first : first = watchCh \o mid
    OBVIOUS
  <2>1. first \in Seq(ChangeEvent)
    BY <1>4
  <2>2. \A ev : (\E i \in 1..Len(first \o inbox) : (first \o inbox)[i] = ev) <=>
                  \/ \E i \in 1..Len(first) : first[i] = ev
                  \/ \E i \in 1..Len(inbox) : inbox[i] = ev
    BY <1>0, <2>1, ConcatQueues, Zenon
  <2>3. Pipeline = first \o inbox
    BY <1>2
  <2> QED
    BY <2>2, <2>3, Zenon
<1>10. \A ev : (\E i \in 1..Len(Pipeline) : Pipeline[i] = ev) <=> OnItsWay(ev)
  BY <1>4, <1>9, Zenon DEF OnItsWay
<1> QED
  BY <1>8, <1>10

\* The invariants imply that what the loop delivers is exact.
LEMMA OrderIsExact == DbInv /\ TypeOK /\ WatchInv /\ OrderInv => ListenIsExact
<1> SUFFICES ASSUME DbInv, TypeOK, WatchInv, OrderInv PROVE ListenIsExact
  OBVIOUS
<1> DEFINE Mine(ev) == ev.ns = NS /\ ev.ver > listenAt + 1
<1>1. /\ Pipeline \in Seq(ChangeEvent)
      /\ \A i, j \in 1..Len(Pipeline) : i < j => Pipeline[i].ver < Pipeline[j].ver
  BY PipelineParts DEF Rising
<1>2. \A ev : ev \in ToSet(Pipeline) <=> OnItsWay(ev)
  BY <1>1, PipelineParts DEF ToSet
<1>3. \A ev : ev \in ToSet(log) <=> Logged(ev)
  BY Queues DEF ToSet, Logged
<1>4. \A ev : OnItsWay(ev) => seenVer < ev.ver
  BY DEF OrderInv, InOrder, OnItsWay
<1>5. \A i \in 1..Len(Pipeline) : seenVer < Pipeline[i].ver
  BY <1>4, PipelineParts
<1>6. ASSUME conn = "listening", NEW ev, OnItsWay(ev) PROVE Logged(ev) /\ seenVer < ev.ver
  <2>1. ev \in ChangeEvent
    BY <1>6, Queues DEF OnItsWay
  <2> QED
    BY <1>4, <1>6, <2>1 DEF WatchInv, PipeLogged
<1>7. ASSUME conn = "listening", NEW ev, Logged(ev), Mine(ev), ev.ver > seenVer
      PROVE  OnItsWay(ev)
  <2>1. PICK i \in 1..Len(log) : ev = log[i]
    BY <1>7 DEF Logged
  <2>2. ev.ver = i + 1 /\ i > listenAt
    BY <1>7, <2>1, Queues DEF WatchInv, Numbered
  <2> QED
    BY <1>7, <2>1, <2>2 DEF OrderInv, NoneMissing
<1>8. ASSUME conn = "listening"
      PROVE  {ev \in ToSet(Pipeline) : Mine(ev)}
               = {ev \in ToSet(log) : Mine(ev) /\ ev.ver > seenVer}
  <2>0. seenVer \in Nat /\ \A ev \in ToSet(log) : ev.ver \in Nat
    BY Queues DEF ToSet, WatchInv, Numbered
  <2> HIDE DEF Mine
  <2>1. ASSUME NEW ev
        PROVE  ev \in ToSet(Pipeline) /\ Mine(ev)
               <=> ev \in ToSet(log) /\ Mine(ev) /\ ev.ver > seenVer
    <3>1. OnItsWay(ev) => Logged(ev) /\ seenVer < ev.ver
      BY <1>6, <1>8
    <3>2. Logged(ev) /\ Mine(ev) /\ ev.ver > seenVer => OnItsWay(ev)
      BY <1>7, <1>8
    <3>3. ev \in ToSet(log) => (seenVer < ev.ver <=> ev.ver > seenVer)
      BY <2>0
    <3> QED
      BY <1>2, <1>3, <3>1, <3>2, <3>3
  <2> QED
    BY <2>1
<1> QED
  BY <1>1, <1>5, <1>8 DEF ListenIsExact

(***************************************************************************)
(* While the connection listens the Provider misses nothing, whatever the  *)
(* network did before and however long a send blocks; and it never gets an *)
(* event twice, late or out of commit order.                               *)
(***************************************************************************)
THEOREM ListenerIsExact == Spec => []ListenIsExact
BY InitOrder, NextOrder, WatchInvariance, OrderIsExact, PTL DEF Spec

=============================================================================

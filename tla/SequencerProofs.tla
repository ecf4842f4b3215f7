--------------------------- MODULE SequencerProofs ---------------------------
(***************************************************************************)
(* The indices the sequencer hands out are gapless, durable and, in Rekor  *)
(* mode, unique per entry, for any number of processes that share the      *)
(* database, any batch and channel sizes, and any number of crashes, lost  *)
(* acknowledgements and failed transactions.                               *)
(*                                                                         *)
(* The argument follows the writer lock: only its holder has uncommitted   *)
(* work, and while it holds the lock the committed state stands still. So  *)
(* the rows of the open transaction always continue the committed ones     *)
(* (View), its reservations are the inverse of that view, and the results  *)
(* gathered so far are true of it; the commit makes the view the state.    *)
(***************************************************************************)
EXTENDS Sequencer, FiniteSetTheorems, TLAPS

Partial(A, B) == UNION {[S -> B] : S \in SUBSET A}

Results == [kind : {"index", "duplicate", "error", "none"}, idx : Nat]
Txns    == [next : Nat, rows : Partial(Nat, Entries), reserved : Partial(Entries, Nat),
            results : Seq(Results)]

TypeOK ==
    /\ next_index \in Nat /\ integrated_size \in 0 .. next_index
    /\ \A i \in DOMAIN sequenced : sequenced[i] \in Entries
    /\ mode \in Modes \cup {NoMode}
    /\ writer \in Procs \cup {NoProc}
    /\ pc \in [Procs -> {"down", "select", "flush", "txn", "respond", "stopped"}]
    /\ receiver \in [Procs -> Seq(Requests)]
    /\ batch \in [Procs -> Seq(Requests)]
    /\ txn \in [Procs -> Txns]

\* f maps every entry among the rows to the one index it has there.
IsInverse(f, rows) ==
    /\ DOMAIN f = {rows[i] : i \in DOMAIN rows}
    /\ \A i \in DOMAIN rows : f[rows[i]] = i

\* The rows as the open transaction sees them.
View(p) == Extend(sequenced, txn[p].rows)

\* Each result so far names a row that holds the entry of its request.
ResultsTrueOf(p, rows) ==
    \A k \in DOMAIN txn[p].results :
        txn[p].results[k].kind \in {"index", "duplicate"} =>
            /\ txn[p].results[k].idx \in DOMAIN rows
            /\ rows[txn[p].results[k].idx] = EntryOf[batch[p][k]]

\* The open transaction is the one of the lock's holder.
LockIsHeld == \A p \in Procs : pc[p] = "txn" <=> writer = p

\* No process runs, and nothing was sequenced, before the mode is pinned.
ModeIsPinned ==
    mode = NoMode => /\ next_index = 0 /\ DOMAIN rekor_entries = {}
                     /\ \A p \in Procs : pc[p] = "down"

\* The open transaction continues the committed rows.
TxnContinues ==
    \A p \in Procs : pc[p] = "txn" =>
        /\ txn[p].next >= next_index
        /\ DOMAIN txn[p].rows = next_index .. txn[p].next - 1
        /\ Len(txn[p].results) <= Len(batch[p])
        /\ ResultsTrueOf(p, View(p))
        /\ Deduplicate => IsInverse(Reserved(p), View(p))

\* Responses are sent for committed rows, one for each request of the batch.
RespondsCommitted ==
    \A p \in Procs : pc[p] = "respond" =>
        /\ Len(txn[p].results) = Len(batch[p])
        /\ ResultsTrueOf(p, sequenced)

\* The inductive invariant.
SequencerInv ==
    /\ TypeOK
    /\ LockIsHeld
    /\ ModeIsPinned
    /\ TxnContinues
    /\ RespondsCommitted
    /\ RowsGapless
    /\ RekorUnique
    /\ AnswerIsDurable

-----------------------------------------------------------------------------
\* Extending twice is extending by the extension.
LEMMA ExtendAssociative ==
    ASSUME NEW f, NEW g, NEW h
    PROVE  Extend(f, Extend(g, h)) = Extend(Extend(f, g), h)
BY DEF Extend

\* Extending a partial function by a partial function gives one.
LEMMA ExtendPartial ==
    ASSUME NEW A, NEW B, NEW f \in Partial(A, B), NEW g \in Partial(A, B)
    PROVE  Extend(f, g) \in Partial(A, B)
<1>1. /\ DOMAIN f \subseteq A /\ \A x \in DOMAIN f : f[x] \in B
      /\ DOMAIN g \subseteq A /\ \A x \in DOMAIN g : g[x] \in B
  BY DEF Partial
<1>2. Extend(f, g) \in [DOMAIN f \cup DOMAIN g -> B]
  BY <1>1 DEF Extend
<1>3. DOMAIN f \cup DOMAIN g \in SUBSET A
  BY <1>1
<1> QED
  BY <1>2, <1>3 DEF Partial

\* A single pair, and no pair at all, is a partial function.
LEMMA SinglePartial ==
    ASSUME NEW A, NEW B, NEW a \in A, NEW b \in B
    PROVE  [x \in {a} |-> b] \in Partial(A, B)
<1>1. [x \in {a} |-> b] \in [{a} -> B] /\ {a} \in SUBSET A
  OBVIOUS
<1> QED
  BY <1>1 DEF Partial

\* The empty transaction has its type.
LEMMA NoTxnType == NoTxn \in Txns
<1>1. ASSUME NEW A, NEW B PROVE Empty \in Partial(A, B)
  <2>1. Empty \in [{} -> B] /\ {} \in SUBSET A
    BY DEF Empty
  <2> QED
    BY <2>1 DEF Partial
<1>2. Empty \in Partial(Nat, Entries) /\ Empty \in Partial(Entries, Nat) /\ <<>> \in Seq(Results)
  BY <1>1
<1> QED
  BY <1>2 DEF NoTxn, Txns

\* A new entry at a new index keeps an inverse an inverse: the reservation and
\* the row that sequence_entries inserts together.
LEMMA InverseExtends ==
    ASSUME NEW f, NEW rows, IsInverse(f, rows), NEW e, NEW n, e \notin DOMAIN f, n \notin DOMAIN rows
    PROVE  IsInverse(Extend(f, [x \in {e} |-> n]), Extend(rows, [i \in {n} |-> e]))
<1> DEFINE F == Extend(f, [x \in {e} |-> n])
           R == Extend(rows, [i \in {n} |-> e])
<1>1. /\ DOMAIN F = DOMAIN f \cup {e} /\ F[e] = n
      /\ \A x \in DOMAIN f : F[x] = f[x]
  BY DEF Extend
<1>2. /\ DOMAIN R = DOMAIN rows \cup {n} /\ R[n] = e
      /\ \A i \in DOMAIN rows : R[i] = rows[i]
  BY DEF Extend
<1> HIDE DEF F, R
<1>3. DOMAIN F = {R[i] : i \in DOMAIN R}
  BY <1>1, <1>2 DEF IsInverse
<1>4. ASSUME NEW i \in DOMAIN R PROVE F[R[i]] = i
  <2>1. CASE i = n
    BY <1>1, <1>2, <2>1
  <2>2. CASE i \in DOMAIN rows
    BY <1>1, <1>2, <2>2 DEF IsInverse
  <2> QED
    BY <1>2, <2>1, <2>2
<1> QED
  BY <1>3, <1>4 DEF IsInverse, F, R

\* An entry with a reservation is among the rows, at the index reserved.
LEMMA InverseFinds ==
    ASSUME NEW f, NEW rows, IsInverse(f, rows), NEW e \in DOMAIN f
    PROVE  f[e] \in DOMAIN rows /\ rows[f[e]] = e
BY DEF IsInverse

\* The answer to a failed transaction: an error for every request.
LEMMA AllInternalType ==
    ASSUME TypeOK, NEW p \in Procs
    PROVE  /\ AllInternal(p) \in Seq(Results)
           /\ Len(AllInternal(p)) = Len(batch[p])
           /\ \A k \in DOMAIN AllInternal(p) : AllInternal(p)[k].kind = "error"
<1>1. batch[p] \in Seq(Requests)
  BY DEF TypeOK
<1>2. DOMAIN batch[p] = 1 .. Len(batch[p]) /\ Len(batch[p]) \in Nat
  BY <1>1
<1>3. AllInternal(p) = [k \in 1 .. Len(batch[p]) |-> Internal]
  BY <1>2 DEF AllInternal
<1>4. Internal \in Results /\ Internal.kind = "error"
  BY DEF Internal, Results
<1> QED
  BY <1>2, <1>3, <1>4

\* An empty database and no process satisfy the invariant.
LEMMA InitInv == Init => SequencerInv
<1> SUFFICES ASSUME Init PROVE SequencerInv
  OBVIOUS
<1>1. TypeOK
  BY NoTxnType DEF Init, TypeOK, Empty
<1>2. LockIsHeld /\ TxnContinues /\ RespondsCommitted
  BY SequencerAssumption DEF Init, LockIsHeld, TxnContinues, RespondsCommitted
<1>3. ModeIsPinned /\ RowsGapless /\ RekorUnique
  BY DEF Init, Empty, ModeIsPinned, RowsGapless, RekorUnique
<1>4. AnswerIsDurable
  BY DEF Init, AnswerIsDurable, NoReply
<1> QED
  BY <1>1, <1>2, <1>3, <1>4 DEF SequencerInv
-----------------------------------------------------------------------------
\* What is true of a process's transaction stays true while the database, the
\* transaction and its batch stay as they are.
LEMMA TxnFrame ==
    ASSUME NEW p \in Procs, UNCHANGED <<next_index, rekor_entries, mode, sequenced>>,
           txn'[p] = txn[p], batch'[p] = batch[p]
    PROVE  /\ ResultsTrueOf(p, View(p)) => ResultsTrueOf(p, View(p))'
           /\ ResultsTrueOf(p, sequenced) => ResultsTrueOf(p, sequenced)'
           /\ (Deduplicate => IsInverse(Reserved(p), View(p)))
                => (Deduplicate => IsInverse(Reserved(p), View(p)))'
<1>1. View(p)' = View(p) /\ Reserved(p)' = Reserved(p) /\ Deduplicate' = Deduplicate
  BY DEF View, Reserved, Deduplicate
<1>2. IsInverse(Reserved(p), View(p))' = IsInverse(Reserved(p), View(p))
  BY <1>1 DEF IsInverse
<1>3. ResultsTrueOf(p, View(p))' = ResultsTrueOf(p, View(p))
  BY <1>1 DEF ResultsTrueOf
<1>4. ResultsTrueOf(p, sequenced)' = ResultsTrueOf(p, sequenced)
  BY DEF ResultsTrueOf
<1> QED
  BY <1>1, <1>2, <1>3, <1>4

\* A step that leaves the database, the transactions and the replies alone, and
\* the batch of a process that is flushing, preserves the invariant.
LEMMA QuietStep ==
    ASSUME SequencerInv, UNCHANGED <<dbVars, writer, txn, reply>>,
           pc' \in [Procs -> {"down", "select", "flush", "txn", "respond", "stopped"}],
           receiver' \in [Procs -> Seq(Requests)],
           batch' \in [Procs -> Seq(Requests)],
           \A p \in Procs : /\ pc[p] \in {"down", "txn", "respond"} => pc'[p] = pc[p]
                            /\ pc'[p] \in {"txn", "respond"} => pc'[p] = pc[p]
                            /\ pc[p] \in {"txn", "respond"} => batch'[p] = batch[p]
    PROVE  SequencerInv'
<1> USE DEF SequencerInv
<1>1. UNCHANGED <<next_index, integrated_size, pending, rekor_entries, mode, sequenced, writer, txn, reply>>
  BY DEF dbVars
<1>2. TypeOK' /\ LockIsHeld' /\ ModeIsPinned'
  BY <1>1 DEF TypeOK, LockIsHeld, ModeIsPinned
<1>3. TxnContinues'
  BY <1>1, TxnFrame DEF TxnContinues
<1>4. RespondsCommitted'
  BY <1>1, TxnFrame DEF RespondsCommitted
<1>5. RowsGapless' /\ RekorUnique' /\ AnswerIsDurable'
  BY <1>1 DEF RowsGapless, RekorUnique, AnswerIsDurable, Deduplicate
<1> QED
  BY <1>2, <1>3, <1>4, <1>5

\* A rollback, by an error, a failed transaction or a crash, preserves the
\* invariant: the database is as it was and the lock is free again.
LEMMA Rollback ==
    ASSUME SequencerInv, NEW p \in Procs, UNCHANGED <<dbVars, reply>>,
           writer' = IF writer = p THEN NoProc ELSE writer,
           receiver' \in [Procs -> Seq(Requests)],
           batch' \in [Procs -> Seq(Requests)],
           \A q \in Procs \ {p} : batch'[q] = batch[q],
           \/ /\ pc[p] # "down" /\ pc' = [pc EXCEPT ![p] = "respond"]
              /\ txn' = [txn EXCEPT ![p] = [NoTxn EXCEPT !.results = AllInternal(p)]]
              /\ batch' = batch
           \/ /\ pc' = [pc EXCEPT ![p] = "down"]
              /\ txn' = [txn EXCEPT ![p] = NoTxn]
    PROVE  SequencerInv'
<1> USE DEF SequencerInv
<1>1. UNCHANGED <<next_index, integrated_size, pending, rekor_entries, mode, sequenced, reply>>
  BY DEF dbVars
<1>2. PICK t \in Txns : /\ txn' = [txn EXCEPT ![p] = t]
                        /\ \/ t.results = AllInternal(p) /\ batch' = batch
                           \/ pc'[p] = "down"
  <2>1. NoTxn \in Txns /\ AllInternal(p) \in Seq(Results)
    BY NoTxnType, AllInternalType
  <2>2. /\ [NoTxn EXCEPT !.results = AllInternal(p)] \in Txns
        /\ [NoTxn EXCEPT !.results = AllInternal(p)].results = AllInternal(p)
    BY <2>1 DEF Txns
  <2> QED
    BY <2>1, <2>2 DEF TypeOK
<1>3. /\ pc' \in [Procs -> {"down", "select", "flush", "txn", "respond", "stopped"}]
      /\ pc'[p] \in {"respond", "down"}
      /\ \A q \in Procs \ {p} : pc'[q] = pc[q]
      /\ mode = NoMode => pc'[p] = "down"
  BY DEF TypeOK, ModeIsPinned
<1>4. \A q \in Procs \ {p} : txn'[q] = txn[q]
  BY <1>2 DEF TypeOK
<1>5. TypeOK'
  BY <1>1, <1>2, <1>3 DEF TypeOK
<1>6. LockIsHeld' /\ ModeIsPinned'
  BY <1>1, <1>3, SequencerAssumption DEF LockIsHeld, ModeIsPinned, TypeOK
<1>7. TxnContinues'
  BY <1>1, <1>3, <1>4, TxnFrame DEF TxnContinues
<1>8. RespondsCommitted'
  <2> SUFFICES ASSUME NEW q \in Procs, pc'[q] = "respond"
               PROVE  Len(txn'[q].results) = Len(batch'[q]) /\ ResultsTrueOf(q, sequenced)'
    BY DEF RespondsCommitted
  <2>1. CASE q = p
    <3>1. txn'[p].results = AllInternal(p) /\ batch' = batch
      BY <1>2, <2>1 DEF TypeOK
    <3> QED
      BY <2>1, <3>1, AllInternalType DEF ResultsTrueOf
  <2>2. CASE q # p
    <3>1. txn'[q] = txn[q] /\ pc[q] = "respond" /\ batch'[q] = batch[q]
      BY <1>3, <1>4, <2>2
    <3>2. Len(txn[q].results) = Len(batch[q]) /\ ResultsTrueOf(q, sequenced)
      BY <3>1 DEF RespondsCommitted
    <3> QED
      BY <1>1, <3>1, <3>2 DEF ResultsTrueOf
  <2> QED
    BY <2>1, <2>2
<1>9. RowsGapless' /\ RekorUnique' /\ AnswerIsDurable'
  BY <1>1 DEF RowsGapless, RekorUnique, AnswerIsDurable, Deduplicate
<1> QED
  BY <1>5, <1>6, <1>7, <1>8, <1>9

\* While a process works inside its transaction the committed state, and every
\* other process, stand still; the invariant asks only that the transaction goes
\* on to continue the committed rows.
LEMMA TxnStep ==
    ASSUME SequencerInv, NEW p \in Procs, pc[p] = "txn", NEW t \in Txns,
           txn' = [txn EXCEPT ![p] = t],
           UNCHANGED <<dbVars, writer, pc, receiver, batch, reply>>,
           t.next >= next_index,
           DOMAIN t.rows = next_index .. t.next - 1,
           Len(t.results) <= Len(batch[p]),
           ResultsTrueOf(p, View(p))',
           Deduplicate => IsInverse(Reserved(p), View(p))'
    PROVE  SequencerInv'
<1> USE DEF SequencerInv
<1>1. UNCHANGED <<next_index, integrated_size, pending, rekor_entries, mode, sequenced, writer,
                  pc, receiver, batch, reply>>
  BY DEF dbVars
<1>2. txn'[p] = t /\ \A q \in Procs \ {p} : txn'[q] = txn[q] /\ pc[q] # "txn"
  BY DEF TypeOK, LockIsHeld
<1>3. TypeOK' /\ LockIsHeld' /\ ModeIsPinned'
  BY <1>1 DEF TypeOK, LockIsHeld, ModeIsPinned
<1>4. TxnContinues'
  BY <1>1, <1>2 DEF TxnContinues, Deduplicate
<1>5. RespondsCommitted'
  BY <1>1, <1>2 DEF RespondsCommitted, ResultsTrueOf
<1>6. RowsGapless' /\ RekorUnique' /\ AnswerIsDurable'
  BY <1>1 DEF RowsGapless, RekorUnique, AnswerIsDurable, Deduplicate
<1> QED
  BY <1>3, <1>4, <1>5, <1>6
\* The commit makes the view of the transaction the committed state: committed
\* rows stay, the new ones follow without a gap, and the results are of rows
\* that are now durable, whether or not the process learns of it.
LEMMA CommitStep ==
    ASSUME SequencerInv, NEW p \in Procs, pc[p] = "txn",
           Len(txn[p].results) = Len(batch[p]), ApplyTxn(p),
           pc' = [pc EXCEPT ![p] = "respond"],
           \/ txn' = txn
           \/ txn' = [txn EXCEPT ![p] = [NoTxn EXCEPT !.results = AllInternal(p)]],
           UNCHANGED <<receiver, batch, reply>>
    PROVE  SequencerInv'
<1> USE DEF SequencerInv
<1> DEFINE t == txn[p]
<1>1. /\ t.next \in Nat /\ t.next >= next_index /\ next_index \in Nat
      /\ DOMAIN t.rows = next_index .. t.next - 1
      /\ ResultsTrueOf(p, View(p))
      /\ Deduplicate => IsInverse(Reserved(p), View(p))
      /\ \A i \in DOMAIN t.rows : t.rows[i] \in Entries
  BY DEF TxnContinues, TypeOK, Txns, Partial
<1>2. /\ next_index' = t.next /\ pending' = Extend(pending, t.rows)
      /\ rekor_entries' = Reserved(p) /\ sequenced' = View(p) /\ writer' = NoProc
      /\ UNCHANGED <<integrated_size, mode>>
  BY DEF ApplyTxn, View
<1>3. /\ DOMAIN sequenced' = 0 .. next_index' - 1
      /\ \A i \in DOMAIN sequenced : i \in DOMAIN sequenced' /\ sequenced'[i] = sequenced[i]
      /\ \A i \in DOMAIN t.rows : sequenced'[i] = t.rows[i]
  <2>1. DOMAIN sequenced = 0 .. next_index - 1
    BY DEF RowsGapless
  <2>2. /\ DOMAIN sequenced' = DOMAIN sequenced \cup DOMAIN t.rows
        /\ \A i \in DOMAIN t.rows : sequenced'[i] = t.rows[i]
        /\ \A i \in DOMAIN sequenced \ DOMAIN t.rows : sequenced'[i] = sequenced[i]
    BY <1>2 DEF View, Extend
  <2>3. DOMAIN sequenced \cup DOMAIN t.rows = 0 .. t.next - 1 /\ DOMAIN sequenced \cap DOMAIN t.rows = {}
    BY <1>1, <2>1
  <2> QED
    BY <1>2, <2>2, <2>3
<1>4. RowsGapless'
  <2>1. /\ DOMAIN pending = integrated_size .. next_index - 1
        /\ integrated_size \in 0 .. next_index
        /\ \A i \in DOMAIN pending : pending[i] = sequenced[i] /\ i \in DOMAIN sequenced
    BY <1>1 DEF RowsGapless, TypeOK
  <2>2. /\ DOMAIN pending' = DOMAIN pending \cup DOMAIN t.rows
        /\ \A i \in DOMAIN t.rows : pending'[i] = t.rows[i]
        /\ \A i \in DOMAIN pending \ DOMAIN t.rows : pending'[i] = pending[i]
    BY <1>2 DEF Extend
  <2>3. DOMAIN pending' = integrated_size' .. next_index' - 1
    BY <1>1, <1>2, <2>1, <2>2
  <2>4. \A i \in DOMAIN pending' : pending'[i] = sequenced'[i]
    BY <1>3, <2>1, <2>2
  <2> QED
    BY <1>3, <2>3, <2>4 DEF RowsGapless
<1>5. \A i \in DOMAIN sequenced' : sequenced'[i] \in Entries
  BY <1>1, <1>2, <1>3 DEF View, Extend, TypeOK
<1>6. txn' \in [Procs -> Txns]
  <2>1. [NoTxn EXCEPT !.results = AllInternal(p)] \in Txns
    BY NoTxnType, AllInternalType DEF Txns
  <2> QED
    BY <2>1 DEF TypeOK
<1>7. TypeOK' /\ LockIsHeld' /\ ModeIsPinned'
  <2>1. TypeOK'
    <3>1. next_index' \in Nat /\ integrated_size' \in 0 .. next_index'
      BY <1>1, <1>2 DEF TypeOK
    <3>2. pc' \in [Procs -> {"down", "select", "flush", "txn", "respond", "stopped"}]
      BY DEF TypeOK
    <3> QED
      BY <1>2, <1>5, <1>6, <3>1, <3>2 DEF TypeOK
  <2>2. writer = p
    BY DEF LockIsHeld
  <2>3. LockIsHeld'
    BY <1>2, <2>2, SequencerAssumption DEF LockIsHeld, TypeOK
  <2>4. mode' # NoMode
    BY <1>2 DEF ModeIsPinned
  <2> QED
    BY <2>1, <2>3, <2>4 DEF ModeIsPinned
<1>8. TxnContinues'
  BY <1>7, <1>2, SequencerAssumption DEF TxnContinues, LockIsHeld
<1>9. RespondsCommitted'
  <2> SUFFICES ASSUME NEW q \in Procs, pc'[q] = "respond"
               PROVE  Len(txn'[q].results) = Len(batch'[q]) /\ ResultsTrueOf(q, sequenced)'
    BY DEF RespondsCommitted
  <2>1. CASE q = p /\ txn' = txn
    <3>1. ResultsTrueOf(p, View(p)) => ResultsTrueOf(p, sequenced)'
      BY <1>2, <2>1 DEF ResultsTrueOf
    <3> QED
      BY <1>1, <2>1, <3>1
  <2>2. CASE q = p /\ txn' = [txn EXCEPT ![p] = [NoTxn EXCEPT !.results = AllInternal(p)]]
    <3>1. txn'[p].results = AllInternal(p)
      BY <2>2, NoTxnType DEF TypeOK, Txns
    <3>2. /\ Len(AllInternal(p)) = Len(batch[p])
          /\ \A k \in DOMAIN AllInternal(p) : AllInternal(p)[k].kind = "error"
      BY AllInternalType, Zenon DEF SequencerInv
    <3>3. q = p /\ batch' = batch
      BY <1>2, <2>2
    <3>4. Len(txn'[q].results) = Len(batch'[q])
      BY <3>1, <3>2, <3>3, Zenon
    <3>5. \A k \in DOMAIN txn'[q].results : txn'[q].results[k].kind = "error"
      BY <3>1, <3>2, <3>3, Zenon
    <3> QED
      BY <3>4, <3>5 DEF ResultsTrueOf
  <2>3. CASE q # p
    <3>1. txn'[q] = txn[q] /\ pc[q] = "respond" /\ batch' = batch
      BY <2>3 DEF TypeOK
    <3>2. Len(txn[q].results) = Len(batch[q]) /\ ResultsTrueOf(q, sequenced)
      BY <3>1 DEF RespondsCommitted
    <3> QED
      BY <3>1, <3>2, <1>3 DEF ResultsTrueOf
  <2> QED
    BY <2>1, <2>2, <2>3
<1>10. RekorUnique'
  <2>1. Deduplicate => IsInverse(rekor_entries', sequenced')
    BY <1>1, <1>2
  <2> QED
    BY <1>2, <2>1 DEF RekorUnique, IsInverse, Deduplicate
<1>11. AnswerIsDurable'
  BY <1>3 DEF AnswerIsDurable
<1> QED
  BY <1>4, <1>7, <1>8, <1>9, <1>10, <1>11

\* The lock is free: the new transaction starts from the committed rows.
LEMMA BeginStep ==
    ASSUME SequencerInv, NEW p \in Procs, BeginTxn(p)
    PROVE  SequencerInv'
<1> USE DEF SequencerInv
<1> DEFINE t == [NoTxn EXCEPT !.next = next_index]
<1>1. /\ t \in Txns /\ t.next = next_index /\ t.rows = Empty /\ t.reserved = Empty
      /\ t.results = <<>>
  BY NoTxnType DEF NoTxn, Txns, TypeOK
<1> HIDE DEF t
<1>2. /\ pc[p] = "flush" /\ writer = NoProc /\ writer' = p
      /\ txn' = [txn EXCEPT ![p] = t]
      /\ pc' = [pc EXCEPT ![p] = "txn"]
      /\ UNCHANGED <<next_index, integrated_size, pending, rekor_entries, mode, sequenced,
                     receiver, batch, reply>>
  BY DEF BeginTxn, LockFree, dbVars, t
<1>3. /\ txn'[p] = t
      /\ \A q \in Procs \ {p} : txn'[q] = txn[q] /\ pc'[q] = pc[q] /\ pc[q] # "txn"
  BY <1>2, SequencerAssumption DEF TypeOK, LockIsHeld
<1>4. TypeOK' /\ LockIsHeld' /\ ModeIsPinned'
  BY <1>1, <1>2, SequencerAssumption DEF TypeOK, LockIsHeld, ModeIsPinned
<1>5. TxnContinues'
  <2>1. Deduplicate' => IsInverse(Reserved(p), View(p))'
    <3>1. /\ DOMAIN Reserved(p)' = DOMAIN rekor_entries
          /\ \A e \in DOMAIN rekor_entries : Reserved(p)'[e] = rekor_entries[e]
      BY <1>1, <1>2, <1>3 DEF Reserved, Extend, Empty
    <3>2. /\ DOMAIN View(p)' = DOMAIN sequenced
          /\ \A i \in DOMAIN sequenced : View(p)'[i] = sequenced[i]
      BY <1>1, <1>2, <1>3 DEF View, Extend, Empty
    <3> SUFFICES ASSUME Deduplicate PROVE IsInverse(Reserved(p)', View(p)')
      BY <1>2 DEF Deduplicate, IsInverse
    <3>3. IsInverse(rekor_entries, sequenced)
      BY DEF RekorUnique, IsInverse
    <3> QED
      BY <3>1, <3>2, <3>3 DEF IsInverse
  <2>2. /\ txn'[p].next = next_index' /\ DOMAIN txn'[p].rows = {} /\ txn'[p].results = <<>>
        /\ next_index' \in Nat /\ batch'[p] \in Seq(Requests)
    BY <1>1, <1>2, <1>3 DEF Empty, TypeOK
  <2>3. ResultsTrueOf(p, View(p))'
    BY <2>2 DEF ResultsTrueOf
  <2>4. Len(txn'[p].results) <= Len(batch'[p])
    BY <2>2
  <2>5. DOMAIN txn'[p].rows = next_index' .. txn'[p].next - 1 /\ txn'[p].next >= next_index'
    <3>1. \A n \in Nat : n .. n - 1 = {} /\ n >= n
      OBVIOUS
    <3> QED
      BY <2>2, <3>1
  <2> QED
    BY <1>3, <2>1, <2>3, <2>4, <2>5 DEF TxnContinues
<1>6. RespondsCommitted'
  BY <1>2, <1>3, TxnFrame DEF RespondsCommitted, TypeOK
<1>7. RowsGapless' /\ RekorUnique' /\ AnswerIsDurable'
  BY <1>2 DEF RowsGapless, RekorUnique, AnswerIsDurable, Deduplicate
<1> QED
  BY <1>4, <1>5, <1>6, <1>7
\* A duplicate is answered with the index under which the entry is reserved.
LEMMA DuplicateStep ==
    ASSUME SequencerInv, NEW p \in Procs, SequenceDuplicate(p)
    PROVE  SequencerInv'
<1> USE DEF SequencerInv
<1> DEFINE b == batch[p]
           n == Len(txn[p].results)
           i == Reserved(p)[CurrentEntry(p)]
           t == [txn[p] EXCEPT !.results = Append(@, Duplicate(i))]
<1>1. /\ pc[p] = "txn" /\ n < Len(b) /\ Deduplicate /\ CurrentEntry(p) \in DOMAIN Reserved(p)
      /\ txn' = [txn EXCEPT ![p] = t]
      /\ UNCHANGED <<dbVars, writer, pc, receiver, batch, reply>>
  BY DEF SequenceDuplicate, TypeOK
<1>2. /\ txn[p] \in Txns /\ txn[p].next >= next_index /\ txn[p].next \in Nat /\ next_index \in Nat
      /\ DOMAIN txn[p].rows = next_index .. txn[p].next - 1
      /\ ResultsTrueOf(p, View(p)) /\ IsInverse(Reserved(p), View(p))
      /\ DOMAIN sequenced = 0 .. next_index - 1
      /\ txn[p].results \in Seq(Results) /\ b \in Seq(Requests)
  BY <1>1 DEF TxnContinues, RowsGapless, TypeOK, Txns
<1>3. i \in DOMAIN View(p) /\ View(p)[i] = CurrentEntry(p)
  BY <1>1, <1>2, InverseFinds
<1>4. i \in Nat
  BY <1>2, <1>3 DEF View, Extend
<1>5. Duplicate(i) \in Results /\ Duplicate(i).idx = i
  BY <1>4 DEF Duplicate, Results
<1>6. /\ t \in Txns /\ t.next = txn[p].next /\ t.rows = txn[p].rows
      /\ t.reserved = txn[p].reserved /\ t.results = Append(txn[p].results, Duplicate(i))
  <2>1. Append(txn[p].results, Duplicate(i)) \in Seq(Results)
    BY <1>2, <1>5
  <2> HIDE DEF i
  <2> QED
    BY <1>2, <2>1 DEF Txns
<1> HIDE DEF t, i
<1>7. txn'[p] = t /\ View(p)' = View(p) /\ Reserved(p)' = Reserved(p)
  BY <1>1, <1>6 DEF View, Reserved, dbVars, TypeOK
<1>8. ResultsTrueOf(p, View(p))'
  <2> SUFFICES ASSUME NEW k \in DOMAIN t.results, t.results[k].kind \in {"index", "duplicate"}
               PROVE  /\ t.results[k].idx \in DOMAIN View(p)
                      /\ View(p)[t.results[k].idx] = EntryOf[batch[p][k]]
    BY <1>1, <1>7 DEF ResultsTrueOf
  <2>1. CASE k = n + 1
    BY <1>2, <1>3, <1>5, <1>6, <2>1 DEF CurrentEntry
  <2>2. CASE k \in DOMAIN txn[p].results
    BY <1>2, <1>5, <1>6, <2>2 DEF ResultsTrueOf
  <2> QED
    BY <1>2, <1>5, <1>6, <2>1, <2>2
<1>9. Len(t.results) <= Len(b)
  BY <1>1, <1>2, <1>5, <1>6
<1>10. IsInverse(Reserved(p), View(p))'
  BY <1>2, <1>7 DEF IsInverse
<1> QED
  BY <1>1, <1>2, <1>6, <1>8, <1>9, <1>10, TxnStep

\* A new entry takes the next index; its reservation goes in with its row.
LEMMA EntryStep ==
    ASSUME SequencerInv, NEW p \in Procs, SequenceEntry(p)
    PROVE  SequencerInv'
<1> USE DEF SequencerInv
<1> DEFINE b == batch[p]
           n == Len(txn[p].results)
           e == CurrentEntry(p)
           i == txn[p].next
           row == [x \in {i} |-> e]
           res == [x \in {e} |-> i]
           t == [next     |-> i + 1,
                 rows     |-> Extend(txn[p].rows, row),
                 reserved |-> IF Deduplicate THEN Extend(txn[p].reserved, res)
                                             ELSE txn[p].reserved,
                 results  |-> Append(txn[p].results, Index(i))]
<1>1. /\ pc[p] = "txn" /\ n < Len(b) /\ (Deduplicate => e \notin DOMAIN Reserved(p))
      /\ txn' = [txn EXCEPT ![p] = t]
      /\ UNCHANGED <<dbVars, writer, pc, receiver, batch, reply>>
  BY DEF SequenceEntry, Advanced, TypeOK
<1>2. /\ txn[p] \in Txns /\ i >= next_index /\ i \in Nat /\ next_index \in Nat
      /\ DOMAIN txn[p].rows = next_index .. i - 1
      /\ ResultsTrueOf(p, View(p)) /\ (Deduplicate => IsInverse(Reserved(p), View(p)))
      /\ DOMAIN sequenced = 0 .. next_index - 1
      /\ txn[p].results \in Seq(Results) /\ b \in Seq(Requests)
  BY <1>1 DEF TxnContinues, RowsGapless, TypeOK, Txns
<1>3. b[n + 1] \in Requests /\ e \in Entries
  BY <1>1, <1>2, SequencerAssumption DEF CurrentEntry
<1>4. Index(i) \in Results /\ Index(i).idx = i
  BY <1>2 DEF Index, Results
<1>5. t \in Txns
  <2>1. txn[p].rows \in Partial(Nat, Entries) /\ txn[p].reserved \in Partial(Entries, Nat)
    BY <1>2 DEF Txns
  <2>2. row \in Partial(Nat, Entries) /\ res \in Partial(Entries, Nat)
    BY <1>2, <1>3, SinglePartial
  <2>3. /\ Extend(txn[p].rows, row) \in Partial(Nat, Entries)
        /\ Extend(txn[p].reserved, res) \in Partial(Entries, Nat)
    BY <2>1, <2>2, ExtendPartial
  <2>4. Append(txn[p].results, Index(i)) \in Seq(Results)
    BY <1>2, <1>4
  <2> HIDE DEF row, res
  <2> QED
    BY <1>2, <2>1, <2>3, <2>4 DEF Txns
<1>6. /\ t.next = i + 1 /\ t.rows = Extend(txn[p].rows, row)
      /\ Deduplicate => t.reserved = Extend(txn[p].reserved, res)
      /\ t.results = Append(txn[p].results, Index(i))
  OBVIOUS
<1>7. DOMAIN t.rows = next_index .. t.next - 1
  <2>1. DOMAIN t.rows = (next_index .. i - 1) \cup {i}
    BY <1>2, <1>6 DEF Extend
  <2>2. \A k, j \in Nat : k <= j => (k .. j - 1) \cup {j} = k .. (j + 1) - 1
    OBVIOUS
  <2> HIDE DEF i, t
  <2> QED
    BY <1>2, <1>6, <2>1, <2>2
<1> HIDE DEF t, row, res
<1>8. /\ txn'[p] = t
      /\ View(p)' = Extend(View(p), row)
      /\ Deduplicate => Reserved(p)' = Extend(Reserved(p), res)
  BY <1>1, <1>6, ExtendAssociative DEF View, Reserved, dbVars, TypeOK
<1>9. i \notin DOMAIN View(p)
  BY <1>2 DEF View, Extend
<1>10. /\ DOMAIN View(p)' = DOMAIN View(p) \cup {i} /\ View(p)'[i] = e
       /\ \A j \in DOMAIN View(p) : View(p)'[j] = View(p)[j]
  BY <1>8, <1>9 DEF Extend, row
<1>11. ResultsTrueOf(p, View(p))'
  <2> SUFFICES ASSUME NEW k \in DOMAIN t.results, t.results[k].kind \in {"index", "duplicate"}
               PROVE  /\ t.results[k].idx \in DOMAIN View(p)'
                      /\ View(p)'[t.results[k].idx] = EntryOf[batch[p][k]]
    BY <1>1, <1>8 DEF ResultsTrueOf
  <2>1. CASE k = n + 1
    BY <1>2, <1>4, <1>6, <1>10, <2>1 DEF CurrentEntry
  <2>2. CASE k \in DOMAIN txn[p].results
    BY <1>2, <1>4, <1>6, <1>10, <2>2 DEF ResultsTrueOf
  <2> QED
    BY <1>2, <1>4, <1>6, <2>1, <2>2
<1>12. Len(t.results) <= Len(b)
  BY <1>1, <1>2, <1>4, <1>6
<1>13. Deduplicate => IsInverse(Reserved(p), View(p))'
  <2> SUFFICES ASSUME Deduplicate PROVE IsInverse(Reserved(p)', View(p)')
    BY DEF IsInverse
  <2>1. IsInverse(Extend(Reserved(p), res), Extend(View(p), row))
    BY <1>1, <1>2, <1>9, InverseExtends DEF row, res
  <2> QED
    BY <1>8, <2>1
<1>14. t.next >= next_index
  BY <1>2, <1>6
<1> QED
  BY <1>1, <1>5, <1>7, <1>11, <1>12, <1>13, <1>14, TxnStep
\* flush_batch hands every waiting caller the result of its own request.
LEMMA RespondStep ==
    ASSUME SequencerInv, NEW p \in Procs, Respond(p)
    PROVE  SequencerInv'
<1> USE DEF SequencerInv
<1> DEFINE answered == {k \in DOMAIN batch[p] : client[batch[p][k]] = "queued"}
           result(r) == CHOOSE k \in answered : batch[p][k] = r
           live == {batch[p][k] : k \in answered}
<1>1. /\ pc[p] = "respond"
      /\ reply' = [r \in Requests |-> IF r \in live THEN txn[p].results[result(r)] ELSE reply[r]]
      /\ batch' = [batch EXCEPT ![p] = <<>>]
      /\ txn' = [txn EXCEPT ![p] = NoTxn]
      /\ pc' = [pc EXCEPT ![p] = IF closed[p] /\ receiver[p] = <<>> THEN "stopped" ELSE "select"]
      /\ UNCHANGED <<next_index, integrated_size, pending, rekor_entries, mode, sequenced,
                     writer, receiver>>
  BY DEF Respond, Drained, dbVars
<1>2. /\ txn[p].results \in Seq(Results) /\ batch[p] \in Seq(Requests)
      /\ Len(txn[p].results) = Len(batch[p]) /\ ResultsTrueOf(p, sequenced)
  BY <1>1 DEF RespondsCommitted, TypeOK, Txns
<1>3. ASSUME NEW r \in live
      PROVE  LET a == txn[p].results[result(r)]
             IN  a.kind \in {"index", "duplicate"} =>
                    a.idx \in DOMAIN sequenced /\ sequenced[a.idx] = EntryOf[r]
  <2>1. result(r) \in answered /\ batch[p][result(r)] = r
    OBVIOUS
  <2> HIDE DEF result
  <2>2. result(r) \in DOMAIN txn[p].results
    BY <1>2, <2>1
  <2> QED
    BY <1>2, <2>1, <2>2 DEF ResultsTrueOf
<1>4. AnswerIsDurable'
  <2> SUFFICES ASSUME NEW r \in Requests, reply'[r].kind \in {"index", "duplicate"}
               PROVE  /\ reply'[r].idx \in DOMAIN sequenced
                      /\ sequenced[reply'[r].idx] = EntryOf[r]
    BY <1>1 DEF AnswerIsDurable
  <2> HIDE DEF live, result
  <2>1. CASE r \in live
    <3>1. reply'[r] = txn[p].results[result(r)]
      BY <1>1, <2>1
    <3> QED
      BY <1>3, <2>1, <3>1
  <2>2. CASE r \notin live
    BY <1>1, <2>2 DEF AnswerIsDurable
  <2> QED
    BY <2>1, <2>2
<1>5. /\ pc'[p] \in {"stopped", "select"} /\ mode # NoMode
      /\ \A q \in Procs \ {p} : pc'[q] = pc[q] /\ txn'[q] = txn[q] /\ batch'[q] = batch[q]
  BY <1>1 DEF TypeOK, ModeIsPinned
<1>6. TypeOK' /\ LockIsHeld' /\ ModeIsPinned'
  <2>1. TypeOK'
    BY <1>1, NoTxnType DEF TypeOK
  <2> QED
    BY <1>1, <1>5, <2>1 DEF LockIsHeld, ModeIsPinned
<1>7. TxnContinues'
  BY <1>1, <1>5, TxnFrame DEF TxnContinues
<1>8. RespondsCommitted'
  BY <1>1, <1>5, TxnFrame DEF RespondsCommitted
<1>9. RowsGapless' /\ RekorUnique'
  BY <1>1 DEF RowsGapless, RekorUnique, Deduplicate
<1> QED
  BY <1>4, <1>6, <1>7, <1>8, <1>9

\* ensure_mode pins the mode before anything is sequenced, and never changes it.
LEMMA RestartStep ==
    ASSUME SequencerInv, NEW p \in Procs, NEW m \in Modes, Restart(p, m)
    PROVE  SequencerInv'
<1> USE DEF SequencerInv
<1>1. /\ pc[p] \in {"down", "stopped"} /\ mode' = m /\ pc' = [pc EXCEPT ![p] = "select"]
      /\ UNCHANGED <<next_index, integrated_size, pending, rekor_entries, sequenced, writer,
                     receiver, batch, txn, reply>>
  BY DEF Restart
<1>2. mode = NoMode \/ mode' = mode
  BY <1>1 DEF Restart, PinnedMode
<1>3. TypeOK' /\ LockIsHeld' /\ ModeIsPinned'
  BY <1>1, SequencerAssumption DEF TypeOK, LockIsHeld, ModeIsPinned
<1>4. CASE mode = NoMode
  <2>1. \A q \in Procs : pc'[q] \notin {"txn", "respond"}
    BY <1>1, <1>4 DEF ModeIsPinned, TypeOK
  <2>2. DOMAIN rekor_entries = {} /\ DOMAIN sequenced = {}
    BY <1>4 DEF ModeIsPinned, RowsGapless
  <2>3. TxnContinues' /\ RespondsCommitted'
    BY <2>1 DEF TxnContinues, RespondsCommitted
  <2>4. RekorUnique'
    BY <1>1, <2>2 DEF RekorUnique
  <2> QED
    BY <1>1, <1>3, <2>3, <2>4 DEF RowsGapless, AnswerIsDurable
<1>5. CASE mode' = mode
  <2>1. TxnContinues' /\ RespondsCommitted'
    BY <1>1, <1>5, TxnFrame DEF TxnContinues, RespondsCommitted, TypeOK
  <2> QED
    BY <1>1, <1>3, <1>5, <2>1 DEF RowsGapless, RekorUnique, AnswerIsDurable, Deduplicate
<1> QED
  BY <1>2, <1>4, <1>5

\* Integration deletes exactly the pending rows below the new size.
LEMMA MarkStep ==
    ASSUME SequencerInv, NEW n \in 1 .. MaxIndex, MarkIntegrated(n)
    PROVE  SequencerInv'
<1> USE DEF SequencerInv
<1>1. /\ integrated_size < n /\ n <= next_index /\ integrated_size' = n
      /\ pending' = [i \in Kept(n) |-> pending[i]]
      /\ UNCHANGED <<next_index, rekor_entries, mode, sequenced, writer, pc, receiver, batch,
                     txn, reply>>
  BY DEF MarkIntegrated, procVars
<1>2. n \in Nat /\ next_index \in Nat /\ integrated_size \in Nat
  BY <1>1, SequencerAssumption DEF TypeOK
<1>3. TypeOK' /\ LockIsHeld' /\ ModeIsPinned'
  BY <1>1, <1>2 DEF TypeOK, LockIsHeld, ModeIsPinned
<1>4. TxnContinues' /\ RespondsCommitted'
  BY <1>1, TxnFrame DEF TxnContinues, RespondsCommitted
<1>5. RowsGapless'
  <2>1. Kept(n) = n .. next_index - 1 /\ Kept(n) \subseteq DOMAIN pending
    BY <1>1, <1>2 DEF Kept, RowsGapless
  <2> QED
    BY <1>1, <2>1 DEF RowsGapless
<1> QED
  BY <1>1, <1>3, <1>4, <1>5 DEF RekorUnique, AnswerIsDurable, Deduplicate

\* Every step of a worker, a caller, the database or a crash preserves the
\* inductive invariant.
LEMMA StepInv == SequencerInv /\ [Next]_vars => SequencerInv'
<1> SUFFICES ASSUME SequencerInv, [Next]_vars PROVE SequencerInv'
  OBVIOUS
<1> USE DEF SequencerInv
<1>1. ASSUME NEW p \in Procs, NEW r \in Requests, Add(p, r) PROVE SequencerInv'
  <2>1. receiver' \in [Procs -> Seq(Requests)]
    BY <1>1 DEF Add, TypeOK
  <2> QED
    BY <1>1, <2>1, QuietStep DEF Add, TypeOK
<1>2. ASSUME NEW r \in Requests, Cancel(r) PROVE SequencerInv'
  BY <1>2, QuietStep DEF Cancel, procVars, TypeOK
<1>3. ASSUME NEW p \in Procs, Close(p) PROVE SequencerInv'
  BY <1>3, QuietStep DEF Close, TypeOK
<1>4. ASSUME NEW p \in Procs, Recv(p) PROVE SequencerInv'
  <2>1. /\ pc[p] = "select" /\ receiver[p] # <<>>
        /\ receiver' = [receiver EXCEPT ![p] = Tail(@)]
        /\ batch' = [batch EXCEPT ![p] = Append(@, Head(receiver[p]))]
        /\ pc' = [pc EXCEPT ![p] = "flush"] \/ pc' = [pc EXCEPT ![p] = "select"]
        /\ UNCHANGED <<dbVars, writer, txn, reply>>
    BY <1>4 DEF Recv
  <2>2. receiver' \in [Procs -> Seq(Requests)] /\ batch' \in [Procs -> Seq(Requests)]
    BY <2>1 DEF TypeOK
  <2> QED
    BY <2>1, <2>2, QuietStep DEF TypeOK
<1>5. ASSUME NEW p \in Procs, RecvClosed(p) PROVE SequencerInv'
  BY <1>5, QuietStep DEF RecvClosed, TypeOK
<1>6. ASSUME NEW p \in Procs, Timeout(p) PROVE SequencerInv'
  BY <1>6, QuietStep DEF Timeout, TypeOK
<1>7. ASSUME NEW p \in Procs, SequenceError(p) PROVE SequencerInv'
  <2>1. writer' = IF writer = p THEN NoProc ELSE writer
    BY <1>7 DEF SequenceError, LockIsHeld
  <2> QED
    BY <1>7, <2>1, Rollback DEF SequenceError, TypeOK
<1>8. ASSUME NEW p \in Procs, CommitTxn(p) \/ CommitLost(p) PROVE SequencerInv'
  BY <1>8, CommitStep DEF CommitTxn, CommitLost
<1>9. ASSUME NEW p \in Procs, TxnFails(p) PROVE SequencerInv'
  BY <1>9, Rollback DEF TxnFails, TypeOK
<1>10. ASSUME NEW p \in Procs, Crash(p) PROVE SequencerInv'
  <2>1. receiver' \in [Procs -> Seq(Requests)] /\ batch' \in [Procs -> Seq(Requests)]
    BY <1>10 DEF Crash, TypeOK
  <2>2. \A q \in Procs \ {p} : batch'[q] = batch[q]
    BY <1>10 DEF Crash, TypeOK
  <2> QED
    BY <1>10, <2>1, <2>2, Rollback DEF Crash
<1>11. CASE UNCHANGED vars
  BY <1>11, QuietStep DEF vars, procVars, TypeOK
<1> QED
  BY <1>1, <1>2, <1>3, <1>4, <1>5, <1>6, <1>7, <1>8, <1>9, <1>10, <1>11, BeginStep,
     DuplicateStep, EntryStep, RespondStep, RestartStep, MarkStep DEF Next, Idle

-----------------------------------------------------------------------------
\* The inductive invariant holds throughout.
THEOREM SequencerInvariant == Spec => []SequencerInv
BY InitInv, StepInv, PTL DEF Spec

\* Indices are assigned without a gap and never twice, whatever fails.
THEOREM AlwaysGapless == Spec => []RowsGapless
<1>1. SequencerInv => RowsGapless
  BY DEF SequencerInv
<1> QED
  BY <1>1, SequencerInvariant, PTL

\* An index a caller was given is that of a committed row with its own entry.
THEOREM AlwaysDurable == Spec => []AnswerIsDurable
<1>1. SequencerInv => AnswerIsDurable
  BY DEF SequencerInv
<1> QED
  BY <1>1, SequencerInvariant, PTL

\* In Rekor mode the reservation table is the inverse of the committed rows.
THEOREM AlwaysUnique == Spec => []RekorUnique
<1>1. SequencerInv => RekorUnique
  BY DEF SequencerInv
<1> QED
  BY <1>1, SequencerInvariant, PTL
-----------------------------------------------------------------------------
(* No submission is sequenced twice. Each committed row is charged to one    *)
(* request: a request waits in one place only, and has left it for good once *)
(* a row was committed for it.                                               *)

Submitted == {r \in Requests : client[r] # "idle"}

\* A submitted request is at one position of one channel or of one batch.
WaitsOnce ==
    /\ \A p, q \in Procs : \A j \in DOMAIN receiver[p], k \in DOMAIN receiver[q] :
        receiver[p][j] = receiver[q][k] => p = q /\ j = k
    /\ \A p, q \in Procs : \A j \in DOMAIN batch[p], k \in DOMAIN batch[q] :
        batch[p][j] = batch[q][k] => p = q /\ j = k
    /\ \A p, q \in Procs : \A j \in DOMAIN receiver[p], k \in DOMAIN batch[q] :
        receiver[p][j] # batch[q][k]
    /\ \A p \in Procs : \A j \in DOMAIN receiver[p] : receiver[p][j] \in Submitted
    /\ \A p \in Procs : \A j \in DOMAIN batch[p] : batch[p][j] \in Submitted

\* A charge of the committed rows to distinct requests, none of which will be
\* sequenced again.
Charges(f) ==
    /\ \A i, j \in 0 .. next_index - 1 : f[i] = f[j] => i = j
    /\ \A i \in 0 .. next_index - 1 : f[i] \in Submitted /\ EntryOf[f[i]] = sequenced[i]
    /\ \A i \in 0 .. next_index - 1, p \in Procs : \A k \in DOMAIN receiver[p] :
        f[i] # receiver[p][k]
    /\ \A i \in 0 .. next_index - 1, p \in Procs : pc[p] # "respond" =>
        \A k \in DOMAIN batch[p] : f[i] # batch[p][k]

\* An uncommitted row is there because a request of the batch was given it.
RowsOfBatch ==
    \A p \in Procs : pc[p] = "txn" =>
        \A i \in DOMAIN txn[p].rows : \E k \in DOMAIN txn[p].results : txn[p].results[k] = Index(i)

ChargeInv ==
    /\ client \in [Requests -> {"idle", "queued", "done", "gone"}]
    /\ IsFiniteSet(Submitted)
    /\ WaitsOnce
    /\ RowsOfBatch
    /\ \E f \in [0 .. next_index - 1 -> Requests] : Charges(f)

\* Nothing changes about uncommitted rows in a step that opens no transaction
\* and leaves the open one alone.
LEMMA RowsKept ==
    ASSUME ChargeInv,
           \A p \in Procs : pc'[p] = "txn" => pc[p] = "txn" /\ txn'[p] = txn[p]
    PROVE  RowsOfBatch'
BY DEF ChargeInv, RowsOfBatch

\* A step that commits no row and at most takes requests out of channels and
\* batches keeps the charge.
LEMMA ChargeKept ==
    ASSUME SequencerInv, ChargeInv, UNCHANGED <<next_index, sequenced>>,
           client' \in [Requests -> {"idle", "queued", "done", "gone"}],
           \A r \in Requests : client'[r] = "idle" <=> client[r] = "idle",
           \A p \in Procs : /\ receiver'[p] \in {receiver[p], <<>>}
                            /\ batch'[p] \in {batch[p], <<>>}
                            /\ pc[p] = "respond" => pc'[p] = "respond" \/ batch'[p] = <<>>,
           RowsOfBatch'
    PROVE  ChargeInv'
<1>1. Submitted' = Submitted
  BY DEF Submitted
<1>2. \A p \in Procs : /\ receiver'[p] = receiver[p] \/ DOMAIN receiver'[p] = {}
                       /\ batch'[p] = batch[p] \/ DOMAIN batch'[p] = {}
  OBVIOUS
<1>3. WaitsOnce'
  BY <1>1, <1>2 DEF ChargeInv, WaitsOnce
<1>4. PICK f \in [0 .. next_index - 1 -> Requests] : Charges(f)
  BY DEF ChargeInv
<1>5. Charges(f)'
  <2>1. /\ \A i, j \in 0 .. next_index' - 1 : f[i] = f[j] => i = j
        /\ \A i \in 0 .. next_index' - 1 : f[i] \in Submitted' /\ EntryOf[f[i]] = sequenced'[i]
    BY <1>1, <1>4 DEF Charges
  <2>2. \A i \in 0 .. next_index' - 1, p \in Procs : \A k \in DOMAIN receiver'[p] :
            f[i] # receiver'[p][k]
    BY <1>2, <1>4 DEF Charges
  <2>3. \A i \in 0 .. next_index' - 1, p \in Procs : pc'[p] # "respond" =>
            \A k \in DOMAIN batch'[p] : f[i] # batch'[p][k]
    BY <1>2, <1>4 DEF Charges
  <2> QED
    BY <2>1, <2>2, <2>3 DEF Charges
<1> QED
  BY <1>1, <1>3, <1>5 DEF ChargeInv

\* Sequencer::add puts a new request at one place.
LEMMA ChargeAdd ==
    ASSUME SequencerInv, ChargeInv, NEW p \in Procs, NEW r \in Requests, Add(p, r)
    PROVE  ChargeInv'
<1>1. /\ client[r] = "idle" /\ pc[p] # "down"
      /\ receiver' = [receiver EXCEPT ![p] = Append(@, r)]
      /\ client' = [client EXCEPT ![r] = "queued"]
      /\ UNCHANGED <<next_index, sequenced, pc, batch, txn>>
  BY DEF Add, dbVars
<1>2. /\ receiver \in [Procs -> Seq(Requests)] /\ receiver[p] \in Seq(Requests)
      /\ client \in [Requests -> {"idle", "queued", "done", "gone"}]
  BY DEF SequencerInv, TypeOK, ChargeInv
<1>3. Submitted' = Submitted \cup {r} /\ r \notin Submitted
  BY <1>1, <1>2 DEF Submitted
<1>4. IsFiniteSet(Submitted')
  BY <1>3, FS_AddElement DEF ChargeInv
<1>5. /\ \A q \in Procs \ {p} : receiver'[q] = receiver[q]
      /\ DOMAIN receiver'[p] = DOMAIN receiver[p] \cup {Len(receiver[p]) + 1}
      /\ receiver'[p][Len(receiver[p]) + 1] = r
      /\ \A j \in DOMAIN receiver[p] : receiver'[p][j] = receiver[p][j]
  BY <1>1, <1>2
<1>6. \A q \in Procs : \A j \in DOMAIN receiver'[q] :
          \/ j \in DOMAIN receiver[q] /\ receiver'[q][j] = receiver[q][j]
          \/ q = p /\ j = Len(receiver[p]) + 1 /\ receiver'[q][j] = r
  BY <1>5
<1>7. \A q \in Procs : \A j \in DOMAIN receiver[q] : receiver[q][j] \in Submitted
  BY DEF ChargeInv, WaitsOnce
<1>8. \A q \in Procs : \A j \in DOMAIN batch[q] : batch[q][j] \in Submitted
  BY DEF ChargeInv, WaitsOnce
<1>9. WaitsOnce'
  <2>1. \A q, s \in Procs : \A j \in DOMAIN receiver'[q], k \in DOMAIN receiver'[s] :
            receiver'[q][j] = receiver'[s][k] => q = s /\ j = k
    BY <1>3, <1>6, <1>7 DEF ChargeInv, WaitsOnce
  <2>2. \A q, s \in Procs : \A j \in DOMAIN receiver'[q], k \in DOMAIN batch[s] :
            receiver'[q][j] # batch[s][k]
    BY <1>3, <1>6, <1>8 DEF ChargeInv, WaitsOnce
  <2>3. \A q \in Procs : \A j \in DOMAIN receiver'[q] : receiver'[q][j] \in Submitted'
    BY <1>3, <1>6, <1>7
  <2> QED
    BY <1>1, <1>3, <2>1, <2>2, <2>3 DEF ChargeInv, WaitsOnce
<1>10. PICK f \in [0 .. next_index - 1 -> Requests] : Charges(f)
  BY DEF ChargeInv
<1>11. Charges(f)'
  <2>1. \A i \in 0 .. next_index - 1, q \in Procs : \A k \in DOMAIN receiver'[q] :
            f[i] # receiver'[q][k]
    BY <1>3, <1>6, <1>10 DEF Charges
  <2> QED
    BY <1>1, <1>3, <1>10, <2>1 DEF Charges
<1>12. RowsOfBatch'
  BY <1>1 DEF ChargeInv, RowsOfBatch
<1> QED
  BY <1>1, <1>2, <1>4, <1>9, <1>11, <1>12 DEF ChargeInv

\* The worker moves a request from the head of its channel to its batch.
LEMMA ChargeRecv ==
    ASSUME SequencerInv, ChargeInv, NEW p \in Procs, Recv(p)
    PROVE  ChargeInv'
<1> DEFINE h == Head(receiver[p])
           n == Len(batch[p]) + 1
<1>1. /\ pc[p] = "select" /\ receiver[p] # <<>>
      /\ receiver' = [receiver EXCEPT ![p] = Tail(@)]
      /\ batch' = [batch EXCEPT ![p] = Append(@, h)]
      /\ pc' = [pc EXCEPT ![p] = "flush"] \/ pc' = [pc EXCEPT ![p] = "select"]
      /\ UNCHANGED <<next_index, sequenced, client, txn>>
  BY DEF Recv, dbVars
<1>2. /\ receiver \in [Procs -> Seq(Requests)] /\ receiver[p] \in Seq(Requests)
      /\ batch \in [Procs -> Seq(Requests)] /\ batch[p] \in Seq(Requests)
      /\ pc \in [Procs -> {"down", "select", "flush", "txn", "respond", "stopped"}]
  BY DEF SequencerInv, TypeOK
<1>3. \A q \in Procs : \A j \in DOMAIN receiver'[q] :
          \/ q # p /\ j \in DOMAIN receiver[q] /\ receiver'[q][j] = receiver[q][j]
          \/ q = p /\ j \in Nat \ {0} /\ j + 1 \in DOMAIN receiver[p] /\ receiver'[q][j] = receiver[p][j + 1]
  BY <1>1, <1>2
<1>4. 1 \in DOMAIN receiver[p] /\ h = receiver[p][1]
  BY <1>1, <1>2
<1>5. \A q \in Procs : \A j \in DOMAIN batch'[q] :
          \/ j \in DOMAIN batch[q] /\ batch'[q][j] = batch[q][j]
          \/ q = p /\ j = n /\ batch'[q][j] = h
  BY <1>1, <1>2
<1>6. Submitted' = Submitted
  BY <1>1 DEF Submitted
<1> HIDE DEF h, n
<1>7. WaitsOnce'
  <2> USE DEF ChargeInv, WaitsOnce
  <2>1. \A q, s \in Procs : \A j \in DOMAIN receiver'[q], k \in DOMAIN receiver'[s] :
            receiver'[q][j] = receiver'[s][k] => q = s /\ j = k
    BY <1>3
  <2>2. \A q, s \in Procs : \A j \in DOMAIN batch'[q], k \in DOMAIN batch'[s] :
            batch'[q][j] = batch'[s][k] => q = s /\ j = k
    BY <1>4, <1>5
  <2>3. \A q, s \in Procs : \A j \in DOMAIN receiver'[q], k \in DOMAIN batch'[s] :
            receiver'[q][j] # batch'[s][k]
    BY <1>3, <1>4, <1>5
  <2>4. /\ \A q \in Procs : \A j \in DOMAIN receiver'[q] : receiver'[q][j] \in Submitted'
        /\ \A q \in Procs : \A j \in DOMAIN batch'[q] : batch'[q][j] \in Submitted'
    BY <1>3, <1>4, <1>5, <1>6
  <2> QED
    BY <2>1, <2>2, <2>3, <2>4
<1>8. PICK f \in [0 .. next_index - 1 -> Requests] : Charges(f)
  BY DEF ChargeInv
<1>9. Charges(f)'
  <2>1. \A i \in 0 .. next_index - 1, q \in Procs : \A k \in DOMAIN receiver'[q] :
            f[i] # receiver'[q][k]
    BY <1>3, <1>8 DEF Charges
  <2>2. \A i \in 0 .. next_index - 1, q \in Procs : pc'[q] # "respond" =>
            \A k \in DOMAIN batch'[q] : f[i] # batch'[q][k]
    BY <1>1, <1>2, <1>4, <1>5, <1>8 DEF Charges
  <2> QED
    BY <1>1, <1>6, <1>8, <2>1, <2>2 DEF Charges
<1>10. RowsOfBatch'
  BY <1>1, <1>2, RowsKept
<1> QED
  BY <1>1, <1>6, <1>7, <1>9, <1>10 DEF ChargeInv
\* The commit charges each new row to the request of the batch it was given to;
\* the batch is then answered and dropped, never flushed again.
LEMMA ChargeCommit ==
    ASSUME SequencerInv, ChargeInv, NEW p \in Procs, CommitTxn(p) \/ CommitLost(p)
    PROVE  ChargeInv'
<1> DEFINE t == txn[p]
           b == batch[p]
<1>1. /\ pc[p] = "txn" /\ pc' = [pc EXCEPT ![p] = "respond"]
      /\ Len(t.results) = Len(b)
      /\ next_index' = t.next /\ sequenced' = View(p)
      /\ UNCHANGED <<receiver, batch, client>>
      /\ \A q \in Procs \ {p} : txn'[q] = txn[q]
  BY DEF CommitTxn, CommitLost, ApplyTxn, View, SequencerInv, TypeOK
<1>2. /\ t.next \in Nat /\ t.next >= next_index /\ next_index \in Nat
      /\ DOMAIN t.rows = next_index .. t.next - 1
      /\ DOMAIN sequenced = 0 .. next_index - 1
      /\ ResultsTrueOf(p, View(p))
      /\ t.results \in Seq(Results) /\ b \in Seq(Requests)
      /\ DOMAIN t.results = DOMAIN b
      /\ pc \in [Procs -> {"down", "select", "flush", "txn", "respond", "stopped"}]
  BY <1>1 DEF SequencerInv, TxnContinues, RowsGapless, TypeOK, Txns
<1>3. Submitted' = Submitted
  BY <1>1 DEF Submitted
<1>4. WaitsOnce'
  BY <1>1, <1>3 DEF ChargeInv, WaitsOnce
<1>5. RowsOfBatch'
  BY <1>1, <1>2, RowsKept
<1>6. PICK f \in [0 .. next_index - 1 -> Requests] : Charges(f)
  BY DEF ChargeInv
<1> DEFINE given(i) == CHOOSE k \in DOMAIN t.results : t.results[k] = Index(i)
           new(i) == b[given(i)]
           charge == [i \in 0 .. t.next - 1 |-> IF i < next_index THEN f[i] ELSE new(i)]
<1>7. ASSUME NEW i \in DOMAIN t.rows
      PROVE  /\ given(i) \in DOMAIN b /\ t.results[given(i)] = Index(i)
             /\ new(i) \in Requests /\ new(i) \in Submitted
             /\ EntryOf[new(i)] = View(p)[i]
  <2>1. given(i) \in DOMAIN t.results /\ t.results[given(i)] = Index(i)
    BY <1>1 DEF ChargeInv, RowsOfBatch
  <2> HIDE DEF given
  <2>2. View(p)[i] = EntryOf[b[given(i)]]
    BY <1>2, <2>1 DEF ResultsTrueOf, Index
  <2>3. b[given(i)] \in Submitted
    BY <1>2, <2>1 DEF ChargeInv, WaitsOnce
  <2> QED
    BY <1>2, <2>1, <2>2, <2>3
<1> HIDE DEF given
<1>8. \A i \in DOMAIN f : View(p)[i] = sequenced[i]
  BY <1>2 DEF View, Extend
<1>9. /\ \A i \in 0 .. next_index - 1 : charge[i] = f[i]
      /\ \A i \in DOMAIN t.rows : charge[i] = new(i)
      /\ \A i \in 0 .. t.next - 1 : i \in 0 .. next_index - 1 \/ i \in DOMAIN t.rows
  BY <1>2
<1>10. PICK g \in [0 .. next_index' - 1 -> Requests] : g = charge
  BY <1>1, <1>2, <1>7, <1>9
<1> HIDE DEF charge, new
<1>11. ASSUME NEW i \in DOMAIN t.rows, NEW j \in DOMAIN t.rows, new(i) = new(j) PROVE i = j
  <2>1. given(i) = given(j)
    BY <1>7, <1>11 DEF ChargeInv, WaitsOnce, new
  <2>2. Index(i) = Index(j)
    BY <1>7, <2>1
  <2> QED
    BY <2>2 DEF Index
<1>12. ASSUME NEW i \in 0 .. next_index - 1, NEW j \in DOMAIN t.rows PROVE f[i] # new(j)
  BY <1>1, <1>6, <1>7 DEF Charges, new
<1>13. Charges(g)'
  <2>1. \A i, j \in 0 .. t.next - 1 : g[i] = g[j] => i = j
    BY <1>6, <1>9, <1>10, <1>11, <1>12 DEF Charges
  <2>2. \A i \in 0 .. t.next - 1 : g[i] \in Submitted /\ EntryOf[g[i]] = View(p)[i]
    BY <1>6, <1>7, <1>8, <1>9, <1>10 DEF Charges
  <2>3. \A i \in 0 .. t.next - 1, q \in Procs : \A k \in DOMAIN receiver[q] : g[i] # receiver[q][k]
    <3>1. \A j \in DOMAIN t.rows, q \in Procs : \A k \in DOMAIN receiver[q] : new(j) # receiver[q][k]
      BY <1>7 DEF ChargeInv, WaitsOnce, new
    <3> QED
      BY <1>6, <1>9, <1>10, <3>1 DEF Charges
  <2>4. \A i \in 0 .. t.next - 1, q \in Procs : pc'[q] # "respond" =>
            \A k \in DOMAIN batch[q] : g[i] # batch[q][k]
    <3> SUFFICES ASSUME NEW i \in 0 .. t.next - 1, NEW q \in Procs, pc'[q] # "respond",
                        NEW k \in DOMAIN batch[q]
                 PROVE  g[i] # batch[q][k]
      OBVIOUS
    <3>1. q # p /\ pc[q] # "respond"
      BY <1>1, <1>2
    <3>2. CASE i \in 0 .. next_index - 1
      BY <1>6, <1>9, <1>10, <3>1, <3>2 DEF Charges
    <3>3. CASE i \in DOMAIN t.rows
      BY <1>7, <1>9, <1>10, <3>1, <3>3 DEF ChargeInv, WaitsOnce, new
    <3> QED
      BY <1>9, <1>10, <3>2, <3>3
  <2> QED
    BY <1>1, <1>3, <2>1, <2>2, <2>3, <2>4 DEF Charges
<1> QED
  BY <1>1, <1>3, <1>4, <1>5, <1>10, <1>13 DEF ChargeInv
\* Inside a transaction an uncommitted row appears with the result that names it.
LEMMA ChargeSequence ==
    ASSUME SequencerInv, ChargeInv, NEW p \in Procs,
           BeginTxn(p) \/ SequenceDuplicate(p) \/ SequenceEntry(p)
    PROVE  ChargeInv'
<1>1. /\ UNCHANGED <<next_index, sequenced, receiver, batch, client>>
      /\ \A q \in Procs \ {p} : pc'[q] = pc[q] /\ txn'[q] = txn[q]
      /\ \A q \in Procs : pc[q] = "respond" => pc'[q] = "respond"
  BY DEF BeginTxn, SequenceDuplicate, SequenceEntry, dbVars, SequencerInv, TypeOK
<1>2. txn[p] \in Txns /\ txn[p].results \in Seq(Results)
  BY DEF SequencerInv, TypeOK, Txns
<1>3. ASSUME NEW i \in DOMAIN txn'[p].rows
      PROVE  \E k \in DOMAIN txn'[p].results : txn'[p].results[k] = Index(i)
  <2>1. CASE BeginTxn(p)
    <3>1. txn'[p].rows = Empty
      BY <2>1 DEF BeginTxn, NoTxn, SequencerInv, TypeOK
    <3> QED
      BY <3>1 DEF Empty
  <2>2. ASSUME NEW a, txn'[p].results = Append(txn[p].results, a), pc[p] = "txn", i \in DOMAIN txn[p].rows
        PROVE  \E k \in DOMAIN txn'[p].results : txn'[p].results[k] = Index(i)
    <3>1. PICK k \in DOMAIN txn[p].results : txn[p].results[k] = Index(i)
      BY <2>2 DEF ChargeInv, RowsOfBatch
    <3>2. k \in DOMAIN txn'[p].results /\ txn'[p].results[k] = txn[p].results[k]
      BY <1>2, <2>2, <3>1
    <3> QED
      BY <3>1, <3>2
  <2>3. CASE SequenceDuplicate(p)
    <3> DEFINE a == Duplicate(Reserved(p)[CurrentEntry(p)])
    <3>1. txn' = [txn EXCEPT ![p].results = Append(@, a)] /\ pc[p] = "txn"
      BY <2>3 DEF SequenceDuplicate
    <3> HIDE DEF a
    <3>2. txn'[p].rows = txn[p].rows /\ txn'[p].results = Append(txn[p].results, a)
      BY <3>1, <1>2 DEF SequencerInv, TypeOK, Txns
    <3> QED
      BY <2>2, <3>1, <3>2
  <2>4. CASE SequenceEntry(p)
    <3>1. /\ pc[p] = "txn"
          /\ txn'[p].rows = Extend(txn[p].rows, [x \in {txn[p].next} |-> CurrentEntry(p)])
          /\ txn'[p].results = Append(txn[p].results, Index(txn[p].next))
      BY <2>4 DEF SequenceEntry, SequencerInv, TypeOK
    <3>2. CASE i \in DOMAIN txn[p].rows
      BY <2>2, <3>1, <3>2
    <3>3. CASE i = txn[p].next
      <4>1. /\ Len(txn[p].results) + 1 \in DOMAIN txn'[p].results
            /\ txn'[p].results[Len(txn[p].results) + 1] = Index(i)
        BY <1>2, <3>1, <3>3
      <4> QED
        BY <4>1
    <3> QED
      BY <3>1, <3>2, <3>3 DEF Extend
  <2> QED
    BY <2>1, <2>3, <2>4
<1>4. RowsOfBatch'
  BY <1>1, <1>3 DEF ChargeInv, RowsOfBatch
<1> QED
  BY <1>1, <1>4, ChargeKept DEF ChargeInv

\* Every step keeps each committed row charged to a request of its own.
LEMMA StepCharge == SequencerInv /\ ChargeInv /\ [Next]_vars => ChargeInv'
<1> SUFFICES ASSUME SequencerInv, ChargeInv, [Next]_vars PROVE ChargeInv'
  OBVIOUS
<1>0. /\ pc \in [Procs -> {"down", "select", "flush", "txn", "respond", "stopped"}]
      /\ receiver \in [Procs -> Seq(Requests)] /\ batch \in [Procs -> Seq(Requests)]
      /\ txn \in [Procs -> Txns]
      /\ client \in [Requests -> {"idle", "queued", "done", "gone"}]
  BY DEF SequencerInv, TypeOK, ChargeInv
<1>1. ASSUME NEW r \in Requests, Cancel(r) PROVE ChargeInv'
  <2>1. /\ UNCHANGED <<next_index, sequenced, pc, receiver, batch, txn>>
        /\ client[r] = "queued" /\ client' = [client EXCEPT ![r] = "gone"]
    BY <1>1 DEF Cancel, dbVars, procVars
  <2>2. RowsOfBatch'
    BY <2>1, RowsKept
  <2> QED
    BY <1>0, <2>1, <2>2, ChargeKept
<1>2. ASSUME NEW p \in Procs, Close(p) \/ RecvClosed(p) \/ Timeout(p) \/ SequenceError(p) \/ TxnFails(p)
      PROVE  ChargeInv'
  <2>1. /\ UNCHANGED <<next_index, sequenced, receiver, batch, client>>
        /\ \A q \in Procs : pc'[q] = "txn" => pc[q] = "txn" /\ txn'[q] = txn[q]
        /\ \A q \in Procs : pc[q] = "respond" => pc'[q] = "respond"
    BY <1>0, <1>2 DEF Close, RecvClosed, Timeout, SequenceError, TxnFails, dbVars
  <2>2. RowsOfBatch'
    BY <2>1, RowsKept
  <2> QED
    BY <1>0, <2>1, <2>2, ChargeKept
<1>3. ASSUME NEW p \in Procs, Respond(p) PROVE ChargeInv'
  <2> DEFINE live == {batch[p][k] : k \in {k \in DOMAIN batch[p] : client[batch[p][k]] = "queued"}}
  <2>1. /\ UNCHANGED <<next_index, sequenced, receiver>>
        /\ batch' = [batch EXCEPT ![p] = <<>>]
        /\ client' = [r \in Requests |-> IF r \in live THEN "done" ELSE client[r]]
        /\ \A q \in Procs : pc'[q] = "txn" => pc[q] = "txn" /\ txn'[q] = txn[q]
        /\ \A q \in Procs \ {p} : pc'[q] = pc[q]
    BY <1>0, <1>3 DEF Respond, Drained, dbVars
  <2>2. \A r \in live : client[r] = "queued"
    OBVIOUS
  <2> HIDE DEF live
  <2>3. RowsOfBatch'
    BY <2>1, RowsKept
  <2> QED
    BY <1>0, <2>1, <2>2, <2>3, ChargeKept
<1>4. ASSUME NEW p \in Procs, Crash(p) PROVE ChargeInv'
  <2>1. /\ UNCHANGED <<next_index, sequenced>>
        /\ receiver' = [receiver EXCEPT ![p] = <<>>]
        /\ batch' = [batch EXCEPT ![p] = <<>>]
        /\ client' = [r \in Requests |-> IF r \in InFlight(p) /\ client[r] = "queued" THEN "gone" ELSE client[r]]
        /\ \A q \in Procs : pc'[q] = "txn" => pc[q] = "txn" /\ txn'[q] = txn[q]
        /\ \A q \in Procs \ {p} : pc'[q] = pc[q]
    BY <1>0, <1>4 DEF Crash, dbVars
  <2>2. RowsOfBatch'
    BY <2>1, RowsKept
  <2> QED
    BY <1>0, <2>1, <2>2, ChargeKept
<1>5. ASSUME NEW p \in Procs, NEW m \in Modes, Restart(p, m) PROVE ChargeInv'
  <2>1. /\ UNCHANGED <<next_index, sequenced, receiver, batch, txn, client>>
        /\ \A q \in Procs : pc'[q] \in {"txn", "respond"} \/ pc[q] \in {"txn", "respond"} => pc'[q] = pc[q]
    BY <1>0, <1>5 DEF Restart
  <2>2. RowsOfBatch'
    BY <2>1, RowsKept
  <2> QED
    BY <1>0, <2>1, <2>2, ChargeKept
<1>6. ASSUME UNCHANGED <<next_index, sequenced, pc, receiver, batch, txn, client>> PROVE ChargeInv'
  <2>1. RowsOfBatch'
    BY <1>6, RowsKept
  <2> QED
    BY <1>0, <1>6, <2>1, ChargeKept
<1>7. ASSUME NEW n \in 1 .. MaxIndex, MarkIntegrated(n) PROVE ChargeInv'
  BY <1>6, <1>7 DEF MarkIntegrated, procVars
<1>8. CASE UNCHANGED vars
  BY <1>6, <1>8 DEF vars, dbVars, procVars
<1> QED
  BY <1>1, <1>2, <1>3, <1>4, <1>5, <1>7, <1>8, ChargeAdd, ChargeRecv, ChargeSequence,
     ChargeCommit DEF Next, Idle

\* A submission puts at most one row into the log: crashes, failed transactions
\* and lost acknowledgements never make the worker sequence a batch again.
THEOREM NeverTwice == Spec => []NoDoubleSequencing
<1>1. Init => ChargeInv
  <2> SUFFICES ASSUME Init PROVE ChargeInv
    OBVIOUS
  <2>1. Submitted = {} /\ IsFiniteSet(Submitted)
    BY FS_EmptySet DEF Init, Submitted
  <2>2. WaitsOnce /\ RowsOfBatch
    BY DEF Init, WaitsOnce, RowsOfBatch
  <2>3. \E f \in [0 .. next_index - 1 -> Requests] : Charges(f)
    <3>1. 0 .. next_index - 1 = {} /\ [x \in {} |-> x] \in [{} -> Requests]
      BY DEF Init
    <3>2. Charges([x \in {} |-> x])
      BY <3>1 DEF Charges
    <3> QED
      BY <3>1, <3>2
  <2> QED
    BY <2>1, <2>2, <2>3 DEF Init, ChargeInv
<1>2. SequencerInv /\ ChargeInv => NoDoubleSequencing
  <2> SUFFICES ASSUME SequencerInv, ChargeInv, NEW e \in Entries
               PROVE  Cardinality({i \in DOMAIN sequenced : sequenced[i] = e})
                        <= Cardinality({r \in Requests : EntryOf[r] = e /\ client[r] # "idle"})
    BY DEF NoDoubleSequencing
  <2> DEFINE S == {i \in DOMAIN sequenced : sequenced[i] = e}
             T == {r \in Requests : EntryOf[r] = e /\ client[r] # "idle"}
  <2>1. PICK f \in [0 .. next_index - 1 -> Requests] : Charges(f)
    BY DEF ChargeInv
  <2>2. DOMAIN sequenced = 0 .. next_index - 1
    BY DEF SequencerInv, RowsGapless
  <2> DEFINE g == [i \in S |-> f[i]]
  <2>3. \A i \in S : f[i] \in T
    BY <2>1, <2>2 DEF Charges, Submitted
  <2>4. \A i, j \in S : f[i] = f[j] => i = j
    BY <2>1, <2>2 DEF Charges
  <2>5. IsFiniteSet(T)
    <3>1. T \in SUBSET Submitted
      BY DEF Submitted
    <3> QED
      BY <3>1, FS_Subset DEF ChargeInv
  <2> HIDE DEF S, T
  <2>6. g \in Injection(S, T)
    BY <2>3, <2>4 DEF Injection, IsInjective
  <2>7. Cardinality(S) <= Cardinality(T)
    BY <2>5, <2>6, FS_Injection
  <2> QED
    BY <2>7 DEF S, T
<1> QED
  BY <1>1, <1>2, StepCharge, SequencerInvariant, PTL DEF Spec
=============================================================================

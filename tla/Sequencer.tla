------------------------------ MODULE Sequencer ------------------------------
(***************************************************************************)
(* The entry queue and sequencer (src/sequencer/queue.rs) together with    *)
(* the database transaction it runs (Database::sequence_entries).          *)
(*                                                                         *)
(* Clients hand entries to a server process over a bounded channel; the    *)
(* process's worker collects them into a batch and flushes the batch when  *)
(* it is full, when its deadline passes, or when the channel is closed.    *)
(* A flush is one database transaction that assigns consecutive indices.   *)
(* Several processes may share the database ("This serializes independent  *)
(* sequencer processes"), each may crash at any step, and the database may *)
(* fail a transaction or lose the answer to a commit.                      *)
(***************************************************************************)
EXTENDS Integers, Sequences, FiniteSets

CONSTANTS
    Procs,          \* server processes that share the database
    Requests,       \* calls of Sequencer::add
    Entries,        \* entry contents (equal entries have equal leaf hashes)
    EntryOf,        \* the entry each request submits
    Modes,          \* the API modes processes may be started with
    BatchMaxSize,   \* SequencerConfig.batch_max_size
    ChannelSize,    \* SequencerConfig.channel_size
    MaxIndex,       \* i64::MAX, the largest value next_index can hold
    MaxFaults,      \* bound on crashes and database failures
    NoProc,         \* the writer lock is free
    NoMode          \* log_config has no row yet

ASSUME SequencerAssumption ==
    /\ EntryOf \in [Requests -> Entries]
    /\ Modes \subseteq {"rekor", "tessera"}
    /\ BatchMaxSize \in Nat \ {0}
    /\ ChannelSize \in Nat \ {0}
    /\ MaxIndex \in Nat
    /\ MaxFaults \in Nat
    /\ NoProc \notin Procs /\ NoMode \notin Modes

VARIABLES
    \* The database, which survives every crash.
    next_index,       \* log_state.next_index
    integrated_size,  \* log_state.integrated_size
    pending,          \* table pending_entries: index -> entry
    rekor_entries,    \* table rekor_entries: entry (its leaf hash) -> index
    mode,             \* log_config.mode
    writer,           \* holder of the database writer lock
    sequenced,        \* history: every row ever committed to pending_entries
    \* The processes, whose state a crash loses.
    pc,               \* where the worker of each process is
    closed,           \* every Sender of the process's channel was dropped
    receiver,         \* the mpsc channel, oldest request first
    batch,            \* the batch being collected or flushed
    deadline,         \* batch_deadline.is_some()
    txn,              \* the open transaction's uncommitted work
    \* The callers of Sequencer::add.
    client,           \* "idle", "queued", "done" or "gone"
    reply,            \* what the oneshot channel delivered
    faults            \* crashes and database failures so far

dbVars   == <<next_index, integrated_size, pending, rekor_entries, mode, sequenced>>
procVars == <<pc, closed, receiver, batch, deadline, txn>>
vars     == <<dbVars, writer, procVars, client, reply, faults>>

-----------------------------------------------------------------------------
Empty == [x \in {} |-> x]

\* f extended, and where both are defined overridden, by g.
Extend(f, g) == [x \in DOMAIN f \cup DOMAIN g |-> IF x \in DOMAIN g THEN g[x] ELSE f[x]]

\* Result<LogIndex> for one request: Ok(idx), Err(Duplicate(idx)), Err(Internal).
Index(i)     == [kind |-> "index", idx |-> i]
Duplicate(i) == [kind |-> "duplicate", idx |-> i]
Internal     == [kind |-> "error", idx |-> 0]
NoReply      == [kind |-> "none", idx |-> 0]

NoTxn == [next |-> 0, rows |-> Empty, reserved |-> Empty, results |-> <<>>]

\* Mutant: forgets the reservations made earlier in the same transaction.
ReservedCommittedOnly(p) == rekor_entries

InFlight(p) == {receiver[p][k] : k \in DOMAIN receiver[p]} \cup {batch[p][k] : k \in DOMAIN batch[p]}

\* What the transaction sees in rekor_entries: committed rows and its own.
Reserved(p) == Extend(rekor_entries, txn[p].reserved)

Init ==
    /\ next_index = 0 /\ integrated_size = 0
    /\ pending = Empty /\ rekor_entries = Empty /\ sequenced = Empty
    /\ mode = NoMode
    /\ writer = NoProc
    /\ pc = [p \in Procs |-> "down"]
    /\ closed = [p \in Procs |-> FALSE]
    /\ receiver = [p \in Procs |-> <<>>]
    /\ batch = [p \in Procs |-> <<>>]
    /\ deadline = [p \in Procs |-> FALSE]
    /\ txn = [p \in Procs |-> NoTxn]
    /\ client = [r \in Requests |-> "idle"]
    /\ reply = [r \in Requests |-> NoReply]
    /\ faults = 0

-----------------------------------------------------------------------------
(* Sequencer::add: send waits for capacity, fails once the receiver is gone *)
Add(p, r) ==
    /\ client[r] = "idle"
    /\ pc[p] \notin {"down", "stopped"} /\ ~closed[p]
    /\ Len(receiver[p]) < ChannelSize
    /\ receiver' = [receiver EXCEPT ![p] = Append(@, r)]
    /\ client' = [client EXCEPT ![r] = "queued"]
    /\ UNCHANGED <<dbVars, writer, pc, closed, batch, deadline, txn, reply, faults>>

\* The caller's future is dropped: its own 30 s timeout, or a disconnect. The
\* request stays in the channel or the batch; its response goes nowhere.
Cancel(r) ==
    /\ client[r] = "queued"
    /\ client' = [client EXCEPT ![r] = "gone"]
    /\ UNCHANGED <<dbVars, writer, procVars, reply, faults>>

\* Graceful shutdown drops the process's senders once no handler holds one.
Close(p) ==
    /\ pc[p] \notin {"down", "stopped"} /\ ~closed[p]
    /\ \A r \in InFlight(p) : client[r] # "queued"
    /\ closed' = [closed EXCEPT ![p] = TRUE]
    /\ UNCHANGED <<dbVars, writer, pc, receiver, batch, deadline, txn, client, reply, faults>>

-----------------------------------------------------------------------------
(* SequencerWorker::run, the three branches of its select!                  *)

\* Mutant: the deadline is not set on the first entry.
DeadlineNeverSet(p) == deadline[p]
DeadlineAfterRecv(p) == deadline[p] \/ batch[p] = <<>>

BatchFull(b) == Len(b) >= BatchMaxSize

Recv(p) ==
    /\ pc[p] = "select"
    /\ receiver[p] # <<>>
    /\ receiver' = [receiver EXCEPT ![p] = Tail(@)]
    /\ batch' = [batch EXCEPT ![p] = Append(@, Head(receiver[p]))]
    /\ deadline' = [deadline EXCEPT ![p] = DeadlineAfterRecv(p)]
    /\ pc' = [pc EXCEPT ![p] = IF BatchFull(batch'[p]) THEN "flush" ELSE "select"]
    /\ UNCHANGED <<dbVars, writer, closed, txn, client, reply, faults>>

RecvClosed(p) ==
    /\ pc[p] = "select"
    /\ closed[p] /\ receiver[p] = <<>>
    /\ pc' = [pc EXCEPT ![p] = IF batch[p] = <<>> THEN "stopped" ELSE "flush"]
    /\ UNCHANGED <<dbVars, writer, closed, receiver, batch, deadline, txn, client, reply, faults>>

Timeout(p) ==
    /\ pc[p] = "select"
    /\ batch[p] # <<>>
    /\ deadline[p]
    /\ pc' = [pc EXCEPT ![p] = "flush"]
    /\ UNCHANGED <<dbVars, writer, closed, receiver, batch, deadline, txn, client, reply, faults>>

-----------------------------------------------------------------------------
(* Database::sequence_entries, called by flush_batch                        *)

\* Mutant: the state is read without waiting for the writer lock.
LockIgnored == TRUE
LockFree == writer = NoProc

\* The no-op UPDATE takes the writer lock; only then is the state read.
BeginTxn(p) ==
    /\ pc[p] = "flush"
    /\ LockFree
    /\ writer' = p
    /\ txn' = [txn EXCEPT ![p] = [NoTxn EXCEPT !.next = next_index]]
    /\ pc' = [pc EXCEPT ![p] = "txn"]
    /\ UNCHANGED <<dbVars, closed, receiver, batch, deadline, client, reply, faults>>

\* The mode is read under the lock.
Deduplicate == mode = "rekor"

\* The entry the loop of sequence_entries is at.
CurrentEntry(p) == EntryOf[batch[p][Len(txn[p].results) + 1]]

SequenceDuplicate(p) ==
    /\ pc[p] = "txn"
    /\ Len(txn[p].results) < Len(batch[p])
    /\ Deduplicate /\ CurrentEntry(p) \in DOMAIN Reserved(p)
    /\ txn' = [txn EXCEPT ![p].results = Append(@, Duplicate(Reserved(p)[CurrentEntry(p)]))]
    /\ UNCHANGED <<dbVars, writer, pc, closed, receiver, batch, deadline, client, reply, faults>>

Advanced(n) == n + 1

\* Reservation and pending row go in together; idx is pending's primary key.
SequenceEntry(p) ==
    /\ pc[p] = "txn"
    /\ Len(txn[p].results) < Len(batch[p])
    /\ ~(Deduplicate /\ CurrentEntry(p) \in DOMAIN Reserved(p))
    /\ txn[p].next < MaxIndex
    /\ txn[p].next \notin DOMAIN pending
    /\ txn' = [txn EXCEPT ![p] =
                [next     |-> Advanced(@.next),
                 rows     |-> Extend(@.rows, [i \in {@.next} |-> CurrentEntry(p)]),
                 reserved |-> IF Deduplicate
                              THEN Extend(@.reserved, [e \in {CurrentEntry(p)} |-> @.next])
                              ELSE @.reserved,
                 results  |-> Append(@.results, Index(@.next))]]
    /\ UNCHANGED <<dbVars, writer, pc, closed, receiver, batch, deadline, client, reply, faults>>

\* Every request of the batch is answered with the transaction's error.
AllInternal(p) == [k \in DOMAIN batch[p] |-> Internal]

\* checked_add overflows, or the primary key is taken: roll back.
SequenceError(p) ==
    /\ pc[p] = "txn"
    /\ Len(txn[p].results) < Len(batch[p])
    /\ ~(Deduplicate /\ CurrentEntry(p) \in DOMAIN Reserved(p))
    /\ txn[p].next >= MaxIndex \/ txn[p].next \in DOMAIN pending
    /\ writer' = NoProc
    /\ txn' = [txn EXCEPT ![p] = [NoTxn EXCEPT !.results = AllInternal(p)]]
    /\ pc' = [pc EXCEPT ![p] = "respond"]
    /\ UNCHANGED <<dbVars, closed, receiver, batch, deadline, client, reply, faults>>

ApplyTxn(p) ==
    /\ next_index' = txn[p].next
    /\ pending' = Extend(pending, txn[p].rows)
    /\ rekor_entries' = Reserved(p)
    /\ sequenced' = Extend(sequenced, txn[p].rows)
    /\ writer' = NoProc
    /\ UNCHANGED <<integrated_size, mode>>

CommitTxn(p) ==
    /\ pc[p] = "txn"
    /\ Len(txn[p].results) = Len(batch[p])
    /\ ApplyTxn(p)
    /\ pc' = [pc EXCEPT ![p] = "respond"]
    /\ UNCHANGED <<closed, receiver, batch, deadline, txn, client, reply, faults>>

\* The commit takes effect and its acknowledgement is lost on the way back.
CommitLost(p) ==
    /\ pc[p] = "txn"
    /\ Len(txn[p].results) = Len(batch[p])
    /\ faults < MaxFaults
    /\ ApplyTxn(p)
    /\ txn' = [txn EXCEPT ![p] = [NoTxn EXCEPT !.results = AllInternal(p)]]
    /\ pc' = [pc EXCEPT ![p] = "respond"]
    /\ faults' = faults + 1
    /\ UNCHANGED <<closed, receiver, batch, deadline, client, reply>>

\* A database error before the commit: the transaction is rolled back.
TxnFails(p) ==
    /\ pc[p] \in {"flush", "txn"}
    /\ faults < MaxFaults
    /\ writer' = IF writer = p THEN NoProc ELSE writer
    /\ txn' = [txn EXCEPT ![p] = [NoTxn EXCEPT !.results = AllInternal(p)]]
    /\ pc' = [pc EXCEPT ![p] = "respond"]
    /\ faults' = faults + 1
    /\ UNCHANGED <<dbVars, closed, receiver, batch, deadline, client, reply>>

\* Mutant: a batch that failed is kept and flushed again.
KeptOnError(p) == IF txn[p].results = AllInternal(p) THEN batch[p] ELSE <<>>
Drained(p) == <<>>

\* flush_batch drains the batch and answers every caller still there. Once the
\* channel is closed and empty the loop ends, at once or at its next recv.
Respond(p) ==
    LET answered == {k \in DOMAIN batch[p] : client[batch[p][k]] = "queued"}
        result(r) == CHOOSE k \in answered : batch[p][k] = r
        live == {batch[p][k] : k \in answered}
    IN /\ pc[p] = "respond"
       /\ client' = [r \in Requests |-> IF r \in live THEN "done" ELSE client[r]]
       /\ reply' = [r \in Requests |-> IF r \in live THEN txn[p].results[result(r)] ELSE reply[r]]
       /\ batch' = [batch EXCEPT ![p] = Drained(p)]
       /\ deadline' = [deadline EXCEPT ![p] = FALSE]
       /\ txn' = [txn EXCEPT ![p] = NoTxn]
       /\ pc' = [pc EXCEPT ![p] = IF closed[p] /\ receiver[p] = <<>> THEN "stopped" ELSE "select"]
       /\ UNCHANGED <<dbVars, writer, closed, receiver, faults>>

-----------------------------------------------------------------------------
(* The surroundings: crashes, restarts, the integration worker              *)

\* The process dies. Its transaction is rolled back and its callers lose
\* their connection.
Crash(p) ==
    /\ pc[p] # "down"
    /\ faults < MaxFaults
    /\ faults' = faults + 1
    /\ writer' = IF writer = p THEN NoProc ELSE writer
    /\ client' = [r \in Requests |-> IF r \in InFlight(p) /\ client[r] = "queued" THEN "gone" ELSE client[r]]
    /\ pc' = [pc EXCEPT ![p] = "down"]
    /\ closed' = [closed EXCEPT ![p] = FALSE]
    /\ receiver' = [receiver EXCEPT ![p] = <<>>]
    /\ batch' = [batch EXCEPT ![p] = <<>>]
    /\ deadline' = [deadline EXCEPT ![p] = FALSE]
    /\ txn' = [txn EXCEPT ![p] = NoTxn]
    /\ UNCHANGED <<dbVars, reply>>

\* Mutant: every process pins the mode it was started with.
LastMode(m) == m

\* ensure_mode: the first process pins the mode; a log from before there were
\* modes is Tessera's.
PinnedMode(m) == IF mode # NoMode THEN mode ELSE IF next_index > 0 THEN "tessera" ELSE m

\* A process starts, unless the log is pinned to another mode.
Restart(p, m) ==
    /\ pc[p] \in {"down", "stopped"}
    /\ PinnedMode(m) = m
    /\ mode' = m
    /\ pc' = [pc EXCEPT ![p] = "select"]
    /\ closed' = [closed EXCEPT ![p] = FALSE]
    /\ UNCHANGED <<next_index, integrated_size, pending, rekor_entries, sequenced, writer,
                   receiver, batch, deadline, txn, client, reply, faults>>

\* Mutant: one row too many is deleted.
KeptAbove(n) == DOMAIN pending \ 0 .. n
Kept(n) == DOMAIN pending \ 0 .. n - 1

\* mark_integrated_if_current deletes the pending rows below the new size, so
\* the primary key no longer protects their indices.
MarkIntegrated(n) ==
    /\ writer = NoProc
    /\ integrated_size < n /\ n <= next_index
    /\ integrated_size' = n
    /\ pending' = [i \in Kept(n) |-> pending[i]]
    /\ UNCHANGED <<next_index, rekor_entries, mode, sequenced, writer, procVars, client, reply, faults>>

\* Nobody waits and nothing is in flight: the system may rest here.
Idle ==
    /\ \A r \in Requests : client[r] # "queued"
    /\ \A p \in Procs : InFlight(p) = {}
    /\ UNCHANGED vars

Next ==
    \/ \E p \in Procs, r \in Requests : Add(p, r)
    \/ \E r \in Requests : Cancel(r)
    \/ \E p \in Procs :
        \/ Close(p) \/ Recv(p) \/ RecvClosed(p) \/ Timeout(p)
        \/ BeginTxn(p) \/ SequenceDuplicate(p) \/ SequenceEntry(p) \/ SequenceError(p)
        \/ CommitTxn(p) \/ CommitLost(p) \/ TxnFails(p) \/ Respond(p)
        \/ Crash(p)
        \/ \E m \in Modes : Restart(p, m)
    \/ \E n \in 1 .. MaxIndex : MarkIntegrated(n)
    \/ Idle

Spec == Init /\ [][Next]_vars

\* The worker task is scheduled, its timer fires and the database serves it.
WorkerStep(p) ==
    \/ Recv(p) \/ RecvClosed(p) \/ BeginTxn(p) \/ SequenceDuplicate(p)
    \/ SequenceEntry(p) \/ SequenceError(p) \/ CommitTxn(p) \/ Respond(p)

Fairness == \A p \in Procs : WF_vars(WorkerStep(p)) /\ WF_vars(Timeout(p))

FairSpec == Spec /\ Fairness

-----------------------------------------------------------------------------
(* Properties                                                               *)

\* The committed rows are exactly the indices below next_index, and the rows
\* still pending are exactly those at or above integrated_size: an index is
\* neither skipped nor assigned again, whatever fails (sequence_entries).
RowsGapless ==
    /\ DOMAIN sequenced = 0 .. next_index - 1
    /\ DOMAIN pending = integrated_size .. next_index - 1
    /\ \A i \in DOMAIN pending : pending[i] = sequenced[i]

\* A caller told Ok(i), or Duplicate(i), finds its own entry committed at i:
\* flush_batch answers after the commit and pairs requests with results.
AnswerIsDurable ==
    \A r \in Requests : reply[r].kind \in {"index", "duplicate"} =>
        /\ reply[r].idx \in DOMAIN sequenced
        /\ sequenced[reply[r].idx] = EntryOf[r]

\* In Rekor mode an entry has one index for ever, also when it arrives twice in
\* a batch or at two processes, and the reservation table holds exactly the
\* committed entries: "failures cannot leave orphan reservations".
RekorUnique ==
    Deduplicate =>
        /\ DOMAIN rekor_entries = {sequenced[i] : i \in DOMAIN sequenced}
        /\ \A i \in DOMAIN sequenced : rekor_entries[sequenced[i]] = i

\* A submission puts at most one row into the log: a failed or unacknowledged
\* batch is dropped with its error, never flushed a second time.
NoDoubleSequencing ==
    \A e \in Entries :
        Cardinality({i \in DOMAIN sequenced : sequenced[i] = e})
            <= Cardinality({r \in Requests : EntryOf[r] = e /\ client[r] # "idle"})

\* Every caller that waits is answered, or loses its process, although the
\* batch may never fill: the deadline set by the first entry flushes it. (Each
\* of the bounded number of requests waits once, so that in the end none does.)
EventuallyAnswered == <>[](\A r \in Requests : client[r] # "queued")
=============================================================================

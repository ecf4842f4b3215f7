------------------------------- MODULE Monitor -------------------------------
(***************************************************************************)
(* The monitoring witness (src/monitor, with the Conda monitor of          *)
(* crates/conda-monitor): a witness that also reads every new entry of the *)
(* log, refuses to cosign a checkpoint whose entries break its rules, and  *)
(* keeps an index of what it has seen, per log, in the database.           *)
(*                                                                         *)
(* One monitor object per process serves all logs: the index of the log at *)
(* hand is loaded into it for each request, and new entries are staged in  *)
(* it. A request may fail, or be cancelled between any two awaits by a     *)
(* client that disconnects, which drops the transaction and the request    *)
(* lock but leaves what is staged. Processes share the database.           *)
(*                                                                         *)
(* A tree head is the sequence of the entries it commits to, so that a     *)
(* consistency proof from g to h exists iff g is a prefix of h, and an     *)
(* entry that verifies at an index of h is the one h has there.            *)
(***************************************************************************)
EXTENDS Integers, Sequences, FiniteSets, SequencesExt

CONSTANTS
    Procs,        \* processes that share the database
    Logs,         \* configured origins
    Entries,      \* entry contents
    Sha256,       \* the package hash in each entry
    Filename,     \* the file name in each entry
    Malformed,    \* entries that do not parse
    Signed,       \* the heads each log's key has signed
    MaxRequests,  \* bound on the requests received
    MaxFaults,    \* bound on errors, cancellations and crashes
    NoProc,       \* the row is not locked
    NoState,      \* the log has no row in witness_state
    NoValue       \* Option<String>::None

ASSUME MonitorAssumption ==
    /\ Malformed \subseteq Entries
    /\ DOMAIN Sha256 = Entries /\ DOMAIN Filename = Entries
    /\ \A e \in Entries : Sha256[e] # NoValue
    /\ DOMAIN Signed = Logs /\ \A o \in Logs : Signed[o] \subseteq Seq(Entries)
    /\ MaxRequests \in Nat /\ MaxFaults \in Nat
    /\ NoProc \notin Procs
    /\ NoState # <<>> /\ \A o \in Logs : NoState \notin Signed[o]

VARIABLES
    \* The database.
    witness_state,   \* table witness_state: the persisted head of each log
    content,         \* table content_index: log -> its two indices
    lock,            \* the process whose transaction has locked the log's row
    \* One monitor object and at most one request at work per process.
    pc,
    request,         \* [origin, head, old_size]
    state,           \* the WitnessedState the request read
    cursor,          \* the next entry to validate
    index,           \* ContentIndex.index, of both indices
    pending,         \* ContentIndex.pending, of both indices
    rows,            \* what the transaction has saved to content_index
    \* History and bounds.
    cosigned,        \* <<log, head>> of every cosignature issued
    refused,         \* <<log, head>> of every ValidationError answered
    requests, faults

dbVars   == <<witness_state, content, lock>>
memVars  == <<index, pending>>
reqVars  == <<pc, request, state, cursor, rows>>
histVars == <<cosigned, refused, requests, faults>>
vars     == <<dbVars, memVars, reqVars, histVars>>

-----------------------------------------------------------------------------
(* ContentIndex: key -> [first, value], and the staged entries in order     *)

Empty == [x \in {} |-> x]
Both(x) == [sha256 |-> x, filename |-> x]

Staged(k, i, v) == [key |-> k, index |-> i, value |-> v]

\* The rows of staged entries, the earliest of each key.
AsTable(staged) ==
    [k \in {staged[j].key : j \in DOMAIN staged} |->
        LET first == CHOOSE j \in DOMAIN staged :
                        staged[j].key = k /\ \A i \in 1 .. j - 1 : staged[i].key # k
        IN [first |-> staged[first].index, value |-> staged[first].value]]

\* Mutant: what this request has staged is not consulted.
SeenCommitted(f, staged) == f

\* Staged entries are consulted before the committed ones.
Seen(f, staged) ==
    LET s == AsTable(staged)
    IN [k \in DOMAIN f \cup DOMAIN s |-> IF k \in DOMAIN s THEN s[k] ELSE f[k]]

\* check: is the key known with another value, or from another index?
Check(known, k, i, expected) ==
    IF k \notin DOMAIN known THEN "none"
    ELSE IF expected # NoValue /\ known[k].value # expected THEN "conflict"
    ELSE IF known[k].first = i THEN "none" ELSE "duplicate"

\* stage: an entry that is staged already is not staged again.
Stage(staged, s) == IF Contains(staged, s) THEN staged ELSE Append(staged, s)

\* INSERT ... ON CONFLICT DO NOTHING.
Inserted(f, new) == [k \in DOMAIN f \cup DOMAIN new |-> IF k \in DOMAIN f THEN f[k] ELSE new[k]]

\* HashMap::insert replaces. A key is staged at most once, so the order is immaterial.
Replaced(f, new) == [k \in DOMAIN f \cup DOMAIN new |-> IF k \in DOMAIN new THEN new[k] ELSE f[k]]

-----------------------------------------------------------------------------
NoRequest == [origin |-> NoState, head |-> <<>>, old_size |-> 0]

Init ==
    /\ witness_state = [o \in Logs |-> NoState]
    /\ content = [o \in Logs |-> Both(Empty)]
    /\ lock = [o \in Logs |-> NoProc]
    /\ pc = [p \in Procs |-> "idle"]
    /\ request = [p \in Procs |-> NoRequest]
    /\ state = [p \in Procs |-> NoState]
    /\ cursor = [p \in Procs |-> 0]
    /\ index = [p \in Procs |-> Both(Empty)]
    /\ pending = [p \in Procs |-> Both(<<>>)]
    /\ rows = [p \in Procs |-> Both(Empty)]
    /\ cosigned = {} /\ refused = {}
    /\ requests = 0 /\ faults = 0

\* The request is over: the request lock is free again.
Finish(p) ==
    /\ pc' = [pc EXCEPT ![p] = "idle"]
    /\ request' = [request EXCEPT ![p] = NoRequest]
    /\ state' = [state EXCEPT ![p] = NoState]
    /\ cursor' = [cursor EXCEPT ![p] = 0]
    /\ rows' = [rows EXCEPT ![p] = Both(Empty)]

\* Dropping the transaction rolls it back.
Unlocked(p) == [o \in Logs |-> IF lock[o] = p THEN NoProc ELSE lock[o]]

\* add_checkpoint after an error: rollback_entries, then the answer.
Error(p) ==
    /\ Finish(p)
    /\ lock' = Unlocked(p)
    /\ pending' = [pending EXCEPT ![p] = Both(<<>>)]
    /\ UNCHANGED <<witness_state, content, index>>

\* try_lock succeeds, the log is known, its signature verifies, and the old size
\* is not above the new one. Other requests are answered without effect: Busy
\* while a request is at work, 4xx otherwise.
Receive(p, o, h, n) ==
    /\ pc[p] = "idle"
    /\ requests < MaxRequests
    /\ h \in Signed[o] /\ n <= Len(h)
    /\ request' = [request EXCEPT ![p] = [origin |-> o, head |-> h, old_size |-> n]]
    /\ pc' = [pc EXCEPT ![p] = "get"]
    /\ requests' = requests + 1
    /\ UNCHANGED <<dbVars, memVars, state, cursor, rows, cosigned, refused, faults>>

\* verify_consistency, with a proof that fits.
Consistent(s, h) == Len(s) <= Len(h) /\ IsPrefix(s, h)

\* get_or_init: the row, or none yet; then the checks that need no database.
Get(p) ==
    LET s == witness_state[request[p].origin]
    IN /\ pc[p] = "get"
       /\ \/ /\ s = NoState
             /\ pc' = [pc EXCEPT ![p] = "insert"]
             /\ UNCHANGED <<dbVars, memVars, request, state, cursor, rows>>
          \/ /\ s # NoState
             /\ request[p].old_size = Len(s) /\ Consistent(s, request[p].head)
             /\ state' = [state EXCEPT ![p] = s]
             /\ pc' = [pc EXCEPT ![p] = "lock"]
             /\ UNCHANGED <<dbVars, memVars, request, cursor, rows>>
          \/ /\ s # NoState
             /\ ~(request[p].old_size = Len(s) /\ Consistent(s, request[p].head))
             /\ Error(p)
       /\ UNCHANGED histVars

Insert(p) ==
    LET o == request[p].origin
    IN /\ pc[p] = "insert"
       /\ witness_state' = [witness_state EXCEPT ![o] = IF @ = NoState THEN <<>> ELSE @]
       /\ pc' = [pc EXCEPT ![p] = "get"]
       /\ UNCHANGED <<content, lock, memVars, request, state, cursor, rows, histVars>>

\* Mutant: the row is locked, but not compared with the state that was read.
NotCompared(p) == TRUE
StillCurrent(p) == witness_state[request[p].origin] = state[p]

\* lock_in: a no-op UPDATE of the row, if it still is what was verified against.
Lock(p) ==
    LET o == request[p].origin
    IN /\ pc[p] = "lock"
       /\ lock[o] = NoProc
       /\ IF StillCurrent(p)
          THEN /\ lock' = [lock EXCEPT ![o] = p]
               /\ pc' = [pc EXCEPT ![p] = "load"]
               /\ UNCHANGED <<witness_state, content, memVars, request, state, cursor, rows>>
          ELSE Error(p)
       /\ UNCHANGED histVars

\* Mutant: leftovers of a cancelled request stay.
NotRolledBack(p) == pending[p]
RolledBack(p) == Both(<<>>)

\* rollback_entries, then load_state for this log.
Load(p) ==
    /\ pc[p] = "load"
    /\ pending' = [pending EXCEPT ![p] = RolledBack(p)]
    /\ index' = [index EXCEPT ![p] = content[request[p].origin]]
    /\ cursor' = [cursor EXCEPT ![p] = Len(state[p])]
    /\ pc' = [pc EXCEPT ![p] = IF Len(request[p].head) > Len(state[p]) THEN "validate" ELSE "update"]
    /\ UNCHANGED <<dbVars, request, state, rows, histVars>>

-----------------------------------------------------------------------------
(* validate_entry of the Conda monitor                                      *)

CurrentEntry(p) == request[p].head[cursor[p] + 1]

Rejected(p) ==
    LET e == CurrentEntry(p)
        shas == Seen(index[p].sha256, pending[p].sha256)
        files == Seen(index[p].filename, pending[p].filename)
    IN \/ e \in Malformed
       \/ Check(shas, Sha256[e], cursor[p], NoValue) # "none"
       \/ Check(files, Filename[e], cursor[p], Sha256[e]) = "conflict"

ValidateEntry(p) ==
    LET e == CurrentEntry(p)
    IN /\ pc[p] = "validate"
       /\ cursor[p] < Len(request[p].head)
       /\ ~Rejected(p)
       /\ pending' = [pending EXCEPT
            ![p].sha256   = Stage(@, Staged(Sha256[e], cursor[p], NoValue)),
            ![p].filename = Stage(@, Staged(Filename[e], cursor[p], Sha256[e]))]
       /\ cursor' = [cursor EXCEPT ![p] = @ + 1]
       /\ UNCHANGED <<dbVars, index, pc, request, state, rows, histVars>>

RejectEntry(p) ==
    /\ pc[p] = "validate"
    /\ cursor[p] < Len(request[p].head)
    /\ Rejected(p)
    /\ refused' = refused \cup {<<request[p].origin, request[p].head>>}
    /\ Error(p)
    /\ UNCHANGED <<cosigned, requests, faults>>

\* commit_entries: save what is staged in the transaction, then move it to the
\* index in memory, although the transaction has yet to commit.
CommitEntries(p) ==
    LET new == [sha256 |-> AsTable(pending[p].sha256), filename |-> AsTable(pending[p].filename)]
    IN /\ pc[p] = "validate"
       /\ cursor[p] = Len(request[p].head)
       /\ rows' = [rows EXCEPT ![p] = new]
       /\ index' = [index EXCEPT ![p] =
            [sha256   |-> Replaced(@.sha256, new.sha256),
             filename |-> Replaced(@.filename, new.filename)]]
       /\ pending' = [pending EXCEPT ![p] = Both(<<>>)]
       /\ pc' = [pc EXCEPT ![p] = "update"]
       /\ UNCHANGED <<dbVars, request, state, cursor, histVars>>

-----------------------------------------------------------------------------
(* The end of the transaction                                               *)

\* Mutant: only the witness state is part of the transaction.
RowsForgotten(o, p) == content[o]
Saved(o, p) ==
    [sha256   |-> Inserted(content[o].sha256, rows[p].sha256),
     filename |-> Inserted(content[o].filename, rows[p].filename)]

\* update_in and commit. The update finds the row it has locked.
Apply(p) ==
    LET o == request[p].origin
    IN /\ witness_state' = [witness_state EXCEPT ![o] = request[p].head]
       /\ content' = [content EXCEPT ![o] = Saved(o, p)]
       /\ lock' = Unlocked(p)

Commit(p) ==
    /\ pc[p] = "update"
    /\ Apply(p)
    /\ pc' = [pc EXCEPT ![p] = "cosign"]
    /\ UNCHANGED <<memVars, request, state, cursor, rows, histVars>>

\* The commit takes effect and its acknowledgement is lost.
CommitLost(p) ==
    /\ pc[p] = "update"
    /\ faults < MaxFaults
    /\ faults' = faults + 1
    /\ Apply(p)
    /\ Finish(p)
    /\ pending' = [pending EXCEPT ![p] = Both(<<>>)]
    /\ UNCHANGED <<index, cosigned, refused, requests>>

Cosign(p) ==
    /\ pc[p] = "cosign"
    /\ cosigned' = cosigned \cup {<<request[p].origin, request[p].head>>}
    /\ Finish(p)
    /\ UNCHANGED <<dbVars, memVars, refused, requests, faults>>

\* A database call fails, or a bundle cannot be fetched, or an entry does not
\* verify against the checkpoint.
CallFails(p) ==
    /\ pc[p] \notin {"idle", "cosign"}
    /\ faults < MaxFaults
    /\ faults' = faults + 1
    /\ Error(p)
    /\ UNCHANGED <<cosigned, refused, requests>>

\* The client disconnects and the handler's future is dropped at an await, also
\* the one of the commit: no rollback_entries.
Cancel(p) ==
    /\ pc[p] \notin {"idle", "cosign"}
    /\ faults < MaxFaults
    /\ faults' = faults + 1
    /\ \/ lock' = Unlocked(p) /\ UNCHANGED <<witness_state, content>>
       \/ pc[p] = "update" /\ Apply(p)
    /\ Finish(p)
    /\ UNCHANGED <<memVars, cosigned, refused, requests>>

\* The process dies and restarts with an empty monitor.
Crash(p) ==
    /\ faults < MaxFaults
    /\ faults' = faults + 1
    /\ lock' = Unlocked(p)
    /\ index' = [index EXCEPT ![p] = Both(Empty)]
    /\ pending' = [pending EXCEPT ![p] = Both(<<>>)]
    /\ Finish(p)
    /\ UNCHANGED <<witness_state, content, cosigned, refused, requests>>

\* Every request the bound admits was received and answered.
Idle ==
    /\ requests = MaxRequests
    /\ \A p \in Procs : pc[p] = "idle"
    /\ UNCHANGED vars

Next ==
    \/ \E p \in Procs :
        \/ \E o \in Logs : \E h \in Signed[o] : \E n \in 0 .. Len(h) : Receive(p, o, h, n)
        \/ Get(p) \/ Insert(p) \/ Lock(p) \/ Load(p)
        \/ ValidateEntry(p) \/ RejectEntry(p) \/ CommitEntries(p)
        \/ Commit(p) \/ CommitLost(p) \/ Cosign(p)
        \/ CallFails(p) \/ Cancel(p) \/ Crash(p)
    \/ Idle

Spec == Init /\ [][Next]_vars

-----------------------------------------------------------------------------
(* Properties                                                               *)

\* The rules the monitor stands for: every entry parses, no package hash occurs
\* twice, and no file name occurs with two hashes.
ValidContent(h) ==
    /\ \A i \in DOMAIN h : h[i] \notin Malformed
    /\ \A i, j \in DOMAIN h : i # j =>
        /\ Sha256[h[i]] # Sha256[h[j]]
        /\ Filename[h[i]] = Filename[h[j]] => Sha256[h[i]] = Sha256[h[j]]

IndexOf(h) ==
    [sha256   |-> AsTable([i \in DOMAIN h |-> Staged(Sha256[h[i]], i - 1, NoValue)]),
     filename |-> AsTable([i \in DOMAIN h |-> Staged(Filename[h[i]], i - 1, Sha256[h[i]])])]

\* "content indices and checkpoints commit in one database transaction": the
\* persisted index of a log is at every moment exactly the content of the head
\* persisted for it.
ContentExact ==
    \A o \in Logs :
        content[o] = IndexOf(IF witness_state[o] = NoState THEN <<>> ELSE witness_state[o])

\* A cosigned checkpoint vouches for the content of the whole tree, whatever
\* requests failed, were cancelled or ran in other processes before.
CosignedIsValid == \A c \in cosigned : ValidContent(c[2])

\* A checkpoint is refused for its content only if its content does break the
\* rules: nothing staged or loaded for another log or request is held against it.
RefusedIsInvalid == \A c \in refused : ~ValidContent(c[2])

\* No split view: of two cosigned heads of a log one extends the other.
MonitorNoSplitView ==
    \A c, d \in cosigned : c[1] = d[1] => IsPrefix(c[2], d[2]) \/ IsPrefix(d[2], c[2])
=============================================================================

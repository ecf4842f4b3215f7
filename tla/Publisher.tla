------------------------------ MODULE Publisher ------------------------------
(***************************************************************************)
(* The checkpoint publisher (publish_checkpoint in src/worker.rs). Every   *)
(* interval it reads the committed tree, signs a checkpoint of it, asks    *)
(* the external witnesses one after the other to cosign, and writes the    *)
(* checkpoint to storage if enough of them did. What it knows about the    *)
(* witnesses and about its last publication is in memory only.             *)
(*                                                                         *)
(* A request may time out on its way there, so that the witness sees it    *)
(* late or never, or on its way back, so that the witness has cosigned and *)
(* the publisher does not know; the process may crash at any step; the     *)
(* tree grows meanwhile. A process that replaces another one may overlap   *)
(* with it, so several publishers may share the log, of which one may stop *)
(* for good.                                                               *)
(*                                                                         *)
(* The log does not fork (RootCommitsLog of Integration), so that a        *)
(* checkpoint is identified by its size. The witness side is one atomic    *)
(* step here; its own interleavings are the subject of module Witness.     *)
(***************************************************************************)
EXTENDS Integers, Sequences, FiniteSets

CONSTANTS
    Publishers,    \* server processes
    Externals,     \* the configured external witnesses, in order
    Quorum,        \* witness_quorum.unwrap_or(external_witnesses.len())
    Faulty,        \* witnesses that answer with garbage
    MaxSize,       \* bound on the tree
    MaxFaults,     \* bound on timeouts, failed writes and crashes
    NoSize         \* nothing published yet (by a process, or at all)

Witnesses == {Externals[k] : k \in DOMAIN Externals}

\* main refuses external witnesses that share a name or a key, and a quorum
\* above their number.
ASSUME PublisherAssumption ==
    /\ Externals \in Seq(Witnesses)
    /\ \A j, k \in DOMAIN Externals : Externals[j] = Externals[k] => j = k
    /\ Quorum \in 0 .. Len(Externals)
    /\ Faulty \subseteq Witnesses
    /\ MaxSize \in Nat /\ MaxFaults \in Nat
    /\ NoSize \notin Nat

VARIABLES
    integrated_size,   \* log_state.integrated_size, with its root
    checkpoint,        \* the checkpoint object in storage, and who wrote it
    witnessed,         \* the size each witness service has persisted
    cosigned,          \* history: <<witness, size>> of every cosignature issued
    late,              \* requests whose sender has given up on them
    pc,                \* where each publisher is
    new_size,          \* the size being published
    slot,              \* position in Externals
    signatures,        \* witnesses whose signature is on the checkpoint
    answer,            \* the response under way to the publisher
    sizes,             \* ExternalWitnessState.sizes
    last_published,    \* LastPublished
    faults

envVars == <<checkpoint, witnessed, cosigned, late>>
pubVars == <<pc, new_size, slot, signatures, answer, sizes, last_published>>
vars    == <<integrated_size, envVars, pubVars, faults>>

NoAnswer     == [kind |-> "none", size |-> 0]
Signature    == [kind |-> "signature", size |-> 0]
Conflict(n)  == [kind |-> "conflict", size |-> n]
ErrorAnswer  == [kind |-> "error", size |-> 0]

NoCheckpoint == [size |-> NoSize, signatures |-> {}, by |-> NoSize]

Init ==
    /\ integrated_size = 0
    /\ checkpoint = NoCheckpoint
    /\ witnessed = [w \in Witnesses |-> 0]
    /\ cosigned = {}
    /\ late = {}
    /\ pc = [p \in Publishers |-> "sleep"]
    /\ new_size = [p \in Publishers |-> 0]
    /\ slot = [p \in Publishers |-> 1]
    /\ signatures = [p \in Publishers |-> {}]
    /\ answer = [p \in Publishers |-> NoAnswer]
    /\ sizes = [p \in Publishers |-> [w \in Witnesses |-> 0]]
    /\ last_published = [p \in Publishers |-> NoSize]
    /\ faults = 0

\* The integration worker commits a larger tree.
Grow ==
    /\ integrated_size < MaxSize
    /\ integrated_size' = integrated_size + 1
    /\ UNCHANGED <<envVars, pubVars, faults>>

-----------------------------------------------------------------------------
(* The witness service                                                      *)

\* add_checkpoint: the requester must name the persisted size, and the tree is
\* append-only, so that the proof it sends verifies.
WitnessAccepts(w, old, new) == old = witnessed[w] /\ old <= new

\* A faulty witness persists nothing and issues no valid cosignature; it answers
\* with an error, or claims to have seen the largest tree.
WitnessEffect(w, old, new) ==
    IF w \notin Faulty /\ WitnessAccepts(w, old, new)
    THEN /\ witnessed' = [witnessed EXCEPT ![w] = new]
         /\ cosigned' = cosigned \cup {<<w, new>>}
    ELSE UNCHANGED <<witnessed, cosigned>>

WitnessAnswers(w, old, new) ==
    IF w \in Faulty THEN {ErrorAnswer, Conflict(MaxSize)}
    ELSE IF WitnessAccepts(w, old, new) THEN {Signature}
    ELSE {Conflict(witnessed[w])}

-----------------------------------------------------------------------------
(* publish_checkpoint                                                       *)

Sleep(p) ==
    /\ pc' = [pc EXCEPT ![p] = "sleep"]
    /\ new_size' = [new_size EXCEPT ![p] = 0]
    /\ slot' = [slot EXCEPT ![p] = 1]
    /\ signatures' = [signatures EXCEPT ![p] = {}]
    /\ answer' = [answer EXCEPT ![p] = NoAnswer]

\* Read the log state; nothing to do if it is what this process published last.
Start(p) ==
    /\ pc[p] = "sleep"
    /\ last_published[p] # integrated_size
    /\ pc' = [pc EXCEPT ![p] = "collect"]
    /\ new_size' = [new_size EXCEPT ![p] = integrated_size]
    /\ UNCHANGED <<integrated_size, envVars, slot, signatures, answer, sizes, last_published, faults>>

Current(p) == Externals[slot[p]]

\* generate_consistency_proof_simple fails when the witness is known to be
\* ahead; the witness is then skipped.
SkipWitness(p) ==
    /\ pc[p] = "collect" /\ slot[p] <= Len(Externals)
    /\ sizes[p][Current(p)] > new_size[p]
    /\ slot' = [slot EXCEPT ![p] = @ + 1]
    /\ UNCHANGED <<integrated_size, envVars, pc, new_size, signatures, answer, sizes, last_published, faults>>

\* call_external_witness sends its request.
Send(p) ==
    /\ pc[p] = "collect" /\ slot[p] <= Len(Externals)
    /\ sizes[p][Current(p)] <= new_size[p]
    /\ pc' = [pc EXCEPT ![p] = "sent"]
    /\ UNCHANGED <<integrated_size, envVars, new_size, slot, signatures, answer, sizes, last_published, faults>>

\* The witness handles it and answers.
Handle(p) ==
    LET w == Current(p)
        old == sizes[p][w]
    IN /\ pc[p] = "sent"
       /\ WitnessEffect(w, old, new_size[p])
       /\ \E a \in WitnessAnswers(w, old, new_size[p]) : answer' = [answer EXCEPT ![p] = a]
       /\ pc' = [pc EXCEPT ![p] = "answered"]
       /\ UNCHANGED <<integrated_size, checkpoint, late, new_size, slot, signatures, sizes, last_published, faults>>

\* Mutant: the size in a conflict is ignored.
HintIgnored(p) == IF answer[p].kind = "signature" THEN new_size[p] ELSE sizes[p][Current(p)]

\* What the answer teaches the publisher about the witness's size: "A conflict is
\* only a retry hint, never evidence of witnessing."
Learned(p) ==
    CASE answer[p].kind = "signature" -> new_size[p]
      [] answer[p].kind = "conflict"  -> answer[p].size
      [] OTHER                        -> sizes[p][Current(p)]

\* Mutant: a conflict at the size asked for counts as a cosignature.
CollectedOnConflict(p) ==
    IF answer[p].kind = "signature" \/ (answer[p].kind = "conflict" /\ answer[p].size = new_size[p])
    THEN signatures[p] \cup {Current(p)} ELSE signatures[p]

\* The signatures on the checkpoint once the answer is in.
Collected(p) ==
    IF answer[p].kind = "signature" THEN signatures[p] \cup {Current(p)} ELSE signatures[p]

\* The response arrives: a verified cosignature is added to the checkpoint.
Receive(p) ==
    /\ pc[p] = "answered"
    /\ signatures' = [signatures EXCEPT ![p] = Collected(p)]
    /\ sizes' = [sizes EXCEPT ![p][Current(p)] = Learned(p)]
    /\ answer' = [answer EXCEPT ![p] = NoAnswer]
    /\ slot' = [slot EXCEPT ![p] = @ + 1]
    /\ pc' = [pc EXCEPT ![p] = "collect"]
    /\ UNCHANGED <<integrated_size, envVars, new_size, last_published, faults>>

\* The request a publisher has given up on before the witness saw it.
Abandoned(p) ==
    IF pc[p] = "sent"
    THEN {[witness |-> Current(p), old |-> sizes[p][Current(p)], new |-> new_size[p]]} ELSE {}

\* Ten seconds pass without a response: the witness is skipped. It may still
\* see the request, or may have acted on it already.
Timeout(p) ==
    /\ pc[p] \in {"sent", "answered"}
    /\ faults < MaxFaults
    /\ faults' = faults + 1
    /\ late' = late \cup Abandoned(p)
    /\ answer' = [answer EXCEPT ![p] = NoAnswer]
    /\ slot' = [slot EXCEPT ![p] = @ + 1]
    /\ pc' = [pc EXCEPT ![p] = "collect"]
    /\ UNCHANGED <<integrated_size, checkpoint, witnessed, cosigned, new_size, signatures, sizes, last_published>>

\* A witness handles a request nobody waits for any more.
HandleLate(r) ==
    /\ WitnessEffect(r.witness, r.old, r.new)
    /\ late' = late \ {r}
    /\ UNCHANGED <<integrated_size, checkpoint, pubVars, faults>>

\* Every witness was asked: go on only with a quorum of signatures.
HasQuorum(p) == Cardinality(signatures[p]) >= Quorum

NoPublish(p) ==
    /\ pc[p] = "collect" /\ slot[p] > Len(Externals)
    /\ ~HasQuorum(p)
    /\ Sleep(p)
    /\ UNCHANGED <<integrated_size, envVars, sizes, last_published, faults>>

CanPublish(p) == pc[p] = "collect" /\ slot[p] > Len(Externals) /\ HasQuorum(p)

\* Mutant: the size of the previous publication is written.
PreviousCheckpoint(p) == [size |-> last_published[p], signatures |-> signatures[p], by |-> p]
NewCheckpoint(p) == [size |-> new_size[p], signatures |-> signatures[p], by |-> p]

WriteCheckpoint(p) ==
    /\ CanPublish(p)
    /\ checkpoint' = NewCheckpoint(p)
    /\ last_published' = [last_published EXCEPT ![p] = new_size[p]]
    /\ Sleep(p)
    /\ UNCHANGED <<integrated_size, witnessed, cosigned, late, sizes, faults>>

\* The write reports an error; it may have taken effect or not.
WriteFails(p) ==
    /\ CanPublish(p)
    /\ faults < MaxFaults
    /\ faults' = faults + 1
    /\ checkpoint' \in {checkpoint, NewCheckpoint(p)}
    /\ Sleep(p)
    /\ UNCHANGED <<integrated_size, witnessed, cosigned, late, sizes, last_published>>

\* The process dies and restarts with nothing remembered.
Crash(p) ==
    /\ pc[p] # "stopped"
    /\ faults < MaxFaults
    /\ faults' = faults + 1
    /\ late' = late \cup Abandoned(p)
    /\ sizes' = [sizes EXCEPT ![p] = [w \in Witnesses |-> 0]]
    /\ last_published' = [last_published EXCEPT ![p] = NoSize]
    /\ Sleep(p)
    /\ UNCHANGED <<integrated_size, checkpoint, witnessed, cosigned>>

\* run_checkpoint_worker sees the shutdown signal, which it does only between
\* two publications; another process has taken over.
Stop(p) ==
    /\ pc[p] = "sleep"
    /\ \E q \in Publishers \ {p} : pc[q] # "stopped"
    /\ pc' = [pc EXCEPT ![p] = "stopped"]
    /\ UNCHANGED <<integrated_size, envVars, new_size, slot, signatures, answer, sizes, last_published, faults>>

\* Everything is published and the tree has reached its bound.
Idle ==
    /\ integrated_size = MaxSize
    /\ \A p \in Publishers : pc[p] = "stopped" \/ (pc[p] = "sleep" /\ last_published[p] = MaxSize)
    /\ UNCHANGED vars

PublisherStep(p) ==
    \/ Start(p) \/ SkipWitness(p) \/ Send(p) \/ Receive(p)
    \/ NoPublish(p) \/ WriteCheckpoint(p)

Next ==
    \/ Grow
    \/ \E p \in Publishers :
        PublisherStep(p) \/ Handle(p) \/ Timeout(p) \/ WriteFails(p) \/ Crash(p) \/ Stop(p)
    \/ \E r \in late : HandleLate(r)
    \/ Idle

Spec == Init /\ [][Next]_vars

\* The worker is scheduled, and a call to a witness ends, with an answer once
\* the bounded number of timeouts is spent.
FairSpec == Spec /\ \A p \in Publishers : WF_vars(PublisherStep(p)) /\ WF_vars(Handle(p))

-----------------------------------------------------------------------------
(* Properties                                                               *)

\* A published checkpoint carries cosignatures of a quorum of distinct witnesses,
\* each of which has issued one for this very size and has persisted at least it.
PublishedHasQuorum ==
    checkpoint.size # NoSize =>
        /\ Cardinality(checkpoint.signatures) >= Quorum
        /\ \A w \in checkpoint.signatures :
            /\ <<w, checkpoint.size>> \in cosigned
            /\ witnessed[w] >= checkpoint.size

\* The published checkpoint goes back to an older tree only when a process
\* overwrites the checkpoint of another one; a process never replaces its own by
\* an older one, through crashes, restarts, lost answers and failed writes.
NoRegression ==
    [][checkpoint.size # NoSize =>
        /\ checkpoint'.size # NoSize
        /\ checkpoint'.size >= checkpoint.size \/ checkpoint'.by # checkpoint.by]_vars

\* What is left behind when two publishers overlap: a stopped process has
\* overwritten the checkpoint of the full tree, which the running process
\* believes to be published and does not write again while the tree stays.
OverwrittenByStopped ==
    /\ checkpoint.size # NoSize /\ pc[checkpoint.by] = "stopped"
    /\ \E q \in Publishers : pc[q] # "stopped" /\ last_published[q] = integrated_size

\* Every committed tree is eventually covered by a published checkpoint, as long
\* as a quorum of witnesses answers: after a crash or a lost answer the size in
\* a 409 brings the publisher back in step with the witness, and a publisher
\* that has overwritten a newer checkpoint catches up, unless it stops just
\* then. (The bound ends the growth of the tree.)
EventuallyPublished == <>[](checkpoint.size = integrated_size \/ OverwrittenByStopped)
=============================================================================

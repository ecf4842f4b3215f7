------------------------------- MODULE Witness -------------------------------
(***************************************************************************)
(* The witness service (src/witness/mod.rs and state.rs): it cosigns a     *)
(* log's checkpoint only if it extends the last one it cosigned for that   *)
(* log. Requests are handled concurrently, possibly by several processes   *)
(* over one database; every database call is a step of its own, so another *)
(* request may run between the read of the witnessed state, the            *)
(* verification, the compare-and-swap that persists the new state, and the *)
(* cosignature. The log may misbehave and sign forked checkpoints.         *)
(*                                                                         *)
(* A tree head stands for the pair (size, root hash) of a checkpoint.      *)
(* Extends(g, h) says that a consistency proof from g to h exists; proof   *)
(* soundness is the algorithm's own matter, here a proof is named by the   *)
(* pair of heads it is for.                                                *)
(***************************************************************************)
EXTENDS Integers

CONSTANTS
    Logs,            \* origins the witness is configured for
    Heads,           \* tree heads
    SizeOf,          \* the size of each head
    EmptyHead,       \* size 0 with the RFC 6962 empty root
    Extends(_, _),   \* the second head is an append-only extension of the first
    Signed,          \* the heads each log's key has signed
    Requests,        \* the requests that may arrive, well-formed or not
    Handlers,        \* concurrent add_checkpoint requests
    MaxRequests,     \* bound on the requests received
    NoState          \* the log has no row in witness_state

NoProof == <<>>
Proofs  == {NoProof} \cup (Heads \X Heads)

RequestRecords == [origin : Logs, head : Heads, old_size : Nat, proof : Proofs]

ASSUME WitnessAssumption ==
    /\ EmptyHead \in Heads
    /\ SizeOf \in [Heads -> Nat] /\ SizeOf[EmptyHead] = 0
    /\ NoState \notin Heads
    /\ Signed \in [Logs -> SUBSET Heads]
    /\ Requests \subseteq RequestRecords
    /\ MaxRequests \in Nat
    /\ \A g, h \in Heads : Extends(g, h) \in BOOLEAN

\* What a Merkle tree gives: every head extends itself, extensions compose, and
\* every tree extends the empty one.
ASSUME ExtensionAssumption ==
    /\ \A h \in Heads : Extends(h, h)
    /\ \A f, g, h \in Heads : Extends(f, g) /\ Extends(g, h) => Extends(f, h)
    /\ \A h \in Heads : SizeOf[h] > 0 => Extends(EmptyHead, h)

VARIABLES
    witness_state,   \* table witness_state: the persisted head of each log
    phase,           \* where each handler is
    request,         \* the request each handler works on
    state,           \* the WitnessedState the handler read
    cosignatures,    \* history: <<log, head>> of every cosignature issued
    accepted,        \* history: <<log, head>> of every state persisted
    requests         \* requests received so far

witnessVars == <<witness_state, phase, request, state, cosignatures, accepted, requests>>

NoRequest == [origin |-> NoState, head |-> EmptyHead, old_size |-> 0, proof |-> NoProof]

WitnessInit ==
    /\ witness_state = [o \in Logs |-> NoState]
    /\ phase = [h \in Handlers |-> "idle"]
    /\ request = [h \in Handlers |-> NoRequest]
    /\ state = [h \in Handlers |-> NoState]
    /\ cosignatures = {} /\ accepted = {}
    /\ requests = 0

\* The handler answers (with an error, or after the cosignature) and is gone.
Finish(h) ==
    /\ phase' = [phase EXCEPT ![h] = "idle"]
    /\ request' = [request EXCEPT ![h] = NoRequest]
    /\ state' = [state EXCEPT ![h] = NoState]

\* Steps 1 to 4 of add_checkpoint: a known log, the log's signature, and an old
\* size not above the new one. Other requests are refused with no effect.
AddCheckpoint(h, r) ==
    /\ phase[h] = "idle"
    /\ requests < MaxRequests
    /\ r.head \in Signed[r.origin]
    /\ r.old_size <= SizeOf[r.head]
    /\ request' = [request EXCEPT ![h] = r]
    /\ phase' = [phase EXCEPT ![h] = "get"]
    /\ requests' = requests + 1
    /\ UNCHANGED <<witness_state, state, cosignatures, accepted>>

-----------------------------------------------------------------------------
(* Steps 6 and 7, on the state s that was read                              *)

SizeMatches(r, s) == r.old_size = SizeOf[s]

EmptyRootMatches(r, s) == SizeOf[r.head] = 0 => r.head = s

\* Mutant: the proof is not tied to the two heads.
AnyProofVerifies(r, s) == r.proof # NoProof

\* verify_consistency accepts the proof from s to the new head.
ProofVerifies(r, s) == r.proof = <<s, r.head>> /\ Extends(s, r.head)

ConsistencyVerified(r, s) ==
    IF SizeOf[s] > 0
    THEN /\ SizeOf[r.head] >= SizeOf[s]
         /\ IF SizeOf[r.head] = SizeOf[s] THEN r.head = s ELSE ProofVerifies(r, s)
    ELSE r.proof = NoProof

Acceptable(r, s) == SizeMatches(r, s) /\ EmptyRootMatches(r, s) /\ ConsistencyVerified(r, s)

\* With the state in hand the checks need no further call: go on, or answer
\* 409 or 422.
Decide(h, s) ==
    IF Acceptable(request[h], s)
    THEN /\ state' = [state EXCEPT ![h] = s]
         /\ phase' = [phase EXCEPT ![h] = "update"]
         /\ UNCHANGED request
    ELSE Finish(h)

-----------------------------------------------------------------------------
(* WitnessStateStore                                                        *)

\* get_or_init, first call: the row, or none yet.
Get(h) ==
    LET s == witness_state[request[h].origin]
    IN /\ phase[h] = "get"
       /\ IF s # NoState THEN Decide(h, s)
          ELSE phase' = [phase EXCEPT ![h] = "insert"] /\ UNCHANGED <<request, state>>
       /\ UNCHANGED <<witness_state, cosignatures, accepted, requests>>

\* Mutants: the insert writes nothing; the insert overwrites an existing row.
InsertedNothing(o) == witness_state[o]
InsertedAnyway(o) == EmptyHead

\* get_or_init, second call: INSERT ... ON CONFLICT (origin) DO NOTHING.
Inserted(o) == IF witness_state[o] = NoState THEN EmptyHead ELSE witness_state[o]

Insert(h) ==
    LET o == request[h].origin
    IN /\ phase[h] = "insert"
       /\ witness_state' = [witness_state EXCEPT ![o] = Inserted(o)]
       /\ accepted' = accepted \cup {<<o, Inserted(o)>>}
       /\ phase' = [phase EXCEPT ![h] = "get"]
       /\ UNCHANGED <<request, state, cosignatures, requests>>

\* Mutant: the row is updated whatever it holds.
NotCompared(o, s) == TRUE

\* WitnessStateStore::matching: the row still is what the handler verified
\* against, root hash included.
StillStored(o, s) == witness_state[o] = s

\* update_in refuses to move back, or sideways to another root of the same size.
RollbackOrFork(old, new) ==
    \/ SizeOf[new] < SizeOf[old]
    \/ SizeOf[new] = SizeOf[old] /\ new # old

\* update: commit only if the state used to verify the proof is still current;
\* otherwise answer 409 (with the size a further read returns).
Update(h) ==
    LET r == request[h]
    IN /\ phase[h] = "update"
       /\ IF ~RollbackOrFork(state[h], r.head) /\ StillStored(r.origin, state[h])
          THEN /\ witness_state' = [witness_state EXCEPT ![r.origin] = r.head]
               /\ accepted' = accepted \cup {<<r.origin, r.head>>}
               /\ phase' = [phase EXCEPT ![h] = "cosign"]
               /\ UNCHANGED <<request, state>>
          ELSE /\ Finish(h)
               /\ UNCHANGED <<witness_state, accepted>>
       /\ UNCHANGED <<cosignatures, requests>>

\* The verified state is persisted: issue the cosignature.
Cosign(h) ==
    /\ phase[h] = "cosign"
    /\ cosignatures' = cosignatures \cup {<<request[h].origin, request[h].head>>}
    /\ Finish(h)
    /\ UNCHANGED <<witness_state, accepted, requests>>

\* A database error, a dropped connection or a crash ends one handler, between
\* any two of its steps; with a whole process down this happens to each.
Abort(h) ==
    /\ phase[h] # "idle"
    /\ Finish(h)
    /\ UNCHANGED <<witness_state, cosignatures, accepted, requests>>

\* Every request the bound admits was received and answered.
HandlersIdle ==
    /\ requests = MaxRequests
    /\ \A h \in Handlers : phase[h] = "idle"
    /\ UNCHANGED witnessVars

WitnessNext ==
    \/ \E h \in Handlers :
        \/ \E r \in Requests : AddCheckpoint(h, r)
        \/ Get(h) \/ Insert(h) \/ Update(h) \/ Cosign(h) \/ Abort(h)
    \/ HandlersIdle

WitnessSpec == WitnessInit /\ [][WitnessNext]_witnessVars

-----------------------------------------------------------------------------
(* Properties                                                               *)

\* Type invariant.
WitnessTypeOK ==
    /\ witness_state \in [Logs -> Heads \cup {NoState}]
    /\ phase \in [Handlers -> {"idle", "get", "insert", "update", "cosign"}]
    /\ request \in [Handlers -> Requests \cup {NoRequest}]
    /\ \A h \in Handlers : phase[h] # "idle" => request[h] \in Requests
    /\ state \in [Handlers -> Heads \cup {NoState}]
    /\ \A h \in Handlers : phase[h] \in {"update", "cosign"} => state[h] \in Heads
    /\ cosignatures \subseteq Logs \X Heads
    /\ accepted \subseteq Logs \X Heads
    /\ requests \in 0 .. MaxRequests

\* No split view: of any two checkpoints of a log that the witness cosigned, one
\* extends the other, however the requests interleaved and whatever failed.
NoSplitView ==
    \A c, d \in cosignatures : c[1] = d[1] => Extends(c[2], d[2]) \/ Extends(d[2], c[2])

\* "Persist the verified state before issuing a cosignature": the stored state
\* of a log extends everything ever cosigned for it, so that a crash after the
\* cosignature cannot make the witness forget it.
CosignedIsPersisted ==
    \A c \in cosignatures :
        /\ witness_state[c[1]] # NoState
        /\ Extends(c[2], witness_state[c[1]])

\* The stored state of a log is created empty and then only moves to extensions
\* of itself: no rollback, no fork, no lost row.
StateOnlyExtends ==
    [][\A o \in Logs :
        \/ witness_state[o] = NoState /\ witness_state'[o] \in {NoState, EmptyHead}
        \/ /\ witness_state[o] # NoState /\ witness_state'[o] # NoState
           /\ Extends(witness_state[o], witness_state'[o])]_witnessVars
=============================================================================

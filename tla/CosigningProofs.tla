-------------------------- MODULE CosigningProofs --------------------------
(***************************************************************************)
(* Both sides of cosigning.                                                *)
(*                                                                         *)
(* The witness never signs a split view, for every set of logs, heads and  *)
(* handlers and every consistency relation that is reflexive, transitive   *)
(* and has the empty tree below every other. NoSplitView alone is not      *)
(* inductive: a handler about to cosign must be known to hold a head that  *)
(* was persisted, and all persisted heads of a log must form a chain below *)
(* its current state. History variable accepted carries that chain.        *)
(*                                                                         *)
(* What the publisher writes carries a quorum of real cosignatures, and no *)
(* process takes its own checkpoint back, for any number of overlapping    *)
(* processes, any witnesses, any of them faulty, and any number of faults. *)
(* A signature is put on the checkpoint two messages after the witness     *)
(* issued it, and the checkpoint is written after many more; in between    *)
(* other publishers and late requests move the witness on. The inductive   *)
(* invariant says that a response under way and the signatures collected   *)
(* so far are all of cosignatures issued for the size being published, and *)
(* that no cosignature is above what its witness has persisted.            *)
(*                                                                         *)
(* The witness's check of a proof is sound: what verify_consistency        *)
(* accepts ties the old root to the first leaves of the new tree, which is *)
(* what Extends stands for in Witness. The invariant of the recursion is   *)
(* that a call which arrives at the hash of a subtree as the new hash      *)
(* arrives at the hash of a prefix of that subtree as the old one. It is   *)
(* proved by induction over the size, as is the same for an audit path.    *)
(* Since hashes are terms, the log that was cosigned before is a prefix of *)
(* the one that is cosigned after it.                                      *)
(***************************************************************************)
EXTENDS Witness, Publisher, MerkleProof, WellFoundedInduction, TLAPS

-----------------------------------------------------------------------------
(* The witness                                                              *)

\* Every persisted head of a log is below the current one, which is persisted.
AcceptedBelowState ==
    /\ \A o \in Logs : witness_state[o] # NoState => <<o, witness_state[o]>> \in accepted
    /\ \A c \in accepted :
        /\ witness_state[c[1]] # NoState
        /\ Extends(c[2], witness_state[c[1]])

AcceptedIsChain ==
    \A c, d \in accepted : c[1] = d[1] => Extends(c[2], d[2]) \/ Extends(d[2], c[2])

\* The only persisted head of size 0 is the empty tree's.
AcceptedEmpty == \A c \in accepted : SizeOf[c[2]] = 0 => c[2] = EmptyHead

\* A handler past a check still holds what the check established, although the
\* table may have moved on.
HandlersChecked ==
    \A h \in Handlers :
        /\ phase[h] = "update" => /\ Acceptable(request[h], state[h])
                               /\ <<request[h].origin, state[h]>> \in accepted
        /\ phase[h] = "cosign" => <<request[h].origin, request[h].head>> \in accepted

\* The inductive invariant.
WitnessInv ==
    /\ WitnessTypeOK
    /\ AcceptedBelowState
    /\ AcceptedIsChain
    /\ AcceptedEmpty
    /\ HandlersChecked
    /\ cosignatures \subseteq accepted

-----------------------------------------------------------------------------
\* The checks of add_checkpoint imply that the new head extends the state they
\* were made against, when a state of size 0 is the empty tree.
LEMMA AcceptableExtends ==
    ASSUME NEW r \in Requests, NEW s \in Heads,
           SizeOf[s] = 0 => s = EmptyHead,
           Acceptable(r, s)
    PROVE  /\ r.head \in Heads
           /\ Extends(s, r.head)
           /\ SizeOf[r.head] = 0 => r.head = EmptyHead
<1>1. r.head \in Heads
  BY WitnessAssumption DEF RequestRecords
<1>2. SizeOf[r.head] \in Nat /\ SizeOf[s] \in Nat
  BY <1>1, WitnessAssumption
<1>3. CASE SizeOf[s] > 0
  <2>1. SizeOf[r.head] >= SizeOf[s]
    BY <1>3 DEF Acceptable, ConsistencyVerified
  <2>2. Extends(s, r.head)
    BY <1>1, <1>3, ExtensionAssumption DEF Acceptable, ConsistencyVerified, ProofVerifies
  <2> QED
    BY <1>1, <1>2, <1>3, <2>1, <2>2
<1>4. CASE SizeOf[s] = 0
  <2>1. SizeOf[r.head] = 0 => r.head = EmptyHead
    BY <1>4 DEF Acceptable, EmptyRootMatches
  <2>2. Extends(s, r.head)
    BY <1>1, <1>2, <1>4, <2>1, ExtensionAssumption
  <2> QED
    BY <1>1, <2>1, <2>2
<1> QED
  BY <1>2, <1>3, <1>4

\* An empty witness_state table, with no request under way, satisfies the
\* inductive invariant.
LEMMA WitnessInitInv == WitnessInit => WitnessInv
<1> SUFFICES ASSUME WitnessInit PROVE WitnessInv
  OBVIOUS
<1>1. WitnessTypeOK
  BY WitnessAssumption DEF WitnessInit, WitnessTypeOK
<1>2. AcceptedBelowState /\ AcceptedIsChain /\ AcceptedEmpty /\ cosignatures \subseteq accepted
  BY DEF WitnessInit, AcceptedBelowState, AcceptedIsChain, AcceptedEmpty
<1>3. HandlersChecked
  BY DEF WitnessInit, HandlersChecked
<1> QED
  BY <1>1, <1>2, <1>3 DEF WitnessInv

\* A handler that is at work in add_checkpoint holds a request for a configured
\* log with a head of the model.
LEMMA BusyHandler ==
    ASSUME WitnessTypeOK, NEW h \in Handlers, phase[h] # "idle"
    PROVE  /\ request[h] \in Requests
           /\ request[h].origin \in Logs
           /\ request[h].head \in Heads
BY WitnessAssumption DEF WitnessTypeOK, RequestRecords

\* Every step of add_checkpoint, in any handler and against any table the other
\* handlers have left behind, preserves the inductive invariant.
LEMMA WitnessStepInv == WitnessInv /\ [WitnessNext]_witnessVars => WitnessInv'
<1> SUFFICES ASSUME WitnessInv, [WitnessNext]_witnessVars PROVE WitnessInv'
  OBVIOUS
<1> USE DEF WitnessInv
<1>1. ASSUME NEW h \in Handlers, NEW r \in Requests, AddCheckpoint(h, r) PROVE WitnessInv'
  <2>1. WitnessTypeOK'
    BY <1>1, WitnessAssumption DEF AddCheckpoint, WitnessTypeOK
  <2>2. AcceptedBelowState' /\ AcceptedIsChain' /\ AcceptedEmpty' /\ (cosignatures \subseteq accepted)'
    BY <1>1 DEF AddCheckpoint, AcceptedBelowState, AcceptedIsChain, AcceptedEmpty
  <2>3. HandlersChecked'
    BY <1>1 DEF AddCheckpoint, HandlersChecked, WitnessTypeOK
  <2> QED
    BY <2>1, <2>2, <2>3
<1>2. ASSUME NEW h \in Handlers, Get(h) PROVE WitnessInv'
  <2> DEFINE o == request[h].origin
             s == witness_state[o]
  <2>1. request[h] \in Requests /\ o \in Logs
    BY <1>2, BusyHandler DEF Get
  <2>2. UNCHANGED <<witness_state, cosignatures, accepted, requests>>
    BY <1>2 DEF Get
  <2>3. CASE s = NoState
    <3>1. phase' = [phase EXCEPT ![h] = "insert"] /\ UNCHANGED <<request, state>>
      BY <1>2, <2>3 DEF Get
    <3>2. WitnessTypeOK'
      BY <2>1, <2>2, <3>1, <1>2 DEF WitnessTypeOK, Get
    <3>3. HandlersChecked'
      BY <2>2, <3>1 DEF HandlersChecked, WitnessTypeOK
    <3> QED
      BY <2>2, <3>2, <3>3 DEF AcceptedBelowState, AcceptedIsChain, AcceptedEmpty
  <2>4. CASE s # NoState /\ Acceptable(request[h], s)
    <3>1. /\ state' = [state EXCEPT ![h] = s]
          /\ phase' = [phase EXCEPT ![h] = "update"]
          /\ UNCHANGED request
      BY <1>2, <2>4 DEF Get, Decide
    <3>2. s \in Heads /\ <<o, s>> \in accepted
      BY <2>1, <2>4 DEF WitnessTypeOK, AcceptedBelowState
    <3>3. WitnessTypeOK'
      BY <2>1, <2>2, <3>1, <3>2, <1>2 DEF WitnessTypeOK, Get
    <3>4. HandlersChecked'
      BY <2>1, <2>2, <2>4, <3>1, <3>2 DEF HandlersChecked, WitnessTypeOK, Acceptable, SizeMatches,
         EmptyRootMatches, ConsistencyVerified, ProofVerifies
    <3> QED
      BY <2>2, <3>3, <3>4 DEF AcceptedBelowState, AcceptedIsChain, AcceptedEmpty
  <2>5. CASE s # NoState /\ ~Acceptable(request[h], s)
    <3>1. Finish(h)
      BY <1>2, <2>5 DEF Get, Decide
    <3> QED
      BY <2>2, <3>1 DEF Finish, WitnessTypeOK, HandlersChecked, AcceptedBelowState, AcceptedIsChain,
         AcceptedEmpty
  <2> QED
    BY <2>3, <2>4, <2>5
<1>3. ASSUME NEW h \in Handlers, Insert(h) PROVE WitnessInv'
  <2> DEFINE o == request[h].origin
  <2>1. o \in Logs
    BY <1>3, BusyHandler DEF Insert
  <2>2. CASE witness_state[o] # NoState
    <3>1. UNCHANGED <<witness_state, accepted>>
      BY <1>3, <2>1, <2>2 DEF Insert, Inserted, WitnessTypeOK, AcceptedBelowState
    <3> QED
      BY <1>3, <3>1 DEF Insert, WitnessTypeOK, HandlersChecked, AcceptedBelowState, AcceptedIsChain,
         AcceptedEmpty
  <2>3. CASE witness_state[o] = NoState
    <3>1. /\ witness_state' = [witness_state EXCEPT ![o] = EmptyHead]
          /\ accepted' = accepted \cup {<<o, EmptyHead>>}
          /\ phase' = [phase EXCEPT ![h] = "get"]
          /\ UNCHANGED <<request, state, cosignatures, requests>>
      BY <1>3, <2>3 DEF Insert, Inserted
    <3>2. \A c \in accepted : c[1] # o
      BY <2>3 DEF AcceptedBelowState
    <3>3. WitnessTypeOK'
      BY <2>1, <3>1, <1>3, WitnessAssumption DEF WitnessTypeOK, Insert
    <3>4. AcceptedBelowState'
      BY <2>1, <3>1, <3>2, WitnessAssumption, ExtensionAssumption DEF WitnessTypeOK, AcceptedBelowState
    <3>5. AcceptedIsChain'
      BY <2>1, <3>1, <3>2, WitnessAssumption, ExtensionAssumption DEF WitnessTypeOK, AcceptedIsChain
    <3>6. AcceptedEmpty' /\ (cosignatures \subseteq accepted)'
      BY <3>1 DEF AcceptedEmpty
    <3>7. HandlersChecked'
      BY <3>1 DEF WitnessTypeOK, HandlersChecked
    <3> QED
      BY <3>3, <3>4, <3>5, <3>6, <3>7
  <2> QED
    BY <2>2, <2>3
<1>4. ASSUME NEW h \in Handlers, Update(h) PROVE WitnessInv'
  <2> DEFINE r == request[h]
             o == r.origin
             s == state[h]
  <2>1. r \in Requests /\ o \in Logs /\ r.head \in Heads
    BY <1>4, BusyHandler DEF Update
  <2>2. phase[h] = "update" /\ s \in Heads
    BY <1>4 DEF Update, WitnessTypeOK
  <2>3. CASE ~RollbackOrFork(s, r.head) /\ StillStored(o, s)
    <3>1. /\ witness_state' = [witness_state EXCEPT ![o] = r.head]
          /\ accepted' = accepted \cup {<<o, r.head>>}
          /\ phase' = [phase EXCEPT ![h] = "cosign"]
          /\ UNCHANGED <<request, state, cosignatures, requests>>
      BY <1>4, <2>3 DEF Update
    <3>2. witness_state[o] = s
      BY <2>3 DEF StillStored
    <3>3. Extends(s, r.head) /\ (SizeOf[r.head] = 0 => r.head = EmptyHead)
      <4>1. Acceptable(r, s) /\ <<o, s>> \in accepted
        BY <2>2 DEF HandlersChecked
      <4>2. SizeOf[s] = 0 => s = EmptyHead
        BY <4>1 DEF AcceptedEmpty
      <4> QED
        BY <2>1, <2>2, <4>1, <4>2, AcceptableExtends
    <3>4. \A c \in accepted : c[1] = o => c[2] \in Heads /\ Extends(c[2], r.head)
      BY <2>1, <2>2, <3>2, <3>3, ExtensionAssumption DEF AcceptedBelowState, WitnessTypeOK
    <3>5. WitnessTypeOK'
      BY <2>1, <2>2, <3>1 DEF WitnessTypeOK
    <3>6. AcceptedBelowState'
      BY <2>1, <3>1, <3>4, WitnessAssumption, ExtensionAssumption DEF WitnessTypeOK, AcceptedBelowState
    <3>7. AcceptedIsChain'
      BY <2>1, <3>1, <3>4, ExtensionAssumption DEF WitnessTypeOK, AcceptedIsChain
    <3>8. AcceptedEmpty' /\ (cosignatures \subseteq accepted)'
      BY <3>1, <3>3 DEF AcceptedEmpty
    <3>9. HandlersChecked'
      BY <2>1, <3>1 DEF WitnessTypeOK, HandlersChecked, Acceptable, SizeMatches, EmptyRootMatches,
         ConsistencyVerified, ProofVerifies
    <3> QED
      BY <3>5, <3>6, <3>7, <3>8, <3>9
  <2>4. CASE ~(~RollbackOrFork(s, r.head) /\ StillStored(o, s))
    <3>1. Finish(h) /\ UNCHANGED <<witness_state, accepted, cosignatures, requests>>
      BY <1>4, <2>4 DEF Update
    <3> QED
      BY <3>1 DEF Finish, WitnessTypeOK, HandlersChecked, AcceptedBelowState, AcceptedIsChain,
         AcceptedEmpty
  <2> QED
    BY <2>3, <2>4
<1>5. ASSUME NEW h \in Handlers, Cosign(h) PROVE WitnessInv'
  <2>1. <<request[h].origin, request[h].head>> \in accepted
    BY <1>5 DEF Cosign, HandlersChecked
  <2>2. (cosignatures \subseteq accepted)' /\ cosignatures' \subseteq Logs \X Heads
    BY <1>5, <2>1 DEF Cosign, WitnessTypeOK
  <2> QED
    BY <1>5, <2>2 DEF Cosign, Finish, WitnessTypeOK, HandlersChecked, AcceptedBelowState,
       AcceptedIsChain, AcceptedEmpty
<1>6. ASSUME NEW h \in Handlers, Abort(h) PROVE WitnessInv'
  BY <1>6 DEF Abort, Finish, WitnessTypeOK, HandlersChecked, AcceptedBelowState, AcceptedIsChain,
     AcceptedEmpty
<1>7. CASE UNCHANGED witnessVars
  BY <1>7 DEF witnessVars, WitnessTypeOK, HandlersChecked, AcceptedBelowState, AcceptedIsChain, AcceptedEmpty,
     Acceptable, SizeMatches, EmptyRootMatches, ConsistencyVerified, ProofVerifies
<1> QED
  BY <1>1, <1>2, <1>3, <1>4, <1>5, <1>6, <1>7 DEF WitnessNext, HandlersIdle

\* The inductive invariant holds throughout: the persisted heads of a log form a
\* chain below its row, and a handler holds what its last check established.
THEOREM WitnessInvariant == WitnessSpec => []WitnessInv
BY WitnessInitInv, WitnessStepInv, PTL DEF WitnessSpec

\* The witness's state always has its type.
THEOREM WitnessTypeCorrect == WitnessSpec => []WitnessTypeOK
<1>1. WitnessInv => WitnessTypeOK
  BY DEF WitnessInv
<1> QED
  BY <1>1, WitnessInvariant, PTL

\* Of any two checkpoints of a log that the witness cosigned, one extends the
\* other: no interleaving of add_checkpoint requests makes it sign a fork.
THEOREM NeverSplitView == WitnessSpec => []NoSplitView
<1>1. WitnessInv => NoSplitView
  BY DEF WitnessInv, AcceptedIsChain, NoSplitView
<1> QED
  BY <1>1, WitnessInvariant, PTL

\* Whatever was cosigned is below what is persisted, at every moment: the update
\* of the store precedes the cosignature.
THEOREM AlwaysPersisted == WitnessSpec => []CosignedIsPersisted
<1>1. WitnessInv => CosignedIsPersisted
  BY DEF WitnessInv, AcceptedBelowState, CosignedIsPersisted
<1> QED
  BY <1>1, WitnessInvariant, PTL

\* The stored state of each log moves only to extensions of itself, in every
\* step of the service.
THEOREM NeverRollsBack == WitnessSpec => StateOnlyExtends
<1> DEFINE Extended(o) ==
        \/ witness_state[o] = NoState /\ witness_state'[o] \in {NoState, EmptyHead}
        \/ /\ witness_state[o] # NoState /\ witness_state'[o] # NoState
           /\ Extends(witness_state[o], witness_state'[o])
<1>1. ASSUME WitnessInv, [WitnessNext]_witnessVars PROVE [\A o \in Logs : Extended(o)]_witnessVars
  <2> SUFFICES ASSUME NEW p \in Logs, WitnessNext PROVE Extended(p) \/ UNCHANGED witnessVars
    BY <1>1
  <2> USE <1>1 DEF WitnessInv
  <2>1. ASSUME witness_state' = witness_state PROVE Extended(p)
    BY <2>1, ExtensionAssumption DEF WitnessTypeOK
  <2>2. ASSUME NEW h \in Handlers, Insert(h) PROVE Extended(p)
    BY <2>2, BusyHandler, WitnessAssumption, ExtensionAssumption DEF Insert, Inserted, WitnessTypeOK
  <2>3. ASSUME NEW h \in Handlers, Update(h) PROVE Extended(p)
    <3> DEFINE r == request[h]
    <3>1. r \in Requests /\ r.origin \in Logs /\ r.head \in Heads
      BY <2>3, BusyHandler DEF Update
    <3>2. CASE UNCHANGED witness_state
      BY <3>2, <2>1
    <3>3. CASE StillStored(r.origin, state[h]) /\ witness_state' = [witness_state EXCEPT ![r.origin] = r.head]
      <4>1. /\ Acceptable(r, state[h])
            /\ <<r.origin, state[h]>> \in accepted
            /\ state[h] \in Heads
        BY <2>3 DEF Update, HandlersChecked, WitnessTypeOK
      <4>2. Extends(state[h], r.head)
        BY <3>1, <4>1, AcceptableExtends DEF AcceptedEmpty
      <4> QED
        BY <3>1, <3>3, <4>1, <4>2, WitnessAssumption, ExtensionAssumption DEF StillStored, WitnessTypeOK
    <3> QED
      BY <2>3, <3>2, <3>3 DEF Update
  <2>4. \/ witness_state' = witness_state
        \/ \E h \in Handlers : Insert(h) \/ Update(h)
    BY DEF WitnessNext, AddCheckpoint, Get, Cosign, Abort, HandlersIdle, witnessVars
  <2> QED
    BY <2>1, <2>2, <2>3, <2>4
<1> QED
  BY <1>1, WitnessInvariant, PTL DEF WitnessSpec, StateOnlyExtends

-----------------------------------------------------------------------------
(* The publisher                                                            *)


Answers == [kind : {"none", "signature", "conflict", "error"}, size : Nat]
Late    == [witness : Witnesses, old : Nat, new : Nat]

TypeOK ==
    /\ integrated_size \in Nat
    /\ checkpoint \in [size : Nat \cup {NoSize}, signatures : SUBSET Witnesses,
                       by : Publishers \cup {NoSize}]
    /\ witnessed \in [Witnesses -> Nat]
    /\ cosigned \subseteq Witnesses \X Nat
    /\ late \subseteq Late
    /\ pc \in [Publishers -> {"sleep", "collect", "sent", "answered", "stopped"}]
    /\ new_size \in [Publishers -> Nat]
    /\ slot \in [Publishers -> Nat \ {0}]
    /\ signatures \in [Publishers -> SUBSET Witnesses]
    /\ answer \in [Publishers -> Answers]
    /\ sizes \in [Publishers -> [Witnesses -> Nat]]

\* A publisher waiting for a response has a witness to wait for.
WaitsForWitness ==
    \A p \in Publishers : pc[p] \in {"sent", "answered"} => slot[p] <= Len(Externals)

\* The signatures a publisher holds, and the one on its way to it, are of
\* cosignatures issued for the size it is publishing; it starts with none.
SignaturesAreIssued ==
    \A p \in Publishers :
        /\ pc[p] \in {"sleep", "stopped"} => signatures[p] = {}
        /\ \A w \in signatures[p] : <<w, new_size[p]>> \in cosigned
        /\ pc[p] = "answered" /\ answer[p].kind = "signature" =>
            <<Current(p), new_size[p]>> \in cosigned

\* A witness persists before it cosigns, and never goes back.
IssuedIsPersisted == \A c \in cosigned : witnessed[c[1]] >= c[2]

\* A publication under way is of a committed tree, and is not below what the
\* same process has written before.
OwnIsBelow ==
    /\ \A p \in Publishers : new_size[p] <= integrated_size
    /\ checkpoint.size # NoSize =>
        /\ checkpoint.size <= integrated_size
        /\ \A p \in Publishers :
            checkpoint.by = p /\ pc[p] \notin {"sleep", "stopped"} => checkpoint.size <= new_size[p]

\* The inductive invariant.
PublisherInv ==
    /\ TypeOK
    /\ WaitsForWitness
    /\ SignaturesAreIssued
    /\ IssuedIsPersisted
    /\ PublishedHasQuorum
    /\ OwnIsBelow

-----------------------------------------------------------------------------
\* The witness a publisher is at is one of the configured ones.
LEMMA CurrentIsWitness ==
    ASSUME TypeOK, NEW p \in Publishers, slot[p] <= Len(Externals)
    PROVE  Current(p) \in Witnesses
BY PublisherAssumption DEF TypeOK, Current, Witnesses

\* A request a publisher gives up on is a request.
LEMMA AbandonedType ==
    ASSUME TypeOK, WaitsForWitness, NEW p \in Publishers
    PROVE  Abandoned(p) \subseteq Late
<1>1. CASE pc[p] = "sent"
  <2>1. Current(p) \in Witnesses
    BY <1>1, CurrentIsWitness DEF WaitsForWitness
  <2> QED
    BY <1>1, <2>1 DEF Abandoned, Late, TypeOK
<1>2. CASE pc[p] # "sent"
  BY <1>2 DEF Abandoned
<1> QED
  BY <1>1, <1>2

\* Handling a request, in time or late, only adds cosignatures, only advances
\* the witness, and keeps it at or above all it has cosigned.
LEMMA EffectAdvances ==
    ASSUME TypeOK, IssuedIsPersisted,
           NEW w \in Witnesses, NEW old \in Nat, NEW new \in Nat, WitnessEffect(w, old, new)
    PROVE  /\ cosigned \subseteq cosigned'
           /\ cosigned' \subseteq Witnesses \X Nat
           /\ witnessed' \in [Witnesses -> Nat]
           /\ \A v \in Witnesses : witnessed'[v] >= witnessed[v]
           /\ IssuedIsPersisted'
<1>1. CASE w \notin Faulty /\ WitnessAccepts(w, old, new)
  <2>1. /\ witnessed' = [witnessed EXCEPT ![w] = new]
        /\ cosigned' = cosigned \cup {<<w, new>>}
        /\ witnessed[w] <= new
    BY <1>1 DEF WitnessEffect, WitnessAccepts
  <2>2. \A v \in Witnesses : witnessed'[v] >= witnessed[v] /\ witnessed'[v] \in Nat
    BY <2>1 DEF TypeOK
  <2>3. IssuedIsPersisted'
    <3> SUFFICES ASSUME NEW c \in cosigned' PROVE witnessed'[c[1]] >= c[2]
      BY DEF IssuedIsPersisted
    <3>1. CASE c \in cosigned
      <4>1. c[1] \in Witnesses /\ c[2] \in Nat /\ witnessed[c[1]] >= c[2]
        BY <3>1 DEF TypeOK, IssuedIsPersisted
      <4> QED
        BY <4>1, <2>2 DEF TypeOK
    <3>2. CASE c = <<w, new>>
      BY <3>2, <2>1 DEF TypeOK
    <3> QED
      BY <2>1, <3>1, <3>2
  <2> QED
    BY <2>1, <2>2, <2>3 DEF TypeOK
<1>2. CASE ~(w \notin Faulty /\ WitnessAccepts(w, old, new))
  <2>1. UNCHANGED <<witnessed, cosigned>>
    BY <1>2 DEF WitnessEffect
  <2> QED
    BY <2>1 DEF TypeOK, IssuedIsPersisted
<1> QED
  BY <1>1, <1>2

\* A published checkpoint keeps its quorum while cosignatures are added and
\* witnesses advance.
LEMMA QuorumKept ==
    ASSUME TypeOK, PublishedHasQuorum, UNCHANGED checkpoint,
           cosigned \subseteq cosigned', witnessed' \in [Witnesses -> Nat],
           \A v \in Witnesses : witnessed'[v] >= witnessed[v]
    PROVE  PublishedHasQuorum'
<1> SUFFICES ASSUME checkpoint.size # NoSize
             PROVE  /\ Cardinality(checkpoint.signatures) >= Quorum
                    /\ \A w \in checkpoint.signatures :
                        /\ <<w, checkpoint.size>> \in cosigned'
                        /\ witnessed'[w] >= checkpoint.size
  BY DEF PublishedHasQuorum
<1>1. checkpoint.size \in Nat /\ checkpoint.signatures \subseteq Witnesses
  BY DEF TypeOK
<1> QED
  BY <1>1 DEF PublishedHasQuorum, TypeOK

\* Once every witness was asked and a quorum has signed, the checkpoint about to
\* be written has what PublishedHasQuorum asks for.
LEMMA NewHasQuorum ==
    ASSUME PublisherInv, NEW p \in Publishers, CanPublish(p),
           checkpoint' \in {checkpoint, NewCheckpoint(p)}, UNCHANGED <<witnessed, cosigned>>
    PROVE  /\ PublishedHasQuorum'
           /\ \/ checkpoint' = checkpoint
              \/ checkpoint'.size = new_size[p] /\ checkpoint'.by = p
           /\ checkpoint' \in [size : Nat \cup {NoSize}, signatures : SUBSET Witnesses,
                               by : Publishers \cup {NoSize}]
<1> USE DEF PublisherInv
<1>1. CASE checkpoint' = checkpoint
  BY <1>1 DEF PublishedHasQuorum, TypeOK
<1>2. CASE checkpoint' = NewCheckpoint(p)
  <2>1. /\ checkpoint'.size = new_size[p] /\ checkpoint'.by = p
        /\ checkpoint'.signatures = signatures[p]
        /\ new_size[p] \in Nat /\ signatures[p] \subseteq Witnesses
    BY <1>2 DEF NewCheckpoint, TypeOK
  <2>2. Cardinality(signatures[p]) >= Quorum
    BY DEF CanPublish, HasQuorum
  <2>3. ASSUME NEW w \in signatures[p]
        PROVE  <<w, new_size[p]>> \in cosigned /\ witnessed[w] >= new_size[p]
    <3>1. <<w, new_size[p]>> \in cosigned
      BY DEF SignaturesAreIssued
    <3> QED
      BY <3>1 DEF IssuedIsPersisted
  <2> QED
    BY <1>2, <2>1, <2>2, <2>3 DEF PublishedHasQuorum, NewCheckpoint
<1> QED
  BY <1>1, <1>2

\* Before anything is published, with an empty tree, the invariant holds.
LEMMA InitInv == Init => PublisherInv
<1> SUFFICES ASSUME Init PROVE PublisherInv
  OBVIOUS
<1>1. TypeOK
  BY DEF Init, TypeOK, NoCheckpoint, NoAnswer, Answers
<1>2. WaitsForWitness /\ SignaturesAreIssued /\ IssuedIsPersisted
  BY DEF Init, WaitsForWitness, SignaturesAreIssued, IssuedIsPersisted
<1>3. PublishedHasQuorum /\ OwnIsBelow
  BY DEF Init, PublishedHasQuorum, OwnIsBelow, NoCheckpoint
<1> QED
  BY <1>1, <1>2, <1>3 DEF PublisherInv

\* Every step of a publisher, a witness or the integration worker preserves the
\* inductive invariant.
LEMMA StepInv == PublisherInv /\ [Next]_vars => PublisherInv'
<1> SUFFICES ASSUME PublisherInv, [Next]_vars PROVE PublisherInv'
  OBVIOUS
<1> USE DEF PublisherInv
<1>1. CASE Grow
  <2>1. /\ integrated_size' = integrated_size + 1
        /\ UNCHANGED <<checkpoint, witnessed, cosigned, late, pc, new_size, slot, signatures,
                       answer, sizes>>
    BY <1>1 DEF Grow, envVars, pubVars
  <2>2. TypeOK'
    BY <2>1 DEF TypeOK
  <2>3. OwnIsBelow'
    BY <2>1 DEF OwnIsBelow, TypeOK
  <2> QED
    BY <2>1, <2>2, <2>3 DEF WaitsForWitness, SignaturesAreIssued, IssuedIsPersisted,
       PublishedHasQuorum, Current
<1>2. ASSUME NEW p \in Publishers, Start(p) PROVE PublisherInv'
  <2>1. /\ pc[p] = "sleep"
        /\ pc' = [pc EXCEPT ![p] = "collect"]
        /\ new_size' = [new_size EXCEPT ![p] = integrated_size]
        /\ UNCHANGED <<integrated_size, checkpoint, witnessed, cosigned, late, slot, signatures,
                       answer, sizes>>
    BY <1>2 DEF Start, envVars
  <2>2. TypeOK' /\ WaitsForWitness'
    BY <2>1 DEF TypeOK, WaitsForWitness
  <2>3. SignaturesAreIssued'
    BY <2>1 DEF SignaturesAreIssued, TypeOK, Current
  <2>4. OwnIsBelow'
    BY <2>1 DEF OwnIsBelow, TypeOK
  <2> QED
    BY <2>1, <2>2, <2>3, <2>4 DEF IssuedIsPersisted, PublishedHasQuorum
<1>3. ASSUME NEW p \in Publishers, SkipWitness(p) PROVE PublisherInv'
  <2>1. /\ pc[p] = "collect" /\ slot[p] <= Len(Externals)
        /\ slot' = [slot EXCEPT ![p] = @ + 1]
        /\ UNCHANGED <<integrated_size, checkpoint, witnessed, cosigned, late, pc, new_size,
                       signatures, answer, sizes>>
    BY <1>3 DEF SkipWitness, envVars
  <2>2. TypeOK' /\ WaitsForWitness'
    BY <2>1 DEF TypeOK, WaitsForWitness
  <2>3. SignaturesAreIssued'
    BY <2>1 DEF SignaturesAreIssued, TypeOK, Current
  <2> QED
    BY <2>1, <2>2, <2>3 DEF IssuedIsPersisted, PublishedHasQuorum, OwnIsBelow
<1>4. ASSUME NEW p \in Publishers, Send(p) PROVE PublisherInv'
  <2>1. /\ pc[p] = "collect" /\ slot[p] <= Len(Externals)
        /\ pc' = [pc EXCEPT ![p] = "sent"]
        /\ UNCHANGED <<integrated_size, checkpoint, witnessed, cosigned, late, new_size, slot,
                       signatures, answer, sizes>>
    BY <1>4 DEF Send, envVars
  <2>2. TypeOK' /\ WaitsForWitness'
    BY <2>1 DEF TypeOK, WaitsForWitness
  <2>3. SignaturesAreIssued' /\ OwnIsBelow'
    BY <2>1 DEF SignaturesAreIssued, OwnIsBelow, TypeOK, Current
  <2> QED
    BY <2>1, <2>2, <2>3 DEF IssuedIsPersisted, PublishedHasQuorum
<1>5. ASSUME NEW p \in Publishers, Handle(p) PROVE PublisherInv'
  <2> DEFINE w == Current(p)
             old == sizes[p][w]
  <2>1. w \in Witnesses /\ old \in Nat /\ new_size[p] \in Nat
    BY <1>5, CurrentIsWitness DEF Handle, WaitsForWitness, TypeOK
  <2>2. PICK a \in WitnessAnswers(w, old, new_size[p]) : answer' = [answer EXCEPT ![p] = a]
    BY <1>5 DEF Handle
  <2>3. /\ pc[p] = "sent" /\ pc' = [pc EXCEPT ![p] = "answered"]
        /\ WitnessEffect(w, old, new_size[p])
        /\ UNCHANGED <<integrated_size, checkpoint, late, new_size, slot, signatures, sizes>>
    BY <1>5 DEF Handle
  <2>4. /\ cosigned \subseteq cosigned' /\ cosigned' \subseteq Witnesses \X Nat
        /\ witnessed' \in [Witnesses -> Nat]
        /\ \A v \in Witnesses : witnessed'[v] >= witnessed[v]
        /\ IssuedIsPersisted'
    BY <2>1, <2>3, EffectAdvances
  <2>5. a \in Answers
    BY <2>1, PublisherAssumption
       DEF WitnessAnswers, Answers, ErrorAnswer, Conflict, Signature, TypeOK
  <2>6. a.kind = "signature" => <<w, new_size[p]>> \in cosigned'
    BY <2>3 DEF WitnessAnswers, ErrorAnswer, Conflict, WitnessEffect
  <2>7. TypeOK' /\ WaitsForWitness'
    BY <2>2, <2>3, <2>4, <2>5 DEF TypeOK, WaitsForWitness
  <2>8. SignaturesAreIssued'
    BY <2>2, <2>3, <2>4, <2>6 DEF SignaturesAreIssued, TypeOK, Current
  <2>9. PublishedHasQuorum'
    BY <2>3, <2>4, QuorumKept
  <2>10. OwnIsBelow'
    BY <2>3 DEF OwnIsBelow, TypeOK
  <2> QED
    BY <2>4, <2>7, <2>8, <2>9, <2>10
<1>6. ASSUME NEW p \in Publishers, Receive(p) PROVE PublisherInv'
  <2>1. /\ pc[p] = "answered" /\ pc' = [pc EXCEPT ![p] = "collect"]
        /\ signatures' = [signatures EXCEPT ![p] = Collected(p)]
        /\ sizes' = [sizes EXCEPT ![p][Current(p)] = Learned(p)]
        /\ answer' = [answer EXCEPT ![p] = NoAnswer]
        /\ slot' = [slot EXCEPT ![p] = @ + 1]
        /\ UNCHANGED <<integrated_size, checkpoint, witnessed, cosigned, late, new_size>>
    BY <1>6 DEF Receive, envVars
  <2>2. Current(p) \in Witnesses
    BY <2>1, CurrentIsWitness DEF WaitsForWitness
  <2>3. Learned(p) \in Nat
    BY <2>2 DEF Learned, TypeOK, Answers
  <2>4. Collected(p) \subseteq Witnesses /\ \A w \in Collected(p) : <<w, new_size[p]>> \in cosigned
    BY <2>1, <2>2 DEF Collected, SignaturesAreIssued, TypeOK
  <2>5. NoAnswer \in Answers
    BY DEF NoAnswer, Answers
  <2>6. TypeOK' /\ WaitsForWitness'
    BY <2>1, <2>2, <2>3, <2>4, <2>5 DEF TypeOK, WaitsForWitness
  <2>7. SignaturesAreIssued'
    BY <2>1, <2>4 DEF SignaturesAreIssued, TypeOK, Current
  <2>8. OwnIsBelow'
    BY <2>1 DEF OwnIsBelow, TypeOK
  <2> QED
    BY <2>1, <2>6, <2>7, <2>8 DEF IssuedIsPersisted, PublishedHasQuorum
<1>7. ASSUME NEW p \in Publishers, Timeout(p) PROVE PublisherInv'
  <2>1. /\ pc[p] \in {"sent", "answered"} /\ pc' = [pc EXCEPT ![p] = "collect"]
        /\ late' = late \cup Abandoned(p)
        /\ answer' = [answer EXCEPT ![p] = NoAnswer]
        /\ slot' = [slot EXCEPT ![p] = @ + 1]
        /\ UNCHANGED <<integrated_size, checkpoint, witnessed, cosigned, new_size, signatures, sizes>>
    BY <1>7 DEF Timeout
  <2>2. NoAnswer \in Answers /\ Abandoned(p) \subseteq Late
    BY AbandonedType DEF NoAnswer, Answers
  <2>3. TypeOK' /\ WaitsForWitness'
    BY <2>1, <2>2 DEF TypeOK, WaitsForWitness
  <2>4. SignaturesAreIssued' /\ OwnIsBelow'
    BY <2>1 DEF SignaturesAreIssued, OwnIsBelow, TypeOK, Current
  <2> QED
    BY <2>1, <2>3, <2>4 DEF IssuedIsPersisted, PublishedHasQuorum
<1>8. ASSUME NEW r \in late, HandleLate(r) PROVE PublisherInv'
  <2>1. r.witness \in Witnesses /\ r.old \in Nat /\ r.new \in Nat
    BY DEF TypeOK, Late
  <2>2. /\ WitnessEffect(r.witness, r.old, r.new) /\ late' \subseteq late
        /\ UNCHANGED <<integrated_size, checkpoint, pc, new_size, slot, signatures, answer, sizes>>
    BY <1>8 DEF HandleLate, pubVars
  <2>3. /\ cosigned \subseteq cosigned' /\ cosigned' \subseteq Witnesses \X Nat
        /\ witnessed' \in [Witnesses -> Nat]
        /\ \A v \in Witnesses : witnessed'[v] >= witnessed[v]
        /\ IssuedIsPersisted'
    BY <2>1, <2>2, EffectAdvances
  <2>4. TypeOK' /\ WaitsForWitness' /\ OwnIsBelow'
    BY <2>2, <2>3 DEF TypeOK, WaitsForWitness, OwnIsBelow
  <2>5. SignaturesAreIssued'
    BY <2>2, <2>3 DEF SignaturesAreIssued, Current
  <2>6. PublishedHasQuorum'
    BY <2>2, <2>3, QuorumKept
  <2> QED
    BY <2>3, <2>4, <2>5, <2>6
<1>9. ASSUME NEW p \in Publishers, Sleep(p), checkpoint' = checkpoint, late' \subseteq Late,
             sizes' \in [Publishers -> [Witnesses -> Nat]],
             UNCHANGED <<integrated_size, witnessed, cosigned>>
      PROVE  PublisherInv'
  <2>1. TypeOK' /\ WaitsForWitness'
    BY <1>9 DEF Sleep, TypeOK, WaitsForWitness, NoAnswer, Answers
  <2>2. SignaturesAreIssued' /\ OwnIsBelow'
    BY <1>9 DEF Sleep, SignaturesAreIssued, OwnIsBelow, TypeOK, Current
  <2> QED
    BY <1>9, <2>1, <2>2 DEF IssuedIsPersisted, PublishedHasQuorum
<1>10. ASSUME NEW p \in Publishers, NoPublish(p) PROVE PublisherInv'
  BY <1>9, <1>10 DEF NoPublish, envVars, TypeOK
<1>11. ASSUME NEW p \in Publishers, Crash(p) PROVE PublisherInv'
  <2>1. late' \subseteq Late
    BY <1>11, AbandonedType DEF Crash, TypeOK
  <2>2. sizes' \in [Publishers -> [Witnesses -> Nat]]
    BY <1>11 DEF Crash, TypeOK
  <2> QED
    BY <1>9, <1>11, <2>1, <2>2 DEF Crash
<1>12. ASSUME NEW p \in Publishers, WriteCheckpoint(p) \/ WriteFails(p) PROVE PublisherInv'
  <2>1. /\ CanPublish(p) /\ Sleep(p)
        /\ checkpoint' \in {checkpoint, NewCheckpoint(p)}
        /\ UNCHANGED <<integrated_size, witnessed, cosigned, late, sizes>>
    BY <1>12 DEF WriteCheckpoint, WriteFails
  <2>2. /\ PublishedHasQuorum'
        /\ \/ checkpoint' = checkpoint
           \/ checkpoint'.size = new_size[p] /\ checkpoint'.by = p
        /\ checkpoint' \in [size : Nat \cup {NoSize}, signatures : SUBSET Witnesses,
                            by : Publishers \cup {NoSize}]
    BY <2>1, NewHasQuorum
  <2>3. TypeOK' /\ WaitsForWitness'
    BY <2>1, <2>2 DEF Sleep, TypeOK, WaitsForWitness, NoAnswer, Answers
  <2>4. SignaturesAreIssued'
    BY <2>1 DEF Sleep, SignaturesAreIssued, TypeOK, Current
  <2>5. OwnIsBelow'
    BY <2>1, <2>2 DEF Sleep, OwnIsBelow, TypeOK
  <2> QED
    BY <2>1, <2>2, <2>3, <2>4, <2>5 DEF IssuedIsPersisted
<1>13. ASSUME NEW p \in Publishers, Stop(p) PROVE PublisherInv'
  <2>1. /\ pc[p] = "sleep" /\ pc' = [pc EXCEPT ![p] = "stopped"]
        /\ UNCHANGED <<integrated_size, checkpoint, witnessed, cosigned, late, new_size, slot,
                       signatures, answer, sizes>>
    BY <1>13 DEF Stop, envVars
  <2>2. TypeOK' /\ WaitsForWitness'
    BY <2>1 DEF TypeOK, WaitsForWitness
  <2>3. SignaturesAreIssued' /\ OwnIsBelow'
    BY <2>1 DEF SignaturesAreIssued, OwnIsBelow, TypeOK, Current
  <2> QED
    BY <2>1, <2>2, <2>3 DEF IssuedIsPersisted, PublishedHasQuorum
<1>14. CASE UNCHANGED vars
  BY <1>14 DEF vars, envVars, pubVars, TypeOK, WaitsForWitness, SignaturesAreIssued,
     IssuedIsPersisted, PublishedHasQuorum, OwnIsBelow, Current
<1> QED
  BY <1>1, <1>2, <1>3, <1>4, <1>5, <1>6, <1>7, <1>8, <1>10, <1>11, <1>12, <1>13, <1>14
     DEF Next, PublisherStep, Idle

-----------------------------------------------------------------------------
\* The inductive invariant holds throughout.
THEOREM PublisherInvariant == Spec => []PublisherInv
BY InitInv, StepInv, PTL DEF Spec

\* Every checkpoint in storage carries cosignatures of a quorum of witnesses,
\* each issued for that size by a witness that has persisted at least it.
THEOREM AlwaysQuorum == Spec => []PublishedHasQuorum
<1>1. PublisherInv => PublishedHasQuorum
  BY DEF PublisherInv
<1> QED
  BY <1>1, PublisherInvariant, PTL

\* No process replaces its own published checkpoint by an older one.
THEOREM NeverRegresses == Spec => NoRegression
<1> DEFINE Forward == checkpoint.size # NoSize =>
                        /\ checkpoint'.size # NoSize
                        /\ checkpoint'.size >= checkpoint.size \/ checkpoint'.by # checkpoint.by
<1>1. ASSUME PublisherInv, [Next]_vars PROVE [Forward]_vars
  <2> USE <1>1 DEF PublisherInv
  <2>1. ASSUME UNCHANGED checkpoint PROVE Forward
    BY <2>1 DEF TypeOK
  <2>2. ASSUME NEW p \in Publishers, WriteCheckpoint(p) \/ WriteFails(p) PROVE Forward
    <3>1. /\ CanPublish(p)
          /\ checkpoint' \in {checkpoint, NewCheckpoint(p)}
          /\ UNCHANGED <<witnessed, cosigned>>
      BY <2>2 DEF WriteCheckpoint, WriteFails
    <3>2. \/ checkpoint' = checkpoint
          \/ checkpoint'.size = new_size[p] /\ checkpoint'.by = p
      BY <3>1, NewHasQuorum
    <3>3. CASE checkpoint'.size = new_size[p] /\ checkpoint'.by = p
      BY <3>1, <3>3, PublisherAssumption DEF CanPublish, OwnIsBelow, TypeOK
    <3> QED
      BY <2>1, <3>2, <3>3
  <2>3. \/ UNCHANGED checkpoint
        \/ \E p \in Publishers : WriteCheckpoint(p) \/ WriteFails(p)
    BY DEF Next, PublisherStep, Grow, Start, SkipWitness, Send, Handle, Receive, NoPublish,
       Timeout, Crash, Stop, HandleLate, Idle, vars, envVars
  <2> QED
    BY <2>1, <2>2, <2>3
<1> QED
  BY <1>1, PublisherInvariant, PTL DEF Spec, NoRegression

-----------------------------------------------------------------------------
(* Consistency and inclusion proofs                                         *)

\* A set of natural numbers that is not empty has a least member.
LEMMA LeastMember ==
    ASSUME NEW T \in SUBSET Nat, T # {}
    PROVE  \E m \in T : \A n \in T : m <= n
<1>1. IsWellFoundedOn(OpToRel(<, Nat), Nat)
  BY NatLessThanWellFounded
<1>2. PICK m \in T : \A n \in T : ~(<<n, m>> \in OpToRel(<, Nat))
  BY <1>1, WFMin
<1>3. \A n \in T : ~(n < m)
  BY <1>2 DEF OpToRel
<1> QED
  BY <1>3

\* Induction: a set that holds a number whenever it holds all smaller ones holds
\* every number up to the bound.
LEMMA Induction ==
    ASSUME NEW N \in Nat, NEW S,
           \A n \in 0 .. N : (\A i \in 0 .. n - 1 : i \in S) => n \in S
    PROVE  0 .. N \subseteq S
<1> SUFFICES ASSUME 0 .. N \ S # {} PROVE FALSE
  OBVIOUS
<1> DEFINE T == {n \in Nat : n \in 0 .. N \ S}
<1>1. PICK m \in T : \A n \in T : m <= n
  <2>1. T \in SUBSET Nat /\ T # {}
    OBVIOUS
  <2> HIDE DEF T
  <2> QED
    BY <2>1, LeastMember
<1>2. \A i \in 0 .. m - 1 : i \in S
  BY <1>1
<1> QED
  BY <1>1, <1>2

\* Powers of two are positive and grow.
LEMMA PowersGrow ==
    /\ \A l \in 0 .. SizeBits : 2 ^ l \in Nat \ {0}
    /\ \A i, j \in 0 .. SizeBits : i < j => 2 * 2 ^ i <= 2 ^ j
<1>1. \A l \in 0 .. SizeBits : 2 ^ l \in Nat \ {0}
  <2> SUFFICES ASSUME NEW l \in 0 .. SizeBits PROVE 2 ^ l \in Nat \ {0}
    OBVIOUS
  <2>1. CASE l = 0
    BY <2>1, PowersOfTwo
  <2>2. CASE l # 0
    <3>1. l - 1 \in 0 .. SizeBits - 1 /\ (l - 1) + 1 = l
      BY <2>2, PowersOfTwo
    <3> QED
      BY <3>1, PowersOfTwo
  <2> QED
    BY <2>1, <2>2
<1>2. ASSUME NEW i \in 0 .. SizeBits PROVE \A j \in 0 .. SizeBits : i < j => 2 * 2 ^ i <= 2 ^ j
  <2> DEFINE S == {j \in Nat : j <= SizeBits /\ i < j => 2 * 2 ^ i <= 2 ^ j}
  <2>1. ASSUME NEW j \in 0 .. SizeBits, \A x \in 0 .. j - 1 : x \in S PROVE j \in S
    <3> SUFFICES ASSUME i < j PROVE 2 * 2 ^ i <= 2 ^ j
      OBVIOUS
    <3>1. j - 1 \in 0 .. SizeBits - 1 /\ (j - 1) + 1 = j /\ i \in Nat /\ i <= j - 1 /\ j - 1 \in 0 .. j - 1
      BY PowersOfTwo
    <3>2. 2 ^ j = 2 * 2 ^ (j - 1)
      BY <3>1, PowersOfTwo
    <3>3. i < j - 1 => 2 * 2 ^ i <= 2 ^ (j - 1)
      <4>1. j - 1 \in S /\ j - 1 <= SizeBits
        BY <2>1, <3>1, PowersOfTwo
      <4> QED
        BY <4>1
    <3>4. 2 ^ i \in Nat /\ 2 ^ j \in Nat /\ 2 ^ (j - 1) \in Nat
      <4>1. j - 1 \in 0 .. SizeBits
        BY <3>1, PowersOfTwo
      <4> QED
        BY <1>1, <4>1
    <3>5. CASE i = j - 1
      BY <3>2, <3>4, <3>5
    <3>6. CASE i < j - 1
      BY <3>2, <3>3, <3>4, <3>6
    <3> QED
      BY <3>1, <3>5, <3>6
  <2> HIDE DEF S
  <2>2. 0 .. SizeBits \subseteq S
    BY <2>1, PowersOfTwo, Induction
  <2> QED
    BY <2>2, PowersOfTwo DEF S
<1> QED
  BY <1>1, <1>2

\* The number of bits of n.
LEMMA BitLengthFacts ==
    ASSUME NEW n \in Nat, n < 2 ^ SizeBits
    PROVE  LET b == BitLength(n)
           IN b \in 0 .. SizeBits /\ n < 2 ^ b /\ (b = 0 \/ 2 ^ (b - 1) <= n)
<1> DEFINE T == {l \in Nat : l \in 0 .. SizeBits /\ n < 2 ^ l}
<1>1. T \in SUBSET Nat /\ T # {}
  BY PowersOfTwo
<1>2. PICK l \in T : \A x \in T : l <= x
  <2> HIDE DEF T
  <2> QED
    BY <1>1, LeastMember
<1>3. l \in 0 .. SizeBits /\ n < 2 ^ l
  BY <1>2
<1>4. l = 0 \/ 2 ^ (l - 1) <= n
  <2> SUFFICES ASSUME l # 0 PROVE 2 ^ (l - 1) <= n
    OBVIOUS
  <2>1. l - 1 \in 0 .. SizeBits /\ ~(l <= l - 1)
    BY <1>3, PowersOfTwo
  <2>2. ~(n < 2 ^ (l - 1))
    BY <1>2, <2>1
  <2> QED
    BY <2>1, <2>2, PowersGrow
<1> QED
  BY <1>3, <1>4 DEF BitLength

\* The largest power of two below n, and that there is only one with these bounds.
LEMMA SplitFacts ==
    ASSUME NEW n \in Nat, n >= 2, n <= 2 ^ SizeBits
    PROVE  LET k == largest_power_of_2_less_than(n)
           IN /\ k \in 1 .. n - 1 /\ IsPowerOfTwo(k) /\ n <= 2 * k
              /\ Split(n) = k
              /\ \A p \in 1 .. n - 1 : IsPowerOfTwo(p) /\ n <= 2 * p => p = k
              /\ \A m \in k + 1 .. n : Split(m) = k
<1> DEFINE k == largest_power_of_2_less_than(n)
           b == BitLength(n - 1)
<1>1. b \in 0 .. SizeBits /\ n - 1 < 2 ^ b /\ (b = 0 \/ 2 ^ (b - 1) <= n - 1)
  <2>1. 2 ^ SizeBits \in Nat
    BY PowersGrow, PowersOfTwo
  <2>2. n - 1 \in Nat /\ n - 1 < 2 ^ SizeBits
    BY <2>1
  <2> QED
    BY <2>2, BitLengthFacts
<1>2. k = 2 ^ (b - 1)
  <2>1. ~(n <= 1)
    OBVIOUS
  <2> QED
    BY <2>1, Zenon DEF largest_power_of_2_less_than
<1> HIDE DEF b, k
<1>3. b # 0 /\ b - 1 \in 0 .. SizeBits - 1 /\ b \in Nat
  <2>1. SizeBits \in Nat /\ 2 ^ 0 = 1
    BY PowersOfTwo
  <2>2. b # 0
    <3> SUFFICES ASSUME b = 0 PROVE FALSE
      OBVIOUS
    <3>1. 2 ^ b = 1
      BY <2>1, Zenon
    <3> QED
      BY <1>1, <3>1
  <2> QED
    BY <1>1, <2>1, <2>2
<1>4. k \in Nat \ {0} /\ 2 ^ b = 2 * k /\ k <= n - 1
  <2>1. (b - 1) + 1 = b
    BY <1>3
  <2>2. 2 ^ (b - 1) \in Nat \ {0} /\ 2 ^ ((b - 1) + 1) = 2 * 2 ^ (b - 1)
    BY <1>3, PowersOfTwo
  <2> QED
    BY <1>1, <1>2, <1>3, <2>1, <2>2
<1>5. k \in 1 .. n - 1 /\ IsPowerOfTwo(k) /\ n <= 2 * k
  <2>1. IsPowerOfTwo(k)
    BY <1>2, <1>3 DEF IsPowerOfTwo
  <2> QED
    BY <1>1, <1>4, <2>1
<1>6. ASSUME NEW p \in Nat, NEW q \in Nat, NEW x \in Nat, IsPowerOfTwo(p), IsPowerOfTwo(q),
             p < x, x <= 2 * p, q < x, x <= 2 * q
      PROVE  p = q
  <2>1. PICK i \in 0 .. SizeBits - 1 : 2 ^ i = p
    BY <1>6 DEF IsPowerOfTwo
  <2>2. PICK j \in 0 .. SizeBits - 1 : 2 ^ j = q
    BY <1>6 DEF IsPowerOfTwo
  <2>3. i \in 0 .. SizeBits /\ j \in 0 .. SizeBits
    BY PowersOfTwo
  <2>4. ~(i < j)
    BY <1>6, <2>1, <2>2, <2>3, PowersGrow
  <2>5. ~(j < i)
    BY <1>6, <2>1, <2>2, <2>3, PowersGrow
  <2>6. i = j
    BY <2>3, <2>4, <2>5
  <2> QED
    BY <2>1, <2>2, <2>6
<1>7. \A p \in 1 .. n - 1 : IsPowerOfTwo(p) /\ n <= 2 * p => p = k
  BY <1>5, <1>6
<1>8. ASSUME NEW m \in k + 1 .. n PROVE Split(m) = k
  <2>1. m \in Nat /\ k \in 1 .. m - 1 /\ m <= 2 * k
    BY <1>4, <1>5
  <2>2. \A p \in 1 .. m - 1 : IsPowerOfTwo(p) /\ m <= 2 * p => p = k
    BY <1>4, <1>5, <1>6, <2>1
  <2> QED
    BY <1>5, <2>1, <2>2 DEF Split
<1>9. n \in k + 1 .. n
  BY <1>4
<1> QED
  BY <1>5, <1>7, <1>8, <1>9 DEF k

\* The hash of a tree is that of the halves.
LEMMA TreeHashSteps ==
    ASSUME NEW leaves, Len(leaves) \in Nat, Len(leaves) <= 2 ^ SizeBits
    PROVE  \A n \in 0 .. Len(leaves) : \A first \in 0 .. Len(leaves) - n :
             TreeHash(leaves)[n][first] =
                IF n = 0 THEN EmptyRootHash
                ELSE IF n = 1 THEN HashLeaf(leaves[first + 1])
                ELSE <<TreeHash(leaves)[Split(n)][first],
                       TreeHash(leaves)[n - Split(n)][first + Split(n)]>>
<1> DEFINE L == Len(leaves)
           Body(n, x, y) == [first \in 0 .. L - n |->
                               IF n = 0 THEN EmptyRootHash
                               ELSE IF n = 1 THEN HashLeaf(leaves[first + 1])
                               ELSE <<x[first], y[first + Split(n)]>>]
           Loop(g, m) == g = [n \in 0 .. m |-> Body(n, g[Split(n)], g[n - Split(n)])]
           S == {m \in Nat : \E g : Loop(g, m)}
<1>1. \A n \in 2 .. L : Split(n) \in 1 .. n - 1
  <2> TAKE n \in 2 .. L
  <2>1. n \in Nat /\ n >= 2 /\ n <= 2 ^ SizeBits
    <3>1. 2 ^ SizeBits \in Nat
      BY PowersGrow, PowersOfTwo
    <3> QED
      BY <3>1
  <2> QED
    BY <2>1, SplitFacts
<1>2. \A n \in {0, 1} : \A x, y, v, w : Body(n, x, y) = Body(n, v, w)
  OBVIOUS
<1>3. L \in Nat
  OBVIOUS
<1> HIDE DEF Body, L
<1>4. ASSUME NEW m \in 0 .. L, \A i \in 0 .. m - 1 : i \in S PROVE m \in S
  <2>1. PICK g : m = 0 \/ Loop(g, m - 1)
    <3>1. CASE m = 0
      BY <3>1
    <3>2. CASE m # 0
      <4>1. m - 1 \in 0 .. m - 1
        BY <1>3, <3>2
      <4> QED
        BY <1>4, <4>1
    <3> QED
      BY <3>1, <3>2
  <2> DEFINE h == [n \in 0 .. m |-> IF n = m THEN Body(n, g[Split(n)], g[n - Split(n)]) ELSE g[n]]
  <2>2. \A n \in 0 .. m : h[n] = Body(n, h[Split(n)], h[n - Split(n)])
    <3> TAKE n \in 0 .. m
    <3>1. h[n] = Body(n, g[Split(n)], g[n - Split(n)])
      <4>1. CASE n = m
        BY <4>1
      <4>2. CASE n # m
        <5>1. n \in 0 .. m - 1 /\ m # 0
          BY <1>3, <4>2
        <5> HIDE DEF h
        <5>2. g[n] = Body(n, g[Split(n)], g[n - Split(n)])
          BY <2>1, <5>1
        <5> QED
          BY <4>2, <5>2 DEF h
      <4> QED
        BY <4>1, <4>2
    <3>2. CASE n \in {0, 1}
      <4> HIDE DEF h
      <4>1. Body(n, g[Split(n)], g[n - Split(n)]) = Body(n, h[Split(n)], h[n - Split(n)])
        BY <1>2, <3>2
      <4> QED
        BY <3>1, <4>1
    <3>3. CASE n \in 2 .. L
      <4>1. Split(n) \in 0 .. m /\ Split(n) # m /\ n - Split(n) \in 0 .. m /\ n - Split(n) # m
        BY <1>1, <1>3, <3>3
      <4>2. h[Split(n)] = g[Split(n)] /\ h[n - Split(n)] = g[n - Split(n)]
        BY <4>1
      <4> HIDE DEF h
      <4> QED
        BY <3>1, <4>2, Zenon
    <3> HIDE DEF h
    <3> QED
      BY <1>3, <3>2, <3>3
  <2>3. h = [n \in 0 .. m |-> h[n]]
    OBVIOUS
  <2> HIDE DEF h
  <2>4. Loop(h, m)
    BY <2>2, <2>3, Zenon
  <2>5. m \in Nat
    BY <1>3
  <2> QED
    BY <2>4, <2>5
<1>5. \E g : Loop(g, L)
  <2> HIDE DEF S
  <2>1. 0 .. L \subseteq S
    BY <1>3, <1>4, Induction
  <2>2. L \in S
    BY <1>3, <2>1
  <2> QED
    BY <2>2 DEF S
<1>6. Loop(TreeHash(leaves), L)
  BY <1>5, Zenon DEF TreeHash, Body, L
<1> SUFFICES ASSUME NEW n \in 0 .. L, NEW first \in 0 .. L - n
             PROVE  TreeHash(leaves)[n][first] =
                        IF n = 0 THEN EmptyRootHash
                        ELSE IF n = 1 THEN HashLeaf(leaves[first + 1])
                        ELSE <<TreeHash(leaves)[Split(n)][first],
                               TreeHash(leaves)[n - Split(n)][first + Split(n)]>>
  BY DEF L
<1> DEFINE g == TreeHash(leaves)
<1> HIDE DEF g
<1>7. g[n] = Body(n, g[Split(n)], g[n - Split(n)])
  BY <1>6 DEF g
<1> QED
  BY <1>7 DEF Body, g

\* No hash of a tree is an error.
LEMMA TreeHashNotFailed ==
    ASSUME NEW leaves, Len(leaves) \in Nat, Len(leaves) <= 2 ^ SizeBits,
           NEW n \in 0 .. Len(leaves), NEW first \in 0 .. Len(leaves) - n
    PROVE  TreeHash(leaves)[n][first] # Failed
<1>1. \A x : <<x>> # Failed
  BY DEF Failed
<1>2. \A x, y : <<x, y>> # Failed
  BY DEF Failed
<1>3. EmptyRootHash # Failed
  BY DEF Failed, EmptyRootHash
<1> DEFINE h == TreeHash(leaves)
<1>4. h[n][first] = IF n = 0 THEN EmptyRootHash
                    ELSE IF n = 1 THEN HashLeaf(leaves[first + 1])
                    ELSE <<h[Split(n)][first], h[n - Split(n)][first + Split(n)]>>
  BY TreeHashSteps
<1> HIDE DEF h
<1>5. h[n][first] # Failed
  BY <1>1, <1>2, <1>3, <1>4 DEF HashLeaf
<1> QED
  BY <1>5 DEF h

\* The tree of a prefix is part of the tree.
LEMMA TreeHashOfPrefix ==
    ASSUME NEW R, NEW leaves \in Seq(R), Len(leaves) <= 2 ^ SizeBits, NEW m \in 0 .. Len(leaves)
    PROVE  MTH(SubSeq(leaves, 1, m)) = TreeHash(leaves)[m][0]
<1> DEFINE L == Len(leaves)
           p == SubSeq(leaves, 1, m)
           Agree(n) == \A first \in 0 .. m - n : TreeHash(p)[n][first] = TreeHash(leaves)[n][first]
           S == {n \in Nat : Agree(n)}
<1>1. L \in Nat /\ 2 ^ SizeBits \in Nat /\ m \in Nat /\ m <= L
  BY PowersGrow, PowersOfTwo
<1>2. Len(p) = m /\ \A j \in 1 .. m : p[j] = leaves[j]
  OBVIOUS
<1> HIDE DEF p
<1>3. m <= 2 ^ SizeBits
  BY <1>1
<1>4. ASSUME NEW n \in 0 .. m, \A i \in 0 .. n - 1 : i \in S PROVE n \in S
  <2> SUFFICES ASSUME NEW first \in 0 .. m - n
               PROVE  TreeHash(p)[n][first] = TreeHash(leaves)[n][first]
    BY <1>1
  <2>1. n \in 0 .. L /\ first \in 0 .. L - n
    BY <1>1
  <2>2. TreeHash(leaves)[n][first] =
            IF n = 0 THEN EmptyRootHash
            ELSE IF n = 1 THEN HashLeaf(leaves[first + 1])
            ELSE <<TreeHash(leaves)[Split(n)][first], TreeHash(leaves)[n - Split(n)][first + Split(n)]>>
    BY <1>1, <2>1, TreeHashSteps
  <2>3. TreeHash(p)[n][first] =
            IF n = 0 THEN EmptyRootHash
            ELSE IF n = 1 THEN HashLeaf(p[first + 1])
            ELSE <<TreeHash(p)[Split(n)][first], TreeHash(p)[n - Split(n)][first + Split(n)]>>
    BY <1>1, <1>2, <1>3, TreeHashSteps
  <2>4. CASE n = 0
    BY <2>2, <2>3, <2>4
  <2>5. CASE n = 1
    <3>1. first + 1 \in 1 .. m
      BY <1>1, <2>5
    <3> QED
      BY <1>2, <2>2, <2>3, <2>5, <3>1
  <2>6. CASE n >= 2
    <3>1. n <= 2 ^ SizeBits /\ n \in Nat
      BY <1>1, <1>3
    <3>2. Split(n) \in 1 .. n - 1
      BY <2>6, <3>1, SplitFacts
    <3>3. /\ Split(n) \in 0 .. n - 1 /\ n - Split(n) \in 0 .. n - 1
          /\ first \in 0 .. m - Split(n)
          /\ first + Split(n) \in 0 .. m - (n - Split(n))
      BY <1>1, <3>1, <3>2
    <3>4. Agree(Split(n)) /\ Agree(n - Split(n))
      <4> HIDE DEF Agree
      <4> QED
        BY <1>4, <3>3
    <3>5. /\ TreeHash(p)[Split(n)][first] = TreeHash(leaves)[Split(n)][first]
          /\ TreeHash(p)[n - Split(n)][first + Split(n)] = TreeHash(leaves)[n - Split(n)][first + Split(n)]
      BY <3>3, <3>4
    <3> QED
      BY <2>2, <2>3, <2>6, <3>1, <3>5
  <2> QED
    BY <1>1, <2>4, <2>5, <2>6
<1>5. m \in S
  <2> HIDE DEF S
  <2>1. 0 .. m \subseteq S
    BY <1>1, <1>4, Induction
  <2> QED
    BY <1>1, <2>1
<1>6. Agree(m) /\ 0 \in 0 .. m - m
  BY <1>1, <1>5
<1> QED
  BY <1>2, <1>6 DEF MTH, p

\* What verify_subproof returns for a tree, from what it returns for its halves.
SubproofStep(proof, v, n, complete, m) ==
    LET k == largest_power_of_2_less_than(n)
    IN v[n][complete][m] =
         IF m = n
         THEN IF complete \/ proof = <<>> THEN Short(proof)
              ELSE [old |-> proof[1], new |-> proof[1], idx |-> 1]
         ELSE IF m <= k THEN Joined(proof, TRUE, v[k][complete][m])
         ELSE Joined(proof, FALSE, v[n - k][FALSE][m - k])

\* The function in Subproofs exists, so that it does what its definition says.
LEMMA SubproofSteps ==
    ASSUME NEW proof, NEW size \in Nat, size <= 2 ^ SizeBits
    PROVE  \A n \in 1 .. size : \A complete \in BOOLEAN, m \in 1 .. n :
             SubproofStep(proof, Subproofs(proof, size), n, complete, m)
<1> DEFINE k(b) == largest_power_of_2_less_than(b)
           End(c) == IF c \/ proof = <<>> THEN Short(proof)
                     ELSE [old |-> proof[1], new |-> proof[1], idx |-> 1]
           Body(b, x, y) == [c \in BOOLEAN |-> [a \in 1 .. b |->
                               IF a = b THEN End(c)
                               ELSE IF a <= k(b) THEN Joined(proof, TRUE, x[c][a])
                               ELSE Joined(proof, FALSE, y[FALSE][a - k(b)])]]
           Loop(g, s) == g = [b \in 1 .. s |-> Body(b, g[k(b)], g[b - k(b)])]
           S == {s \in Nat : \E g : Loop(g, s)}
<1>1. \A b \in 2 .. size : k(b) \in 1 .. b - 1
  <2> TAKE b \in 2 .. size
  <2>1. b \in Nat /\ b >= 2 /\ b <= 2 ^ SizeBits
    <3>1. 2 ^ SizeBits \in Nat
      BY PowersGrow, PowersOfTwo
    <3> QED
      BY <3>1
  <2> QED
    BY <2>1, SplitFacts
<1>2. \A x, y, v, w : Body(1, x, y) = Body(1, v, w)
  <2> HIDE DEF End, k
  <2>1. \A a \in 1 .. 1 : a = 1
    OBVIOUS
  <2> QED
    BY <2>1
<1> HIDE DEF Body, k
<1>3. ASSUME NEW s \in 0 .. size, \A i \in 0 .. s - 1 : i \in S PROVE s \in S
  <2>1. PICK g : s = 0 \/ Loop(g, s - 1)
    <3>1. CASE s = 0
      BY <3>1
    <3>2. CASE s # 0
      <4>1. s - 1 \in 0 .. s - 1
        BY <3>2
      <4> QED
        BY <1>3, <4>1
    <3> QED
      BY <3>1, <3>2
  <2> DEFINE h == [b \in 1 .. s |-> IF b = s THEN Body(b, g[k(b)], g[b - k(b)]) ELSE g[b]]
  <2>2. \A b \in 1 .. s : h[b] = Body(b, h[k(b)], h[b - k(b)])
    <3> TAKE b \in 1 .. s
    <3>1. h[b] = Body(b, g[k(b)], g[b - k(b)])
      <4>1. CASE b = s
        BY <4>1
      <4>2. CASE b # s
        <5>1. b \in 1 .. s - 1 /\ s # 0
          BY <4>2
        <5> HIDE DEF h
        <5>2. g[b] = Body(b, g[k(b)], g[b - k(b)])
          BY <2>1, <5>1
        <5> QED
          BY <4>2, <5>2 DEF h
      <4> QED
        BY <4>1, <4>2
    <3>2. CASE b = 1
      <4> HIDE DEF h
      <4>1. Body(b, g[k(b)], g[b - k(b)]) = Body(b, h[k(b)], h[b - k(b)])
        BY <1>2, <3>2
      <4> QED
        BY <3>1, <4>1
    <3>3. CASE b \in 2 .. size
      <4>1. k(b) \in 1 .. s /\ k(b) # s /\ b - k(b) \in 1 .. s /\ b - k(b) # s
        BY <1>1, <3>3
      <4>2. h[k(b)] = g[k(b)] /\ h[b - k(b)] = g[b - k(b)]
        BY <4>1
      <4> HIDE DEF h
      <4> QED
        BY <3>1, <4>2, Zenon
    <3> HIDE DEF h
    <3> QED
      BY <3>2, <3>3
  <2>3. h = [b \in 1 .. s |-> h[b]]
    OBVIOUS
  <2> HIDE DEF h
  <2>4. Loop(h, s)
    BY <2>2, <2>3, Zenon
  <2> QED
    BY <2>4
<1>4. \E g : Loop(g, size)
  <2> HIDE DEF S
  <2>1. 0 .. size \subseteq S
    BY <1>3, Induction
  <2>2. size \in S
    BY <2>1
  <2> QED
    BY <2>2 DEF S
<1>5. Loop(Subproofs(proof, size), size)
  BY <1>4, Zenon DEF Subproofs, Body, k
<1> DEFINE v == Subproofs(proof, size)
<1> HIDE DEF v, End
<1> TAKE n \in 1 .. size
<1> TAKE complete \in BOOLEAN, m \in 1 .. n
<1>6. v[n] = Body(n, v[k(n)], v[n - k(n)])
  BY <1>5 DEF v
<1>7. v[n][complete][m] = IF m = n THEN End(complete)
                          ELSE IF m <= k(n) THEN Joined(proof, TRUE, v[k(n)][complete][m])
                          ELSE Joined(proof, FALSE, v[n - k(n)][FALSE][m - k(n)])
  BY <1>6 DEF Body
<1> QED
  BY <1>7, Zenon DEF v, k, End, SubproofStep

\* A pair that was hashed without an error.
LEMMA HashedPair ==
    ASSUME NEW l, NEW r, NEW h, h # Failed, hash_children(l, r) = h
    PROVE  h = <<l, r>> /\ l # Failed /\ r # Failed
BY DEF hash_children

\* Where the hashes of a call came from: its half of the tree was the left one,
LEMMA JoinedLeft ==
    ASSUME NEW proof, NEW sub, Joined(proof, TRUE, sub).new # Failed
    PROVE  \E x : /\ Joined(proof, TRUE, sub).new = <<sub.new, x>>
                  /\ Joined(proof, TRUE, sub).old = sub.old
<1> DEFINE x == proof[sub.idx + 1]
           v == Joined(proof, TRUE, sub)
<1>1. v = IF sub.idx >= Len(proof) THEN Short(proof)
          ELSE [old |-> sub.old, new |-> hash_children(sub.new, x), idx |-> sub.idx + 1]
  BY Zenon DEF Joined
<1>2. v.new # Failed
  OBVIOUS
<1> HIDE DEF x, v
<1>3. v # Short(proof)
  BY <1>2 DEF Short
<1>4. v = [old |-> sub.old, new |-> hash_children(sub.new, x), idx |-> sub.idx + 1]
  BY <1>1, <1>3, Zenon
<1>5. v.old = sub.old /\ v.new = hash_children(sub.new, x)
  BY <1>4
<1>6. v.new = <<sub.new, x>>
  BY <1>2, <1>5, HashedPair
<1> QED
  BY <1>5, <1>6, Zenon DEF v

\* or the right one.
LEMMA JoinedRight ==
    ASSUME NEW proof, NEW sub, Joined(proof, FALSE, sub).new # Failed
    PROVE  \E x : /\ Joined(proof, FALSE, sub).new = <<x, sub.new>>
                  /\ Joined(proof, FALSE, sub).old = hash_children(x, sub.old)
<1> DEFINE x == proof[sub.idx + 1]
           v == Joined(proof, FALSE, sub)
<1>1. v = IF sub.idx >= Len(proof) THEN Short(proof)
          ELSE [old |-> hash_children(x, sub.old), new |-> hash_children(x, sub.new),
                idx |-> sub.idx + 1]
  BY Zenon DEF Joined
<1>2. v.new # Failed
  OBVIOUS
<1> HIDE DEF x, v
<1>3. v # Short(proof)
  BY <1>2 DEF Short
<1>4. v = [old |-> hash_children(x, sub.old), new |-> hash_children(x, sub.new),
           idx |-> sub.idx + 1]
  BY <1>1, <1>3, Zenon
<1>5. v.old = hash_children(x, sub.old) /\ v.new = hash_children(x, sub.new)
  BY <1>4
<1>6. v.new = <<x, sub.new>>
  BY <1>2, <1>5, HashedPair
<1> QED
  BY <1>5, <1>6, Zenon DEF v

\* verify_subproof is sound: if the new hash it computes is that of a tree, the old
\* one is that of the tree of its first m leaves, whatever the proof elements are.
SubproofIsSound(leaves, proof) ==
    \A n \in 1 .. Len(leaves) :
      \A complete \in BOOLEAN, m \in 1 .. n, first \in 0 .. Len(leaves) - n :
        LET v == Subproofs(proof, Len(leaves))[n][complete][m]
        IN v.new = TreeHash(leaves)[n][first] => v.old = TreeHash(leaves)[m][first]

\* By induction over the size of the tree.
LEMMA SubproofSound ==
    ASSUME NEW leaves, Len(leaves) \in Nat, Len(leaves) <= 2 ^ SizeBits, NEW proof
    PROVE  SubproofIsSound(leaves, proof)
<1> DEFINE L == Len(leaves)
           v == Subproofs(proof, L)
           h == TreeHash(leaves)
           Sound(b, c, a, f) == v[b][c][a].new = h[b][f] => v[b][c][a].old = h[a][f]
           S == {b \in Nat : \A c \in BOOLEAN, a \in 1 .. b, f \in 0 .. L - b :
                                b \in 1 .. L => Sound(b, c, a, f)}
<1>1. L \in Nat /\ 2 ^ SizeBits \in Nat /\ L <= 2 ^ SizeBits
  BY PowersGrow, PowersOfTwo
<1>2. \A b \in 1 .. L : \A c \in BOOLEAN, a \in 1 .. b : SubproofStep(proof, v, b, c, a)
  BY <1>1, SubproofSteps
<1>3. ASSUME NEW b \in 0 .. L, \A i \in 0 .. b - 1 : i \in S PROVE b \in S
  <2> SUFFICES ASSUME NEW c \in BOOLEAN, NEW a \in 1 .. b, NEW f \in 0 .. L - b, b \in 1 .. L,
                      v[b][c][a].new = h[b][f]
               PROVE  v[b][c][a].old = h[a][f]
    BY <1>1
  <2> DEFINE k == largest_power_of_2_less_than(b)
  <2>1. v[b][c][a] = IF a = b
                     THEN IF c \/ proof = <<>> THEN Short(proof)
                          ELSE [old |-> proof[1], new |-> proof[1], idx |-> 1]
                     ELSE IF a <= k THEN Joined(proof, TRUE, v[k][c][a])
                     ELSE Joined(proof, FALSE, v[b - k][FALSE][a - k])
    BY <1>2, Zenon DEF SubproofStep
  <2>2. h[b][f] # Failed
    BY <1>1, TreeHashNotFailed
  <2>3. CASE a = b
    <3> HIDE DEF v, h, k
    <3>1. v[b][c][a] # Short(proof)
      BY <2>2 DEF Short
    <3>2. v[b][c][a] = [old |-> proof[1], new |-> proof[1], idx |-> 1]
      BY <2>1, <2>3, <3>1, Zenon
    <3> QED
      BY <2>3, <3>2
  <2>4. CASE a # b
    <3>1. /\ b \in Nat /\ b >= 2 /\ b <= 2 ^ SizeBits
      BY <1>1, <2>4
    <3>2. k \in 1 .. b - 1 /\ Split(b) = k /\ \A x \in k + 1 .. b : Split(x) = k
      BY <3>1, SplitFacts
    <3>3. h[b][f] = <<h[k][f], h[b - k][f + k]>>
      <4>1. h[b][f] = IF b = 0 THEN EmptyRootHash
                      ELSE IF b = 1 THEN HashLeaf(leaves[f + 1])
                      ELSE <<h[Split(b)][f], h[b - Split(b)][f + Split(b)]>>
        BY <1>1, TreeHashSteps
      <4> HIDE DEF h, k
      <4> QED
        BY <3>1, <3>2, <4>1
    <3>4. CASE a <= k
      <4> DEFINE sub == v[k][c][a]
      <4>1. v[b][c][a] = Joined(proof, TRUE, sub)
        BY <2>1, <2>4, <3>4, Zenon
      <4>2. PICK x : v[b][c][a].new = <<sub.new, x>> /\ v[b][c][a].old = sub.old
        <5> HIDE DEF sub, v, h
        <5>1. Joined(proof, TRUE, sub).new # Failed
          BY <2>2, <4>1
        <5>2. \E x : /\ Joined(proof, TRUE, sub).new = <<sub.new, x>>
                     /\ Joined(proof, TRUE, sub).old = sub.old
          BY <5>1, JoinedLeft
        <5> QED
          BY <4>1, <5>2, Zenon
      <4>3. sub.new = h[k][f]
        <5> HIDE DEF sub, v, h, k
        <5> QED
          BY <3>3, <4>2
      <4>4. k \in 0 .. b - 1 /\ k \in 1 .. L /\ a \in 1 .. k /\ f \in 0 .. L - k
        BY <1>1, <3>1, <3>2, <3>4
      <4>5. Sound(k, c, a, f)
        <5> HIDE DEF Sound, k
        <5> QED
          BY <1>3, <4>4
      <4> HIDE DEF v, h, k
      <4> QED
        BY <4>2, <4>3, <4>5
    <3>5. CASE ~(a <= k)
      <4> DEFINE sub == v[b - k][FALSE][a - k]
      <4>1. v[b][c][a] = Joined(proof, FALSE, sub)
        BY <2>1, <2>4, <3>5, Zenon
      <4>2. PICK x : v[b][c][a].new = <<x, sub.new>> /\ v[b][c][a].old = hash_children(x, sub.old)
        <5> HIDE DEF sub, v, h
        <5>1. Joined(proof, FALSE, sub).new # Failed
          BY <2>2, <4>1
        <5>2. \E x : /\ Joined(proof, FALSE, sub).new = <<x, sub.new>>
                     /\ Joined(proof, FALSE, sub).old = hash_children(x, sub.old)
          BY <5>1, JoinedRight
        <5> QED
          BY <4>1, <5>2, Zenon
      <4>3. x = h[k][f] /\ sub.new = h[b - k][f + k]
        <5> HIDE DEF sub, v, h, k
        <5> QED
          BY <3>3, <4>2
      <4>4. /\ b - k \in 0 .. b - 1 /\ b - k \in 1 .. L /\ a - k \in 1 .. b - k
            /\ f + k \in 0 .. L - (b - k)
            /\ k \in 0 .. L /\ f \in 0 .. L - k
            /\ a - k \in 0 .. L /\ f + k \in 0 .. L - (a - k)
            /\ a \in 0 .. L /\ f \in 0 .. L - a /\ a \in k + 1 .. b /\ a # 0 /\ a # 1
        <5>1. k \in 1 .. b - 1
          BY <3>2, Zenon
        <5> HIDE DEF k, v, h
        <5>2. /\ k \in Nat /\ k >= 1 /\ k <= b - 1 /\ a \in Nat /\ a <= b /\ k < a
              /\ b \in Nat /\ b <= L /\ f \in Nat /\ f <= L - b
          BY <1>1, <3>5, <5>1
        <5> HIDE DEF L
        <5>3. /\ b - k \in 0 .. b - 1 /\ b - k \in 1 .. L /\ a - k \in 1 .. b - k
              /\ f + k \in 0 .. L - (b - k)
          BY <1>1, <5>2
        <5>4. k \in 0 .. L /\ f \in 0 .. L - k /\ a - k \in 0 .. L /\ f + k \in 0 .. L - (a - k)
          BY <1>1, <5>2
        <5>5. a \in 0 .. L /\ f \in 0 .. L - a /\ a \in k + 1 .. b /\ a # 0 /\ a # 1
          BY <1>1, <5>2
        <5> QED
          BY <5>3, <5>4, <5>5, Zenon
      <4>5. Sound(b - k, FALSE, a - k, f + k)
        <5> HIDE DEF Sound, k
        <5> QED
          BY <1>3, <4>4
      <4>6. sub.old = h[a - k][f + k]
        <5> HIDE DEF v, h, k
        <5> QED
          BY <4>3, <4>5
      <4>7. h[k][f] # Failed /\ h[a - k][f + k] # Failed
        BY <1>1, <4>4, TreeHashNotFailed
      <4>8. h[a][f] = <<h[k][f], h[a - k][f + k]>>
        <5>1. h[a][f] = IF a = 0 THEN EmptyRootHash
                        ELSE IF a = 1 THEN HashLeaf(leaves[f + 1])
                        ELSE <<h[Split(a)][f], h[a - Split(a)][f + Split(a)]>>
          BY <1>1, <4>4, TreeHashSteps
        <5>2. Split(a) = k
          BY <3>2, <4>4
        <5> HIDE DEF h, k
        <5> QED
          BY <4>4, <5>1, <5>2
      <4> HIDE DEF v, h, k, sub
      <4> QED
        BY <4>2, <4>3, <4>6, <4>7, <4>8 DEF hash_children
    <3> QED
      BY <3>4, <3>5
  <2> QED
    BY <2>3, <2>4
<1>4. 0 .. L \subseteq S
  <2> HIDE DEF S
  <2> QED
    BY <1>1, <1>3, Induction
<1> SUFFICES ASSUME NEW n \in 1 .. L, NEW complete \in BOOLEAN, NEW m \in 1 .. n,
                    NEW first \in 0 .. L - n
             PROVE  Sound(n, complete, m, first)
  BY Zenon DEF SubproofIsSound
<1> HIDE DEF Sound, v, h
<1>5. n \in S
  <2>1. n \in 0 .. L
    BY <1>1
  <2> QED
    BY <1>4, <2>1
<1> QED
  BY <1>5

\* The hashes that verify_power_of_2 computes, one proof element at a time.
IsClimb(c, sr, proof) ==
    c[0] = sr /\ \A j \in 1 .. Len(proof) : c[j] = hash_children(c[j - 1], proof[j])

\* The function in Climb exists.
LEMMA ClimbSteps ==
    ASSUME NEW sr, NEW proof, Len(proof) \in Nat
    PROVE  IsClimb(Climb(sr, proof), sr, proof)
<1> DEFINE P == Len(proof)
           Body(j, x) == IF j = 0 THEN sr ELSE hash_children(x, proof[j])
           Loop(g, s) == g = [j \in 0 .. s |-> Body(j, g[j - 1])]
           S == {s \in Nat : \E g : Loop(g, s)}
<1>1. P \in Nat /\ \A x : Body(0, x) = sr
  OBVIOUS
<1> HIDE DEF Body, P
<1>2. ASSUME NEW s \in 0 .. P, \A i \in 0 .. s - 1 : i \in S PROVE s \in S
  <2>1. PICK g : s = 0 \/ Loop(g, s - 1)
    <3>1. CASE s = 0
      BY <3>1
    <3>2. CASE s # 0
      <4>1. s - 1 \in 0 .. s - 1
        BY <1>1, <3>2
      <4> QED
        BY <1>2, <4>1
    <3> QED
      BY <3>1, <3>2
  <2> DEFINE h == [j \in 0 .. s |-> IF j = s THEN Body(j, g[j - 1]) ELSE g[j]]
  <2>2. \A j \in 0 .. s : h[j] = Body(j, h[j - 1])
    <3> TAKE j \in 0 .. s
    <3>1. h[j] = Body(j, g[j - 1])
      <4>1. CASE j = s
        BY <4>1
      <4>2. CASE j # s
        <5>1. j \in 0 .. s - 1 /\ s # 0
          BY <1>1, <4>2
        <5> HIDE DEF h
        <5>2. g[j] = Body(j, g[j - 1])
          BY <2>1, <5>1
        <5> QED
          BY <4>2, <5>2 DEF h
      <4> QED
        BY <4>1, <4>2
    <3>2. CASE j = 0
      <4> HIDE DEF h
      <4> QED
        BY <1>1, <3>1, <3>2
    <3>3. CASE j # 0
      <4>1. j - 1 \in 0 .. s /\ j - 1 # s
        BY <1>1, <3>3
      <4>2. h[j - 1] = g[j - 1]
        BY <4>1
      <4> HIDE DEF h
      <4> QED
        BY <3>1, <4>2, Zenon
    <3> HIDE DEF h
    <3> QED
      BY <3>2, <3>3
  <2>3. h = [j \in 0 .. s |-> h[j]]
    OBVIOUS
  <2> HIDE DEF h
  <2>4. Loop(h, s)
    BY <2>2, <2>3, Zenon
  <2>5. s \in Nat
    BY <1>1
  <2> QED
    BY <2>4, <2>5
<1>3. \E g : Loop(g, P)
  <2> HIDE DEF S
  <2>1. 0 .. P \subseteq S
    BY <1>1, <1>2, Induction
  <2>2. P \in S
    BY <1>1, <2>1
  <2> QED
    BY <2>2 DEF S
<1>4. Loop(Climb(sr, proof), P)
  BY <1>3, Zenon DEF Climb, Body, P
<1> DEFINE c == Climb(sr, proof)
<1> HIDE DEF c
<1>5. \A j \in 0 .. P : c[j] = Body(j, c[j - 1])
  BY <1>4 DEF c
<1>6. c[0] = sr
  <2>1. 0 \in 0 .. P
    BY <1>1
  <2> QED
    BY <1>1, <1>5, <2>1
<1>7. ASSUME NEW j \in 1 .. P PROVE c[j] = hash_children(c[j - 1], proof[j])
  <2>1. j \in 0 .. P /\ j # 0
    BY <1>1
  <2>2. c[j] = Body(j, c[j - 1])
    BY <1>5, <2>1
  <2> QED
    BY <2>1, <2>2, Zenon DEF Body
<1> QED
  BY <1>6, <1>7, Zenon DEF IsClimb, c, P

\* A complete tree is split in the middle.
LEMMA PowerSplit ==
    ASSUME NEW l \in 1 .. SizeBits
    PROVE  Split(2 ^ l) = 2 ^ (l - 1)
<1> DEFINE n == 2 ^ l
           p == 2 ^ (l - 1)
<1>1. /\ SizeBits \in Nat /\ SizeBits \in 0 .. SizeBits /\ l \in 0 .. SizeBits
      /\ l - 1 \in 0 .. SizeBits - 1 /\ (l - 1) + 1 = l
  BY PowersOfTwo
<1>2. p \in Nat \ {0} /\ n = 2 * p
  <2>1. 2 ^ (l - 1) \in Nat \ {0} /\ 2 ^ ((l - 1) + 1) = 2 * 2 ^ (l - 1)
    BY <1>1, PowersOfTwo
  <2> QED
    BY <1>1, <2>1, Zenon
<1>3. IsPowerOfTwo(p)
  BY <1>1 DEF IsPowerOfTwo
<1>4. n <= 2 ^ SizeBits
  <2>1. CASE l = SizeBits
    BY <1>2, <2>1
  <2>2. CASE l # SizeBits
    <3>1. l < SizeBits
      BY <1>1, <2>2
    <3>2. 2 * 2 ^ l <= 2 ^ SizeBits /\ 2 ^ SizeBits \in Nat
      BY <1>1, <3>1, PowersGrow
    <3> HIDE DEF p
    <3> QED
      BY <1>2, <3>2
  <2> QED
    BY <2>1, <2>2
<1> HIDE DEF n, p
<1>5. n \in Nat /\ n >= 2 /\ p \in 1 .. n - 1 /\ n <= 2 * p
  BY <1>2
<1>6. Split(n) = p
  BY <1>3, <1>4, <1>5, SplitFacts
<1> QED
  BY <1>6 DEF n, p

\* verify_power_of_2 is sound: a proof of the right length leads to the hash of a
\* tree only from the hash of the tree of its first 2 ^ l leaves.
LEMMA ClimbSound ==
    ASSUME NEW leaves, Len(leaves) \in Nat, Len(leaves) <= 2 ^ SizeBits,
           NEW l \in 0 .. SizeBits - 1, 2 ^ l < Len(leaves),
           NEW proof, Len(proof) \in Nat, BitLength(Len(leaves) - 1) = l + Len(proof),
           NEW sr, Climbed(sr, proof) = TreeHash(leaves)[Len(leaves)][0]
    PROVE  sr = TreeHash(leaves)[2 ^ l][0]
<1> DEFINE n == Len(leaves)
           P == Len(proof)
           b == BitLength(n - 1)
           h == TreeHash(leaves)
           c == Climb(sr, proof)
           Size(j) == IF j = P THEN n ELSE 2 ^ (l + j)
           S == {i \in Nat : c[P - i] = h[Size(P - i)][0]}
<1>1. /\ SizeBits \in Nat /\ n \in Nat /\ n <= 2 ^ SizeBits /\ 2 ^ SizeBits \in Nat
      /\ l \in 0 .. SizeBits /\ 2 ^ l \in Nat \ {0} /\ 2 ^ l < n
  BY PowersGrow, PowersOfTwo
<1>2. b \in 0 .. SizeBits /\ n - 1 < 2 ^ b /\ (b = 0 \/ 2 ^ (b - 1) <= n - 1)
  <2>1. n - 1 \in Nat /\ n - 1 < 2 ^ SizeBits
    BY <1>1
  <2> QED
    BY <2>1, BitLengthFacts
<1>3. l < b
  <2> SUFFICES ASSUME b <= l PROVE FALSE
    BY <1>1, <1>2
  <2>1. 2 ^ b \in Nat
    BY <1>2, PowersGrow
  <2>2. CASE b = l
    <3> HIDE DEF b, n
    <3>1. n - 1 < 2 ^ l
      BY <1>2, <2>2, Zenon
    <3> QED
      BY <1>1, <3>1
  <2>3. CASE b < l
    <3>1. 2 * 2 ^ b <= 2 ^ l
      BY <1>1, <1>2, <2>3, PowersGrow
    <3> HIDE DEF b, n
    <3> QED
      BY <1>1, <1>2, <2>1, <3>1
  <2> QED
    BY <1>1, <1>2, <2>2, <2>3
<1>4. P \in Nat /\ b = l + P
  OBVIOUS
<1>5. c[0] = sr /\ \A j \in 1 .. P : c[j] = hash_children(c[j - 1], proof[j])
  <2>1. IsClimb(c, sr, proof)
    BY ClimbSteps
  <2> HIDE DEF c
  <2> QED
    BY <2>1, Zenon DEF IsClimb
<1>6. c[P] = h[n][0]
  BY DEF Climbed
<1>7. \A x \in 0 .. n : \A first \in 0 .. n - x :
        /\ h[x][first] # Failed
        /\ x >= 2 => h[x][first] = <<h[Split(x)][first], h[x - Split(x)][first + Split(x)]>>
  <2> TAKE x \in 0 .. n
  <2> TAKE first \in 0 .. n - x
  <2>1. h[x][first] # Failed
    BY TreeHashNotFailed
  <2>2. h[x][first] = IF x = 0 THEN EmptyRootHash
                      ELSE IF x = 1 THEN HashLeaf(leaves[first + 1])
                      ELSE <<h[Split(x)][first], h[x - Split(x)][first + Split(x)]>>
    BY TreeHashSteps
  <2> HIDE DEF h
  <2>3. x >= 2 => x # 0 /\ x # 1
    OBVIOUS
  <2> QED
    BY <2>1, <2>2, <2>3, Zenon
<1> HIDE DEF n, P, b, h, c
\* Every hash is that of the left half of the next one.
<1>8. ASSUME NEW j \in 1 .. P
      PROVE  Size(j) \in 2 .. n /\ Split(Size(j)) = Size(j - 1)
  <2>1. j - 1 # P /\ l + (j - 1) = (l + j) - 1 /\ l + j \in 1 .. SizeBits /\ l + j <= b
    BY <1>1, <1>2, <1>4
  <2>2. Size(j - 1) = 2 ^ ((l + j) - 1)
    BY <2>1
  <2>3. CASE j = P
    <3>1. Size(j) = n /\ n >= 2 /\ (l + j) - 1 = b - 1 /\ b # 0
      BY <1>1, <1>2, <1>3, <1>4, <2>3
    <3>2. Split(n) = largest_power_of_2_less_than(n)
      BY <1>1, <3>1, SplitFacts
    <3>3. largest_power_of_2_less_than(n) = 2 ^ (b - 1)
      <4>1. ~(n <= 1)
        BY <1>1, <3>1
      <4> QED
        BY <4>1, Zenon DEF largest_power_of_2_less_than, b
    <3>4. Split(Size(j)) = Size(j - 1)
      <4> HIDE DEF Size
      <4> QED
        BY <2>2, <3>1, <3>2, <3>3
    <3>5. n \in 2 .. n
      BY <1>1, <3>1
    <3> QED
      BY <3>1, <3>4, <3>5
  <2>4. CASE j # P
    <3>1. Size(j) = 2 ^ (l + j)
      BY <2>4
    <3>2. Split(2 ^ (l + j)) = 2 ^ ((l + j) - 1)
      BY <2>1, PowerSplit
    <3>3. /\ l + j \in 0 .. SizeBits /\ b - 1 \in 0 .. SizeBits /\ 0 \in 0 .. SizeBits
          /\ 0 < l + j /\ (l + j < b - 1 \/ l + j = b - 1) /\ b # 0
      BY <1>1, <1>2, <1>3, <1>4, <2>1, <2>4
    <3>4. 2 ^ (l + j) \in Nat /\ 2 ^ (b - 1) \in Nat
      BY <3>3, PowersGrow
    <3>5. 2 ^ (l + j) <= 2 ^ (b - 1)
      <4>1. CASE l + j = b - 1
        BY <3>4, <4>1
      <4>2. CASE l + j < b - 1
        <5>1. 2 * 2 ^ (l + j) <= 2 ^ (b - 1)
          BY <3>3, <4>2, PowersGrow
        <5> QED
          BY <3>4, <5>1
      <4> QED
        BY <3>3, <4>1, <4>2
    <3>6. 2 <= 2 ^ (l + j)
      <4>1. 2 * 2 ^ 0 <= 2 ^ (l + j)
        BY <3>3, PowersGrow
      <4>2. 2 ^ 0 = 1
        BY PowersOfTwo
      <4> QED
        BY <3>4, <4>1, <4>2
    <3>7. 2 ^ (l + j) \in 2 .. n
      <4>1. 2 ^ (b - 1) <= n - 1
        BY <1>2, <3>3
      <4> QED
        BY <1>1, <3>4, <3>5, <3>6, <4>1
    <3> HIDE DEF Size
    <3> QED
      BY <2>2, <3>1, <3>2, <3>7
  <2> QED
    BY <2>3, <2>4
<1> HIDE DEF Size
<1>9. ASSUME NEW i \in 0 .. P, \A x \in 0 .. i - 1 : x \in S PROVE i \in S
  <2>1. CASE i = 0
    <3>1. Size(P) = n /\ P - i = P
      BY <1>4, <2>1 DEF Size
    <3> QED
      BY <1>6, <2>1, <3>1
  <2>2. CASE i # 0
    <3> DEFINE j == P - (i - 1)
    <3>1. i - 1 \in 0 .. i - 1 /\ j \in 1 .. P /\ j - 1 = P - i /\ i \in Nat
      BY <1>4, <2>2
    <3>2. c[j] = h[Size(j)][0]
      BY <1>9, <3>1
    <3> HIDE DEF j
    <3>3. Size(j) \in 2 .. n /\ Split(Size(j)) = Size(j - 1)
      BY <1>8, <3>1
    <3>4. Size(j) \in 0 .. n /\ Size(j) >= 2 /\ 0 \in 0 .. n - Size(j)
      BY <1>1, <3>3
    <3>5. h[Size(j)][0] # Failed
      BY <1>7, <3>4
    <3>6. h[Size(j)][0] = <<h[Split(Size(j))][0], h[Size(j) - Split(Size(j))][0 + Split(Size(j))]>>
      BY <1>7, <3>4
    <3>7. c[j] = hash_children(c[j - 1], proof[j])
      BY <1>5, <3>1
    <3>8. h[Size(j)][0] = <<c[j - 1], proof[j]>>
      BY <3>2, <3>5, <3>7, HashedPair
    <3>9. c[j - 1] = h[Size(j - 1)][0]
      BY <3>3, <3>6, <3>8
    <3> QED
      BY <3>1, <3>9
  <2> QED
    BY <2>1, <2>2
<1>10. P \in S
  <2> HIDE DEF S
  <2>1. 0 .. P \subseteq S
    BY <1>4, <1>9, Induction
  <2> QED
    BY <1>4, <2>1
<1>11. P - P = 0 /\ Size(0) = 2 ^ l
  <2>1. 0 # P /\ l + 0 = l
    BY <1>1, <1>2, <1>3, <1>4
  <2> QED
    BY <1>4, <2>1 DEF Size
<1>12. c[0] = h[2 ^ l][0]
  BY <1>10, <1>11
<1> QED
  BY <1>5, <1>12 DEF h

\* The root that a path leads to, from that of the half with the leaf.
PathStep(leaf, path, h, n, i, len) ==
    LET k == largest_power_of_2_less_than(n)
    IN h[n][i][len] =
         IF n = 1 THEN IF len = 0 THEN leaf ELSE Failed
         ELSE IF len = 0 THEN Failed
         ELSE IF i < k THEN hash_children(h[k][i][len - 1], path[len])
         ELSE hash_children(path[len], h[n - k][i - k][len - 1])

\* The function in Paths exists.
LEMMA PathSteps ==
    ASSUME NEW leaf, NEW path, Len(path) \in Nat, NEW size \in Nat, size <= 2 ^ SizeBits
    PROVE  \A n \in 1 .. size : \A i \in 0 .. n - 1, len \in 0 .. Len(path) :
             PathStep(leaf, path, Paths(leaf, size, path), n, i, len)
<1> DEFINE k(b) == largest_power_of_2_less_than(b)
           P == Len(path)
           Body(b, x, y) == [i \in 0 .. b - 1 |-> [len \in 0 .. P |->
                               IF b = 1 THEN IF len = 0 THEN leaf ELSE Failed
                               ELSE IF len = 0 THEN Failed
                               ELSE IF i < k(b) THEN hash_children(x[i][len - 1], path[len])
                               ELSE hash_children(path[len], y[i - k(b)][len - 1])]]
           Loop(g, s) == g = [b \in 1 .. s |-> Body(b, g[k(b)], g[b - k(b)])]
           S == {s \in Nat : \E g : Loop(g, s)}
<1>1. \A b \in 2 .. size : k(b) \in 1 .. b - 1
  <2> TAKE b \in 2 .. size
  <2>1. b \in Nat /\ b >= 2 /\ b <= 2 ^ SizeBits
    <3>1. 2 ^ SizeBits \in Nat
      BY PowersGrow, PowersOfTwo
    <3> QED
      BY <3>1
  <2> QED
    BY <2>1, SplitFacts
<1>2. \A x, y, v, w : Body(1, x, y) = Body(1, v, w)
  <2> HIDE DEF k
  <2> QED
    OBVIOUS
<1> HIDE DEF Body, k
<1>3. ASSUME NEW s \in 0 .. size, \A i \in 0 .. s - 1 : i \in S PROVE s \in S
  <2>1. PICK g : s = 0 \/ Loop(g, s - 1)
    <3>1. CASE s = 0
      BY <3>1
    <3>2. CASE s # 0
      <4>1. s - 1 \in 0 .. s - 1
        BY <3>2
      <4> QED
        BY <1>3, <4>1
    <3> QED
      BY <3>1, <3>2
  <2> DEFINE h == [b \in 1 .. s |-> IF b = s THEN Body(b, g[k(b)], g[b - k(b)]) ELSE g[b]]
  <2>2. \A b \in 1 .. s : h[b] = Body(b, h[k(b)], h[b - k(b)])
    <3> TAKE b \in 1 .. s
    <3>1. h[b] = Body(b, g[k(b)], g[b - k(b)])
      <4>1. CASE b = s
        BY <4>1
      <4>2. CASE b # s
        <5>1. b \in 1 .. s - 1 /\ s # 0
          BY <4>2
        <5> HIDE DEF h
        <5>2. g[b] = Body(b, g[k(b)], g[b - k(b)])
          BY <2>1, <5>1
        <5> QED
          BY <4>2, <5>2 DEF h
      <4> QED
        BY <4>1, <4>2
    <3>2. CASE b = 1
      <4> HIDE DEF h
      <4>1. Body(b, g[k(b)], g[b - k(b)]) = Body(b, h[k(b)], h[b - k(b)])
        BY <1>2, <3>2
      <4> QED
        BY <3>1, <4>1
    <3>3. CASE b \in 2 .. size
      <4>1. k(b) \in 1 .. s /\ k(b) # s /\ b - k(b) \in 1 .. s /\ b - k(b) # s
        BY <1>1, <3>3
      <4>2. h[k(b)] = g[k(b)] /\ h[b - k(b)] = g[b - k(b)]
        BY <4>1
      <4> HIDE DEF h
      <4> QED
        BY <3>1, <4>2, Zenon
    <3> HIDE DEF h
    <3> QED
      BY <3>2, <3>3
  <2>3. h = [b \in 1 .. s |-> h[b]]
    OBVIOUS
  <2> HIDE DEF h
  <2>4. Loop(h, s)
    BY <2>2, <2>3, Zenon
  <2> QED
    BY <2>4
<1>4. \E g : Loop(g, size)
  <2> HIDE DEF S
  <2>1. 0 .. size \subseteq S
    BY <1>3, Induction
  <2>2. size \in S
    BY <2>1
  <2> QED
    BY <2>2 DEF S
<1>5. Loop(Paths(leaf, size, path), size)
  BY <1>4, Zenon DEF Paths, Body, k
<1> DEFINE v == Paths(leaf, size, path)
<1> HIDE DEF v, P
<1> SUFFICES ASSUME NEW n \in 1 .. size, NEW i \in 0 .. n - 1, NEW len \in 0 .. P
             PROVE  PathStep(leaf, path, v, n, i, len)
  BY Zenon DEF v, P
<1>6. v[n] = Body(n, v[k(n)], v[n - k(n)])
  BY <1>5 DEF v
<1>7. v[n][i][len] = IF n = 1 THEN IF len = 0 THEN leaf ELSE Failed
                     ELSE IF len = 0 THEN Failed
                     ELSE IF i < k(n) THEN hash_children(v[k(n)][i][len - 1], path[len])
                     ELSE hash_children(path[len], v[n - k(n)][i - k(n)][len - 1])
  BY <1>6 DEF Body
<1> QED
  BY <1>7, Zenon DEF PathStep, k

\* A path that leads to the root of a tree starts at its leaf.
PathIsSound(leaves, leaf, path) ==
    \A n \in 1 .. Len(leaves) :
        \A i \in 0 .. n - 1, len \in 0 .. Len(path), first \in 0 .. Len(leaves) - n :
            Paths(leaf, Len(leaves), path)[n][i][len] = TreeHash(leaves)[n][first]
                => leaf = HashLeaf(leaves[first + i + 1])

\* By induction over the size of the tree.
LEMMA PathSound ==
    ASSUME NEW leaves, Len(leaves) \in Nat, Len(leaves) <= 2 ^ SizeBits,
           NEW leaf, NEW path, Len(path) \in Nat
    PROVE  PathIsSound(leaves, leaf, path)
<1> DEFINE L == Len(leaves)
           P == Len(path)
           v == Paths(leaf, L, path)
           h == TreeHash(leaves)
           Sound(b, j, p, f) == v[b][j][p] = h[b][f] => leaf = HashLeaf(leaves[f + j + 1])
           S == {b \in Nat : \A j \in 0 .. b - 1, p \in 0 .. P, f \in 0 .. L - b :
                                b \in 1 .. L => Sound(b, j, p, f)}
<1>1. L \in Nat /\ 2 ^ SizeBits \in Nat /\ L <= 2 ^ SizeBits /\ P \in Nat
  BY PowersGrow, PowersOfTwo
<1>2. \A b \in 1 .. L : \A j \in 0 .. b - 1, p \in 0 .. P : PathStep(leaf, path, v, b, j, p)
  BY <1>1, PathSteps
<1>3. ASSUME NEW b \in 0 .. L, \A x \in 0 .. b - 1 : x \in S PROVE b \in S
  <2> SUFFICES ASSUME NEW j \in 0 .. b - 1, NEW p \in 0 .. P, NEW f \in 0 .. L - b, b \in 1 .. L,
                      v[b][j][p] = h[b][f]
               PROVE  leaf = HashLeaf(leaves[f + j + 1])
    BY <1>1
  <2> DEFINE k == largest_power_of_2_less_than(b)
  <2>1. v[b][j][p] = IF b = 1 THEN IF p = 0 THEN leaf ELSE Failed
                     ELSE IF p = 0 THEN Failed
                     ELSE IF j < k THEN hash_children(v[k][j][p - 1], path[p])
                     ELSE hash_children(path[p], v[b - k][j - k][p - 1])
    BY <1>2, Zenon DEF PathStep
  <2>2. h[b][f] # Failed
    BY <1>1, TreeHashNotFailed
  <2>3. h[b][f] = IF b = 0 THEN EmptyRootHash
                  ELSE IF b = 1 THEN HashLeaf(leaves[f + 1])
                  ELSE <<h[Split(b)][f], h[b - Split(b)][f + Split(b)]>>
    BY <1>1, TreeHashSteps
  <2>4. CASE b = 1
    <3>1. f + j + 1 = f + 1 /\ b # 0
      BY <1>1, <2>4
    <3> HIDE DEF v, h, k, P, L
    <3>2. h[b][f] = HashLeaf(leaves[f + 1])
      BY <2>3, <2>4, <3>1, Zenon
    <3>3. v[b][j][p] = leaf
      BY <2>1, <2>2, <2>4, Zenon
    <3> QED
      BY <3>1, <3>2, <3>3
  <2>5. CASE b # 1
    <3>1. b \in Nat /\ b >= 2 /\ b <= 2 ^ SizeBits /\ b # 0
      BY <1>1, <2>5
    <3>2. k \in 1 .. b - 1 /\ Split(b) = k
      BY <3>1, SplitFacts
    <3> HIDE DEF k, v, h
    <3>3. h[b][f] = <<h[k][f], h[b - k][f + k]>>
      BY <2>3, <2>5, <3>1, <3>2, Zenon
    <3>4. p # 0
      BY <2>1, <2>2, <2>5, Zenon
    <3>5. p - 1 \in 0 .. P
      BY <1>1, <3>4
    <3>6. CASE j < k
      <4>1. v[b][j][p] = hash_children(v[k][j][p - 1], path[p])
        BY <2>1, <2>5, <3>4, <3>6, Zenon
      <4>2. h[b][f] = <<v[k][j][p - 1], path[p]>>
        BY <2>2, <4>1, HashedPair
      <4>3. v[k][j][p - 1] = h[k][f]
        BY <3>3, <4>2
      <4>4. k \in 0 .. b - 1 /\ k \in 1 .. L /\ j \in 0 .. k - 1 /\ f \in 0 .. L - k
        BY <1>1, <3>1, <3>2, <3>6
      <4>5. Sound(k, j, p - 1, f)
        <5> HIDE DEF Sound, L, P
        <5> QED
          BY <1>3, <3>5, <4>4
      <4> QED
        BY <4>3, <4>5
    <3>7. CASE ~(j < k)
      <4>1. v[b][j][p] = hash_children(path[p], v[b - k][j - k][p - 1])
        BY <2>1, <2>5, <3>4, <3>7, Zenon
      <4>2. h[b][f] = <<path[p], v[b - k][j - k][p - 1]>>
        BY <2>2, <4>1, HashedPair
      <4>3. v[b - k][j - k][p - 1] = h[b - k][f + k]
        BY <3>3, <4>2
      <4>4. /\ b - k \in 0 .. b - 1 /\ b - k \in 1 .. L /\ j - k \in 0 .. (b - k) - 1
            /\ f + k \in 0 .. L - (b - k) /\ (f + k) + (j - k) + 1 = f + j + 1
        BY <1>1, <3>1, <3>2, <3>7
      <4>5. Sound(b - k, j - k, p - 1, f + k)
        <5> HIDE DEF Sound, L, P
        <5> QED
          BY <1>3, <3>5, <4>4
      <4> QED
        BY <4>3, <4>4, <4>5
    <3> QED
      BY <3>6, <3>7
  <2> QED
    BY <2>4, <2>5
<1>4. 0 .. L \subseteq S
  <2> HIDE DEF S
  <2> QED
    BY <1>1, <1>3, Induction
<1> SUFFICES ASSUME NEW n \in 1 .. L, NEW i \in 0 .. n - 1, NEW len \in 0 .. P,
                    NEW first \in 0 .. L - n
             PROVE  Sound(n, i, len, first)
  BY Zenon DEF PathIsSound
<1> HIDE DEF Sound, v, h
<1>5. n \in S
  <2>1. n \in 0 .. L
    BY <1>1
  <2> QED
    BY <1>4, <2>1
<1> QED
  BY <1>5

\* What the witness and the monitor rely on: a consistency proof that
\* verify_consistency accepts, however it was made, links the old root to the tree
\* head of the first leaves of the new tree, for trees of every size that a u64 can
\* give. Nothing is assumed of the elements of the proof.
THEOREM ConsistencyIsSound ==
    ASSUME NEW R, NEW leaves \in Seq(R), Len(leaves) <= 2 ^ SizeBits, NEW old_size \in Nat,
           NEW old_root, NEW T, NEW proof \in Seq(T),
           verify_consistency(old_size, Len(leaves), old_root, MTH(leaves), proof)
    PROVE  old_size <= Len(leaves) /\ old_root = MTH(SubSeq(leaves, 1, old_size))
<1> DEFINE n == Len(leaves)
           m == old_size
           h == TreeHash(leaves)
<1>1. n \in Nat /\ n <= 2 ^ SizeBits /\ Len(proof) \in Nat /\ m \in Nat
  OBVIOUS
<1>2. /\ m <= n
      /\ CASE m = n -> proof = <<>> /\ old_root = MTH(leaves)
           [] m = 0 /\ n # 0 -> proof = <<>> /\ old_root = EmptyRootHash
           [] OTHER -> /\ Len(proof) = proof_length(m, n)
                       /\ verify_consistency_inner(m, n, old_root, MTH(leaves), proof)
  BY Zenon DEF verify_consistency
<1>3. MTH(SubSeq(leaves, 1, m)) = h[m][0] /\ MTH(leaves) = h[n][0]
  <2>1. m \in 0 .. n
    BY <1>1, <1>2
  <2> QED
    BY <2>1, TreeHashOfPrefix DEF MTH
<1> SUFFICES old_root = h[m][0]
  BY <1>2, <1>3
<1> HIDE DEF n, h
<1>4. CASE m = n
  BY <1>2, <1>3, <1>4
<1>5. CASE m # n /\ m = 0
  <2>1. old_root = EmptyRootHash
    BY <1>2, <1>5
  <2>2. 0 \in 0 .. n /\ 0 \in 0 .. n - 0
    BY <1>1
  <2>3. h[0][0] = EmptyRootHash
    BY <1>1, <2>2, TreeHashSteps DEF h, n
  <2> QED
    BY <1>5, <2>1, <2>3
<1>6. CASE m # n /\ m # 0
  <2>1. Len(proof) = proof_length(m, n) /\ verify_consistency_inner(m, n, old_root, h[n][0], proof)
    BY <1>2, <1>3, <1>6
  <2>2. CASE IsPowerOfTwo(m)
    <3> DEFINE l == Log2(m)
    <3>1. l \in 0 .. SizeBits - 1 /\ 2 ^ l = m
      BY <2>2 DEF IsPowerOfTwo, Log2
    <3> HIDE DEF l
    <3>2. m < n
      BY <1>1, <1>2, <1>6
    <3>3. BitLength(n - 1) = l + Len(proof)
      <4>1. proof_length(m, n) = BitLength(n - 1) - l
        BY <1>6, <2>2, Zenon DEF proof_length, l
      <4>2. BitLength(n - 1) \in 0 .. SizeBits /\ SizeBits \in Nat
        <5>1. n - 1 \in Nat /\ n - 1 < 2 ^ SizeBits
          BY <1>1, <3>2, PowersGrow, PowersOfTwo
        <5> QED
          BY <5>1, BitLengthFacts, PowersOfTwo
      <4> QED
        BY <2>1, <3>1, <4>1, <4>2
    <3>4. Climbed(old_root, proof) = h[n][0]
      BY <2>1, <2>2, Zenon DEF verify_consistency_inner
    <3> QED
      BY <1>1, <2>1, <3>1, <3>2, <3>3, <3>4, ClimbSound DEF h, n
  <2>3. CASE ~IsPowerOfTwo(m)
    <3> DEFINE v == Subproofs(proof, n)[n][TRUE][m]
    <3>1. v.old = old_root /\ v.new = h[n][0]
      BY <2>1, <2>3, Zenon DEF verify_consistency_inner, verify_subproof, OldRootMatches
    <3>2. n \in 1 .. n /\ m \in 1 .. n /\ 0 \in 0 .. n - n /\ TRUE \in BOOLEAN
      BY <1>1, <1>2, <1>6
    <3>3. SubproofIsSound(leaves, proof)
      BY <1>1, SubproofSound DEF n
    <3>4. v.old = h[m][0]
      BY <3>1, <3>2, <3>3, Zenon DEF SubproofIsSound, h, n
    <3> QED
      BY <3>1, <3>4, Zenon
  <2> QED
    BY <2>2, <2>3
<1> QED
  BY <1>4, <1>5, <1>6

\* What a reader of an inclusion proof relies on: the path of a leaf at i leads to the
\* root of a tree only if the leaf is the one at i in that tree.
THEOREM InclusionIsSound ==
    ASSUME NEW R, NEW leaves \in Seq(R), Len(leaves) <= 2 ^ SizeBits,
           NEW i \in 0 .. Len(leaves) - 1, NEW leaf, NEW T, NEW path \in Seq(T),
           RootOfPath(leaf, i, Len(leaves), path) = MTH(leaves)
    PROVE  leaf = HashLeaf(leaves[i + 1])
<1>1. Len(leaves) \in Nat /\ Len(path) \in Nat
  OBVIOUS
<1>2. Paths(leaf, Len(leaves), path)[Len(leaves)][i][Len(path)] = TreeHash(leaves)[Len(leaves)][0]
  BY Zenon DEF RootOfPath, MTH
<1>3. /\ Len(leaves) \in 1 .. Len(leaves) /\ Len(path) \in 0 .. Len(path)
      /\ 0 \in 0 .. Len(leaves) - Len(leaves) /\ 0 + i + 1 = i + 1
  BY <1>1
<1>4. PathIsSound(leaves, leaf, path)
  BY <1>1, PathSound
<1>5. leaf = HashLeaf(leaves[0 + i + 1])
  BY <1>2, <1>3, <1>4, Zenon DEF PathIsSound
<1> QED
  BY <1>3, <1>5

\* Hashes are terms, which is collision resistance: a tree head commits to the leaves.
LEMMA TreeHashInjective ==
    ASSUME NEW R, NEW a \in Seq(R), NEW b \in Seq(R), Len(a) = Len(b), Len(a) <= 2 ^ SizeBits,
           MTH(a) = MTH(b)
    PROVE  a = b
<1> DEFINE L == Len(a)
           g == TreeHash(a)
           h == TreeHash(b)
           Same(n, f) == g[n][f] = h[n][f] => \A j \in f + 1 .. f + n : a[j] = b[j]
           S == {n \in Nat : \A f \in 0 .. L - n : Same(n, f)}
<1>1. L \in Nat /\ Len(b) = L /\ 2 ^ SizeBits \in Nat /\ L <= 2 ^ SizeBits
  BY PowersGrow, PowersOfTwo
<1>2. \A n \in 0 .. L : \A f \in 0 .. L - n :
        /\ g[n][f] = IF n = 0 THEN EmptyRootHash
                     ELSE IF n = 1 THEN HashLeaf(a[f + 1])
                     ELSE <<g[Split(n)][f], g[n - Split(n)][f + Split(n)]>>
        /\ h[n][f] = IF n = 0 THEN EmptyRootHash
                     ELSE IF n = 1 THEN HashLeaf(b[f + 1])
                     ELSE <<h[Split(n)][f], h[n - Split(n)][f + Split(n)]>>
  BY <1>1, TreeHashSteps
<1> HIDE DEF g, h, L
<1>3. ASSUME NEW n \in 0 .. L, \A i \in 0 .. n - 1 : i \in S PROVE n \in S
  <2> SUFFICES ASSUME NEW f \in 0 .. L - n, g[n][f] = h[n][f], NEW j \in f + 1 .. f + n
               PROVE  a[j] = b[j]
    BY <1>1
  <2>1. CASE n = 1
    <3>1. g[n][f] = HashLeaf(a[f + 1]) /\ h[n][f] = HashLeaf(b[f + 1])
      <4>1. n # 0
        BY <2>1
      <4> QED
        BY <1>2, <2>1, <4>1, Zenon
    <3>2. j = f + 1
      BY <1>1, <2>1
    <3>3. a[f + 1] = b[f + 1]
      <4>1. \A x, y : <<x>> = <<y>> => x = y
        OBVIOUS
      <4> QED
        BY <3>1, <4>1, Zenon DEF HashLeaf
    <3> QED
      BY <3>2, <3>3
  <2>2. CASE n >= 2
    <3> DEFINE k == Split(n)
    <3>1. k \in 1 .. n - 1
      <4>1. n \in Nat /\ n <= 2 ^ SizeBits
        BY <1>1
      <4> QED
        BY <2>2, <4>1, SplitFacts
    <3>2. g[n][f] = <<g[k][f], g[n - k][f + k]>> /\ h[n][f] = <<h[k][f], h[n - k][f + k]>>
      <4>1. n # 0 /\ n # 1
        BY <2>2
      <4> QED
        BY <1>2, <4>1, Zenon
    <3> HIDE DEF k
    <3>3. g[k][f] = h[k][f] /\ g[n - k][f + k] = h[n - k][f + k]
      <4>1. <<g[k][f], g[n - k][f + k]>> = <<h[k][f], h[n - k][f + k]>>
        BY <3>2, Zenon
      <4>2. ASSUME NEW u, NEW v, NEW x, NEW y, <<u, v>> = <<x, y>> PROVE u = x /\ v = y
        BY <4>2
      <4> QED
        BY <4>1, <4>2
    <3>4. /\ k \in 0 .. n - 1 /\ n - k \in 0 .. n - 1
          /\ f \in 0 .. L - k /\ f + k \in 0 .. L - (n - k)
          /\ j \in f + 1 .. f + k \/ j \in (f + k) + 1 .. (f + k) + (n - k)
      BY <1>1, <2>2, <3>1
    <3>5. Same(k, f) /\ Same(n - k, f + k)
      <4> HIDE DEF Same
      <4> QED
        BY <1>3, <3>4
    <3> QED
      BY <3>3, <3>4, <3>5
  <2>3. n = 1 \/ n >= 2
    BY <1>1
  <2> QED
    BY <2>1, <2>2, <2>3
<1>4. L \in S
  <2> HIDE DEF S
  <2>1. 0 .. L \subseteq S
    BY <1>1, <1>3, Induction
  <2> QED
    BY <1>1, <2>1
<1>5. Same(L, 0)
  <2>1. 0 \in 0 .. L - L
    BY <1>1
  <2> HIDE DEF Same
  <2> QED
    BY <1>4, <2>1
<1>6. g[L][0] = h[L][0]
  <2>1. MTH(a) = g[L][0] /\ MTH(b) = h[L][0]
    BY <1>1, Zenon DEF MTH, g, h, L
  <2> QED
    BY <2>1
<1>7. \A j \in 1 .. L : a[j] = b[j]
  BY <1>1, <1>5, <1>6
<1> QED
  BY <1>1, <1>7 DEF L

\* The promise of the witness protocol, in terms of entries: if the heads of two logs
\* pass verify_consistency, the one log is a prefix of the other.
THEOREM AcceptedIsPrefix ==
    ASSUME NEW R, NEW old \in Seq(R), NEW new \in Seq(R), Len(new) <= 2 ^ SizeBits,
           NEW T, NEW proof \in Seq(T),
           verify_consistency(Len(old), Len(new), MTH(old), MTH(new), proof)
    PROVE  Len(old) <= Len(new) /\ old = SubSeq(new, 1, Len(old))
<1> DEFINE m == Len(old)
           p == SubSeq(new, 1, m)
<1>1. m \in Nat /\ Len(new) \in Nat /\ 2 ^ SizeBits \in Nat
  BY PowersGrow, PowersOfTwo
<1>2. m <= Len(new) /\ MTH(old) = MTH(p)
  BY <1>1, ConsistencyIsSound
<1>3. p \in Seq(R) /\ Len(p) = m
  BY <1>1, <1>2
<1>4. m <= 2 ^ SizeBits
  BY <1>1, <1>2
<1>5. old = p
  BY <1>2, <1>3, <1>4, TreeHashInjective
<1> QED
  BY <1>2, <1>5
=============================================================================

---------------------------- MODULE VindexProofs ----------------------------
(***************************************************************************)
(* The index is at every moment exactly that of a prefix of the log, the   *)
(* log never outruns it, a restart needs no more than the snapshot and the *)
(* synced WAL unless a call has failed, and a lookup reads one index: for  *)
(* any log, keys, limits, batch sizes and snapshot intervals, and for any  *)
(* number of crashes, power losses, failed calls and other processes.      *)
(*                                                                         *)
(* The argument: the snapshot is the exact index of a size the database    *)
(* has marked, so it is never ahead. As long as no call has failed, the    *)
(* records of the WAL follow one another from a size the snapshot covers,  *)
(* and those up to the integrated size are synced before it is marked.     *)
(* Replay keeps the records below the integrated size, skips those that    *)
(* the snapshot covers and refuses a gap: whatever failed calls have left  *)
(* in the WAL, a replay that goes through ends at exactly the integrated   *)
(* size with the exact index, and one that does not is a rebuild.          *)
(*                                                                         *)
(* What the replay loop computes is shown by induction over the records,   *)
(* and an induction by a least counterexample: a set of numbers that is    *)
(* not empty has a least member (WFMin of WellFoundedInduction).           *)
(***************************************************************************)
EXTENDS Vindex, FiniteSetTheorems, WellFoundedInduction, TLAPS

-----------------------------------------------------------------------------
(* Induction over the natural numbers, by the least counterexample          *)

\* A set of natural numbers that is not empty has a least member.
LEMMA LeastMember ==
    ASSUME NEW T \in SUBSET Nat, T # {}
    PROVE  \E m \in T : \A n \in T : m <= n
<1>1. IsWellFoundedOn(OpToRel(<, Nat), Nat)
  BY NatLessThanWellFounded
<1>2. PICK m \in T : \A n \in T : ~(<<n, m>> \in OpToRel(<, Nat))
  BY <1>1, WFMin
<1>3. \A n \in T : ~(n < m)
  BY <1>2 DEF OpToRel
<1> QED
  BY <1>3

\* A set that holds 0 and is closed under successors up to a bound holds every
\* number up to the bound.
LEMMA Induction ==
    ASSUME NEW N \in Nat, NEW S, 0 \in S,
           \A n \in 0 .. N - 1 : n \in S => n + 1 \in S
    PROVE  0 .. N \subseteq S
<1> SUFFICES ASSUME 0 .. N \ S # {} PROVE FALSE
  OBVIOUS
<1> DEFINE T == {n \in Nat : n \in 0 .. N \ S}
<1>1. PICK m \in T : \A n \in T : m <= n
  <2>1. T \in SUBSET Nat /\ T # {}
    OBVIOUS
  <2> HIDE DEF T
  <2> QED
    BY <2>1, LeastMember
<1>2. m \in 1 .. N
  OBVIOUS
<1>3. m - 1 \in 0 .. N - 1 /\ m - 1 \notin T
  BY <1>1, <1>2
<1>4. m - 1 \in S
  BY <1>3
<1> QED
  BY <1>1, <1>2, <1>3, <1>4

-----------------------------------------------------------------------------
(* Ascending lists                                                          *)

\* s lists the members of S in ascending order, each of them once.
IsAscending(s, S) ==
    /\ s \in [1 .. Cardinality(S) -> S]
    /\ \A x \in S : \E j \in DOMAIN s : s[j] = x
    /\ \A i, j \in DOMAIN s : i < j => s[i] < s[j]

\* A set has one ascending list only.
LEMMA AscendingUnique ==
    ASSUME NEW S \in SUBSET Nat, Cardinality(S) \in Nat,
           NEW s, IsAscending(s, S), NEW t, IsAscending(t, S)
    PROVE  s = t
<1> DEFINE D == 1 .. Cardinality(S)
           T == {n \in Nat : n \in D /\ s[n] # t[n]}
<1>1. s \in [D -> S] /\ t \in [D -> S]
  BY DEF IsAscending
<1>2. \A n \in D : s[n] \in Nat /\ t[n] \in Nat
  BY <1>1
<1>3. T = {}
  <2> SUFFICES ASSUME T # {} PROVE FALSE
    OBVIOUS
  <2>1. PICK m \in T : \A n \in T : m <= n
    <3>1. T \in SUBSET Nat
      OBVIOUS
    <3> HIDE DEF T
    <3> QED
      BY <3>1, LeastMember
  <2>2. m \in D /\ s[m] # t[m] /\ \A n \in D : n < m => s[n] = t[n]
    BY <2>1
  <2>3. ~(s[m] < t[m])
    <3> SUFFICES ASSUME s[m] < t[m] PROVE FALSE
      OBVIOUS
    <3>1. PICK j \in D : t[j] = s[m]
      BY <1>1, <2>2 DEF IsAscending
    <3>2. CASE j < m
      <4>1. s[j] = s[m]
        BY <2>2, <3>1, <3>2
      <4>2. s[j] < s[m]
        BY <1>1, <2>2, <3>2 DEF IsAscending
      <4> QED
        BY <1>2, <2>2, <4>1, <4>2
    <3>3. CASE m < j
      <4>1. t[m] < t[j]
        BY <1>1, <2>2, <3>3 DEF IsAscending
      <4> QED
        BY <1>2, <2>2, <3>1, <4>1
    <3> QED
      BY <1>2, <2>2, <3>1, <3>2, <3>3
  <2>4. ~(t[m] < s[m])
    <3> SUFFICES ASSUME t[m] < s[m] PROVE FALSE
      OBVIOUS
    <3>1. PICK j \in D : s[j] = t[m]
      BY <1>1, <2>2 DEF IsAscending
    <3>2. CASE j < m
      <4>1. t[j] = t[m]
        BY <2>2, <3>1, <3>2
      <4>2. t[j] < t[m]
        BY <1>1, <2>2, <3>2 DEF IsAscending
      <4> QED
        BY <1>2, <2>2, <4>1, <4>2
    <3>3. CASE m < j
      <4>1. s[m] < s[j]
        BY <1>1, <2>2, <3>3 DEF IsAscending
      <4> QED
        BY <1>2, <2>2, <3>1, <4>1
    <3> QED
      BY <1>2, <2>2, <3>1, <3>2, <3>3
  <2> QED
    BY <1>2, <2>2, <2>3, <2>4
<1>4. \A n \in D : s[n] = t[n]
  BY <1>3
<1> HIDE DEF D
<1> QED
  BY <1>1, <1>4

\* A larger number goes to the end of the list.
LEMMA AscendingAppend ==
    ASSUME NEW S \in SUBSET Nat, IsFiniteSet(S), NEW s, IsAscending(s, S),
           NEW n \in Nat, \A x \in S : x < n
    PROVE  IsAscending(Append(s, n), S \cup {n})
<1> DEFINE c == Cardinality(S)
           t == Append(s, n)
<1>1. c \in Nat /\ Cardinality(S \cup {n}) = c + 1
  <2>1. c \in Nat
    BY FS_CardinalityType
  <2>2. n \notin S
    OBVIOUS
  <2> QED
    BY <2>1, <2>2, FS_AddElement
<1>2. s \in [1 .. c -> S]
  BY DEF IsAscending
<1> HIDE DEF c
<1>3. s \in Seq(S) /\ Len(s) = c /\ s \in Seq(S \cup {n})
  BY <1>1, <1>2
<1>4. /\ t \in [1 .. c + 1 -> S \cup {n}]
      /\ \A j \in 1 .. c : t[j] = s[j]
      /\ t[c + 1] = n
  <2>1. t \in Seq(S \cup {n}) /\ Len(t) = c + 1
    BY <1>1, <1>3
  <2>2. \A j \in 1 .. c : t[j] = s[j]
    BY <1>1, <1>3
  <2>3. t[c + 1] = n
    BY <1>1, <1>3
  <2> HIDE DEF t
  <2>4. DOMAIN t = 1 .. c + 1 /\ \A j \in 1 .. c + 1 : t[j] \in S \cup {n}
    BY <1>1, <2>1
  <2>5. t = [j \in 1 .. c + 1 |-> t[j]]
    BY <2>1, <2>4
  <2> QED
    BY <2>2, <2>3, <2>4, <2>5
<1> HIDE DEF t
<1>5. \A x \in S \cup {n} : \E j \in 1 .. c + 1 : t[j] = x
  <2> TAKE x \in S \cup {n}
  <2>1. CASE x \in S
    <3>1. PICK j \in 1 .. c : s[j] = x
      BY <1>2, <2>1 DEF IsAscending
    <3> QED
      BY <1>1, <1>4, <3>1
  <2>2. CASE x = n
    BY <1>1, <1>4, <2>2
  <2> QED
    BY <2>1, <2>2
<1>6. \A i, j \in 1 .. c + 1 : i < j => t[i] < t[j]
  <2> SUFFICES ASSUME NEW i \in 1 .. c + 1, NEW j \in 1 .. c + 1, i < j PROVE t[i] < t[j]
    OBVIOUS
  <2>1. i \in 1 .. c /\ t[i] = s[i] /\ s[i] \in S
    BY <1>1, <1>2, <1>4
  <2>2. CASE j = c + 1
    BY <1>4, <2>1, <2>2
  <2>3. CASE j # c + 1
    <3>1. j \in 1 .. c /\ t[j] = s[j]
      BY <1>1, <1>4, <2>3
    <3> QED
      BY <1>2, <2>1, <3>1 DEF IsAscending
  <2> QED
    BY <2>2, <2>3
<1>7. DOMAIN t = 1 .. c + 1
  BY <1>4
<1> QED
  BY <1>1, <1>4, <1>5, <1>6, <1>7 DEF IsAscending, t

-----------------------------------------------------------------------------
(* The index of the first entries                                           *)

\* The entries among the first n that have the key k.
EntriesWith(k, n) == {i \in 0 .. n - 1 : k \in KeysAt(i)}

\* They are finitely many, and one entry more is the last of them or none of them.
LEMMA EntriesFacts ==
    ASSUME NEW k, NEW n \in Nat
    PROVE  /\ EntriesWith(k, n) \in SUBSET Nat
           /\ IsFiniteSet(EntriesWith(k, n))
           /\ Cardinality(EntriesWith(k, n)) \in Nat
           /\ \A x \in EntriesWith(k, n) : x < n
           /\ EntriesWith(k, n + 1) = IF k \in KeysAt(n) THEN EntriesWith(k, n) \cup {n}
                                                         ELSE EntriesWith(k, n)
<1>1. EntriesWith(k, n) \in SUBSET (0 .. n - 1)
  BY DEF EntriesWith
<1>2. IsFiniteSet(EntriesWith(k, n))
  <2>1. IsFiniteSet(0 .. n - 1)
    BY FS_Interval
  <2> QED
    BY <1>1, <2>1, FS_Subset
<1>3. EntriesWith(k, n + 1) = IF k \in KeysAt(n) THEN EntriesWith(k, n) \cup {n}
                                                 ELSE EntriesWith(k, n)
  <2>1. 0 .. (n + 1) - 1 = (0 .. n - 1) \cup {n}
    OBVIOUS
  <2> QED
    BY <2>1 DEF EntriesWith
<1> QED
  BY <1>1, <1>2, <1>3, FS_CardinalityType

\* The list of a key exists: it grows with the entries.
LEMMA IndicesAreAscending ==
    ASSUME NEW k, NEW n \in Nat
    PROVE  IsAscending(IndicesBelow(k, n), EntriesWith(k, n))
<1> DEFINE S == {m \in Nat : \E s : IsAscending(s, EntriesWith(k, m))}
<1>1. 0 \in S
  <2>1. EntriesWith(k, 0) = {}
    BY DEF EntriesWith
  <2>2. IsAscending(<<>>, {})
    <3>1. Cardinality({}) = 0
      BY FS_EmptySet
    <3>2. 1 .. 0 = {}
      OBVIOUS
    <3>3. <<>> \in [{} -> {}] /\ DOMAIN <<>> = {}
      OBVIOUS
    <3> QED
      BY <3>1, <3>2, <3>3 DEF IsAscending
  <2> QED
    BY <2>1, <2>2
<1>2. \A m \in 0 .. n - 1 : m \in S => m + 1 \in S
  <2> SUFFICES ASSUME NEW m \in 0 .. n - 1, m \in S PROVE m + 1 \in S
    BY Zenon
  <2>1. PICK s : IsAscending(s, EntriesWith(k, m))
    OBVIOUS
  <2>2. CASE k \in KeysAt(m)
    <3>1. IsAscending(Append(s, m), EntriesWith(k, m) \cup {m})
      BY <2>1, EntriesFacts, AscendingAppend
    <3>2. EntriesWith(k, m + 1) = EntriesWith(k, m) \cup {m}
      BY <2>2, EntriesFacts
    <3> QED
      BY <3>1, <3>2
  <2>3. CASE k \notin KeysAt(m)
    <3>1. EntriesWith(k, m + 1) = EntriesWith(k, m)
      BY <2>3, EntriesFacts
    <3> QED
      BY <2>1, <3>1
  <2> QED
    BY <2>2, <2>3
<1>3. n \in S
  <2> HIDE DEF S
  <2>1. 0 .. n \subseteq S
    BY <1>1, <1>2, Induction
  <2> QED
    BY <2>1
<1>4. PICK s : IsAscending(s, EntriesWith(k, n))
  BY <1>3
<1> QED
  BY <1>4, Zenon DEF IndicesBelow, Ascending, IsAscending, EntriesWith

\* The list of a key is a sequence of the entries it is in.
LEMMA IndicesType ==
    ASSUME NEW k, NEW n \in 0 .. MaxSize
    PROVE  /\ IndicesBelow(k, n) \in Seq(0 .. n - 1)
           /\ IndicesBelow(k, n) \in Seq(0 .. MaxSize - 1)
           /\ \A j \in 1 .. Len(IndicesBelow(k, n)) : IndicesBelow(k, n)[j] < n
           /\ IndicesBelow(k, n) = <<>> <=> EntriesWith(k, n) = {}
<1> DEFINE s == IndicesBelow(k, n)
           c == Cardinality(EntriesWith(k, n))
<1>1. n \in Nat /\ MaxSize \in Nat
  BY VindexAssumption
<1>2. IsAscending(s, EntriesWith(k, n)) /\ c \in Nat
  BY <1>1, IndicesAreAscending, EntriesFacts
<1>3. /\ s \in [1 .. c -> EntriesWith(k, n)]
      /\ \A x \in EntriesWith(k, n) : \E j \in DOMAIN s : s[j] = x
  BY <1>2 DEF IsAscending
<1>4. EntriesWith(k, n) \subseteq 0 .. n - 1
  BY DEF EntriesWith
<1> HIDE DEF s, c
<1>5. s \in [1 .. c -> 0 .. n - 1]
  BY <1>3, <1>4
<1>6. s \in Seq(0 .. n - 1) /\ Len(s) = c
  BY <1>2, <1>5
<1>7. s \in Seq(0 .. MaxSize - 1)
  <2> DEFINE I == 0 .. MaxSize - 1
  <2>1. 0 .. n - 1 \subseteq I
    BY <1>1
  <2> HIDE DEF I
  <2>2. s \in [1 .. c -> I]
    BY <1>5, <2>1
  <2>3. s \in Seq(I)
    BY <1>2, <2>2
  <2> QED
    BY <2>3 DEF I
<1>8. \A j \in 1 .. Len(s) : s[j] < n
  BY <1>1, <1>6
<1>9. s = <<>> <=> EntriesWith(k, n) = {}
  <2>1. ASSUME s = <<>> PROVE EntriesWith(k, n) = {}
    <3>1. DOMAIN s = {}
      BY <2>1
    <3> QED
      BY <1>3, <3>1
  <2>2. ASSUME EntriesWith(k, n) = {} PROVE s = <<>>
    <3>1. c = 0
      BY <2>2, FS_EmptySet DEF c
    <3> QED
      BY <1>6, <3>1
  <2> QED
    BY <2>1, <2>2
<1> QED
  BY <1>6, <1>7, <1>8, <1>9 DEF s

\* One entry more: its index goes to the end of the lists of its keys.
LEMMA IndicesStep ==
    ASSUME NEW k, NEW n \in Nat
    PROVE  IndicesBelow(k, n + 1) = IF k \in KeysAt(n) THEN Append(IndicesBelow(k, n), n)
                                                       ELSE IndicesBelow(k, n)
<1>1. IsAscending(IndicesBelow(k, n), EntriesWith(k, n))
  BY IndicesAreAscending
<1>2. IsAscending(IndicesBelow(k, n + 1), EntriesWith(k, n + 1))
  BY IndicesAreAscending
<1>3. EntriesWith(k, n + 1) \in SUBSET Nat /\ Cardinality(EntriesWith(k, n + 1)) \in Nat
  <2>1. n + 1 \in Nat
    OBVIOUS
  <2> QED
    BY <2>1, EntriesFacts, Zenon
<1>4. CASE k \in KeysAt(n)
  <2>1. EntriesWith(k, n + 1) = EntriesWith(k, n) \cup {n}
    BY <1>4, EntriesFacts
  <2>2. IsAscending(Append(IndicesBelow(k, n), n), EntriesWith(k, n) \cup {n})
    BY <1>1, EntriesFacts, AscendingAppend
  <2> QED
    BY <1>2, <1>3, <1>4, <2>1, <2>2, AscendingUnique
<1>5. CASE k \notin KeysAt(n)
  <2>1. EntriesWith(k, n + 1) = EntriesWith(k, n)
    BY <1>5, EntriesFacts
  <2> QED
    BY <1>1, <1>2, <1>3, <1>5, <2>1, AscendingUnique
<1> QED
  BY <1>4, <1>5

\* The keys of the first n entries.
KeysBelow(n) == UNION {KeysAt(i) : i \in 0 .. n - 1}

\* They are finitely many, and grow by the keys of the next entry.
LEMMA KeysFacts ==
    ASSUME NEW n \in 0 .. MaxSize
    PROVE  /\ KeysBelow(n) \in SUBSET Keys
           /\ IsFiniteSet(KeysBelow(n))
           /\ \A k : k \in KeysBelow(n) <=> EntriesWith(k, n) # {}
           /\ n < MaxSize => /\ KeysAt(n) \in SUBSET Keys
                             /\ KeysBelow(n + 1) = KeysBelow(n) \cup KeysAt(n)
<1>1. MaxSize \in Nat /\ (\A i \in 0 .. MaxSize - 1 : KeysAt(i) \in SUBSET Keys)
        /\ IsFiniteSet(Keys)
  BY VindexAssumption
<1>2. KeysBelow(n) \in SUBSET Keys
  <2>1. \A i \in 0 .. n - 1 : KeysAt(i) \in SUBSET Keys
    BY <1>1
  <2> QED
    BY <2>1 DEF KeysBelow
<1>3. IsFiniteSet(KeysBelow(n))
  BY <1>1, <1>2, FS_Subset
<1>4. \A k : k \in KeysBelow(n) <=> EntriesWith(k, n) # {}
  BY DEF KeysBelow, EntriesWith
<1>5. ASSUME n < MaxSize
      PROVE  /\ KeysAt(n) \in SUBSET Keys
             /\ KeysBelow(n + 1) = KeysBelow(n) \cup KeysAt(n)
  <2>1. 0 .. (n + 1) - 1 = (0 .. n - 1) \cup {n}
    BY <1>1
  <2>2. n \in 0 .. MaxSize - 1
    BY <1>1, <1>5
  <2>3. KeysBelow(n + 1) = KeysBelow(n) \cup KeysAt(n)
    BY <2>1 DEF KeysBelow
  <2> QED
    BY <1>1, <2>2, <2>3
<1> QED
  BY <1>2, <1>3, <1>4, <1>5

\* IndexOf(n), the index the first n entries should have, and its lists.
LEMMA IndexFacts ==
    ASSUME NEW n \in 0 .. MaxSize
    PROVE  /\ DOMAIN IndexOf(n) = KeysBelow(n)
           /\ \A k \in KeysBelow(n) : IndexOf(n)[k] = IndicesBelow(k, n)
           /\ IndexOf(n) \in UNION {[D -> Seq(0 .. MaxSize - 1)] : D \in SUBSET Keys}
<1>1. DOMAIN IndexOf(n) = KeysBelow(n)
  BY DEF IndexOf, KeysBelow
<1>2. \A k \in KeysBelow(n) : IndexOf(n)[k] = IndicesBelow(k, n)
  BY DEF IndexOf, KeysBelow
<1>3. IndexOf(n) \in [KeysBelow(n) -> Seq(0 .. MaxSize - 1)]
  BY IndicesType DEF IndexOf, KeysBelow
<1> QED
  BY <1>1, <1>2, <1>3, KeysFacts

\* No entries, no keys.
LEMMA IndexOfNone == IndexOf(0) = Empty
<1>1. 0 .. 0 - 1 = {}
  OBVIOUS
<1>2. UNION {KeysAt(i) : i \in 0 .. 0 - 1} = {}
  BY <1>1
<1> QED
  BY <1>2 DEF IndexOf, Empty

\* Pushing an entry onto the exact index of the entries before it gives the
\* exact index with it. The index never holds the entry already: the guard of
\* index_entry against that is dead code, as its comment says.
LEMMA IndexStep ==
    ASSUME NEW n \in 0 .. MaxSize - 1
    PROVE  IndexOf(n + 1) = Pushed(IndexOf(n), n, KeysAt(n))
<1>1. n \in 0 .. MaxSize /\ n + 1 \in 0 .. MaxSize /\ n \in Nat /\ n < MaxSize
  BY VindexAssumption
<1> DEFINE f == IndexOf(n)
           D == KeysBelow(n) \cup KeysAt(n)
<1>2. DOMAIN IndexOf(n + 1) = D /\ DOMAIN f = KeysBelow(n)
  BY <1>1, IndexFacts, KeysFacts
<1>3. ASSUME NEW k \in D
      PROVE  IndexOf(n + 1)[k] =
                IF k \notin KeysAt(n) THEN f[k]
                ELSE IF k \notin DOMAIN f THEN <<n>>
                ELSE IF Contains(f[k], n) THEN f[k] ELSE Append(f[k], n)
  <2>1. IndexOf(n + 1)[k] = IndicesBelow(k, n + 1)
    BY <1>1, <1>2, IndexFacts
  <2>2. IndicesBelow(k, n + 1) = IF k \in KeysAt(n) THEN Append(IndicesBelow(k, n), n)
                                                    ELSE IndicesBelow(k, n)
    BY <1>1, IndicesStep
  <2>3. k \in DOMAIN f => f[k] = IndicesBelow(k, n)
    BY <1>1, <1>2, IndexFacts
  <2>4. CASE k \notin KeysAt(n)
    BY <1>2, <2>1, <2>2, <2>3, <2>4
  <2>5. CASE k \in KeysAt(n) /\ k \notin DOMAIN f
    <3>1. EntriesWith(k, n) = {}
      BY <1>1, <1>2, <2>5, KeysFacts
    <3>2. IndicesBelow(k, n) = <<>>
      BY <1>1, <3>1, IndicesType
    <3>3. Append(<<>>, n) = <<n>>
      BY <1>1
    <3> QED
      BY <2>1, <2>2, <2>5, <3>2, <3>3
  <2>6. CASE k \in KeysAt(n) /\ k \in DOMAIN f
    <3>1. ~Contains(IndicesBelow(k, n), n)
      <4>1. \A j \in 1 .. Len(IndicesBelow(k, n)) : IndicesBelow(k, n)[j] # n
        BY <1>1, IndicesType
      <4> QED
        BY <4>1 DEF Contains
    <3> QED
      BY <2>1, <2>2, <2>3, <2>6, <3>1
  <2> QED
    BY <2>4, <2>5, <2>6
<1>4. IndexOf(n + 1) = [k \in D |-> IndexOf(n + 1)[k]]
  BY <1>2 DEF IndexOf
<1> HIDE DEF D, f
<1>5. IndexOf(n + 1) =
        [k \in D |-> IF k \notin KeysAt(n) THEN f[k]
                     ELSE IF k \notin DOMAIN f THEN <<n>>
                     ELSE IF Contains(f[k], n) THEN f[k] ELSE Append(f[k], n)]
  BY <1>3, <1>4, Zenon
<1>6. DOMAIN f \cup KeysAt(n) = D
  BY <1>2 DEF D
<1> QED
  BY <1>5, <1>6, Zenon DEF Pushed, f

\* An entry without keys leaves the index as it is.
LEMMA PushedNothing ==
    ASSUME NEW n \in 0 .. MaxSize
    PROVE  Pushed(IndexOf(n), n, {}) = IndexOf(n)
BY IndexFacts DEF Pushed, IndexOf

-----------------------------------------------------------------------------
(* The limits                                                               *)

\* The index of the first n entries is within the limits.
Fits(n) ==
    /\ Cardinality(DOMAIN IndexOf(n)) <= MaxKeys
    /\ \A k \in DOMAIN IndexOf(n) : Len(IndexOf(n)[k]) <= Larger(MaxIndicesPerKey, 1)

\* The same for every prefix: the log grew within the limits.
FitsUpTo(n) == \A m \in 0 .. n : Fits(m)

\* An empty log is within the limits.
LEMMA NothingFits == Fits(0)
<1>1. DOMAIN IndexOf(0) = {}
  BY IndexOfNone DEF Empty
<1> QED
  BY <1>1, FS_EmptySet, VindexAssumption DEF Fits

\* An entry that the limits of index_entry do not refuse keeps the index within them.
\* A limit of 0 indices per key still admits the first, hence Larger(.., 1) in Fits.
LEMMA FitsStep ==
    ASSUME NEW n \in 0 .. MaxSize - 1, Fits(n),
           KeysAt(n) = {} \/ ~IndexFull(IndexOf(n), n)
    PROVE  Fits(n + 1)
<1>1. /\ n \in 0 .. MaxSize /\ n + 1 \in 0 .. MaxSize /\ n \in Nat /\ n < MaxSize
      /\ MaxKeys \in Nat /\ MaxIndicesPerKey \in Nat
  BY VindexAssumption
<1>2. /\ DOMAIN IndexOf(n) = KeysBelow(n)
      /\ DOMAIN IndexOf(n + 1) = KeysBelow(n) \cup KeysAt(n)
      /\ IsFiniteSet(KeysBelow(n) \cup KeysAt(n))
  BY <1>1, IndexFacts, KeysFacts
<1>3. Cardinality(KeysBelow(n) \cup KeysAt(n)) \in Nat
  BY <1>2, FS_CardinalityType
<1>4. Cardinality(DOMAIN IndexOf(n + 1)) <= MaxKeys
  <2>1. CASE KeysAt(n) = {}
    <3>1. KeysBelow(n) \cup KeysAt(n) = KeysBelow(n)
      BY <2>1
    <3> QED
      BY <1>2, <3>1 DEF Fits
  <2>2. CASE ~IndexFull(IndexOf(n), n)
    BY <1>1, <1>2, <1>3, <2>2 DEF IndexFull
  <2> QED
    BY <2>1, <2>2
<1>5. ASSUME NEW k \in KeysBelow(n) \cup KeysAt(n)
      PROVE  Len(IndexOf(n + 1)[k]) <= Larger(MaxIndicesPerKey, 1)
  <2>1. IndexOf(n + 1)[k] = IF k \in KeysAt(n) THEN Append(IndicesBelow(k, n), n)
                                               ELSE IndicesBelow(k, n)
    BY <1>1, <1>2, IndexFacts, IndicesStep
  <2>2. IndicesBelow(k, n) \in Seq(0 .. n - 1) /\ Len(IndicesBelow(k, n)) \in Nat
    BY <1>1, IndicesType
  <2>3. k \in KeysBelow(n) => IndexOf(n)[k] = IndicesBelow(k, n)
    BY <1>1, IndexFacts
  <2>4. CASE k \notin KeysAt(n)
    BY <1>2, <2>1, <2>3, <2>4 DEF Fits
  <2>5. CASE k \in KeysAt(n) /\ k \notin KeysBelow(n)
    <3>1. IndicesBelow(k, n) = <<>>
      BY <1>1, <2>5, KeysFacts, IndicesType
    <3>2. Len(Append(IndicesBelow(k, n), n)) = 1
      BY <1>1, <3>1
    <3> QED
      BY <1>1, <2>1, <2>5, <3>2 DEF Larger
  <2>6. CASE k \in KeysAt(n) /\ k \in KeysBelow(n)
    <3>1. Len(Append(IndicesBelow(k, n), n)) = Len(IndicesBelow(k, n)) + 1
      <4>1. IndicesBelow(k, n) \in Seq(Nat)
        BY <1>1, <2>2
      <4> QED
        BY <1>1, <4>1
    <3>2. ~(Len(IndicesBelow(k, n)) >= MaxIndicesPerKey)
      BY <1>2, <2>3, <2>6 DEF IndexFull
    <3> QED
      BY <1>1, <2>1, <2>2, <2>6, <3>1, <3>2 DEF Larger
  <2> QED
    BY <2>4, <2>5, <2>6
<1> QED
  BY <1>2, <1>4, <1>5 DEF Fits

\* The same for the prefixes.
LEMMA FitsUpToStep ==
    ASSUME NEW n \in 0 .. MaxSize - 1, FitsUpTo(n),
           KeysAt(n) = {} \/ ~IndexFull(IndexOf(n), n)
    PROVE  FitsUpTo(n + 1)
<1>1. n \in Nat
  BY VindexAssumption
<1>2. Fits(n)
  BY <1>1 DEF FitsUpTo
<1>3. Fits(n + 1)
  BY <1>2, FitsStep
<1>4. \A m \in 0 .. n + 1 : m \in 0 .. n \/ m = n + 1
  BY <1>1
<1> QED
  BY <1>3, <1>4 DEF FitsUpTo

-----------------------------------------------------------------------------
(* Scanning and replaying the WAL                                           *)

\* The records that are written to the WAL.
Records == {Record(i) : i \in 0 .. MaxSize - 1}

\* A record names an entry and its keys, and is not torn.
LEMMA RecordFacts ==
    /\ Torn \notin Records
    /\ \A r \in Records : /\ r[1] \in 0 .. MaxSize - 1
                          /\ r = Record(r[1])
                          /\ r[2] = KeysAt(r[1])
    /\ \A i : Record(i)[1] = i
BY VindexAssumption DEF Records, Record

\* Scanning stops at the first torn record, or at the first that is not below the
\* expected size: everything before is intact and below.
LEMMA ScannedFacts ==
    ASSUME NEW w \in Seq(Records \cup {Torn}), NEW e \in Nat
    PROVE  /\ Scanned(w, e) \in 0 .. Len(w)
           /\ \A j \in 1 .. Scanned(w, e) : w[j] \in Records /\ w[j][1] < e
           /\ Scanned(w, e) < Len(w) =>
                w[Scanned(w, e) + 1] = Torn \/ w[Scanned(w, e) + 1][1] >= e
<1>1. Len(w) \in Nat /\ \A j \in 1 .. Len(w) : w[j] \in Records \cup {Torn}
  OBVIOUS
<1> DEFINE Stops(n) == n < Len(w) => w[n + 1] = Torn \/ w[n + 1][1] >= e
           T == {n \in Nat : n \in 0 .. Len(w) /\ Stops(n)}
<1>2. PICK m \in T : \A n \in T : m <= n
  <2>1. Len(w) \in T
    BY <1>1
  <2>2. T \in SUBSET Nat
    OBVIOUS
  <2> HIDE DEF T
  <2> QED
    BY <2>1, <2>2, LeastMember
<1>3. \A j \in 1 .. m : w[j] # Torn /\ w[j][1] < e
  <2> SUFFICES ASSUME NEW j \in 1 .. m PROVE w[j] # Torn /\ w[j][1] < e
    OBVIOUS
  <2>1. j - 1 \in 0 .. Len(w) /\ j - 1 \in Nat /\ j - 1 < Len(w) /\ j - 1 \notin T
          /\ j \in 1 .. Len(w)
    <3>1. m \in 0 .. Len(w) /\ m \in Nat
      BY <1>2
    <3>2. j - 1 \in Nat /\ j - 1 < m
      BY <3>1
    <3>3. j - 1 \notin T
      <4> HIDE DEF T
      <4> QED
        BY <1>2, <3>1, <3>2
    <3> QED
      BY <1>1, <3>1, <3>2, <3>3
  <2>2. ~Stops(j - 1) /\ (j - 1) + 1 = j
    BY <2>1
  <2>3. w[j] # Torn /\ ~(w[j][1] >= e)
    BY <2>2
  <2>4. w[j][1] \in Nat
    BY <1>1, <2>1, <2>3, RecordFacts
  <2> QED
    BY <2>3, <2>4
<1>4. m \in 0 .. Len(w) /\ Stops(m)
  BY <1>2
<1>5. /\ Scanned(w, e) \in 0 .. Len(w)
      /\ \A j \in 1 .. Scanned(w, e) : w[j] # Torn /\ w[j][1] < e
      /\ Stops(Scanned(w, e))
  BY <1>3, <1>4 DEF Scanned
<1>6. \A j \in 1 .. Scanned(w, e) : w[j] \in Records
  BY <1>1, <1>5
<1> QED
  BY <1>5, <1>6

\* The size the WAL reaches is 0, or that of its largest record.
LEMMA WalSizeFacts ==
    ASSUME NEW w \in Seq(Records)
    PROVE  /\ WalSize(w) \in 0 .. MaxSize
           /\ \A j \in 1 .. Len(w) : w[j][1] < WalSize(w)
           /\ WalSize(w) = 0 \/ \E j \in 1 .. Len(w) : w[j][1] + 1 = WalSize(w)
<1> DEFINE A == {0} \cup {w[j][1] + 1 : j \in 1 .. Len(w)}
           T == {m \in Nat : \A y \in A : y <= m}
<1>1. MaxSize \in Nat /\ DOMAIN w = 1 .. Len(w)
  BY VindexAssumption
<1>2. \A j \in 1 .. Len(w) : w[j] \in Records
  OBVIOUS
<1>3. A \subseteq 0 .. MaxSize
  BY <1>1, <1>2, RecordFacts
<1>4. PICK m \in T : \A n \in T : m <= n
  <2> HIDE DEF A
  <2>1. MaxSize \in T /\ T \in SUBSET Nat
    BY <1>1, <1>3
  <2> HIDE DEF T
  <2> QED
    BY <2>1, LeastMember
<1>5. m \in Nat /\ (\A y \in A : y <= m) /\ 0 \in A
  BY <1>4
<1> HIDE DEF A
<1>6. m \in A
  <2> SUFFICES ASSUME m \notin A PROVE FALSE
    OBVIOUS
  <2>1. m # 0 /\ m - 1 \in Nat
    BY <1>5
  <2>2. \A y \in A : y <= m - 1
    BY <1>3, <1>5
  <2>3. m - 1 \in T
    BY <2>1, <2>2
  <2> QED
    BY <1>4, <1>5, <2>3
<1>7. Max(A) \in A /\ \A y \in A : Max(A) >= y
  <2>1. \A y \in A : m >= y
    BY <1>3, <1>5
  <2> QED
    BY <1>6, <2>1 DEF Max
<1>8. WalSize(w) = Max(A)
  BY <1>1 DEF WalSize, A
<1>9. \A j \in 1 .. Len(w) : w[j][1] < WalSize(w)
  <2> TAKE j \in 1 .. Len(w)
  <2>1. w[j][1] + 1 \in A /\ w[j][1] \in Nat
    BY <1>2, RecordFacts DEF A
  <2>2. Max(A) >= w[j][1] + 1
    BY <1>7, <2>1, Zenon
  <2>3. Max(A) \in 0 .. MaxSize
    BY <1>3, <1>7, Zenon
  <2> QED
    BY <1>1, <1>8, <2>1, <2>2, <2>3
<1> QED
  BY <1>3, <1>7, <1>8, <1>9 DEF A

\* The replay loop, step by step.
LEMMA ReplaySteps ==
    ASSUME NEW w, Len(w) \in Nat
    PROVE  /\ ReplayStates(w)[1] = Restored
           /\ \A j \in 1 .. Len(w) :
                ReplayStates(w)[j + 1] = ReplayRecord(ReplayStates(w)[j], w[j])
<1> DEFINE Loop(g, m) == g = [j \in 1 .. m + 1 |-> IF j = 1 THEN Restored
                                                  ELSE ReplayRecord(g[j - 1], w[j - 1])]
           S == {m \in Nat : \E g : Loop(g, m)}
<1>1. 0 \in S
  <2> DEFINE g == [j \in 1 .. 0 + 1 |-> Restored]
  <2>1. \A j \in 1 .. 0 + 1 : j = 1
    OBVIOUS
  <2>2. Loop(g, 0)
    BY <2>1
  <2> QED
    BY <2>2
<1>2. \A m \in 0 .. Len(w) - 1 : m \in S => m + 1 \in S
  <2> SUFFICES ASSUME NEW m \in 0 .. Len(w) - 1, m \in S PROVE m + 1 \in S
    BY Zenon
  <2>1. PICK g : Loop(g, m)
    OBVIOUS
  <2> DEFINE h == [j \in 1 .. (m + 1) + 1 |->
                     IF j = m + 2 THEN ReplayRecord(g[m + 1], w[m + 1]) ELSE g[j]]
  <2>2. \A j \in 1 .. (m + 1) + 1 :
          h[j] = IF j = 1 THEN Restored ELSE ReplayRecord(h[j - 1], w[j - 1])
    <3> TAKE j \in 1 .. (m + 1) + 1
    <3>1. CASE j = 1
      BY <2>1, <3>1
    <3>2. CASE j = m + 2
      <4>1. j - 1 = m + 1 /\ h[j - 1] = g[m + 1] /\ j # 1
        BY <3>2
      <4> QED
        BY <3>2, <4>1
    <3>3. CASE j \in 2 .. m + 1
      <4>1. h[j] = g[j] /\ h[j - 1] = g[j - 1]
        BY <3>3
      <4>2. g[j] = ReplayRecord(g[j - 1], w[j - 1])
        BY <2>1, <3>3
      <4> QED
        BY <3>3, <4>1, <4>2
    <3> QED
      BY <3>1, <3>2, <3>3
  <2>3. h = [j \in 1 .. (m + 1) + 1 |-> h[j]]
    OBVIOUS
  <2> HIDE DEF h
  <2>4. Loop(h, m + 1)
    BY <2>2, <2>3, Zenon
  <2> QED
    BY <2>4
<1>3. \E g : Loop(g, Len(w))
  <2> HIDE DEF S
  <2>1. 0 .. Len(w) \subseteq S
    BY <1>1, <1>2, Induction
  <2>2. Len(w) \in S
    BY <2>1
  <2> QED
    BY <2>2 DEF S
<1>4. Loop(ReplayStates(w), Len(w))
  BY <1>3, Zenon DEF ReplayStates
<1> DEFINE g == ReplayStates(w)
<1> HIDE DEF g
<1>5. g = [j \in 1 .. Len(w) + 1 |-> IF j = 1 THEN Restored ELSE ReplayRecord(g[j - 1], w[j - 1])]
  BY <1>4 DEF g
<1>6. g[1] = Restored /\ \A j \in 1 .. Len(w) : g[j + 1] = ReplayRecord(g[j], w[j])
  <2>1. g[1] = Restored
    BY <1>5
  <2>2. ASSUME NEW j \in 1 .. Len(w) PROVE g[j + 1] = ReplayRecord(g[j], w[j])
    <3>1. j + 1 \in 1 .. Len(w) + 1 /\ j + 1 # 1 /\ (j + 1) - 1 = j
      OBVIOUS
    <3>2. g[j + 1] = ReplayRecord(g[(j + 1) - 1], w[(j + 1) - 1])
      BY <1>5, <3>1
    <3> QED
      BY <3>1, <3>2
  <2> QED
    BY <2>1, <2>2
<1> QED
  BY <1>6 DEF g

\* The snapshot file holds the exact index of the entries it counts.
SnapshotExact ==
    \/ snapshot = NoSnapshot
    \/ \E n \in 0 .. MaxSize : snapshot = [tree_size |-> n, index |-> IndexOf(n)]

\* The state of the replay loop with the exact index of n entries.
ReplayOf(n, b) == [index |-> IndexOf(n), tree_size |-> n, ok |-> b]

\* The parts of an exact snapshot.
LEMMA SnapshotFacts ==
    ASSUME NEW n \in 0 .. MaxSize
    PROVE  [tree_size |-> n, index |-> IndexOf(n)] # NoSnapshot
<1>1. [tree_size |-> n, index |-> IndexOf(n)] \in Snapshots
  BY IndexFacts DEF Snapshots
<1> QED
  BY <1>1, VindexAssumption

\* Replay starts from the exact index of the size of the snapshot, or of nothing.
LEMMA BaseFacts ==
    ASSUME SnapshotExact
    PROVE  BaseSize \in 0 .. MaxSize /\ Restored = ReplayOf(BaseSize, TRUE)
<1>1. CASE snapshot = NoSnapshot
  <2>1. BaseSize = 0 /\ Restored = [index |-> Empty, tree_size |-> 0, ok |-> TRUE]
    BY <1>1 DEF BaseSize, Restored
  <2>2. IndexOf(BaseSize) = Empty /\ 0 \in 0 .. MaxSize
    BY <2>1, IndexOfNone, VindexAssumption
  <2>3. Restored = ReplayOf(BaseSize, TRUE)
    BY <2>1, <2>2, Zenon DEF ReplayOf
  <2> QED
    BY <2>1, <2>2, <2>3
<1>2. CASE snapshot # NoSnapshot
  <2>1. PICK n \in 0 .. MaxSize : snapshot = [tree_size |-> n, index |-> IndexOf(n)]
    BY <1>2 DEF SnapshotExact
  <2>2. BaseSize = n /\ Restored = [index |-> IndexOf(n), tree_size |-> n, ok |-> TRUE]
    BY <1>2, <2>1 DEF BaseSize, Restored
  <2> QED
    BY <2>2 DEF ReplayOf
<1> QED
  BY <1>1, <1>2

\* What one record does to the state of the loop.
LEMMA ReplayRecordFacts ==
    ASSUME SnapshotExact,
           NEW n \in 0 .. MaxSize, n >= BaseSize, NEW b \in BOOLEAN, NEW r \in Records
    PROVE  /\ ~b \/ r[1] < BaseSize => ReplayRecord(ReplayOf(n, b), r) = ReplayOf(n, b)
           /\ b /\ r[1] >= BaseSize /\ r[1] # n =>
                ReplayRecord(ReplayOf(n, b), r) = ReplayOf(n, FALSE)
           /\ b /\ r[1] = n =>
                n < MaxSize /\ ReplayRecord(ReplayOf(n, b), r) = ReplayOf(n + 1, TRUE)
<1>1. r[1] \in 0 .. MaxSize - 1 /\ r[2] = KeysAt(r[1]) /\ BaseSize \in 0 .. MaxSize
        /\ MaxSize \in Nat
  BY RecordFacts, BaseFacts, VindexAssumption
<1>2. ReplayOf(n, b).index = IndexOf(n) /\ ReplayOf(n, b).tree_size = n /\ ReplayOf(n, b).ok = b
  <2>1. ReplayOf(n, b).index = IndexOf(n) /\ ReplayOf(n, b).tree_size = n
    BY DEF ReplayOf
  <2>2. ReplayOf(n, b).ok = b
    BY Zenon DEF ReplayOf
  <2> QED
    BY <2>1, <2>2, Zenon
<1>3. ~b \/ r[1] < BaseSize => ReplayRecord(ReplayOf(n, b), r) = ReplayOf(n, b)
  BY <1>2 DEF ReplayRecord
<1>4. ASSUME b, r[1] >= BaseSize, r[1] # n
      PROVE  ReplayRecord(ReplayOf(n, b), r) = ReplayOf(n, FALSE)
  <2>1. ~(r[1] < BaseSize)
    BY <1>1, <1>4
  <2> QED
    BY <1>2, <1>4, <2>1, Zenon DEF ReplayRecord, OutOfOrder, ReplayOf
<1>5. ASSUME b, r[1] = n
      PROVE  n < MaxSize /\ ReplayRecord(ReplayOf(n, b), r) = ReplayOf(n + 1, TRUE)
  <2>1. ~(r[1] < BaseSize) /\ n \in 0 .. MaxSize - 1 /\ n < MaxSize /\ Larger(n, r[1] + 1) = n + 1
    BY <1>1, <1>5 DEF Larger
  <2>2. Pushed(IndexOf(n), r[1], r[2]) = IndexOf(n + 1)
    BY <1>1, <1>5, <2>1, IndexStep
  <2>3. ReplayRecord(ReplayOf(n, b), r) =
          [index |-> IndexOf(n + 1), tree_size |-> n + 1, ok |-> TRUE]
    BY <1>2, <1>5, <2>1, <2>2 DEF ReplayRecord, OutOfOrder
  <2> QED
    BY <2>1, <2>3 DEF ReplayOf
<1> QED
  BY <1>3, <1>4, <1>5

\* Whatever intact records the WAL holds, replay that succeeds ends with the
\* exact index of its tree size, which is past every record, and no further than
\* the records go.
LEMMA ReplayExact ==
    ASSUME SnapshotExact, NEW w \in Seq(Records)
    PROVE  \E n \in 0 .. MaxSize, b \in BOOLEAN :
             /\ Replay(w) = ReplayOf(n, b)
             /\ n >= BaseSize
             /\ b => \A i \in 1 .. Len(w) : w[i][1] < n
             /\ n = BaseSize \/ \E i \in 1 .. Len(w) : n = w[i][1] + 1
<1> DEFINE Reached(j, n, b) ==
             /\ ReplayStates(w)[j + 1] = ReplayOf(n, b)
             /\ n >= BaseSize
             /\ b => \A i \in 1 .. j : w[i][1] < n
             /\ n = BaseSize \/ \E i \in 1 .. j : n = w[i][1] + 1
           S == {j \in Nat : \E n \in 0 .. MaxSize, b \in BOOLEAN : Reached(j, n, b)}
<1>1. Len(w) \in Nat /\ BaseSize \in 0 .. MaxSize /\ MaxSize \in Nat
  BY BaseFacts, VindexAssumption
<1>2. 0 \in S
  <2>1. ReplayStates(w)[0 + 1] = ReplayOf(BaseSize, TRUE)
    <3>1. 0 + 1 = 1
      OBVIOUS
    <3> QED
      BY <1>1, <3>1, ReplaySteps, BaseFacts
  <2>2. Reached(0, BaseSize, TRUE)
    BY <1>1, <2>1
  <2> HIDE DEF Reached
  <2> QED
    BY <1>1, <2>2
<1>3. \A j \in 0 .. Len(w) - 1 : j \in S => j + 1 \in S
  <2> SUFFICES ASSUME NEW j \in 0 .. Len(w) - 1, j \in S PROVE j + 1 \in S
    BY Zenon
  <2>1. PICK n \in 0 .. MaxSize, b \in BOOLEAN : Reached(j, n, b)
    OBVIOUS
  <2> DEFINE r == w[j + 1]
  <2>2. j + 1 \in 1 .. Len(w) /\ r \in Records /\ (j + 1) - 1 = j /\ j \in Nat /\ j + 1 \in Nat
    BY <1>1
  <2>3. ReplayStates(w)[(j + 1) + 1] = ReplayRecord(ReplayOf(n, b), r)
    BY <1>1, <2>1, <2>2, ReplaySteps
  <2>4. r[1] \in Nat /\ n \in Nat /\ n >= BaseSize
    BY <1>1, <2>1, <2>2, RecordFacts
  <2>5. \A i \in 1 .. j + 1 : i \in 1 .. j \/ i = j + 1
    BY <2>2
  <2>6. \A i \in 1 .. j : i \in 1 .. j + 1 /\ w[i][1] \in Nat
    BY <1>1, <2>2, RecordFacts
  <2>7. CASE ~b \/ r[1] < BaseSize
    <3>1. ReplayStates(w)[(j + 1) + 1] = ReplayOf(n, b)
      BY <2>2, <2>3, <2>4, <2>7, ReplayRecordFacts
    <3>2. b => r[1] < n
      BY <1>1, <2>4, <2>7
    <3>3. Reached(j + 1, n, b)
      BY <2>1, <2>4, <2>5, <2>6, <3>1, <3>2
    <3> HIDE DEF Reached
    <3> QED
      BY <2>2, <3>3
  <2>8. CASE b /\ r[1] >= BaseSize /\ r[1] # n
    <3>1. ReplayStates(w)[(j + 1) + 1] = ReplayOf(n, FALSE)
      BY <2>2, <2>3, <2>4, <2>8, ReplayRecordFacts
    <3>2. Reached(j + 1, n, FALSE)
      BY <2>1, <2>4, <2>6, <3>1
    <3> HIDE DEF Reached
    <3> QED
      BY <2>2, <3>2
  <2>9. CASE b /\ r[1] = n
    <3>1. n < MaxSize /\ ReplayStates(w)[(j + 1) + 1] = ReplayOf(n + 1, TRUE)
      BY <2>2, <2>3, <2>4, <2>9, ReplayRecordFacts
    <3>2. \A i \in 1 .. j + 1 : w[i][1] < n + 1
      <4>1. \A i \in 1 .. j : w[i][1] < n + 1
        BY <2>1, <2>4, <2>6, <2>9
      <4>2. w[j + 1][1] < n + 1
        BY <2>4, <2>9
      <4> QED
        BY <2>5, <4>1, <4>2
    <3>3. n + 1 = w[j + 1][1] + 1 /\ j + 1 \in 1 .. j + 1
      BY <2>2, <2>9
    <3>4. Reached(j + 1, n + 1, TRUE)
      BY <1>1, <2>4, <3>1, <3>2, <3>3
    <3>5. n + 1 \in 0 .. MaxSize
      BY <1>1, <3>1
    <3> HIDE DEF Reached
    <3> QED
      BY <2>2, <3>4, <3>5
  <2> QED
    BY <1>1, <2>4, <2>7, <2>8, <2>9
<1>4. Len(w) \in S
  <2> HIDE DEF S
  <2>1. 0 .. Len(w) \subseteq S
    BY <1>1, <1>2, <1>3, Induction
  <2> QED
    BY <1>1, <2>1
<1> QED
  BY <1>4 DEF Replay

\* Records that follow one another, from one the snapshot covers or the first
\* after it, replay without error.
LEMMA ReplayContiguous ==
    ASSUME SnapshotExact, NEW w \in Seq(Records), NEW lo \in 0 .. BaseSize,
           \A j \in 1 .. Len(w) : w[j][1] = lo + j - 1
    PROVE  Replay(w).ok
<1> DEFINE size(j) == Larger(BaseSize, lo + j)
           S == {j \in Nat :
                    size(j) \in 0 .. MaxSize /\ ReplayStates(w)[j + 1] = ReplayOf(size(j), TRUE)}
<1>1. /\ Len(w) \in Nat /\ BaseSize \in 0 .. MaxSize /\ MaxSize \in Nat
      /\ BaseSize \in Nat /\ lo \in Nat /\ lo <= BaseSize
  BY BaseFacts, VindexAssumption
<1>2. 0 \in S
  <2>1. ReplayStates(w)[0 + 1] = ReplayOf(BaseSize, TRUE)
    <3>1. 0 + 1 = 1
      OBVIOUS
    <3> QED
      BY <1>1, <3>1, ReplaySteps, BaseFacts
  <2>2. size(0) = BaseSize
    BY <1>1 DEF Larger
  <2> HIDE DEF size
  <2> QED
    BY <1>1, <2>1, <2>2
<1>3. \A j \in 0 .. Len(w) - 1 : j \in S => j + 1 \in S
  <2> SUFFICES ASSUME NEW j \in 0 .. Len(w) - 1, j \in S PROVE j + 1 \in S
    BY Zenon
  <2> DEFINE r == w[j + 1]
             n == size(j)
  <2>1. /\ j + 1 \in 1 .. Len(w) /\ r \in Records /\ (j + 1) - 1 = j /\ j \in Nat /\ j + 1 \in Nat
        /\ r[1] = lo + j
    BY <1>1
  <2>2. n \in 0 .. MaxSize /\ ReplayStates(w)[j + 1] = ReplayOf(n, TRUE) /\ n >= BaseSize
    <3>1. n >= BaseSize
      BY <1>1, <2>1 DEF Larger
    <3> HIDE DEF size
    <3> QED
      BY <3>1
  <2>3. ReplayStates(w)[(j + 1) + 1] = ReplayRecord(ReplayOf(n, TRUE), r)
    BY <1>1, <2>1, <2>2, ReplaySteps
  <2>4. CASE lo + j < BaseSize
    <3>1. r[1] < BaseSize /\ size(j + 1) = n
      BY <1>1, <2>1, <2>4 DEF Larger
    <3> HIDE DEF n, r, size
    <3>2. ReplayStates(w)[(j + 1) + 1] = ReplayOf(n, TRUE)
      BY <2>1, <2>2, <2>3, <3>1, ReplayRecordFacts
    <3> QED
      BY <2>1, <2>2, <3>1, <3>2
  <2>5. CASE ~(lo + j < BaseSize)
    <3>1. r[1] = n /\ size(j + 1) = n + 1
      BY <1>1, <2>1, <2>5 DEF Larger
    <3> HIDE DEF n, r, size
    <3>2. n < MaxSize /\ ReplayStates(w)[(j + 1) + 1] = ReplayOf(n + 1, TRUE)
      BY <2>1, <2>2, <2>3, <3>1, ReplayRecordFacts
    <3>3. n + 1 \in 0 .. MaxSize
      BY <1>1, <2>2, <3>2
    <3> QED
      BY <2>1, <3>1, <3>2, <3>3
  <2> QED
    BY <2>4, <2>5
<1>4. Len(w) \in S
  <2> HIDE DEF S
  <2>1. 0 .. Len(w) \subseteq S
    BY <1>1, <1>2, <1>3, Induction
  <2> QED
    BY <1>1, <2>1
<1> QED
  BY <1>4 DEF Replay, ReplayOf

-----------------------------------------------------------------------------
(* The rows of a cycle                                                      *)

\* The entries of the last cycle, or of the rebuild, are in the log, and the next
\* cycle reads them again unless they have been integrated: the tree never shrinks,
\* and a batch has a size of its own.
RowsRead ==
    /\ next_index \in 0 .. MaxSize
    /\ integrated_size \in 0 .. next_index
    /\ upto \in 0 .. next_index
    /\ upto <= integrated_size + BatchSize

\* A retried cycle covers the one before it.
LEMMA AlwaysRowsRead == Spec => []RowsRead
<1> USE VindexAssumption DEF RowsRead
<1>1. Init => RowsRead
  BY DEF Init
<1>2. RowsRead /\ [Next]_vars => RowsRead'
  <2> SUFFICES ASSUME RowsRead, [Next]_vars PROVE RowsRead'
    OBVIOUS
  <2>1. CASE Recover \/ RecoverFails \/ WipeWal
    BY <2>1 DEF Recover, RecoverFails, WipeWal, workerVars
  <2>2. CASE StartCycle
    BY <2>2 DEF StartCycle, Smaller
  <2>3. CASE IndexSkip \/ AppendWal \/ Insert \/ UpdateTreeSize \/ Flush \/ WriteSnapshot \/ TruncateWal
    BY <2>3 DEF IndexSkip, AppendWal, Insert, UpdateTreeSize, Flush, WriteSnapshot, TruncateWal,
                workerVars
  <2>4. CASE IndexRefused \/ AppendWalFails
    BY <2>4 DEF IndexRefused, AppendWalFails, EndWithError, Forget, workerVars
  <2>5. CASE MarkIntegrated
    BY <2>5 DEF MarkIntegrated, workerVars
  <2>6. CASE CallFails
    BY <2>6 DEF CallFails, EndWithError, Forget, workerVars
  <2>7. CASE Crash
    BY <2>7 DEF Crash, Forget
  <2>8. CASE OtherIntegrates \/ Sequence
    BY <2>8 DEF OtherIntegrates, Sequence, workerVars
  <2>9. CASE (\E k \in LookupKeys : Lookup(k)) \/ RootHash \/ Responded
    BY <2>9 DEF Lookup, RootHash, Responded, workerVars
  <2>10. CASE UNCHANGED vars
    BY <2>10 DEF vars, workerVars
  <2> QED
    BY <2>1, <2>2, <2>3, <2>4, <2>5, <2>6, <2>7, <2>8, <2>9, <2>10 DEF Next, ProcessStep
<1> QED
  BY <1>1, <1>2, PTL DEF Spec

-----------------------------------------------------------------------------
(* The inductive invariant                                                  *)

\* The types of the sizes and of the control state.
Types ==
    /\ integrated_size \in 0 .. MaxSize
    /\ pc \in {"boot", "wipe", "up", "index", "insert", "size", "mark", "snapshot", "truncate"}
    /\ rebuilding \in BOOLEAN /\ overtaken \in BOOLEAN
    /\ cursor \in 0 .. MaxSize /\ from \in 0 .. MaxSize /\ upto \in 0 .. MaxSize
    /\ tree_size \in 0 .. MaxSize
    /\ errors \in Nat /\ others \in Nat

\* The WAL is a sequence of records and torn records, a prefix of which is synced.
WalTypes == wal \in Seq(Records \cup {Torn}) /\ synced \in 0 .. Len(wal)

\* The snapshot is exact and never ahead of the database: snapshot is called for
\* what is marked, so "vindex snapshot is ahead of database state" never happens.
SnapshotBehind ==
    /\ SnapshotExact
    /\ BaseSize <= integrated_size
    /\ pc = "truncate" => BaseSize = tree_size

\* Where the worker, or the rebuild, is in its entries. An entry past the index
\* is there only at the start of a cycle, and refused.
CycleRight ==
    /\ pc \in {"boot", "wipe"} =>
        index = Empty /\ prefix_tree = Empty /\ tree_size = 0 /\ cursor = 0 /\ from = 0
    /\ pc = "boot" => ~rebuilding /\ ~overtaken /\ upto = 0 /\ result = <<>>
    /\ pc = "wipe" => rebuilding
    /\ pc \in {"index", "insert", "size", "mark"} => cursor <= upto /\ from < upto
    /\ pc \in {"insert", "size"} => cursor = tree_size /\ cursor < upto
    /\ pc = "insert" => ~IndexFull(index, cursor)
    /\ pc = "index" => cursor <= tree_size \/ cursor < upto
    /\ pc \in {"mark", "snapshot", "truncate"} => upto <= tree_size
    /\ pc # "up" => tree_size <= upto
    /\ tree_size <= upto \/ tree_size <= integrated_size
    /\ pc \in {"snapshot", "truncate"} => upto <= integrated_size

\* A rebuild is for the entries the database had marked when it began.
RebuildRight ==
    rebuilding =>
        /\ pc \in {"wipe", "index", "insert", "size", "snapshot", "truncate"}
        /\ upto <= integrated_size
        /\ ~overtaken => integrated_size <= upto

\* Every size that was indexed or integrated was within the limits.
SizesFit == FitsUpTo(integrated_size) /\ FitsUpTo(IndexedSize) /\ IndexedSize \in 0 .. MaxSize

\* Once recovered, memory holds the exact index of the entries it counts.
MemoryExact ==
    pc \notin {"boot", "wipe"} => index = IndexOf(IndexedSize) /\ prefix_tree = index

\* The size the WAL has reached.
LoggedSize == IF pc \in {"insert", "size"} THEN cursor + 1 ELSE tree_size

\* The WAL's records follow one another from lo, which the snapshot covers or
\* ends at, and those the database counts on are synced. A torn record is at the
\* end of what a crash left, where no record was synced.
WalCovers(lo) ==
    /\ \A j \in 1 .. Len(wal) : wal[j] = Torn => j > synced /\ pc = "boot"
    /\ \A j \in 1 .. Len(wal) : wal[j] # Torn => wal[j][1] = lo + j - 1
    /\ integrated_size <= lo + synced
    /\ pc # "boot" => lo + Len(wal) = LoggedSize

\* Unless a call has failed or another process has advanced the tree, the WAL
\* carries on from the snapshot, and nothing is marked before it is synced.
NoFaultYet ==
    errors = 0 /\ others = 0 =>
        /\ ~rebuilding /\ ~overtaken
        /\ pc \in {"mark", "snapshot", "truncate"} => synced = Len(wal)
        /\ \E lo \in 0 .. BaseSize : WalCovers(lo)

\* What the handlers respond with.
Responses ==
    [indices : Seq(0 .. MaxSize - 1), key : Keys, tree_size : 0 .. MaxSize, found : BOOLEAN,
     proof_root : {IndexOf(n) : n \in 0 .. MaxSize},
     root_hash : {IndexOf(n) : n \in 0 .. MaxSize},
     sent : BOOLEAN]

\* The inductive invariant. IndexExact follows from MemoryExact and SizesFit,
\* DiskCovers from NoFaultYet and SnapshotBehind.
VindexInv ==
    /\ Types
    /\ WalTypes
    /\ SnapshotBehind
    /\ CycleRight
    /\ RebuildRight
    /\ SizesFit
    /\ MemoryExact
    /\ IntegratedIsIndexed
    /\ NoFaultYet
    /\ result = <<>> \/ result \in Responses
    /\ LookupExact

-----------------------------------------------------------------------------
(* Recovery                                                                 *)

\* What a prefix of a sequence is, and a prefix with one element more.
LEMMA PrefixFacts ==
    ASSUME NEW R, NEW w \in Seq(R), NEW n \in 0 .. Len(w), NEW t \in R
    PROVE  /\ SubSeq(w, 1, n) \in Seq(R) /\ Len(SubSeq(w, 1, n)) = n
           /\ \A j \in 1 .. n : SubSeq(w, 1, n)[j] = w[j]
           /\ Append(SubSeq(w, 1, n), t) \in Seq(R) /\ Len(Append(SubSeq(w, 1, n), t)) = n + 1
           /\ \A j \in 1 .. n : Append(SubSeq(w, 1, n), t)[j] = w[j]
           /\ Append(SubSeq(w, 1, n), t)[n + 1] = t
<1> DEFINE s == SubSeq(w, 1, n)
<1>1. s \in Seq(R) /\ Len(s) = n
  OBVIOUS
<1>2. \A j \in 1 .. n : s[j] = w[j]
  OBVIOUS
<1> HIDE DEF s
<1>3. Append(s, t) \in Seq(R) /\ Len(Append(s, t)) = n + 1
  BY <1>1
<1>4. \A j \in 1 .. n : Append(s, t)[j] = s[j]
  BY <1>1
<1>5. Append(s, t)[n + 1] = t
  BY <1>1
<1> QED
  BY <1>1, <1>2, <1>3, <1>4, <1>5 DEF s

\* The records that a scan keeps.
LEMMA KeptFacts ==
    ASSUME NEW w \in Seq(Records \cup {Torn}), NEW e \in Nat
    PROVE  LET n == Scanned(w, e)
               kept == SubSeq(w, 1, n)
           IN /\ n \in 0 .. Len(w)
              /\ kept \in Seq(Records) /\ Len(kept) = n
              /\ \A j \in 1 .. n : kept[j] = w[j] /\ kept[j][1] < e
<1> DEFINE n == Scanned(w, e)
           kept == SubSeq(w, 1, n)
           R == Records \cup {Torn}
<1>1. n \in 0 .. Len(w) /\ \A j \in 1 .. n : w[j] \in Records /\ w[j][1] < e
  BY ScannedFacts
<1>2. Len(w) \in Nat /\ Torn \in R /\ w \in Seq(R)
  OBVIOUS
<1> HIDE DEF n, R
<1>3. kept \in Seq(R) /\ Len(kept) = n /\ \A j \in 1 .. n : kept[j] = w[j]
  BY <1>1, <1>2, PrefixFacts
<1> HIDE DEF kept
<1>4. kept \in [1 .. n -> Records]
  <2>1. DOMAIN kept = 1 .. n /\ \A j \in 1 .. n : kept[j] \in Records
    BY <1>1, <1>3
  <2>2. kept = [j \in 1 .. n |-> kept[j]]
    BY <1>3, <2>1
  <2> QED
    BY <2>1, <2>2
<1>5. kept \in Seq(Records)
  BY <1>1, <1>2, <1>4
<1> QED
  BY <1>1, <1>3, <1>5 DEF n, kept

\* Recovery that goes through ends at exactly the database's size: the records
\* reach it, and none that is kept goes past it.
LEMMA RecoverExact ==
    ASSUME VindexInv, Recoverable(integrated_size)
    PROVE  Replay(SubSeq(wal, 1, Scanned(wal, integrated_size))) = ReplayOf(integrated_size, TRUE)
<1> DEFINE e == integrated_size
           kept == SubSeq(wal, 1, Scanned(wal, e))
<1>1. /\ SnapshotExact /\ BaseSize <= e /\ e \in Nat
      /\ BaseSize \in Nat
      /\ wal \in Seq(Records \cup {Torn})
  BY BaseFacts, VindexAssumption DEF VindexInv, SnapshotBehind, Types, WalTypes
<1>2. /\ kept \in Seq(Records) /\ Len(kept) \in Nat
      /\ \A j \in 1 .. Len(kept) : kept[j] \in Records /\ kept[j][1] < e
  <2>1. /\ Scanned(wal, e) \in 0 .. Len(wal) /\ kept \in Seq(Records) /\ Len(kept) = Scanned(wal, e)
        /\ \A j \in 1 .. Scanned(wal, e) : kept[j][1] < e
    BY <1>1, KeptFacts
  <2> HIDE DEF kept
  <2> QED
    BY <2>1
<1>3. Larger(BaseSize, WalSize(kept)) >= e /\ Replay(kept).ok
  BY DEF Recoverable
<1> HIDE DEF kept, e
<1>4. PICK n \in 0 .. MaxSize, b \in BOOLEAN :
         /\ Replay(kept) = ReplayOf(n, b)
         /\ n >= BaseSize
         /\ b => \A i \in 1 .. Len(kept) : kept[i][1] < n
         /\ n = BaseSize \/ \E i \in 1 .. Len(kept) : n = kept[i][1] + 1
  BY <1>1, <1>2, ReplayExact
<1>5. b = TRUE
  <2>1. ReplayOf(n, b).ok = b
    BY Zenon DEF ReplayOf
  <2> QED
    BY <1>3, <1>4, <2>1, Zenon
<1>6. n \in Nat /\ \A i \in 1 .. Len(kept) : kept[i][1] \in Nat
  BY <1>2, RecordFacts, VindexAssumption
<1>7. n <= e
  BY <1>1, <1>2, <1>4, <1>6
<1>8. n >= e
  <2>1. WalSize(kept) \in Nat
    BY <1>2, WalSizeFacts, VindexAssumption
  <2>2. CASE WalSize(kept) = 0
    BY <1>1, <1>3, <1>4, <1>6, <2>2 DEF Larger
  <2>3. CASE \E j \in 1 .. Len(kept) : kept[j][1] + 1 = WalSize(kept)
    <3>1. WalSize(kept) <= n
      BY <1>4, <1>5, <1>6, <2>1, <2>3
    <3> QED
      BY <1>1, <1>3, <1>4, <1>6, <2>1, <3>1 DEF Larger
  <2> QED
    BY <1>2, <2>2, <2>3, WalSizeFacts
<1>9. n = e
  BY <1>1, <1>6, <1>7, <1>8
<1> QED
  BY <1>4, <1>5, <1>9 DEF kept, e

\* Records that follow one another from one the snapshot covers, and of which the
\* s first are intact and reach the size e, recover e.
LEMMA CoveredRecovers ==
    ASSUME SnapshotExact, NEW w \in Seq(Records \cup {Torn}), NEW e \in Nat, BaseSize <= e,
           NEW lo \in 0 .. BaseSize, NEW s \in 0 .. Len(w), e <= lo + s,
           \A j \in 1 .. Len(w) : w[j] = Torn => j > s,
           \A j \in 1 .. Len(w) : w[j] # Torn => w[j][1] = lo + j - 1
    PROVE  LET kept == SubSeq(w, 1, Scanned(w, e))
           IN /\ lo + Scanned(w, e) = e
              /\ Larger(BaseSize, WalSize(kept)) >= e
              /\ Replay(kept).ok
<1> DEFINE n == Scanned(w, e)
           kept == SubSeq(w, 1, n)
<1>1. /\ Len(w) \in Nat /\ BaseSize \in Nat /\ lo \in Nat /\ lo <= BaseSize /\ s \in Nat
      /\ s <= Len(w)
  BY BaseFacts, VindexAssumption
<1>2. /\ n \in 0 .. Len(w)
      /\ n < Len(w) => w[n + 1] = Torn \/ w[n + 1][1] >= e
      /\ kept \in Seq(Records) /\ Len(kept) = n
      /\ \A j \in 1 .. n : w[j] \in Records /\ w[j][1] < e /\ kept[j] = w[j]
  BY ScannedFacts, KeptFacts
<1> HIDE DEF n, kept
<1>3. n \in Nat /\ \A j \in 1 .. n : kept[j][1] = lo + j - 1
  <2>1. n \in Nat
    BY <1>1, <1>2
  <2>2. \A j \in 1 .. n : j \in 1 .. Len(w)
    BY <1>1, <1>2
  <2>3. \A j \in 1 .. n : w[j] # Torn
    BY <1>2, RecordFacts
  <2>4. \A j \in 1 .. n : w[j][1] = lo + j - 1
    BY <2>2, <2>3
  <2> QED
    BY <1>2, <2>1, <2>4
<1>4. lo + n = e
  <2>1. lo + n <= e
    <3>1. CASE n = 0
      BY <1>1, <3>1
    <3>2. CASE n # 0
      <4>1. n \in 1 .. n
        BY <1>1, <1>2, <3>2
      <4>2. w[n][1] < e /\ kept[n] = w[n] /\ kept[n][1] = lo + n - 1
        BY <1>2, <1>3, <4>1
      <4> QED
        BY <1>1, <1>2, <4>2
    <3> QED
      BY <3>1, <3>2
  <2>2. ~(lo + n < e)
    <3> SUFFICES ASSUME lo + n < e PROVE FALSE
      OBVIOUS
    <3>1. n + 1 \in 1 .. Len(w) /\ n + 1 <= s /\ n < Len(w)
      BY <1>1, <1>2
    <3>2. w[n + 1] # Torn /\ w[n + 1][1] = lo + n
      BY <1>1, <1>2, <3>1
    <3>3. w[n + 1][1] >= e
      BY <1>2, <3>1, <3>2
    <3> QED
      BY <1>1, <1>2, <3>2, <3>3
  <2> QED
    BY <1>1, <1>3, <2>1, <2>2
<1>5. Replay(kept).ok
  BY <1>2, <1>3, ReplayContiguous
<1>6. Larger(BaseSize, WalSize(kept)) >= e
  <2>1. WalSize(kept) \in Nat
    BY <1>2, WalSizeFacts, VindexAssumption
  <2>2. CASE n = 0
    BY <1>1, <1>4, <2>1, <2>2 DEF Larger
  <2>3. CASE n # 0
    <3>1. n \in 1 .. Len(kept)
      BY <1>1, <1>2, <2>3
    <3>2. kept[n][1] < WalSize(kept) /\ kept[n][1] = lo + n - 1
      BY <1>2, <1>3, <3>1, WalSizeFacts
    <3> QED
      BY <1>1, <1>2, <1>4, <2>1, <3>2 DEF Larger
  <2> QED
    BY <2>2, <2>3
<1> QED
  BY <1>4, <1>5, <1>6 DEF n, kept

\* Recovery goes through: memory is exact, and the WAL is cut to what was replayed.
LEMMA RecoverInv ==
    ASSUME VindexInv, Recover
    PROVE  VindexInv'
<1> DEFINE n == Scanned(wal, integrated_size)
           kept == SubSeq(wal, 1, n)
<1>1. /\ pc = "boot" /\ pc' = "up" /\ BaseSize <= integrated_size
      /\ UNCHANGED <<integrated_size, snapshot, rebuilding, cursor, from, upto, result,
                     overtaken, errors, others>>
  BY DEF Recover, Recoverable, workerVars, counters
<1>2. /\ wal \in Seq(Records \cup {Torn}) /\ synced \in 0 .. Len(wal) /\ Len(wal) \in Nat
      /\ integrated_size \in 0 .. MaxSize /\ integrated_size \in Nat /\ BaseSize \in Nat
      /\ SnapshotExact
  BY BaseFacts, VindexAssumption DEF VindexInv, Types, WalTypes, SnapshotBehind
<1>3. wal' = kept /\ synced' = IF n < Len(wal) THEN n ELSE synced
  <2>1. ~(BaseSize > integrated_size)
    BY <1>1, <1>2
  <2> QED
    BY <2>1 DEF Recover, TruncatedWal
<1>4. Replay(kept) = ReplayOf(integrated_size, TRUE)
  BY RecoverExact DEF Recover
<1>5. index' = IndexOf(integrated_size) /\ prefix_tree' = index' /\ tree_size' = integrated_size
  <2>1. index' = Replay(kept).index /\ prefix_tree' = Replay(kept).index
          /\ tree_size' = Replay(kept).tree_size
    BY DEF Recover
  <2>2. /\ ReplayOf(integrated_size, TRUE).index = IndexOf(integrated_size)
        /\ ReplayOf(integrated_size, TRUE).tree_size = integrated_size
    BY DEF ReplayOf
  <2> QED
    BY <1>4, <2>1, <2>2, Zenon
<1>6. /\ n \in 0 .. Len(wal) /\ n \in Nat /\ kept \in Seq(Records) /\ Len(kept) = n
      /\ \A j \in 1 .. n : kept[j] = wal[j] /\ kept[j] \in Records
  <2>1. /\ n \in 0 .. Len(wal) /\ kept \in Seq(Records) /\ Len(kept) = n
        /\ \A j \in 1 .. n : kept[j] = wal[j]
    BY <1>2, KeptFacts
  <2> HIDE DEF n, kept
  <2> QED
    BY <1>2, <2>1
<1> HIDE DEF n, kept
<1>7. Types'
  BY <1>1, <1>5 DEF VindexInv, Types
<1>8. WalTypes'
  <2> DEFINE R == Records \cup {Torn}
  <2>1. Records \subseteq R
    OBVIOUS
  <2> HIDE DEF R
  <2>2. kept \in Seq(R)
    BY <1>6, <2>1
  <2>3. synced' \in 0 .. n
    BY <1>2, <1>3, <1>6
  <2> QED
    BY <1>3, <1>6, <2>2, <2>3 DEF WalTypes, R
<1>9. SnapshotBehind'
  BY <1>1, <1>2 DEF SnapshotBehind, SnapshotExact, BaseSize
<1>10. CycleRight'
  BY <1>1, <1>2, <1>5 DEF VindexInv, CycleRight
<1>11. RebuildRight' /\ IntegratedIsIndexed'
  BY <1>1, <1>2, <1>5 DEF VindexInv, CycleRight, RebuildRight, IntegratedIsIndexed
<1>12. SizesFit' /\ MemoryExact'
  BY <1>1, <1>2, <1>5 DEF VindexInv, SizesFit, MemoryExact, IndexedSize
<1>13. NoFaultYet'
  <2> SUFFICES ASSUME errors = 0, others = 0 PROVE NoFaultYet'
    BY <1>1 DEF NoFaultYet
  <2>1. PICK lo \in 0 .. BaseSize : WalCovers(lo)
    BY DEF VindexInv, NoFaultYet
  <2>2. BaseSize' = BaseSize /\ lo \in Nat
    BY <1>1, <1>2 DEF BaseSize
  <2>3. /\ \A j \in 1 .. Len(wal) : wal[j] = Torn => j > synced
        /\ \A j \in 1 .. Len(wal) : wal[j] # Torn => wal[j][1] = lo + j - 1
        /\ integrated_size <= lo + synced
    BY <2>1 DEF WalCovers
  <2>4. lo + n = integrated_size
    BY <1>1, <1>2, <2>3, CoveredRecovers DEF n
  <2>5. WalCovers(lo)'
    <3>1. \A j \in 1 .. Len(wal') : wal'[j] # Torn /\ wal'[j][1] = lo + j - 1
      <4>1. \A j \in 1 .. n : j \in 1 .. Len(wal)
        BY <1>2, <1>6
      <4>2. \A j \in 1 .. n : kept[j] # Torn
        BY <1>6, RecordFacts
      <4> QED
        BY <1>3, <1>6, <2>3, <4>1, <4>2
    <3>2. integrated_size <= lo + synced'
      BY <1>2, <1>3, <1>6, <2>2, <2>3, <2>4
    <3>3. lo + Len(wal') = LoggedSize'
      BY <1>1, <1>3, <1>5, <1>6, <2>4 DEF LoggedSize
    <3> QED
      BY <1>1, <3>1, <3>2, <3>3 DEF WalCovers
  <2> QED
    BY <1>1, <2>2, <2>5 DEF VindexInv, NoFaultYet
<1>14. (result = <<>> \/ result \in Responses)' /\ LookupExact'
  BY <1>1 DEF VindexInv, CycleRight, LookupExact
<1> QED
  BY <1>7, <1>8, <1>9, <1>10, <1>11, <1>12, <1>13, <1>14 DEF VindexInv

\* As long as nothing failed, what is durable recovers: of the records that a scan
\* of the whole WAL keeps, and of its synced part alone.
LEMMA NoFaultRecovers ==
    ASSUME VindexInv, errors = 0, others = 0
    PROVE  Recoverable(integrated_size) /\ DiskCovers
<1> DEFINE e == integrated_size
           R == Records \cup {Torn}
<1>1. /\ SnapshotExact /\ BaseSize <= e /\ e \in Nat /\ BaseSize \in Nat
      /\ wal \in Seq(R) /\ synced \in 0 .. Len(wal) /\ Len(wal) \in Nat
  BY BaseFacts, VindexAssumption DEF VindexInv, SnapshotBehind, Types, WalTypes
<1>2. PICK lo \in 0 .. BaseSize : WalCovers(lo)
  BY DEF VindexInv, NoFaultYet
<1>3. /\ \A j \in 1 .. Len(wal) : wal[j] = Torn => j > synced
      /\ \A j \in 1 .. Len(wal) : wal[j] # Torn => wal[j][1] = lo + j - 1
      /\ e <= lo + synced
  BY <1>2 DEF WalCovers
<1>4. Recoverable(e)
  BY <1>1, <1>3, CoveredRecovers DEF Recoverable
<1>5. DiskCovers
  <2> DEFINE w == SubSeq(wal, 1, synced)
             n == Scanned(w, e)
  <2>1. Torn \in R
    OBVIOUS
  <2> HIDE DEF R
  <2>2. w \in Seq(R) /\ Len(w) = synced /\ \A j \in 1 .. synced : w[j] = wal[j]
    BY <1>1, <2>1, PrefixFacts
  <2> HIDE DEF w
  <2>3. \A j \in 1 .. synced : j \in 1 .. Len(wal)
    BY <1>1
  <2>4. /\ \A j \in 1 .. Len(w) : w[j] = Torn => j > synced
        /\ \A j \in 1 .. Len(w) : w[j] # Torn => w[j][1] = lo + j - 1
        /\ synced \in 0 .. Len(w)
    BY <1>1, <1>3, <2>2, <2>3
  <2>5. w \in Seq(Records \cup {Torn})
    BY <2>2 DEF R
  <2>6. Larger(BaseSize, WalSize(SubSeq(w, 1, n))) >= e /\ Replay(SubSeq(w, 1, n)).ok
    BY <1>1, <1>3, <2>4, <2>5, CoveredRecovers
  <2>7. n \in 0 .. Len(w)
    BY <1>1, <2>5, ScannedFacts
  <2> HIDE DEF n
  <2>8. SubSeq(w, 1, n) = SubSeq(wal, 1, n)
    <3>1. n \in 0 .. synced /\ n \in 0 .. Len(wal) /\ n \in Nat
      BY <1>1, <2>2, <2>7
    <3>2. /\ SubSeq(w, 1, n) \in Seq(R) /\ Len(SubSeq(w, 1, n)) = n
          /\ \A j \in 1 .. n : SubSeq(w, 1, n)[j] = w[j]
      BY <2>1, <2>2, <3>1, PrefixFacts
    <3>3. /\ SubSeq(wal, 1, n) \in Seq(R) /\ Len(SubSeq(wal, 1, n)) = n
          /\ \A j \in 1 .. n : SubSeq(wal, 1, n)[j] = wal[j]
      BY <1>1, <2>1, <3>1, PrefixFacts
    <3> DEFINE s == SubSeq(w, 1, n)
               t == SubSeq(wal, 1, n)
    <3> HIDE DEF s, t
    <3>4. \A j \in 1 .. n : s[j] = t[j]
      <4>1. \A j \in 1 .. n : j \in 1 .. synced
        BY <1>1, <3>1
      <4> QED
        BY <2>2, <3>2, <3>3, <4>1 DEF s, t
    <3>5. s \in Seq(R) /\ Len(s) = n /\ t \in Seq(R) /\ Len(t) = n
      BY <3>2, <3>3 DEF s, t
    <3>6. s = t
      BY <3>1, <3>4, <3>5
    <3> QED
      BY <3>6 DEF s, t
  <2>9. ~rebuilding
    BY DEF VindexInv, NoFaultYet
  <2> QED
    BY <2>6, <2>8, <2>9 DEF DiskCovers, n, w
<1> QED
  BY <1>4, <1>5

\* Recovery is refused: the rebuild drops the snapshot. Without a failed call this
\* never happens.
LEMMA RecoverFailsInv ==
    ASSUME VindexInv, RecoverFails
    PROVE  VindexInv'
<1> DEFINE n == Scanned(wal, integrated_size)
<1>1. /\ pc = "boot" /\ pc' = "wipe" /\ snapshot' = NoSnapshot /\ rebuilding' = TRUE
      /\ upto' = integrated_size
      /\ UNCHANGED <<integrated_size, index, prefix_tree, tree_size, cursor, from, result,
                     overtaken, errors, others>>
  BY DEF RecoverFails, indexVars, counters
<1>2. /\ wal \in Seq(Records \cup {Torn}) /\ synced \in 0 .. Len(wal) /\ Len(wal) \in Nat
      /\ integrated_size \in 0 .. MaxSize /\ integrated_size \in Nat /\ BaseSize \in Nat
      /\ BaseSize <= integrated_size
  BY BaseFacts, VindexAssumption DEF VindexInv, Types, WalTypes, SnapshotBehind
<1>3. wal' = SubSeq(wal, 1, n) /\ synced' = IF n < Len(wal) THEN n ELSE synced
  <2>1. ~(BaseSize > integrated_size)
    BY <1>2
  <2> QED
    BY <2>1 DEF RecoverFails, TruncatedWal
<1>4. ~rebuilding /\ ~overtaken /\ tree_size = 0 /\ cursor = 0 /\ from = 0 /\ result = <<>>
      /\ index = Empty /\ prefix_tree = Empty
  BY <1>1 DEF VindexInv, CycleRight
<1>5. Types'
  BY <1>1, <1>2 DEF VindexInv, Types
<1>6. WalTypes'
  <2> DEFINE R == Records \cup {Torn}
  <2>1. n \in 0 .. Len(wal)
    BY <1>2, ScannedFacts
  <2>2. Torn \in R /\ wal \in Seq(R)
    BY <1>2
  <2> HIDE DEF n, R
  <2>3. wal' \in Seq(R) /\ Len(wal') = n
    BY <1>3, <2>1, <2>2, PrefixFacts
  <2>4. synced' \in 0 .. n
    BY <1>2, <1>3, <2>1
  <2> QED
    BY <2>3, <2>4 DEF WalTypes, R
<1>7. SnapshotBehind'
  BY <1>1, <1>2 DEF SnapshotBehind, SnapshotExact, BaseSize
<1>8. CycleRight' /\ RebuildRight'
  BY <1>1, <1>2, <1>4 DEF CycleRight, RebuildRight
<1>9. SizesFit'
  BY <1>1 DEF VindexInv, SizesFit, IndexedSize
<1>10. MemoryExact' /\ IntegratedIsIndexed'
  BY <1>1 DEF MemoryExact, IntegratedIsIndexed, Serving
<1>11. NoFaultYet'
  BY <1>1, NoFaultRecovers DEF NoFaultYet, RecoverFails
<1>12. (result = <<>> \/ result \in Responses)' /\ LookupExact'
  BY <1>1, <1>4 DEF LookupExact
<1> QED
  BY <1>5, <1>6, <1>7, <1>8, <1>9, <1>10, <1>11, <1>12 DEF VindexInv

\* The rebuild starts from nothing; without entries it is over.
LEMMA WipeWalInv ==
    ASSUME VindexInv, WipeWal
    PROVE  VindexInv'
<1> USE DEF diskVars, indexVars, workerVars, counters
<1>1. Types'
  BY DEF VindexInv, Types, WipeWal
<1>2. WalTypes'
  BY DEF VindexInv, WalTypes, WipeWal
<1>3. SnapshotBehind'
  BY DEF VindexInv, SnapshotBehind, SnapshotExact, BaseSize, WipeWal
<1>4. CycleRight'
  BY DEF VindexInv, CycleRight, WipeWal
<1>5. RebuildRight'
  BY DEF VindexInv, RebuildRight, CycleRight, WipeWal
<1>6. SizesFit'
  BY DEF VindexInv, SizesFit, IndexedSize, WipeWal
<1>7. MemoryExact'
  <2>1. index = IndexOf(0) /\ prefix_tree = index /\ tree_size = 0
    BY IndexOfNone DEF VindexInv, CycleRight, WipeWal
  <2> QED
    BY <2>1 DEF IndexedSize, MemoryExact, WipeWal, indexVars
<1>8. IntegratedIsIndexed'
  <2>1. upto > 0 => rebuilding'
    BY DEF WipeWal
  <2>2. ~overtaken => integrated_size <= upto
    BY DEF VindexInv, RebuildRight, CycleRight, WipeWal
  <2>3. upto \in Nat /\ integrated_size \in Nat /\ tree_size = 0
    BY VindexAssumption DEF VindexInv, Types, CycleRight, WipeWal
  <2> QED
    BY <2>1, <2>2, <2>3 DEF IntegratedIsIndexed, Serving, WipeWal, indexVars, counters
<1>9. NoFaultYet'
  BY DEF VindexInv, NoFaultYet, CycleRight, WipeWal
<1>10. (result = <<>> \/ result \in Responses)'
  BY DEF VindexInv, WipeWal
<1>11. LookupExact'
  BY DEF VindexInv, LookupExact, WipeWal
<1> QED
  BY <1>1, <1>2, <1>3, <1>4, <1>5, <1>6, <1>7, <1>8, <1>9, <1>10, <1>11 DEF VindexInv

-----------------------------------------------------------------------------
(* The cycle                                                                *)

\* A cycle starts where the database is, at or below the index.
LEMMA StartCycleInv ==
    ASSUME VindexInv, RowsRead, StartCycle
    PROVE  VindexInv'
<1> USE DEF diskVars, indexVars, workerVars, counters
<1>1. Types'
  BY VindexAssumption DEF VindexInv, Types, RowsRead, StartCycle, Smaller
<1>2. WalTypes'
  BY DEF VindexInv, WalTypes, StartCycle
<1>3. SnapshotBehind'
  BY DEF VindexInv, SnapshotBehind, SnapshotExact, BaseSize, StartCycle
<1>4. CycleRight'
  <2>1. upto' >= upto /\ upto' > integrated_size
    BY VindexAssumption DEF RowsRead, StartCycle, Smaller
  <2> QED
    BY <2>1, <1>1 DEF VindexInv, CycleRight, Types, StartCycle
<1>5. RebuildRight'
  BY DEF VindexInv, RebuildRight, StartCycle
<1>6. SizesFit'
  BY DEF VindexInv, SizesFit, IndexedSize, StartCycle
<1>7. MemoryExact'
  BY DEF VindexInv, MemoryExact, IndexedSize, StartCycle
<1>8. IntegratedIsIndexed'
  BY DEF VindexInv, IntegratedIsIndexed, Serving, StartCycle
<1>9. NoFaultYet'
  BY DEF VindexInv, NoFaultYet, WalCovers, LoggedSize, BaseSize, StartCycle
<1>10. (result = <<>> \/ result \in Responses)'
  BY DEF VindexInv, StartCycle
<1>11. LookupExact'
  BY DEF VindexInv, LookupExact, StartCycle
<1> QED
  BY <1>1, <1>2, <1>3, <1>4, <1>5, <1>6, <1>7, <1>8, <1>9, <1>10, <1>11 DEF VindexInv

\* An entry that is indexed already is passed over.
LEMMA IndexSkipInv ==
    ASSUME VindexInv, IndexSkip
    PROVE  VindexInv'
<1> USE DEF diskVars, indexVars, workerVars, counters
<1>1. Types'
  BY VindexAssumption DEF VindexInv, Types, IndexSkip
<1>2. WalTypes'
  BY DEF VindexInv, WalTypes, IndexSkip
<1>3. SnapshotBehind'
  BY DEF VindexInv, SnapshotBehind, SnapshotExact, BaseSize, IndexSkip
<1>4. CycleRight'
  BY DEF VindexInv, CycleRight, Types, IndexSkip, AlreadyIndexed
<1>5. RebuildRight'
  BY DEF VindexInv, RebuildRight, IndexSkip
<1>6. SizesFit'
  BY DEF VindexInv, SizesFit, IndexedSize, IndexSkip
<1>7. MemoryExact'
  BY DEF VindexInv, MemoryExact, IndexedSize, IndexSkip
<1>8. IntegratedIsIndexed'
  BY DEF VindexInv, IntegratedIsIndexed, Serving, IndexSkip
<1>9. NoFaultYet'
  BY DEF VindexInv, NoFaultYet, WalCovers, LoggedSize, BaseSize, IndexSkip
<1>10. (result = <<>> \/ result \in Responses)'
  BY DEF VindexInv, IndexSkip
<1>11. LookupExact'
  BY DEF VindexInv, LookupExact, IndexSkip
<1> QED
  BY <1>1, <1>2, <1>3, <1>4, <1>5, <1>6, <1>7, <1>8, <1>9, <1>10, <1>11 DEF VindexInv

\* The record written is the next one.
LEMMA AppendWalInv ==
    ASSUME VindexInv, AppendWal
    PROVE  VindexInv'
<1> USE DEF diskVars, indexVars, workerVars, counters
<1>1. Types'
  BY DEF VindexInv, Types, AppendWal
<1>2. WalTypes'
  <2> DEFINE R == Records \cup {Torn}
  <2>1. Record(cursor) \in R
    BY VindexAssumption DEF VindexInv, Types, AppendWal, Records
  <2>2. wal \in Seq(R) /\ synced \in 0 .. Len(wal)
    BY DEF VindexInv, WalTypes
  <2>3. wal' = Append(wal, Record(cursor)) /\ synced' = synced
    BY DEF AppendWal
  <2> HIDE DEF R
  <2>4. wal' \in Seq(R) /\ Len(wal') = Len(wal) + 1
    BY <2>1, <2>2, <2>3
  <2> QED
    BY <2>2, <2>3, <2>4 DEF WalTypes, R
<1>3. SnapshotBehind'
  BY DEF VindexInv, SnapshotBehind, SnapshotExact, BaseSize, AppendWal
<1>4. CycleRight'
  BY DEF VindexInv, CycleRight, AppendWal, Refused, Gap
<1>5. RebuildRight'
  BY DEF VindexInv, RebuildRight, AppendWal
<1>6. SizesFit'
  <2>1. cursor = tree_size /\ cursor \in 0 .. MaxSize - 1 /\ cursor + 1 \in 0 .. MaxSize
          /\ pc = "index"
    BY VindexAssumption DEF VindexInv, Types, AppendWal, AlreadyIndexed, Refused, Gap
  <2>2. FitsUpTo(integrated_size) /\ FitsUpTo(cursor)
    BY <2>1 DEF VindexInv, SizesFit, IndexedSize
  <2>3. KeysAt(cursor) = {} => FitsUpTo(cursor + 1)
    BY <2>1, <2>2, FitsUpToStep
  <2>4. integrated_size' = integrated_size /\ cursor' = cursor /\ tree_size' = tree_size
    BY DEF AppendWal, workerVars, indexVars
  <2>5. pc' = IF KeysAt(cursor) = {} THEN "size" ELSE "insert"
    BY DEF AppendWal
  <2>6. CASE KeysAt(cursor) = {}
    BY <2>1, <2>2, <2>3, <2>4, <2>5, <2>6 DEF SizesFit, IndexedSize
  <2>7. CASE KeysAt(cursor) # {}
    <3>1. pc' = "insert" /\ cursor \in 0 .. MaxSize
      BY <2>1, <2>5, <2>7, VindexAssumption
    <3> QED
      BY <2>1, <2>2, <2>4, <3>1 DEF SizesFit, IndexedSize
  <2> QED
    BY <2>6, <2>7
<1>7. MemoryExact'
  <2>1. cursor = tree_size /\ cursor \in 0 .. MaxSize - 1 /\ cursor \in 0 .. MaxSize /\ pc = "index"
    BY VindexAssumption DEF VindexInv, Types, AppendWal, AlreadyIndexed, Refused, Gap
  <2>2. index = IndexOf(cursor) /\ prefix_tree = index
    BY <2>1 DEF VindexInv, MemoryExact, IndexedSize
  <2>3. KeysAt(cursor) = {} => IndexOf(cursor + 1) = IndexOf(cursor)
    BY <2>1, IndexStep, PushedNothing
  <2>4. UNCHANGED <<index, prefix_tree, tree_size, cursor>>
    BY DEF AppendWal, workerVars, indexVars
  <2>5. pc' = IF KeysAt(cursor) = {} THEN "size" ELSE "insert"
    BY DEF AppendWal
  <2>6. CASE KeysAt(cursor) = {}
    BY <2>1, <2>2, <2>3, <2>4, <2>5, <2>6 DEF MemoryExact, IndexedSize
  <2>7. CASE KeysAt(cursor) # {}
    BY <2>1, <2>2, <2>4, <2>5, <2>7 DEF MemoryExact, IndexedSize
  <2> QED
    BY <2>6, <2>7
<1>8. IntegratedIsIndexed'
  BY DEF VindexInv, IntegratedIsIndexed, Serving, AppendWal
<1>9. NoFaultYet'
  <2> SUFFICES ASSUME errors' = 0, others' = 0 PROVE NoFaultYet'
    BY DEF NoFaultYet
  <2>1. /\ ~rebuilding /\ ~overtaken
        /\ UNCHANGED <<rebuilding, overtaken, snapshot, synced, integrated_size>>
        /\ pc' \in {"insert", "size"} /\ pc = "index" /\ cursor' = cursor /\ cursor = tree_size
        /\ cursor \in Nat
    BY VindexAssumption DEF VindexInv, Types, NoFaultYet, AppendWal, AlreadyIndexed, Refused,
           Gap, workerVars, counters
  <2>2. PICK lo \in 0 .. BaseSize : WalCovers(lo)
    BY DEF VindexInv, NoFaultYet, AppendWal, counters
  <2>3. lo \in Nat /\ BaseSize' = BaseSize
    BY <2>1, BaseFacts, VindexAssumption DEF VindexInv, SnapshotBehind, BaseSize
  <2> DEFINE R == Records \cup {Torn}
             r == Record(cursor)
  <2>4. /\ r \in R /\ r[1] = cursor /\ r # Torn
        /\ wal \in Seq(R) /\ synced \in 0 .. Len(wal) /\ wal' = Append(wal, r)
    <3>1. r \in Records
      BY VindexAssumption DEF VindexInv, Types, AppendWal, Records
    <3>2. r[1] = cursor /\ r # Torn
      BY <3>1, RecordFacts
    <3>3. wal \in Seq(R) /\ synced \in 0 .. Len(wal) /\ wal' = Append(wal, r)
      BY DEF VindexInv, WalTypes, AppendWal
    <3> QED
      BY <3>1, <3>2, <3>3
  <2>5. lo + Len(wal) = cursor
    BY <2>1, <2>2 DEF WalCovers, LoggedSize
  <2> HIDE DEF R, r
  <2>6. Len(wal') = Len(wal) + 1 /\ Len(wal) \in Nat
    BY <2>4
  <2>7. \A j \in 1 .. Len(wal') :
            (j \in 1 .. Len(wal) /\ wal'[j] = wal[j]) \/ (j = Len(wal) + 1 /\ wal'[j] = r)
    BY <2>4, <2>6
  <2>8. WalCovers(lo)'
    <3>1. \A j \in 1 .. Len(wal') : wal'[j] = Torn => j > synced /\ pc' = "boot"
      BY <2>1, <2>2, <2>4, <2>7 DEF WalCovers
    <3>2. \A j \in 1 .. Len(wal') : wal'[j] # Torn => wal'[j][1] = lo + j - 1
      <4> TAKE j \in 1 .. Len(wal')
      <4>1. CASE j \in 1 .. Len(wal) /\ wal'[j] = wal[j]
        BY <2>2, <4>1 DEF WalCovers
      <4>2. CASE j = Len(wal) + 1 /\ wal'[j] = r
        BY <2>3, <2>4, <2>5, <2>6, <4>2
      <4> QED
        BY <2>7, <4>1, <4>2
    <3>3. integrated_size' <= lo + synced'
      BY <2>1, <2>2 DEF WalCovers
    <3>4. lo + Len(wal') = LoggedSize'
      BY <2>1, <2>3, <2>5, <2>6 DEF LoggedSize
    <3> QED
      BY <2>1, <3>1, <3>2, <3>3, <3>4 DEF WalCovers
  <2>9. pc' \notin {"mark", "snapshot", "truncate"}
    BY <2>1
  <2> QED
    BY <2>1, <2>3, <2>8, <2>9 DEF NoFaultYet
<1>10. (result = <<>> \/ result \in Responses)'
  BY DEF VindexInv, AppendWal
<1>11. LookupExact'
  BY DEF VindexInv, LookupExact, AppendWal
<1> QED
  BY <1>1, <1>2, <1>3, <1>4, <1>5, <1>6, <1>7, <1>8, <1>9, <1>10, <1>11 DEF VindexInv

\* The entry goes into index and prefix tree.
LEMMA InsertInv ==
    ASSUME VindexInv, Insert
    PROVE  VindexInv'
<1> USE DEF diskVars, indexVars, workerVars, counters
<1>1. Types'
  BY DEF VindexInv, Types, Insert
<1>2. WalTypes'
  BY DEF VindexInv, WalTypes, Insert
<1>3. SnapshotBehind'
  BY DEF VindexInv, SnapshotBehind, SnapshotExact, BaseSize, Insert
<1>4. CycleRight'
  BY DEF VindexInv, CycleRight, Insert
<1>5. RebuildRight'
  BY DEF VindexInv, RebuildRight, Insert
<1>6. SizesFit'
  <2>1. cursor = tree_size /\ cursor \in 0 .. MaxSize - 1 /\ cursor + 1 \in 0 .. MaxSize
          /\ pc = "insert"
    BY VindexAssumption DEF VindexInv, Types, CycleRight, Insert
  <2>2. FitsUpTo(integrated_size) /\ FitsUpTo(cursor) /\ index = IndexOf(cursor)
    BY <2>1 DEF VindexInv, SizesFit, MemoryExact, IndexedSize
  <2>3. FitsUpTo(cursor + 1)
    BY <2>1, <2>2, FitsUpToStep DEF VindexInv, CycleRight
  <2> QED
    BY <2>1, <2>2, <2>3 DEF SizesFit, IndexedSize, Insert, workerVars
<1>7. MemoryExact'
  <2>1. cursor = tree_size /\ cursor \in 0 .. MaxSize - 1 /\ pc = "insert"
    BY VindexAssumption DEF VindexInv, Types, CycleRight, Insert
  <2>2. index = IndexOf(cursor) /\ prefix_tree = index
    BY <2>1 DEF VindexInv, MemoryExact, IndexedSize
  <2>3. index' = IndexOf(cursor + 1) /\ prefix_tree' = index'
    BY <2>1, <2>2, IndexStep DEF Insert, NewLeaves
  <2> QED
    BY <2>3 DEF MemoryExact, IndexedSize, Insert, workerVars
<1>8. IntegratedIsIndexed'
  BY DEF VindexInv, IntegratedIsIndexed, Serving, Insert
<1>9. NoFaultYet'
  BY DEF VindexInv, NoFaultYet, WalCovers, LoggedSize, BaseSize, Insert
<1>10. (result = <<>> \/ result \in Responses)'
  BY DEF VindexInv, Insert
<1>11. LookupExact'
  BY DEF VindexInv, LookupExact, Insert
<1> QED
  BY <1>1, <1>2, <1>3, <1>4, <1>5, <1>6, <1>7, <1>8, <1>9, <1>10, <1>11 DEF VindexInv

\* The tree size catches up.
LEMMA UpdateTreeSizeInv ==
    ASSUME VindexInv, UpdateTreeSize
    PROVE  VindexInv'
<1> USE DEF diskVars, indexVars, workerVars, counters
<1>1. Types'
  BY VindexAssumption DEF VindexInv, Types, UpdateTreeSize, Larger, CycleRight
<1>2. WalTypes'
  BY DEF VindexInv, WalTypes, UpdateTreeSize
<1>3. SnapshotBehind'
  BY DEF VindexInv, SnapshotBehind, SnapshotExact, BaseSize, UpdateTreeSize
<1>4. CycleRight'
  BY DEF VindexInv, CycleRight, Types, UpdateTreeSize, Larger
<1>5. RebuildRight'
  BY DEF VindexInv, RebuildRight, UpdateTreeSize
<1>6. SizesFit'
  BY DEF VindexInv, SizesFit, IndexedSize, Types, CycleRight, UpdateTreeSize, Larger
<1>7. MemoryExact'
  BY DEF VindexInv, MemoryExact, IndexedSize, Types, CycleRight, UpdateTreeSize, Larger
<1>8. IntegratedIsIndexed'
  BY DEF VindexInv, IntegratedIsIndexed, Serving, Types, UpdateTreeSize, Larger
<1>9. NoFaultYet'
  BY DEF VindexInv, NoFaultYet, WalCovers, LoggedSize, BaseSize, Types, CycleRight,
         UpdateTreeSize, Larger
<1>10. (result = <<>> \/ result \in Responses)'
  BY DEF VindexInv, UpdateTreeSize
<1>11. LookupExact'
  BY DEF VindexInv, LookupExact, UpdateTreeSize
<1> QED
  BY <1>1, <1>2, <1>3, <1>4, <1>5, <1>6, <1>7, <1>8, <1>9, <1>10, <1>11 DEF VindexInv

\* Everything in the WAL is durable before the mark.
LEMMA FlushInv ==
    ASSUME VindexInv, Flush
    PROVE  VindexInv'
<1> USE DEF diskVars, indexVars, workerVars, counters
<1>1. Types'
  BY DEF VindexInv, Types, Flush
<1>2. WalTypes'
  BY DEF VindexInv, WalTypes, Flush, SyncedTo
<1>3. SnapshotBehind'
  BY DEF VindexInv, SnapshotBehind, SnapshotExact, BaseSize, Flush
<1>4. CycleRight'
  BY DEF VindexInv, CycleRight, Types, Flush, RebuildRight
<1>5. RebuildRight'
  BY DEF VindexInv, RebuildRight, Flush
<1>6. SizesFit'
  BY DEF VindexInv, SizesFit, IndexedSize, Flush
<1>7. MemoryExact'
  BY DEF VindexInv, MemoryExact, IndexedSize, Flush
<1>8. IntegratedIsIndexed'
  BY DEF VindexInv, IntegratedIsIndexed, Serving, Flush
<1>9. NoFaultYet'
  BY DEF VindexInv, NoFaultYet, WalCovers, LoggedSize, BaseSize, Types, WalTypes, CycleRight,
         Flush, SyncedTo, RebuildRight
<1>10. (result = <<>> \/ result \in Responses)'
  BY DEF VindexInv, Flush
<1>11. LookupExact'
  BY DEF VindexInv, LookupExact, Flush
<1> QED
  BY <1>1, <1>2, <1>3, <1>4, <1>5, <1>6, <1>7, <1>8, <1>9, <1>10, <1>11 DEF VindexInv

\* The database marks what is indexed and durable.
LEMMA MarkIntegratedInv ==
    ASSUME VindexInv, MarkIntegrated
    PROVE  VindexInv'
<1> USE DEF diskVars, indexVars, workerVars, counters
<1>1. Types'
  BY DEF VindexInv, Types, MarkIntegrated, StillCurrent
<1>2. WalTypes'
  BY DEF VindexInv, WalTypes, MarkIntegrated, StillCurrent
<1>3. SnapshotBehind'
  <2>1. BaseSize \in Nat /\ BaseSize <= integrated_size /\ BaseSize' = BaseSize /\ SnapshotExact'
    BY BaseFacts, VindexAssumption DEF VindexInv, SnapshotBehind, SnapshotExact, BaseSize,
           MarkIntegrated, StillCurrent, diskVars
  <2>2. integrated_size \in Nat /\ integrated_size' \in Nat /\ integrated_size <= integrated_size'
    BY VindexAssumption DEF VindexInv, Types, CycleRight, workerVars, MarkIntegrated, StillCurrent
  <2> QED
    BY <2>1, <2>2 DEF SnapshotBehind, MarkIntegrated, StillCurrent
<1>4. CycleRight'
  BY DEF VindexInv, CycleRight, Types, MarkIntegrated, StillCurrent
<1>5. RebuildRight'
  BY DEF VindexInv, RebuildRight, MarkIntegrated, StillCurrent
<1>6. SizesFit'
  BY DEF VindexInv, SizesFit, IndexedSize, Types, CycleRight, MarkIntegrated, StillCurrent
<1>7. MemoryExact'
  BY DEF VindexInv, MemoryExact, IndexedSize, MarkIntegrated, StillCurrent
<1>8. IntegratedIsIndexed'
  BY DEF VindexInv, IntegratedIsIndexed, Serving, CycleRight, MarkIntegrated, StillCurrent
<1>9. NoFaultYet'
  <2> SUFFICES ASSUME errors' = 0, others' = 0 PROVE NoFaultYet'
    BY DEF NoFaultYet
  <2>1. /\ ~rebuilding /\ ~overtaken /\ synced = Len(wal) /\ pc = "mark"
        /\ pc' \in {"up", "snapshot"}
        /\ UNCHANGED <<rebuilding, overtaken, wal, synced, snapshot, tree_size>>
    BY DEF VindexInv, NoFaultYet, MarkIntegrated, StillCurrent, diskVars, indexVars, workerVars, counters
  <2>2. PICK lo \in 0 .. BaseSize : WalCovers(lo)
    BY DEF VindexInv, NoFaultYet, MarkIntegrated, StillCurrent, counters
  <2>3. BaseSize' = BaseSize
    BY <2>1 DEF BaseSize
  <2>4. lo + Len(wal) = tree_size /\ integrated_size <= lo + synced
    BY <2>1, <2>2 DEF WalCovers, LoggedSize
  <2>5. integrated_size' <= lo + synced'
    <3>1. integrated_size' = integrated_size \/ integrated_size' = upto
      BY DEF MarkIntegrated, StillCurrent
    <3>2. upto <= tree_size
      BY <2>1 DEF VindexInv, CycleRight
    <3> QED
      BY <2>1, <2>4, <3>1, <3>2
  <2>6. WalCovers(lo)'
    BY <2>1, <2>2, <2>4, <2>5 DEF WalCovers, LoggedSize
  <2> QED
    BY <2>1, <2>3, <2>6 DEF NoFaultYet
<1>10. (result = <<>> \/ result \in Responses)'
  BY DEF VindexInv, MarkIntegrated, StillCurrent
<1>11. LookupExact'
  BY DEF VindexInv, LookupExact, MarkIntegrated, StillCurrent
<1> QED
  BY <1>1, <1>2, <1>3, <1>4, <1>5, <1>6, <1>7, <1>8, <1>9, <1>10, <1>11 DEF VindexInv

\* The snapshot is of what the database has marked.
LEMMA WriteSnapshotInv ==
    ASSUME VindexInv, WriteSnapshot
    PROVE  VindexInv'
<1> USE DEF diskVars, indexVars, workerVars, counters
<1>1. Types'
  BY DEF VindexInv, Types, WriteSnapshot
<1>2. WalTypes'
  BY DEF VindexInv, WalTypes, WriteSnapshot
<1>3. SnapshotBehind'
  <2>1. tree_size \in 0 .. MaxSize /\ tree_size <= integrated_size /\ integrated_size \in Nat
          /\ index = IndexOf(tree_size)
    BY VindexAssumption DEF VindexInv, Types, CycleRight, MemoryExact, IndexedSize, WriteSnapshot
  <2>2. snapshot' = [tree_size |-> tree_size, index |-> IndexOf(tree_size)]
    BY <2>1 DEF WriteSnapshot
  <2>3. BaseSize' = tree_size
    BY <2>1, <2>2, SnapshotFacts DEF BaseSize
  <2>4. SnapshotExact'
    BY <2>1, <2>2 DEF SnapshotExact
  <2> QED
    BY <2>1, <2>3, <2>4 DEF SnapshotBehind, WriteSnapshot, indexVars
<1>4. CycleRight'
  BY DEF VindexInv, CycleRight, WriteSnapshot
<1>5. RebuildRight'
  BY DEF VindexInv, RebuildRight, WriteSnapshot
<1>6. SizesFit'
  BY DEF VindexInv, SizesFit, IndexedSize, WriteSnapshot
<1>7. MemoryExact'
  BY DEF VindexInv, MemoryExact, IndexedSize, WriteSnapshot
<1>8. IntegratedIsIndexed'
  BY DEF VindexInv, IntegratedIsIndexed, Serving, WriteSnapshot
<1>9. NoFaultYet'
  <2> SUFFICES ASSUME errors' = 0, others' = 0 PROVE NoFaultYet'
    BY DEF NoFaultYet
  <2>1. /\ ~rebuilding /\ ~overtaken
        /\ UNCHANGED <<rebuilding, overtaken, wal, integrated_size, tree_size, cursor>>
        /\ synced = Len(wal) /\ synced' = Len(wal) /\ pc = "snapshot" /\ pc' = "truncate"
    BY DEF VindexInv, NoFaultYet, WriteSnapshot, indexVars, workerVars, counters
  <2>2. PICK lo \in 0 .. BaseSize : WalCovers(lo)
    BY DEF VindexInv, NoFaultYet, WriteSnapshot, counters
  <2>3. lo \in Nat /\ tree_size \in 0 .. MaxSize /\ Len(wal) \in Nat /\ lo + Len(wal) = tree_size
    BY <2>1, <2>2, BaseFacts, VindexAssumption
       DEF VindexInv, SnapshotBehind, Types, WalTypes, WalCovers, LoggedSize
  <2>4. BaseSize' = tree_size
    BY <1>3, <2>1 DEF SnapshotBehind
  <2>5. WalCovers(lo)'
    BY <2>1, <2>2 DEF WalCovers, LoggedSize
  <2> QED
    BY <2>1, <2>3, <2>4, <2>5 DEF NoFaultYet
<1>10. (result = <<>> \/ result \in Responses)'
  BY DEF VindexInv, WriteSnapshot
<1>11. LookupExact'
  BY DEF VindexInv, LookupExact, WriteSnapshot
<1> QED
  BY <1>1, <1>2, <1>3, <1>4, <1>5, <1>6, <1>7, <1>8, <1>9, <1>10, <1>11 DEF VindexInv

\* The snapshot covers what the WAL held.
LEMMA TruncateWalInv ==
    ASSUME VindexInv, TruncateWal
    PROVE  VindexInv'
<1> USE DEF diskVars, indexVars, workerVars, counters
<1>1. Types'
  BY DEF VindexInv, Types, TruncateWal
<1>2. WalTypes'
  BY DEF WalTypes, TruncateWal
<1>3. SnapshotBehind'
  BY DEF VindexInv, SnapshotBehind, SnapshotExact, BaseSize, TruncateWal
<1>4. CycleRight'
  BY DEF VindexInv, CycleRight, TruncateWal
<1>5. RebuildRight'
  BY DEF VindexInv, RebuildRight, TruncateWal
<1>6. SizesFit'
  BY DEF VindexInv, SizesFit, IndexedSize, TruncateWal
<1>7. MemoryExact'
  BY DEF VindexInv, MemoryExact, IndexedSize, TruncateWal
<1>8. IntegratedIsIndexed'
  BY DEF VindexInv, IntegratedIsIndexed, Serving, Types, CycleRight, RebuildRight, TruncateWal
<1>9. NoFaultYet'
  <2> SUFFICES ASSUME errors' = 0, others' = 0 PROVE NoFaultYet'
    BY DEF NoFaultYet
  <2>1. /\ ~rebuilding /\ ~overtaken /\ ~rebuilding' /\ ~overtaken'
        /\ UNCHANGED <<snapshot, integrated_size, tree_size>>
        /\ wal' = <<>> /\ synced' = 0 /\ pc = "truncate" /\ pc' = "up"
    BY DEF VindexInv, NoFaultYet, TruncateWal, counters
  <2>2. BaseSize' = tree_size /\ BaseSize' \in 0 .. BaseSize' /\ integrated_size <= tree_size
          /\ tree_size \in Nat
    BY <2>1, VindexAssumption DEF VindexInv, SnapshotBehind, BaseSize, Types,
           IntegratedIsIndexed, Serving
  <2>3. Len(wal') = 0
    BY <2>1
  <2>4. WalCovers(BaseSize)'
    BY <2>1, <2>2, <2>3 DEF WalCovers, LoggedSize
  <2> QED
    BY <2>1, <2>2, <2>4 DEF NoFaultYet
<1>10. (result = <<>> \/ result \in Responses)'
  BY DEF VindexInv, TruncateWal
<1>11. LookupExact'
  BY DEF VindexInv, LookupExact, TruncateWal
<1> QED
  BY <1>1, <1>2, <1>3, <1>4, <1>5, <1>6, <1>7, <1>8, <1>9, <1>10, <1>11 DEF VindexInv

-----------------------------------------------------------------------------
(* Failures                                                                 *)

\* The process is gone, by a crash or a failed rebuild: what is on disk and in the
\* database is all that is left.
LEMMA StopInv ==
    ASSUME VindexInv, Forget, pc' = "boot", snapshot' = snapshot,
           integrated_size' \in 0 .. MaxSize, integrated_size <= integrated_size',
           FitsUpTo(integrated_size'), errors' \in Nat, others' = others, WalTypes', NoFaultYet'
    PROVE  VindexInv'
<1> USE DEF diskVars, indexVars, workerVars, counters
<1>1. Types'
  <2>1. rebuilding' \in BOOLEAN /\ overtaken' \in BOOLEAN
    BY Zenon DEF Forget
  <2> QED
    BY <2>1, VindexAssumption DEF VindexInv, Types, Forget
<1>2. WalTypes'
  OBVIOUS
<1>3. SnapshotBehind'
  BY DEF VindexInv, SnapshotBehind, SnapshotExact, BaseSize, Types
<1>4. CycleRight'
  BY DEF VindexInv, CycleRight, Forget
<1>5. RebuildRight'
  BY DEF VindexInv, RebuildRight, Forget
<1>6. SizesFit'
  <2>1. 0 \in 0 .. integrated_size' /\ 0 \in 0 .. MaxSize /\ \A m \in 0 .. 0 : m = 0
    BY VindexAssumption
  <2>2. FitsUpTo(0)
    BY <2>1 DEF FitsUpTo
  <2> QED
    BY <2>1, <2>2 DEF SizesFit, IndexedSize, Forget
<1>7. MemoryExact'
  BY DEF VindexInv, MemoryExact
<1>8. IntegratedIsIndexed'
  BY DEF VindexInv, IntegratedIsIndexed, Serving
<1>9. NoFaultYet'
  OBVIOUS
<1>10. (result = <<>> \/ result \in Responses)'
  BY DEF VindexInv, Forget
<1>11. LookupExact'
  BY DEF VindexInv, LookupExact, Forget
<1> QED
  BY <1>1, <1>2, <1>3, <1>4, <1>5, <1>6, <1>7, <1>8, <1>9, <1>10, <1>11 DEF VindexInv

\* An error ended the cycle: memory is kept, and the mark may have been made.
LEMMA GiveUpInv ==
    ASSUME VindexInv, ~rebuilding, pc \in {"index", "mark", "snapshot", "truncate"}, pc' = "up",
           UNCHANGED <<indexVars, workerVars, result, overtaken>>, snapshot' = snapshot,
           \/ integrated_size' = integrated_size
           \/ pc = "mark" /\ integrated_size = from /\ integrated_size' = upto,
           errors' \in Nat, others' = others, WalTypes', NoFaultYet'
    PROVE  VindexInv'
<1> USE DEF diskVars, indexVars, workerVars, counters
<1>1. Types'
  BY DEF VindexInv, Types
<1>2. WalTypes'
  OBVIOUS
<1>3. SnapshotBehind'
  <2>1. BaseSize \in Nat /\ BaseSize <= integrated_size /\ BaseSize' = BaseSize /\ SnapshotExact'
    BY BaseFacts, VindexAssumption DEF VindexInv, SnapshotBehind, SnapshotExact, BaseSize
  <2>2. integrated_size \in Nat /\ integrated_size' \in Nat /\ integrated_size <= integrated_size'
    BY VindexAssumption DEF VindexInv, Types, CycleRight, workerVars
  <2> QED
    BY <2>1, <2>2 DEF SnapshotBehind
<1>4. CycleRight'
  BY DEF VindexInv, CycleRight
<1>5. RebuildRight'
  BY DEF VindexInv, RebuildRight
<1>6. SizesFit'
  BY DEF VindexInv, SizesFit, IndexedSize, Types, CycleRight
<1>7. MemoryExact'
  BY DEF VindexInv, MemoryExact, IndexedSize
<1>8. IntegratedIsIndexed'
  BY DEF VindexInv, IntegratedIsIndexed, Serving, CycleRight
<1>9. NoFaultYet'
  OBVIOUS
<1>10. (result = <<>> \/ result \in Responses)'
  BY DEF VindexInv
<1>11. LookupExact'
  BY DEF VindexInv, LookupExact
<1> QED
  BY <1>1, <1>2, <1>3, <1>4, <1>5, <1>6, <1>7, <1>8, <1>9, <1>10, <1>11 DEF VindexInv

\* A limit, or a gap, refuses the entry.
LEMMA IndexRefusedInv ==
    ASSUME VindexInv, IndexRefused
    PROVE  VindexInv'
<1>1. /\ pc \in {"index", "mark", "snapshot", "truncate"} /\ EndWithError /\ others' = others
      /\ snapshot' = snapshot /\ errors' \in Nat
      /\ \/ integrated_size' = integrated_size
         \/ pc = "mark" /\ integrated_size = from /\ integrated_size' = upto
  BY DEF IndexRefused, VindexInv, Types, diskVars
<1>2. WalTypes'
  BY DEF IndexRefused, diskVars, VindexInv, WalTypes
<1>3. NoFaultYet'
  <2> SUFFICES ASSUME errors = 0, others = 0 PROVE NoFaultYet'
    BY DEF NoFaultYet, IndexRefused
  <2>1. ~rebuilding /\ ~overtaken
    BY DEF VindexInv, NoFaultYet
  <2>2. pc' = "up" /\ UNCHANGED <<indexVars, workerVars, result, overtaken>>
    BY <1>1, <2>1 DEF EndWithError
  <2> QED
    BY <2>1, <2>2
       DEF VindexInv, NoFaultYet, WalCovers, LoggedSize, BaseSize, IndexRefused, diskVars,
           indexVars, workerVars
<1>4. CASE rebuilding
  <2>1. Forget /\ pc' = "boot"
    BY <1>1, <1>4 DEF EndWithError
  <2>2. pc # "mark" /\ integrated_size' = integrated_size /\ integrated_size \in Nat
    BY <1>1, <1>4, VindexAssumption DEF VindexInv, RebuildRight, Types
  <2>3. integrated_size' \in 0 .. MaxSize /\ integrated_size <= integrated_size'
          /\ FitsUpTo(integrated_size')
    BY <2>2 DEF VindexInv, Types, SizesFit
  <2> QED
    BY <1>1, <1>2, <1>3, <2>1, <2>3, StopInv
<1>5. CASE ~rebuilding
  <2>1. pc' = "up" /\ UNCHANGED <<indexVars, workerVars, result, overtaken>>
    BY <1>1, <1>5 DEF EndWithError
  <2> QED
    BY <1>1, <1>2, <1>3, <1>5, <2>1, GiveUpInv
<1> QED
  BY <1>4, <1>5

\* A failed append may leave a torn record.
LEMMA AppendWalFailsInv ==
    ASSUME VindexInv, AppendWalFails
    PROVE  VindexInv'
<1>1. /\ pc \in {"index", "mark", "snapshot", "truncate"} /\ EndWithError /\ others' = others
      /\ snapshot' = snapshot /\ errors' \in Nat
      /\ \/ integrated_size' = integrated_size
         \/ pc = "mark" /\ integrated_size = from /\ integrated_size' = upto
  BY DEF AppendWalFails, VindexInv, Types
<1>2. WalTypes'
  <2> DEFINE R == Records \cup {Torn}
  <2>1. wal \in Seq(R) /\ synced \in 0 .. Len(wal) /\ Torn \in R
    BY DEF VindexInv, WalTypes
  <2>2. (wal' = wal \/ wal' = Append(wal, Torn)) /\ synced' = synced
    BY DEF AppendWalFails
  <2> HIDE DEF R
  <2>3. wal' \in Seq(R) /\ Len(wal') >= Len(wal) /\ Len(wal') \in Nat /\ Len(wal) \in Nat
    BY <2>1, <2>2
  <2> QED
    BY <2>1, <2>2, <2>3 DEF WalTypes, R
<1>3. NoFaultYet'
  BY DEF AppendWalFails, NoFaultYet, VindexInv, Types
<1>4. CASE rebuilding
  <2>1. Forget /\ pc' = "boot"
    BY <1>1, <1>4 DEF EndWithError
  <2>2. pc # "mark" /\ integrated_size' = integrated_size /\ integrated_size \in Nat
    BY <1>1, <1>4, VindexAssumption DEF VindexInv, RebuildRight, Types
  <2>3. integrated_size' \in 0 .. MaxSize /\ integrated_size <= integrated_size'
          /\ FitsUpTo(integrated_size')
    BY <2>2 DEF VindexInv, Types, SizesFit
  <2> QED
    BY <1>1, <1>2, <1>3, <2>1, <2>3, StopInv
<1>5. CASE ~rebuilding
  <2>1. pc' = "up" /\ UNCHANGED <<indexVars, workerVars, result, overtaken>>
    BY <1>1, <1>5 DEF EndWithError
  <2> QED
    BY <1>1, <1>2, <1>3, <1>5, <2>1, GiveUpInv
<1> QED
  BY <1>4, <1>5

\* Any other call fails: the cycle ends, or the process does.
LEMMA CallFailsInv ==
    ASSUME VindexInv, CallFails
    PROVE  VindexInv'
<1>1. /\ pc \in {"index", "mark", "snapshot", "truncate"} /\ EndWithError /\ others' = others
      /\ snapshot' = snapshot /\ errors' \in Nat
      /\ \/ integrated_size' = integrated_size
         \/ pc = "mark" /\ integrated_size = from /\ integrated_size' = upto
  BY DEF CallFails, StillCurrent, VindexInv, Types
<1>2. WalTypes'
  <2>1. (wal' = wal /\ synced' = synced) \/ (wal' = <<>> /\ synced' = 0)
    BY DEF CallFails, StillCurrent
  <2>2. CASE wal' = <<>> /\ synced' = 0
    BY <2>2 DEF WalTypes
  <2>3. CASE wal' = wal /\ synced' = synced
    BY <2>3 DEF VindexInv, WalTypes
  <2> QED
    BY <2>1, <2>2, <2>3
<1>3. NoFaultYet'
  BY DEF CallFails, StillCurrent, NoFaultYet, VindexInv, Types
<1>4. CASE rebuilding
  <2>1. Forget /\ pc' = "boot"
    BY <1>1, <1>4 DEF EndWithError
  <2>2. pc # "mark" /\ integrated_size' = integrated_size /\ integrated_size \in Nat
    BY <1>1, <1>4, VindexAssumption DEF VindexInv, RebuildRight, Types
  <2>3. integrated_size' \in 0 .. MaxSize /\ integrated_size <= integrated_size'
          /\ FitsUpTo(integrated_size')
    BY <2>2 DEF VindexInv, Types, SizesFit
  <2> QED
    BY <1>1, <1>2, <1>3, <2>1, <2>3, StopInv
<1>5. CASE ~rebuilding
  <2>1. pc' = "up" /\ UNCHANGED <<indexVars, workerVars, result, overtaken>>
    BY <1>1, <1>5 DEF EndWithError
  <2> QED
    BY <1>1, <1>2, <1>3, <1>5, <2>1, GiveUpInv
<1> QED
  BY <1>4, <1>5

\* A crash keeps what is on disk, a power loss what is synced and some of the rest.
LEMMA CrashInv ==
    ASSUME VindexInv, Crash
    PROVE  VindexInv'
<1> DEFINE R == Records \cup {Torn}
<1>1. wal \in Seq(R) /\ synced \in 0 .. Len(wal) /\ Torn \in R /\ Len(wal) \in Nat /\ synced \in Nat
  BY DEF VindexInv, WalTypes
<1>2. PICK n \in synced .. Len(wal) :
         wal' = SubSeq(wal, 1, n) \/ wal' = Append(SubSeq(wal, 1, n), Torn)
  BY DEF Crash
<1>3. /\ Forget /\ pc' = "boot" /\ snapshot' = snapshot /\ synced' = synced
      /\ integrated_size' = integrated_size /\ errors' = errors /\ others' = others
  BY DEF Crash
<1> HIDE DEF R
<1>4. n \in 0 .. Len(wal) /\ n \in Nat /\ synced <= n
  BY <1>1, <1>2
<1>5. /\ wal' \in Seq(R) /\ Len(wal') \in {n, n + 1}
      /\ \A j \in 1 .. Len(wal') : \/ j \in 1 .. Len(wal) /\ wal'[j] = wal[j]
                                   \/ j > synced /\ wal'[j] = Torn
  <2>1. CASE wal' = SubSeq(wal, 1, n)
    <3>1. wal' \in Seq(R) /\ Len(wal') = n /\ \A j \in 1 .. n : wal'[j] = wal[j]
      BY <1>1, <1>4, <2>1, PrefixFacts
    <3> QED
      BY <1>1, <1>4, <3>1
  <2>2. CASE wal' = Append(SubSeq(wal, 1, n), Torn)
    <3>1. /\ wal' \in Seq(R) /\ Len(wal') = n + 1
          /\ \A j \in 1 .. n : wal'[j] = wal[j]
          /\ wal'[n + 1] = Torn
      BY <1>1, <1>4, <2>2, PrefixFacts
    <3>2. \A j \in 1 .. n + 1 : j \in 1 .. n \/ j = n + 1
      BY <1>4
    <3> QED
      BY <1>1, <1>4, <3>1, <3>2
  <2> QED
    BY <1>2, <2>1, <2>2
<1>6. WalTypes'
  BY <1>1, <1>3, <1>4, <1>5 DEF WalTypes, R
<1>7. NoFaultYet'
  <2> SUFFICES ASSUME errors = 0, others = 0 PROVE NoFaultYet'
    BY <1>3 DEF NoFaultYet
  <2>1. PICK lo \in 0 .. BaseSize : WalCovers(lo)
    BY DEF VindexInv, NoFaultYet
  <2>2. BaseSize' = BaseSize
    BY <1>3 DEF BaseSize
  <2>3. WalCovers(lo)'
    <3>1. \A j \in 1 .. Len(wal') : wal'[j] = Torn => j > synced
      BY <1>5, <2>1 DEF WalCovers
    <3>2. \A j \in 1 .. Len(wal') : wal'[j] # Torn => wal'[j][1] = lo + j - 1
      BY <1>5, <2>1 DEF WalCovers
    <3>3. integrated_size <= lo + synced
      BY <2>1 DEF WalCovers
    <3> QED
      BY <1>3, <3>1, <3>2, <3>3 DEF WalCovers
  <2>4. ~rebuilding' /\ ~overtaken'
    BY <1>3 DEF Forget
  <2> QED
    BY <1>3, <2>2, <2>3, <2>4 DEF NoFaultYet
<1>8. /\ integrated_size' \in 0 .. MaxSize /\ integrated_size <= integrated_size'
      /\ FitsUpTo(integrated_size') /\ errors' \in Nat
  BY <1>3, VindexAssumption DEF VindexInv, Types, SizesFit
<1> QED
  BY <1>3, <1>6, <1>7, <1>8, StopInv

\* Another process advances the tree, from an index within the same limits.
LEMMA OtherIntegratesInv ==
    ASSUME VindexInv, RowsRead, OtherIntegrates
    PROVE  VindexInv'
<1> USE DEF diskVars, indexVars, workerVars, counters
<1>1. Types'
  BY VindexAssumption DEF VindexInv, Types, RowsRead, OtherIntegrates
<1>2. WalTypes'
  BY DEF VindexInv, WalTypes, OtherIntegrates
<1>3. SnapshotBehind'
  BY DEF VindexInv, SnapshotBehind, SnapshotExact, BaseSize, Types, OtherIntegrates
<1>4. CycleRight'
  BY DEF VindexInv, CycleRight, Types, OtherIntegrates
<1>5. RebuildRight'
  <2>1. rebuilding' = rebuilding /\ pc' = pc /\ upto' = upto
          /\ integrated_size' = integrated_size + 1
    BY DEF OtherIntegrates, workerVars
  <2>2. rebuilding => overtaken'
    BY DEF VindexInv, RebuildRight, OtherIntegrates
  <2> QED
    BY <2>1, <2>2, VindexAssumption DEF VindexInv, Types, RebuildRight
<1>6. SizesFit'
  <2>1. integrated_size \in 0 .. MaxSize - 1 /\ integrated_size' = integrated_size + 1
    BY VindexAssumption DEF VindexInv, Types, RowsRead, OtherIntegrates
  <2>2. FitsUpTo(integrated_size + 1)
    BY <2>1, FitsUpToStep DEF VindexInv, SizesFit, OtherIntegrates
  <2> QED
    BY <2>1, <2>2 DEF VindexInv, SizesFit, IndexedSize, OtherIntegrates, workerVars, indexVars
<1>7. MemoryExact'
  BY DEF VindexInv, MemoryExact, IndexedSize, OtherIntegrates
<1>8. IntegratedIsIndexed'
  BY DEF VindexInv, IntegratedIsIndexed, Serving, OtherIntegrates
<1>9. NoFaultYet'
  BY DEF VindexInv, Types, NoFaultYet, OtherIntegrates
<1>10. (result = <<>> \/ result \in Responses)'
  BY DEF VindexInv, OtherIntegrates
<1>11. LookupExact'
  BY DEF VindexInv, LookupExact, OtherIntegrates
<1> QED
  BY <1>1, <1>2, <1>3, <1>4, <1>5, <1>6, <1>7, <1>8, <1>9, <1>10, <1>11 DEF VindexInv

\* What the invariant speaks of is unchanged: by a stutter, and when entries are
\* sequenced.
LEMMA FrameInv ==
    ASSUME VindexInv,
           UNCHANGED <<integrated_size, diskVars, indexVars, pc, workerVars, result, counters>>
    PROVE  VindexInv'
<1> USE DEF diskVars, indexVars, workerVars, counters
<1>1. Types' /\ WalTypes'
  BY DEF VindexInv, Types, WalTypes
<1>2. SnapshotBehind' /\ CycleRight' /\ RebuildRight'
  BY DEF VindexInv, SnapshotBehind, SnapshotExact, BaseSize, CycleRight, RebuildRight, IndexFull
<1>3. SizesFit' /\ MemoryExact' /\ IntegratedIsIndexed'
  BY DEF VindexInv, SizesFit, MemoryExact, IntegratedIsIndexed, Serving, IndexedSize
<1>4. NoFaultYet'
  BY DEF VindexInv, NoFaultYet, WalCovers, LoggedSize, BaseSize
<1>5. (result = <<>> \/ result \in Responses)' /\ LookupExact'
  BY DEF VindexInv, LookupExact
<1> QED
  BY <1>1, <1>2, <1>3, <1>4, <1>5 DEF VindexInv

-----------------------------------------------------------------------------
(* The handlers                                                             *)

\* The handlers change nothing but what they hold.
LEMMA HandlerFrame ==
    ASSUME VindexInv, result # <<>> \/ Serving,
           UNCHANGED <<integrated_size, diskVars, indexVars, pc, workerVars, counters>>
    PROVE  /\ Types' /\ WalTypes' /\ SnapshotBehind' /\ CycleRight' /\ RebuildRight' /\ SizesFit'
           /\ MemoryExact' /\ IntegratedIsIndexed' /\ NoFaultYet'
<1> USE DEF diskVars, indexVars, workerVars, counters
<1>1. Types' /\ WalTypes'
  BY DEF VindexInv, Types, WalTypes
<1>2. SnapshotBehind'
  BY DEF VindexInv, SnapshotBehind, SnapshotExact, BaseSize
<1>3. CycleRight'
  BY DEF VindexInv, CycleRight, Serving, IndexFull
<1>4. RebuildRight' /\ SizesFit' /\ MemoryExact'
  BY DEF VindexInv, RebuildRight, SizesFit, MemoryExact, IndexedSize
<1>5. IntegratedIsIndexed'
  BY DEF VindexInv, IntegratedIsIndexed, Serving
<1>6. NoFaultYet'
  BY DEF VindexInv, NoFaultYet, WalCovers, LoggedSize, BaseSize
<1> QED
  BY <1>1, <1>2, <1>3, <1>4, <1>5, <1>6

\* The size of the index that a lookup reads under the lock.
LEMMA ServedIndex ==
    ASSUME VindexInv, Serving
    PROVE  /\ IndexedSize \in {tree_size, tree_size + 1} /\ IndexedSize \in 0 .. MaxSize
           /\ index = IndexOf(IndexedSize) /\ prefix_tree = IndexOf(IndexedSize)
<1>1. IndexedSize \in {tree_size, tree_size + 1}
  BY DEF VindexInv, CycleRight, IndexedSize
<1> QED
  BY <1>1 DEF VindexInv, SizesFit, MemoryExact, Serving

\* A lookup reads list, size and proof of one index.
LEMMA LookupInv ==
    ASSUME VindexInv, NEW k \in LookupKeys, Lookup(k)
    PROVE  VindexInv'
<1> DEFINE n == IndexedSize
           list == IF k \in DOMAIN index THEN index[k] ELSE <<>>
<1>1. /\ Serving /\ UNCHANGED <<integrated_size, diskVars, indexVars, pc, workerVars, counters>>
      /\ result' = [indices |-> list, key |-> k, tree_size |-> tree_size, found |-> k \in DOMAIN prefix_tree,
                    proof_root |-> prefix_tree, root_hash |-> Empty, sent |-> FALSE]
  BY DEF Lookup
<1>2. /\ n \in {tree_size, tree_size + 1} /\ n \in 0 .. MaxSize
      /\ index = IndexOf(n) /\ prefix_tree = IndexOf(n)
  BY <1>1, ServedIndex
<1> HIDE DEF n
<1>3. list = IndicesBelow(k, n) /\ (k \in DOMAIN prefix_tree <=> list # <<>>)
  <2>1. DOMAIN index = KeysBelow(n) /\ (k \in KeysBelow(n) => index[k] = IndicesBelow(k, n))
    BY <1>2, IndexFacts
  <2>2. k \in KeysBelow(n) <=> EntriesWith(k, n) # {}
    BY <1>2, KeysFacts
  <2>3. IndicesBelow(k, n) = <<>> <=> EntriesWith(k, n) = {}
    BY <1>2, IndicesType
  <2>4. CASE k \in KeysBelow(n)
    BY <1>2, <2>1, <2>2, <2>3, <2>4
  <2>5. CASE k \notin KeysBelow(n)
    BY <1>2, <2>1, <2>2, <2>3, <2>5
  <2> QED
    BY <2>4, <2>5
<1>4. list \in Seq(0 .. MaxSize - 1) /\ k \in Keys /\ tree_size \in 0 .. MaxSize
        /\ Empty = IndexOf(0) /\ 0 \in 0 .. MaxSize
  BY <1>2, <1>3, IndicesType, IndexOfNone, VindexAssumption DEF VindexInv, Types
<1> HIDE DEF list
<1>5. (result \in Responses)'
  <2>1. (k \in DOMAIN prefix_tree) \in BOOLEAN /\ FALSE \in BOOLEAN
    OBVIOUS
  <2>2. prefix_tree \in {IndexOf(m) : m \in 0 .. MaxSize}
          /\ Empty \in {IndexOf(m) : m \in 0 .. MaxSize}
    BY <1>2, <1>4
  <2> QED
    BY <1>1, <1>4, <2>1, <2>2, Zenon DEF Responses
<1>6. LookupExact'
  <2>1. /\ result'.indices = list /\ result'.key = k /\ result'.tree_size = tree_size
        /\ result'.proof_root = prefix_tree
    BY <1>1
  <2>2. result'.found <=> k \in DOMAIN prefix_tree
    BY <1>1, Zenon
  <2>3. n <= MaxSize
    BY <1>2, VindexAssumption
  <2>4. n \in {result'.tree_size, result'.tree_size + 1}
    BY <1>2, <2>1
  <2>5. /\ n <= MaxSize
        /\ result'.indices = IndicesBelow(result'.key, n)
        /\ result'.proof_root = IndexOf(n)
        /\ result'.found <=> result'.indices # <<>>
    BY <1>2, <1>3, <2>1, <2>2, <2>3, Zenon
  <2> QED
    BY <2>4, <2>5, Zenon DEF LookupExact
<1> QED
  BY <1>1, <1>5, <1>6, HandlerFrame DEF VindexInv

\* The second read changes the root only.
LEMMA RootHashInv ==
    ASSUME VindexInv, RootHash
    PROVE  VindexInv'
<1>1. /\ Serving /\ UNCHANGED <<integrated_size, diskVars, indexVars, pc, workerVars, counters>>
      /\ result' = [result EXCEPT !.root_hash = prefix_tree, !.sent = TRUE]
      /\ result # <<>> /\ result \in Responses
  BY DEF RootHash, VindexInv
<1>2. prefix_tree \in {IndexOf(m) : m \in 0 .. MaxSize}
  BY <1>1, ServedIndex
<1>3. (result \in Responses)'
  BY <1>1, <1>2, Zenon DEF Responses
<1>4. /\ result'.indices = result.indices /\ result'.key = result.key
      /\ result'.tree_size = result.tree_size
      /\ result'.found = result.found /\ result'.proof_root = result.proof_root
  BY <1>1, Zenon DEF Responses
<1>5. LookupExact'
  BY <1>1, <1>4, Zenon DEF VindexInv, LookupExact
<1> QED
  BY <1>1, <1>3, <1>5, HandlerFrame DEF VindexInv

\* A response that is sent is forgotten.
LEMMA RespondedInv ==
    ASSUME VindexInv, Responded
    PROVE  VindexInv'
<1>1. /\ UNCHANGED <<integrated_size, diskVars, indexVars, pc, workerVars, counters>>
      /\ result # <<>> /\ result' = <<>>
  BY DEF Responded
<1>2. (result = <<>> \/ result \in Responses)' /\ LookupExact'
  BY <1>1 DEF LookupExact
<1> QED
  BY <1>1, <1>2, HandlerFrame DEF VindexInv

-----------------------------------------------------------------------------
(* The theorems                                                             *)

\* The initial state has nothing, anywhere.
LEMMA InitInv == Init => VindexInv
<1> SUFFICES ASSUME Init PROVE VindexInv
  OBVIOUS
<1> USE DEF Init
<1>1. Types /\ WalTypes
  <2>1. rebuilding \in BOOLEAN /\ overtaken \in BOOLEAN
    OBVIOUS
  <2> QED
    BY <2>1, VindexAssumption DEF Types, WalTypes
<1>2. SnapshotBehind
  BY DEF SnapshotBehind, SnapshotExact, BaseSize
<1>3. CycleRight /\ RebuildRight
  BY DEF CycleRight, RebuildRight
<1>4. SizesFit /\ MemoryExact
  <2>1. \A m \in 0 .. 0 : m = 0
    OBVIOUS
  <2>2. FitsUpTo(0)
    BY <2>1, NothingFits DEF FitsUpTo
  <2> QED
    BY <2>2, VindexAssumption DEF SizesFit, MemoryExact, IndexedSize
<1>5. IntegratedIsIndexed
  BY DEF IntegratedIsIndexed, Serving
<1>6. NoFaultYet
  <2>1. BaseSize = 0 /\ 0 \in 0 .. BaseSize /\ Len(wal) = 0
    BY DEF BaseSize
  <2>2. WalCovers(0)
    BY <2>1 DEF WalCovers
  <2> QED
    BY <2>1, <2>2 DEF NoFaultYet
<1>7. LookupExact
  BY DEF LookupExact
<1> QED
  BY <1>1, <1>2, <1>3, <1>4, <1>5, <1>6, <1>7 DEF VindexInv

\* One case for each action.
LEMMA StepInv == VindexInv /\ RowsRead /\ [Next]_vars => VindexInv'
<1> SUFFICES ASSUME VindexInv, RowsRead, [Next]_vars PROVE VindexInv'
  OBVIOUS
<1>1. CASE ProcessStep
  BY <1>1, RecoverInv, RecoverFailsInv, WipeWalInv, StartCycleInv, IndexSkipInv, IndexRefusedInv,
     AppendWalInv, InsertInv, UpdateTreeSizeInv, FlushInv, MarkIntegratedInv, WriteSnapshotInv,
     TruncateWalInv, Zenon
     DEF ProcessStep
<1>2. CASE AppendWalFails \/ CallFails \/ Crash \/ OtherIntegrates
  BY <1>2, AppendWalFailsInv, CallFailsInv, CrashInv, OtherIntegratesInv, Zenon
<1>3. CASE (\E k \in LookupKeys : Lookup(k)) \/ RootHash \/ Responded
  BY <1>3, LookupInv, RootHashInv, RespondedInv, Zenon
<1>4. CASE UNCHANGED vars
  BY <1>4, FrameInv DEF vars
<1>5. CASE Sequence
  BY <1>5, FrameInv DEF Sequence
<1> QED
  BY <1>1, <1>2, <1>3, <1>4, <1>5 DEF Next

\* The inductive invariant of the verifiable index.
THEOREM VindexInvariant == Spec => []VindexInv
<1>1. Init => VindexInv
  BY InitInv
<1>2. VindexInv /\ RowsRead /\ [Next]_vars => VindexInv'
  BY StepInv
<1> QED
  BY <1>1, <1>2, AlwaysRowsRead, PTL DEF Spec

\* The index in memory, and the prefix tree, are exactly those of the first entries
\* of the log, within the limits, also after recovering from whatever failed calls,
\* crashes and power losses have left on disk.
THEOREM AlwaysExactIndex == Spec => []IndexExact
<1>1. VindexInv => IndexExact
  <2> SUFFICES ASSUME VindexInv, pc \notin {"boot", "wipe"} PROVE IndexExact
    BY DEF IndexExact
  <2>1. index = IndexOf(IndexedSize) /\ prefix_tree = index /\ FitsUpTo(IndexedSize)
          /\ IndexedSize \in Nat
    BY VindexAssumption DEF VindexInv, MemoryExact, SizesFit
  <2>2. Fits(IndexedSize)
    BY <2>1 DEF FitsUpTo
  <2> QED
    BY <2>1, <2>2 DEF IndexExact, Fits
<1> QED
  BY <1>1, VindexInvariant, PTL

\* An index that serves has every entry the database has marked, unless another
\* process has marked more.
THEOREM AlwaysIntegratedIsIndexed == Spec => []IntegratedIsIndexed
<1>1. VindexInv => IntegratedIsIndexed
  BY DEF VindexInv
<1> QED
  BY <1>1, VindexInvariant, PTL

\* Without failed calls and other processes, what a power loss cannot take is enough
\* for a restart at every moment.
THEOREM AlwaysDiskCovers == Spec => []DiskCovers
<1>1. VindexInv => DiskCovers
  <2> SUFFICES ASSUME VindexInv, errors = 0, others = 0 PROVE DiskCovers
    BY DEF DiskCovers
  <2> QED
    BY NoFaultRecovers
<1> QED
  BY <1>1, VindexInvariant, PTL

\* The answer to a lookup is that of one index: the list of the key, the size and the
\* root its proof leads to.
THEOREM AlwaysExactLookup == Spec => []LookupExact
<1>1. VindexInv => LookupExact
  BY DEF VindexInv
<1> QED
  BY <1>1, VindexInvariant, PTL

=============================================================================

---------------------------- MODULE MonitorProofs ----------------------------
(***************************************************************************)
(* The monitoring witness never vouches for bad content, never refuses     *)
(* good content, never signs a split view, and keeps its index exact, for  *)
(* every number of processes, logs and requests, every log content, and    *)
(* any number of failures, cancellations and crashes.                      *)
(*                                                                         *)
(* The argument: a process past lock_in holds the row of its log, whose    *)
(* state is then the one its checks were made against; rollback_entries    *)
(* and load_state make the shared monitor object exactly the index of that *)
(* state, whatever a cancelled request left in it; so that the staged rows *)
(* are exactly the new entries, and committed in one transaction with the  *)
(* new head they keep the persisted index exact.                           *)
(*                                                                         *)
(* AsTable takes the earliest row of a key. The contents that pass the     *)
(* rules have no key twice, so that a table is characterised by its rows   *)
(* (IsTable), and tables of adjoining ranges can be joined.                *)
(***************************************************************************)
EXTENDS Monitor, TLAPS

\* h is a prefix of s.
Below(h, s) ==
    /\ h \in Seq(Entries) /\ s \in Seq(Entries)
    /\ Len(h) <= Len(s)
    /\ \A i \in 1 .. Len(h) : h[i] = s[i]

\* The first n entries of h keep the rules.
ValidTo(h, n) ==
    /\ \A i \in 1 .. n : h[i] \notin Malformed
    /\ \A i, j \in 1 .. n : i # j =>
        Sha256[h[i]] # Sha256[h[j]] /\ Filename[h[i]] # Filename[h[j]]

\* The keys and the values of the two indices, by position in the log.
ShaKey(h)  == [i \in DOMAIN h |-> Sha256[h[i]]]
ShaVal(h)  == [i \in DOMAIN h |-> NoValue]
FileKey(h) == [i \in DOMAIN h |-> Filename[h[i]]]
FileVal(h) == [i \in DOMAIN h |-> Sha256[h[i]]]

\* The table t has one row for each of the entries m+1 .. n, and no other.
IsTable(t, key, val, m, n) ==
    /\ t = [k \in DOMAIN t |-> t[k]]
    /\ DOMAIN t = {key[i] : i \in m + 1 .. n}
    /\ \A i \in m + 1 .. n : t[key[i]] = [first |-> i - 1, value |-> val[i]]

StagedRows ==
    [key : {Sha256[e] : e \in Entries} \cup {Filename[e] : e \in Entries},
     index : Nat,
     value : {Sha256[e] : e \in Entries} \cup {NoValue}]

\* The entries m+1 .. n are staged, in order.
IsStaged(q, key, val, m, n) ==
    /\ q \in Seq(StagedRows) /\ DOMAIN q = 1 .. n - m
    /\ \A j \in 1 .. n - m : q[j] = Staged(key[m + j], m + j - 1, val[m + j])

\* Both indices have the entries m+1 .. n of h; both lists have them staged.
RowsRight(x, h, m, n) ==
    /\ IsTable(x.sha256, ShaKey(h), ShaVal(h), m, n)
    /\ IsTable(x.filename, FileKey(h), FileVal(h), m, n)
StagedRight(q, h, m, n) ==
    /\ IsStaged(q.sha256, ShaKey(h), ShaVal(h), m, n)
    /\ IsStaged(q.filename, FileKey(h), FileVal(h), m, n)

\* No key occurs twice among the first n.
Distinct(key, n) == \A i, j \in 1 .. n : i # j => key[i] # key[j]

-----------------------------------------------------------------------------
\* A table is determined by its rows.
LEMMA TableUnique ==
    ASSUME NEW key, NEW val, NEW m, NEW n, NEW t, NEW u,
           IsTable(t, key, val, m, n), IsTable(u, key, val, m, n)
    PROVE  t = u
<1>1. ASSUME NEW k \in DOMAIN t PROVE t[k] = u[k]
  <2>1. PICK i \in m + 1 .. n : k = key[i]
    BY DEF IsTable
  <2> QED
    BY <2>1 DEF IsTable
<1>2. DOMAIN t = DOMAIN u
  BY DEF IsTable
<1> QED
  BY <1>1, <1>2 DEF IsTable

\* Only the keys and values of the range matter.
LEMMA TableAgrees ==
    ASSUME NEW key, NEW val, NEW key2, NEW val2, NEW m, NEW n, NEW t,
           IsTable(t, key, val, m, n),
           \A i \in m + 1 .. n : key[i] = key2[i] /\ val[i] = val2[i]
    PROVE  IsTable(t, key2, val2, m, n)
<1>1. {key[i] : i \in m + 1 .. n} = {key2[i] : i \in m + 1 .. n}
  OBVIOUS
<1> QED
  BY <1>1 DEF IsTable

\* The table of no entries.
LEMMA TableEmpty ==
    ASSUME NEW key, NEW val, NEW m \in Nat
    PROVE  IsTable(Empty, key, val, m, m)
<1>1. m + 1 .. m = {}
  OBVIOUS
<1> QED
  BY <1>1 DEF IsTable, Empty

\* With distinct keys, the rows of AsTable are the staged entries.
LEMMA TableOfStaged ==
    ASSUME NEW key, NEW val, NEW m \in Nat, NEW n \in Nat, m <= n, NEW q,
           IsStaged(q, key, val, m, n), Distinct(key, n)
    PROVE  IsTable(AsTable(q), key, val, m, n)
<1>1. ASSUME NEW j \in 1 .. n - m
      PROVE  /\ m + j \in m + 1 .. n /\ m + j \in 1 .. n
             /\ q[j].key = key[m + j] /\ q[j].index = m + j - 1 /\ q[j].value = val[m + j]
  BY DEF IsStaged, Staged
<1>2. ASSUME NEW i \in m + 1 .. n
      PROVE  /\ i - m \in 1 .. n - m /\ m + (i - m) = i
  OBVIOUS
<1>3. DOMAIN q = 1 .. n - m
  BY DEF IsStaged
<1>4. {q[j].key : j \in DOMAIN q} = {key[i] : i \in m + 1 .. n}
  <2>1. ASSUME NEW j \in 1 .. n - m PROVE \E i \in m + 1 .. n : q[j].key = key[i]
    BY <1>1
  <2>2. ASSUME NEW i \in m + 1 .. n PROVE \E j \in 1 .. n - m : key[i] = q[j].key
    <3>1. i - m \in 1 .. n - m /\ q[i - m].key = key[m + (i - m)] /\ m + (i - m) = i
      BY <1>1, <1>2
    <3> QED
      BY <3>1
  <2>3. \A k : k \in {q[j].key : j \in 1 .. n - m} <=> k \in {key[i] : i \in m + 1 .. n}
    BY <2>1, <2>2, Zenon
  <2>4. {q[j].key : j \in 1 .. n - m} = {key[i] : i \in m + 1 .. n}
    BY <2>3, Zenon
  <2> QED
    BY <1>3, <2>4
<1>5. ASSUME NEW a \in 1 .. n - m, NEW b \in 1 .. n - m, a # b PROVE q[a].key # q[b].key
  <2>1. m + a # m + b
    BY <1>5
  <2> QED
    BY <1>1, <2>1 DEF Distinct
<1>6. ASSUME NEW j \in 1 .. n - m
      PROVE  AsTable(q)[q[j].key] = [first |-> q[j].index, value |-> q[j].value]
  <2> DEFINE P(x) == q[x].key = q[j].key /\ \A i \in 1 .. x - 1 : q[i].key # q[j].key
             first == CHOOSE x \in DOMAIN q : P(x)
  <2>1. P(j)
    <3>1. ASSUME NEW i \in 1 .. j - 1 PROVE q[i].key # q[j].key
      <4>1. i \in 1 .. n - m /\ i # j
        OBVIOUS
      <4> QED
        BY <1>5, <4>1
    <3> QED
      BY <3>1
  <2>2. first \in DOMAIN q /\ P(first)
    BY <1>3, <2>1
  <2>3. first = j
    BY <1>3, <1>5, <2>2
  <2> HIDE DEF first
  <2>4. AsTable(q)[q[j].key] = [first |-> q[first].index, value |-> q[first].value]
    BY <1>3 DEF AsTable, first
  <2> QED
    BY <2>3, <2>4
<1>7. AsTable(q) = [k \in DOMAIN AsTable(q) |-> AsTable(q)[k]] /\ DOMAIN AsTable(q) = {q[j].key : j \in DOMAIN q}
  BY DEF AsTable
<1>8. ASSUME NEW i \in m + 1 .. n
      PROVE  AsTable(q)[key[i]] = [first |-> i - 1, value |-> val[i]]
  <2>1. PICK j \in 1 .. n - m : m + j = i
    BY <1>2
  <2>2. q[j].key = key[i] /\ q[j].value = val[i]
    BY <1>1, <2>1
  <2>3. q[j].index = m + j - 1 /\ m + j - 1 = i - 1
    BY <1>1, <2>1
  <2> QED
    BY <1>6, <2>2, <2>3
<1> QED
  BY <1>4, <1>7, <1>8 DEF IsTable

\* Tables of adjoining ranges join to the table of both, in whichever order: with
\* distinct keys there is nothing to override.
LEMMA TableJoins ==
    ASSUME NEW key, NEW val, NEW m \in Nat, NEW n \in Nat, m <= n, NEW f, NEW s,
           IsTable(f, key, val, 0, m), IsTable(s, key, val, m, n), Distinct(key, n)
    PROVE  /\ IsTable(Replaced(f, s), key, val, 0, n)
           /\ IsTable(Inserted(f, s), key, val, 0, n)
<1>1. \A k : ~(k \in DOMAIN f /\ k \in DOMAIN s)
  BY DEF IsTable, Distinct
<1>2. Inserted(f, s) = Replaced(f, s)
  BY <1>1 DEF Inserted, Replaced
<1>3. /\ Replaced(f, s) = [k \in DOMAIN Replaced(f, s) |-> Replaced(f, s)[k]]
      /\ DOMAIN Replaced(f, s) = DOMAIN f \cup DOMAIN s
  BY DEF Replaced
<1>4. \A i : i \in 0 + 1 .. n <=> i \in 0 + 1 .. m \/ i \in m + 1 .. n
  OBVIOUS
<1>5. DOMAIN f \cup DOMAIN s = {key[i] : i \in 0 + 1 .. n}
  BY <1>4 DEF IsTable
<1>6. ASSUME NEW i \in 0 + 1 .. n
      PROVE  Replaced(f, s)[key[i]] = [first |-> i - 1, value |-> val[i]]
  <2>1. CASE i \in 0 + 1 .. m
    <3>1. key[i] \in DOMAIN f /\ key[i] \notin DOMAIN s
      BY <1>1, <2>1 DEF IsTable
    <3> QED
      BY <2>1, <3>1 DEF Replaced, IsTable
  <2>2. CASE i \in m + 1 .. n
    <3>1. key[i] \in DOMAIN s
      BY <2>2 DEF IsTable
    <3> QED
      BY <2>2, <3>1 DEF Replaced, IsTable
  <2> QED
    BY <1>4, <2>1, <2>2
<1> QED
  BY <1>2, <1>3, <1>5, <1>6 DEF IsTable

\* Staging the next entry.
LEMMA StageAppends ==
    ASSUME NEW key, NEW val, NEW m \in Nat, NEW c \in Nat, m <= c, NEW q,
           IsStaged(q, key, val, m, c),
           Staged(key[c + 1], c, val[c + 1]) \in StagedRows
    PROVE  IsStaged(Stage(q, Staged(key[c + 1], c, val[c + 1])), key, val, m, c + 1)
<1> DEFINE s == Staged(key[c + 1], c, val[c + 1])
<1>1. q \in Seq(StagedRows) /\ DOMAIN q = 1 .. c - m /\ s \in StagedRows /\ s.index = c
  BY DEF IsStaged, Staged
<1>2. Len(q) = c - m
  BY <1>1
<1>3. ASSUME NEW j \in 1 .. c - m PROVE q[j] # s
  <2>1. q[j].index = m + j - 1
    BY DEF IsStaged, Staged
  <2>2. q[j].index < c
    BY <2>1
  <2> QED
    BY <1>1, <2>2
<1>4. Stage(q, s) = Append(q, s)
  BY <1>2, <1>3 DEF Stage, Contains
<1> HIDE DEF s
<1>5. /\ Append(q, s) \in Seq(StagedRows) /\ Len(Append(q, s)) = (c + 1) - m
      /\ DOMAIN Append(q, s) = 1 .. (c + 1) - m
  BY <1>1, <1>2
<1>6. ASSUME NEW j \in 1 .. (c + 1) - m
      PROVE  Append(q, s)[j] = Staged(key[m + j], m + j - 1, val[m + j])
  <2>1. CASE j \in 1 .. c - m
    <3>1. Append(q, s)[j] = q[j]
      BY <1>1, <1>2, <2>1
    <3> QED
      BY <2>1, <3>1 DEF IsStaged
  <2>2. CASE j = (c + 1) - m
    <3>1. m + j = c + 1 /\ m + j - 1 = c /\ j = Len(q) + 1
      BY <1>2, <2>2
    <3>2. Append(q, s)[j] = s
      BY <1>1, <3>1
    <3> QED
      BY <3>1, <3>2 DEF s
  <2>3. j \in 1 .. c - m \/ j = (c + 1) - m
    OBVIOUS
  <2> QED
    BY <2>1, <2>2, <2>3
<1> QED
  BY <1>4, <1>5, <1>6 DEF IsStaged, s

\* Nothing is staged in an empty list.
LEMMA StagedEmpty ==
    ASSUME NEW key, NEW val, NEW m \in Nat
    PROVE  IsStaged(<<>>, key, val, m, m)
<1>1. 1 .. m - m = {}
  OBVIOUS
<1> QED
  BY <1>1 DEF IsStaged

-----------------------------------------------------------------------------
\* A signed head is a sequence of entries.
LEMMA SignedHead ==
    ASSUME NEW o \in Logs, NEW h \in Signed[o]
    PROVE  h \in Seq(Entries) /\ h # NoState /\ Len(h) \in Nat
BY MonitorAssumption

\* IsPrefix, in terms of the entries.
LEMMA BelowIsPrefix ==
    ASSUME NEW h \in Seq(Entries), NEW s \in Seq(Entries)
    PROVE  IsPrefix(h, s) <=> Below(h, s)
<1>1. CASE Len(h) <= Len(s)
  <2>1. SubSeq(h, 1, Len(h)) = [i \in 1 .. Len(h) |-> h[i]]
    OBVIOUS
  <2>2. SubSeq(s, 1, Len(h)) = [i \in 1 .. Len(h) |-> s[i]]
    BY <1>1
  <2> QED
    BY <1>1, <2>1, <2>2 DEF IsPrefix, Below
<1>2. CASE ~(Len(h) <= Len(s))
  BY <1>2 DEF IsPrefix, Below
<1> QED
  BY <1>1, <1>2

\* Of two prefixes of a sequence one is a prefix of the other.
LEMMA BelowLinear ==
    ASSUME NEW g, NEW h, NEW s, Below(g, s), Below(h, s)
    PROVE  Below(g, h) \/ Below(h, g)
BY DEF Below

\* A prefix of a prefix is a prefix.
LEMMA BelowTransitive ==
    ASSUME NEW g, NEW h, NEW s, Below(g, h), Below(h, s)
    PROVE  Below(g, s)
BY DEF Below

\* Every head is a prefix of itself.
LEMMA BelowReflexive ==
    ASSUME NEW h \in Seq(Entries)
    PROVE  Below(h, h)
BY DEF Below

\* The rules make file names distinct too.
LEMMA ValidMeans ==
    ASSUME NEW h \in Seq(Entries)
    PROVE  ValidContent(h) <=> ValidTo(h, Len(h))
<1>1. DOMAIN h = 1 .. Len(h)
  OBVIOUS
<1> QED
  BY <1>1 DEF ValidContent, ValidTo

\* A prefix of valid content is valid, in either log.
LEMMA ValidBelow ==
    ASSUME NEW g, NEW h, Below(g, h), NEW n \in Nat, n <= Len(g)
    PROVE  /\ ValidTo(g, n) <=> ValidTo(h, n)
           /\ ValidTo(h, Len(h)) => ValidTo(g, Len(g))
<1>1. Len(g) \in Nat /\ Len(h) \in Nat /\ Len(g) <= Len(h) /\ \A i \in 1 .. Len(g) : g[i] = h[i]
  BY DEF Below
<1>2. \A i \in 1 .. n : g[i] = h[i]
  BY <1>1
<1>3. ValidTo(g, n) <=> ValidTo(h, n)
  BY <1>2 DEF ValidTo
<1>4. \A i \in 1 .. Len(g) : i \in 1 .. Len(h)
  BY <1>1
<1>5. ValidTo(h, Len(h)) => ValidTo(g, Len(g))
  BY <1>1, <1>4 DEF ValidTo
<1> QED
  BY <1>3, <1>5

\* No hash and no file name occurs twice in valid content.
LEMMA DistinctKeys ==
    ASSUME NEW h \in Seq(Entries), NEW n \in Nat, n <= Len(h), ValidTo(h, n)
    PROVE  Distinct(ShaKey(h), n) /\ Distinct(FileKey(h), n)
<1>1. \A i \in 1 .. n : i \in DOMAIN h
  OBVIOUS
<1> QED
  BY <1>1 DEF ValidTo, Distinct, ShaKey, FileKey

\* Rows of a prefix are rows of the longer log.
LEMMA RowsBelow ==
    ASSUME NEW g, NEW h, Below(g, h), NEW x, NEW m \in Nat, NEW n \in Nat, n <= Len(g),
           RowsRight(x, g, m, n)
    PROVE  RowsRight(x, h, m, n)
<1>1. \A i \in m + 1 .. n : i \in DOMAIN g /\ i \in DOMAIN h /\ g[i] = h[i]
  BY DEF Below
<1>2. \A i \in m + 1 .. n : ShaKey(g)[i] = ShaKey(h)[i] /\ ShaVal(g)[i] = ShaVal(h)[i]
  BY <1>1 DEF ShaKey, ShaVal
<1>3. \A i \in m + 1 .. n : FileKey(g)[i] = FileKey(h)[i] /\ FileVal(g)[i] = FileVal(h)[i]
  BY <1>1 DEF FileKey, FileVal
<1>4. IsTable(x.sha256, ShaKey(h), ShaVal(h), m, n)
  BY <1>2, TableAgrees DEF RowsRight
<1>5. IsTable(x.filename, FileKey(h), FileVal(h), m, n)
  BY <1>3, TableAgrees DEF RowsRight
<1> QED
  BY <1>4, <1>5 DEF RowsRight

\* The index of valid content.
LEMMA IndexOfRight ==
    ASSUME NEW h \in Seq(Entries), ValidTo(h, Len(h)), NEW x, RowsRight(x, h, 0, Len(h)),
           x = [sha256 |-> x.sha256, filename |-> x.filename]
    PROVE  x = IndexOf(h)
<1> DEFINE n == Len(h)
           shas  == [i \in DOMAIN h |-> Staged(Sha256[h[i]], i - 1, NoValue)]
           files == [i \in DOMAIN h |-> Staged(Filename[h[i]], i - 1, Sha256[h[i]])]
<1>1. n \in Nat /\ DOMAIN h = 1 .. n /\ \A i \in 1 .. n : h[i] \in Entries
  OBVIOUS
<1>2. n - 0 = n /\ \A j \in 1 .. n : 0 + j = j /\ 0 + j - 1 = j - 1 /\ j - 1 \in Nat
  BY <1>1
<1>3. IsStaged(shas, ShaKey(h), ShaVal(h), 0, n)
  <2>1. \A i \in 1 .. n : Staged(Sha256[h[i]], i - 1, NoValue) \in StagedRows
    BY <1>1, <1>2 DEF Staged, StagedRows
  <2>2. shas \in Seq(StagedRows) /\ DOMAIN shas = 1 .. n
    BY <1>1, <2>1
  <2> QED
    BY <1>1, <1>2, <2>2 DEF IsStaged, ShaKey, ShaVal
<1>4. IsStaged(files, FileKey(h), FileVal(h), 0, n)
  <2>1. \A i \in 1 .. n : Staged(Filename[h[i]], i - 1, Sha256[h[i]]) \in StagedRows
    BY <1>1, <1>2 DEF Staged, StagedRows
  <2>2. files \in Seq(StagedRows) /\ DOMAIN files = 1 .. n
    BY <1>1, <2>1
  <2> QED
    BY <1>1, <1>2, <2>2 DEF IsStaged, FileKey, FileVal
<1>5. Distinct(ShaKey(h), n) /\ Distinct(FileKey(h), n)
  BY <1>1, DistinctKeys
<1> HIDE DEF n, shas, files
<1>6. AsTable(shas) = x.sha256
  <2>1. IsTable(AsTable(shas), ShaKey(h), ShaVal(h), 0, n)
    BY <1>1, <1>3, <1>5, TableOfStaged
  <2> QED
    BY <2>1, TableUnique DEF RowsRight, n
<1>7. AsTable(files) = x.filename
  <2>1. IsTable(AsTable(files), FileKey(h), FileVal(h), 0, n)
    BY <1>1, <1>4, <1>5, TableOfStaged
  <2> QED
    BY <2>1, TableUnique DEF RowsRight, n
<1> QED
  BY <1>6, <1>7 DEF IndexOf, shas, files

\* Every index that is consulted is the table of what came before.
LEMMA SeenRight ==
    ASSUME NEW h \in Seq(Entries), NEW m \in Nat, NEW c \in Nat, m <= c, c <= Len(h),
           ValidTo(h, c), NEW x, RowsRight(x, h, 0, m), NEW q, StagedRight(q, h, m, c)
    PROVE  /\ IsTable(Seen(x.sha256, q.sha256), ShaKey(h), ShaVal(h), 0, c)
           /\ IsTable(Seen(x.filename, q.filename), FileKey(h), FileVal(h), 0, c)
<1>1. Distinct(ShaKey(h), c) /\ Distinct(FileKey(h), c)
  BY DistinctKeys
<1>2. /\ Seen(x.sha256, q.sha256) = Replaced(x.sha256, AsTable(q.sha256))
      /\ Seen(x.filename, q.filename) = Replaced(x.filename, AsTable(q.filename))
  BY DEF Seen, Replaced
<1>3. IsTable(AsTable(q.sha256), ShaKey(h), ShaVal(h), m, c)
  BY <1>1, TableOfStaged DEF StagedRight
<1>4. IsTable(AsTable(q.filename), FileKey(h), FileVal(h), m, c)
  BY <1>1, TableOfStaged DEF StagedRight
<1>5. IsTable(Replaced(x.sha256, AsTable(q.sha256)), ShaKey(h), ShaVal(h), 0, c)
  BY <1>1, <1>3, TableJoins DEF RowsRight
<1>6. IsTable(Replaced(x.filename, AsTable(q.filename)), FileKey(h), FileVal(h), 0, c)
  BY <1>1, <1>4, TableJoins DEF RowsRight
<1> QED
  BY <1>2, <1>5, <1>6

\* validate_entry rejects an entry exactly if it breaks the rules with those before.
LEMMA RejectedMeans ==
    ASSUME NEW h \in Seq(Entries), NEW c \in Nat, c < Len(h), ValidTo(h, c), NEW shas, NEW files,
           IsTable(shas, ShaKey(h), ShaVal(h), 0, c), IsTable(files, FileKey(h), FileVal(h), 0, c),
           NEW e, e = h[c + 1]
    PROVE  (\/ e \in Malformed
            \/ Check(shas, Sha256[e], c, NoValue) # "none"
            \/ Check(files, Filename[e], c, Sha256[e]) = "conflict") <=> ~ValidTo(h, c + 1)
<1>1. /\ Len(h) \in Nat /\ DOMAIN h = 1 .. Len(h) /\ c + 1 \in DOMAIN h
      /\ \A i \in 1 .. c : i \in DOMAIN h
      /\ e \in Entries /\ \A i \in DOMAIN h : h[i] \in Entries
  OBVIOUS
<1>2. /\ 0 + 1 = 1
      /\ \A i \in 1 .. c : /\ ShaKey(h)[i] = Sha256[h[i]] /\ ShaVal(h)[i] = NoValue
                           /\ FileKey(h)[i] = Filename[h[i]] /\ FileVal(h)[i] = Sha256[h[i]]
  BY <1>1 DEF ShaKey, ShaVal, FileKey, FileVal
<1>3. \A k : k \in DOMAIN shas <=> \E i \in 1 .. c : k = Sha256[h[i]]
  <2>1. DOMAIN shas = {ShaKey(h)[i] : i \in 1 .. c}
    BY <1>2 DEF IsTable
  <2> QED
    BY <1>2, <2>1
<1>4. \A k : k \in DOMAIN files <=> \E i \in 1 .. c : k = Filename[h[i]]
  <2>1. DOMAIN files = {FileKey(h)[i] : i \in 1 .. c}
    BY <1>2 DEF IsTable
  <2> QED
    BY <1>2, <2>1
<1>5. \A i \in 1 .. c : /\ shas[Sha256[h[i]]].first = i - 1
                        /\ files[Filename[h[i]]].value = Sha256[h[i]]
  <2>1. \A i \in 1 .. c : shas[ShaKey(h)[i]] = [first |-> i - 1, value |-> ShaVal(h)[i]]
    BY <1>2 DEF IsTable
  <2>2. \A i \in 1 .. c : files[FileKey(h)[i]] = [first |-> i - 1, value |-> FileVal(h)[i]]
    BY <1>2 DEF IsTable
  <2> TAKE i \in 1 .. c
  <2>3. shas[Sha256[h[i]]] = [first |-> i - 1, value |-> ShaVal(h)[i]]
    BY <1>2, <2>1
  <2>4. files[Filename[h[i]]] = [first |-> i - 1, value |-> Sha256[h[i]]]
    BY <1>2, <2>2
  <2> QED
    BY <2>3, <2>4
<1>6. Check(shas, Sha256[e], c, NoValue) # "none" <=> \E i \in 1 .. c : Sha256[h[i]] = Sha256[e]
  <2>1. CASE Sha256[e] \notin DOMAIN shas
    BY <1>3, <2>1 DEF Check
  <2>2. CASE Sha256[e] \in DOMAIN shas
    <3>1. PICK i \in 1 .. c : Sha256[h[i]] = Sha256[e]
      BY <1>3, <2>2
    <3>2. shas[Sha256[e]].first # c
      BY <1>5, <3>1
    <3>3. Check(shas, Sha256[e], c, NoValue) = "duplicate"
      BY <2>2, <3>2 DEF Check
    <3> QED
      BY <3>1, <3>3
  <2> QED
    BY <2>1, <2>2
<1>7. Check(files, Filename[e], c, Sha256[e]) = "conflict"
      <=> Filename[e] \in DOMAIN files /\ files[Filename[e]].value # Sha256[e]
  <2>1. Sha256[e] # NoValue
    BY <1>1, MonitorAssumption
  <2> QED
    BY <2>1 DEF Check
<1>8. Check(files, Filename[e], c, Sha256[e]) = "conflict"
      <=> \E i \in 1 .. c : Filename[h[i]] = Filename[e] /\ Sha256[h[i]] # Sha256[e]
  <2>1. ASSUME Filename[e] \in DOMAIN files, files[Filename[e]].value # Sha256[e]
        PROVE  \E i \in 1 .. c : Filename[h[i]] = Filename[e] /\ Sha256[h[i]] # Sha256[e]
    <3>1. PICK i \in 1 .. c : Filename[e] = Filename[h[i]]
      BY <1>4, <2>1, Zenon
    <3>2. files[Filename[h[i]]].value = Sha256[h[i]]
      BY <1>5, Zenon
    <3> QED
      BY <2>1, <3>1, <3>2, Zenon
  <2>2. ASSUME NEW i \in 1 .. c, Filename[h[i]] = Filename[e], Sha256[h[i]] # Sha256[e]
        PROVE  Filename[e] \in DOMAIN files /\ files[Filename[e]].value # Sha256[e]
    BY <1>4, <1>5, <2>2
  <2> QED
    BY <1>7, <2>1, <2>2
<1>9. \A i : i \in 1 .. c + 1 <=> i \in 1 .. c \/ i = c + 1
  OBVIOUS
<1>10. \A i \in 1 .. c : i # c + 1
  OBVIOUS
<1>11. ValidTo(h, c + 1) <=>
         /\ e \notin Malformed
         /\ \A i \in 1 .. c : Sha256[h[i]] # Sha256[e] /\ Filename[h[i]] # Filename[e]
  BY <1>9, <1>10 DEF ValidTo
<1> QED
  BY <1>6, <1>8, <1>11

-----------------------------------------------------------------------------
(* The inductive invariant                                                  *)

TypeOK ==
    /\ witness_state \in [Logs -> Seq(Entries) \cup {NoState}]
    /\ DOMAIN content = Logs
    /\ lock \in [Logs -> Procs \cup {NoProc}]
    /\ pc \in [Procs -> {"idle", "get", "insert", "lock", "load", "validate", "update", "cosign"}]
    /\ DOMAIN request = Procs /\ DOMAIN state = Procs /\ DOMAIN cursor = Procs
    /\ DOMAIN index = Procs /\ DOMAIN pending = Procs /\ DOMAIN rows = Procs
    /\ \A p \in Procs : DOMAIN pending[p] = {"sha256", "filename"}

\* The persisted index of a log is that of its persisted head, which is valid.
LogRight(o) ==
    /\ content[o] = [sha256 |-> content[o].sha256, filename |-> content[o].filename]
    /\ witness_state[o] = NoState => content[o] = Both(Empty)
    /\ witness_state[o] # NoState =>
        /\ ValidTo(witness_state[o], Len(witness_state[o]))
        /\ RowsRight(content[o], witness_state[o], 0, Len(witness_state[o]))

\* A row is locked by the process that works on it.
LocksRight ==
    \A o \in Logs, p \in Procs :
        lock[o] = p <=> pc[p] \in {"load", "validate", "update"} /\ request[p].origin = o

RequestRight(p) ==
    pc[p] # "idle" => request[p].origin \in Logs /\ request[p].head \in Signed[request[p].origin]

\* The checks were made against a state which the lock has pinned.
StateRight(p) ==
    /\ pc[p] \in {"lock", "load", "validate", "update"} =>
        state[p] # NoState /\ Below(state[p], request[p].head)
    /\ pc[p] \in {"load", "validate", "update"} => witness_state[request[p].origin] = state[p]

\* The monitor object is of this log and this request alone.
ValidateRight(p) ==
    pc[p] = "validate" =>
        /\ cursor[p] \in Nat /\ Len(state[p]) <= cursor[p] /\ cursor[p] <= Len(request[p].head)
        /\ ValidTo(request[p].head, cursor[p])
        /\ RowsRight(index[p], request[p].head, 0, Len(state[p]))
        /\ StagedRight(pending[p], request[p].head, Len(state[p]), cursor[p])

\* What the transaction saves is what the new head adds.
UpdateRight(p) ==
    /\ pc[p] \notin {"update", "cosign"} => rows[p] = Both(Empty)
    /\ pc[p] = "update" =>
        /\ ValidTo(request[p].head, Len(request[p].head))
        /\ RowsRight(rows[p], request[p].head, Len(state[p]), Len(request[p].head))

\* A head that may be cosigned, or was, is below the persisted one.
Persisted(o, h) ==
    /\ witness_state[o] # NoState
    /\ Below(h, witness_state[o])
CosignRight(p) == pc[p] = "cosign" => Persisted(request[p].origin, request[p].head)

ProcRight(p) ==
    RequestRight(p) /\ StateRight(p) /\ ValidateRight(p) /\ UpdateRight(p) /\ CosignRight(p)

MonitorInv ==
    /\ TypeOK
    /\ \A o \in Logs : LogRight(o)
    /\ LocksRight
    /\ \A p \in Procs : ProcRight(p)
    /\ \A c \in cosigned : c[1] \in Logs /\ Persisted(c[1], c[2])
    /\ RefusedIsInvalid

-----------------------------------------------------------------------------
(* Frames                                                                   *)

\* Nothing of process q changes.
Untouched(q) ==
    /\ pc'[q] = pc[q] /\ request'[q] = request[q] /\ state'[q] = state[q]
    /\ cursor'[q] = cursor[q] /\ index'[q] = index[q] /\ pending'[q] = pending[q]
    /\ rows'[q] = rows[q]

\* Persisted heads only grow.
HeadsGrow ==
    \A o \in Logs : witness_state[o] # NoState =>
        witness_state'[o] # NoState /\ Below(witness_state[o], witness_state'[o])

\* Heads that stay are heads that grow.
LEMMA SameHeadsGrow ==
    ASSUME MonitorInv, UNCHANGED witness_state
    PROVE  HeadsGrow
<1> SUFFICES ASSUME NEW o \in Logs, witness_state[o] # NoState
             PROVE  Below(witness_state[o], witness_state[o])
  BY DEF HeadsGrow
<1>1. witness_state[o] \in Seq(Entries)
  BY DEF MonitorInv, TypeOK
<1> QED
  BY <1>1, BelowReflexive

\* What is below a persisted head stays below it while heads grow.
LEMMA PersistedStays ==
    ASSUME HeadsGrow, NEW o \in Logs, NEW h, Persisted(o, h)
    PROVE  Persisted(o, h)'
<1>1. Below(h, witness_state[o]) /\ witness_state'[o] # NoState /\ Below(witness_state[o], witness_state'[o])
  BY DEF HeadsGrow, Persisted
<1> QED
  BY <1>1, BelowTransitive DEF Persisted

\* A process that is left alone, with the row it has locked, keeps what it knows.
LEMMA ProcFrame ==
    ASSUME MonitorInv, NEW q \in Procs, Untouched(q), HeadsGrow,
           \A o \in Logs : lock[o] = q => witness_state'[o] = witness_state[o]
    PROVE  ProcRight(q)'
<1>1. ProcRight(q) /\ LocksRight
  BY DEF MonitorInv
<1>2. RequestRight(q)' /\ ValidateRight(q)' /\ UpdateRight(q)'
  BY <1>1 DEF ProcRight, Untouched, RequestRight, ValidateRight, UpdateRight
<1>3. StateRight(q)'
  <2>1. ASSUME pc[q] \in {"load", "validate", "update"}
        PROVE  witness_state'[request[q].origin] = state[q]
    <3>1. request[q].origin \in Logs /\ lock[request[q].origin] = q
      BY <1>1, <2>1 DEF ProcRight, RequestRight, LocksRight
    <3> QED
      BY <1>1, <2>1, <3>1 DEF ProcRight, StateRight
  <2> QED
    BY <1>1, <2>1 DEF ProcRight, StateRight, Untouched
<1>4. CosignRight(q)'
  <2> SUFFICES ASSUME pc[q] = "cosign" PROVE Persisted(request[q].origin, request[q].head)'
    BY DEF CosignRight, Untouched, Persisted
  <2>1. request[q].origin \in Logs /\ Persisted(request[q].origin, request[q].head)
    BY <1>1 DEF ProcRight, RequestRight, CosignRight
  <2>2. ASSUME NEW o \in Logs, NEW h, o = request[q].origin, h = request[q].head
        PROVE  witness_state'[o] # NoState /\ Below(h, witness_state'[o])
    BY <2>1, <2>2, PersistedStays DEF Persisted
  <2> QED
    BY <2>1, <2>2 DEF Untouched, Persisted
<1> QED
  BY <1>2, <1>3, <1>4 DEF ProcRight

\* A process that is done knows nothing.
LEMMA IdleRight ==
    ASSUME NEW p, pc'[p] = "idle", rows'[p] = Both(Empty)
    PROVE  ProcRight(p)'
BY DEF ProcRight, RequestRight, StateRight, ValidateRight, UpdateRight, CosignRight

\* Cosignatures stay justified.
LEMMA CosignedStays ==
    ASSUME MonitorInv, HeadsGrow, UNCHANGED cosigned
    PROVE  \A c \in cosigned' : c[1] \in Logs /\ Persisted(c[1], c[2])'
<1> SUFFICES ASSUME NEW c \in cosigned PROVE c[1] \in Logs /\ Persisted(c[1], c[2])'
  OBVIOUS
<1>1. c[1] \in Logs /\ Persisted(c[1], c[2])
  BY DEF MonitorInv
<1>2. ASSUME NEW o \in Logs, NEW h, o = c[1], h = c[2] PROVE Persisted(o, h)'
  BY <1>1, <1>2, PersistedStays
<1> QED
  BY <1>1, <1>2

\* A step of process p that touches neither the database nor a lock.
LEMMA LocalStep ==
    ASSUME MonitorInv, NEW p \in Procs, UNCHANGED <<dbVars, cosigned, refused>>,
           \A q \in Procs \ {p} : Untouched(q),
           pc'[p] \in {"load", "validate", "update"} <=> pc[p] \in {"load", "validate", "update"},
           pc[p] \in {"load", "validate", "update"} => request'[p].origin = request[p].origin,
           TypeOK', ProcRight(p)'
    PROVE  MonitorInv'
<1>1. HeadsGrow
  BY SameHeadsGrow DEF dbVars
<1>2. ASSUME NEW q \in Procs PROVE ProcRight(q)'
  <2>1. CASE q # p
    BY <1>1, <2>1, ProcFrame DEF dbVars
  <2> QED
    BY <2>1
<1>3. LocksRight'
  <2>1. ASSUME NEW o \in Logs, NEW q \in Procs
        PROVE  lock[o] = q <=> pc'[q] \in {"load", "validate", "update"} /\ request'[q].origin = o
    BY DEF MonitorInv, LocksRight, Untouched
  <2> QED
    BY <2>1 DEF LocksRight, dbVars
<1>4. \A o \in Logs : LogRight(o)'
  BY DEF MonitorInv, LogRight, dbVars
<1>5. \A c \in cosigned' : c[1] \in Logs /\ Persisted(c[1], c[2])'
  BY <1>1, CosignedStays
<1>6. RefusedIsInvalid'
  BY DEF MonitorInv, RefusedIsInvalid
<1> QED
  BY <1>2, <1>3, <1>4, <1>5, <1>6 DEF MonitorInv

\* The end of a request, or of its process: the lock goes with the transaction.
LEMMA FinishStep ==
    ASSUME MonitorInv, NEW p \in Procs, Finish(p), lock' = Unlocked(p),
           UNCHANGED <<witness_state, content>>,
           \A q \in Procs \ {p} : index'[q] = index[q] /\ pending'[q] = pending[q],
           DOMAIN index' = Procs, DOMAIN pending' = Procs,
           DOMAIN pending'[p] = {"sha256", "filename"},
           \A c \in cosigned' : c[1] \in Logs /\ Persisted(c[1], c[2]),
           RefusedIsInvalid'
    PROVE  MonitorInv'
<1>0. TypeOK
  BY DEF MonitorInv
<1>1. /\ pc'[p] = "idle" /\ rows'[p] = Both(Empty)
      /\ \A q \in Procs \ {p} : Untouched(q)
  BY <1>0 DEF TypeOK, Finish, Untouched
<1>2. TypeOK'
  <2>1. lock' \in [Logs -> Procs \cup {NoProc}]
    BY <1>0 DEF TypeOK, Unlocked
  <2>2. \A q \in Procs : DOMAIN pending'[q] = {"sha256", "filename"}
    BY <1>0 DEF TypeOK
  <2>3. /\ pc' \in [Procs -> {"idle", "get", "insert", "lock", "load", "validate", "update", "cosign"}]
        /\ DOMAIN request' = Procs /\ DOMAIN state' = Procs /\ DOMAIN cursor' = Procs
        /\ DOMAIN rows' = Procs
    BY <1>0 DEF TypeOK, Finish
  <2> QED
    BY <1>0, <2>1, <2>2, <2>3 DEF TypeOK
<1>3. HeadsGrow
  BY SameHeadsGrow
<1>4. ASSUME NEW q \in Procs PROVE ProcRight(q)'
  <2>1. CASE q # p
    BY <1>1, <1>3, <2>1, ProcFrame
  <2>2. CASE q = p
    BY <1>1, <2>2, IdleRight
  <2> QED
    BY <2>1, <2>2
<1>5. LocksRight'
  <2>1. ASSUME NEW o \in Logs, NEW q \in Procs
        PROVE  lock'[o] = q <=> pc'[q] \in {"load", "validate", "update"} /\ request'[q].origin = o
    <3>1. lock'[o] = IF lock[o] = p THEN NoProc ELSE lock[o]
      BY DEF Unlocked
    <3>2. CASE q = p
      BY <1>1, <3>1, <3>2, MonitorAssumption
    <3>3. CASE q # p
      <4>1. lock'[o] = q <=> lock[o] = q
        BY <3>1, <3>3, MonitorAssumption
      <4>2. lock[o] = q <=> pc[q] \in {"load", "validate", "update"} /\ request[q].origin = o
        BY DEF MonitorInv, LocksRight
      <4> QED
        BY <1>1, <3>3, <4>1, <4>2 DEF Untouched
    <3> QED
      BY <3>2, <3>3
  <2> QED
    BY <2>1 DEF LocksRight
<1>6. \A o \in Logs : LogRight(o)'
  BY DEF MonitorInv, LogRight
<1>7. \A c \in cosigned' : Persisted(c[1], c[2])'
  BY DEF Persisted
<1> QED
  BY <1>2, <1>4, <1>5, <1>6, <1>7 DEF MonitorInv

\* An error.
LEMMA ErrorStep ==
    ASSUME MonitorInv, NEW p \in Procs, Error(p), UNCHANGED cosigned, RefusedIsInvalid'
    PROVE  MonitorInv'
<1>1. /\ Finish(p) /\ lock' = Unlocked(p) /\ UNCHANGED <<witness_state, content, index>>
      /\ pending' = [pending EXCEPT ![p] = Both(<<>>)]
  BY DEF Error
<1>2. /\ \A q \in Procs \ {p} : index'[q] = index[q] /\ pending'[q] = pending[q]
      /\ DOMAIN index' = Procs /\ DOMAIN pending' = Procs
      /\ DOMAIN pending'[p] = {"sha256", "filename"}
  BY <1>1 DEF MonitorInv, TypeOK, Both
<1>3. \A c \in cosigned' : c[1] \in Logs /\ Persisted(c[1], c[2])
  BY DEF MonitorInv
<1> QED
  BY <1>1, <1>2, <1>3, FinishStep

-----------------------------------------------------------------------------
(* The steps                                                                *)

\* Initially nothing is known.
LEMMA InitInv == Init => MonitorInv
<1> SUFFICES ASSUME Init PROVE MonitorInv
  OBVIOUS
<1>1. TypeOK
  BY DEF Init, TypeOK, Both
<1>2. \A o \in Logs : LogRight(o)
  BY DEF Init, LogRight, Both
<1>3. LocksRight
  BY MonitorAssumption DEF Init, LocksRight
<1>4. \A p \in Procs : ProcRight(p)
  BY DEF Init, ProcRight, RequestRight, StateRight, ValidateRight, UpdateRight, CosignRight
<1>5. RefusedIsInvalid /\ cosigned = {}
  BY DEF Init, RefusedIsInvalid
<1> QED
  BY <1>1, <1>2, <1>3, <1>4, <1>5 DEF MonitorInv

\* A request comes in: its head is signed by the log.
LEMMA ReceiveStep ==
    ASSUME MonitorInv, NEW p \in Procs, NEW o \in Logs, NEW h \in Signed[o], NEW n, Receive(p, o, h, n)
    PROVE  MonitorInv'
<1>0. TypeOK /\ ProcRight(p)
  BY DEF MonitorInv
<1>1. /\ pc[p] = "idle" /\ pc'[p] = "get" /\ rows'[p] = rows[p]
      /\ request'[p].origin = o /\ request'[p].head = h
      /\ \A q \in Procs \ {p} : Untouched(q)
  BY <1>0 DEF TypeOK, Receive, Untouched, memVars
<1>2. TypeOK'
  BY <1>0 DEF TypeOK, Receive, memVars, dbVars
<1>3. ProcRight(p)'
  BY <1>0, <1>1 DEF ProcRight, RequestRight, StateRight, ValidateRight, UpdateRight, CosignRight
<1>4. UNCHANGED <<dbVars, cosigned, refused>>
  BY DEF Receive
<1> QED
  BY <1>1, <1>2, <1>3, <1>4, LocalStep

\* get_or_init: the head extends the state that was read.
LEMMA GetStep ==
    ASSUME MonitorInv, NEW p \in Procs, Get(p)
    PROVE  MonitorInv'
<1> DEFINE s == witness_state[request[p].origin]
<1>0. TypeOK /\ ProcRight(p)
  BY DEF MonitorInv
<1>1. pc[p] = "get" /\ request[p].origin \in Logs /\ request[p].head \in Signed[request[p].origin]
  BY <1>0 DEF Get, ProcRight, RequestRight
<1>2. UNCHANGED <<cosigned, refused>> /\ RefusedIsInvalid'
  BY DEF Get, histVars, MonitorInv, RefusedIsInvalid
<1>3. CASE /\ pc' = [pc EXCEPT ![p] = "insert"]
           /\ UNCHANGED <<dbVars, memVars, request, state, cursor, rows>>
  <2>1. pc'[p] = "insert" /\ \A q \in Procs \ {p} : Untouched(q)
    BY <1>0, <1>3 DEF TypeOK, Untouched, memVars
  <2>2. TypeOK'
    BY <1>0, <1>3 DEF TypeOK, memVars, dbVars
  <2>3. ProcRight(p)'
    BY <1>0, <1>1, <1>3, <2>1 DEF ProcRight, RequestRight, StateRight, ValidateRight, UpdateRight, CosignRight
  <2>4. UNCHANGED <<dbVars, cosigned, refused>>
    BY <1>2, <1>3
  <2> QED
    BY <1>1, <2>1, <2>2, <2>3, <2>4, LocalStep
<1>4. CASE /\ s # NoState /\ Consistent(s, request[p].head)
           /\ state' = [state EXCEPT ![p] = s]
           /\ pc' = [pc EXCEPT ![p] = "lock"]
           /\ UNCHANGED <<dbVars, memVars, request, cursor, rows>>
  <2>1. pc'[p] = "lock" /\ state'[p] = s /\ \A q \in Procs \ {p} : Untouched(q)
    BY <1>0, <1>4 DEF TypeOK, Untouched, memVars
  <2>2. TypeOK'
    BY <1>0, <1>4 DEF TypeOK, memVars, dbVars
  <2>3. Below(s, request[p].head)
    <3>1. s \in Seq(Entries) /\ request[p].head \in Seq(Entries)
      BY <1>0, <1>1, <1>4, SignedHead DEF TypeOK
    <3> QED
      BY <1>4, <3>1, BelowIsPrefix DEF Consistent
  <2> HIDE DEF s
  <2>4. ProcRight(p)'
    <3>1. RequestRight(p)' /\ ValidateRight(p)' /\ UpdateRight(p)' /\ CosignRight(p)'
      BY <1>0, <1>1, <1>4, <2>1 DEF ProcRight, RequestRight, ValidateRight, UpdateRight, CosignRight
    <3>2. StateRight(p)'
      BY <1>4, <2>1, <2>3 DEF StateRight
    <3> QED
      BY <3>1, <3>2 DEF ProcRight
  <2>5. UNCHANGED <<dbVars, cosigned, refused>>
    BY <1>2, <1>4
  <2> QED
    BY <1>1, <2>1, <2>2, <2>4, <2>5, LocalStep
<1>5. CASE Error(p)
  BY <1>2, <1>5, ErrorStep
<1> QED
  BY <1>3, <1>4, <1>5 DEF Get

\* rollback_entries and load_state: the monitor object becomes the index of the
\* state that was verified against, whatever it held before.
LEMMA LoadStep ==
    ASSUME MonitorInv, NEW p \in Procs, Load(p)
    PROVE  MonitorInv'
<1>0. TypeOK /\ ProcRight(p) /\ \A o \in Logs : LogRight(o)
  BY DEF MonitorInv
<1>1. /\ pc[p] = "load" /\ request[p].origin \in Logs
      /\ request[p].head \in Signed[request[p].origin]
      /\ state[p] # NoState /\ Below(state[p], request[p].head)
      /\ witness_state[request[p].origin] = state[p]
      /\ rows[p] = Both(Empty)
  BY <1>0 DEF Load, ProcRight, RequestRight, StateRight, UpdateRight
<1>2. PICK h, m, n : h = request[p].head /\ m = Len(state[p]) /\ n = Len(h)
  OBVIOUS
<1>3. /\ h \in Seq(Entries) /\ m \in Nat /\ n \in Nat /\ m <= n
      /\ state[p] \in Seq(Entries)
  BY <1>1, <1>2 DEF Below
<1>4. /\ pending'[p] = Both(<<>>) /\ index'[p] = content[request[p].origin]
      /\ cursor'[p] = m /\ rows'[p] = Both(Empty)
      /\ request' = request /\ state' = state
      /\ pc'[p] = IF n > m THEN "validate" ELSE "update"
      /\ \A q \in Procs \ {p} : Untouched(q)
  BY <1>0, <1>1, <1>2 DEF TypeOK, Load, Untouched, RolledBack
<1>5. TypeOK'
  BY <1>0 DEF TypeOK, Load, dbVars, RolledBack, Both
<1>6. UNCHANGED <<dbVars, cosigned, refused>>
  BY DEF Load, histVars
<1>7. ValidTo(h, m) /\ RowsRight(index'[p], h, 0, m)
  <2>1. ValidTo(state[p], m) /\ RowsRight(content[request[p].origin], state[p], 0, m)
    BY <1>0, <1>1, <1>2 DEF LogRight
  <2>2. ValidTo(h, m)
    BY <1>1, <1>2, <1>3, <2>1, ValidBelow
  <2> QED
    BY <1>1, <1>2, <1>3, <1>4, <2>1, <2>2, RowsBelow
<1>8. StagedRight(pending'[p], h, m, m)
  BY <1>3, <1>4, StagedEmpty DEF StagedRight, Both
<1>9. RowsRight(rows'[p], h, m, m)
  BY <1>3, <1>4, TableEmpty DEF RowsRight, Both
<1>10. ProcRight(p)'
  <2>1. RequestRight(p)' /\ CosignRight(p)'
    BY <1>1, <1>4 DEF RequestRight, CosignRight
  <2>2. StateRight(p)'
    BY <1>1, <1>4, <1>6 DEF StateRight, dbVars
  <2>3. ValidateRight(p)'
    BY <1>2, <1>3, <1>4, <1>7, <1>8 DEF ValidateRight
  <2>4. UpdateRight(p)'
    <3>1. ASSUME pc'[p] = "update" PROVE n = m
      BY <1>3, <1>4, <3>1
    <3> QED
      BY <1>2, <1>4, <1>7, <1>9, <3>1 DEF UpdateRight
  <2> QED
    BY <2>1, <2>2, <2>3, <2>4 DEF ProcRight
<1> QED
  BY <1>1, <1>4, <1>5, <1>6, <1>10, LocalStep

\* What a process at validation knows of its head and its cursor.
LEMMA Validating ==
    ASSUME MonitorInv, NEW p \in Procs, pc[p] = "validate",
           NEW h, h = request[p].head, NEW m, m = Len(state[p]), NEW c, c = cursor[p]
    PROVE  /\ request[p].origin \in Logs /\ h \in Signed[request[p].origin]
           /\ h \in Seq(Entries) /\ m \in Nat /\ c \in Nat /\ m <= c /\ c <= Len(h) /\ Len(h) \in Nat
           /\ ValidTo(h, c) /\ RowsRight(index[p], h, 0, m) /\ StagedRight(pending[p], h, m, c)
           /\ c < Len(h) => (Rejected(p) <=> ~ValidTo(h, c + 1))
<1>0. ProcRight(p)
  BY DEF MonitorInv
<1>1. /\ request[p].origin \in Logs /\ h \in Signed[request[p].origin]
      /\ Below(state[p], h)
      /\ c \in Nat /\ m <= c /\ c <= Len(h) /\ ValidTo(h, c)
      /\ RowsRight(index[p], h, 0, m) /\ StagedRight(pending[p], h, m, c)
  BY <1>0 DEF ProcRight, RequestRight, StateRight, ValidateRight
<1>2. h \in Seq(Entries) /\ m \in Nat /\ Len(h) \in Nat
  BY <1>1 DEF Below
<1>3. ASSUME c < Len(h) PROVE Rejected(p) <=> ~ValidTo(h, c + 1)
  <2>1. PICK shas, files, e :
          /\ shas = Seen(index[p].sha256, pending[p].sha256)
          /\ files = Seen(index[p].filename, pending[p].filename)
          /\ e = h[c + 1]
    OBVIOUS
  <2>2. IsTable(shas, ShaKey(h), ShaVal(h), 0, c) /\ IsTable(files, FileKey(h), FileVal(h), 0, c)
    BY <1>1, <1>2, <2>1, SeenRight
  <2>3. Rejected(p) <=> \/ e \in Malformed
                        \/ Check(shas, Sha256[e], c, NoValue) # "none"
                        \/ Check(files, Filename[e], c, Sha256[e]) = "conflict"
    BY <2>1 DEF Rejected, CurrentEntry
  <2> QED
    BY <1>1, <1>2, <1>3, <2>1, <2>2, <2>3, RejectedMeans
<1> QED
  BY <1>1, <1>2, <1>3

\* An entry that passes is staged, and the head is valid up to it.
LEMMA ValidateEntryStep ==
    ASSUME MonitorInv, NEW p \in Procs, ValidateEntry(p)
    PROVE  MonitorInv'
<1>0. TypeOK /\ ProcRight(p)
  BY DEF MonitorInv
<1>1. PICK h, m, c, e : h = request[p].head /\ m = Len(state[p]) /\ c = cursor[p] /\ e = h[c + 1]
  OBVIOUS
<1>2. pc[p] = "validate" /\ c < Len(h) /\ ~Rejected(p)
  BY <1>1 DEF ValidateEntry
<1>3. /\ h \in Seq(Entries) /\ m \in Nat /\ c \in Nat /\ m <= c /\ Len(h) \in Nat
      /\ RowsRight(index[p], h, 0, m) /\ StagedRight(pending[p], h, m, c)
      /\ ValidTo(h, c + 1)
  BY <1>1, <1>2, Validating, Zenon
<1>4. /\ pending'[p].sha256 = Stage(pending[p].sha256, Staged(Sha256[e], c, NoValue))
      /\ pending'[p].filename = Stage(pending[p].filename, Staged(Filename[e], c, Sha256[e]))
  BY <1>0, <1>1 DEF TypeOK, ValidateEntry, CurrentEntry
<1>5. /\ cursor'[p] = c + 1 /\ index' = index /\ pc' = pc /\ request' = request
      /\ state' = state /\ rows' = rows
      /\ \A q \in Procs \ {p} : Untouched(q)
  BY <1>0, <1>1 DEF TypeOK, ValidateEntry, Untouched
<1>6. TypeOK'
  <2>1. ASSUME NEW q \in Procs PROVE DOMAIN pending'[q] = {"sha256", "filename"}
    BY <1>0 DEF TypeOK, ValidateEntry
  <2>2. DOMAIN pending' = Procs /\ DOMAIN cursor' = Procs
    BY <1>0 DEF TypeOK, ValidateEntry
  <2> QED
    BY <1>0, <1>5, <2>1, <2>2 DEF TypeOK, ValidateEntry, dbVars
<1>7. UNCHANGED <<dbVars, cosigned, refused>>
  BY DEF ValidateEntry, histVars
<1>8. StagedRight(pending'[p], h, m, c + 1)
  <2>1. c + 1 \in DOMAIN h /\ e \in Entries
    BY <1>1, <1>2, <1>3
  <2>2. /\ ShaKey(h)[c + 1] = Sha256[e] /\ ShaVal(h)[c + 1] = NoValue
        /\ FileKey(h)[c + 1] = Filename[e] /\ FileVal(h)[c + 1] = Sha256[e]
    BY <1>1, <2>1 DEF ShaKey, ShaVal, FileKey, FileVal
  <2>3. /\ Staged(Sha256[e], c, NoValue) \in StagedRows
        /\ Staged(Filename[e], c, Sha256[e]) \in StagedRows
    BY <1>3, <2>1 DEF Staged, StagedRows
  <2>4. IsStaged(pending'[p].sha256, ShaKey(h), ShaVal(h), m, c + 1)
    <3>1. IsStaged(Stage(pending[p].sha256, Staged(ShaKey(h)[c + 1], c, ShaVal(h)[c + 1])),
                   ShaKey(h), ShaVal(h), m, c + 1)
      BY <1>3, <2>2, <2>3, StageAppends DEF StagedRight
    <3> QED
      BY <1>4, <2>2, <3>1
  <2>5. IsStaged(pending'[p].filename, FileKey(h), FileVal(h), m, c + 1)
    <3>1. IsStaged(Stage(pending[p].filename, Staged(FileKey(h)[c + 1], c, FileVal(h)[c + 1])),
                   FileKey(h), FileVal(h), m, c + 1)
      BY <1>3, <2>2, <2>3, StageAppends DEF StagedRight
    <3> QED
      BY <1>4, <2>2, <3>1
  <2> QED
    BY <2>4, <2>5 DEF StagedRight
<1>9. ProcRight(p)'
  <2>1. RequestRight(p)' /\ CosignRight(p)' /\ UpdateRight(p)'
    BY <1>0, <1>2, <1>5 DEF ProcRight, RequestRight, CosignRight, UpdateRight
  <2>2. StateRight(p)'
    BY <1>0, <1>5, <1>7 DEF ProcRight, StateRight, dbVars
  <2>3. ValidateRight(p)'
    BY <1>1, <1>2, <1>3, <1>5, <1>8 DEF ValidateRight
  <2> QED
    BY <2>1, <2>2, <2>3 DEF ProcRight
<1> QED
  BY <1>2, <1>5, <1>6, <1>7, <1>9, LocalStep

\* An entry is refused only if the head does break the rules.
LEMMA RejectEntryStep ==
    ASSUME MonitorInv, NEW p \in Procs, RejectEntry(p)
    PROVE  MonitorInv'
<1>1. PICK h, m, c : h = request[p].head /\ m = Len(state[p]) /\ c = cursor[p]
  OBVIOUS
<1>2. pc[p] = "validate" /\ c < Len(h) /\ Rejected(p)
  BY <1>1 DEF RejectEntry
<1>3. h \in Seq(Entries) /\ c \in Nat /\ Len(h) \in Nat /\ ~ValidTo(h, c + 1)
  BY <1>1, <1>2, Validating
<1>4. ~ValidTo(h, Len(h))
  <2>1. \A i \in 1 .. c + 1 : i \in 1 .. Len(h)
    BY <1>2, <1>3
  <2> QED
    BY <1>3, <2>1 DEF ValidTo
<1>5. ~ValidContent(h)
  BY <1>3, <1>4, ValidMeans
<1>6. RefusedIsInvalid'
  <2>1. refused' = refused \cup {<<request[p].origin, h>>} /\ RefusedIsInvalid
    BY <1>1 DEF RejectEntry, MonitorInv
  <2> QED
    BY <1>5, <2>1 DEF RefusedIsInvalid
<1> QED
  BY <1>6, ErrorStep DEF RejectEntry

\* commit_entries saves exactly what the new head adds.
LEMMA CommitEntriesStep ==
    ASSUME MonitorInv, NEW p \in Procs, CommitEntries(p)
    PROVE  MonitorInv'
<1>0. TypeOK /\ ProcRight(p)
  BY DEF MonitorInv
<1>1. PICK h, m, c : h = request[p].head /\ m = Len(state[p]) /\ c = cursor[p]
  OBVIOUS
<1>2. pc[p] = "validate" /\ c = Len(h)
  BY <1>1 DEF CommitEntries
<1>3. /\ h \in Seq(Entries) /\ m \in Nat /\ c \in Nat /\ m <= c
      /\ ValidTo(h, c) /\ StagedRight(pending[p], h, m, c)
  BY <1>1, <1>2, Validating
<1>4. /\ rows'[p].sha256 = AsTable(pending[p].sha256)
      /\ rows'[p].filename = AsTable(pending[p].filename)
      /\ pc'[p] = "update" /\ request' = request /\ state' = state
      /\ \A q \in Procs \ {p} : Untouched(q)
  BY <1>0 DEF TypeOK, CommitEntries, Untouched
<1>5. TypeOK'
  <2>1. ASSUME NEW q \in Procs PROVE DOMAIN pending'[q] = {"sha256", "filename"}
    BY <1>0 DEF TypeOK, CommitEntries, Both
  <2> QED
    BY <1>0, <2>1 DEF TypeOK, CommitEntries, dbVars
<1>6. UNCHANGED <<dbVars, cosigned, refused>>
  BY DEF CommitEntries, histVars
<1>7. RowsRight(rows'[p], h, m, c)
  <2>1. Distinct(ShaKey(h), c) /\ Distinct(FileKey(h), c)
    BY <1>2, <1>3, DistinctKeys
  <2>2. IsTable(rows'[p].sha256, ShaKey(h), ShaVal(h), m, c)
    BY <1>3, <1>4, <2>1, TableOfStaged DEF StagedRight
  <2>3. IsTable(rows'[p].filename, FileKey(h), FileVal(h), m, c)
    BY <1>3, <1>4, <2>1, TableOfStaged DEF StagedRight
  <2> QED
    BY <2>2, <2>3 DEF RowsRight
<1>8. ProcRight(p)'
  <2>1. RequestRight(p)' /\ CosignRight(p)' /\ ValidateRight(p)'
    BY <1>0, <1>2, <1>4 DEF ProcRight, RequestRight, CosignRight, ValidateRight
  <2>2. StateRight(p)'
    BY <1>0, <1>2, <1>4, <1>6 DEF ProcRight, StateRight, dbVars
  <2>3. UpdateRight(p)'
    BY <1>1, <1>2, <1>3, <1>4, <1>7 DEF UpdateRight
  <2> QED
    BY <2>1, <2>2, <2>3 DEF ProcRight
<1> QED
  BY <1>2, <1>4, <1>5, <1>6, <1>8, LocalStep

\* get_or_init adds a row of an empty tree, and only where there is none.
LEMMA InsertStep ==
    ASSUME MonitorInv, NEW p \in Procs, Insert(p)
    PROVE  MonitorInv'
<1>0. TypeOK /\ ProcRight(p) /\ LocksRight
  BY DEF MonitorInv
<1>1. pc[p] = "insert" /\ request[p].origin \in Logs
  BY <1>0 DEF Insert, ProcRight, RequestRight
<1>2. PICK o \in Logs : o = request[p].origin
  BY <1>1
<1>3. /\ witness_state' = [witness_state EXCEPT ![o] = IF @ = NoState THEN <<>> ELSE @]
      /\ pc' = [pc EXCEPT ![p] = "get"]
      /\ content' = content /\ lock' = lock /\ index' = index /\ pending' = pending
      /\ request' = request /\ state' = state /\ cursor' = cursor /\ rows' = rows
      /\ cosigned' = cosigned /\ refused' = refused
  BY <1>2 DEF Insert, memVars, histVars
<1>4. /\ \A x \in Logs : witness_state[x] # NoState => witness_state'[x] = witness_state[x]
      /\ \A x \in Logs : witness_state[x] = NoState =>
            witness_state'[x] = NoState \/ witness_state'[x] = <<>>
      /\ witness_state' \in [Logs -> Seq(Entries) \cup {NoState}]
  BY <1>0, <1>3 DEF TypeOK
<1>5. pc'[p] = "get" /\ \A q \in Procs \ {p} : Untouched(q)
  BY <1>0, <1>3 DEF TypeOK, Untouched
<1>6. HeadsGrow
  <2> SUFFICES ASSUME NEW x \in Logs, witness_state[x] # NoState
               PROVE  witness_state'[x] # NoState /\ Below(witness_state[x], witness_state'[x])
    BY DEF HeadsGrow
  <2>1. witness_state[x] \in Seq(Entries)
    BY <1>0 DEF TypeOK
  <2> QED
    BY <1>4, <2>1, BelowReflexive
<1>7. TypeOK'
  BY <1>0, <1>3, <1>4 DEF TypeOK
<1>8. ASSUME NEW x \in Logs PROVE LogRight(x)'
  <2>0. LogRight(x)
    BY DEF MonitorInv
  <2>1. CASE witness_state'[x] = witness_state[x]
    BY <1>3, <2>0, <2>1 DEF LogRight
  <2>2. CASE witness_state[x] = NoState /\ witness_state'[x] = <<>>
    <3>1. content[x] = Both(Empty) /\ Len(<<>>) = 0 /\ NoState # <<>>
      BY <2>0, <2>2, MonitorAssumption DEF LogRight
    <3>2. RowsRight(Both(Empty), <<>>, 0, 0)
      BY TableEmpty DEF RowsRight, Both
    <3>3. ValidTo(<<>>, 0)
      BY DEF ValidTo
    <3> QED
      BY <1>3, <2>0, <2>2, <3>1, <3>2, <3>3 DEF LogRight
  <2> QED
    BY <1>4, <2>1, <2>2
<1>9. LocksRight'
  <2>1. ASSUME NEW x \in Logs, NEW q \in Procs
        PROVE  lock[x] = q <=> pc'[q] \in {"load", "validate", "update"} /\ request[q].origin = x
    BY <1>0, <1>1, <1>5 DEF LocksRight, Untouched
  <2> QED
    BY <1>3, <2>1 DEF LocksRight
<1>10. ASSUME NEW q \in Procs PROVE ProcRight(q)'
  <2>1. CASE q = p
    BY <1>0, <1>1, <1>3, <1>5, <2>1 DEF ProcRight, RequestRight, StateRight, ValidateRight, UpdateRight, CosignRight
  <2>2. CASE q # p
    <3>1. ASSUME NEW x \in Logs, lock[x] = q PROVE witness_state'[x] = witness_state[x]
      <4>1. pc[q] \in {"load", "validate", "update"} /\ request[q].origin = x /\ ProcRight(q)
        BY <1>0, <3>1 DEF LocksRight, MonitorInv
      <4>2. witness_state[x] # NoState
        BY <4>1 DEF ProcRight, StateRight
      <4> QED
        BY <1>4, <4>2
    <3> QED
      BY <1>5, <1>6, <2>2, <3>1, ProcFrame
  <2> QED
    BY <2>1, <2>2
<1>11. \A c \in cosigned' : c[1] \in Logs /\ Persisted(c[1], c[2])'
  BY <1>3, <1>6, CosignedStays
<1>12. RefusedIsInvalid'
  BY <1>3 DEF MonitorInv, RefusedIsInvalid
<1> QED
  BY <1>7, <1>8, <1>9, <1>10, <1>11, <1>12 DEF MonitorInv

\* lock_in pins the state that was read, or fails.
LEMMA LockStep ==
    ASSUME MonitorInv, NEW p \in Procs, Lock(p)
    PROVE  MonitorInv'
<1>0. TypeOK /\ ProcRight(p) /\ LocksRight
  BY DEF MonitorInv
<1>1. pc[p] = "lock" /\ request[p].origin \in Logs
  BY <1>0 DEF Lock, ProcRight, RequestRight
<1>2. PICK o \in Logs : o = request[p].origin
  BY <1>1
<1>3. lock[o] = NoProc /\ UNCHANGED <<cosigned, refused>> /\ RefusedIsInvalid'
  BY <1>2 DEF Lock, histVars, MonitorInv, RefusedIsInvalid
<1>4. CASE StillCurrent(p)
  <2>1. /\ lock' = [lock EXCEPT ![o] = p] /\ pc' = [pc EXCEPT ![p] = "load"]
        /\ witness_state' = witness_state /\ content' = content
        /\ index' = index /\ pending' = pending
        /\ request' = request /\ state' = state /\ cursor' = cursor /\ rows' = rows
    BY <1>2, <1>4 DEF Lock, memVars
  <2>2. pc'[p] = "load" /\ \A q \in Procs \ {p} : Untouched(q)
    BY <1>0, <2>1 DEF TypeOK, Untouched
  <2>3. HeadsGrow
    BY <2>1, SameHeadsGrow
  <2>4. TypeOK'
    BY <1>0, <2>1 DEF TypeOK
  <2>5. LocksRight'
    <3>1. ASSUME NEW x \in Logs, NEW q \in Procs
          PROVE  lock'[x] = q <=> pc'[q] \in {"load", "validate", "update"} /\ request[q].origin = x
      <4>0. lock[x] = q <=> pc[q] \in {"load", "validate", "update"} /\ request[q].origin = x
        BY <1>0 DEF LocksRight
      <4>1. CASE q = p
        <5>1. lock[x] # q
          BY <1>1, <4>0, <4>1
        <5>2. lock'[x] = q <=> x = o
          BY <1>0, <2>1, <4>1, <5>1 DEF TypeOK
        <5> QED
          BY <1>2, <2>2, <4>1, <5>2
      <4>2. CASE q # p
        <5>1. lock'[x] = q <=> lock[x] = q
          BY <1>0, <1>3, <2>1, <4>2, MonitorAssumption DEF TypeOK
        <5> QED
          BY <2>2, <4>0, <4>2, <5>1 DEF Untouched
      <4> QED
        BY <4>1, <4>2
    <3> QED
      BY <2>1, <3>1 DEF LocksRight
  <2>6. ProcRight(p)'
    <3>1. witness_state[request[p].origin] = state[p]
      BY <1>4 DEF StillCurrent
    <3>2. StateRight(p)'
      BY <1>0, <1>1, <2>1, <3>1 DEF ProcRight, StateRight
    <3>3. RequestRight(p)' /\ ValidateRight(p)' /\ UpdateRight(p)' /\ CosignRight(p)'
      BY <1>0, <1>1, <2>1, <2>2 DEF ProcRight, RequestRight, ValidateRight, UpdateRight, CosignRight
    <3> QED
      BY <3>2, <3>3 DEF ProcRight
  <2>7. ASSUME NEW q \in Procs PROVE ProcRight(q)'
    <3>1. CASE q # p
      BY <2>1, <2>2, <2>3, <3>1, ProcFrame
    <3> QED
      BY <2>6, <3>1
  <2>8. \A x \in Logs : LogRight(x)'
    BY <2>1 DEF MonitorInv, LogRight
  <2>9. \A c \in cosigned' : c[1] \in Logs /\ Persisted(c[1], c[2])'
    BY <1>3, <2>3, CosignedStays
  <2> QED
    BY <1>3, <2>4, <2>5, <2>7, <2>8, <2>9 DEF MonitorInv
<1>5. CASE ~StillCurrent(p)
  <2>1. Error(p)
    BY <1>5 DEF Lock
  <2> QED
    BY <1>3, <2>1, ErrorStep
<1> QED
  BY <1>4, <1>5

\* update_in and commit: head and rows become visible together, and stay exact.
LEMMA ApplyStep ==
    ASSUME MonitorInv, NEW p \in Procs, pc[p] = "update", Apply(p),
           \A q \in Procs \ {p} : Untouched(q),
           \/ pc'[p] = "cosign" /\ request'[p] = request[p]
           \/ pc'[p] = "idle" /\ rows'[p] = Both(Empty),
           UNCHANGED <<cosigned, refused>>,
           pc' \in [Procs -> {"idle", "get", "insert", "lock", "load", "validate", "update", "cosign"}],
           DOMAIN request' = Procs /\ DOMAIN state' = Procs /\ DOMAIN cursor' = Procs,
           DOMAIN index' = Procs /\ DOMAIN pending' = Procs /\ DOMAIN rows' = Procs,
           DOMAIN pending'[p] = {"sha256", "filename"}
    PROVE  MonitorInv'
<1>0. TypeOK /\ ProcRight(p) /\ LocksRight
  BY DEF MonitorInv
<1>1. PICK o, h, s, m, n :
        /\ o = request[p].origin /\ h = request[p].head /\ s = state[p]
        /\ m = Len(s) /\ n = Len(h)
  OBVIOUS
<1>2. /\ o \in Logs /\ h \in Signed[o] /\ s # NoState /\ Below(s, h) /\ witness_state[o] = s
      /\ ValidTo(h, n) /\ RowsRight(rows[p], h, m, n)
  BY <1>0, <1>1 DEF ProcRight, RequestRight, StateRight, UpdateRight
<1>3. /\ h \in Seq(Entries) /\ s \in Seq(Entries) /\ h # NoState
      /\ m \in Nat /\ n \in Nat /\ m <= n
  BY <1>1, <1>2, SignedHead DEF Below
<1>4. /\ witness_state' = [witness_state EXCEPT ![o] = h]
      /\ content' = [content EXCEPT ![o] = Saved(o, p)]
      /\ lock' = Unlocked(p)
  BY <1>1 DEF Apply
<1>5. TypeOK'
  <2>1. lock' \in [Logs -> Procs \cup {NoProc}]
    BY <1>0, <1>4 DEF TypeOK, Unlocked
  <2>2. witness_state' \in [Logs -> Seq(Entries) \cup {NoState}] /\ DOMAIN content' = Logs
    BY <1>0, <1>3, <1>4 DEF TypeOK
  <2>3. \A q \in Procs : DOMAIN pending'[q] = {"sha256", "filename"}
    BY <1>0 DEF TypeOK, Untouched
  <2> QED
    BY <2>1, <2>2, <2>3 DEF TypeOK
<1>6. /\ witness_state'[o] = h /\ content'[o] = Saved(o, p)
      /\ \A x \in Logs \ {o} : witness_state'[x] = witness_state[x] /\ content'[x] = content[x]
  BY <1>0, <1>2, <1>4 DEF TypeOK
<1>7. HeadsGrow
  <2> SUFFICES ASSUME NEW x \in Logs, witness_state[x] # NoState
               PROVE  witness_state'[x] # NoState /\ Below(witness_state[x], witness_state'[x])
    BY DEF HeadsGrow
  <2>1. CASE x = o
    BY <1>2, <1>3, <1>6, <2>1
  <2>2. CASE x # o
    <3>1. witness_state[x] \in Seq(Entries)
      BY <1>0 DEF TypeOK
    <3> QED
      BY <1>6, <2>2, <3>1, BelowReflexive
  <2> QED
    BY <2>1, <2>2
<1>8. RowsRight(Saved(o, p), h, 0, n)
  <2>1. RowsRight(content[o], s, 0, m)
    <3>1. LogRight(o)
      BY <1>2 DEF MonitorInv
    <3> QED
      BY <1>1, <1>2, <3>1 DEF LogRight
  <2>2. RowsRight(content[o], h, 0, m)
    BY <1>1, <1>2, <1>3, <2>1, RowsBelow
  <2>3. Distinct(ShaKey(h), n) /\ Distinct(FileKey(h), n)
    BY <1>1, <1>2, <1>3, DistinctKeys
  <2>4. IsTable(Inserted(content[o].sha256, rows[p].sha256), ShaKey(h), ShaVal(h), 0, n)
    BY <1>2, <1>3, <2>2, <2>3, TableJoins DEF RowsRight
  <2>5. IsTable(Inserted(content[o].filename, rows[p].filename), FileKey(h), FileVal(h), 0, n)
    BY <1>2, <1>3, <2>2, <2>3, TableJoins DEF RowsRight
  <2> QED
    BY <2>4, <2>5 DEF RowsRight, Saved
<1>9. ASSUME NEW x \in Logs PROVE LogRight(x)'
  <2>1. CASE x = o
    <3>1. Saved(o, p) = [sha256 |-> Saved(o, p).sha256, filename |-> Saved(o, p).filename]
      BY DEF Saved
    <3>2. content'[x] = Saved(o, p) /\ witness_state'[x] = h
      BY <1>6, <2>1
    <3> QED
      BY <1>1, <1>2, <1>3, <1>8, <3>1, <3>2 DEF LogRight
  <2>2. CASE x # o
    <3>1. LogRight(x)
      BY DEF MonitorInv
    <3> QED
      BY <1>6, <2>2, <3>1 DEF LogRight
  <2> QED
    BY <2>1, <2>2
<1>10. lock[o] = p
  BY <1>0, <1>1, <1>2 DEF LocksRight
<1>11. ProcRight(p)'
  <2>1. CASE pc'[p] = "idle" /\ rows'[p] = Both(Empty)
    BY <2>1, IdleRight
  <2>2. CASE pc'[p] = "cosign" /\ request'[p] = request[p]
    <3>1. Below(h, h)
      BY <1>3, BelowReflexive
    <3>2. CosignRight(p)'
      BY <1>1, <1>3, <1>6, <2>2, <3>1 DEF CosignRight, Persisted
    <3>3. RequestRight(p)' /\ StateRight(p)' /\ ValidateRight(p)' /\ UpdateRight(p)'
      BY <1>1, <1>2, <2>2 DEF RequestRight, StateRight, ValidateRight, UpdateRight
    <3> QED
      BY <3>2, <3>3 DEF ProcRight
  <2> QED
    BY <2>1, <2>2
<1>12. ASSUME NEW q \in Procs PROVE ProcRight(q)'
  <2>1. CASE q # p
    <3>1. \A x \in Logs : lock[x] = q => witness_state'[x] = witness_state[x]
      BY <1>6, <1>10, <2>1
    <3> QED
      BY <1>7, <2>1, <3>1, ProcFrame
  <2> QED
    BY <1>11, <2>1
<1>13. LocksRight'
  <2>1. ASSUME NEW x \in Logs, NEW q \in Procs
        PROVE  lock'[x] = q <=> pc'[q] \in {"load", "validate", "update"} /\ request'[q].origin = x
    <3>1. lock'[x] = IF lock[x] = p THEN NoProc ELSE lock[x]
      BY <1>4 DEF Unlocked
    <3>2. CASE q = p
      BY <3>1, <3>2, MonitorAssumption
    <3>3. CASE q # p
      <4>1. lock'[x] = q <=> lock[x] = q
        BY <3>1, <3>3, MonitorAssumption
      <4>2. lock[x] = q <=> pc[q] \in {"load", "validate", "update"} /\ request[q].origin = x
        BY <1>0 DEF LocksRight
      <4> QED
        BY <3>3, <4>1, <4>2 DEF Untouched
    <3> QED
      BY <3>2, <3>3
  <2> QED
    BY <2>1 DEF LocksRight
<1>14. \A c \in cosigned' : c[1] \in Logs /\ Persisted(c[1], c[2])'
  BY <1>7, CosignedStays
<1>15. RefusedIsInvalid'
  BY DEF MonitorInv, RefusedIsInvalid
<1> QED
  BY <1>5, <1>9, <1>12, <1>13, <1>14, <1>15 DEF MonitorInv

\* The commit is acknowledged.
LEMMA CommitStep ==
    ASSUME MonitorInv, NEW p \in Procs, Commit(p)
    PROVE  MonitorInv'
<1>0. TypeOK
  BY DEF MonitorInv
<1>1. /\ pc[p] = "update" /\ Apply(p) /\ pc' = [pc EXCEPT ![p] = "cosign"]
      /\ index' = index /\ pending' = pending /\ request' = request /\ state' = state
      /\ cursor' = cursor /\ rows' = rows /\ UNCHANGED <<cosigned, refused>>
  BY DEF Commit, memVars, histVars
<1>2. /\ pc' \in [Procs -> {"idle", "get", "insert", "lock", "load", "validate", "update", "cosign"}]
      /\ pc'[p] = "cosign" /\ request'[p] = request[p]
      /\ \A q \in Procs \ {p} : Untouched(q)
  BY <1>0, <1>1 DEF TypeOK, Untouched
<1>3. /\ DOMAIN request' = Procs /\ DOMAIN state' = Procs /\ DOMAIN cursor' = Procs
      /\ DOMAIN index' = Procs /\ DOMAIN pending' = Procs /\ DOMAIN rows' = Procs
      /\ DOMAIN pending'[p] = {"sha256", "filename"}
  BY <1>0, <1>1 DEF TypeOK
<1> QED
  BY <1>1, <1>2, <1>3, ApplyStep

\* The commit takes effect and the request ends without learning of it.
LEMMA ApplyAndFinish ==
    ASSUME MonitorInv, NEW p \in Procs, pc[p] = "update", Apply(p), Finish(p),
           UNCHANGED <<index, cosigned, refused>>,
           pending' = [pending EXCEPT ![p] = Both(<<>>)] \/ UNCHANGED pending
    PROVE  MonitorInv'
<1>0. TypeOK
  BY DEF MonitorInv
<1>1. /\ pc' \in [Procs -> {"idle", "get", "insert", "lock", "load", "validate", "update", "cosign"}]
      /\ pc'[p] = "idle" /\ rows'[p] = Both(Empty)
      /\ \A q \in Procs \ {p} : Untouched(q)
  BY <1>0 DEF TypeOK, Finish, Untouched
<1>2. /\ DOMAIN request' = Procs /\ DOMAIN state' = Procs /\ DOMAIN cursor' = Procs
      /\ DOMAIN index' = Procs /\ DOMAIN rows' = Procs
  BY <1>0 DEF TypeOK, Finish
<1>3. DOMAIN pending' = Procs /\ DOMAIN pending'[p] = {"sha256", "filename"}
  BY <1>0 DEF TypeOK, Both
<1> QED
  BY <1>1, <1>2, <1>3, ApplyStep

\* The cosigned head is a persisted one.
LEMMA CosignStep ==
    ASSUME MonitorInv, NEW p \in Procs, Cosign(p)
    PROVE  MonitorInv'
<1>0. TypeOK /\ ProcRight(p) /\ LocksRight
  BY DEF MonitorInv
<1>1. /\ pc[p] = "cosign" /\ Finish(p)
      /\ cosigned' = cosigned \cup {<<request[p].origin, request[p].head>>}
      /\ UNCHANGED <<witness_state, content, index, pending, refused>> /\ lock' = lock
  BY DEF Cosign, dbVars, memVars
<1>2. lock' = Unlocked(p)
  <2>1. \A o \in Logs : lock[o] # p
    BY <1>0, <1>1 DEF LocksRight
  <2>2. lock = [o \in Logs |-> lock[o]]
    BY <1>0 DEF TypeOK
  <2> QED
    BY <1>1, <2>1, <2>2 DEF Unlocked
<1>3. \A c \in cosigned' : c[1] \in Logs /\ Persisted(c[1], c[2])
  <2>1. request[p].origin \in Logs /\ Persisted(request[p].origin, request[p].head)
    BY <1>0, <1>1 DEF ProcRight, RequestRight, CosignRight
  <2> QED
    BY <1>1, <2>1 DEF MonitorInv
<1>4. RefusedIsInvalid'
  BY <1>1 DEF MonitorInv, RefusedIsInvalid
<1>5. /\ \A q \in Procs \ {p} : index'[q] = index[q] /\ pending'[q] = pending[q]
      /\ DOMAIN index' = Procs /\ DOMAIN pending' = Procs
      /\ DOMAIN pending'[p] = {"sha256", "filename"}
  BY <1>0, <1>1 DEF TypeOK
<1> QED
  BY <1>1, <1>2, <1>3, <1>4, <1>5, FinishStep

\* A request that is cancelled before its commit, and a process that dies, leave
\* nothing behind but what is staged in memory.
LEMMA AbandonStep ==
    ASSUME MonitorInv, NEW p \in Procs, Finish(p), lock' = Unlocked(p),
           UNCHANGED <<witness_state, content, cosigned, refused>>,
           \/ UNCHANGED memVars
           \/ /\ index' = [index EXCEPT ![p] = Both(Empty)]
              /\ pending' = [pending EXCEPT ![p] = Both(<<>>)]
    PROVE  MonitorInv'
<1>1. \A c \in cosigned' : c[1] \in Logs /\ Persisted(c[1], c[2])
  BY DEF MonitorInv
<1>2. RefusedIsInvalid'
  BY DEF MonitorInv, RefusedIsInvalid
<1>3. /\ \A q \in Procs \ {p} : index'[q] = index[q] /\ pending'[q] = pending[q]
      /\ DOMAIN index' = Procs /\ DOMAIN pending' = Procs
      /\ DOMAIN pending'[p] = {"sha256", "filename"}
  BY DEF MonitorInv, TypeOK, memVars, Both
<1> QED
  BY <1>1, <1>2, <1>3, FinishStep

\* Every step keeps the invariant.
LEMMA NextInv == MonitorInv /\ [Next]_vars => MonitorInv'
<1> SUFFICES ASSUME MonitorInv, [Next]_vars PROVE MonitorInv'
  OBVIOUS
<1>1. ASSUME UNCHANGED <<cosigned, refused>> PROVE RefusedIsInvalid'
  BY <1>1 DEF MonitorInv, RefusedIsInvalid
<1>2. ASSUME NEW p \in Procs, CallFails(p) PROVE MonitorInv'
  BY <1>1, <1>2, ErrorStep DEF CallFails
<1>3. ASSUME NEW p \in Procs, CommitLost(p) PROVE MonitorInv'
  BY <1>3, ApplyAndFinish DEF CommitLost
<1>4. ASSUME NEW p \in Procs, Cancel(p) PROVE MonitorInv'
  <2>1. CASE lock' = Unlocked(p) /\ UNCHANGED <<witness_state, content>>
    BY <1>4, <2>1, AbandonStep DEF Cancel
  <2>2. CASE pc[p] = "update" /\ Apply(p)
    BY <1>4, <2>2, ApplyAndFinish DEF Cancel, memVars
  <2> QED
    BY <1>4, <2>1, <2>2 DEF Cancel
<1>5. ASSUME NEW p \in Procs, Crash(p) PROVE MonitorInv'
  BY <1>5, AbandonStep DEF Crash
<1>6. CASE UNCHANGED vars
  BY <1>6 DEF vars, dbVars, memVars, reqVars, histVars, MonitorInv, TypeOK, LogRight, LocksRight,
     ProcRight, RequestRight, StateRight, ValidateRight, UpdateRight, CosignRight, Persisted,
     RefusedIsInvalid
<1>7. CASE Idle
  BY <1>6, <1>7 DEF Idle
<1>8. ASSUME NEW p \in Procs, NEW o \in Logs, NEW h \in Signed[o], NEW n, Receive(p, o, h, n)
      PROVE  MonitorInv'
  BY <1>8, ReceiveStep
<1> QED
  BY <1>2, <1>3, <1>4, <1>5, <1>6, <1>7, <1>8, GetStep, InsertStep, LockStep, LoadStep,
     ValidateEntryStep, RejectEntryStep, CommitEntriesStep, CommitStep, CosignStep DEF Next

\* The inductive invariant holds in every reachable state of the monitoring
\* witness (add_checkpoint, lock_in, load_state, commit_entries, update_in).
THEOREM MonitorInvariant == Spec => []MonitorInv
BY InitInv, NextInv, PTL DEF Spec

\* The two tables of content_index are at every moment exactly the content of the
\* head persisted for the log: they commit in one transaction, from rows staged for
\* that log and that request alone.
THEOREM AlwaysExact == Spec => []ContentExact
<1>1. MonitorInv => ContentExact
  <2> SUFFICES ASSUME MonitorInv, NEW o \in Logs
               PROVE  content[o] = IndexOf(IF witness_state[o] = NoState THEN <<>> ELSE witness_state[o])
    BY DEF ContentExact
  <2>1. LogRight(o) /\ TypeOK
    BY DEF MonitorInv
  <2>2. CASE witness_state[o] = NoState
    <3>1. content[o] = Both(Empty)
      BY <2>1, <2>2 DEF LogRight
    <3>2. /\ <<>> \in Seq(Entries) /\ Len(<<>>) = 0 /\ ValidTo(<<>>, 0)
          /\ RowsRight(Both(Empty), <<>>, 0, 0)
          /\ Both(Empty) = [sha256 |-> Both(Empty).sha256, filename |-> Both(Empty).filename]
      BY TableEmpty DEF ValidTo, RowsRight, Both
    <3>3. Both(Empty) = IndexOf(<<>>)
      BY <3>2, IndexOfRight
    <3> QED
      BY <2>2, <3>1, <3>3
  <2>3. CASE witness_state[o] # NoState
    <3>1. witness_state[o] \in Seq(Entries)
      BY <2>1, <2>3 DEF TypeOK
    <3>2. content[o] = IndexOf(witness_state[o])
      BY <2>1, <2>3, <3>1, IndexOfRight DEF LogRight
    <3> QED
      BY <2>3, <3>2
  <2> QED
    BY <2>2, <2>3
<1> QED
  BY <1>1, MonitorInvariant, PTL

\* The monitoring witness cosigns a checkpoint only if every entry of the whole
\* tree keeps the rules, whatever failed, was cancelled or ran beside it.
THEOREM AlwaysValid == Spec => []CosignedIsValid
<1>1. MonitorInv => CosignedIsValid
  <2> SUFFICES ASSUME MonitorInv, NEW c \in cosigned PROVE ValidContent(c[2])
    BY DEF CosignedIsValid
  <2>1. PICK o, h : o = c[1] /\ h = c[2]
    OBVIOUS
  <2>2. /\ o \in Logs /\ witness_state[o] # NoState /\ Below(h, witness_state[o])
        /\ LogRight(o)
    BY <2>1 DEF MonitorInv, Persisted
  <2>3. ValidTo(witness_state[o], Len(witness_state[o])) /\ h \in Seq(Entries)
    BY <2>2 DEF LogRight, Below
  <2>4. ValidTo(h, Len(h))
    BY <2>2, <2>3, ValidBelow
  <2> QED
    BY <2>1, <2>3, <2>4, ValidMeans
<1> QED
  BY <1>1, MonitorInvariant, PTL

\* A ValidationError is answered only for a tree whose content does break the
\* rules: nothing left over from another request or log is held against it.
THEOREM AlwaysJustRefusal == Spec => []RefusedIsInvalid
<1>1. MonitorInv => RefusedIsInvalid
  BY DEF MonitorInv
<1> QED
  BY <1>1, MonitorInvariant, PTL

\* Of two heads of a log that the monitoring witness has cosigned, in whichever
\* processes, one is a prefix of the other.
THEOREM NeverSplitView == Spec => []MonitorNoSplitView
<1>1. MonitorInv => MonitorNoSplitView
  <2> SUFFICES ASSUME MonitorInv, NEW c \in cosigned, NEW d \in cosigned, c[1] = d[1]
               PROVE  IsPrefix(c[2], d[2]) \/ IsPrefix(d[2], c[2])
    BY DEF MonitorNoSplitView
  <2>1. PICK o, g, h : o = c[1] /\ g = c[2] /\ h = d[2]
    OBVIOUS
  <2>2. Below(g, witness_state[o]) /\ Below(h, witness_state[o])
    BY <2>1 DEF MonitorInv, Persisted
  <2>3. g \in Seq(Entries) /\ h \in Seq(Entries)
    BY <2>2 DEF Below
  <2>4. Below(g, h) \/ Below(h, g)
    BY <2>2, BelowLinear
  <2> QED
    BY <2>1, <2>3, <2>4, BelowIsPrefix
<1> QED
  BY <1>1, MonitorInvariant, PTL
=============================================================================

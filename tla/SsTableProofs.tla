--------------------------- MODULE SsTableProofs ---------------------------
(***************************************************************************)
(* SsTableInv is inductive, and the safety properties of SsTable follow    *)
(* from it, for any records, page size, cache capacity and scans.          *)
(***************************************************************************)
EXTENDS SsTable, Laws, TLAPS

\* The order of records.
LEMMA BeforeFacts ==
  ASSUME NEW r \in Records, NEW s \in Records
  PROVE  /\ r.key \in Nat \ {0} /\ r.seq \in Nat
         /\ Before(r, s) => r.key <= s.key /\ r # s
         /\ \A t \in Records : Before(r, s) /\ Before(s, t) => Before(r, t)
<1>1. \A t \in Records : t.key \in Nat \ {0} /\ t.seq \in Nat
  BY SsTableAssumption
<1> QED BY <1>1 DEF Before

\* The records of a table can be sorted.
LEMMA RecordsSortable ==
  ASSUME Laws, NEW recs \in SUBSET Records
  PROVE  IsFiniteSet(recs) /\ \E bound \in Nat : Sortable(recs, bound)
<1>1. \A r \in Records : r.key \in Nat /\ r.seq \in Nat
  BY SsTableAssumption
<1>2. PICK bound \in Nat : \A r \in Records : r.seq <= bound
  <2>1. IsFiniteSet(Records) /\ \A r \in Records : r.seq \in Nat
    BY <1>1, SsTableAssumption
  <2> QED BY <2>1, Zenon DEF Laws, BoundLaw
<1>3. Sortable(recs, bound)
  BY <1>1, <1>2, SsTableAssumption DEF Sortable
<1>4. IsFiniteSet(recs)
  BY SsTableAssumption DEF Laws, FiniteLaw
<1> QED BY <1>3, <1>4

\* Find counts the keys below the bound, which are the first ones of a sorted page.
LEMMA FindIs ==
  ASSUME Laws, NEW page \in Seq(Records), NEW key \in Nat,
         \A i, j \in DOMAIN page : i < j => Before(page[i], page[j])
  PROVE  /\ Find(page, key) \in 0..Len(page)
         /\ \A i \in DOMAIN page : i <= Find(page, key) <=> page[i].key < key
<1> DEFINE S == {i \in DOMAIN page : page[i].key < key}
<1>1. Len(page) \in Nat /\ DOMAIN page = 1..Len(page) /\ \A i \in DOMAIN page : page[i] \in Records
  OBVIOUS
<1>2. \A i \in DOMAIN page : page[i].key \in Nat
  BY <1>1, SsTableAssumption
<1>3. PICK k \in 0..Len(page) : \A i \in DOMAIN page : i <= k <=> i \in S
  <2>1. CASE S = {}
    <3>1. \A i \in DOMAIN page : ~(i <= 0)
      BY <1>1
    <3>2. 0 \in 0..Len(page)
      BY <1>1
    <3> QED BY <2>1, <3>1, <3>2, Zenon
  <2>2. CASE S # {}
    <3>1. S \in SUBSET Nat /\ \A i \in S : i <= Len(page)
      BY <1>1
    <3>2. PICK k \in S : \A i \in S : i <= k
      BY <1>1, <2>2, <3>1, Zenon DEF Laws, MaxLaw
    <3>3. ASSUME NEW i \in DOMAIN page, i <= k PROVE i \in S
      <4>1. CASE i = k
        BY <3>2, <4>1
      <4>2. CASE i # k
        <5>1. i < k /\ k \in DOMAIN page /\ page[k].key < key
          BY <1>1, <3>2, <3>3, <4>2
        <5>2. Before(page[i], page[k])
          BY <5>1
        <5>3. page[i].key <= page[k].key
          BY <1>1, <5>1, <5>2, BeforeFacts
        <5> QED BY <1>2, <5>1, <5>3
      <4> QED BY <4>1, <4>2
    <3>4. k \in 0..Len(page)
      BY <1>1, <3>2
    <3> HIDE DEF S
    <3> QED BY <3>2, <3>3, <3>4
  <2> QED BY <2>1, <2>2
<1>4. S = 1..k
  <2>1. \A i : i \in 1..k => i \in DOMAIN page /\ i <= k
    BY <1>1
  <2>2. \A i \in DOMAIN page : i <= k => i \in 1..k
    BY <1>1
  <2>3. \A i \in S : i \in DOMAIN page
    OBVIOUS
  <2> HIDE DEF S
  <2> QED BY <1>3, <2>1, <2>2, <2>3, Zenon
<1>5. Cardinality(1..k) = k
  <2>1. k \in Nat
    BY <1>1
  <2> QED BY <2>1 DEF Laws, FiniteLaw
<1>6. Find(page, key) = k
  BY <1>4, <1>5, Zenon DEF Find
<1> QED BY <1>3, <1>6

\* A function from the first numbers is a sequence.
LEMMA FunctionIsSeq ==
  ASSUME NEW S, NEW n \in Nat, NEW s \in [1..n -> S] PROVE s \in Seq(S) /\ Len(s) = n
OBVIOUS

-----------------------------------------------------------------------------
\* No key occurs twice.
DistinctKeys(entries) ==
  \A i, j \in DOMAIN entries : entries[i].key = entries[j].key => i = j

\* Nodes are old ones or the one at the front.
IsFrom(after, before, entry) ==
  \A i \in DOMAIN after : after[i] = entry \/ \E j \in DOMAIN before : after[i] = before[j]

\* A node that moves to the front keeps its key, and the others keep their order.
LEMMA MoveToFrontKeeps ==
  ASSUME NEW E, NEW entries \in Seq(E), NEW node \in DOMAIN entries, NEW entry \in E,
         entry.key = entries[node].key, DistinctKeys(entries)
  PROVE  LET after == MoveToFront(entries, node, entry)
         IN /\ after \in Seq(E) /\ Len(after) = Len(entries)
            /\ DistinctKeys(after) /\ IsFrom(after, entries, entry)
<1> DEFINE after == MoveToFront(entries, node, entry)
           from(i) == IF i = 1 THEN node ELSE IF i <= node THEN i - 1 ELSE i
<1>1. Len(entries) \in Nat /\ DOMAIN entries = 1..Len(entries) /\ node \in 1..Len(entries)
  OBVIOUS
<1>2. ASSUME NEW i \in DOMAIN entries
      PROVE  /\ after[i] \in E /\ from(i) \in DOMAIN entries
             /\ after[i].key = entries[from(i)].key
             /\ after[i] = entry \/ after[i] = entries[from(i)]
  <2>1. after[i] = IF i = 1 THEN entry ELSE IF i <= node THEN entries[i - 1] ELSE entries[i]
    BY DEF MoveToFront
  <2>2. from(i) \in DOMAIN entries
    BY <1>1
  <2>3. CASE i = 1
    BY <2>1, <2>2, <2>3
  <2>4. CASE i # 1
    <3>1. after[i] = entries[from(i)]
      BY <2>1, <2>4
    <3> HIDE DEF from, after
    <3> QED BY <2>2, <3>1
  <2> QED BY <2>3, <2>4
<1>3. \A i, j \in DOMAIN entries : from(i) = from(j) => i = j
  BY <1>1
<1>4. DOMAIN after = DOMAIN entries /\ after = [i \in 1..Len(entries) |-> after[i]]
  BY <1>1 DEF MoveToFront
<1> HIDE DEF after, from
<1>5. after \in [1..Len(entries) -> E]
  BY <1>1, <1>2, <1>4
<1>6. after \in Seq(E) /\ Len(after) = Len(entries)
  BY <1>1, <1>5, FunctionIsSeq
<1>7. DistinctKeys(after)
  <2>1. ASSUME NEW i \in DOMAIN entries, NEW j \in DOMAIN entries, after[i].key = after[j].key
        PROVE  i = j
    <3>1. from(i) \in DOMAIN entries /\ from(j) \in DOMAIN entries
      BY <1>2
    <3>2. entries[from(i)].key = entries[from(j)].key
      BY <1>2, <2>1
    <3>3. from(i) = from(j)
      BY <3>1, <3>2, Zenon DEF DistinctKeys
    <3> QED BY <1>3, <3>3, Zenon
  <2> QED BY <1>4, <2>1, Zenon DEF DistinctKeys
<1>8. IsFrom(after, entries, entry)
  BY <1>2, <1>4, Zenon DEF IsFrom
<1> QED BY <1>6, <1>7, <1>8 DEF after

\* A new node goes to the front, and the last one goes when there are too many.
LEMMA PushFrontKeeps ==
  ASSUME NEW E, NEW entries \in Seq(E), NEW entry \in E, NEW capacity \in Nat \ {0},
         ~HasKey(entries, entry.key), DistinctKeys(entries), Len(entries) <= capacity
  PROVE  LET after == PushFront(entries, entry, capacity)
         IN /\ after \in Seq(E) /\ Len(after) <= capacity
            /\ DistinctKeys(after) /\ IsFrom(after, entries, entry)
<1> DEFINE after == PushFront(entries, entry, capacity)
           n == IF Len(entries) + 1 > capacity THEN Len(entries) ELSE Len(entries) + 1
<1>1. /\ Len(entries) \in Nat /\ DOMAIN entries = 1..Len(entries)
      /\ n \in Nat /\ n <= capacity /\ n <= Len(entries) + 1
  OBVIOUS
<1>2. after = [i \in 1..n |-> IF i = 1 THEN entry ELSE entries[i - 1]]
  BY DEF PushFront
<1> HIDE DEF after, n
<1>3. DOMAIN after = 1..n
  BY <1>2
<1>4. \A i \in 1..n : i = 1 => after[i] = entry
  BY <1>2
<1>5. \A i \in 1..n : i # 1 => i - 1 \in DOMAIN entries /\ after[i] = entries[i - 1]
  BY <1>1, <1>2
<1>6. \A i \in 1..n : after[i] \in E
  <2>1. \A j \in DOMAIN entries : entries[j] \in E
    OBVIOUS
  <2> QED BY <1>4, <1>5, <2>1, Zenon
<1>7. after \in [1..n -> E]
  BY <1>2, <1>6
<1>8. after \in Seq(E) /\ Len(after) = n
  BY <1>1, <1>7, FunctionIsSeq
<1>9. ASSUME NEW i \in 1..n, NEW j \in 1..n, after[i].key = after[j].key PROVE i = j
  <2>1. CASE i = 1 /\ j # 1
    BY <1>4, <1>5, <1>9, <2>1 DEF HasKey
  <2>2. CASE i # 1 /\ j = 1
    BY <1>4, <1>5, <1>9, <2>2 DEF HasKey
  <2>3. CASE i # 1 /\ j # 1
    <3>1. i - 1 = j - 1
      BY <1>5, <1>9, <2>3 DEF DistinctKeys
    <3> QED BY <3>1
  <2> QED BY <2>1, <2>2, <2>3
<1>10. DistinctKeys(after)
  BY <1>3, <1>9, Zenon DEF DistinctKeys
<1>11. IsFrom(after, entries, entry)
  BY <1>3, <1>4, <1>5, Zenon DEF IsFrom
<1> QED BY <1>1, <1>8, <1>10, <1>11 DEF after
-----------------------------------------------------------------------------
\* The records of some pages.
Contents(file) == UNION {ToSet(file[p]) : p \in DOMAIN file}

LEMMA ContentsIs ==
  ASSUME NEW file
  PROVE  \A r : r \in Contents(file) <=> \E p \in DOMAIN file : \E i \in DOMAIN file[p] : r = file[p][i]
BY DEF Contents, ToSet

\* A record behind all others starts a page of its own.
LEMMA NewPage ==
  ASSUME NEW file, PagesSorted(file), NEW r \in Records, \A t \in Contents(file) : Before(t, r)
  PROVE  /\ PagesSorted(Append(file, <<r>>))
         /\ Contents(Append(file, <<r>>)) = Contents(file) \cup {r}
<1> DEFINE n == Len(file)
           longer == Append(file, <<r>>)
<1>1. file \in Seq(Seq(Records)) /\ <<r>> \in Seq(Records) /\ <<r>> # <<>> /\ DOMAIN <<r>> = {1}
      /\ <<r>>[1] = r
  BY DEF PagesSorted
<1>2. /\ n \in Nat /\ longer \in Seq(Seq(Records)) /\ DOMAIN file = 1..n
      /\ DOMAIN longer = 1..(n + 1) /\ longer[n + 1] = <<r>>
      /\ \A p \in 1..n : longer[p] = file[p]
  BY <1>1
<1>3. \A p \in 1..(n + 1) : p # n + 1 => p \in 1..n
  BY <1>2
<1> HIDE DEF n, longer
<1>4. \A p \in DOMAIN longer : longer[p] # <<>>
  BY <1>1, <1>2, <1>3, Zenon DEF PagesSorted
<1>5. Contents(longer) = Contents(file) \cup {r}
  <2>1. ASSUME NEW t \in Contents(longer) PROVE t \in Contents(file) \cup {r}
    <3>1. PICK p \in DOMAIN longer : \E i \in DOMAIN longer[p] : t = longer[p][i]
      BY <2>1, ContentsIs
    <3>2. CASE p = n + 1
      BY <1>1, <1>2, <3>1, <3>2
    <3>3. CASE p # n + 1
      <4>1. p \in DOMAIN file /\ longer[p] = file[p]
        BY <1>2, <1>3, <3>3
      <4> QED BY <3>1, <4>1, ContentsIs, Zenon
    <3> QED BY <3>2, <3>3
  <2>2. r \in Contents(longer)
    <3>1. n + 1 \in 1..(n + 1)
      BY <1>2
    <3> QED BY <1>1, <1>2, <3>1, ContentsIs, Zenon
  <2>3. ASSUME NEW t \in Contents(file) PROVE t \in Contents(longer)
    <3>1. PICK p \in DOMAIN file : \E i \in DOMAIN file[p] : t = file[p][i]
      BY <2>3, ContentsIs
    <3>2. p \in DOMAIN longer /\ longer[p] = file[p]
      BY <1>2, <3>1
    <3> QED BY <3>1, <3>2, ContentsIs, Zenon
  <2> QED BY <2>1, <2>2, <2>3, Zenon
<1>6. ASSUME NEW p \in DOMAIN longer, NEW q \in DOMAIN longer,
             NEW i \in DOMAIN longer[p], NEW j \in DOMAIN longer[q], Precedes(p, i, q, j)
      PROVE  Before(longer[p][i], longer[q][j])
  <2>1. CASE q = n + 1
    <3>1. j = 1 /\ longer[q][j] = r
      BY <1>1, <1>2, <2>1
    <3>2. p # n + 1
      <4>1. p = n + 1 => i = 1
        BY <1>1, <1>2
      <4> QED BY <1>2, <1>6, <2>1, <3>1, <4>1 DEF Precedes
    <3>3. longer[p][i] \in Contents(file)
      BY <1>2, <1>3, <3>2, ContentsIs, Zenon
    <3> QED BY <3>1, <3>3
  <2>2. CASE q # n + 1
    <3>1. p # n + 1
      BY <1>2, <1>6, <2>2 DEF Precedes
    <3> QED BY <1>2, <1>3, <1>6, <2>2, <3>1, Zenon DEF PagesSorted
  <2> QED BY <2>1, <2>2
<1>7. PagesSorted(longer)
  BY <1>2, <1>4, <1>6, Zenon DEF PagesSorted
<1> QED BY <1>5, <1>7 DEF longer

\* A record behind all others is added to the last page.
LEMMA LongerPage ==
  ASSUME NEW file \in Seq(Seq(Records)), NEW page \in Seq(Records), NEW r \in Records,
         PagesSorted(Append(file, page)), \A t \in Contents(Append(file, page)) : Before(t, r)
  PROVE  /\ PagesSorted(Append(file, Append(page, r)))
         /\ Contents(Append(file, Append(page, r))) = Contents(Append(file, page)) \cup {r}
<1> DEFINE n == Len(file)
           k == Len(page)
           old == Append(file, page)
           more == Append(page, r)
           longer == Append(file, more)
<1>1. /\ k \in Nat /\ more \in Seq(Records) /\ more # <<>> /\ DOMAIN page = 1..k
      /\ DOMAIN more = 1..(k + 1) /\ more[k + 1] = r /\ \A i \in 1..k : more[i] = page[i]
  OBVIOUS
<1> HIDE DEF more, k
<1>2. /\ n \in Nat /\ longer \in Seq(Seq(Records)) /\ DOMAIN old = 1..(n + 1)
      /\ DOMAIN longer = 1..(n + 1) /\ longer[n + 1] = more /\ old[n + 1] = page
      /\ \A p \in 1..n : longer[p] = old[p]
  BY <1>1
<1> HIDE DEF n, longer, old
<1>3. \A p \in 1..(n + 1) : p # n + 1 => p \in 1..n
  BY <1>2
<1>4. \A i \in 1..(k + 1) : i # k + 1 => i \in 1..k
  BY <1>1
<1>5. n + 1 \in 1..(n + 1) /\ k + 1 \in 1..(k + 1)
  BY <1>1, <1>2
<1>6. \A p \in DOMAIN longer : longer[p] # <<>>
  <2>1. PagesSorted(old)
    BY DEF old
  <2> QED BY <1>1, <1>2, <1>3, <2>1, Zenon DEF PagesSorted
\* A record of the longer pages is the new one or an old one in its old place.
<1>7. ASSUME NEW p \in DOMAIN longer, NEW i \in DOMAIN longer[p], ~(p = n + 1 /\ i = k + 1)
      PROVE  p \in DOMAIN old /\ i \in DOMAIN old[p] /\ longer[p][i] = old[p][i]
  <2>1. CASE p = n + 1
    BY <1>1, <1>2, <1>4, <1>7, <2>1
  <2>2. CASE p # n + 1
    BY <1>2, <1>3, <2>2
  <2> QED BY <2>1, <2>2
<1>8. Contents(longer) = Contents(old) \cup {r}
  <2>1. ASSUME NEW t \in Contents(longer) PROVE t \in Contents(old) \cup {r}
    <3>1. PICK p \in DOMAIN longer : \E i \in DOMAIN longer[p] : t = longer[p][i]
      BY <2>1, ContentsIs
    <3>2. PICK i \in DOMAIN longer[p] : t = longer[p][i]
      BY <3>1
    <3>3. CASE p = n + 1 /\ i = k + 1
      BY <1>1, <1>2, <3>2, <3>3
    <3>4. CASE ~(p = n + 1 /\ i = k + 1)
      BY <1>7, <3>2, <3>4, ContentsIs, Zenon
    <3> QED BY <3>3, <3>4
  <2>2. r \in Contents(longer)
    BY <1>1, <1>2, <1>5, ContentsIs, Zenon
  <2>3. ASSUME NEW t \in Contents(old) PROVE t \in Contents(longer)
    <3>1. PICK p \in DOMAIN old : \E i \in DOMAIN old[p] : t = old[p][i]
      BY <2>3, ContentsIs
    <3>2. PICK i \in DOMAIN old[p] : t = old[p][i]
      BY <3>1
    <3>3. p \in DOMAIN longer /\ i \in DOMAIN longer[p] /\ longer[p][i] = old[p][i]
      <4>1. CASE p = n + 1
        <5>1. i \in 1..k
          BY <1>1, <1>2, <3>2, <4>1
        <5>2. i \in 1..(k + 1)
          BY <1>1, <5>1
        <5> QED BY <1>1, <1>2, <3>1, <4>1, <5>1, <5>2
      <4>2. CASE p # n + 1
        BY <1>2, <1>3, <4>2
      <4> QED BY <4>1, <4>2
    <3> QED BY <3>2, <3>3, ContentsIs, Zenon
  <2> QED BY <2>1, <2>2, <2>3, Zenon
<1>9. ASSUME NEW p \in DOMAIN longer, NEW q \in DOMAIN longer,
             NEW i \in DOMAIN longer[p], NEW j \in DOMAIN longer[q], Precedes(p, i, q, j)
      PROVE  Before(longer[p][i], longer[q][j])
  <2>0. PagesSorted(old) /\ \A t \in Contents(old) : Before(t, r)
    BY DEF old
  <2>1. ~(p = n + 1 /\ i = k + 1)
    <3>1. ASSUME p = n + 1 /\ i = k + 1 PROVE FALSE
      <4>1. q = n + 1 /\ j \in 1..(k + 1)
        BY <1>1, <1>2, <1>9, <3>1 DEF Precedes
      <4> QED BY <1>1, <1>2, <1>9, <3>1, <4>1 DEF Precedes
    <3> QED BY <3>1
  <2>2. CASE q = n + 1 /\ j = k + 1
    <3>1. longer[q][j] = r
      BY <1>1, <1>2, <2>2
    <3>2. longer[p][i] \in Contents(old)
      BY <1>7, <2>1, ContentsIs, Zenon
    <3> QED BY <2>0, <3>1, <3>2
  <2>3. CASE ~(q = n + 1 /\ j = k + 1)
    BY <1>7, <1>9, <2>0, <2>1, <2>3, Zenon DEF PagesSorted
  <2> QED BY <2>2, <2>3
<1>10. PagesSorted(longer)
  BY <1>2, <1>6, <1>9, Zenon DEF PagesSorted
<1> QED BY <1>8, <1>10 DEF longer, old, more
\* What a builder holds: its pages and the one it fills.
Builder == [pages : Seq(Seq(Records)), page : Seq(Records), used : Nat]

AllPages(b) == IF b.page = <<>> THEN b.pages ELSE Append(b.pages, b.page)

\* A page is empty only at the start, and the pages are sorted.
IsBuilder(b) ==
  /\ b \in Builder
  /\ b.page = <<>> => b.used = 1 /\ b.pages = <<>>
  /\ PagesSorted(AllPages(b))

LEMMA AppendIs ==
  ASSUME NEW S, NEW s \in Seq(S), NEW e \in S
  PROVE  Append(s, e) \in Seq(S) /\ Append(s, e) # <<>>
<1>1. Append(s, e) \in Seq(S) /\ Len(Append(s, e)) = Len(s) + 1 /\ Len(s) \in Nat
  OBVIOUS
<1>2. Len(<<>>) = 0
  OBVIOUS
<1> QED BY <1>1, <1>2

\* What a builder is after a record that fits.
LEMMA RecordFits ==
  ASSUME NEW b \in Builder, NEW r \in Records,
         NEW a, a = [b EXCEPT !.page = Append(@, r), !.used = @ + r.size]
  PROVE  /\ a \in Builder /\ a.pages = b.pages /\ a.page = Append(b.page, r) /\ a.page # <<>>
         /\ a.used = b.used + r.size
<1> DEFINE file == b.pages
           page == Append(b.page, r)
           used == b.used + r.size
<1>1. b.page \in Seq(Records) /\ b.used \in Nat /\ file \in Seq(Seq(Records)) /\ r.size \in Nat
  BY SsTableAssumption DEF Builder
<1>2. page \in Seq(Records) /\ page # <<>>
  BY <1>1, AppendIs, Zenon
<1>3. used \in Nat
  BY <1>1
<1>4. a = [b EXCEPT !.page = page, !.used = used]
  OBVIOUS
<1> HIDE DEF page, used
<1>5. a = [pages |-> file, page |-> page, used |-> used]
  BY <1>4, Zenon DEF Builder
<1> HIDE DEF file
<1>6. a \in Builder /\ a.pages = file /\ a.page = page /\ a.used = used
  BY ONLY <1>1, <1>2, <1>3, <1>5 DEF Builder
<1> QED BY <1>2, <1>6 DEF file, page, used

\* What it is after a record that does not.
LEMMA RecordStartsPage ==
  ASSUME NEW b \in Builder, NEW r \in Records,
         NEW a, a = [pages |-> Append(b.pages, b.page), page |-> <<r>>, used |-> 1 + r.size]
  PROVE  /\ a \in Builder /\ a.pages = Append(b.pages, b.page) /\ a.page = <<r>>
         /\ a.page # <<>>
<1> DEFINE file == Append(b.pages, b.page)
           page == <<r>>
<1>1. b.page \in Seq(Records) /\ b.pages \in Seq(Seq(Records)) /\ r.size \in Nat
  BY SsTableAssumption DEF Builder
<1>2. file \in Seq(Seq(Records)) /\ page \in Seq(Records) /\ page # <<>> /\ 1 + r.size \in Nat
  BY <1>1
<1> HIDE DEF file, page
<1>3. a = [pages |-> file, page |-> page, used |-> 1 + r.size]
  BY DEF file, page
<1>4. a \in Builder /\ a.pages = file /\ a.page = page
  BY <1>2, <1>3 DEF Builder
<1> QED BY <1>2, <1>4 DEF file, page

\* A record behind all others fits in the page or in an empty one.
LEMMA RecordAdded ==
  ASSUME NEW b, IsBuilder(b), NEW r \in Records, \A t \in Contents(AllPages(b)) : Before(t, r)
  PROVE  /\ IsBuilder(AddRecord(b, r))
         /\ Contents(AllPages(AddRecord(b, r))) = Contents(AllPages(b)) \cup {r}
<1> DEFINE a == AddRecord(b, r)
<1>1. /\ b \in Builder /\ b.pages \in Seq(Seq(Records)) /\ b.page \in Seq(Records) /\ b.used \in Nat
      /\ r.size \in Nat \ {0} /\ 1 + r.size <= page_size /\ page_size \in Nat
  BY SsTableAssumption DEF IsBuilder, Builder
<1>2. CASE b.page = <<>>
  <2>1. a = [b EXCEPT !.page = Append(@, r), !.used = @ + r.size]
    BY <1>1, <1>2 DEF AddRecord, IsBuilder
  <2> HIDE DEF a
  <2>2. a.pages = <<>> /\ a.page = <<r>> /\ a.used = 1 + r.size /\ a \in Builder
    <3>1. a \in Builder /\ a.pages = b.pages /\ a.page = Append(b.page, r) /\ a.used = b.used + r.size
      BY <1>1, <2>1, RecordFits, Zenon
    <3>2. Append(<<>>, r) = <<r>>
      OBVIOUS
    <3> QED BY <1>2, <3>1, <3>2 DEF IsBuilder
  <2>3. AllPages(b) = <<>> /\ AllPages(a) = Append(<<>>, <<r>>) /\ a.page # <<>>
    BY <1>2, <2>2 DEF AllPages, IsBuilder
  <2>4. PagesSorted(<<>>) /\ \A t \in Contents(<<>>) : Before(t, r)
    BY <2>3, Zenon DEF IsBuilder
  <2>5. PagesSorted(AllPages(a)) /\ Contents(AllPages(a)) = Contents(AllPages(b)) \cup {r}
    BY <2>3, <2>4, NewPage, Zenon
  <2> QED BY <2>2, <2>3, <2>5 DEF IsBuilder, a
<1>3. CASE b.page # <<>> /\ b.used + r.size <= page_size
  <2>1. a = [b EXCEPT !.page = Append(@, r), !.used = @ + r.size]
    BY <1>3, Zenon DEF AddRecord
  <2> HIDE DEF a
  <2>2. a.pages = b.pages /\ a.page = Append(b.page, r) /\ a \in Builder /\ a.page # <<>>
    BY <1>1, <2>1, RecordFits, Zenon
  <2>3. AllPages(b) = Append(b.pages, b.page) /\ AllPages(a) = Append(b.pages, Append(b.page, r))
    BY <1>3, <2>2, Zenon DEF AllPages
  <2>4. PagesSorted(Append(b.pages, b.page)) /\ \A t \in Contents(Append(b.pages, b.page)) : Before(t, r)
    BY <2>3, Zenon DEF IsBuilder
  <2>5. PagesSorted(AllPages(a)) /\ Contents(AllPages(a)) = Contents(AllPages(b)) \cup {r}
    BY <1>1, <2>3, <2>4, LongerPage
  <2> QED BY <2>2, <2>5 DEF IsBuilder, a
<1>4. CASE b.page # <<>> /\ ~(b.used + r.size <= page_size)
  <2>1. a = [pages |-> Append(b.pages, b.page), page |-> <<r>>, used |-> 1 + r.size]
    BY <1>4, Zenon DEF AddRecord
  <2>2. a.pages = Append(b.pages, b.page) /\ a.page = <<r>> /\ a \in Builder /\ a.page # <<>>
    BY <1>1, <2>1, RecordStartsPage
  <2> HIDE DEF a
  <2>3. AllPages(b) = Append(b.pages, b.page) /\ AllPages(a) = Append(AllPages(b), <<r>>)
    BY <1>4, <2>2, Zenon DEF AllPages
  <2>4. PagesSorted(AllPages(b)) /\ \A t \in Contents(AllPages(b)) : Before(t, r)
    BY Zenon DEF IsBuilder
  <2>5. PagesSorted(AllPages(a)) /\ Contents(AllPages(a)) = Contents(AllPages(b)) \cup {r}
    BY <2>3, <2>4, NewPage
  <2> QED BY <2>2, <2>5 DEF IsBuilder, a
<1> QED BY <1>2, <1>3, <1>4

\* A builder goes through the records one by one.
IsBuilding(builder, rows) ==
  /\ builder[0] = [pages |-> <<>>, page |-> <<>>, used |-> 1]
  /\ \A i \in 1..Len(rows) : builder[i] = AddRecord(builder[i - 1], rows[i])

LEMMA BuilderRuns ==
  ASSUME Laws, NEW recs, Sorted(recs) \in Seq(Records)
  PROVE  \E builder : /\ IsBuilding(builder, Sorted(recs))
                      /\ BuildPages(recs) = AllPages(builder[Len(Sorted(recs))])
<1> DEFINE rows == Sorted(recs)
           n == Len(rows)
           start == [pages |-> <<>>, page |-> <<>>, used |-> 1]
           Is(f) == f = [i \in 0..n |-> IF i = 0 THEN start ELSE AddRecord(f[i - 1], rows[i])]
           g == [i \in 1..n |-> [b \in Builder |-> AddRecord(b, rows[i])]]
<1>0. n \in Nat /\ \A i \in 1..n : rows[i] \in Records
  OBVIOUS
<1>1. StepsIn(g, n, Builder)
  <2>1. ASSUME NEW i \in 1..n, NEW b \in Builder PROVE AddRecord(b, rows[i]) \in Builder
    <3>1. rows[i] \in Records
      BY <1>0
    <3> HIDE DEF rows
    <3> QED BY <3>1, RecordFits, RecordStartsPage, Zenon DEF AddRecord
  <2>2. \A i \in 1..n, b \in Builder : g[i][b] = AddRecord(b, rows[i])
    BY Zenon
  <2> QED BY <2>1, <2>2, Zenon DEF StepsIn
<1>2. PICK f \in [0..n -> Builder] : f[0] = start /\ \A i \in 1..n : f[i] = g[i][f[i - 1]]
  <2>1. start \in Builder
    BY DEF Builder
  <2>2. \E f \in [0..n -> Builder] : Iterates(f, g, n, start)
    <3> HIDE DEF g, n, start
    <3> QED BY <1>0, <1>1, <2>1, Zenon DEF Laws, IterationLaw
  <2> QED BY <2>2, Zenon DEF Iterates
<1>3. ASSUME NEW i \in 0..n, i # 0 PROVE f[i] = AddRecord(f[i - 1], rows[i])
  <2>1. i \in 1..n /\ i - 1 \in 0..n
    BY <1>0, <1>3
  <2>2. f[i - 1] \in Builder
    BY <2>1
  <2> QED BY <1>2, <2>1, <2>2, Zenon
<1>4. Is(f)
  <2>1. f = [i \in 0..n |-> f[i]]
    OBVIOUS
  <2> HIDE DEF n, rows, start
  <2> QED BY <1>2, <1>3, <2>1
<1> DEFINE a == CHOOSE h : Is(h)
<1>5. Is(a)
  <2> HIDE DEF Is
  <2> QED BY <1>4, Zenon
<1>6. BuildPages(recs) = AllPages(a[n])
  BY Zenon DEF BuildPages, AllPages
<1> HIDE DEF a
<1>7. IsBuilding(a, rows)
  <2>1. a[0] = start
    <3>1. 0 \in 0..n
      BY <1>0
    <3> QED BY <1>5, <3>1, Zenon
  <2>2. ASSUME NEW i \in 1..n PROVE a[i] = AddRecord(a[i - 1], rows[i])
    <3>1. i \in 0..n /\ i # 0
      BY <1>0, <2>2
    <3> QED BY <1>5, <3>1, Zenon
  <2> QED BY <2>1, <2>2, Zenon DEF IsBuilding
<1> QED BY <1>6, <1>7

\* SSTableBuilder writes each record once, in order, and no empty page.
LEMMA PagesBuilt ==
  ASSUME Laws, NEW recs \in SUBSET Records
  PROVE  PagesSorted(BuildPages(recs)) /\ Contents(BuildPages(recs)) = recs
<1> DEFINE rows == Sorted(recs)
           n == Len(rows)
<1>1. /\ rows \in Seq(recs) /\ ToSet(rows) = recs
      /\ \A i, j \in DOMAIN rows : i < j => Before(rows[i], rows[j])
  BY RecordsSortable, Zenon DEF Laws, SortLaw
<1>2. rows \in Seq(Records) /\ n \in Nat /\ DOMAIN rows = 1..n /\ \A i \in 1..n : rows[i] \in Records
  BY <1>1
<1>3. PICK builder : IsBuilding(builder, rows) /\ BuildPages(recs) = AllPages(builder[n])
  BY <1>2, BuilderRuns, Zenon
<1> HIDE DEF n, rows
<1> DEFINE Good(i) == /\ IsBuilder(builder[i])
                      /\ Contents(AllPages(builder[i])) = {rows[j] : j \in 1..i}
           Bad == {i \in 0..n : ~Good(i)}
<1>4. Good(0)
  <2> DEFINE b == builder[0]
  <2>1. b = [pages |-> <<>>, page |-> <<>>, used |-> 1]
    BY <1>3, Zenon DEF IsBuilding
  <2> HIDE DEF b
  <2>2. b \in Builder /\ b.page = <<>> /\ b.used = 1 /\ b.pages = <<>>
    BY <2>1 DEF Builder
  <2>3. AllPages(b) = <<>>
    BY <2>2, Zenon DEF AllPages
  <2>4. PagesSorted(<<>>) /\ Contents(<<>>) = {} /\ 1..0 = {}
    BY DEF PagesSorted, Contents
  <2>5. IsBuilder(b) /\ Contents(AllPages(b)) = {rows[j] : j \in 1..0}
    BY <2>2, <2>3, <2>4 DEF IsBuilder
  <2> QED BY <2>5 DEF b
<1>5. ASSUME NEW i \in 1..n, Good(i - 1) PROVE Good(i)
  <2>1. builder[i] = AddRecord(builder[i - 1], rows[i])
    BY <1>3, Zenon DEF IsBuilding, n
  <2>2. ASSUME NEW t \in Contents(AllPages(builder[i - 1])) PROVE Before(t, rows[i])
    <3>1. PICK j \in 1..(i - 1) : t = rows[j]
      BY <1>5, <2>2, Zenon
    <3>2. j \in 1..n /\ j < i
      BY <1>2
    <3> QED BY <1>1, <1>2, <3>1, <3>2, Zenon
  <2>3. /\ IsBuilder(builder[i])
        /\ Contents(AllPages(builder[i])) = Contents(AllPages(builder[i - 1])) \cup {rows[i]}
    BY <1>2, <1>5, <2>1, <2>2, RecordAdded
  <2>4. 1..i = 1..(i - 1) \cup {i}
    BY <1>2
  <2>5. {rows[j] : j \in 1..i} = {rows[j] : j \in 1..(i - 1)} \cup {rows[i]}
    BY <2>4
  <2> QED BY <1>5, <2>3, <2>5
<1> HIDE DEF Good
<1>6. Bad = {}
  <2>1. SUFFICES ASSUME Bad # {} PROVE FALSE
    OBVIOUS
  <2>2. Bad \in SUBSET Nat
    BY <1>2
  <2>3. PICK i \in Bad : \A k \in Bad : i <= k
    BY <2>1, <2>2, Zenon DEF Laws, MinLaw
  <2>4. i # 0
    BY <1>4, <2>3
  <2>5. i \in 1..n /\ i - 1 \in 0..n /\ ~(i <= i - 1)
    BY <1>2, <2>3, <2>4
  <2>6. Good(i - 1)
    BY <2>3, <2>5
  <2>7. Good(i)
    BY <1>5, <2>5, <2>6
  <2> QED BY <2>3, <2>7
<1>7. Good(n)
  <2>1. n \in 0..n
    BY <1>2
  <2> QED BY <1>6, <2>1
<1>8. {rows[j] : j \in 1..n} = recs
  BY <1>1, <1>2, Zenon DEF ToSet
<1> QED BY <1>3, <1>7, <1>8 DEF Good, IsBuilder

-----------------------------------------------------------------------------
\* The node of a key that is present.
LEMMA CachedIs ==
  ASSUME NEW E, NEW entries \in Seq(E), NEW key, HasKey(entries, key)
  PROVE  /\ Node(entries, key) \in DOMAIN entries /\ entries[Node(entries, key)].key = key
         /\ Cached(entries, key) = entries[Node(entries, key)] /\ Cached(entries, key) \in E
<1>1. Node(entries, key) \in DOMAIN entries /\ entries[Node(entries, key)].key = key
  BY Zenon DEF HasKey, Node
<1>2. \A i \in DOMAIN entries : entries[i] \in E
  OBVIOUS
<1> QED BY <1>1, <1>2, Zenon DEF Cached

\* LruCache::Get changes the order only.
LEMMA CacheGetKeeps ==
  ASSUME NEW E, NEW entries \in Seq(E), NEW key, HasKey(entries, key), DistinctKeys(entries)
  PROVE  LET after == CacheGet(entries, key)
         IN /\ after \in Seq(E) /\ Len(after) = Len(entries) /\ DistinctKeys(after)
            /\ IsFrom(after, entries, Cached(entries, key))
<1>1. /\ Node(entries, key) \in DOMAIN entries /\ Cached(entries, key) \in E
      /\ Cached(entries, key).key = entries[Node(entries, key)].key
  BY CachedIs
<1> QED BY <1>1, MoveToFrontKeeps, Zenon DEF CacheGet

\* LruCache::Put adds or replaces one node.
LEMMA CachePutKeeps ==
  ASSUME NEW E, NEW entries \in Seq(E), NEW key, NEW value, NEW capacity \in Nat,
         [key |-> key, value |-> value] \in E, DistinctKeys(entries), Len(entries) <= capacity
  PROVE  LET after == CachePut(entries, key, value, capacity)
         IN /\ after \in Seq(E) /\ Len(after) <= capacity /\ DistinctKeys(after)
            /\ IsFrom(after, entries, [key |-> key, value |-> value])
<1> DEFINE after == CachePut(entries, key, value, capacity)
           entry == [key |-> key, value |-> value]
<1>0. entry \in E /\ entry.key = key
  OBVIOUS
<1> HIDE DEF entry
<1>1. CASE capacity = 0
  <2>1. after = entries
    BY <1>1, Zenon DEF CachePut
  <2>2. IsFrom(entries, entries, entry)
    BY Zenon DEF IsFrom
  <2> HIDE DEF after
  <2> QED BY <2>1, <2>2 DEF after, entry
<1>2. CASE capacity # 0 /\ HasKey(entries, key)
  <2>1. after = MoveToFront(entries, Node(entries, key), entry)
    BY <1>2, Zenon DEF CachePut, entry
  <2>2. Node(entries, key) \in DOMAIN entries /\ entry.key = entries[Node(entries, key)].key
    BY <1>0, <1>2, CachedIs, Zenon
  <2> HIDE DEF after
  <2>3. /\ after \in Seq(E) /\ Len(after) = Len(entries)
        /\ DistinctKeys(after) /\ IsFrom(after, entries, entry)
    BY <1>0, <2>1, <2>2, MoveToFrontKeeps, Zenon
  <2> QED BY <2>3 DEF after, entry
<1>3. CASE capacity # 0 /\ ~HasKey(entries, key)
  <2>1. after = PushFront(entries, entry, capacity)
    BY <1>3, Zenon DEF CachePut, entry
  <2>2. capacity \in Nat \ {0} /\ ~HasKey(entries, entry.key)
    BY <1>0, <1>3
  <2> HIDE DEF after
  <2>3. /\ after \in Seq(E) /\ Len(after) <= capacity
        /\ DistinctKeys(after) /\ IsFrom(after, entries, entry)
    BY <1>0, <2>1, <2>2, PushFrontKeeps, Zenon
  <2> QED BY <2>3 DEF after, entry
<1> QED BY <1>1, <1>2, <1>3

-----------------------------------------------------------------------------
\* What Settle makes of a scan.
LEMMA SettleIs ==
  ASSUME NEW scan \in ScanState, NEW a, a = Settle(scan)
  PROVE  /\ a \in ScanState
         /\ a.range = scan.range /\ a.lo = scan.lo /\ a.hi = scan.hi
         /\ a.current_record = scan.current_record /\ a.buffer = scan.buffer /\ a.out = scan.out
         /\ scan.phase = "bound" /\ scan.lo >= scan.hi =>
              a.phase = "find" /\ a.current_page = scan.lo
         /\ ~(scan.phase = "bound" /\ scan.lo >= scan.hi) =>
              a.phase = scan.phase /\ a.current_page = scan.current_page
         /\ a.pc = IF a.phase # "bound" /\ a.current_page >= page_count THEN "done" ELSE "get"
<1> DEFINE found == IF scan.phase = "bound" /\ scan.lo >= scan.hi
                    THEN [scan EXCEPT !.phase = "find", !.current_page = scan.lo] ELSE scan
<1>1. /\ found \in ScanState /\ found.range = scan.range /\ found.lo = scan.lo
      /\ found.hi = scan.hi /\ found.current_record = scan.current_record
      /\ found.buffer = scan.buffer /\ found.out = scan.out
      /\ scan.phase = "bound" /\ scan.lo >= scan.hi =>
           found.phase = "find" /\ found.current_page = scan.lo
      /\ ~(scan.phase = "bound" /\ scan.lo >= scan.hi) =>
           found.phase = scan.phase /\ found.current_page = scan.current_page
  BY Zenon DEF ScanState
<1>2. \/ a = [found EXCEPT !.pc = "done"] /\ found.phase # "bound" /\ found.current_page >= page_count
      \/ a = [found EXCEPT !.pc = "get"] /\ ~(found.phase # "bound" /\ found.current_page >= page_count)
  BY Zenon DEF Settle
<1> HIDE DEF found
<1>3. /\ a \in ScanState /\ a.range = found.range /\ a.lo = found.lo /\ a.hi = found.hi
      /\ a.current_record = found.current_record /\ a.buffer = found.buffer
      /\ a.out = found.out /\ a.phase = found.phase /\ a.current_page = found.current_page
      /\ a.pc = IF found.phase # "bound" /\ found.current_page >= page_count THEN "done" ELSE "get"
  BY <1>1, <1>2 DEF ScanState
<1> QED BY <1>1, <1>3, Zenon

\* A page of the file.
LEMMA PageIs ==
  ASSUME PagesSorted(pages), NEW page \in ToSet(pages)
  PROVE  /\ page \in Seq(Records) /\ page # <<>> /\ Len(page) \in Nat \ {0}
         /\ DOMAIN page = 1..Len(page) /\ Last(page) = page[Len(page)]
         /\ Last(page) \in Records /\ MaxKey(page) \in Nat
         /\ \A i, j \in DOMAIN page : i < j => Before(page[i], page[j])
<1>1. PICK p \in DOMAIN pages : page = pages[p]
  BY DEF ToSet
<1>2. page \in Seq(Records) /\ page # <<>>
  BY <1>1 DEF PagesSorted
<1>3. Len(page) \in Nat \ {0} /\ DOMAIN page = 1..Len(page) /\ page[Len(page)] \in Records
  BY <1>2
<1>4. MaxKey(page) \in Nat /\ Last(page) = page[Len(page)]
  BY <1>3, BeforeFacts DEF MaxKey, Last
<1>5. \A i, j \in DOMAIN page : i < j => Before(page[i], page[j])
  BY <1>1 DEF PagesSorted, Precedes
<1> QED BY <1>2, <1>3, <1>4, <1>5

\* The middle of an interval.
LEMMA MidIs ==
  ASSUME NEW scan \in ScanState, scan.lo < scan.hi
  PROVE  Mid(scan) \in Nat /\ scan.lo <= Mid(scan) /\ Mid(scan) < scan.hi
<1>1. scan.lo \in Nat /\ scan.hi \in Nat
  BY DEF ScanState
<1>2. \A n \in Nat \ {0} : n \div 2 \in Nat /\ n \div 2 < n
  OBVIOUS
<1>3. scan.hi - scan.lo \in Nat \ {0}
  BY <1>1
<1> QED BY <1>1, <1>2, <1>3 DEF Mid

\* What a turn of LowerBound's loop makes of a scan.
LEMMA NarrowIs ==
  ASSUME NEW scan \in ScanState, scan.lo < scan.hi, NEW page, NEW a, a = Narrow(scan, page)
  PROVE  /\ a \in ScanState /\ a.lo <= a.hi /\ a.hi <= scan.hi
         /\ a.pc = scan.pc /\ a.phase = scan.phase /\ a.range = scan.range
         /\ a.current_page = scan.current_page /\ a.current_record = scan.current_record
         /\ a.buffer = scan.buffer /\ a.out = scan.out
         /\ scan.range.lower <= MaxKey(page) => a.lo = scan.lo /\ a.hi = Mid(scan)
         /\ ~(scan.range.lower <= MaxKey(page)) => a.lo = Mid(scan) + 1 /\ a.hi = scan.hi
<1> DEFINE m == Mid(scan)
<1>1. m \in Nat /\ scan.lo <= m /\ m < scan.hi /\ scan.lo \in Nat /\ scan.hi \in Nat
  BY MidIs DEF ScanState
<1>2. a = IF scan.range.lower <= MaxKey(page) THEN [scan EXCEPT !.hi = m]
          ELSE [scan EXCEPT !.lo = m + 1]
  BY DEF Narrow
<1> HIDE DEF m
<1>3. CASE scan.range.lower <= MaxKey(page)
  <2>1. a = [scan EXCEPT !.hi = m]
    BY <1>2, <1>3
  <2>2. /\ a \in ScanState /\ a.pc = scan.pc /\ a.phase = scan.phase /\ a.range = scan.range
        /\ a.current_page = scan.current_page /\ a.current_record = scan.current_record
        /\ a.buffer = scan.buffer /\ a.out = scan.out /\ a.lo = scan.lo /\ a.hi = m
    BY <1>1, <2>1 DEF ScanState
  <2> QED BY <1>1, <1>3, <2>2 DEF m
<1>4. CASE ~(scan.range.lower <= MaxKey(page))
  <2> DEFINE up == m + 1
  <2>1. a = [scan EXCEPT !.lo = up] /\ up \in Nat
    BY <1>1, <1>2, <1>4
  <2> HIDE DEF up
  <2>2. /\ a \in ScanState /\ a.pc = scan.pc /\ a.phase = scan.phase /\ a.range = scan.range
        /\ a.current_page = scan.current_page /\ a.current_record = scan.current_record
        /\ a.buffer = scan.buffer /\ a.out = scan.out /\ a.lo = up /\ a.hi = scan.hi
    BY <2>1 DEF ScanState
  <2> QED BY <1>1, <1>4, <2>2 DEF m, up
<1> QED BY <1>3, <1>4

\* The scan behind the record it is at.
Advanced(scan, page) ==
  LET last == scan.current_record + 1 >= Len(page)
  IN [scan EXCEPT !.current_record = IF last THEN 0 ELSE @ + 1,
                  !.current_page = IF last THEN @ + 1 ELSE @]

\* Some fields of a scan stay.
SameBound(a, scan) ==
  a.phase = scan.phase /\ a.range = scan.range /\ a.lo = scan.lo /\ a.hi = scan.hi

LEMMA AdvancedIs ==
  ASSUME NEW scan \in ScanState, NEW page
  PROVE  LET a == Advanced(scan, page)
         IN /\ a \in ScanState /\ SameBound(a, scan)
            /\ a.pc = scan.pc /\ a.buffer = scan.buffer /\ a.out = scan.out
            /\ scan.current_record + 1 >= Len(page) =>
                 a.current_record = 0 /\ a.current_page = scan.current_page + 1
            /\ ~(scan.current_record + 1 >= Len(page)) =>
                 a.current_record = scan.current_record + 1 /\ a.current_page = scan.current_page
<1> DEFINE a == Advanced(scan, page)
<1> DEFINE last == scan.current_record + 1 >= Len(page)
           cr == IF last THEN 0 ELSE scan.current_record + 1
           cp == IF last THEN scan.current_page + 1 ELSE scan.current_page
<1>1. a = [scan EXCEPT !.current_record = cr, !.current_page = cp]
  BY DEF Advanced
<1>2. cr \in Nat /\ cp \in Nat
  BY DEF ScanState
<1>3. /\ last => cr = 0 /\ cp = scan.current_page + 1
      /\ ~last => cr = scan.current_record + 1 /\ cp = scan.current_page
  OBVIOUS
<1> HIDE DEF cr, cp, a
<1>4. /\ a \in ScanState /\ SameBound(a, scan) /\ a.pc = scan.pc /\ a.buffer = scan.buffer
      /\ a.out = scan.out /\ a.current_record = cr /\ a.current_page = cp
  BY <1>1, <1>2, Zenon DEF ScanState, SameBound
<1> QED BY <1>3, <1>4 DEF a

\* What Next makes of a scan.
LEMMA TakeNextIs ==
  ASSUME PagesSorted(pages), NEW scan \in ScanState, NEW page \in ToSet(pages),
         NEW a, a = TakeNext(scan, page)
  PROVE  LET record == page[scan.current_record + 1]
             adv == Advanced(scan, page)
         IN /\ scan.current_record >= Len(page) => a = [scan EXCEPT !.pc = "failed"]
            /\ scan.current_record < Len(page) =>
                 /\ scan.current_record + 1 \in DOMAIN page /\ record \in Records
                 /\ scan.range.upper = 0 \/ record.key <= scan.range.upper =>
                      \E more \in ScanState :
                        /\ SameBound(more, adv) /\ more.pc = scan.pc /\ more.buffer = adv.buffer
                        /\ more.out = Append(scan.out, record) /\ a = Settle(more)
                        /\ more.current_record = adv.current_record
                        /\ more.current_page = adv.current_page
                 /\ ~(scan.range.upper = 0 \/ record.key <= scan.range.upper) =>
                      a = [adv EXCEPT !.pc = "done"]
<1> DEFINE record == page[scan.current_record + 1]
           adv == Advanced(scan, page)
           out == Append(scan.out, record)
           more == [adv EXCEPT !.out = out]
           inside == scan.range.upper = 0 \/ record.key <= scan.range.upper
<1>1. adv \in ScanState /\ SameBound(adv, scan) /\ adv.pc = scan.pc /\ adv.out = scan.out
  BY AdvancedIs, Zenon
<1>2. /\ scan.current_record >= Len(page) => a = [scan EXCEPT !.pc = "failed"]
      /\ ~(scan.current_record >= Len(page)) /\ inside => a = Settle([adv EXCEPT !.out = Append(@, record)])
      /\ ~(scan.current_record >= Len(page)) /\ ~inside => a = [adv EXCEPT !.pc = "done"]
  BY Zenon DEF TakeNext, Advanced
<1>3. page \in Seq(Records) /\ Len(page) \in Nat /\ DOMAIN page = 1..Len(page)
  BY PageIs
<1>4. scan.current_record \in Nat /\ scan.out \in Seq(Records)
  BY DEF ScanState
<1>5. ASSUME scan.current_record < Len(page)
      PROVE  /\ scan.current_record + 1 \in DOMAIN page /\ record \in Records
             /\ ~(scan.current_record >= Len(page)) /\ out \in Seq(Records)
  <2>1. scan.current_record + 1 \in DOMAIN page /\ ~(scan.current_record >= Len(page))
    BY <1>3, <1>4, <1>5
  <2>2. record \in Records
    BY <1>3, <2>1
  <2> HIDE DEF record
  <2> QED BY <1>4, <2>1, <2>2, AppendIs, Zenon
<1> HIDE DEF adv
<1>6. [adv EXCEPT !.out = Append(@, record)] = more
  BY <1>1
<1> HIDE DEF out
<1>7. ASSUME out \in Seq(Records)
      PROVE  /\ more \in ScanState /\ SameBound(more, adv) /\ more.pc = adv.pc
             /\ more.buffer = adv.buffer /\ more.out = out
             /\ more.current_record = adv.current_record
             /\ more.current_page = adv.current_page
  BY <1>1, <1>7, Zenon DEF ScanState, SameBound
<1> HIDE DEF record, more
<1>8. ASSUME scan.current_record < Len(page), inside
      PROVE  \E m \in ScanState :
               /\ SameBound(m, adv) /\ m.pc = scan.pc /\ m.buffer = adv.buffer
               /\ m.out = out /\ a = Settle(m)
               /\ m.current_record = adv.current_record
               /\ m.current_page = adv.current_page
  <2>1. a = Settle(more)
    BY <1>2, <1>5, <1>6, <1>8, Zenon
  <2> QED BY <1>1, <1>5, <1>7, <1>8, <2>1, Zenon
<1> QED BY <1>2, <1>5, <1>8, Zenon DEF record, adv, out

\* Bounds are numbers.
LEMMA RangeIs ==
  ASSUME NEW scan \in ScanState
  PROVE  scan.range.lower \in Nat /\ scan.range.upper \in Nat
<1>1. scan.range \in Ranges \/ scan.range = [lower |-> 0, upper |-> 0]
  BY DEF ScanState, NewScan
<1> QED BY <1>1, SsTableAssumption

\* What Create makes of a scan that has its start page.
StartedAt(scan, page) == [StartAt(scan, page) EXCEPT !.pc = "get"]

LEMMA StartAtIs ==
  ASSUME Laws, PagesSorted(pages), NEW scan \in ScanState, NEW page \in ToSet(pages),
         NEW a, a = StartedAt(scan, page)
  PROVE  /\ a \in ScanState /\ a.pc = "get" /\ a.phase = "next" /\ a.range = scan.range
         /\ a.lo = scan.lo /\ a.hi = scan.hi /\ a.current_page = scan.current_page
         /\ a.buffer = scan.buffer /\ a.out = scan.out
         /\ a.current_record = Find(page, scan.range.lower)
<1> DEFINE found == Find(page, scan.range.lower)
<1>1. found \in Nat
  <2>1. /\ page \in Seq(Records) /\ Len(page) \in Nat
        /\ \A i, j \in DOMAIN page : i < j => Before(page[i], page[j])
    BY PageIs, Zenon
  <2>2. found \in 0..Len(page)
    BY <2>1, RangeIs, FindIs, Zenon
  <2> QED BY <2>1, <2>2
<1>2. a = [[scan EXCEPT !.current_record = found, !.phase = "next"] EXCEPT !.pc = "get"]
  BY DEF StartAt, StartedAt
<1> HIDE DEF found
<1>3. /\ a \in ScanState /\ a.pc = "get" /\ a.phase = "next" /\ a.range = scan.range
      /\ a.lo = scan.lo /\ a.hi = scan.hi /\ a.current_page = scan.current_page
      /\ a.buffer = scan.buffer /\ a.out = scan.out /\ a.current_record = found
  BY <1>1, <1>2, Zenon DEF ScanState
<1> QED BY <1>3 DEF found

\* A scan that settles asks for a page of the file or is done.
LEMMA SettleTypes ==
  ASSUME page_count \in Nat, NEW scan \in ScanState, scan.lo <= scan.hi, scan.hi <= page_count,
         NEW a, a = Settle(scan)
  PROVE  IsScan(a) /\ a.pc \in {"get", "done"}
<1>1. /\ a \in ScanState /\ a.lo = scan.lo /\ a.hi = scan.hi /\ a.pc \in {"get", "done"}
      /\ scan.phase = "bound" /\ scan.lo >= scan.hi => a.phase = "find"
      /\ ~(scan.phase = "bound" /\ scan.lo >= scan.hi) => a.phase = scan.phase
      /\ a.pc = "get" => a.phase = "bound" \/ ~(a.current_page >= page_count)
  BY SettleIs
<1>2. scan.lo \in Nat /\ scan.hi \in Nat /\ a.lo \in Nat /\ a.hi \in Nat /\ a.current_page \in Nat
  BY <1>1 DEF ScanState
<1>3. ASSUME a.phase = "bound" PROVE a.lo < a.hi
  BY <1>1, <1>2, <1>3
<1>4. ASSUME a.pc = "get" PROVE WantedPage(a) \in 0..(page_count - 1)
  <2>1. CASE a.phase = "bound"
    <3>1. Mid(a) \in Nat /\ Mid(a) < a.hi
      BY <1>1, <1>3, <2>1, MidIs
    <3>2. WantedPage(a) = Mid(a)
      BY <2>1 DEF WantedPage
    <3> HIDE DEF page_count
    <3> QED BY <1>1, <1>2, <3>1, <3>2
  <2>2. CASE a.phase # "bound"
    <3>1. WantedPage(a) = a.current_page /\ ~(a.current_page >= page_count)
      BY <1>1, <1>4, <2>2 DEF WantedPage
    <3> HIDE DEF page_count
    <3> QED BY <1>2, <3>1
  <2> QED BY <2>1, <2>2
<1> HIDE DEF page_count
<1> QED BY <1>1, <1>3, <1>4 DEF IsScan

\* A scan asks for a page in its interval and of the file.
Asking(scan) ==
  /\ scan \in ScanState /\ scan.lo <= scan.hi /\ scan.hi <= page_count
  /\ WantedPage(scan) \in 0..(page_count - 1)
  /\ scan.phase = "bound" => scan.lo < scan.hi

\* Whatever page of the file it is given, it asks for one or stops.
LEMMA UsePageTypes ==
  ASSUME Laws, PagesSorted(pages), NEW scan, Asking(scan), NEW page \in ToSet(pages),
         NEW a, a = UsePage(scan, page)
  PROVE  IsScan(a) /\ a.pc \in {"get", "done", "failed"}
<1>1. page_count \in Nat
  BY DEF PagesSorted, page_count
<1>2. /\ scan \in ScanState /\ scan.lo <= scan.hi /\ scan.hi <= page_count
      /\ scan.lo \in Nat /\ scan.hi \in Nat /\ scan.phase \in {"bound", "find", "next"}
  BY DEF Asking, ScanState
<1> HIDE DEF page_count
<1>3. CASE scan.phase = "bound"
  <2> DEFINE b == Narrow(scan, page)
  <2>1. a = Settle(b)
    BY <1>3, Zenon DEF UsePage
  <2>2. b \in ScanState /\ b.lo <= b.hi /\ b.hi <= scan.hi
    BY <1>2, <1>3, NarrowIs DEF Asking
  <2> HIDE DEF b
  <2>3. b.hi \in Nat
    BY <2>2 DEF ScanState
  <2>4. b.hi <= page_count
    BY <1>1, <1>2, <2>2, <2>3
  <2> QED BY <1>1, <2>1, <2>2, <2>4, SettleTypes
<1>4. CASE scan.phase = "find"
  <2>1. a = StartedAt(scan, page)
    BY <1>4 DEF UsePage, StartedAt
  <2>2. /\ a \in ScanState /\ a.pc = "get" /\ a.phase = "next" /\ a.lo = scan.lo
        /\ a.hi = scan.hi /\ a.current_page = scan.current_page
    BY <1>2, <2>1, StartAtIs
  <2>3. WantedPage(a) = WantedPage(scan)
    BY <1>4, <2>2 DEF WantedPage
  <2> QED BY <1>2, <2>2, <2>3 DEF IsScan, Asking
<1>5. CASE scan.phase = "next"
  <2> DEFINE adv == Advanced(scan, page)
             record == page[scan.current_record + 1]
  <2>1. a = TakeNext(scan, page)
    BY <1>5 DEF UsePage
  <2>2. adv \in ScanState /\ SameBound(adv, scan)
    BY <1>2, AdvancedIs, Zenon
  <2>3. scan.current_record \in Nat /\ Len(page) \in Nat
    BY <1>2, PageIs DEF ScanState
  <2>4. CASE scan.current_record >= Len(page)
    <3>1. a = [scan EXCEPT !.pc = "failed"]
      BY <1>2, <2>1, <2>4, TakeNextIs
    <3>2. a \in ScanState /\ a.pc = "failed" /\ a.lo = scan.lo /\ a.hi = scan.hi
      BY <1>2, <3>1 DEF ScanState
    <3> QED BY <1>2, <3>2 DEF IsScan
  <2>5. CASE scan.current_record < Len(page) /\ (scan.range.upper = 0 \/ record.key <= scan.range.upper)
    <3>1. \E more \in ScanState : SameBound(more, adv) /\ a = Settle(more)
      BY <1>2, <2>1, <2>5, TakeNextIs
    <3> HIDE DEF adv
    <3>2. PICK more \in ScanState : SameBound(more, adv) /\ a = Settle(more)
      BY <3>1
    <3>3. more.lo = scan.lo /\ more.hi = scan.hi
      BY <2>2, <3>2 DEF SameBound
    <3> QED BY <1>1, <1>2, <3>2, <3>3, SettleTypes
  <2>6. CASE scan.current_record < Len(page) /\ ~(scan.range.upper = 0 \/ record.key <= scan.range.upper)
    <3>1. a = [adv EXCEPT !.pc = "done"]
      BY <1>2, <2>1, <2>6, TakeNextIs
    <3> HIDE DEF adv
    <3>2. a \in ScanState /\ a.pc = "done" /\ a.lo = scan.lo /\ a.hi = scan.hi
      BY <2>2, <3>1 DEF ScanState, SameBound
    <3> QED BY <1>2, <3>2 DEF IsScan
  <2> QED BY <2>3, <2>4, <2>5, <2>6
<1> QED BY <1>2, <1>3, <1>4, <1>5

-----------------------------------------------------------------------------
\* A record of the file.
LEMMA RecordIs ==
  ASSUME PagesSorted(pages), NEW p \in DOMAIN pages, NEW i \in DOMAIN pages[p]
  PROVE  /\ pages[p][i] \in Records /\ pages[p][i].key \in Nat \ {0}
         /\ p \in Nat \ {0} /\ i \in Nat \ {0}
         /\ DOMAIN pages = 1..Len(pages) /\ Len(pages) \in Nat
         /\ DOMAIN pages[p] = 1..Len(pages[p]) /\ Len(pages[p]) \in Nat
<1>1. pages \in Seq(Seq(Records))
  BY DEF PagesSorted
<1>2. /\ DOMAIN pages = 1..Len(pages) /\ Len(pages) \in Nat /\ pages[p] \in Seq(Records)
      /\ p \in Nat \ {0}
  BY <1>1
<1>3. /\ DOMAIN pages[p] = 1..Len(pages[p]) /\ Len(pages[p]) \in Nat /\ i \in Nat \ {0}
      /\ pages[p][i] \in Records
  BY <1>2
<1>4. pages[p][i].key \in Nat \ {0}
  BY <1>3, SsTableAssumption
<1> QED BY <1>2, <1>3, <1>4

\* Keys never fall along the file, and no record occurs twice.
LEMMA KeysSorted ==
  ASSUME PagesSorted(pages), NEW p \in DOMAIN pages, NEW i \in DOMAIN pages[p],
         NEW q \in DOMAIN pages, NEW j \in DOMAIN pages[q]
  PROVE  /\ Precedes(p, i, q, j) =>
              /\ Before(pages[p][i], pages[q][j]) /\ pages[p][i].key <= pages[q][j].key
         /\ pages[p][i] = pages[q][j] => p = q /\ i = j
<1>1. Precedes(p, i, q, j) => Before(pages[p][i], pages[q][j])
  BY DEF PagesSorted
<1>2. Precedes(q, j, p, i) => Before(pages[q][j], pages[p][i])
  BY DEF PagesSorted
<1>3. pages[p][i] \in Records /\ pages[q][j] \in Records /\ p \in Nat /\ q \in Nat /\ i \in Nat /\ j \in Nat
  BY RecordIs
<1>4. /\ Before(pages[p][i], pages[q][j]) =>
           pages[p][i].key <= pages[q][j].key /\ pages[p][i] # pages[q][j]
      /\ Before(pages[q][j], pages[p][i]) => pages[q][j] # pages[p][i]
  BY <1>3, BeforeFacts
<1>5. Precedes(p, i, q, j) \/ Precedes(q, j, p, i) \/ (p = q /\ i = j)
  BY <1>3 DEF Precedes
<1> QED BY <1>1, <1>2, <1>4, <1>5, Zenon

\* The largest keys of pages, and what they bound.
LEMMA MaxKeysSorted ==
  ASSUME PagesSorted(pages), NEW p \in DOMAIN pages
  PROVE  /\ Len(pages[p]) \in DOMAIN pages[p] /\ MaxKey(pages[p]) = pages[p][Len(pages[p])].key
         /\ MaxKey(pages[p]) \in Nat
         /\ \A i \in DOMAIN pages[p] : pages[p][i].key <= MaxKey(pages[p])
         /\ \A q \in DOMAIN pages : p <= q => MaxKey(pages[p]) <= MaxKey(pages[q])
         /\ \A q \in DOMAIN pages : \A j \in DOMAIN pages[q] :
              p < q => MaxKey(pages[p]) <= pages[q][j].key
<1>1. ASSUME NEW q \in DOMAIN pages
      PROVE  /\ Len(pages[q]) \in DOMAIN pages[q] /\ MaxKey(pages[q]) = pages[q][Len(pages[q])].key
             /\ MaxKey(pages[q]) \in Nat /\ q \in Nat /\ DOMAIN pages[q] = 1..Len(pages[q])
             /\ Len(pages[q]) \in Nat
  <2>1. pages[q] \in ToSet(pages)
    BY DEF ToSet
  <2>2. Len(pages[q]) \in Nat \ {0} /\ DOMAIN pages[q] = 1..Len(pages[q]) /\ MaxKey(pages[q]) \in Nat
    BY <2>1, PageIs
  <2>3. q \in Nat
    BY DEF PagesSorted
  <2> QED BY <2>2, <2>3 DEF MaxKey, Last
<1>2. ASSUME NEW i \in DOMAIN pages[p] PROVE pages[p][i].key <= MaxKey(pages[p])
  <2>1. i \in Nat /\ Len(pages[p]) \in Nat /\ i <= Len(pages[p])
    BY <1>1
  <2>2. CASE i = Len(pages[p])
    BY <1>1, <2>2
  <2>3. CASE i # Len(pages[p])
    <3>1. Precedes(p, i, p, Len(pages[p]))
      BY <2>1, <2>3 DEF Precedes
    <3> QED BY <1>1, <3>1, KeysSorted
  <2> QED BY <2>2, <2>3
<1>3. ASSUME NEW q \in DOMAIN pages, NEW j \in DOMAIN pages[q], p < q
      PROVE  MaxKey(pages[p]) <= pages[q][j].key
  <2>1. Precedes(p, Len(pages[p]), q, j)
    BY <1>3 DEF Precedes
  <2> QED BY <1>1, <2>1, KeysSorted
<1>4. ASSUME NEW q \in DOMAIN pages, p <= q PROVE MaxKey(pages[p]) <= MaxKey(pages[q])
  <2>1. CASE p = q
    BY <1>1, <2>1
  <2>2. CASE p # q
    <3>1. p < q
      BY <1>1, <1>4, <2>2
    <3> QED BY <1>1, <1>3, <3>1
  <2> QED BY <2>1, <2>2
<1> QED BY <1>1, <1>2, <1>3, <1>4, Zenon

-----------------------------------------------------------------------------
\* Nothing handed out is right as long as nothing of the range is behind.
LEMMA EmptyOut ==
  ASSUME NEW scan, scan.out = <<>>,
         \A p \in DOMAIN pages : \A i \in DOMAIN pages[p] :
           ~((Behind(scan, p, i) \/ scan.pc = "done") /\ InRange(pages[p][i], scan.range))
  PROVE  OutInv(scan)
<1>1. ToSet(scan.out) = {} /\ DOMAIN scan.out = {}
  BY DEF ToSet
<1> QED BY <1>1, Zenon DEF OutInv

\* LowerBound narrows its interval around the first page that reaches the bound.
LEMMA NarrowBound ==
  ASSUME PagesSorted(pages), NEW scan, Asking(scan), scan.phase = "bound", BoundInv(scan),
         NEW a, a = Narrow(scan, pages[Mid(scan) + 1])
  PROVE  BoundInv(a)
<1> DEFINE m == Mid(scan)
           lower == scan.range.lower
           n == page_count
<1>1. /\ scan \in ScanState /\ scan.lo < scan.hi /\ scan.hi <= n
      /\ scan.lo \in Nat /\ scan.hi \in Nat /\ lower \in Nat
  BY RangeIs DEF Asking, ScanState
<1>2. m \in Nat /\ m < scan.hi
  BY <1>1, MidIs
<1>3. n \in Nat /\ DOMAIN pages = 1..n
  BY DEF PagesSorted, page_count
<1>4. /\ a.phase = "bound" /\ a.range.lower = lower
      /\ lower <= MaxKey(pages[m + 1]) => a.lo = scan.lo /\ a.hi = m
      /\ ~(lower <= MaxKey(pages[m + 1])) => a.lo = m + 1 /\ a.hi = scan.hi
  BY <1>1, NarrowIs
<1> HIDE DEF m, lower, n
<1>5. m + 1 \in DOMAIN pages
  BY <1>1, <1>2, <1>3
<1>6. \A p \in DOMAIN pages : p \in Nat /\ MaxKey(pages[p]) \in Nat
  BY <1>3, MaxKeysSorted
<1>7. CASE lower <= MaxKey(pages[m + 1])
  <2>1. ASSUME NEW p \in DOMAIN pages, m < p PROVE lower <= MaxKey(pages[p])
    <3>1. m + 1 <= p
      BY <1>2, <1>6, <2>1
    <3>2. MaxKey(pages[m + 1]) <= MaxKey(pages[p])
      BY <1>5, <3>1, MaxKeysSorted
    <3> QED BY <1>1, <1>5, <1>6, <1>7, <3>2
  <2> QED BY <1>4, <1>7, <2>1 DEF BoundInv, lower
<1>8. CASE ~(lower <= MaxKey(pages[m + 1]))
  <2>1. ASSUME NEW p \in DOMAIN pages, p <= m + 1 PROVE MaxKey(pages[p]) < lower
    <3>1. MaxKey(pages[p]) <= MaxKey(pages[m + 1])
      BY <1>5, <2>1, MaxKeysSorted
    <3> QED BY <1>1, <1>5, <1>6, <1>8, <3>1
  <2> QED BY <1>4, <1>8, <2>1 DEF BoundInv, lower
<1> QED BY <1>7, <1>8

\* Out of its loop LowerBound has found the first page that reaches the bound, or that
\* there is none.
LEMMA SettleBound ==
  ASSUME PagesSorted(pages), NEW scan \in ScanState, scan.phase = "bound",
         scan.lo <= scan.hi, scan.hi <= page_count, BoundInv(scan),
         scan.out = <<>>, scan.current_record = 0, NEW a, a = Settle(scan)
  PROVE  ScanInv(a)
<1> DEFINE n == page_count
<1>1. n \in Nat /\ DOMAIN pages = 1..n /\ scan.lo \in Nat /\ scan.hi \in Nat
  BY DEF PagesSorted, page_count, ScanState
<1>2. /\ a.range = scan.range /\ a.lo = scan.lo /\ a.hi = scan.hi /\ a.out = <<>>
      /\ a.current_record = 0 /\ a.pc \in {"get", "done"}
      /\ scan.lo >= scan.hi => a.phase = "find" /\ a.current_page = scan.lo
      /\ ~(scan.lo >= scan.hi) => a.phase = "bound"
      /\ a.pc = "done" => a.phase # "bound" /\ a.current_page >= n
  BY SettleIs
<1> HIDE DEF n
<1>3. a.phase = "find" => a.current_page = a.lo /\ a.lo = a.hi
  BY <1>1, <1>2
<1>4. BoundInv(a)
  BY <1>2, <1>3 DEF BoundInv
<1>5. ASSUME a.pc = "done" PROVE OutInv(a)
  <2>1. a.lo >= n /\ a.lo \in Nat
    BY <1>1, <1>2, <1>5
  <2>2. ASSUME NEW p \in DOMAIN pages, NEW i \in DOMAIN pages[p]
        PROVE  ~InRange(pages[p][i], a.range)
    <3>1. p <= a.lo /\ p \in Nat
      BY <1>1, <2>1
    <3>2. MaxKey(pages[p]) < a.range.lower
      BY <1>4, <3>1 DEF BoundInv
    <3>3. pages[p][i].key <= MaxKey(pages[p]) /\ MaxKey(pages[p]) \in Nat /\ pages[p][i].key \in Nat
      BY MaxKeysSorted, RecordIs
    <3>4. a.range.lower \in Nat
      BY <1>2, RangeIs
    <3> QED BY <3>2, <3>3, <3>4 DEF InRange
  <2> QED BY <1>2, <2>2, EmptyOut, Zenon
<1>6. a.phase # "next"
  BY <1>2
<1> QED BY <1>2, <1>4, <1>5, <1>6 DEF ScanInv

\* Create starts at the first record that reaches the bound.
LEMMA StartBound ==
  ASSUME Laws, PagesSorted(pages), NEW scan, Asking(scan), scan.phase = "find", BoundInv(scan),
         scan.out = <<>>, scan.pc # "done",
         NEW a, a = StartedAt(scan, pages[scan.current_page + 1])
  PROVE  ScanInv(a)
<1> DEFINE c == scan.current_page + 1
           lower == scan.range.lower
           found == Find(pages[c], lower)
<1>1. scan \in ScanState /\ lower \in Nat /\ scan.current_page \in Nat
  BY RangeIs DEF Asking, ScanState
<1>2. /\ c \in DOMAIN pages /\ DOMAIN pages \subseteq Nat /\ c \in Nat
      /\ scan.lo = scan.current_page /\ scan.hi = scan.current_page
  <2>1. scan.current_page \in 0..(page_count - 1)
    BY DEF Asking, WantedPage
  <2> QED BY <2>1 DEF BoundInv, PagesSorted, page_count
<1>3. pages[c] \in ToSet(pages)
  BY <1>2 DEF ToSet
<1>4. /\ a.pc = "get" /\ a.phase = "next" /\ a.range = scan.range
      /\ a.current_page = scan.current_page /\ a.out = <<>> /\ a.current_record = found
  BY <1>1, <1>3, StartAtIs
<1>5. /\ found \in Nat /\ found <= Len(pages[c]) /\ Len(pages[c]) \in Nat \ {0}
      /\ DOMAIN pages[c] = 1..Len(pages[c])
      /\ \A i \in DOMAIN pages[c] : i <= found <=> pages[c][i].key < lower
  <2>1. /\ pages[c] \in Seq(Records) /\ Len(pages[c]) \in Nat \ {0}
        /\ DOMAIN pages[c] = 1..Len(pages[c])
        /\ \A i, j \in DOMAIN pages[c] : i < j => Before(pages[c][i], pages[c][j])
    BY <1>3, PageIs, Zenon
  <2>2. /\ found \in 0..Len(pages[c])
        /\ \A i \in DOMAIN pages[c] : i <= found <=> pages[c][i].key < lower
    BY <1>1, <2>1, FindIs, Zenon
  <2> HIDE DEF c, found
  <2> QED BY <2>1, <2>2
<1>6. lower <= MaxKey(pages[c]) /\ MaxKey(pages[c]) \in Nat
  <2>1. scan.hi < c
    BY <1>1, <1>2
  <2> QED BY <1>2, <2>1, MaxKeysSorted DEF BoundInv
<1>7. \A p \in DOMAIN pages : p < c => MaxKey(pages[p]) < lower
  BY <1>1, <1>2 DEF BoundInv
<1>8. \A p \in DOMAIN pages : \A i \in DOMAIN pages[p] :
        Behind(a, p, i) <=> Precedes(p, i, c, found + 1)
  BY <1>4 DEF Behind
<1> HIDE DEF c, lower, found
<1>9. found < Len(pages[c])
  <2>1. ~(MaxKey(pages[c]) < lower)
    BY <1>1, <1>6
  <2>2. ~(Len(pages[c]) <= found)
    BY <1>2, <1>5, <2>1, MaxKeysSorted
  <2> QED BY <1>5, <2>2
<1>10. ASSUME NEW p \in DOMAIN pages, NEW i \in DOMAIN pages[p]
       PROVE  Behind(a, p, i) <=> pages[p][i].key < lower
  <2>1. i \in Nat /\ p \in Nat /\ pages[p][i].key \in Nat
    BY RecordIs
  <2>2. CASE p < c
    <3>1. pages[p][i].key <= MaxKey(pages[p]) /\ MaxKey(pages[p]) < lower /\ MaxKey(pages[p]) \in Nat
      BY <1>7, <2>2, MaxKeysSorted
    <3> QED BY <1>1, <1>8, <2>1, <2>2, <3>1 DEF Precedes
  <2>3. CASE p = c
    <3>1. Precedes(p, i, c, found + 1) <=> i <= found
      BY <1>2, <1>5, <2>1, <2>3 DEF Precedes
    <3> QED BY <1>5, <1>8, <2>3, <3>1
  <2>4. CASE c < p
    <3>1. MaxKey(pages[c]) <= pages[p][i].key
      BY <1>2, <2>4, MaxKeysSorted
    <3>2. ~(pages[p][i].key < lower)
      BY <1>1, <1>6, <2>1, <3>1
    <3>3. ~Precedes(p, i, c, found + 1)
      BY <1>2, <2>1, <2>4 DEF Precedes
    <3> QED BY <1>8, <3>2, <3>3
  <2> QED BY <1>2, <2>1, <2>2, <2>3, <2>4
<1>11. OutInv(a)
  <2>1. ASSUME NEW p \in DOMAIN pages, NEW i \in DOMAIN pages[p]
        PROVE  ~((Behind(a, p, i) \/ a.pc = "done") /\ InRange(pages[p][i], a.range))
    <3>1. pages[p][i].key \in Nat
      BY RecordIs
    <3>2. pages[p][i].key < lower => ~(pages[p][i].key >= lower)
      BY <1>1, <3>1
    <3> QED BY <1>4, <1>10, <3>2 DEF InRange, lower
  <2> QED BY <1>4, <2>1, EmptyOut, Zenon
<1>12. PositionInv(a)
  <2>1. a.current_record < Len(pages[a.current_page + 1])
    BY <1>4, <1>9 DEF c
  <2>2. ASSUME NEW p \in DOMAIN pages, NEW i \in DOMAIN pages[p]
        PROVE  Behind(a, p, i) \/ pages[p][i].key >= a.range.lower
    <3>1. pages[p][i].key \in Nat
      BY RecordIs
    <3>2. ~(pages[p][i].key < lower) => pages[p][i].key >= lower
      BY <1>1, <3>1
    <3> QED BY <1>4, <1>10, <3>2 DEF lower
  <2> QED BY <2>1, <2>2, Zenon DEF PositionInv
<1> QED BY <1>4, <1>11, <1>12 DEF ScanInv

-----------------------------------------------------------------------------
Ordered(rows) == \A i, j \in DOMAIN rows : i < j => Before(rows[i], rows[j])

\* What is handed out is what is behind of the range.
Walked(scan) ==
  /\ ToSet(scan.out) \subseteq FileRecords /\ Ordered(scan.out)
  /\ \A p \in DOMAIN pages : \A i \in DOMAIN pages[p] :
       pages[p][i] \in ToSet(scan.out) <=> Behind(scan, p, i) /\ InRange(pages[p][i], scan.range)

\* The scan moves behind one record.
LEMMA AdvancedBehind ==
  ASSUME PagesSorted(pages), NEW scan \in ScanState,
         scan.current_page + 1 \in DOMAIN pages,
         scan.current_record + 1 <= Len(pages[scan.current_page + 1]),
         NEW p \in DOMAIN pages, NEW i \in DOMAIN pages[p]
  PROVE  Behind(Advanced(scan, pages[scan.current_page + 1]), p, i) <=>
           Behind(scan, p, i) \/ (p = scan.current_page + 1 /\ i = scan.current_record + 1)
<1> DEFINE c == scan.current_page + 1
           k == scan.current_record + 1
           a == Advanced(scan, pages[c])
<1>1. scan.current_page \in Nat /\ scan.current_record \in Nat
  BY DEF ScanState
<1>2. p \in Nat /\ i \in Nat \ {0} /\ c \in Nat /\ k \in Nat
      /\ i <= Len(pages[p]) /\ Len(pages[p]) \in Nat
  BY <1>1, RecordIs
<1>3. Behind(scan, p, i) <=> Precedes(p, i, c, k)
  BY DEF Behind
<1>4. /\ k >= Len(pages[c]) => a.current_record = 0 /\ a.current_page = c
      /\ ~(k >= Len(pages[c])) => a.current_record = k /\ a.current_page = scan.current_page
  BY AdvancedIs, Zenon
<1>5. k <= Len(pages[c]) /\ c = scan.current_page + 1
  OBVIOUS
<1> HIDE DEF c, k, a
<1>6. CASE k >= Len(pages[c])
  <2>1. a.current_record = 0 /\ a.current_page = c
    BY <1>4, <1>6
  <2>2. Behind(a, p, i) <=> Precedes(p, i, c + 1, 1)
    BY <2>1 DEF Behind
  <2>3. p = c => i <= k
    BY <1>2, <1>5, <1>6
  <2>4. Behind(a, p, i) <=> Behind(scan, p, i) \/ (p = c /\ i = k)
    BY <1>2, <1>3, <2>2, <2>3 DEF Precedes
  <2> QED BY <2>4 DEF c, k, a
<1>7. CASE ~(k >= Len(pages[c]))
  <2>1. a.current_record = k /\ a.current_page + 1 = c
    BY <1>4, <1>5, <1>7
  <2>2. Behind(a, p, i) <=> Precedes(p, i, c, k + 1)
    BY <2>1 DEF Behind
  <2>3. Behind(a, p, i) <=> Behind(scan, p, i) \/ (p = c /\ i = k)
    BY <1>2, <1>3, <2>2 DEF Precedes
  <2> QED BY <2>3 DEF c, k, a
<1> QED BY <1>6, <1>7

\* One more record behind the others.
LEMMA OneMore ==
  ASSUME NEW out \in Seq(Records), NEW r \in Records, Ordered(out),
         \A t \in ToSet(out) : Before(t, r)
  PROVE  Ordered(Append(out, r)) /\ ToSet(Append(out, r)) = ToSet(out) \cup {r}
<1> DEFINE n == Len(out)
           more == Append(out, r)
<1>1. /\ n \in Nat /\ DOMAIN out = 1..n /\ DOMAIN more = 1..(n + 1)
      /\ more[n + 1] = r /\ \A i \in 1..n : more[i] = out[i]
  OBVIOUS
<1> HIDE DEF n, more
<1>2. n + 1 \in 1..(n + 1) /\ \A i \in 1..(n + 1) : i # n + 1 => i \in 1..n
  BY <1>1
<1>3. \A i \in 1..n : i \in 1..(n + 1)
  BY <1>1
<1>4. ToSet(more) = ToSet(out) \cup {r}
  <2>1. ASSUME NEW t \in ToSet(more) PROVE t \in ToSet(out) \cup {r}
    <3>1. PICK i \in DOMAIN more : t = more[i]
      BY Zenon DEF ToSet
    <3> QED BY <1>1, <1>2, <3>1 DEF ToSet
  <2>2. ASSUME NEW t \in ToSet(out) PROVE t \in ToSet(more)
    <3>1. PICK i \in DOMAIN out : t = out[i]
      BY Zenon DEF ToSet
    <3> QED BY <1>1, <1>3, <3>1 DEF ToSet
  <2>3. r \in ToSet(more)
    BY <1>1, <1>2, Zenon DEF ToSet
  <2> QED BY <2>1, <2>2, <2>3, Zenon
<1>5. ASSUME NEW i \in DOMAIN more, NEW j \in DOMAIN more, i < j
      PROVE  Before(more[i], more[j])
  <2>1. i \in 1..n
    BY <1>1, <1>5
  <2>2. CASE j = n + 1
    <3>1. more[i] \in ToSet(out)
      BY <1>1, <2>1, Zenon DEF ToSet
    <3> QED BY <1>1, <2>2, <3>1
  <2>3. CASE j # n + 1
    BY <1>1, <1>2, <1>5, <2>1, <2>3, Zenon DEF Ordered
  <2> QED BY <2>2, <2>3
<1>6. Ordered(more)
  BY <1>5, Zenon DEF Ordered
<1> QED BY <1>4, <1>6 DEF more

\* HasMore: the next record of the file, or the end of the file.
LEMMA SettleNext ==
  ASSUME PagesSorted(pages), NEW scan \in ScanState, scan.phase = "next", Walked(scan),
         scan.current_page < page_count => scan.current_record < Len(pages[scan.current_page + 1]),
         \A p \in DOMAIN pages : \A i \in DOMAIN pages[p] :
           Behind(scan, p, i) \/ pages[p][i].key >= scan.range.lower,
         NEW a, a = Settle(scan)
  PROVE  ScanInv(a)
<1> DEFINE n == page_count
<1>1. n \in Nat /\ DOMAIN pages = 1..n /\ scan.current_page \in Nat
  BY DEF PagesSorted, page_count, ScanState
<1>2. /\ a.range = scan.range /\ a.out = scan.out /\ a.current_record = scan.current_record
      /\ a.current_page = scan.current_page /\ a.phase = "next" /\ a.pc \in {"get", "done"}
      /\ a.pc = "done" <=> a.current_page >= n
  BY SettleIs
<1> HIDE DEF n
<1>3. \A p, i : Behind(a, p, i) <=> Behind(scan, p, i)
  BY <1>2 DEF Behind
<1>4. ASSUME a.pc = "done", NEW p \in DOMAIN pages, NEW i \in DOMAIN pages[p] PROVE Behind(a, p, i)
  <2>1. p \in Nat /\ p < a.current_page + 1
    BY <1>1, <1>2, <1>4
  <2> QED BY <2>1 DEF Behind, Precedes
<1>5. OutInv(a)
  BY <1>2, <1>3, <1>4, Zenon DEF OutInv, Walked, Ordered
<1>6. PositionInv(a)
  <2>1. a.pc # "done" => a.current_record < Len(pages[a.current_page + 1])
    BY <1>1, <1>2 DEF n
  <2> QED BY <1>2, <1>3, <2>1, Zenon DEF PositionInv
<1> QED BY <1>2, <1>5, <1>6 DEF ScanInv

\* What is handed out lies before every record that is not behind.
LEMMA OutBefore ==
  ASSUME PagesSorted(pages), NEW scan, OutInv(scan), scan.pc # "done",
         NEW q \in DOMAIN pages, NEW j \in DOMAIN pages[q],
         q = scan.current_page + 1, j = scan.current_record + 1,
         NEW t \in ToSet(scan.out)
  PROVE  Before(t, pages[q][j])
<1>1. t \in FileRecords
  BY DEF OutInv
<1>2. PICK p \in DOMAIN pages : t \in ToSet(pages[p])
  BY <1>1 DEF FileRecords
<1>3. PICK i \in DOMAIN pages[p] : t = pages[p][i]
  BY <1>2 DEF ToSet
<1>4. Behind(scan, p, i)
  BY <1>3, Zenon DEF OutInv
<1>5. Precedes(p, i, q, j)
  BY <1>4, Zenon DEF Behind
<1> QED BY <1>3, <1>5, KeysSorted

\* Next hands out the record the scan is at, or stops at the first one above the range.
LEMMA TakeNextProgress ==
  ASSUME PagesSorted(pages), NEW scan, Asking(scan), scan.phase = "next", scan.pc # "done",
         OutInv(scan), PositionInv(scan),
         NEW a, a = TakeNext(scan, pages[scan.current_page + 1])
  PROVE  ScanInv(a)
<1> DEFINE c == scan.current_page + 1
           k == scan.current_record + 1
           page == pages[c]
           record == page[k]
           adv == Advanced(scan, page)
           n == page_count
<1>1. /\ scan \in ScanState /\ scan.current_page \in Nat /\ scan.current_record \in Nat
      /\ scan.range.lower \in Nat /\ scan.range.upper \in Nat /\ scan.out \in Seq(Records)
  BY RangeIs DEF Asking, ScanState
<1>2. n \in Nat /\ DOMAIN pages = 1..n
  BY DEF PagesSorted, page_count
<1>3. c \in DOMAIN pages /\ c \in Nat
  <2>1. scan.current_page \in 0..(n - 1)
    BY DEF Asking, WantedPage
  <2> HIDE DEF n
  <2> QED BY <1>2, <2>1
<1>4. page \in ToSet(pages)
  BY <1>3 DEF ToSet
<1>5. Len(page) \in Nat /\ DOMAIN page = 1..Len(page) /\ scan.current_record < Len(page)
  BY <1>4, PageIs DEF PositionInv
<1>6. k \in DOMAIN page /\ k <= Len(page) /\ k \in Nat
  BY <1>1, <1>5
<1>7. record \in Records /\ record.key \in Nat
  BY <1>3, <1>6, RecordIs
<1>8. /\ adv \in ScanState /\ SameBound(adv, scan) /\ adv.pc = scan.pc /\ adv.out = scan.out
      /\ k >= Len(page) => adv.current_record = 0 /\ adv.current_page = c
      /\ ~(k >= Len(page)) => adv.current_record = k /\ adv.current_page = scan.current_page
  BY <1>1, AdvancedIs, Zenon
<1>9. ASSUME NEW p \in DOMAIN pages, NEW i \in DOMAIN pages[p]
      PROVE  Behind(adv, p, i) <=> Behind(scan, p, i) \/ (p = c /\ i = k)
  BY <1>1, <1>3, <1>6, AdvancedBehind, Zenon
<1>10. ~Behind(scan, c, k)
  BY <1>1 DEF Behind, Precedes
<1>11. record.key >= scan.range.lower
  BY <1>3, <1>6, <1>10 DEF PositionInv
<1>12. \A t \in ToSet(scan.out) : Before(t, record)
  BY <1>3, <1>6, OutBefore, Zenon
<1>13. ~(scan.current_record >= Len(page))
  BY <1>1, <1>5
<1>14. CASE scan.range.upper = 0 \/ record.key <= scan.range.upper
  <2>1. PICK more \in ScanState :
          /\ SameBound(more, adv) /\ more.out = Append(scan.out, record) /\ a = Settle(more)
          /\ more.current_record = adv.current_record /\ more.current_page = adv.current_page
    <3>1. a = TakeNext(scan, page)
      OBVIOUS
    <3> QED BY <1>1, <1>4, <1>5, <1>14, <3>1, TakeNextIs
  <2> HIDE DEF adv
  <2>2. more.phase = "next" /\ more.range = scan.range
    BY <1>8, <2>1 DEF SameBound
  <2>3. ASSUME NEW p \in DOMAIN pages, NEW i \in DOMAIN pages[p]
        PROVE  Behind(more, p, i) <=> Behind(scan, p, i) \/ (p = c /\ i = k)
    <3>1. Behind(more, p, i) <=> Behind(adv, p, i)
      BY <2>1, Zenon DEF Behind
    <3> QED BY <1>9, <3>1, Zenon
  <2>4. Ordered(more.out) /\ ToSet(more.out) = ToSet(scan.out) \cup {record}
    <3>1. Ordered(scan.out)
      BY Zenon DEF OutInv, Ordered
    <3> QED BY <1>1, <1>7, <1>12, <2>1, <3>1, OneMore, Zenon
  <2>5. InRange(record, scan.range)
    BY <1>11, <1>14 DEF InRange
  <2>6. record \in FileRecords
    BY <1>3, <1>6 DEF FileRecords, ToSet
  <2>7. Walked(more)
    <3>1. ToSet(more.out) \subseteq FileRecords
      BY <2>4, <2>6, Zenon DEF OutInv
    <3>2. ASSUME NEW p \in DOMAIN pages, NEW i \in DOMAIN pages[p]
          PROVE  pages[p][i] \in ToSet(more.out) <=>
                   Behind(more, p, i) /\ InRange(pages[p][i], more.range)
      <4>1. pages[p][i] \in ToSet(scan.out) <=>
              Behind(scan, p, i) /\ InRange(pages[p][i], scan.range)
        BY Zenon DEF OutInv
      <4>2. pages[p][i] = record <=> p = c /\ i = k
        <5>1. pages[p][i] = record => p = c /\ i = k
          BY <1>3, <1>6, KeysSorted
        <5> QED BY <5>1
      <4> HIDE DEF c, k, page, record
      <4> QED BY <2>2, <2>3, <2>4, <2>5, <4>1, <4>2, Zenon
    <3> QED BY <2>4, <3>1, <3>2, Zenon DEF Walked
  <2>8. more.current_page < n => more.current_record < Len(pages[more.current_page + 1])
    <3>1. CASE k >= Len(page)
      <4>1. more.current_record = 0 /\ more.current_page = c
        BY <1>8, <2>1, <3>1
      <4>2. ASSUME c < n PROVE 0 < Len(pages[c + 1])
        <5>1. c + 1 \in DOMAIN pages
          BY <1>2, <1>3, <4>2
        <5>2. pages[c + 1] \in ToSet(pages)
          BY <5>1 DEF ToSet
        <5>3. Len(pages[c + 1]) \in Nat \ {0}
          BY <5>2, PageIs
        <5> QED BY <5>3
      <4> QED BY <4>1, <4>2
    <3>2. CASE ~(k >= Len(page))
      BY <1>5, <1>6, <1>8, <2>1, <3>2
    <3> QED BY <3>1, <3>2
  <2>9. ASSUME NEW p \in DOMAIN pages, NEW i \in DOMAIN pages[p]
        PROVE  Behind(more, p, i) \/ pages[p][i].key >= more.range.lower
    BY <2>2, <2>3, Zenon DEF PositionInv
  <2> QED BY <2>1, <2>2, <2>7, <2>8, <2>9, SettleNext
<1>15. CASE ~(scan.range.upper = 0 \/ record.key <= scan.range.upper)
  <2>1. a = [adv EXCEPT !.pc = "done"]
    <3>1. a = TakeNext(scan, page)
      OBVIOUS
    <3> QED BY <1>1, <1>4, <1>5, <1>15, <3>1, TakeNextIs, ZenonT(30)
  <2> HIDE DEF adv
  <2>2. /\ a.pc = "done" /\ a.phase = "next" /\ a.range = scan.range /\ a.out = scan.out
        /\ a.current_record = adv.current_record /\ a.current_page = adv.current_page
    BY <1>8, <2>1 DEF SameBound, ScanState
  <2>3. ASSUME NEW p \in DOMAIN pages, NEW i \in DOMAIN pages[p], ~Behind(scan, p, i)
        PROVE  ~InRange(pages[p][i], scan.range)
    <3>1. p \in Nat /\ i \in Nat /\ pages[p][i].key \in Nat
      BY RecordIs
    <3>2. Precedes(c, k, p, i) \/ (p = c /\ i = k)
      BY <1>3, <1>6, <2>3, <3>1 DEF Behind, Precedes
    <3>3. record.key <= pages[p][i].key
      <4>1. CASE Precedes(c, k, p, i)
        BY <1>3, <1>6, <4>1, KeysSorted
      <4>2. CASE p = c /\ i = k
        BY <1>7, <4>2
      <4> QED BY <3>2, <4>1, <4>2
    <3> HIDE DEF record
    <3> QED BY <1>1, <1>7, <1>15, <3>1, <3>3 DEF InRange
  <2>4. OutInv(a)
    <3>1. ASSUME NEW p \in DOMAIN pages, NEW i \in DOMAIN pages[p]
          PROVE  pages[p][i] \in ToSet(scan.out) <=> InRange(pages[p][i], scan.range)
      BY <2>3, Zenon DEF OutInv
    <3> QED BY <2>2, <3>1, Zenon DEF OutInv
  <2>5. PositionInv(a)
    <3>1. ASSUME NEW p \in DOMAIN pages, NEW i \in DOMAIN pages[p]
          PROVE  Behind(a, p, i) \/ pages[p][i].key >= a.range.lower
      <4>1. Behind(a, p, i) <=> Behind(adv, p, i)
        BY <2>2, Zenon DEF Behind
      <4> QED BY <1>9, <2>2, <4>1, Zenon DEF PositionInv
    <3> QED BY <2>2, <3>1, Zenon DEF PositionInv
  <2> QED BY <2>2, <2>4, <2>5 DEF ScanInv
<1> QED BY <1>14, <1>15

-----------------------------------------------------------------------------
\* What is said of a scan that is under way.
Active(scan) ==
  /\ scan.phase # "next" => BoundInv(scan) /\ scan.out = <<>> /\ scan.current_record = 0
  /\ scan.phase = "next" => OutInv(scan) /\ PositionInv(scan)

\* With the page it asked for, a scan does what it would do in memory.
LEMMA UsePageProgress ==
  ASSUME Laws, PagesSorted(pages), NEW scan, Asking(scan), scan.pc # "done", Active(scan),
         NEW a, a = UsePage(scan, pages[WantedPage(scan) + 1])
  PROVE  ScanInv(a)
<1>1. scan \in ScanState /\ scan.phase \in {"bound", "find", "next"}
  BY DEF Asking, ScanState
<1>2. CASE scan.phase = "bound"
  <2> DEFINE page == pages[Mid(scan) + 1]
             b == Narrow(scan, page)
  <2>1. a = Settle(b)
    BY <1>2, Zenon DEF UsePage, WantedPage
  <2>2. BoundInv(b)
    BY <1>2, NarrowBound DEF Active
  <2>3. /\ b \in ScanState /\ b.lo <= b.hi /\ b.hi <= scan.hi /\ b.phase = "bound"
        /\ b.out = <<>> /\ b.current_record = 0
    BY <1>1, <1>2, NarrowIs DEF Asking, Active
  <2> HIDE DEF b
  <2>4. b.hi <= page_count
    <3>1. b.hi \in Nat /\ scan.hi \in Nat /\ page_count \in Nat /\ scan.hi <= page_count
      BY <1>1, <2>3 DEF ScanState, PagesSorted, page_count, Asking
    <3> HIDE DEF page_count
    <3> QED BY <2>3, <3>1
  <2> QED BY <2>1, <2>2, <2>3, <2>4, SettleBound
<1>3. CASE scan.phase = "find"
  <2>1. a = StartedAt(scan, pages[scan.current_page + 1])
    BY <1>3 DEF UsePage, StartedAt, WantedPage
  <2> QED BY <1>3, <2>1, StartBound DEF Active
<1>4. CASE scan.phase = "next"
  <2>1. a = TakeNext(scan, pages[scan.current_page + 1])
    BY <1>4 DEF UsePage, WantedPage
  <2> QED BY <1>4, <2>1, TakeNextProgress DEF Active
<1> QED BY <1>1, <1>2, <1>3, <1>4

\* A scan in GetPage is under way, whatever step of it it has reached.
SameScan(a, scan) ==
  /\ a \in ScanState /\ SameBound(a, scan) /\ a.current_page = scan.current_page
  /\ a.current_record = scan.current_record /\ a.out = scan.out

Getting == {"get", "seek", "read", "load"}

LEMMA SameActive ==
  ASSUME NEW scan, NEW a, SameScan(a, scan), scan.pc # "done", a.pc # "done"
  PROVE  /\ WantedPage(a) = WantedPage(scan)
         /\ Active(a) <=> Active(scan)
         /\ Asking(scan) => Asking(a)
<1>1. /\ a.phase = scan.phase /\ a.range = scan.range /\ a.lo = scan.lo /\ a.hi = scan.hi
      /\ a.current_page = scan.current_page /\ a.current_record = scan.current_record
      /\ a.out = scan.out /\ a \in ScanState
  BY DEF SameScan, SameBound
<1>2. WantedPage(a) = WantedPage(scan)
  BY <1>1 DEF WantedPage, Mid
<1>3. \A p, i : Behind(a, p, i) <=> Behind(scan, p, i)
  BY <1>1, Zenon DEF Behind
<1>4. BoundInv(a) <=> BoundInv(scan)
  BY <1>1, Zenon DEF BoundInv
<1>5. OutInv(a) <=> OutInv(scan)
  BY <1>1, <1>3, Zenon DEF OutInv
<1>6. PositionInv(a) <=> PositionInv(scan)
  BY <1>1, <1>3, Zenon DEF PositionInv
<1>7. Active(a) <=> Active(scan)
  BY <1>1, <1>4, <1>5, <1>6, Zenon DEF Active
<1>8. Asking(scan) => Asking(a)
  BY <1>1, <1>2, Zenon DEF Asking
<1> QED BY <1>2, <1>7, <1>8

LEMMA GettingIs ==
  ASSUME NEW scan, scan.pc \in Getting, IsScan(scan)
  PROVE  /\ Asking(scan) /\ scan.pc # "done"
         /\ ScanInv(scan) <=> /\ Active(scan)
                              /\ scan.pc = "load" => scan.buffer = pages[WantedPage(scan) + 1]
<1>1. scan.pc # "done" /\ scan.pc # "failed" /\ scan.pc # "idle"
  BY DEF Getting
<1>2. Asking(scan)
  BY DEF IsScan, Asking, Getting
<1>3. ScanInv(scan) <=> /\ Active(scan)
                        /\ scan.pc = "load" => scan.buffer = pages[WantedPage(scan) + 1]
  BY <1>1, Zenon DEF ScanInv, Active
<1> QED BY <1>1, <1>2, <1>3

\* A step inside GetPage.
LEMMA GettingStep ==
  ASSUME NEW scan, scan.pc \in Getting, IsScan(scan),
         NEW a, a.pc \in Getting, SameScan(a, scan),
         a.pc = "load" => a.buffer \in ToSet(pages)
  PROVE  /\ IsScan(a)
         /\ ScanInv(scan) /\ (a.pc = "load" => a.buffer = pages[WantedPage(scan) + 1]) => ScanInv(a)
<1>1. Asking(scan) /\ scan.pc # "done" /\ a.pc # "done"
  BY GettingIs DEF Getting
<1>2. /\ WantedPage(a) = WantedPage(scan) /\ (Active(a) <=> Active(scan)) /\ Asking(a)
  BY <1>1, SameActive
<1>3. IsScan(a)
  BY <1>2 DEF IsScan, Asking
<1> QED BY <1>2, <1>3, GettingIs

-----------------------------------------------------------------------------
\* One scan moves; the file stays.
Moves(s, a) == pages' = pages /\ scans' = [scans EXCEPT ![s] = a] /\ overlapped' = overlapped

\* What a step makes of the scan that takes it.
Sound(a) == IsScan(a) /\ (~overlapped => ScanInv(a))

LEMMA StartScanStep ==
  ASSUME SsTableInv, NEW s \in Scan, NEW range \in Ranges, StartScan(s, range)
  PROVE  \E a : Moves(s, a) /\ Sound(a) /\ a.pc \in {"get", "done"}
<1> DEFINE phase == IF range.lower = 0 THEN "next" ELSE "bound"
           n == page_count
           start == [NewScan EXCEPT !.range = range, !.hi = n, !.phase = phase]
           a == Settle(start)
<1>1. Moves(s, a)
  BY Zenon DEF StartScan, Moves
<1>2. PagesSorted(pages) /\ n \in Nat /\ DOMAIN pages = 1..n
  BY DEF SsTableInv, TypesInv, PagesSorted, page_count
<1>3. phase \in {"bound", "next"} /\ (phase = "next" <=> range.lower = 0)
  OBVIOUS
<1>4. <<>> \in Seq(Records)
  OBVIOUS
<1> HIDE DEF n, phase
<1>5. /\ start \in ScanState /\ start.lo = 0 /\ start.hi = n /\ start.phase = phase
      /\ start.range = range /\ start.current_page = 0 /\ start.current_record = 0
      /\ start.out = <<>> /\ start.pc = "idle"
  BY <1>2, <1>3, <1>4, Zenon DEF NewScan, ScanState
<1> HIDE DEF start
<1>6. IsScan(a) /\ a.pc \in {"get", "done"}
  BY <1>2, <1>5, SettleTypes DEF n
<1>7. ScanInv(a)
  <2>1. CASE phase = "bound"
    <3>1. BoundInv(start)
      BY <1>2, <1>5, <2>1 DEF BoundInv
    <3> QED BY <1>2, <1>5, <2>1, <3>1, SettleBound DEF n
  <2>2. CASE phase = "next"
    <3>1. ASSUME NEW p \in DOMAIN pages, NEW i \in DOMAIN pages[p]
          PROVE  ~Behind(start, p, i) /\ pages[p][i].key >= start.range.lower
      <4>1. p \in Nat \ {0} /\ i \in Nat \ {0} /\ pages[p][i].key \in Nat
        BY <1>2, RecordIs
      <4>2. start.range.lower = 0
        BY <1>3, <1>5, <2>2
      <4> QED BY <1>5, <4>1, <4>2 DEF Behind, Precedes
    <3>2. Walked(start)
      <4>1. ToSet(start.out) = {} /\ DOMAIN start.out = {}
        BY <1>5 DEF ToSet
      <4> QED BY <3>1, <4>1, Zenon DEF Walked, Ordered
    <3>3. start.current_page < n => start.current_record < Len(pages[start.current_page + 1])
      <4>1. ASSUME 0 < n PROVE 0 < Len(pages[1])
        <5>1. 1 \in DOMAIN pages
          BY <1>2, <4>1
        <5>2. pages[1] \in ToSet(pages)
          BY <5>1 DEF ToSet
        <5>3. Len(pages[1]) \in Nat \ {0}
          BY <1>2, <5>2, PageIs
        <5> QED BY <5>3
      <4> QED BY <1>5, <4>1
    <3> QED BY <1>2, <1>5, <2>2, <3>1, <3>2, <3>3, SettleNext DEF n
  <2> QED BY <1>3, <2>1, <2>2
<1> QED BY <1>1, <1>6, <1>7 DEF Sound

\* GetPage up to the Read: only where the scan is in it changes.
LEMMA PcStep ==
  ASSUME SsTableInv, NEW s \in Scan, scans[s].pc \in Getting,
         NEW a, a = [scans[s] EXCEPT !.pc = "seek"] \/ a = [scans[s] EXCEPT !.pc = "read"]
  PROVE  Sound(a) /\ a.pc \in {"seek", "read"} /\ WantedPage(a) = WantedPage(scans[s])
<1> DEFINE scan == scans[s]
<1>1. IsScan(scan) /\ scan \in ScanState /\ (~overlapped => ScanInv(scan))
  BY DEF SsTableInv, TypesInv, IsScan
<1>2. scan.pc \in Getting /\ (a = [scan EXCEPT !.pc = "seek"] \/ a = [scan EXCEPT !.pc = "read"])
  OBVIOUS
<1> HIDE DEF scan
<1>3. SameScan(a, scan) /\ a.pc \in {"seek", "read"}
  BY <1>1, <1>2 DEF SameScan, SameBound, ScanState
<1>4. a.pc \in Getting /\ a.pc # "load" /\ a.pc # "done" /\ scan.pc # "done"
  BY <1>2, <1>3 DEF Getting
<1>5. IsScan(a) /\ (ScanInv(scan) => ScanInv(a))
  BY <1>1, <1>2, <1>3, <1>4, GettingStep
<1>6. WantedPage(a) = WantedPage(scan)
  BY <1>3, <1>4, SameActive
<1> QED BY <1>1, <1>3, <1>5, <1>6 DEF Sound, scan

\* FileReader::Read.
LEMMA ReadStep ==
  ASSUME SsTableInv, NEW s \in Scan, ReadPage(s)
  PROVE  /\ \E a : Moves(s, a) /\ Sound(a) /\ a.pc \in {"load", "failed"}
         /\ file_offset' \in 0..page_count
<1> DEFINE scan == scans[s]
           n == page_count
           page == pages[file_offset + 1]
<1>1. /\ IsScan(scan) /\ scan \in ScanState /\ scan.pc = "read"
      /\ PagesSorted(pages) /\ file_offset \in 0..n
      /\ ~overlapped => ScanInv(scan) /\ file_offset = WantedPage(scan)
  BY DEF SsTableInv, TypesInv, IsScan, ReadPage
<1>2. n \in Nat /\ DOMAIN pages = 1..n
  BY <1>1 DEF PagesSorted, page_count
<1>3. Asking(scan) /\ scan.pc \in Getting
  BY <1>1, GettingIs DEF Getting
<1>4. CASE file_offset < n
  <2> DEFINE a == [[scan EXCEPT !.pc = "load"] EXCEPT !.buffer = page]
  <2>1. scans' = [scans EXCEPT ![s] = a] /\ pages' = pages /\ overlapped' = overlapped
        /\ file_offset' = file_offset + 1
    BY <1>4, ZenonT(30) DEF ReadPage, SsTableInv, TypesInv
  <2>2. page \in ToSet(pages)
    <3>1. file_offset + 1 \in DOMAIN pages
      <4> HIDE DEF n
      <4> QED BY <1>1, <1>2, <1>4
    <3> QED BY <3>1 DEF ToSet
  <2>3. page \in Seq(Records)
    BY <1>1, <2>2, PageIs
  <2>4. ~overlapped => page = pages[WantedPage(scan) + 1]
    BY <1>1
  <2> HIDE DEF page, scan
  <2>5. SameScan(a, scan) /\ a.pc = "load" /\ a.buffer = page
    BY <1>1, <2>3, Zenon DEF SameScan, SameBound, ScanState
  <2> HIDE DEF a
  <2>6. a.pc \in Getting
    BY <2>5 DEF Getting
  <2>7. IsScan(a) /\ (~overlapped => ScanInv(a))
    BY <1>1, <1>3, <2>2, <2>4, <2>5, <2>6, GettingStep
  <2>8. file_offset' \in 0..n
    <3> HIDE DEF n
    <3> QED BY <1>1, <1>2, <1>4, <2>1
  <2> QED BY <2>1, <2>5, <2>7, <2>8, Zenon DEF Sound, Moves
<1>5. CASE ~(file_offset < n)
  <2> DEFINE a == [scan EXCEPT !.pc = "failed"]
  <2>1. scans' = [scans EXCEPT ![s] = a] /\ pages' = pages /\ overlapped' = overlapped
        /\ file_offset' = file_offset
    BY <1>5 DEF ReadPage
  <2>2. overlapped
    <3>1. WantedPage(scan) \in 0..(n - 1)
      BY <1>3 DEF Asking
    <3> HIDE DEF n, scan
    <3> QED BY <1>1, <1>2, <1>5, <3>1
  <2> HIDE DEF scan
  <2>3. a \in ScanState /\ a.pc = "failed" /\ a.lo = scan.lo /\ a.hi = scan.hi
    BY <1>1 DEF ScanState
  <2> HIDE DEF a
  <2>4. IsScan(a)
    BY <1>1, <2>3 DEF IsScan
  <2> QED BY <1>1, <2>1, <2>2, <2>3, <2>4, Zenon DEF Sound, Moves
<1> QED BY <1>4, <1>5

\* What the page cache holds.
Entry == [key : 0..(page_count - 1), value : ToSet(pages)]

CachedPages(entries) ==
  \A i \in DOMAIN entries : entries[i].value = pages[entries[i].key + 1]

\* Get and Put keep the cache what it is.
CacheKept ==
  /\ page_cache' \in Seq(Entry) /\ Len(page_cache') <= page_cache_capacity
  /\ DistinctKeys(page_cache')
  /\ ~overlapped => CachedPages(page_cache')

LEMMA CacheIs ==
  ASSUME SsTableInv
  PROVE  /\ page_cache \in Seq(Entry) /\ Len(page_cache) <= page_cache_capacity
         /\ DistinctKeys(page_cache) /\ (~overlapped => CachedPages(page_cache))
BY DEF SsTableInv, TypesInv, CacheConsistent, DistinctKeys, CachedPages, Entry

\* Nodes that come from right ones are right.
LEMMA CachedPagesFrom ==
  ASSUME NEW after, NEW before, NEW entry, IsFrom(after, before, entry), CachedPages(before),
         entry.value = pages[entry.key + 1]
  PROVE  CachedPages(after)
BY Zenon DEF IsFrom, CachedPages

LEMMA HitStep ==
  ASSUME Laws, SsTableInv, NEW s \in Scan, GetPageHit(s)
  PROVE  /\ \E a : Moves(s, a) /\ Sound(a) /\ a.pc \in {"get", "done", "failed"}
         /\ CacheKept /\ file_offset' = file_offset
<1> DEFINE scan == scans[s]
           wanted == WantedPage(scan)
           page == Cached(page_cache, wanted).value
           a == UsePage(scan, page)
           after == CacheGet(page_cache, wanted)
<1>1. /\ IsScan(scan) /\ scan.pc = "get" /\ PagesSorted(pages) /\ (~overlapped => ScanInv(scan))
  BY DEF SsTableInv, TypesInv, GetPageHit
<1>2. HasKey(page_cache, wanted) /\ page_cache' = after /\ Moves(s, a) /\ file_offset' = file_offset
  BY DEF GetPageHit, Moves
<1>3. /\ page_cache \in Seq(Entry) /\ Len(page_cache) <= page_cache_capacity
      /\ DistinctKeys(page_cache) /\ (~overlapped => CachedPages(page_cache))
  BY CacheIs
<1>4. scan.pc \in Getting /\ Asking(scan) /\ scan.pc # "done" /\ (~overlapped => Active(scan))
  <2>1. scan.pc \in Getting
    BY <1>1 DEF Getting
  <2> QED BY <1>1, <2>1, GettingIs, Zenon
<1> HIDE DEF wanted
<1>5. /\ Node(page_cache, wanted) \in DOMAIN page_cache
      /\ page_cache[Node(page_cache, wanted)].key = wanted
      /\ Cached(page_cache, wanted) = page_cache[Node(page_cache, wanted)]
      /\ Cached(page_cache, wanted) \in Entry
  BY <1>2, <1>3, CachedIs
<1>6. page \in ToSet(pages)
  <2> DEFINE e == Cached(page_cache, wanted)
  <2>1. e \in Entry
    BY <1>5
  <2> HIDE DEF e
  <2>2. e.value \in ToSet(pages)
    BY <2>1 DEF Entry
  <2> QED BY <2>2 DEF e
<1>7. ~overlapped => page = pages[wanted + 1]
  BY <1>3, <1>5, Zenon DEF CachedPages
<1>8. IsScan(a) /\ a.pc \in {"get", "done", "failed"}
  BY <1>1, <1>4, <1>6, UsePageTypes
<1>9. ASSUME ~overlapped PROVE ScanInv(a)
  <2>1. a = UsePage(scan, pages[WantedPage(scan) + 1])
    BY <1>7, <1>9, Zenon DEF wanted
  <2> HIDE DEF a, page, scan
  <2> QED BY <1>1, <1>4, <1>9, <2>1, UsePageProgress
<1>10. /\ after \in Seq(Entry) /\ Len(after) = Len(page_cache) /\ DistinctKeys(after)
       /\ IsFrom(after, page_cache, Cached(page_cache, wanted))
  BY <1>2, <1>3, CacheGetKeeps, Zenon
<1>11. ~overlapped => CachedPages(after)
  BY <1>3, <1>5, <1>7, <1>10, CachedPagesFrom, Zenon
<1> HIDE DEF after, a
<1>12. Len(after) <= page_cache_capacity
  BY <1>3, <1>10
<1>13. CacheKept
  BY <1>2, <1>10, <1>11, <1>12, Zenon DEF CacheKept
<1> QED BY <1>2, <1>8, <1>9, <1>13 DEF Sound

LEMMA LoadStep ==
  ASSUME Laws, SsTableInv, NEW s \in Scan, LoadPage(s)
  PROVE  /\ \E a : Moves(s, a) /\ Sound(a) /\ a.pc \in {"get", "done", "failed"}
         /\ CacheKept /\ file_offset' = file_offset
<1> DEFINE scan == scans[s]
           wanted == WantedPage(scan)
           page == scan.buffer
           b == [scan EXCEPT !.buffer = <<>>]
           a == UsePage(b, page)
           entry == [key |-> wanted, value |-> page]
           after == CachePut(page_cache, wanted, page, page_cache_capacity)
<1>1. /\ IsScan(scan) /\ scan.pc = "load" /\ PagesSorted(pages) /\ (~overlapped => ScanInv(scan))
  BY DEF SsTableInv, TypesInv, LoadPage
<1>2. page_cache' = after /\ Moves(s, a) /\ file_offset' = file_offset
  BY DEF LoadPage, Moves
<1>3. /\ page_cache \in Seq(Entry) /\ Len(page_cache) <= page_cache_capacity
      /\ DistinctKeys(page_cache) /\ (~overlapped => CachedPages(page_cache))
  BY CacheIs
<1>4. /\ Asking(scan) /\ scan.pc # "done" /\ page \in ToSet(pages)
      /\ ~overlapped => Active(scan) /\ page = pages[wanted + 1]
  <2>1. scan.pc \in Getting
    BY <1>1 DEF Getting
  <2>2. page \in ToSet(pages)
    BY <1>1 DEF IsScan
  <2> QED BY <1>1, <2>1, <2>2, GettingIs, Zenon
<1>5. wanted \in 0..(page_count - 1)
  BY <1>4 DEF Asking
<1>6. scan \in ScanState
  BY <1>1 DEF IsScan
<1> HIDE DEF scan
<1>7. SameScan(b, scan) /\ b.pc = "load"
  <2> DEFINE none == <<>>
  <2>1. none \in Seq(Records) /\ b = [scan EXCEPT !.buffer = none]
    OBVIOUS
  <2> HIDE DEF none
  <2> QED BY <1>1, <1>6, <2>1, Zenon DEF SameScan, SameBound, ScanState
<1> HIDE DEF b
<1>8. WantedPage(b) = wanted /\ Asking(b) /\ b.pc # "done" /\ (~overlapped => Active(b))
  <2>1. b.pc # "done"
    BY <1>7
  <2> QED BY <1>4, <1>7, <2>1, SameActive, Zenon
<1>9. IsScan(a) /\ a.pc \in {"get", "done", "failed"}
  BY <1>1, <1>4, <1>8, UsePageTypes
<1> HIDE DEF wanted, page
<1>10. ASSUME ~overlapped PROVE ScanInv(a)
  <2>1. a = UsePage(b, pages[WantedPage(b) + 1])
    BY <1>4, <1>8, <1>10, Zenon
  <2> HIDE DEF a
  <2> QED BY <1>1, <1>8, <1>10, <2>1, UsePageProgress
<1>11. entry \in Entry /\ entry.key = wanted /\ entry.value = page
  BY <1>4, <1>5 DEF Entry
<1>12. /\ after \in Seq(Entry) /\ Len(after) <= page_cache_capacity /\ DistinctKeys(after)
       /\ IsFrom(after, page_cache, entry)
  <2>1. page_cache_capacity \in Nat
    BY SsTableAssumption
  <2> QED BY <1>3, <1>11, <2>1, CachePutKeeps, Zenon
<1> HIDE DEF after, a, entry
<1>13. ~overlapped => CachedPages(after)
  BY <1>3, <1>4, <1>11, <1>12, CachedPagesFrom, Zenon
<1>14. CacheKept
  BY <1>2, <1>12, <1>13, Zenon DEF CacheKept
<1> QED BY <1>2, <1>9, <1>10, <1>14 DEF Sound

-----------------------------------------------------------------------------
\* No scan but s is between its Seek and its Read.
Alone(s) == \A t \in Scan \ {s} : scans[t].pc # "read"

\* What a step has to show for the invariant to hold after it.
LEMMA InvAfter ==
  ASSUME SsTableInv, NEW s \in Scan, NEW a, pages' = pages, scans' = [scans EXCEPT ![s] = a],
         IsScan(a), overlapped' \in BOOLEAN, ~overlapped' => ~overlapped /\ ScanInv(a),
         file_offset' \in 0..page_count, CacheKept,
         ~overlapped' => /\ a.pc = "read" => file_offset' = WantedPage(a) /\ Alone(s)
                         /\ file_offset' = file_offset \/ Alone(s)
  PROVE  SsTableInv'
<1>1. page_count' = page_count
  BY DEF page_count
<1>2. DOMAIN scans = Scan /\ DOMAIN scans' = Scan
  BY DEF SsTableInv, TypesInv
<1>3. scans'[s] = a /\ \A t \in Scan : t # s => scans'[t] = scans[t]
  BY <1>2
<1>4. ASSUME NEW t \in Scan
      PROVE  IsScan(scans[t])' /\ (~overlapped' => ScanInv(scans[t])')
  <2> DEFINE b == scans'[t]
  <2>1. IsScan(b) /\ (~overlapped' => ScanInv(b))
    BY <1>3 DEF SsTableInv, TypesInv
  <2>2. IsScan(scans[t])'
    BY <1>1, <2>1, Zenon DEF IsScan
  <2>3. BoundInv(scans[t])' <=> BoundInv(b)
    BY Zenon DEF BoundInv
  <2>4. OutInv(scans[t])' <=> OutInv(b)
    <3>1. FileRecords' = FileRecords
      BY Zenon DEF FileRecords
    <3> QED BY <3>1, Zenon DEF OutInv
  <2>5. PositionInv(scans[t])' <=> PositionInv(b)
    BY Zenon DEF PositionInv
  <2>6. ASSUME ~overlapped' PROVE ScanInv(scans[t])'
    BY <2>1, <2>3, <2>4, <2>5, <2>6, Zenon DEF ScanInv
  <2> QED BY <2>2, <2>6
<1>5. TypesInv'
  <2>1. PagesSorted(pages)' /\ file_offset' \in 0..page_count'
    BY <1>1 DEF SsTableInv, TypesInv
  <2>2. page_cache' \in Seq([key : 0..(page_count' - 1), value : ToSet(pages')])
    BY <1>1 DEF CacheKept, Entry
  <2> QED BY <1>2, <1>4, <2>1, <2>2 DEF TypesInv
<1>6. CacheConsistent'
  BY DEF CacheKept, CacheConsistent, DistinctKeys
<1>7. ASSUME ~overlapped'
      PROVE  /\ \A i \in DOMAIN page_cache' :
                  page_cache'[i].value = pages'[page_cache'[i].key + 1]
             /\ \A t, u \in Scan : scans'[t].pc = "read" /\ scans'[u].pc = "read" => t = u
             /\ \A t \in Scan : scans'[t].pc = "read" => file_offset' = WantedPage(scans'[t])
  <2>1. \A i \in DOMAIN page_cache' : page_cache'[i].value = pages'[page_cache'[i].key + 1]
    BY <1>7 DEF CacheKept, CachedPages
  <2>2. /\ \A t, u \in Scan : scans[t].pc = "read" /\ scans[u].pc = "read" => t = u
        /\ \A t \in Scan : scans[t].pc = "read" => file_offset = WantedPage(scans[t])
    BY <1>7 DEF SsTableInv
  <2>3. \A t, u \in Scan : scans'[t].pc = "read" /\ scans'[u].pc = "read" => t = u
    BY <1>3, <1>7, <2>2 DEF Alone
  <2>4. \A t \in Scan : scans'[t].pc = "read" => file_offset' = WantedPage(scans'[t])
    BY <1>3, <1>7, <2>2 DEF Alone
  <2> QED BY <2>1, <2>3, <2>4
<1>8. \A t \in Scan : ~overlapped' => ScanInv(scans[t])'
  BY <1>4
<1> QED BY <1>5, <1>6, <1>7, <1>8, Zenon DEF SsTableInv

LEMMA SsTableStep ==
  ASSUME Laws, SsTableInv, [SsTableNext]_ssTableVars
  PROVE  SsTableInv'
<1>0. overlapped \in BOOLEAN /\ file_offset \in 0..page_count /\ \A s \in Scan : IsScan(scans[s])
  BY DEF SsTableInv, TypesInv
<1>1. ASSUME page_cache' = page_cache PROVE CacheKept
  BY <1>1, CacheIs DEF CacheKept
<1>2. ASSUME NEW s \in Scan, NEW a, Moves(s, a), Sound(a), a.pc # "read", CacheKept,
             file_offset' = file_offset
      PROVE  SsTableInv'
  BY <1>0, <1>2, InvAfter, Zenon DEF Moves, Sound
<1>3. ASSUME NEW s \in Scan, NEW range \in Ranges, StartScan(s, range) PROVE SsTableInv'
  <2>1. PICK a : Moves(s, a) /\ Sound(a) /\ a.pc \in {"get", "done"}
    BY <1>3, StartScanStep
  <2>2. a.pc # "read" /\ file_offset' = file_offset /\ CacheKept
    BY <1>1, <1>3, <2>1 DEF StartScan
  <2> QED BY <1>2, <2>1, <2>2, Zenon
<1>4. ASSUME NEW s \in Scan, GetPageHit(s) \/ LoadPage(s) PROVE SsTableInv'
  <2>1. /\ \E a : Moves(s, a) /\ Sound(a) /\ a.pc \in {"get", "done", "failed"}
        /\ CacheKept /\ file_offset' = file_offset
    BY <1>4, HitStep, LoadStep
  <2>2. PICK a : Moves(s, a) /\ Sound(a) /\ a.pc \in {"get", "done", "failed"}
    BY <2>1
  <2>3. a.pc # "read"
    BY <2>2
  <2> QED BY <1>2, <2>1, <2>2, <2>3, Zenon
<1>5. ASSUME NEW s \in Scan, GetPageMiss(s) PROVE SsTableInv'
  <2> DEFINE a == [scans[s] EXCEPT !.pc = "seek"]
  <2>1. scans[s].pc \in Getting
    BY <1>5 DEF GetPageMiss, Getting
  <2>2. Sound(a)
    BY <2>1, PcStep, Zenon
  <2>3. scans' = [scans EXCEPT ![s] = a] /\ pages' = pages /\ overlapped' = overlapped
        /\ page_cache' = page_cache /\ file_offset' = file_offset
    BY <1>5 DEF GetPageMiss
  <2>4. a.pc = "seek"
    BY <1>0 DEF IsScan, ScanState
  <2> HIDE DEF a
  <2>5. Moves(s, a) /\ a.pc # "read" /\ CacheKept
    BY <1>1, <2>3, <2>4 DEF Moves
  <2> QED BY <1>2, <2>2, <2>3, <2>5, Zenon
<1>6. ASSUME NEW s \in Scan, Seek(s) PROVE SsTableInv'
  <2> DEFINE a == [scans[s] EXCEPT !.pc = "read"]
  <2>1. scans[s].pc \in Getting
    BY <1>6 DEF Seek, Getting
  <2>2. Sound(a) /\ WantedPage(a) = WantedPage(scans[s])
    BY <2>1, PcStep, Zenon
  <2>3. scans' = [scans EXCEPT ![s] = a] /\ pages' = pages /\ page_cache' = page_cache
        /\ file_offset' = WantedPage(scans[s]) /\ overlapped' = (overlapped \/ ~Alone(s))
    BY <1>6 DEF Seek, Alone
  <2> HIDE DEF a
  <2>4. overlapped' \in BOOLEAN /\ (~overlapped' => ~overlapped /\ Alone(s))
    BY <2>3, Zenon
  <2>5. file_offset' \in 0..page_count
    <3>1. WantedPage(scans[s]) \in 0..(page_count - 1) /\ page_count \in Nat
      BY <1>0, <2>1, GettingIs DEF Asking, SsTableInv, TypesInv, PagesSorted, page_count
    <3> HIDE DEF page_count
    <3> QED BY <2>3, <3>1
  <2>6. CacheKept
    BY <1>1, <2>3
  <2> QED BY <2>2, <2>3, <2>4, <2>5, <2>6, InvAfter, Zenon DEF Sound
<1>7. ASSUME NEW s \in Scan, ReadPage(s) PROVE SsTableInv'
  <2>1. PICK a : Moves(s, a) /\ Sound(a) /\ a.pc \in {"load", "failed"}
    BY <1>7, ReadStep
  <2>2. a.pc # "read" /\ CacheKept /\ file_offset' \in 0..page_count
    BY <1>1, <1>7, <2>1, ReadStep DEF ReadPage
  <2>3. ~overlapped => Alone(s)
    BY <1>7 DEF ReadPage, Alone, SsTableInv
  <2> QED BY <1>0, <2>1, <2>2, <2>3, InvAfter, Zenon DEF Moves, Sound
<1>8. ASSUME UNCHANGED ssTableVars PROVE SsTableInv'
  <2>1. /\ pages' = pages /\ file_offset' = file_offset /\ page_cache' = page_cache
        /\ scans' = scans /\ overlapped' = overlapped
    BY <1>8 DEF ssTableVars
  <2>2. page_count' = page_count /\ FileRecords' = FileRecords
    BY <2>1 DEF page_count, FileRecords
  <2>3. ASSUME NEW s \in Scan
        PROVE  (IsScan(scans[s])' <=> IsScan(scans[s])) /\ (ScanInv(scans[s])' <=> ScanInv(scans[s]))
    <3>1. IsScan(scans[s])' <=> IsScan(scans[s])
      BY <2>1, <2>2, Zenon DEF IsScan
    <3>2. /\ BoundInv(scans[s])' <=> BoundInv(scans[s])
          /\ PositionInv(scans[s])' <=> PositionInv(scans[s])
      BY <2>1, Zenon DEF BoundInv, PositionInv
    <3>3. OutInv(scans[s])' <=> OutInv(scans[s])
      BY <2>1, <2>2, Zenon DEF OutInv
    <3> QED BY <2>1, <3>1, <3>2, <3>3, Zenon DEF ScanInv
  <2>4. TypesInv'
    BY <2>1, <2>2, <2>3, Zenon DEF SsTableInv, TypesInv
  <2>5. CacheConsistent'
    BY <2>1, Zenon DEF SsTableInv, CacheConsistent
  <2> QED BY <2>1, <2>3, <2>4, <2>5, Zenon DEF SsTableInv
<1> QED BY <1>3, <1>4, <1>5, <1>6, <1>7, <1>8, Zenon DEF SsTableNext, ScanStep

LEMMA SsTableStarts == ASSUME Laws, SsTableInit PROVE SsTableInv
<1>1. PICK recs \in SUBSET Records : pages = BuildPages(recs)
  BY DEF SsTableInit
<1>2. PagesSorted(pages)
  BY <1>1, PagesBuilt
<1>3. page_count \in Nat
  BY <1>2 DEF PagesSorted, page_count
<1>4. NewScan \in ScanState /\ NewScan.lo = 0 /\ NewScan.hi = 0 /\ NewScan.pc = "idle"
  <2>1. <<>> \in Seq(Records)
    OBVIOUS
  <2> QED BY <2>1 DEF NewScan, ScanState
<1>5. \A s \in Scan : scans[s] = NewScan
  BY DEF SsTableInit
<1>6. IsScan(NewScan) /\ ScanInv(NewScan)
  <2> HIDE DEF page_count
  <2> QED BY <1>3, <1>4 DEF IsScan, ScanInv
<1>7. TypesInv
  <2>1. page_cache \in Seq([key : 0..(page_count - 1), value : ToSet(pages)])
    BY DEF SsTableInit
  <2>2. DOMAIN scans = Scan /\ overlapped \in BOOLEAN
    BY Zenon DEF SsTableInit
  <2>3. file_offset \in 0..page_count
    <3> HIDE DEF page_count
    <3> QED BY <1>3 DEF SsTableInit
  <2>4. \A s \in Scan : IsScan(scans[s])
    BY <1>5, <1>6, Zenon
  <2> QED BY <1>2, <2>1, <2>2, <2>3, <2>4, Zenon DEF TypesInv
<1>8. CacheConsistent
  BY SsTableAssumption DEF CacheConsistent, SsTableInit
<1>9. DOMAIN page_cache = {}
  BY DEF SsTableInit
<1> QED BY <1>4, <1>5, <1>6, <1>7, <1>8, <1>9 DEF SsTableInv

-----------------------------------------------------------------------------
\* The laws of numbers and finite sets hold.
INSTANCE OrderFacts

\* The invariant of a table with any number of scans that share its reader and cache.
THEOREM SsTableInvariant == SsTableSpec => []SsTableInv
BY SsTableStarts, SsTableStep, LawsHold, PTL DEF SsTableSpec

\* Types: every page a scan asks for is in the file, and its binary search stays in it,
\* also when scans overlap and read pages that they did not ask for.
THEOREM SsTableTypes == SsTableSpec => []SsTableTypeOK
<1>1. SsTableInv => SsTableTypeOK
  <2> SUFFICES ASSUME TypesInv PROVE SsTableTypeOK
    BY DEF SsTableInv
  <2>1. ASSUME NEW p \in DOMAIN pages PROVE pages[p] # <<>> /\ ToSet(pages[p]) \subseteq Records
    BY RecordIs DEF TypesInv, PagesSorted, ToSet
  <2>2. ASSUME NEW s \in Scan
        PROVE  /\ scans[s].pc \in {"idle", "get", "seek", "read", "load", "done", "failed"}
               /\ scans[s].phase \in {"bound", "find", "next"}
               /\ 0 <= scans[s].lo /\ scans[s].lo <= scans[s].hi /\ scans[s].hi <= page_count
               /\ scans[s].pc = "get" => WantedPage(scans[s]) \in 0..(page_count - 1)
    BY DEF TypesInv, IsScan, ScanState
  <2> QED BY <2>1, <2>2 DEF SsTableTypeOK, TypesInv
<1> QED BY <1>1, SsTableInvariant, PTL

\* lru_cache.hpp:47: the page cache stays within its capacity and holds no key twice.
THEOREM CacheConsistentAlways == SsTableSpec => []CacheConsistent
<1>1. SsTableInv => CacheConsistent
  BY DEF SsTableInv
<1> QED BY <1>1, SsTableInvariant, PTL

\* ss_table.hpp:25 and :57: as long as no Seek comes between another one and its Read,
\* GetPage returns the page of its number and every scan hands out exactly the records of
\* its range, in order.
THEOREM SerialScansExactAlways == SsTableSpec => []SerialScansExact
<1>1. SsTableInv => SerialScansExact
  <2> SUFFICES ASSUME SsTableInv, ~overlapped
               PROVE  /\ PageByNumber
                      /\ \A s \in Scan :
                           /\ scans[s].pc # "failed"
                           /\ scans[s].pc = "done" =>
                                /\ ToSet(scans[s].out) =
                                     {r \in FileRecords : InRange(r, scans[s].range)}
                                /\ \A i, j \in DOMAIN scans[s].out :
                                     i < j => Before(scans[s].out[i], scans[s].out[j])
    BY DEF SerialScansExact
  <2>1. \A s \in Scan : ScanInv(scans[s])
    BY DEF SsTableInv
  <2>2. PageByNumber
    BY <2>1 DEF PageByNumber, SsTableInv, ScanInv
  <2>3. ASSUME NEW s \in Scan, scans[s].pc = "done"
        PROVE  ToSet(scans[s].out) = {r \in FileRecords : InRange(r, scans[s].range)}
    <3>1. OutInv(scans[s])
      BY <2>1, <2>3 DEF ScanInv
    <3>2. ASSUME NEW r \in FileRecords
          PROVE  r \in ToSet(scans[s].out) <=> InRange(r, scans[s].range)
      <4>1. PICK p \in DOMAIN pages : r \in ToSet(pages[p])
        BY DEF FileRecords
      <4>2. PICK i \in DOMAIN pages[p] : r = pages[p][i]
        BY <4>1 DEF ToSet
      <4> QED BY <2>3, <3>1, <4>2, Zenon DEF OutInv
    <3> QED BY <3>1, <3>2, Zenon DEF OutInv
  <2>4. \A s \in Scan : scans[s].pc # "failed"
    BY <2>1 DEF ScanInv
  <2>5. ASSUME NEW s \in Scan, scans[s].pc = "done"
        PROVE  \A i, j \in DOMAIN scans[s].out : i < j => Before(scans[s].out[i], scans[s].out[j])
    BY <2>1, <2>5 DEF ScanInv, OutInv
  <2> QED BY <2>2, <2>3, <2>4, <2>5, Zenon
<1> QED BY <1>1, SsTableInvariant, PTL
=============================================================================

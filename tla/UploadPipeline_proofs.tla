----------------------- MODULE UploadPipeline_proofs ------------------------
(***************************************************************************)
(* Proofs about UploadPipeline: what tasks have written, and in which      *)
(* order, for any number of uploads, overlapping tasks and faults.         *)
(***************************************************************************)
EXTENDS UploadPipeline, TLAPS

LOCAL INSTANCE SequenceTheorems

-----------------------------------------------------------------------------
(* The script of a materialization.                                        *)

\* A function on 1..n is a sequence of length n.
LEMMA FunctionIsSeq ==
  ASSUME NEW S, NEW n \in Nat, NEW f \in [1 .. n -> S]
  PROVE  f \in Seq(S) /\ Len(f) = n
  <1>1. f \in Seq(S)
    BY SeqDef
  <1>2. DOMAIN f = 1 .. Len(f) /\ Len(f) \in Nat
    BY <1>1, LenProperties
  <1> QED BY <1>1, <1>2

\* Where the elements of two sequences are in their concatenation.
LEMMA TwoParts ==
  ASSUME NEW S, NEW p \in Seq(S), NEW q \in Seq(S)
  PROVE  /\ p \o q \in Seq(S)
         /\ Len(p \o q) = Len(p) + Len(q)
         /\ \A i \in 1 .. Len(p) : (p \o q)[i] = p[i]
         /\ \A i \in 1 .. Len(q) : (p \o q)[Len(p) + i] = q[i]
  <1> DEFINE w == p \o q
  <1>1. Len(p) \in Nat /\ Len(q) \in Nat
    BY LenProperties
  <1>2. /\ w \in Seq(S) /\ Len(w) = Len(p) + Len(q)
        /\ \A i \in 1 .. Len(p) + Len(q) : w[i] = IF i <= Len(p) THEN p[i] ELSE q[i - Len(p)]
    BY ConcatProperties
  <1> HIDE DEF w
  <1>3. \A i \in 1 .. Len(p) : w[i] = p[i]
    BY <1>1, <1>2
  <1>4. ASSUME NEW i \in 1 .. Len(q) PROVE w[Len(p) + i] = q[i]
    <2>1. Len(p) + i \in 1 .. Len(p) + Len(q) /\ ~(Len(p) + i <= Len(p)) /\ (Len(p) + i) - Len(p) = i
      BY <1>1
    <2> QED BY <1>2, <2>1
  <1> QED BY <1>2, <1>3, <1>4 DEF w

\* Where the elements of four sequences are in their concatenation.
LEMMA FourParts ==
  ASSUME NEW S, NEW p \in Seq(S), NEW q \in Seq(S), NEW r \in Seq(S), NEW t \in Seq(S),
         NEW w, w = p \o q \o r \o t
  PROVE  /\ Len(w) = Len(p) + Len(q) + Len(r) + Len(t)
         /\ DOMAIN w = 1 .. Len(w)
         /\ \A i \in 1 .. Len(p) : w[i] = p[i]
         /\ \A i \in 1 .. Len(q) : w[Len(p) + i] = q[i]
         /\ \A i \in 1 .. Len(r) : w[Len(p) + Len(q) + i] = r[i]
         /\ \A i \in 1 .. Len(t) : w[Len(p) + Len(q) + Len(r) + i] = t[i]
  <1> DEFINE pq == p \o q
             pqr == pq \o r
  <1>a. w = pqr \o t
    OBVIOUS
  <1>0. Len(p) \in Nat /\ Len(q) \in Nat /\ Len(r) \in Nat /\ Len(t) \in Nat
    BY LenProperties
  <1>1. /\ pq \in Seq(S) /\ Len(pq) = Len(p) + Len(q)
        /\ \A i \in 1 .. Len(p) : pq[i] = p[i]
        /\ \A i \in 1 .. Len(q) : pq[Len(p) + i] = q[i]
    BY TwoParts
  <1>2. pq \in Seq(S)
    BY <1>1
  <1> HIDE DEF pq
  <1>3. /\ pqr \in Seq(S) /\ Len(pqr) = Len(pq) + Len(r)
        /\ \A i \in 1 .. Len(pq) : pqr[i] = pq[i]
        /\ \A i \in 1 .. Len(r) : pqr[Len(pq) + i] = r[i]
    BY <1>2, TwoParts
  <1>4. pqr \in Seq(S)
    BY <1>3
  <1> HIDE DEF pqr
  <1>5. /\ w \in Seq(S) /\ Len(w) = Len(pqr) + Len(t)
        /\ \A i \in 1 .. Len(pqr) : w[i] = pqr[i]
        /\ \A i \in 1 .. Len(t) : w[Len(pqr) + i] = t[i]
    BY <1>4, <1>a, TwoParts
  <1>6. DOMAIN w = 1 .. Len(w)
    BY <1>5, LenProperties
  <1>7. Len(pq) = Len(p) + Len(q) /\ Len(pqr) = Len(p) + Len(q) + Len(r)
    BY <1>0, <1>1, <1>3
  <1>8. \A i \in 1 .. Len(p) : w[i] = p[i]
    BY <1>0, <1>1, <1>3, <1>5, <1>7
  <1>9. ASSUME NEW i \in 1 .. Len(q) PROVE w[Len(p) + i] = q[i]
    <2>1. Len(p) + i \in 1 .. Len(pq) /\ Len(p) + i \in 1 .. Len(pqr)
      BY <1>0, <1>7
    <2> QED BY <1>1, <1>3, <1>5, <2>1
  <1>10. ASSUME NEW i \in 1 .. Len(r) PROVE w[Len(p) + Len(q) + i] = r[i]
    <2>1. Len(pq) + i \in 1 .. Len(pqr) /\ Len(p) + Len(q) + i = Len(pq) + i
      BY <1>0, <1>7
    <2> QED BY <1>3, <1>5, <2>1
  <1>11. ASSUME NEW i \in 1 .. Len(t) PROVE w[Len(p) + Len(q) + Len(r) + i] = t[i]
    <2>1. Len(p) + Len(q) + Len(r) + i = Len(pqr) + i
      BY <1>0, <1>7
    <2> QED BY <1>5, <2>1
  <1>12. Len(w) = Len(p) + Len(q) + Len(r) + Len(t)
    BY <1>5, <1>7
  <1> QED BY <1>6, <1>8, <1>9, <1>10, <1>11, <1>12

ChunkItem(j, i) == Item(IF i % 2 = 1 THEN "node" ELSE "relation", j, (i + 1) \div 2)

\* What is written at each position, by the number of chunks.
LEMMA ScriptShape ==
  ASSUME NEW j \in Jobs
  PROVE  LET n == Chunks[j] IN
         /\ n \in 0 .. 16
         /\ Len(Script(j)) = 3 * n + 2
         /\ DOMAIN Script(j) = 1 .. 3 * n + 2
         /\ \A c \in 1 .. n : Script(j)[c] = Item("evidence", j, c)
         /\ Script(j)[n + 1] = Item("source", j, 0)
         /\ \A i \in 1 .. 2 * n : Script(j)[n + 1 + i] = ChunkItem(j, i)
         /\ Script(j)[3 * n + 2] = Item("claim", j, 1)
  <1> DEFINE n == Chunks[j]
             chunks == [c \in 1 .. n |-> Item("evidence", j, c)]
             source == <<Item("source", j, 0)>>
             links == [i \in 1 .. 2 * n |-> ChunkItem(j, i)]
             claim == <<Item("claim", j, 1)>>
             S == [kind : {"evidence", "source", "node", "relation", "claim"}, job : Jobs, chunk : Int]
  <1>1. n \in 0 .. 16
    BY ChunksAssumption
  <1>2. chunks \in Seq(S) /\ Len(chunks) = n
    <2>1. chunks \in [1 .. n -> S]
      BY <1>1 DEF Item
    <2>2. n \in Nat
      BY <1>1
    <2> HIDE DEF chunks, S, n
    <2> QED BY <2>1, <2>2, FunctionIsSeq
  <1>3. source \in Seq(S) /\ Len(source) = 1
    <2>1. Item("source", j, 0) \in S
      BY DEF Item
    <2> HIDE DEF S
    <2> QED BY <2>1
  <1>4. links \in Seq(S) /\ Len(links) = 2 * n
    <2>1. links \in [1 .. 2 * n -> S]
      BY <1>1 DEF Item, ChunkItem
    <2>2. 2 * n \in Nat
      BY <1>1
    <2> HIDE DEF links, S
    <2> QED BY <2>1, <2>2, FunctionIsSeq
  <1>5. claim \in Seq(S) /\ Len(claim) = 1
    <2>1. Item("claim", j, 1) \in S
      BY DEF Item
    <2> HIDE DEF S
    <2> QED BY <2>1
  <1>6. Script(j) = chunks \o source \o links \o claim
    BY DEF Script, ChunkItem
  <1>a. \A c \in 1 .. n : chunks[c] = Item("evidence", j, c)
    OBVIOUS
  <1>b. source[1] = Item("source", j, 0) /\ claim[1] = Item("claim", j, 1)
    OBVIOUS
  <1>c. \A i \in 1 .. 2 * n : links[i] = ChunkItem(j, i)
    OBVIOUS
  <1> HIDE DEF n, chunks, source, links, claim, S
  <1>7. /\ Len(Script(j)) = n + 1 + 2 * n + 1
        /\ DOMAIN Script(j) = 1 .. Len(Script(j))
        /\ \A i \in 1 .. n : Script(j)[i] = chunks[i]
        /\ \A i \in 1 .. 1 : Script(j)[n + i] = source[i]
        /\ \A i \in 1 .. 2 * n : Script(j)[n + 1 + i] = links[i]
        /\ \A i \in 1 .. 1 : Script(j)[n + 1 + 2 * n + i] = claim[i]
    <2> DEFINE w == Script(j)
    <2>0. chunks \in Seq(S) /\ source \in Seq(S) /\ links \in Seq(S) /\ claim \in Seq(S)
      BY <1>2, <1>3, <1>4, <1>5
    <2>1. /\ Len(w) = Len(chunks) + Len(source) + Len(links) + Len(claim)
          /\ DOMAIN w = 1 .. Len(w)
          /\ \A i \in 1 .. Len(chunks) : w[i] = chunks[i]
          /\ \A i \in 1 .. Len(source) : w[Len(chunks) + i] = source[i]
          /\ \A i \in 1 .. Len(links) : w[Len(chunks) + Len(source) + i] = links[i]
          /\ \A i \in 1 .. Len(claim) : w[Len(chunks) + Len(source) + Len(links) + i] = claim[i]
      BY <1>6, <2>0, FourParts
    <2> QED BY <1>2, <1>3, <1>4, <1>5, <2>1
  <1>8. Script(j)[n + 1] = source[1] /\ Script(j)[3 * n + 2] = claim[1]
    <2>1. Script(j)[n + 1] = source[1] /\ Script(j)[n + 1 + 2 * n + 1] = claim[1]
      <3>1. 1 \in 1 .. 1
        OBVIOUS
      <3> QED BY <1>7, <3>1
    <2>2. n + 1 + 2 * n + 1 = 3 * n + 2
      BY <1>1
    <2> QED BY <2>1, <2>2
  <1>9. /\ Len(Script(j)) = 3 * n + 2
        /\ DOMAIN Script(j) = 1 .. 3 * n + 2
    BY <1>1, <1>7
  <1>10. \A c \in 1 .. n : Script(j)[c] = Item("evidence", j, c)
    BY <1>7, <1>a
  <1>11. \A i \in 1 .. 2 * n : Script(j)[n + 1 + i] = ChunkItem(j, i)
    BY <1>7, <1>c
  <1> QED BY <1>1, <1>8, <1>9, <1>10, <1>11, <1>b DEF n

\* Halves of even numbers, as the script's chunk numbers use them.
LEMMA EvenHalf ==
  ASSUME NEW k \in Nat, k % 2 # 1
  PROVE  k = 2 * ((k + 1) \div 2)
  OBVIOUS

\* The chunk of a position lies among the chunks.
LEMMA HalfInRange ==
  ASSUME NEW n \in Nat, NEW k \in 1 .. 2 * n
  PROVE  (k + 1) \div 2 \in 1 .. n
  OBVIOUS

\* The position before an even one is that of the same chunk's node.
LEMMA BeforeEven ==
  ASSUME NEW c \in Nat \ {0}
  PROVE  (2 * c - 1) % 2 = 1 /\ (2 * c) \div 2 = c
  OBVIOUS

\* The position at which an item is written.
At(i) ==
  LET n == Chunks[i.job] IN
  CASE i.kind = "evidence" -> i.chunk
    [] i.kind = "source" -> n + 1
    [] i.kind = "node" -> n + 2 * i.chunk
    [] i.kind = "relation" -> n + 1 + 2 * i.chunk
    [] i.kind = "claim" -> 3 * n + 2

\* No item is written at two positions.
LEMMA PositionOfItem ==
  ASSUME NEW j \in Jobs, NEW p \in DOMAIN Script(j)
  PROVE  /\ Script(j)[p].job = j
         /\ At(Script(j)[p]) = p
         /\ Script(j)[p].kind = "evidence" <=> p <= Chunks[j]
         /\ Script(j)[p].kind = "source" <=> p = Chunks[j] + 1
  <1> DEFINE n == Chunks[j]
  <1>1. /\ n \in 0 .. 16
        /\ p \in 1 .. 3 * n + 2
        /\ \A c \in 1 .. n : Script(j)[c] = Item("evidence", j, c)
        /\ Script(j)[n + 1] = Item("source", j, 0)
        /\ \A i \in 1 .. 2 * n : Script(j)[n + 1 + i] = ChunkItem(j, i)
        /\ Script(j)[3 * n + 2] = Item("claim", j, 1)
    BY ScriptShape
  <1> HIDE DEF n
  <1>2. CASE p \in 1 .. n
    <2>1. Script(j)[p] = Item("evidence", j, p)
      BY <1>1, <1>2
    <2> QED BY <1>1, <1>2, <2>1 DEF Item, At, n
  <1>3. CASE p = n + 1
    <2>1. Script(j)[p] = Item("source", j, 0)
      BY <1>1, <1>3
    <2> QED BY <1>1, <1>3, <2>1 DEF Item, At, n
  <1>4. CASE p \in n + 2 .. 3 * n + 1
    <2> DEFINE i == p - (n + 1)
               c == (i + 1) \div 2
    <2>1. i \in 1 .. 2 * n /\ p = n + 1 + i
      BY <1>1, <1>4
    <2>2. Script(j)[p] = ChunkItem(j, i)
      BY <1>1, <2>1
    <2>3. CASE i % 2 = 1
      <3>1. Script(j)[p] = Item("node", j, c)
        BY <2>2, <2>3 DEF ChunkItem
      <3>2. n + 2 * c = p
        BY <1>1, <2>1, <2>3
      <3> HIDE DEF c
      <3> QED BY <1>1, <1>4, <3>1, <3>2 DEF Item, At, n
    <2>4. CASE i % 2 # 1
      <3>1. Script(j)[p] = Item("relation", j, c)
        BY <2>2, <2>4 DEF ChunkItem
      <3>2. n + 1 + 2 * c = p
        BY <1>1, <2>1, <2>4
      <3> HIDE DEF c
      <3> QED BY <1>1, <1>4, <3>1, <3>2 DEF Item, At, n
    <2> QED BY <2>3, <2>4
  <1>5. CASE p = 3 * n + 2
    <2>1. Script(j)[p] = Item("claim", j, 1)
      BY <1>1, <1>5
    <2>2. p # n + 1 /\ ~(p <= n)
      BY <1>1, <1>5
    <2> QED BY <1>1, <1>5, <2>1, <2>2 DEF Item, At, n
  <1> QED BY <1>1, <1>2, <1>3, <1>4, <1>5

\* An item is written by its own job, at its position.
LEMMA ItemIsAtItsPosition ==
  ASSUME NEW i \in Items
  PROVE  i.job \in Jobs /\ At(i) \in DOMAIN Script(i.job) /\ Script(i.job)[At(i)] = i
  <1>1. PICK j \in Jobs : i \in Written(j)
    BY DEF Items
  <1>2. PICK p \in DOMAIN Script(j) : i = Script(j)[p]
    BY <1>1 DEF Written
  <1> QED BY <1>2, PositionOfItem

\* Every position of a script holds an item.
LEMMA PositionsHoldItems ==
  ASSUME NEW j \in Jobs, NEW p \in DOMAIN Script(j)
  PROVE  Script(j)[p] \in Items
  BY DEF Items, Written

\* What a graph row rests on is written before it: a relation's ends, the
\* evidence of a node or a claim, all evidence before the source.
LEMMA RestsOnEarlier ==
  ASSUME NEW i \in GraphIds, NEW j, j = i.job, NEW n, n = Chunks[j], n > 0,
         NEW p, p = At(i)
  PROVE  LET Before(k) == \E q \in 1 .. p - 1 : Script(j)[q] = k IN
         /\ i.kind = "relation" =>
              Before(Item("source", j, 0)) /\ Before(Item("node", j, i.chunk))
         /\ i.kind \in {"node", "claim"} => Before(Item("evidence", j, i.chunk))
         /\ i.kind = "source" => \A c \in 1 .. n : Before(Item("evidence", j, c))
  <1>1. i \in Items /\ j \in Jobs /\ p \in DOMAIN Script(j) /\ Script(j)[p] = i
    BY ItemIsAtItsPosition DEF GraphIds
  <1>2. /\ n \in 1 .. 16
        /\ p \in 1 .. 3 * n + 2
        /\ \A c \in 1 .. n : Script(j)[c] = Item("evidence", j, c)
        /\ Script(j)[n + 1] = Item("source", j, 0)
        /\ \A k \in 1 .. 2 * n : Script(j)[n + 1 + k] = ChunkItem(j, k)
        /\ Script(j)[3 * n + 2] = Item("claim", j, 1)
    <2>1. /\ Chunks[j] \in 0 .. 16
          /\ DOMAIN Script(j) = 1 .. 3 * Chunks[j] + 2
          /\ \A c \in 1 .. Chunks[j] : Script(j)[c] = Item("evidence", j, c)
          /\ Script(j)[Chunks[j] + 1] = Item("source", j, 0)
          /\ \A k \in 1 .. 2 * Chunks[j] : Script(j)[Chunks[j] + 1 + k] = ChunkItem(j, k)
          /\ Script(j)[3 * Chunks[j] + 2] = Item("claim", j, 1)
      BY <1>1, ScriptShape
    <2> QED BY <1>1, <2>1
  <1>4. CASE p \in 1 .. n
    <2>1. i.kind = "evidence"
      <3>1. i = Item("evidence", j, p)
        BY <1>1, <1>2, <1>4
      <3> QED BY <3>1 DEF Item
    <2> QED BY <1>1, <2>1 DEF GraphIds, Evidence
  <1>5. CASE p = n + 1
    <2>1. i.kind = "source"
      BY <1>1, <1>2, <1>5 DEF Item
    <2>2. ASSUME NEW c \in 1 .. n PROVE c \in 1 .. p - 1 /\ Script(j)[c] = Item("evidence", j, c)
      BY <1>2, <1>5
    <2> QED BY <2>1, <2>2
  <1>6. CASE p \in n + 2 .. 3 * n + 1
    <2> DEFINE k == p - (n + 1)
               c == (k + 1) \div 2
    <2>1. k \in 1 .. 2 * n /\ p = n + 1 + k /\ i = ChunkItem(j, k)
      BY <1>1, <1>2, <1>6
    <2> HIDE DEF k
    <2>2. c \in 1 .. n /\ i.chunk = c
      <3>1. c \in 1 .. n
        <4>1. n \in Nat
          BY <1>2
        <4> QED BY <2>1, <4>1, HalfInRange
      <3>2. i.chunk = (k + 1) \div 2
        BY <2>1 DEF ChunkItem, Item
      <3> QED BY <3>1, <3>2
    <2>3. CASE k % 2 = 1
      <3>1. i.kind = "node"
        BY <2>1, <2>3 DEF ChunkItem, Item
      <3>2. c \in 1 .. p - 1 /\ Script(j)[c] = Item("evidence", j, c)
        BY <1>2, <1>6, <2>2
      <3> QED BY <2>2, <3>1, <3>2
    <2>4. CASE k % 2 # 1
      <3>1. i.kind = "relation"
        BY <2>1, <2>4 DEF ChunkItem, Item
      <3>2. n + 1 \in 1 .. p - 1
        BY <1>2, <1>6
      <3>a. k = 2 * c
        <4>1. k \in Nat
          BY <1>2, <2>1
        <4> QED BY <2>4, <4>1, EvenHalf
      <3>b. k - 1 = 2 * c - 1 /\ (2 * c - 1) % 2 = 1 /\ (k - 1) + 1 = 2 * c /\ (2 * c) \div 2 = c
        <4>1. c \in Nat \ {0} /\ k \in Int
          BY <1>2, <2>1, <2>2
        <4>2. k - 1 = 2 * c - 1 /\ (k - 1) + 1 = 2 * c
          BY <3>a, <4>1
        <4> HIDE DEF c
        <4> QED BY <4>1, <4>2, BeforeEven
      <3>3. k - 1 \in 1 .. 2 * n /\ (k - 1) % 2 = 1 /\ ((k - 1) + 1) \div 2 = c
        <4> HIDE DEF c
        <4> QED BY <1>2, <2>1, <2>2, <3>a, <3>b
      <3>4. Script(j)[n + 1 + (k - 1)] = Item("node", j, c)
        BY <1>2, <3>3 DEF ChunkItem
      <3>5. n + 1 + (k - 1) \in 1 .. p - 1
        <4> HIDE DEF c
        <4> QED BY <1>2, <2>1, <2>2, <3>a
      <3> QED BY <1>2, <2>2, <3>1, <3>2, <3>4, <3>5
    <2> QED BY <2>3, <2>4
  <1>7. CASE p = 3 * n + 2
    <2>1. i = Item("claim", j, 1)
      BY <1>1, <1>2, <1>7
    <2>2. 1 \in 1 .. p - 1 /\ Script(j)[1] = Item("evidence", j, 1)
      BY <1>2, <1>7
    <2> QED BY <2>1, <2>2 DEF Item
  <1> QED BY <1>2, <1>4, <1>5, <1>6, <1>7

-----------------------------------------------------------------------------
(* Types, and what tasks know of the table.                                *)

LeasesKnown ==
  /\ issued \in Nat
  /\ leases \subseteq Table!Lease
  /\ \A t \in tasks : t.lease \in leases

\* The jobs variable keeps one row per job.
OneRowPerJob == jobs = [j \in Jobs |-> jobs[j]]

\* A claim hands out a well-formed lease, or none.
LEMMA ClaimLeases ==
  ASSUME LeasesKnown, NEW j \in Jobs, Table!ClaimImportJobById(j, Owner)
  PROVE  /\ issued' \in Nat
         /\ leases' \subseteq Table!Lease
         /\ leases \subseteq leases'
  <1>1. CASE Table!Grant(Table!FinalizeExhausted({j}), j, Owner)
    <2>1. issued' = issued + 1
      BY <1>1 DEF Table!Grant
    <2>2. leases' = leases \cup {[job |-> j, owner |-> Owner, token |-> issued + 1]}
      BY <1>1 DEF Table!Grant
    <2>3. [job |-> j, owner |-> Owner, token |-> issued + 1] \in Table!Lease
      BY DEF Table!Lease, LeasesKnown
    <2> QED BY <2>1, <2>2, <2>3 DEF LeasesKnown
  <1>2. CASE UNCHANGED <<now, issued, leases, settledBy>>
    BY <1>2 DEF LeasesKnown
  <1> QED BY <1>1, <1>2 DEF Table!ClaimImportJobById

\* Steps of one task change its place in the script, or end it.
TaskSteps(t) ==
  ReadBlob(t) \/ WriteEvidence(t) \/ ReadClock(t) \/ WriteGraph(t)
    \/ LoseInsertRace(t) \/ MeetOutage(t)

\* A task goes on with the lease it has, and where it goes is well typed.
LEMMA TaskStepTypes ==
  ASSUME TypeOK, LeasesKnown, NEW t \in tasks, TaskSteps(t)
  PROVE  \E u \in Task : /\ tasks' = (tasks \ {t}) \cup {u}
                         /\ u.lease = t.lease
                         /\ u.next <= Len(Script(u.lease.job)) + 1
  <1>1. /\ t \in Task /\ t.lease \in Table!Lease /\ t.lease.job \in Jobs
        /\ t.next \in Nat
    BY DEF TypeOK, Task, LeasesKnown, Table!Lease
  <1>2. /\ Len(Script(t.lease.job)) \in Nat
        /\ DOMAIN Script(t.lease.job) = 1 .. Len(Script(t.lease.job))
        /\ t.next <= Len(Script(t.lease.job)) + 1
    BY <1>1, ScriptShape DEF TypeOK
  <1>3. /\ [t EXCEPT !.error = "content"] \in Task
        /\ [t EXCEPT !.error = "conflict"] \in Task
        /\ [t EXCEPT !.error = "outage"] \in Task
        /\ [t EXCEPT !.next = 1] \in Task
        /\ [t EXCEPT !.next = t.next + 1] \in Task
        /\ \A v \in 1 .. MaxVersion : [t EXCEPT !.version = v] \in Task
    BY <1>1, BoundsAssumption DEF Task
  <1>4. /\ \A e : /\ [t EXCEPT !.error = e].lease = t.lease
                  /\ [t EXCEPT !.error = e].next = t.next
        /\ \A e : /\ [t EXCEPT !.next = e].lease = t.lease
                  /\ [t EXCEPT !.next = e].next = e
        /\ \A e : /\ [t EXCEPT !.version = e].lease = t.lease
                  /\ [t EXCEPT !.version = e].next = t.next
    BY <1>1 DEF Task
  <1>5. ASSUME NEW u \in Task, Becomes(t, u), u.lease = t.lease,
               u.next <= Len(Script(t.lease.job)) + 1
        PROVE  \E w \in Task : /\ tasks' = (tasks \ {t}) \cup {w}
                               /\ w.lease = t.lease
                               /\ w.next <= Len(Script(w.lease.job)) + 1
    BY <1>5 DEF Becomes
  <1>6. CASE ReadBlob(t)
    <2>1. CASE Becomes(t, [t EXCEPT !.next = 1])
      <3> DEFINE u == [t EXCEPT !.next = 1]
      <3>1. u \in Task /\ u.lease = t.lease /\ u.next = 1
        BY <1>3, <1>4
      <3>2. 1 <= Len(Script(t.lease.job)) + 1
        BY <1>2
      <3> HIDE DEF u
      <3>3. Becomes(t, u)
        BY <2>1 DEF u
      <3> QED BY <1>5, <3>1, <3>2, <3>3
    <2>2. CASE Becomes(t, [t EXCEPT !.error = "content"])
      BY <1>2, <1>3, <1>4, <1>5, <2>2
    <2> QED BY <1>6, <2>1, <2>2 DEF ReadBlob
  <1>7. ASSUME AtWrite(t), Becomes(t, [t EXCEPT !.next = t.next + 1])
        PROVE  \E w \in Task : /\ tasks' = (tasks \ {t}) \cup {w}
                               /\ w.lease = t.lease
                               /\ w.next <= Len(Script(w.lease.job)) + 1
    <2>1. t.next + 1 <= Len(Script(t.lease.job)) + 1
      BY <1>1, <1>2, <1>7 DEF AtWrite
    <2> QED BY <1>3, <1>4, <1>5, <1>7, <2>1
  <1>8. CASE WriteEvidence(t)
    BY <1>7, <1>8 DEF WriteEvidence
  <1>9. CASE ReadClock(t)
    BY <1>2, <1>3, <1>4, <1>5, <1>9 DEF ReadClock
  <1>10. CASE WriteGraph(t)
    <2>1. CASE Becomes(t, [t EXCEPT !.next = t.next + 1])
      BY <1>7, <1>10, <2>1 DEF WriteGraph
    <2>2. CASE Becomes(t, [t EXCEPT !.error = "conflict"])
      BY <1>2, <1>3, <1>4, <1>5, <2>2
    <2> QED BY <1>10, <2>1, <2>2 DEF WriteGraph
  <1>11. CASE LoseInsertRace(t)
    BY <1>2, <1>3, <1>4, <1>5, <1>11 DEF LoseInsertRace
  <1>12. CASE MeetOutage(t)
    BY <1>2, <1>3, <1>4, <1>5, <1>12 DEF MeetOutage
  <1> QED BY <1>6, <1>8, <1>9, <1>10, <1>11, <1>12 DEF TaskSteps

\* Tasks have leases that claims returned, and keep them.
LEMMA StepLeases == TypeOK /\ LeasesKnown /\ [Next]_vars => LeasesKnown'
  <1> SUFFICES ASSUME TypeOK, LeasesKnown, [Next]_vars PROVE LeasesKnown'
    OBVIOUS
  <1>1. ASSUME NEW j \in Jobs, PutBlob(j) \/ InsertSource(j) PROVE LeasesKnown'
    BY <1>1 DEF PutBlob, InsertSource, table, LeasesKnown
  <1>2. ASSUME NEW j \in Jobs, NEW d \in Delays, Enqueue(j, d) PROVE LeasesKnown'
    BY <1>2 DEF Enqueue, Table!CreateImportJob, LeasesKnown
  <1>3. ASSUME NEW j \in Jobs, Claim(j) PROVE LeasesKnown'
    <2>1. /\ issued' \in Nat
          /\ leases' \subseteq Table!Lease
          /\ leases \subseteq leases'
      BY <1>3, ClaimLeases DEF Claim
    <2>2. \A t \in tasks' : t \in tasks \/ t.lease \in leases'
      BY <1>3 DEF Claim
    <2> QED BY <2>1, <2>2 DEF LeasesKnown
  <1>4. ASSUME NEW t \in tasks, TaskSteps(t) PROVE LeasesKnown'
    <2>1. UNCHANGED <<issued, leases>>
      BY <1>4 DEF TaskSteps, ReadBlob, WriteEvidence, ReadClock, WriteGraph,
                  LoseInsertRace, MeetOutage, table
    <2> QED BY <1>4, <2>1, TaskStepTypes DEF LeasesKnown
  <1>5. ASSUME NEW t \in tasks, Report(t) PROVE LeasesKnown'
    BY <1>5 DEF Report, Table!SucceedImportJob, Table!FailImportJob, Table!Settle,
                table, LeasesKnown
  <1>6. CASE LoseProcess
    BY <1>6 DEF LoseProcess, table, LeasesKnown
  <1>7. CASE Finalize
    BY <1>7 DEF Finalize, Table!FinalizeUploads, LeasesKnown
  <1>8. CASE TimePasses
    BY <1>8 DEF TimePasses, Table!Tick, LeasesKnown
  <1>9. CASE UNCHANGED vars
    BY <1>9 DEF vars, table, LeasesKnown
  <1> QED BY <1>1, <1>2, <1>3, <1>4, <1>5, <1>6, <1>7, <1>8, <1>9 DEF Next, TaskSteps

\* Stores, rows and tasks stay what TypeOK says.
LEMMA StepTypes == TypeOK /\ LeasesKnown /\ LeasesKnown' /\ [Next]_vars => TypeOK'
  <1> SUFFICES ASSUME TypeOK, LeasesKnown, LeasesKnown', [Next]_vars PROVE TypeOK'
    OBVIOUS
  <1> DEFINE Requests == request \in
                [Jobs -> {"new", "stored", "recorded", "enqueued", "refused", "lost"}]
             Stores == blobs \subseteq Jobs /\ sources \subseteq Jobs /\ evidence \subseteq Evidence
             Live == live \in [GraphIds -> 0 .. MaxVersion]
             Tasks == /\ tasks \subseteq Task
                      /\ \A t \in tasks : t.next <= Len(Script(t.lease.job)) + 1
             Faults == faults \in 0 .. MaxFaults
  <1>a. Requests /\ Stores /\ Live /\ Tasks /\ Faults
    BY DEF TypeOK
  <1>b. Requests' /\ Stores' /\ Live' /\ Tasks' /\ Faults' => TypeOK'
    BY DEF TypeOK
  <1>c. (UNCHANGED <<evidence, live>>) => (Live' /\ evidence' \subseteq Evidence)
    BY <1>a
  <1>1. ASSUME NEW j \in Jobs, PutBlob(j) \/ InsertSource(j) PROVE TypeOK'
    BY <1>1, <1>a, <1>b DEF PutBlob, InsertSource
  <1>2. ASSUME NEW j \in Jobs, NEW d \in Delays, Enqueue(j, d) PROVE TypeOK'
    BY <1>2, <1>a, <1>b DEF Enqueue
  <1>3. ASSUME NEW j \in Jobs, Claim(j) PROVE TypeOK'
    <2>1. ASSUME NEW t \in tasks' PROVE t \in Task /\ t.next <= Len(Script(t.lease.job)) + 1
      <3>1. CASE t \in tasks
        BY <1>a, <3>1
      <3>2. ASSUME t \notin tasks PROVE t \in Task /\ t.next = 0 /\ t.lease.job \in Jobs
        <4>1. PICK l \in leases' : t = [lease |-> l, next |-> 0, version |-> NoVersion, error |-> "none"]
          BY <1>3, <3>2 DEF Claim
        <4>2. l \in Table!Lease
          BY <4>1 DEF LeasesKnown
        <4> QED BY <4>1, <4>2, BoundsAssumption DEF Task, NoVersion, Table!Lease
      <3>3. ASSUME t \notin tasks PROVE Len(Script(t.lease.job)) \in Nat
        BY <3>2, <3>3, ScriptShape
      <3> QED BY <3>1, <3>2, <3>3
    <2> QED BY <1>3, <1>a, <1>b, <2>1 DEF Claim, data
  <1>4. ASSUME NEW t \in tasks, TaskSteps(t) PROVE TypeOK'
    <2>1. Tasks'
      BY <1>4, <1>a, TaskStepTypes
    <2>2. Faults' /\ Requests' /\ blobs' \subseteq Jobs /\ sources' \subseteq Jobs
      <3>1. UNCHANGED <<request, blobs, sources>>
        BY <1>4 DEF TaskSteps, ReadBlob, WriteEvidence, ReadClock, WriteGraph,
                LoseInsertRace, MeetOutage, data
      <3>2. UNCHANGED faults \/ (faults < MaxFaults /\ faults' = faults + 1)
        BY <1>4 DEF TaskSteps, ReadBlob, WriteEvidence, ReadClock, WriteGraph,
                LoseInsertRace, MeetOutage
      <3> QED BY <1>a, <3>1, <3>2, BoundsAssumption
    <2>3. t.lease.job \in Jobs /\ t \in Task
      BY <1>a DEF LeasesKnown, Table!Lease
    <2>4. evidence' \subseteq Evidence
      <3>1. CASE WriteEvidence(t)
        <4>1. Position(t) \in Evidence
          BY <2>3, <3>1, PositionsHoldItems DEF WriteEvidence, AtWrite, Position, Evidence
        <4> QED BY <1>a, <3>1, <4>1 DEF WriteEvidence
      <3> QED BY <1>4, <1>a, <3>1 DEF TaskSteps, ReadBlob, ReadClock, WriteGraph,
                LoseInsertRace, MeetOutage, data
    <2>5. Live'
      <3>1. CASE WriteGraph(t)
        <4>1. t.version \in 0 .. MaxVersion
          BY <2>3 DEF Task
        <4> QED BY <1>a, <3>1, <4>1 DEF WriteGraph
      <3> QED BY <1>4, <1>a, <3>1 DEF TaskSteps, ReadBlob, WriteEvidence, ReadClock,
                LoseInsertRace, MeetOutage, data
    <2> QED BY <1>b, <2>1, <2>2, <2>4, <2>5
  <1>5. ASSUME NEW t \in tasks, Report(t) PROVE TypeOK'
    BY <1>5, <1>a, <1>b DEF Report, data
  <1>6. CASE LoseProcess
    <2>1. Faults'
      BY <1>6, <1>a, BoundsAssumption DEF LoseProcess
    <2>2. Tasks' /\ Requests'
      BY <1>6, <1>a DEF LoseProcess
    <2> QED BY <1>6, <1>a, <1>b, <1>c, <2>1, <2>2 DEF LoseProcess
  <1>7. CASE Finalize \/ TimePasses \/ UNCHANGED vars
    BY <1>7, <1>a, <1>b DEF Finalize, TimePasses, data, vars
  <1> QED BY <1>1, <1>2, <1>3, <1>4, <1>5, <1>6, <1>7 DEF Next, TaskSteps

-----------------------------------------------------------------------------
(* The table.                                                              *)

\* A server that starts has no tasks and its table no leases.
LEMMA InitTypes == Init => TypeOK /\ LeasesKnown /\ OneRowPerJob
  BY BoundsAssumption DEF Init, Table!Init, TypeOK, LeasesKnown, OneRowPerJob, NoVersion

\* One step of requests and tasks is a step of the table or leaves it alone.
LEMMA StepOfTable == LeasesKnown /\ [Next]_vars => [Table!Next]_(Table!vars)
  <1> SUFFICES ASSUME LeasesKnown, [Next]_vars PROVE [Table!Next]_(Table!vars)
    OBVIOUS
  <1>0. ASSUME UNCHANGED table PROVE [Table!Next]_(Table!vars)
    BY <1>0 DEF table, Table!vars
  <1>1. ASSUME NEW j \in Jobs, PutBlob(j) \/ InsertSource(j) PROVE UNCHANGED table
    BY <1>1 DEF PutBlob, InsertSource
  <1>2. ASSUME NEW j \in Jobs, NEW d \in Delays, Enqueue(j, d) PROVE Table!Next
    BY <1>2 DEF Enqueue, Table!Next
  <1>3. ASSUME NEW j \in Jobs, Claim(j) PROVE Table!Next
    BY <1>3 DEF Claim, Table!Next
  <1>4. ASSUME NEW t \in tasks, TaskSteps(t) PROVE UNCHANGED table
    BY <1>4 DEF TaskSteps, ReadBlob, WriteEvidence, ReadClock, WriteGraph,
                LoseInsertRace, MeetOutage
  <1>5. ASSUME NEW t \in tasks, Report(t) PROVE [Table!Next]_(Table!vars)
    BY <1>0, <1>5 DEF Report, Table!Next, LeasesKnown
  <1>6. CASE LoseProcess \/ UNCHANGED vars
    BY <1>0, <1>6 DEF LoseProcess, vars
  <1>7. CASE Finalize
    BY <1>7 DEF Finalize, Table!Next
  <1>8. CASE TimePasses
    BY <1>8 DEF TimePasses, Table!Next
  <1> QED BY <1>0, <1>1, <1>2, <1>3, <1>4, <1>5, <1>6, <1>7, <1>8 DEF Next, TaskSteps

\* Tasks that have lost their lease write beside their successors, and yet what
\* happens to the table of jobs is what its specification allows.
THEOREM PipelineUsesTheTable == Spec => UsesTheTable
  <1>1. Init => Table!Init
    BY DEF Init
  <1> QED BY <1>1, InitTypes, StepLeases, StepTypes, StepOfTable, PTL
          DEF Spec, UsesTheTable, Table!Spec

\* What one step may do to a row.
Same(k) == jobs'[k] = jobs[k]
Ran(k) == jobs[k].status # "absent" /\ jobs'[k].status \in {"running", "failed"}
RowStep(k) ==
  \/ Same(k) \/ Ran(k)
  \/ jobs'[k].status = "queued" /\ \E d \in Delays : Enqueue(k, d)
  \/ /\ jobs'[k].status = "succeeded" /\ jobs[k].status # "absent"
     /\ \E t \in tasks : t.lease.job = k /\ Done(t) /\ Report(t)

\* Rows are enqueued by requests and succeed by the report of a task that is done.
LEMMA RowSteps ==
  ASSUME LeasesKnown, OneRowPerJob, [Next]_vars
  PROVE  OneRowPerJob' /\ \A k \in Jobs : RowStep(k)
  <1> DEFINE Goal == OneRowPerJob' /\ \A k \in Jobs : RowStep(k)
  <1> USE DEF RowStep, Same, Ran
  <1>0. ASSUME UNCHANGED table PROVE Goal
    BY <1>0 DEF table, OneRowPerJob
  <1>a. ASSUME NEW S, jobs' = Table!FinalizeExhausted(S) PROVE Goal
    <2>1. OneRowPerJob'
      BY <1>a DEF Table!FinalizeExhausted, OneRowPerJob
    <2>2. ASSUME NEW k \in Jobs PROVE Same(k) \/ Ran(k)
      <3>1. CASE k \in S /\ Table!Exhausted(k)
        <4>1. jobs'[k] = Table!Released(k, "failed", "exhausted")
          BY <1>a, <3>1 DEF Table!FinalizeExhausted
        <4>2. jobs'[k].status = "failed" /\ jobs[k].status = "running"
          BY <3>1, <4>1 DEF Table!Released, Table!Exhausted
        <4> QED BY <4>2
      <3>2. CASE ~(k \in S /\ Table!Exhausted(k))
        BY <1>a, <3>2 DEF Table!FinalizeExhausted
      <3> QED BY <3>1, <3>2
    <2> QED BY <2>1, <2>2
  <1>1. ASSUME NEW j \in Jobs, PutBlob(j) \/ InsertSource(j) PROVE Goal
    <2>1. UNCHANGED table
      BY <1>1 DEF PutBlob, InsertSource
    <2> QED BY <1>0, <2>1
  <1>2. ASSUME NEW j \in Jobs, NEW d \in Delays, Enqueue(j, d) PROVE Goal
    <2>1. /\ jobs[j].status = "absent"
          /\ jobs' = [jobs EXCEPT ![j] = [Table!Absent EXCEPT !.status = "queued",
                                                              !.availableAt = now + d]]
      BY <1>2 DEF Enqueue, Table!CreateImportJob
    <2>2. OneRowPerJob'
      BY <2>1 DEF OneRowPerJob
    <2>3. jobs'[j].status = "queued"
      BY <2>1 DEF OneRowPerJob, Table!Absent
    <2>4. \A k \in Jobs : k # j => Same(k)
      BY <2>1 DEF OneRowPerJob
    <2> QED BY <1>2, <2>2, <2>3, <2>4
  <1>3. ASSUME NEW j \in Jobs, Claim(j) PROVE Goal
    <2>1. CASE /\ Table!Claimable(j)
               /\ Table!Grant(Table!FinalizeExhausted({j}), j, Owner)
      <3>1. jobs' = [Table!FinalizeExhausted({j}) EXCEPT ![j] = Table!Claimed(j, Owner)]
        BY <2>1 DEF Table!Grant
      <3>2. OneRowPerJob'
        BY <3>1 DEF Table!FinalizeExhausted, OneRowPerJob
      <3>3. \A k \in Jobs : k # j => Same(k)
        BY <3>1 DEF Table!FinalizeExhausted, OneRowPerJob
      <3>4. jobs'[j] = Table!Claimed(j, Owner) /\ jobs[j].status # "absent"
        BY <2>1, <3>1 DEF Table!FinalizeExhausted, Table!Claimable
      <3>5. jobs'[j].status = "running"
        BY <3>4 DEF Table!Claimed
      <3> QED BY <3>2, <3>3, <3>4, <3>5
    <2>2. CASE jobs' = Table!FinalizeExhausted({j})
      BY <1>a, <2>2
    <2> QED BY <1>3, <2>1, <2>2 DEF Claim, Table!ClaimImportJobById
  <1>4. ASSUME NEW t \in tasks, TaskSteps(t) PROVE Goal
    <2>1. UNCHANGED table
      BY <1>4 DEF TaskSteps, ReadBlob, WriteEvidence, ReadClock, WriteGraph,
                LoseInsertRace, MeetOutage
    <2> QED BY <1>0, <2>1
  <1>5. ASSUME NEW t \in tasks, Report(t) PROVE Goal
    <2>0. t.lease.job \in Jobs
      BY DEF LeasesKnown, Table!Lease
    <2>1. ASSUME NEW status, NEW error, Table!Settle(t.lease, status, error)
          PROVE  /\ OneRowPerJob'
                 /\ \A k \in Jobs : k # t.lease.job => Same(k)
                 /\ jobs'[t.lease.job].status = status
                 /\ jobs[t.lease.job].status # "absent"
      <3>1. jobs' = [jobs EXCEPT ![t.lease.job] = Table!Released(t.lease.job, status, error)]
        BY <2>1 DEF Table!Settle
      <3>2. jobs'[t.lease.job] = Table!Released(t.lease.job, status, error)
        BY <2>0, <3>1 DEF OneRowPerJob
      <3>3. jobs'[t.lease.job].status = status
        BY <3>2 DEF Table!Released
      <3>4. OneRowPerJob' /\ \A k \in Jobs : k # t.lease.job => Same(k)
        BY <2>0, <3>1 DEF OneRowPerJob
      <3> QED BY <2>1, <3>3, <3>4 DEF Table!Settle, Table!HoldsLease
    <2>2. CASE Done(t) /\ Table!SucceedImportJob(t.lease)
      BY <1>5, <2>0, <2>1, <2>2 DEF Table!SucceedImportJob
    <2>3. CASE Table!FailImportJob(t.lease)
      BY <2>1, <2>3 DEF Table!FailImportJob
    <2>4. CASE UNCHANGED table
      BY <1>0, <2>4
    <2> QED BY <1>5, <2>2, <2>3, <2>4 DEF Report
  <1>6. ASSUME LoseProcess \/ UNCHANGED vars PROVE Goal
    <2>1. UNCHANGED table
      BY <1>6 DEF LoseProcess, vars
    <2> QED BY <1>0, <2>1
  <1>7. ASSUME Finalize PROVE Goal
    BY <1>7, <1>a DEF Finalize, Table!FinalizeUploads
  <1>8. ASSUME TimePasses PROVE Goal
    <2>1. jobs' = jobs
      BY <1>8 DEF TimePasses, Table!Tick
    <2>2. OneRowPerJob'
      BY <2>1 DEF OneRowPerJob
    <2>3. \A k \in Jobs : Same(k)
      BY <2>1
    <2> QED BY <2>2, <2>3
  <1>9. Goal
    <2> HIDE DEF Goal, RowStep, Same, Ran
    <2>1. ASSUME NEW t \in tasks,
                 ReadBlob(t) \/ WriteEvidence(t) \/ ReadClock(t) \/ WriteGraph(t)
                   \/ LoseInsertRace(t) \/ MeetOutage(t)
          PROVE  Goal
      BY <1>4, <2>1 DEF TaskSteps
    <2> QED BY <1>1, <1>2, <1>3, <2>1, <1>5, <1>6, <1>7, <1>8 DEF Next
  <1> QED BY <1>9

-----------------------------------------------------------------------------
(* What is written stays, and was written in the script's order.           *)

Present(i) == IF i \in Evidence THEN i \in evidence ELSE live[i] # NoVersion

\* No row that is there goes away, and no graph row goes back.
LEMMA StepGrows ==
  ASSUME TypeOK, LeasesKnown, [Next]_vars
  PROVE  /\ evidence \subseteq evidence'
         /\ \A i \in GraphIds : live'[i] >= live[i]
         /\ \A i \in Items : Present(i) => Present(i)'
  <1>0. \A i \in GraphIds : live[i] \in 0 .. MaxVersion
    BY DEF TypeOK
  <1>a. ASSUME UNCHANGED <<evidence, live>>
        PROVE  evidence \subseteq evidence' /\ \A i \in GraphIds : live'[i] >= live[i]
    BY <1>0, <1>a, BoundsAssumption
  <1>1. ASSUME NEW t \in tasks, WriteEvidence(t)
        PROVE  evidence \subseteq evidence' /\ \A i \in GraphIds : live'[i] >= live[i]
    BY <1>0, <1>1, BoundsAssumption DEF WriteEvidence
  <1>2. ASSUME NEW t \in tasks, WriteGraph(t)
        PROVE  evidence \subseteq evidence' /\ \A i \in GraphIds : live'[i] >= live[i]
    <2>1. t.version \in 0 .. MaxVersion
      BY DEF TypeOK, Task
    <2>2. CASE t.version > live[Position(t)] /\ live' = [live EXCEPT ![Position(t)] = t.version]
      BY <1>0, <1>2, <2>1, <2>2, BoundsAssumption DEF WriteGraph, TypeOK
    <2>3. CASE UNCHANGED live
      BY <1>2, <1>a, <2>3 DEF WriteGraph
    <2> QED BY <1>2, <2>2, <2>3 DEF WriteGraph
  <1>3. ASSUME \/ \E j \in Jobs : \/ PutBlob(j) \/ InsertSource(j) \/ Claim(j)
                                  \/ \E d \in Delays : Enqueue(j, d)
               \/ \E t \in tasks : \/ ReadBlob(t) \/ ReadClock(t) \/ LoseInsertRace(t)
                                   \/ MeetOutage(t) \/ Report(t)
               \/ LoseProcess \/ Finalize \/ TimePasses \/ UNCHANGED vars
        PROVE  UNCHANGED <<evidence, live>>
    BY <1>3 DEF PutBlob, InsertSource, Claim, Enqueue, ReadBlob, ReadClock, LoseInsertRace,
                MeetOutage, Report, LoseProcess, Finalize, TimePasses, vars, data
  <1>4. evidence \subseteq evidence' /\ \A i \in GraphIds : live'[i] >= live[i]
    BY <1>a, <1>1, <1>2, <1>3 DEF Next
  <1>5. \A i \in GraphIds : live[i] # NoVersion => live'[i] # NoVersion
    <2> TAKE i \in GraphIds
    <2>1. live'[i] >= live[i] /\ live[i] \in 0 .. MaxVersion
      BY <1>0, <1>4
    <2> QED BY <2>1, BoundsAssumption DEF NoVersion
  <1> QED BY <1>4, <1>5 DEF Present, GraphIds

\* What the tasks' places in the script, and live rows, say of other rows.
TasksGoInOrder ==
  \A t \in tasks : t.next > 0 =>
    /\ Chunks[t.lease.job] > 0
    /\ \A q \in 1 .. t.next - 1 : Present(Script(t.lease.job)[q])

RowsCameInOrder ==
  \A i \in GraphIds : live[i] # NoVersion =>
    /\ Chunks[i.job] > 0
    /\ \A q \in 1 .. At(i) - 1 : Present(Script(i.job)[q])

AllIsThere ==
  \A j \in Jobs : jobs[j].status = "succeeded" =>
    \A p \in DOMAIN Script(j) : Present(Script(j)[p])

\* How far a task goes in one step.
LEMMA TaskStepProgress ==
  ASSUME TypeOK, LeasesKnown, NEW t \in tasks, TaskSteps(t)
  PROVE  \E u \in Task :
           /\ tasks' = (tasks \ {t}) \cup {u}
           /\ u.lease = t.lease
           /\ \/ u.next = t.next
              \/ t.next = 0 /\ u.next = 1 /\ Chunks[t.lease.job] > 0
              \/ /\ u.next = t.next + 1
                 /\ t.next \in DOMAIN Script(t.lease.job)
                 /\ Present(Script(t.lease.job)[t.next])'
  <1> DEFINE Goes(u) == /\ tasks' = (tasks \ {t}) \cup {u}
                        /\ u.lease = t.lease
                        /\ \/ u.next = t.next
                           \/ t.next = 0 /\ u.next = 1 /\ Chunks[t.lease.job] > 0
                           \/ /\ u.next = t.next + 1
                              /\ t.next \in DOMAIN Script(t.lease.job)
                              /\ Present(Script(t.lease.job)[t.next])'
  <1>1. /\ t \in Task /\ t.lease.job \in Jobs /\ t.next \in Nat
        /\ t.version \in 0 .. MaxVersion
    BY DEF TypeOK, Task, LeasesKnown, Table!Lease
  <1>3. /\ [t EXCEPT !.error = "content"] \in Task
        /\ [t EXCEPT !.error = "conflict"] \in Task
        /\ [t EXCEPT !.error = "outage"] \in Task
        /\ [t EXCEPT !.next = 1] \in Task
        /\ [t EXCEPT !.next = t.next + 1] \in Task
        /\ \A v \in 1 .. MaxVersion : [t EXCEPT !.version = v] \in Task
    BY <1>1, BoundsAssumption DEF Task
  <1>4. /\ \A e : /\ [t EXCEPT !.error = e].lease = t.lease
                  /\ [t EXCEPT !.error = e].next = t.next
        /\ \A e : /\ [t EXCEPT !.next = e].lease = t.lease
                  /\ [t EXCEPT !.next = e].next = e
        /\ \A e : /\ [t EXCEPT !.version = e].lease = t.lease
                  /\ [t EXCEPT !.version = e].next = t.next
    BY <1>1 DEF Task
  <1>5. ASSUME NEW u \in Task, Becomes(t, u), u.lease = t.lease, u.next = t.next
        PROVE  \E w \in Task : Goes(w)
    BY <1>5 DEF Becomes
  <1>6. CASE ReadBlob(t)
    <2>1. CASE Chunks[t.lease.job] > 0 /\ Becomes(t, [t EXCEPT !.next = 1])
      <3> DEFINE u == [t EXCEPT !.next = 1]
      <3>1. u \in Task /\ u.lease = t.lease /\ u.next = 1
        BY <1>3, <1>4
      <3>2. tasks' = (tasks \ {t}) \cup {u} /\ t.next = 0
        BY <1>6, <2>1 DEF Becomes, ReadBlob
      <3> HIDE DEF u
      <3> QED BY <2>1, <3>1, <3>2
    <2>2. CASE Becomes(t, [t EXCEPT !.error = "content"])
      BY <1>3, <1>4, <1>5, <2>2
    <2> QED BY <1>6, <2>1, <2>2 DEF ReadBlob
  <1>7. ASSUME AtWrite(t), Becomes(t, [t EXCEPT !.next = t.next + 1]), Present(Position(t))'
        PROVE  \E w \in Task : Goes(w)
    <2> DEFINE u == [t EXCEPT !.next = t.next + 1]
    <2>1. u \in Task /\ u.lease = t.lease /\ u.next = t.next + 1
      BY <1>3, <1>4
    <2>2. tasks' = (tasks \ {t}) \cup {u}
      BY <1>7 DEF Becomes
    <2>3. t.next \in DOMAIN Script(t.lease.job) /\ Present(Script(t.lease.job)[t.next])'
      BY <1>7 DEF AtWrite, Position
    <2> HIDE DEF u
    <2> QED BY <2>1, <2>2, <2>3
  <1>8. CASE WriteEvidence(t)
    <2>1. Position(t) \in Evidence
      BY <1>1, <1>8, PositionsHoldItems DEF WriteEvidence, AtWrite, Position, Evidence
    <2>2. Position(t) \in evidence'
      BY <1>8 DEF WriteEvidence
    <2> QED BY <1>7, <1>8, <2>1, <2>2 DEF WriteEvidence, Present
  <1>9. CASE ReadClock(t)
    BY <1>3, <1>4, <1>5, <1>9 DEF ReadClock
  <1>10. CASE WriteGraph(t)
    <2>1. CASE /\ live' = [live EXCEPT ![Position(t)] = t.version]
               /\ Becomes(t, [t EXCEPT !.next = t.next + 1])
      <3>1. Position(t) \in GraphIds /\ Position(t) \notin Evidence
        BY <1>10 DEF WriteGraph, GraphIds
      <3>2. live'[Position(t)] # NoVersion
        BY <1>10, <2>1, <3>1 DEF WriteGraph, TypeOK
      <3>3. Present(Position(t))'
        BY <3>1, <3>2 DEF Present
      <3> QED BY <1>7, <1>10, <2>1, <3>3 DEF WriteGraph
    <2>2. CASE Becomes(t, [t EXCEPT !.error = "conflict"])
      BY <1>3, <1>4, <1>5, <2>2
    <2> QED BY <1>10, <2>1, <2>2 DEF WriteGraph
  <1>11. CASE LoseInsertRace(t)
    BY <1>3, <1>4, <1>5, <1>11 DEF LoseInsertRace
  <1>12. CASE MeetOutage(t)
    BY <1>3, <1>4, <1>5, <1>12 DEF MeetOutage
  <1> QED BY <1>6, <1>8, <1>9, <1>10, <1>11, <1>12 DEF TaskSteps

\* Which actions leave the live rows alone.
LEMMA LiveUnlessWritten ==
  ASSUME [Next]_vars, \A t \in tasks : ~WriteGraph(t)
  PROVE  live' = live
  BY DEF Next, PutBlob, InsertSource, Claim, Enqueue, ReadBlob, WriteEvidence, ReadClock,
         LoseInsertRace, MeetOutage, Report, LoseProcess, Finalize, TimePasses, vars, data

\* Where the tasks after a step come from.
LEMMA TasksFrom ==
  ASSUME TypeOK, LeasesKnown, [Next]_vars, NEW u \in tasks'
  PROVE  \/ u \in tasks
         \/ u.next = 0
         \/ \E t \in tasks :
              /\ u.lease = t.lease
              /\ \/ u.next = t.next
                 \/ t.next = 0 /\ u.next = 1 /\ Chunks[t.lease.job] > 0
                 \/ /\ u.next = t.next + 1
                    /\ t.next \in DOMAIN Script(t.lease.job)
                    /\ Present(Script(t.lease.job)[t.next])'
  <1>1. ASSUME NEW t \in tasks, TaskSteps(t), u \notin tasks
        PROVE  /\ u.lease = t.lease
               /\ \/ u.next = t.next
                  \/ t.next = 0 /\ u.next = 1 /\ Chunks[t.lease.job] > 0
                  \/ /\ u.next = t.next + 1
                     /\ t.next \in DOMAIN Script(t.lease.job)
                     /\ Present(Script(t.lease.job)[t.next])'
    BY <1>1, TaskStepProgress
  <1>2. ASSUME NEW j \in Jobs, Claim(j), u \notin tasks PROVE u.next = 0
    BY <1>2 DEF Claim
  <1>3. ASSUME \/ \E j \in Jobs : \/ PutBlob(j) \/ InsertSource(j)
                                  \/ \E d \in Delays : Enqueue(j, d)
               \/ \E t \in tasks : Report(t)
               \/ LoseProcess \/ Finalize \/ TimePasses \/ UNCHANGED vars
        PROVE  u \in tasks
    BY <1>3 DEF PutBlob, InsertSource, Enqueue, Report, LoseProcess, Finalize, TimePasses, vars
  <1> QED BY <1>1, <1>2, <1>3 DEF Next, TaskSteps

\* A task has its earlier writes behind it wherever it goes next.
LEMMA StepTasks ==
  ASSUME TypeOK, LeasesKnown, TasksGoInOrder, [Next]_vars
  PROVE  TasksGoInOrder'
  <1> SUFFICES ASSUME NEW u \in tasks', u.next > 0
               PROVE  /\ Chunks[u.lease.job] > 0
                      /\ \A q \in 1 .. u.next - 1 : Present(Script(u.lease.job)[q])'
    BY DEF TasksGoInOrder
  <1>1. ASSUME NEW t \in tasks, t.next > 0
        PROVE  /\ Chunks[t.lease.job] > 0
               /\ \A q \in 1 .. t.next - 1 : Present(Script(t.lease.job)[q])'
    <2>1. t.lease.job \in Jobs /\ t.next \in Nat /\ t.next <= Len(Script(t.lease.job)) + 1
      BY DEF TypeOK, Task, LeasesKnown, Table!Lease
    <2>2. ASSUME NEW q \in 1 .. t.next - 1 PROVE Present(Script(t.lease.job)[q])'
      <3>1. q \in DOMAIN Script(t.lease.job)
        BY <2>1, ScriptShape
      <3>2. Script(t.lease.job)[q] \in Items
        BY <2>1, <3>1, PositionsHoldItems
      <3>3. Present(Script(t.lease.job)[q])
        BY <1>1 DEF TasksGoInOrder
      <3> QED BY <3>2, <3>3, StepGrows
    <2> QED BY <1>1, <2>2 DEF TasksGoInOrder
  <1>2. CASE u \in tasks
    BY <1>1, <1>2
  <1>3. ASSUME NEW t \in tasks, u.lease = t.lease, u.next = t.next
        PROVE  /\ Chunks[u.lease.job] > 0
               /\ \A q \in 1 .. u.next - 1 : Present(Script(u.lease.job)[q])'
    BY <1>1, <1>3
  <1>4. ASSUME NEW t \in tasks, u.lease = t.lease, u.next = t.next + 1,
               t.next \in DOMAIN Script(t.lease.job),
               Present(Script(t.lease.job)[t.next])'
        PROVE  /\ Chunks[u.lease.job] > 0
               /\ \A q \in 1 .. u.next - 1 : Present(Script(u.lease.job)[q])'
    <2>1. t.lease.job \in Jobs /\ t.next \in Nat
      BY DEF TypeOK, Task, LeasesKnown, Table!Lease
    <2>2. t.next > 0
      BY <1>4, <2>1, ScriptShape
    <2>3. \A q \in 1 .. u.next - 1 : q \in 1 .. t.next - 1 \/ q = t.next
      BY <1>4, <2>1
    <2> QED BY <1>1, <1>4, <2>2, <2>3
  <1>5. CASE u.next = 1 /\ Chunks[u.lease.job] > 0
    BY <1>5
  <1> QED BY <1>2, <1>3, <1>4, <1>5, TasksFrom

\* A row that becomes live is its task's next write, so all before it are there.
LEMMA StepRows ==
  ASSUME TypeOK, LeasesKnown, TasksGoInOrder, RowsCameInOrder, [Next]_vars
  PROVE  RowsCameInOrder'
  <1> SUFFICES ASSUME NEW i \in GraphIds, live'[i] # NoVersion
               PROVE  /\ Chunks[i.job] > 0
                      /\ \A q \in 1 .. At(i) - 1 : Present(Script(i.job)[q])'
    BY DEF RowsCameInOrder
  <1>1. i \in Items /\ i.job \in Jobs /\ At(i) \in DOMAIN Script(i.job)
    BY ItemIsAtItsPosition DEF GraphIds
  <1>2. \A q \in 1 .. At(i) - 1 : Script(i.job)[q] \in Items
    <2> TAKE q \in 1 .. At(i) - 1
    <2>1. q \in DOMAIN Script(i.job)
      BY <1>1, ScriptShape
    <2> QED BY <1>1, <2>1, PositionsHoldItems
  <1>3. CASE live[i] # NoVersion
    <2>1. Chunks[i.job] > 0 /\ \A q \in 1 .. At(i) - 1 : Present(Script(i.job)[q])
      BY <1>3 DEF RowsCameInOrder
    <2> QED BY <1>2, <2>1, StepGrows
  <1>4. CASE live[i] = NoVersion
    <2>1. PICK t \in tasks : WriteGraph(t)
      BY <1>4, LiveUnlessWritten
    <2>2. AtWrite(t) /\ Position(t) = i
      BY <1>4, <2>1 DEF WriteGraph, TypeOK
    <2>3. t.lease.job \in Jobs /\ t.next \in DOMAIN Script(t.lease.job)
      BY <2>2 DEF AtWrite, LeasesKnown, Table!Lease
    <2>4. i.job = t.lease.job /\ At(i) = t.next
      BY <2>2, <2>3, PositionOfItem DEF Position
    <2>5. t.next > 0
      BY <2>3, ScriptShape
    <2>6. Chunks[i.job] > 0 /\ \A q \in 1 .. At(i) - 1 : Present(Script(i.job)[q])
      BY <2>4, <2>5 DEF TasksGoInOrder
    <2> QED BY <1>2, <2>6, StepGrows
  <1> QED BY <1>3, <1>4

\* A job succeeds by the report of a task that has written everything.
LEMMA StepSucceeded ==
  ASSUME TypeOK, LeasesKnown, OneRowPerJob, TasksGoInOrder, AllIsThere, [Next]_vars
  PROVE  AllIsThere'
  <1> SUFFICES ASSUME NEW j \in Jobs, jobs'[j].status = "succeeded",
                      NEW p \in DOMAIN Script(j)
               PROVE  Present(Script(j)[p])'
    BY DEF AllIsThere
  <1>1. Script(j)[p] \in Items
    BY PositionsHoldItems
  <1>2. CASE jobs[j].status = "succeeded"
    BY <1>1, <1>2, StepGrows DEF AllIsThere
  <1>3. CASE jobs[j].status # "succeeded"
    <2>1. PICK t \in tasks : t.lease.job = j /\ Done(t)
      BY <1>3, RowSteps DEF RowStep, Same, Ran
    <2>2. t.next \in Nat /\ p \in 1 .. t.next - 1 /\ t.next > 0
      BY <2>1, ScriptShape DEF TypeOK, Task, Done
    <2>3. Present(Script(j)[p])
      BY <2>1, <2>2 DEF TasksGoInOrder
    <2> QED BY <1>1, <2>3, StepGrows
  <1> QED BY <1>2, <1>3

-----------------------------------------------------------------------------
(* Whose reading a row is of.                                              *)

\* A task that has not read the clock has written evidence only, and one that
\* has finds behind it no graph row that is older than its reading.
TasksLead ==
  \A t \in tasks :
    /\ t.version = NoVersion => t.next <= Chunks[t.lease.job] + 1
    /\ t.version # NoVersion =>
         \A q \in 1 .. t.next - 1 :
           Script(t.lease.job)[q] \in GraphIds => live[Script(t.lease.job)[q]] >= t.version

\* A script's positions are numbers, as its number of chunks is.
LEMMA PositionsAreNumbers ==
  ASSUME NEW j \in Jobs, NEW p \in DOMAIN Script(j)
  PROVE  Chunks[j] \in Nat /\ p \in Nat
  <1> DEFINE n == Chunks[j]
             d == DOMAIN Script(j)
  <1>1. n \in 0 .. 16 /\ d = 1 .. 3 * n + 2
    BY ScriptShape
  <1>2. p \in d
    OBVIOUS
  <1> HIDE DEF n, d
  <1>3. n \in Nat /\ p \in Nat
    BY <1>1, <1>2
  <1> QED BY <1>3 DEF n

\* Graph rows are written after all evidence.
LEMMA GraphPositions ==
  ASSUME NEW j \in Jobs, NEW p \in DOMAIN Script(j)
  PROVE  Script(j)[p] \in GraphIds <=> p > Chunks[j]
  <1>1. Script(j)[p] \in Items /\ (Script(j)[p].kind = "evidence" <=> p <= Chunks[j])
    BY PositionsHoldItems, PositionOfItem
  <1>2. Chunks[j] \in Nat /\ p \in Nat
    BY PositionsAreNumbers
  <1> QED BY <1>1, <1>2 DEF GraphIds, Evidence

\* What one step makes of a task's place and reading.
LEMMA ReadingSteps ==
  ASSUME TypeOK, LeasesKnown, [Next]_vars, NEW u \in tasks'
  PROVE  \/ u \in tasks
         \/ u.next = 0 /\ u.version = NoVersion
         \/ \E t \in tasks :
              /\ u.lease = t.lease
              /\ \/ u.version = t.version /\ u.next = t.next
                 \/ u.version = t.version /\ u.next = 1
                 \/ /\ u.version = t.version /\ u.next = t.next + 1
                    /\ AtWrite(t) /\ Position(t) \in Evidence
                 \/ /\ u.next = t.next /\ u.version # NoVersion
                    /\ AtWrite(t) /\ Position(t).kind = "source"
                 \/ /\ u.version = t.version /\ u.next = t.next + 1
                    /\ AtWrite(t) /\ Position(t) \in GraphIds
                    /\ t.version # NoVersion /\ live'[Position(t)] = t.version
  <1> DEFINE From(t) ==
        /\ u.lease = t.lease
        /\ \/ u.version = t.version /\ u.next = t.next
           \/ u.version = t.version /\ u.next = 1
           \/ /\ u.version = t.version /\ u.next = t.next + 1
              /\ AtWrite(t) /\ Position(t) \in Evidence
           \/ /\ u.next = t.next /\ u.version # NoVersion
              /\ AtWrite(t) /\ Position(t).kind = "source"
           \/ /\ u.version = t.version /\ u.next = t.next + 1
              /\ AtWrite(t) /\ Position(t) \in GraphIds
              /\ t.version # NoVersion /\ live'[Position(t)] = t.version
  <1>1. ASSUME NEW t \in tasks, TaskSteps(t), u \notin tasks
        PROVE  From(t)
    <2>1. t \in Task /\ t.lease.job \in Jobs
      BY DEF TypeOK, Task, LeasesKnown, Table!Lease
    <2>2. ASSUME NEW e, Becomes(t, [t EXCEPT !.error = e])
          PROVE  u.lease = t.lease /\ u.version = t.version /\ u.next = t.next
      BY <1>1, <2>1, <2>2 DEF Becomes, Task
    <2>3. ASSUME NEW e, Becomes(t, [t EXCEPT !.next = e])
          PROVE  u.lease = t.lease /\ u.version = t.version /\ u.next = e
      BY <1>1, <2>1, <2>3 DEF Becomes, Task
    <2>4. CASE ReadBlob(t)
      BY <2>2, <2>3, <2>4 DEF ReadBlob
    <2>5. CASE WriteEvidence(t)
      <3>1. Position(t) \in Evidence
        BY <2>1, <2>5, PositionsHoldItems DEF WriteEvidence, AtWrite, Position, Evidence
      <3> QED BY <2>3, <2>5, <3>1 DEF WriteEvidence
    <2>6. CASE ReadClock(t)
      <3>1. PICK v \in 1 .. MaxVersion : Becomes(t, [t EXCEPT !.version = v])
        BY <2>6 DEF ReadClock
      <3>2. u.lease = t.lease /\ u.version = v /\ u.next = t.next
        BY <1>1, <2>1, <3>1 DEF Becomes, Task
      <3>3. v # NoVersion
        BY BoundsAssumption DEF NoVersion
      <3> QED BY <2>6, <3>2, <3>3 DEF ReadClock
    <2>7. CASE WriteGraph(t)
      <3>1. CASE live' = [live EXCEPT ![Position(t)] = t.version]
                 /\ Becomes(t, [t EXCEPT !.next = t.next + 1])
        BY <2>3, <2>7, <3>1 DEF WriteGraph, TypeOK
      <3>2. CASE Becomes(t, [t EXCEPT !.error = "conflict"])
        BY <2>2, <3>2
      <3> QED BY <2>7, <3>1, <3>2 DEF WriteGraph
    <2>8. CASE LoseInsertRace(t) \/ MeetOutage(t)
      BY <2>2, <2>8 DEF LoseInsertRace, MeetOutage
    <2> QED BY <1>1, <2>4, <2>5, <2>6, <2>7, <2>8 DEF TaskSteps
  <1>2. ASSUME NEW j \in Jobs, Claim(j), u \notin tasks PROVE u.next = 0 /\ u.version = NoVersion
    BY <1>2 DEF Claim
  <1>3. ASSUME \/ \E j \in Jobs : \/ PutBlob(j) \/ InsertSource(j)
                                  \/ \E d \in Delays : Enqueue(j, d)
               \/ \E t \in tasks : Report(t)
               \/ LoseProcess \/ Finalize \/ TimePasses \/ UNCHANGED vars
        PROVE  u \in tasks
    BY <1>3 DEF PutBlob, InsertSource, Enqueue, Report, LoseProcess, Finalize, TimePasses, vars
  <1> HIDE DEF From
  <1>4. u \in tasks \/ (u.next = 0 /\ u.version = NoVersion) \/ \E t \in tasks : From(t)
    BY <1>1, <1>2, <1>3 DEF Next, TaskSteps
  <1> QED BY <1>4 DEF From

\* No task falls behind the rows it has passed, whoever else writes them.
LEMMA StepReadings ==
  ASSUME TypeOK, TypeOK', LeasesKnown, TasksLead, [Next]_vars
  PROVE  TasksLead'
  <1> DEFINE n(t) == Chunks[t.lease.job]
             Behind(t, q) == Script(t.lease.job)[q] \in GraphIds =>
                               live'[Script(t.lease.job)[q]] >= t.version
  <1> SUFFICES ASSUME NEW u \in tasks'
               PROVE  /\ u.version = NoVersion => u.next <= n(u) + 1
                      /\ u.version # NoVersion => \A q \in 1 .. u.next - 1 : Behind(u, q)
    BY DEF TasksLead
  <1>0. ASSUME NEW t \in tasks
        PROVE  /\ t.lease.job \in Jobs /\ t.next \in Nat /\ n(t) \in Nat /\ t.version \in Nat
               /\ t.version = NoVersion => t.next <= n(t) + 1
               /\ t.version # NoVersion => \A q \in 1 .. t.next - 1 : Behind(t, q)
    <2>1. t.lease.job \in Jobs /\ t.next \in Nat /\ t.version \in 0 .. MaxVersion
      BY DEF TypeOK, Task, LeasesKnown, Table!Lease
    <2>2. n(t) \in Nat
      BY <2>1, ChunksAssumption
    <2>3. ASSUME t.version # NoVersion, NEW q \in 1 .. t.next - 1,
                 Script(t.lease.job)[q] \in GraphIds
          PROVE  live'[Script(t.lease.job)[q]] >= t.version
      <3> DEFINE i == Script(t.lease.job)[q]
      <3>1. live[i] >= t.version
        BY <2>3 DEF TasksLead
      <3>2. live'[i] >= live[i]
        BY <2>3, StepGrows
      <3>3. live[i] \in 0 .. MaxVersion /\ live'[i] \in 0 .. MaxVersion
        BY <2>3 DEF TypeOK
      <3> HIDE DEF i
      <3>4. live'[i] >= t.version
        BY <2>1, <3>1, <3>2, <3>3, BoundsAssumption
      <3> QED BY <3>4 DEF i
    <2>4. t.version \in Nat
      BY <2>1, BoundsAssumption
    <2> QED BY <2>1, <2>2, <2>3, <2>4 DEF TasksLead
  <1>1. CASE u \in tasks
    BY <1>0, <1>1
  <1>2. CASE u.next = 0 /\ u.version = NoVersion
    <2>1. u.lease.job \in Jobs
      BY StepLeases DEF LeasesKnown, Table!Lease
    <2>2. n(u) \in Nat
      BY <2>1, ChunksAssumption
    <2> QED BY <1>2, <2>2
  <1>3. ASSUME NEW t \in tasks, u.lease = t.lease, u.version = t.version,
               u.next = t.next \/ u.next = 1
        PROVE  /\ u.version = NoVersion => u.next <= n(u) + 1
               /\ u.version # NoVersion => \A q \in 1 .. u.next - 1 : Behind(u, q)
    BY <1>0, <1>3
  <1>4. ASSUME NEW t \in tasks, u.lease = t.lease, u.version = t.version, u.next = t.next + 1,
               AtWrite(t), Position(t) \in Evidence
        PROVE  /\ u.version = NoVersion => u.next <= n(u) + 1
               /\ u.version # NoVersion => \A q \in 1 .. u.next - 1 : Behind(u, q)
    <2>1. Position(t) \notin GraphIds /\ t.next \in DOMAIN Script(t.lease.job)
      BY <1>4 DEF GraphIds, AtWrite
    <2>2. t.next <= n(t)
      BY <1>0, <2>1, GraphPositions DEF Position
    <2>3. Behind(t, t.next)
      BY <2>1 DEF Position
    <2>4. \A q \in 1 .. u.next - 1 : q \in 1 .. t.next - 1 \/ q = t.next
      BY <1>0, <1>4
    <2> QED BY <1>0, <1>4, <2>2, <2>3, <2>4
  <1>5. ASSUME NEW t \in tasks, u.lease = t.lease, u.next = t.next, u.version # NoVersion,
               AtWrite(t), Position(t).kind = "source"
        PROVE  \A q \in 1 .. u.next - 1 : Behind(u, q)
    <2>1. t.next \in DOMAIN Script(t.lease.job)
      BY <1>5 DEF AtWrite
    <2>2. t.next = n(t) + 1
      BY <1>0, <1>5, <2>1, PositionOfItem DEF Position
    <2>3. ASSUME NEW q \in 1 .. u.next - 1 PROVE Script(u.lease.job)[q] \notin GraphIds
      <3>1. q \in DOMAIN Script(t.lease.job) /\ ~(q > n(t))
        BY <1>0, <1>5, <2>2, ScriptShape
      <3> QED BY <1>0, <1>5, <3>1, GraphPositions
    <2> QED BY <2>3
  <1>6. ASSUME NEW t \in tasks, u.lease = t.lease, u.version = t.version, u.next = t.next + 1,
               t.version # NoVersion, live'[Position(t)] = t.version
        PROVE  \A q \in 1 .. u.next - 1 : Behind(u, q)
    <2>1. Behind(t, t.next)
      BY <1>0, <1>6 DEF Position
    <2>2. \A q \in 1 .. u.next - 1 : q \in 1 .. t.next - 1 \/ q = t.next
      BY <1>0, <1>6
    <2> QED BY <1>0, <1>6, <2>1, <2>2
  <1> HIDE DEF n, Behind
  <1> QED BY <1>1, <1>2, <1>3, <1>4, <1>5, <1>6, ReadingSteps

\* A row that is replaced is at most as old as those before it, which its task
\* has passed, and newer than those after it, which rested on the old one.
LEMMA StepRests ==
  ASSUME TypeOK, TypeOK', LeasesKnown, TasksLead, RowsRestOnNewerRows, [Next]_vars
  PROVE  RowsRestOnNewerRows'
  <1> SUFFICES ASSUME NEW j \in Jobs, NEW p \in DOMAIN Script(j), NEW q \in DOMAIN Script(j),
                      p < q, Script(j)[p] \in GraphIds
               PROVE  live'[Script(j)[p]] >= live'[Script(j)[q]]
    BY DEF RowsRestOnNewerRows
  <1> DEFINE i == Script(j)[p]
             k == Script(j)[q]
  <1>1. i \in GraphIds /\ k \in GraphIds /\ i # k
    <2>1. p \in Nat /\ q \in Nat /\ Chunks[j] \in Nat
      BY PositionsAreNumbers
    <2>2. q > Chunks[j]
      BY <2>1, GraphPositions
    <2> QED BY <2>1, <2>2, GraphPositions, PositionOfItem
  <1>2. live[i] >= live[k]
    BY DEF RowsRestOnNewerRows
  <1>3. live[i] \in Nat /\ live[k] \in Nat
    BY <1>1, BoundsAssumption DEF TypeOK
  <1>4. CASE live' = live
    BY <1>2, <1>4
  <1>5. CASE live' # live
    <2>1. PICK t \in tasks : WriteGraph(t)
      BY <1>5, LiveUnlessWritten
    <2> DEFINE w == Position(t)
    <2>2. /\ AtWrite(t) /\ w \in GraphIds /\ t.version # NoVersion /\ t.version > live[w]
          /\ live' = [live EXCEPT ![w] = t.version]
      BY <1>5, <2>1 DEF WriteGraph
    <2>3. t.lease.job \in Jobs /\ t.version \in Nat
      BY BoundsAssumption DEF TypeOK, Task, LeasesKnown, Table!Lease
    <2>4. t.next \in DOMAIN Script(t.lease.job) /\ w = Script(t.lease.job)[t.next]
      BY <2>2 DEF AtWrite, Position
    <2>5. w.job = t.lease.job /\ At(w) = t.next
      BY <2>3, <2>4, PositionOfItem
    <2>6. i.job = j /\ At(i) = p /\ k.job = j /\ At(k) = q
      BY PositionOfItem
    <2>7. /\ live'[i] = IF i = w THEN t.version ELSE live[i]
          /\ live'[k] = IF k = w THEN t.version ELSE live[k]
      BY <1>1, <2>2 DEF TypeOK
    <2>8. CASE k = w
      <3>1. t.lease.job = j /\ t.next = q /\ p \in 1 .. t.next - 1
        BY <2>5, <2>6, <2>8, ScriptShape
      <3>2. live[i] >= t.version
        BY <1>1, <2>2, <3>1 DEF TasksLead
      <3> HIDE DEF i, k, w
      <3> QED BY <1>1, <2>7, <2>8, <3>2 DEF i, k
    <2>9. CASE i = w
      <3>1. live'[i] = t.version /\ live'[k] = live[k] /\ t.version > live[i]
        BY <1>1, <2>2, <2>7, <2>9
      <3> HIDE DEF i, k, w
      <3>2. live'[i] >= live'[k]
        BY <1>2, <1>3, <2>3, <3>1
      <3> QED BY <3>2 DEF i, k
    <2>10. CASE i # w /\ k # w
      BY <1>2, <2>7, <2>10
    <2> QED BY <2>8, <2>9, <2>10
  <1> QED BY <1>4, <1>5

-----------------------------------------------------------------------------
(* Requests.                                                               *)

\* What a request's progress says of the three stores.
RequestsAgree ==
  \A j \in Jobs :
    /\ request[j] \in {"stored", "recorded", "enqueued"} => j \in blobs
    /\ j \in sources => j \in blobs /\ request[j] \in {"recorded", "enqueued", "lost"}
    /\ request[j] \in {"recorded", "enqueued"} => j \in sources
    /\ jobs[j].status # "absent" <=> request[j] = "enqueued"
    /\ request[j] = "lost" => faults > 0

ExternalIdsAreOfOne ==
  \A j, k \in sources :
    j # k => ExternalId[j] = NoExternalId \/ ExternalId[j] # ExternalId[k]

\* Requests go through the stores in order, whatever tasks do meanwhile.
LEMMA StepRequests ==
  ASSUME TypeOK, LeasesKnown, OneRowPerJob, RequestsAgree, [Next]_vars
  PROVE  RequestsAgree'
  <1> SUFFICES ASSUME NEW k \in Jobs
               PROVE /\ request'[k] \in {"stored", "recorded", "enqueued"} => k \in blobs'
                     /\ k \in sources' => k \in blobs' /\ request'[k] \in {"recorded", "enqueued", "lost"}
                     /\ request'[k] \in {"recorded", "enqueued"} => k \in sources'
                     /\ jobs'[k].status # "absent" <=> request'[k] = "enqueued"
                     /\ request'[k] = "lost" => faults' > 0
    BY DEF RequestsAgree
  <1>0. /\ request \in [Jobs -> {"new", "stored", "recorded", "enqueued", "refused", "lost"}]
        /\ faults \in Nat
    BY BoundsAssumption DEF TypeOK
  <1>a. /\ request[k] \in {"stored", "recorded", "enqueued"} => k \in blobs
        /\ k \in sources => k \in blobs /\ request[k] \in {"recorded", "enqueued", "lost"}
        /\ request[k] \in {"recorded", "enqueued"} => k \in sources
        /\ jobs[k].status # "absent" <=> request[k] = "enqueued"
        /\ request[k] = "lost" => faults > 0
    BY DEF RequestsAgree
  <1>b. RowStep(k)
    BY RowSteps
  <1>c. ASSUME \A d \in Delays : ~Enqueue(k, d)
        PROVE  jobs'[k].status # "absent" <=> jobs[k].status # "absent"
    BY <1>b, <1>c DEF RowStep, Same, Ran
  <1>1. ASSUME NEW j \in Jobs, PutBlob(j)
        PROVE  UNCHANGED <<jobs, sources, faults>> /\ blobs' = blobs \cup {j}
               /\ request' = [request EXCEPT ![j] = "stored"] /\ request[j] = "new"
    BY <1>1 DEF PutBlob, table
  <1>2. CASE \E j \in Jobs : PutBlob(j)
    BY <1>0, <1>a, <1>1, <1>2
  <1>3. CASE \E j \in Jobs : InsertSource(j)
    BY <1>0, <1>a, <1>3 DEF InsertSource, table
  <1>4. ASSUME NEW j \in Jobs, NEW d \in Delays, Enqueue(j, d)
        PROVE  /\ request'[k] \in {"stored", "recorded", "enqueued"} => k \in blobs'
               /\ k \in sources' => k \in blobs' /\ request'[k] \in {"recorded", "enqueued", "lost"}
               /\ request'[k] \in {"recorded", "enqueued"} => k \in sources'
               /\ jobs'[k].status # "absent" <=> request'[k] = "enqueued"
               /\ request'[k] = "lost" => faults' > 0
    <2>1. /\ UNCHANGED <<blobs, sources, faults>> /\ request[j] = "recorded"
          /\ request' = [request EXCEPT ![j] = "enqueued"]
          /\ jobs' = [jobs EXCEPT ![j] = [Table!Absent EXCEPT !.status = "queued",
                                                              !.availableAt = now + d]]
      BY <1>4 DEF Enqueue, Table!CreateImportJob
    <2>2. j = k => jobs'[k].status = "queued"
      BY <2>1 DEF OneRowPerJob, Table!Absent
    <2>3. j # k => jobs'[k] = jobs[k]
      BY <2>1 DEF OneRowPerJob
    <2>4. CASE j = k
      BY <1>0, <1>a, <2>1, <2>2, <2>4
    <2>5. CASE j # k
      BY <1>0, <1>a, <2>1, <2>3, <2>5
    <2> QED BY <2>4, <2>5
  <1>5. CASE LoseProcess
    <2>1. UNCHANGED <<jobs, blobs, sources>> /\ faults' > 0
      BY <1>0, <1>5 DEF LoseProcess, table
    <2>2. \/ request' = request
          \/ \E j \in Jobs : request[j] \in {"stored", "recorded"}
                             /\ request' = [request EXCEPT ![j] = "lost"]
      BY <1>5 DEF LoseProcess
    <2> QED BY <1>0, <1>a, <2>1, <2>2
  <1>6. ASSUME \/ \E j \in Jobs : Claim(j)
               \/ \E t \in tasks : TaskSteps(t) \/ Report(t)
               \/ Finalize \/ TimePasses \/ UNCHANGED vars
        PROVE  UNCHANGED <<request, blobs, sources>> /\ faults' >= faults
    <2>1. UNCHANGED <<request, blobs, sources>>
      BY <1>6 DEF Claim, TaskSteps, ReadBlob, WriteEvidence, ReadClock, WriteGraph,
         LoseInsertRace, MeetOutage, Report, Finalize, TimePasses, vars, data
    <2>2. faults' = faults \/ faults' = faults + 1
      BY <1>6 DEF Claim, TaskSteps, ReadBlob, WriteEvidence, ReadClock, WriteGraph,
         LoseInsertRace, MeetOutage, Report, Finalize, TimePasses, vars
    <2> QED BY <1>0, <2>1, <2>2
  <1>7. ASSUME UNCHANGED <<request, blobs, sources>>, faults' >= faults
        PROVE  /\ request'[k] \in {"stored", "recorded", "enqueued"} => k \in blobs'
               /\ k \in sources' => k \in blobs' /\ request'[k] \in {"recorded", "enqueued", "lost"}
               /\ request'[k] \in {"recorded", "enqueued"} => k \in sources'
               /\ jobs'[k].status # "absent" <=> request'[k] = "enqueued"
               /\ request'[k] = "lost" => faults' > 0
    <2>1. \A d \in Delays : ~Enqueue(k, d)
      BY <1>0, <1>7 DEF Enqueue
    <2>2. faults > 0 => faults' > 0
      <3>1. faults' \in Nat
        BY BoundsAssumption, StepLeases, StepTypes DEF TypeOK
      <3> QED BY <1>0, <1>7, <3>1
    <2> QED BY <1>a, <1>c, <1>7, <2>1, <2>2
  <1> QED BY <1>2, <1>3, <1>4, <1>5, <1>6, <1>7 DEF Next, TaskSteps

\* A second source of an external id is refused.
LEMMA StepExternalIds ==
  ASSUME ExternalIdsAreOfOne, [Next]_vars
  PROVE  ExternalIdsAreOfOne'
  <1>1. ASSUME NEW j \in Jobs, InsertSource(j) PROVE ExternalIdsAreOfOne'
    BY <1>1 DEF InsertSource, ExternalIdsAreOfOne
  <1>2. ASSUME \A j \in Jobs : ~InsertSource(j) PROVE sources' = sources
    BY <1>2 DEF Next, PutBlob, Enqueue, Claim, ReadBlob, WriteEvidence, ReadClock, WriteGraph,
       LoseInsertRace, MeetOutage, Report, LoseProcess, Finalize, TimePasses, vars, data
  <1> QED BY <1>1, <1>2 DEF ExternalIdsAreOfOne

-----------------------------------------------------------------------------
(* The inductive invariant and what follows from it.                       *)

IInv ==
  /\ TypeOK
  /\ LeasesKnown
  /\ OneRowPerJob
  /\ TasksGoInOrder
  /\ RowsCameInOrder
  /\ AllIsThere
  /\ RequestsAgree
  /\ ExternalIdsAreOfOne
  /\ TasksLead
  /\ RowsRestOnNewerRows

\* All of the above hold in every reachable state.
LEMMA Inductive == Spec => []IInv
  <1>1. Init => IInv
    <2> SUFFICES ASSUME Init PROVE IInv
      OBVIOUS
    <2>1. TypeOK /\ LeasesKnown /\ OneRowPerJob
      BY InitTypes
    <2>2. TasksGoInOrder /\ RowsCameInOrder
      BY DEF Init, TasksGoInOrder, RowsCameInOrder
    <2>3. \A j \in Jobs : jobs[j].status = "absent" /\ request[j] = "new" /\ j \notin sources
      BY DEF Init, Table!Init, Table!Absent
    <2>4. AllIsThere /\ RequestsAgree
      BY <2>3 DEF AllIsThere, RequestsAgree
    <2>5. ExternalIdsAreOfOne
      BY DEF Init, ExternalIdsAreOfOne
    <2>6. TasksLead
      BY DEF Init, TasksLead
    <2>7. RowsRestOnNewerRows
      <3> SUFFICES ASSUME NEW j \in Jobs, NEW p \in DOMAIN Script(j), NEW q \in DOMAIN Script(j),
                          p < q, Script(j)[p] \in GraphIds
                   PROVE  live[Script(j)[p]] >= live[Script(j)[q]]
        BY DEF RowsRestOnNewerRows
      <3>1. p \in Nat /\ q \in Nat /\ Chunks[j] \in Nat
        BY PositionsAreNumbers
      <3>2. Script(j)[q] \in GraphIds
        BY <3>1, GraphPositions
      <3> QED BY <3>2 DEF Init, NoVersion
    <2> QED BY <2>1, <2>2, <2>4, <2>5, <2>6, <2>7 DEF IInv
  <1>2. IInv /\ [Next]_vars => IInv'
    <2> SUFFICES ASSUME IInv, [Next]_vars PROVE IInv'
      OBVIOUS
    <2>0. /\ TypeOK /\ LeasesKnown /\ OneRowPerJob /\ TasksGoInOrder /\ RowsCameInOrder
          /\ AllIsThere /\ RequestsAgree /\ ExternalIdsAreOfOne
          /\ TasksLead /\ RowsRestOnNewerRows
      BY DEF IInv
    <2>1. LeasesKnown'
      BY <2>0, StepLeases
    <2>2. TypeOK'
      BY <2>0, <2>1, StepTypes
    <2>3. OneRowPerJob'
      BY <2>0, RowSteps
    <2>4. TasksGoInOrder' /\ RowsCameInOrder'
      BY <2>0, StepTasks, StepRows
    <2>5. AllIsThere'
      BY <2>0, StepSucceeded
    <2>6. RequestsAgree' /\ ExternalIdsAreOfOne'
      BY <2>0, StepRequests, StepExternalIds
    <2>7. TasksLead' /\ RowsRestOnNewerRows'
      BY <2>0, <2>2, StepReadings, StepRests
    <2> QED BY <2>1, <2>2, <2>3, <2>4, <2>5, <2>6, <2>7 DEF IInv
  <1> QED BY <1>1, <1>2, PTL DEF Spec

\* Requests, stores, live rows and tasks are what TypeOK says.
THEOREM TypeCorrect == Spec => []TypeOK
  <1>1. IInv => TypeOK
    BY DEF IInv
  <1> QED BY <1>1, Inductive, PTL

\* A job that reads succeeded has all its rows, whichever of several tasks
\* wrote them and whatever became of the others.
THEOREM SuccessIsComplete == Spec => []SucceededIsComplete
  <1>1. IInv => SucceededIsComplete
    <2> SUFFICES ASSUME IInv, NEW j \in Jobs, jobs[j].status = "succeeded", NEW i \in Written(j)
                 PROVE  IF i \in Evidence THEN i \in evidence ELSE live[i] # NoVersion
      BY DEF SucceededIsComplete
    <2>1. PICK p \in DOMAIN Script(j) : i = Script(j)[p]
      BY DEF Written
    <2>2. Present(i)
      BY <2>1 DEF IInv, AllIsThere
    <2> QED BY <2>2 DEF Present
  <1> QED BY <1>1, Inductive, PTL

\* No live relation lacks an end and no live node or claim its evidence, even
\* half-way through a materialization.
THEOREM NothingDangles == Spec => []GraphRestsOnEvidence
  <1>1. IInv => GraphRestsOnEvidence
    <2> SUFFICES ASSUME IInv, NEW i \in GraphIds, live[i] # NoVersion
                 PROVE  /\ i.kind = "relation" =>
                             /\ live[Item("source", i.job, 0)] # NoVersion
                             /\ live[Item("node", i.job, i.chunk)] # NoVersion
                        /\ i.kind \in {"node", "claim"} => Item("evidence", i.job, i.chunk) \in evidence
                        /\ i.kind = "source" =>
                             \A c \in 1 .. Chunks[i.job] : Item("evidence", i.job, c) \in evidence
      BY DEF GraphRestsOnEvidence
    <2>1. i.job \in Jobs /\ At(i) \in DOMAIN Script(i.job)
      BY ItemIsAtItsPosition DEF GraphIds
    <2>2. Chunks[i.job] > 0 /\ \A q \in 1 .. At(i) - 1 : Present(Script(i.job)[q])
      BY DEF IInv, RowsCameInOrder
    <2>3. \A q \in 1 .. At(i) - 1 : Script(i.job)[q] \in Items
      <3> TAKE q \in 1 .. At(i) - 1
      <3>1. q \in DOMAIN Script(i.job)
        BY <2>1, ScriptShape
      <3> QED BY <2>1, <3>1, PositionsHoldItems
    <2> DEFINE Before(k) == \E q \in 1 .. At(i) - 1 : Script(i.job)[q] = k
    <2>4. ASSUME NEW k, Before(k) PROVE k \in Items /\ Present(k)
      BY <2>2, <2>3, <2>4
    <2>5. ASSUME NEW c, Before(Item("evidence", i.job, c)) PROVE Item("evidence", i.job, c) \in evidence
      <3>1. Item("evidence", i.job, c) \in Evidence
        BY <2>4, <2>5 DEF Evidence, Item
      <3> QED BY <2>4, <2>5, <3>1 DEF Present
    <2>6. ASSUME NEW kind \in {"source", "node"}, NEW c, Before(Item(kind, i.job, c))
          PROVE  live[Item(kind, i.job, c)] # NoVersion
      <3>1. Item(kind, i.job, c) \notin Evidence
        BY DEF Evidence, Item
      <3> QED BY <2>4, <2>6, <3>1 DEF Present
    <2>7. /\ i.kind = "relation" =>
               Before(Item("source", i.job, 0)) /\ Before(Item("node", i.job, i.chunk))
          /\ i.kind \in {"node", "claim"} => Before(Item("evidence", i.job, i.chunk))
          /\ i.kind = "source" => \A c \in 1 .. Chunks[i.job] : Before(Item("evidence", i.job, c))
      BY <2>2, RestsOnEarlier
    <2> HIDE DEF Before
    <2> QED BY <2>5, <2>6, <2>7
  <1> QED BY <1>1, Inductive, PTL

\* Rows of a later reading rest on rows at least as new, whatever clocks the
\* overlapping tasks of a job have read and wherever each of them stopped.
THEOREM NewestReadingLeads == Spec => []RowsRestOnNewerRows
  <1>1. IInv => RowsRestOnNewerRows
    BY DEF IInv
  <1> QED BY <1>1, Inductive, PTL

\* A job has its source row and its bytes, and no external id two sources.
THEOREM Tracked == Spec => []UploadsAreTracked
  <1>1. IInv => UploadsAreTracked
    BY DEF IInv, TypeOK, RequestsAgree, ExternalIdsAreOfOne, UploadsAreTracked
  <1> QED BY <1>1, Inductive, PTL

-----------------------------------------------------------------------------
(* What is proved of the table holds of the uploads.                       *)

\* The table's module and its proofs, under the substitution of Table.
Proved == INSTANCE ImportJobs_proofs WITH UploadJobs <- Jobs, Owners <- {Owner}

\* What the table's proofs assume of the constants.
LEMMA TableIsInstance == Jobs \subseteq Jobs /\ NoOwner \notin {Owner}
  BY TableAssumption

\* The two instances of the table are the same specification.
LEMMA OneTable == Table!Spec => Proved!Spec
  <1> USE DEF Table!NoToken, Proved!NoToken, Table!NoExpiry, Proved!NoExpiry,
              Table!Absent, Proved!Absent
  <1>1. Table!Init => Proved!Init
    BY DEF Table!Init, Proved!Init
  <1>2. [Table!Next]_(Table!vars) => [Proved!Next]_(Proved!vars)
    BY DEF Table!vars, Table!Next, Table!CreateImportJob, Table!ClaimImportJobById,
           Table!ClaimImportJob, Table!FinalizeUploads, Table!SucceedImportJob,
           Table!FailImportJob, Table!RetryImportJob, Table!Settle, Table!Tick,
           Table!Grant, Table!Claimed, Table!FinalizeExhausted, Table!Released,
           Table!HoldsLease, Table!Claimable, Table!Exhausted, Table!Expired,
           Proved!vars, Proved!Next, Proved!CreateImportJob, Proved!ClaimImportJobById,
           Proved!ClaimImportJob, Proved!FinalizeUploads, Proved!SucceedImportJob,
           Proved!FailImportJob, Proved!RetryImportJob, Proved!Settle, Proved!Tick,
           Proved!Grant, Proved!Claimed, Proved!FinalizeExhausted, Proved!Released,
           Proved!HoldsLease, Proved!Claimable, Proved!Exhausted, Proved!Expired
  <1> QED BY <1>1, <1>2, PTL DEF Table!Spec, Proved!Spec

\* And they count the same tokens of a job.
LEMMA OneTokens ==
  /\ \A S : Table!Cardinality(S) = Proved!Cardinality(S)
  /\ \A S : Table!Lifecycle!Cardinality(S) = Proved!Lifecycle!Cardinality(S)
  /\ \A j : Table!TokensOf(j) = Proved!TokensOf(j)
  BY DEF Table!TokensOf, Proved!TokensOf, Table!Cardinality, Proved!Cardinality,
         Table!Lifecycle!Cardinality, Proved!Lifecycle!Cardinality

\* Their states are judged alike.
LEMMA OneJudgement ==
  /\ Proved!LeaseColumns => Table!LeaseColumns
  /\ Proved!AttemptsCountLeases => Table!AttemptsCountLeases
  /\ Proved!SettledByNewestLease => Table!SettledByNewestLease
  /\ Proved!OutcomeHasACause => Table!OutcomeHasACause
  <1> USE OneTokens DEF Table!NoToken, Proved!NoToken, Table!NoExpiry, Proved!NoExpiry
  <1>1. Proved!LeaseColumns => Table!LeaseColumns
    BY DEF Table!LeaseColumns, Proved!LeaseColumns
  <1>2. Proved!AttemptsCountLeases => Table!AttemptsCountLeases
    BY DEF Table!AttemptsCountLeases, Proved!AttemptsCountLeases
  <1>3. Proved!SettledByNewestLease => Table!SettledByNewestLease
    BY DEF Table!SettledByNewestLease, Proved!SettledByNewestLease
  <1>4. Proved!OutcomeHasACause => Table!OutcomeHasACause
    BY DEF Table!OutcomeHasACause, Proved!OutcomeHasACause
  <1> QED BY <1>1, <1>2, <1>3, <1>4

\* And so are their steps.
LEMMA OneTakeover == Proved!TakenOverOnlyAfterExpiry => Table!TakenOverOnlyAfterExpiry
  <1> DEFINE Taken(j) == /\ jobs[j].status = "running"
                         /\ jobs'[j].status = "running"
                         /\ jobs'[j].leaseToken # jobs[j].leaseToken
  <1>1. [\A j \in Jobs : Taken(j) => Proved!Expired(j)]_(Proved!vars)
          => [\A j \in Jobs : Taken(j) => Table!Expired(j)]_(Table!vars)
    BY DEF Table!vars, Proved!vars, Table!Expired, Proved!Expired
  <1> QED BY <1>1, PTL DEF Table!TakenOverOnlyAfterExpiry, Proved!TakenOverOnlyAfterExpiry

LEMMA OneLifecycle == Proved!ImplementsLifecycle => Table!ImplementsLifecycle
  <1> USE DEF Table!NoToken, Proved!NoToken, Table!Lifecycle!Nobody, Proved!Lifecycle!Nobody
  <1>1. Proved!Lifecycle!Init => Table!Lifecycle!Init
    BY OneTokens DEF Table!Lifecycle!Init, Proved!Lifecycle!Init
  <1>2. \A j \in Jobs : /\ Table!TokensOf(j) = Proved!TokensOf(j)
                        /\ Table!TokensOf(j)' = Proved!TokensOf(j)'
    BY DEF Table!TokensOf, Proved!TokensOf
  <1>3. Proved!Lifecycle!Next => Table!Lifecycle!Next
    BY <1>2, OneTokens
       DEF Table!Lifecycle!Next, Table!Lifecycle!Create, Table!Lifecycle!Start,
           Table!Lifecycle!Report, Table!Lifecycle!GiveUp, Table!Lifecycle!Same,
           Proved!Lifecycle!Next, Proved!Lifecycle!Create, Proved!Lifecycle!Start,
           Proved!Lifecycle!Report, Proved!Lifecycle!GiveUp, Proved!Lifecycle!Same
  <1>4. UNCHANGED Proved!Lifecycle!vars => UNCHANGED Table!Lifecycle!vars
    BY <1>2 DEF Table!Lifecycle!vars, Proved!Lifecycle!vars
  <1> QED BY <1>1, <1>3, <1>4, PTL
          DEF Table!ImplementsLifecycle, Proved!ImplementsLifecycle,
              Table!Lifecycle!Spec, Proved!Lifecycle!Spec

\* Though tasks without a lease go on writing rows, the jobs of uploads live as
\* JobLifecycle says, and only the newest lease decides one.
THEOREM UploadsTableIsSound ==
  Spec =>
    /\ [](Table!LeaseColumns /\ Table!AttemptsCountLeases)
    /\ [](Table!SettledByNewestLease /\ Table!OutcomeHasACause)
    /\ Table!TakenOverOnlyAfterExpiry
    /\ Table!ImplementsLifecycle
  <1>1. Proved!Spec => []Proved!LeaseColumns
    BY TableAssumption, TableIsInstance, Proved!LeaseColumnsHold
  <1>2. Proved!Spec => []Proved!AttemptsCountLeases
    BY TableAssumption, TableIsInstance, Proved!AttemptsBounded
  <1>3. Proved!Spec => []Proved!SettledByNewestLease
    BY TableAssumption, TableIsInstance, Proved!Fencing
  <1>4. Proved!Spec => []Proved!OutcomeHasACause
    BY TableAssumption, TableIsInstance, Proved!OutcomesHaveCauses
  <1>5. Proved!Spec => Proved!TakenOverOnlyAfterExpiry
    BY TableAssumption, TableIsInstance, Proved!NoEarlyTakeover
  <1>6. Proved!Spec => Proved!ImplementsLifecycle
    BY TableAssumption, TableIsInstance, Proved!Implements
  <1>7. Spec => Table!Spec
    BY PipelineUsesTheTable DEF UsesTheTable
  <1> QED BY <1>1, <1>2, <1>3, <1>4, <1>5, <1>6, <1>7,
             OneTable, OneJudgement, OneTakeover, OneLifecycle, PTL
=============================================================================

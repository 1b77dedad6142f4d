----------------------- MODULE RequirementsSync_proofs ----------------------
(* Proofs about module RequirementsSync, for every set of texts and statuses,
   every parser of rendered texts (Parts) and all bounds.                   *)
EXTENDS RequirementsSync, FiniteSetTheorems, SequenceTheorems, TLAPS

-----------------------------------------------------------------------------
(* Order.  The n-th member of a finite set is the one with n members up to it. *)

\* In a finite set whose members are told apart by what lies up to them, and
\* are ordered by it, every rank is taken exactly once.
Chain(S, D) ==
    /\ IsFiniteSet(S) /\ D \in [S -> SUBSET S]
    /\ \A x \in S : x \in D[x]
    /\ \A x, y \in S : D[x] \subseteq D[y] \/ D[y] \subseteq D[x]
    /\ \A x, y \in S : D[x] = D[y] => x = y

Ranked(S, D) ==
    /\ Cardinality(S) \in Nat
    /\ \A x \in S : Cardinality(D[x]) \in 1 .. Cardinality(S)
    /\ \A x, y \in S : Cardinality(D[x]) = Cardinality(D[y]) => x = y
    /\ \A n \in 1 .. Cardinality(S) : \E x \in S : Cardinality(D[x]) = n

LEMMA ChainRanks ==
  ASSUME NEW S, NEW D, Chain(S, D)
  PROVE  Ranked(S, D)
<1> DEFINE N == Cardinality(S)
           rank == [x \in S |-> Cardinality(D[x])]
<1>0. /\ IsFiniteSet(S) /\ D \in [S -> SUBSET S]
      /\ \A x \in S : x \in D[x]
      /\ \A x, y \in S : D[x] \subseteq D[y] \/ D[y] \subseteq D[x]
      /\ \A x, y \in S : D[x] = D[y] => x = y
  BY DEF Chain
<1>1. N \in Nat
  BY <1>0, FS_CardinalityType
<1>2. ASSUME NEW x \in S PROVE IsFiniteSet(D[x]) /\ Cardinality(D[x]) \in 1 .. N
  <2>1. IsFiniteSet(D[x]) /\ Cardinality(D[x]) <= N
    BY <1>0, FS_Subset
  <2>2. Cardinality(D[x]) \in Nat /\ Cardinality(D[x]) # 0
    BY <1>0, <2>1, FS_CardinalityType, FS_EmptySet
  <2> QED
    BY <1>1, <2>1, <2>2
<1>3. ASSUME NEW x \in S, NEW y \in S, Cardinality(D[x]) = Cardinality(D[y]) PROVE x = y
  <2>1. CASE D[x] \subseteq D[y]
    BY <1>0, <1>2, <1>3, <2>1, FS_Subset
  <2>2. CASE D[y] \subseteq D[x]
    BY <1>0, <1>2, <1>3, <2>2, FS_Subset
  <2> QED
    BY <1>0, <2>1, <2>2
<1>4. rank \in Injection(S, 1 .. N)
  BY <1>2, <1>3 DEF Injection, IsInjective
<1>5. IsFiniteSet(1 .. N) /\ Cardinality(1 .. N) = N
  BY <1>1, FS_Interval
<1>6. rank \in Surjection(S, 1 .. N)
  BY <1>0, <1>4, <1>5, FS_Injection
<1>7. \A n \in 1 .. N : \E x \in S : rank[x] = n
  BY <1>6 DEF Surjection
<1> QED
  BY <1>1, <1>2, <1>3, <1>7 DEF Ranked

Rank(S, x) == Cardinality({a \in S : a <= x})

\* The blocks of a file by their place in it.
LEMMA RankedNumbers ==
  ASSUME NEW S \in SUBSET Nat, IsFiniteSet(S)
  PROVE  /\ Cardinality(S) \in Nat
         /\ \A x \in S : Rank(S, x) \in 1 .. Cardinality(S)
         /\ \A x, y \in S : Rank(S, x) = Rank(S, y) => x = y
         /\ \A n \in 1 .. Cardinality(S) : \E x \in S : Rank(S, x) = n
<1> DEFINE D == [x \in S |-> {a \in S : a <= x}]
<1>1. D \in [S -> SUBSET S]
  OBVIOUS
<1>2. \A x \in S : x \in D[x]
  OBVIOUS
<1>3. \A x, y \in S : D[x] \subseteq D[y] \/ D[y] \subseteq D[x]
  <2> SUFFICES ASSUME NEW x \in S, NEW y \in S PROVE D[x] \subseteq D[y] \/ D[y] \subseteq D[x]
    OBVIOUS
  <2>1. x <= y \/ y <= x
    OBVIOUS
  <2>2. \A a \in S : (a <= x /\ x <= y => a <= y) /\ (a <= y /\ y <= x => a <= x)
    OBVIOUS
  <2> QED
    BY <2>1, <2>2
<1>4. \A x, y \in S : D[x] = D[y] => x = y
  <2> SUFFICES ASSUME NEW x \in S, NEW y \in S, D[x] = D[y] PROVE x = y
    OBVIOUS
  <2>1. x <= y /\ y <= x
    BY <1>2
  <2> QED
    BY <2>1
<1>5. \A x \in S : Cardinality(D[x]) = Rank(S, x)
  BY DEF Rank
<1> HIDE DEF D
<1>6. /\ Cardinality(S) \in Nat
      /\ \A x \in S : Cardinality(D[x]) \in 1 .. Cardinality(S)
      /\ \A x, y \in S : Cardinality(D[x]) = Cardinality(D[y]) => x = y
      /\ \A n \in 1 .. Cardinality(S) : \E x \in S : Cardinality(D[x]) = n
  <2>1. Chain(S, D)
    BY <1>1, <1>2, <1>3, <1>4 DEF Chain
  <2> QED
    BY <2>1, ChainRanks DEF Ranked
<1>7. ASSUME NEW x \in S, NEW y \in S,
             Rank(S, x) = Rank(S, y)
      PROVE  x = y
  <2>1. Cardinality(D[x]) = Rank(S, x)
    BY <1>5
  <2>2. Cardinality(D[y]) = Rank(S, y)
    BY <1>5
  <2> QED
    BY <1>6, <1>7, <2>1, <2>2
<1>8. ASSUME NEW n \in 1 .. Cardinality(S)
      PROVE  \E x \in S : Rank(S, x) = n
  <2>1. PICK x \in S : Cardinality(D[x]) = n
    BY <1>6
  <2>2. Cardinality(D[x]) = Rank(S, x)
    BY <1>5
  <2> QED
    BY <2>1, <2>2
<1>9. ASSUME NEW x \in S PROVE Rank(S, x) \in 1 .. Cardinality(S)
  BY <1>5, <1>6
<1> QED
  BY <1>6, <1>7, <1>8, <1>9

\* Ascending lists every member of the set once.
LEMMA AscendingLists ==
  ASSUME NEW S \in SUBSET (Nat \X Nat), IsFiniteSet(S)
  PROVE  /\ Cardinality(S) \in Nat /\ DOMAIN Ascending(S) = 1 .. Cardinality(S)
         /\ \A n \in DOMAIN Ascending(S) : Ascending(S)[n] \in S
         /\ \A m, n \in DOMAIN Ascending(S) : Ascending(S)[m] = Ascending(S)[n] => m = n
         /\ \A p \in S : \E n \in DOMAIN Ascending(S) : Ascending(S)[n] = p
<1> DEFINE D == [p \in S |-> {q \in S : Upto(q, p)}]
<1>1. D \in [S -> SUBSET S]
  OBVIOUS
<1>2. \A p \in S : p \in D[p]
  BY DEF Upto
<1>3. \A p, q \in S : D[p] \subseteq D[q] \/ D[q] \subseteq D[p]
  <2> SUFFICES ASSUME NEW p \in S, NEW q \in S PROVE D[p] \subseteq D[q] \/ D[q] \subseteq D[p]
    OBVIOUS
  <2>1. Upto(p, q) \/ Upto(q, p)
    BY DEF Upto
  <2>2. \A r \in S : (Upto(r, p) /\ Upto(p, q) => Upto(r, q)) /\ (Upto(r, q) /\ Upto(q, p) => Upto(r, p))
    BY DEF Upto
  <2> QED
    BY <2>1, <2>2
<1>4. \A p, q \in S : D[p] = D[q] => p = q
  <2> SUFFICES ASSUME NEW p \in S, NEW q \in S, D[p] = D[q] PROVE p = q
    OBVIOUS
  <2>1. Upto(p, q) /\ Upto(q, p)
    BY <1>2
  <2>2. p[1] = q[1] /\ p[2] = q[2]
    BY <2>1 DEF Upto
  <2> QED
    BY <2>2
<1>5. \A p \in S : D[p] = {q \in S : Upto(q, p)}
  OBVIOUS
<1> HIDE DEF D
<1>6. /\ Cardinality(S) \in Nat
      /\ \A p \in S : Cardinality(D[p]) \in 1 .. Cardinality(S)
      /\ \A p, q \in S : Cardinality(D[p]) = Cardinality(D[q]) => p = q
      /\ \A n \in 1 .. Cardinality(S) : \E p \in S : Cardinality(D[p]) = n
  <2>1. Chain(S, D)
    BY <1>1, <1>2, <1>3, <1>4 DEF Chain
  <2> QED
    BY <2>1, ChainRanks DEF Ranked
<1>7. DOMAIN Ascending(S) = 1 .. Cardinality(S)
  BY DEF Ascending
<1>8. ASSUME NEW n \in 1 .. Cardinality(S)
      PROVE  Ascending(S)[n] \in S /\ Cardinality(D[Ascending(S)[n]]) = n
  <2>1. \E p \in S : Cardinality({q \in S : Upto(q, p)}) = n
    BY <1>5, <1>6
  <2>2. Ascending(S)[n] = CHOOSE p \in S : Cardinality({q \in S : Upto(q, p)}) = n
    BY DEF Ascending
  <2>3. /\ Ascending(S)[n] \in S
        /\ Cardinality({q \in S : Upto(q, Ascending(S)[n])}) = n
    BY <2>1, <2>2
  <2> QED
    BY <1>5, <2>3
<1>9. \A p \in S : \E n \in 1 .. Cardinality(S) : Ascending(S)[n] = p
  BY <1>6, <1>8
<1> QED
  BY <1>6, <1>7, <1>8, <1>9

-----------------------------------------------------------------------------
(* Allocation of keys.                                                      *)

\* Two blocks, two rows, or a block and a row never get one key.
LEMMA AllocationsDiffer ==
  ASSUME NEW rs \in Seq(Row), NEW f \in Seq(Block), NEW from \in Nat, NEW used,
         NEW alloc \in [Needs(rs, f) -> from .. MaxKey], IsAllocation(alloc, from, used)
  PROVE  \A m, n \in Needs(rs, f) : alloc[m] = alloc[n] => m = n
<1> SUFFICES ASSUME NEW m \in Needs(rs, f), NEW n \in Needs(rs, f), alloc[m] = alloc[n]
             PROVE  m = n
  OBVIOUS
<1>1. alloc[m] \in Int /\ alloc[n] \in Int /\ DOMAIN alloc = Needs(rs, f)
  BY SyncBounds
<1>2. ~Earlier(m, n) /\ ~Earlier(n, m)
  BY <1>1 DEF IsAllocation
<1>3. /\ m \in Nat \X {"block", "row"} /\ n \in Nat \X {"block", "row"}
  BY DEF Needs, NewBlocks, Keyless, Live
<1>4. m[2] = n[2] /\ m[1] = n[1]
  BY <1>2, <1>3 DEF Earlier
<1> QED
  BY <1>3, <1>4

\* A non-empty bounded set of numbers has a greatest one.
LEMMA GreatestExists ==
  ASSUME NEW N \in Nat, NEW S \in SUBSET (0 .. N), S # {}
  PROVE  \E k \in S : \A h \in S : h <= k
<1> DEFINE R == {ss \in Nat \X Nat : ss[1] < ss[2]}
           gaps == {N - k : k \in S}
<1>1. IsWellFoundedOn(R, Nat)
  BY NatLessThanWellFounded DEF OpToRel
<1>2. \A k \in S : k \in Nat /\ N - k \in Nat
  OBVIOUS
<1>3. gaps \subseteq Nat /\ gaps # {}
  BY <1>2
<1>4. PICK g \in gaps : \A h \in gaps : <<h, g>> \notin R
  <2> HIDE DEF R, gaps
  <2> QED
    BY <1>1, <1>3, WFMin
<1>5. PICK k \in S : g = N - k
  OBVIOUS
<1>6. ASSUME NEW h \in S PROVE h <= k
  <2>1. <<N - h, N - k>> \notin R /\ <<N - h, N - k>> \in Nat \X Nat
    BY <1>2, <1>4, <1>5
  <2>2. ~(N - h < N - k)
    BY <2>1
  <2> QED
    BY <1>2, <2>2
<1> QED
  BY <1>6

\* The counter passes every key that is given out.
LEMMA CounterPasses ==
  ASSUME NEW rs \in Seq(Row), NEW f \in Seq(Block), NEW from \in Nat,
         NEW alloc \in [Needs(rs, f) -> from .. MaxKey]
  PROVE  /\ NextSeqAfter(alloc, from) \in Nat /\ from <= NextSeqAfter(alloc, from)
         /\ \A n \in Needs(rs, f) : from <= alloc[n] /\ alloc[n] < NextSeqAfter(alloc, from)
<1>1. MaxKey \in Nat /\ DOMAIN alloc = Needs(rs, f)
  BY SyncBounds
<1>2. CASE Needs(rs, f) = {}
  BY <1>1, <1>2 DEF NextSeqAfter
<1>3. CASE Needs(rs, f) # {}
  <2> DEFINE given == {alloc[m] : m \in DOMAIN alloc}
  <2>1. given \in SUBSET (0 .. MaxKey) /\ given # {}
    BY <1>1, <1>3
  <2>2. \E k \in given : \A h \in given : h <= k
    <3> HIDE DEF given
    <3> QED
      BY <1>1, <2>1, GreatestExists
  <2>3. \E k \in {alloc[m] : m \in DOMAIN alloc} : \A m \in DOMAIN alloc : alloc[m] <= k
    BY <2>2
  <2> DEFINE top == CHOOSE k \in {alloc[m] : m \in DOMAIN alloc} :
                      \A m \in DOMAIN alloc : alloc[m] <= k
  <2>4. top \in {alloc[m] : m \in DOMAIN alloc} /\ \A m \in DOMAIN alloc : alloc[m] <= top
    BY <2>3
  <2>5. NextSeqAfter(alloc, from) = 1 + top
    BY <1>1, <1>3 DEF NextSeqAfter
  <2> HIDE DEF top
  <2>6. top \in from .. MaxKey
    BY <1>1, <2>4
  <2> QED
    BY <1>1, <2>4, <2>5, <2>6
<1> QED
  BY <1>2, <1>3

-----------------------------------------------------------------------------
(* The inductive invariant.                                                 *)

SyncTypeOK ==
    /\ rows \in Seq(Row) /\ work.rows \in Seq(Row)
    /\ file \in Seq(Block) /\ work.out \in Seq(Block)
    /\ nextSeq \in Nat \ {0} /\ work.nextSeq \in Nat \ {0}
    /\ phase \in {"idle", "merged", "written"}

\* KeysUnique, for one set of rows and its counter.
Numbered(rs, from) ==
    \A i, j \in DOMAIN rs :
        /\ rs[i].key < from
        /\ i # j /\ rs[i].key = rs[j].key => rs[i].key = NoKey

\* The snapshot names keys that were given out.
Below(sn, from) == DOMAIN sn \subseteq 1 .. from - 1

\* A live row the snapshot says was in the file is there, or was removed.
Covers(rs, sn, f, gone) ==
    \A i \in Live(rs) : rs[i].key \in DOMAIN sn => rs[i].key \in FileKeys(f) \cup gone

Accounted(rs, gone) == \A i \in DOMAIN rs : rs[i].life = "archived" => rs[i].key \in gone

\* An id that stands over two blocks of f is one of Q.
RepeatsOnly(f, Q) ==
    \A i, h \in DOMAIN f : i # h /\ f[i].key = f[h].key /\ f[i].key # NoKey => f[i].key \in Q

\* The ids quoted by the prose of the rows of S.
QuotedBy(rs, S) == UNION {Quoted(rs[i].text) : i \in S}

\* Only prose makes the server write an id over two blocks.
IdsFit(f, rs) == RepeatsOnly(f, QuotedBy(rs, Live(rs)))

SyncInv ==
    /\ SyncTypeOK
    /\ Numbered(rows, nextSeq) /\ Numbered(work.rows, work.nextSeq)
    /\ work.full => IdsFit(work.out, work.rows)
    /\ Below(snap, nextSeq) /\ Below(work.snap, work.nextSeq)
    /\ Accounted(rows, removed) /\ Accounted(work.rows, removed)
    /\ Covers(rows, snap, file, removed)
    /\ phase = "merged" => /\ Covers(rows, snap, work.out, removed)
                           /\ Covers(work.rows, work.snap, work.out, removed)
    /\ phase = "written" => Covers(work.rows, work.snap, file, removed)

-----------------------------------------------------------------------------
(* One merge.                                                               *)

\* What SyncOutcome merges.
Merging(rs, from, f, alloc) ==
    /\ rs \in Seq(Row) /\ Numbered(rs, from) /\ from \in Nat \ {0}
    /\ f \in Seq(Block) /\ ~Fatal(f)
    /\ alloc \in [Needs(rs, f) -> from .. MaxKey]
    /\ IsAllocation(alloc, from, UsedKeys(rs, f))

\* A key that is given out is new to the rows and to the file.
LEMMA GivenKeys ==
  ASSUME NEW rs, NEW from, NEW f, NEW alloc, Merging(rs, from, f, alloc)
  PROVE  /\ NextSeqAfter(alloc, from) \in Nat \ {0} /\ from <= NextSeqAfter(alloc, from)
         /\ \A n \in Needs(rs, f) :
               /\ alloc[n] \in Nat \ {0} /\ from <= alloc[n] /\ alloc[n] < NextSeqAfter(alloc, from)
               /\ alloc[n] \notin FileKeys(f)
         /\ \A m, n \in Needs(rs, f) : alloc[m] = alloc[n] => m = n
<1>1. /\ rs \in Seq(Row) /\ f \in Seq(Block) /\ from \in Nat \ {0}
      /\ alloc \in [Needs(rs, f) -> from .. MaxKey] /\ IsAllocation(alloc, from, UsedKeys(rs, f))
  BY DEF Merging
<1>2. \A m, n \in Needs(rs, f) : alloc[m] = alloc[n] => m = n
  BY <1>1, AllocationsDiffer
<1>3. /\ NextSeqAfter(alloc, from) \in Nat /\ from <= NextSeqAfter(alloc, from)
      /\ \A n \in Needs(rs, f) : from <= alloc[n] /\ alloc[n] < NextSeqAfter(alloc, from)
  BY <1>1, CounterPasses
<1>4. \A n \in Needs(rs, f) : alloc[n] \in Int /\ alloc[n] \notin FileKeys(f)
  BY <1>1, SyncBounds DEF IsAllocation, UsedKeys
<1> QED
  BY <1>1, <1>2, <1>3, <1>4

\* A row after the merge: its key is as it was or new, and it is archived only
\* when it is missing from the file and was in it.
LEMMA MergedRowFacts ==
  ASSUME NEW rs, NEW from, NEW f, NEW alloc, NEW sn, NEW gate,
         Merging(rs, from, f, alloc), NEW i \in DOMAIN rs
  PROVE  LET row == MergedRow(rs, i, f, sn, alloc, gate)
         IN  /\ row \in Row /\ row.key = Key(rs, i, alloc)
             /\ row.life = "archived" =>
                   rs[i].life = "archived" \/ (i \in Missing(rs, f) /\ rs[i].key \in DOMAIN sn)
             /\ row.life \in {"open", "resolved"} => row.life = rs[i].life
<1> DEFINE row == MergedRow(rs, i, f, sn, alloc, gate)
<1>1. rs[i] \in Row /\ f \in Seq(Block)
  BY DEF Merging
<1>2. CASE i \in Keyless(rs)
  <2>1. <<i, "row">> \in Needs(rs, f)
    BY <1>2 DEF Needs
  <2>2. alloc[<<i, "row">>] \in Nat
    BY <2>1, GivenKeys
  <2>3. row = [rs[i] EXCEPT !.key = alloc[<<i, "row">>]]
    BY <1>2 DEF MergedRow
  <2> QED
    BY <1>1, <1>2, <2>2, <2>3 DEF Key, Row
<1>3. CASE i \notin Keyless(rs) /\ i \in Missing(rs, f) /\ rs[i].key \in DOMAIN sn
  <2>1. row = [rs[i] EXCEPT !.life = "archived"]
    BY <1>3 DEF MergedRow
  <2> QED
    BY <1>1, <1>3, <2>1 DEF Key, Row, Lives
<1>4. CASE /\ i \notin Keyless(rs) /\ ~(i \in Missing(rs, f) /\ rs[i].key \in DOMAIN sn)
           /\ i \in Live(rs) /\ rs[i].key \in {f[j].key : j \in Matched(rs, f)}
  <2> DEFINE block == f[BlockOf(f, rs[i].key)]
             text == IF block.text \in Refused THEN Kept[<<rs[i].text, block.text>>] ELSE block.text
             st == FinalStatus(rs[i], block, sn, gate)
  <2>1. \E j \in DOMAIN f : f[j].key = rs[i].key
    BY <1>4 DEF Matched
  <2>2. block \in Block
    BY <1>1, <2>1 DEF BlockOf
  <2>3. row = [rs[i] EXCEPT !.text = text, !.st = st]
    BY <1>4 DEF MergedRow
  <2> HIDE DEF block
  <2>4. text \in Texts /\ st \in Statuses
    BY <1>1, <2>2, TextAssumption DEF FinalStatus, Row, Block
  <2> HIDE DEF text, st
  <2> QED
    BY <1>1, <1>4, <2>3, <2>4 DEF Key, Row
<1>5. CASE /\ i \notin Keyless(rs) /\ ~(i \in Missing(rs, f) /\ rs[i].key \in DOMAIN sn)
           /\ ~(i \in Live(rs) /\ rs[i].key \in {f[j].key : j \in Matched(rs, f)})
  <2>1. row = rs[i]
    BY <1>5 DEF MergedRow
  <2> QED
    BY <1>1, <1>5, <2>1 DEF Key
<1> QED
  BY <1>2, <1>3, <1>4, <1>5

\* The blocks that become rows, in their order: one row each.
LEMMA CreatedRowFacts ==
  ASSUME NEW rs, NEW from, NEW f, NEW alloc, Merging(rs, from, f, alloc)
  PROVE  /\ Cardinality(CreatedBlocks(rs, f)) \in Nat
         /\ \A n \in 1 .. Cardinality(CreatedBlocks(rs, f)) :
              /\ CreatedRow(rs, f, n, alloc) \in Row
              /\ CreatedRow(rs, f, n, alloc).life = "open"
              /\ \E j \in CreatedBlocks(rs, f) :
                    /\ CreatedRow(rs, f, n, alloc).key = alloc[<<j, "block">>]
                    /\ Rank(CreatedBlocks(rs, f), j) = n
<1> DEFINE C == CreatedBlocks(rs, f)
<1>1. f \in Seq(Block)
  BY DEF Merging
<1>2. C \subseteq 1 .. Len(f) /\ IsFiniteSet(1 .. Len(f)) /\ Len(f) \in Nat
  BY <1>1, FS_Interval DEF CreatedBlocks, NewBlocks
<1>3. C \in SUBSET Nat /\ IsFiniteSet(C)
  BY <1>2, FS_Subset
<1>4. Cardinality(C) \in Nat
  BY <1>3, FS_CardinalityType
<1>5. ASSUME NEW n \in 1 .. Cardinality(C)
      PROVE  /\ CreatedRow(rs, f, n, alloc) \in Row
             /\ CreatedRow(rs, f, n, alloc).life = "open"
             /\ \E j \in C : /\ CreatedRow(rs, f, n, alloc).key = alloc[<<j, "block">>]
                             /\ Rank(C, j) = n
  <2> DEFINE j == CHOOSE b \in C : Rank(C, b) = n
  <2>1. \E b \in C : Rank(C, b) = n
    <3> HIDE DEF C
    <3> QED
      BY <1>3, RankedNumbers
  <2>2. j \in C /\ Rank(C, j) = n
    BY <2>1
  <2>3. CreatedRow(rs, f, n, alloc) =
            [key |-> alloc[<<j, "block">>], text |-> f[j].text, st |-> f[j].st, life |-> "open"]
    BY DEF CreatedRow, Rank
  <2> HIDE DEF j
  <2>4. <<j, "block">> \in Needs(rs, f) /\ f[j] \in Block
    BY <1>1, <1>2, <2>2 DEF Needs, CreatedBlocks
  <2>5. alloc[<<j, "block">>] \in Nat
    BY <2>4, GivenKeys
  <2>6. /\ CreatedRow(rs, f, n, alloc) \in Row
        /\ CreatedRow(rs, f, n, alloc).life = "open"
        /\ CreatedRow(rs, f, n, alloc).key = alloc[<<j, "block">>]
    BY <2>3, <2>4, <2>5 DEF Row, Block, Lives
  <2> QED
    BY <2>2, <2>6
<1> QED
  BY <1>4, <1>5

\* Where a row after the merge comes from.
LEMMA RowsAfterFacts ==
  ASSUME NEW rs, NEW from, NEW f, NEW alloc, NEW sn, NEW gate, Merging(rs, from, f, alloc),
         NEW after, after = RowsAfter(rs, f, sn, alloc, gate)
  PROVE  /\ after \in Seq(Row) /\ Len(rs) \in Nat
         /\ DOMAIN rs \subseteq DOMAIN after
         /\ \A i \in DOMAIN rs : after[i] = MergedRow(rs, i, f, sn, alloc, gate)
         /\ \A i \in DOMAIN after \ DOMAIN rs :
               /\ i - Len(rs) \in 1 .. Cardinality(CreatedBlocks(rs, f))
               /\ after[i] = CreatedRow(rs, f, i - Len(rs), alloc)
<1> DEFINE N == Cardinality(CreatedBlocks(rs, f))
           L == Len(rs)
<1>1. L \in Nat /\ DOMAIN rs = 1 .. L
  BY DEF Merging
<1>2. N \in Nat
  BY CreatedRowFacts
<1>3. after = [i \in 1 .. L + N |-> IF i <= L THEN MergedRow(rs, i, f, sn, alloc, gate)
                                    ELSE CreatedRow(rs, f, i - L, alloc)]
  BY DEF RowsAfter
<1> HIDE DEF L, N
<1>4. DOMAIN after = 1 .. L + N
  BY <1>3
<1>5. \A i \in 1 .. L : i \in 1 .. L + N /\ after[i] = MergedRow(rs, i, f, sn, alloc, gate)
  BY <1>1, <1>2, <1>3
<1>6. \A i \in (1 .. L + N) \ (1 .. L) :
         i - L \in 1 .. N /\ after[i] = CreatedRow(rs, f, i - L, alloc)
  BY <1>1, <1>2, <1>3
<1>7. \A i \in 1 .. L + N : after[i] \in Row
  <2>1. \A i \in 1 .. L : after[i] \in Row
    BY <1>1, <1>5, MergedRowFacts
  <2>2. \A n \in 1 .. N : CreatedRow(rs, f, n, alloc) \in Row
    BY CreatedRowFacts DEF N
  <2> QED
    BY <1>6, <2>1, <2>2
<1>8. after \in Seq(Row)
  <2>1. after \in [1 .. L + N -> Row]
    BY <1>3, <1>4, <1>7
  <2>2. L + N \in Nat
    BY <1>1, <1>2
  <2> QED
    BY <2>1, <2>2, SeqDef
<1>9. DOMAIN rs \subseteq DOMAIN after
  BY <1>1, <1>4, <1>5
<1>10. \A i \in DOMAIN rs : after[i] = MergedRow(rs, i, f, sn, alloc, gate)
  BY <1>1, <1>5
<1>11. \A i \in DOMAIN after \ DOMAIN rs :
          i - L \in 1 .. N /\ after[i] = CreatedRow(rs, f, i - L, alloc)
  BY <1>1, <1>4, <1>6
<1> QED
  BY <1>1, <1>8, <1>9, <1>10, <1>11 DEF N, L

\* Two rows after the merge, one of which was there before it.
LEMMA OldRowAfter ==
  ASSUME NEW rs, NEW from, NEW f, NEW alloc, NEW sn, NEW gate, Merging(rs, from, f, alloc),
         NEW after, after = RowsAfter(rs, f, sn, alloc, gate), NEW i \in DOMAIN rs
  PROVE  /\ after[i] \in Row /\ i \in DOMAIN after
         /\ after[i].life = "archived" =>
               rs[i].life = "archived" \/ (i \in Missing(rs, f) /\ rs[i].key \in DOMAIN sn)
         /\ after[i].life \in {"open", "resolved"} => after[i].life = rs[i].life
         /\ \/ i \notin Keyless(rs) /\ after[i].key = rs[i].key
            \/ <<i, "row">> \in Needs(rs, f) /\ after[i].key = alloc[<<i, "row">>]
<1>1. after[i] = MergedRow(rs, i, f, sn, alloc, gate) /\ i \in DOMAIN after
  BY RowsAfterFacts
<1>2. /\ after[i] \in Row /\ after[i].key = Key(rs, i, alloc)
      /\ after[i].life = "archived" =>
            rs[i].life = "archived" \/ (i \in Missing(rs, f) /\ rs[i].key \in DOMAIN sn)
      /\ after[i].life \in {"open", "resolved"} => after[i].life = rs[i].life
  BY <1>1, MergedRowFacts
<1>3. \/ i \notin Keyless(rs) /\ Key(rs, i, alloc) = rs[i].key
      \/ <<i, "row">> \in Needs(rs, f) /\ Key(rs, i, alloc) = alloc[<<i, "row">>]
  BY DEF Key, Needs
<1> QED
  BY <1>1, <1>2, <1>3

\* A row the merge creates.
LEMMA NewRowAfter ==
  ASSUME NEW rs, NEW from, NEW f, NEW alloc, NEW sn, NEW gate, Merging(rs, from, f, alloc),
         NEW after, after = RowsAfter(rs, f, sn, alloc, gate), NEW i \in DOMAIN after \ DOMAIN rs
  PROVE  /\ after[i] \in Row /\ after[i].life = "open"
         /\ \E j \in CreatedBlocks(rs, f) :
               /\ <<j, "block">> \in Needs(rs, f) /\ after[i].key = alloc[<<j, "block">>]
               /\ Rank(CreatedBlocks(rs, f), j) = i - Len(rs)
<1>1. /\ i - Len(rs) \in 1 .. Cardinality(CreatedBlocks(rs, f))
      /\ after[i] = CreatedRow(rs, f, i - Len(rs), alloc)
  BY RowsAfterFacts
<1>2. \A j \in CreatedBlocks(rs, f) : <<j, "block">> \in Needs(rs, f)
  BY DEF Needs, CreatedBlocks
<1>3. /\ after[i] \in Row /\ after[i].life = "open"
      /\ \E j \in CreatedBlocks(rs, f) :
            /\ after[i].key = alloc[<<j, "block">>]
            /\ Rank(CreatedBlocks(rs, f), j) = i - Len(rs)
  <2> DEFINE n == i - Len(rs)
  <2> HIDE DEF n
  <2>1. n \in 1 .. Cardinality(CreatedBlocks(rs, f)) /\ after[i] = CreatedRow(rs, f, n, alloc)
    BY <1>1 DEF n
  <2>2. /\ CreatedRow(rs, f, n, alloc) \in Row
        /\ CreatedRow(rs, f, n, alloc).life = "open"
        /\ \E j \in CreatedBlocks(rs, f) :
              /\ CreatedRow(rs, f, n, alloc).key = alloc[<<j, "block">>]
              /\ Rank(CreatedBlocks(rs, f), j) = n
    BY <2>1, CreatedRowFacts
  <2> QED
    BY <2>1, <2>2 DEF n
<1> QED
  BY <1>2, <1>3

\* After the merge too, no two rows share a key, and the counter is past them.
LEMMA RowsAfterNumbered ==
  ASSUME NEW rs, NEW from, NEW f, NEW alloc, NEW sn, NEW gate, Merging(rs, from, f, alloc),
         NEW after, after = RowsAfter(rs, f, sn, alloc, gate)
  PROVE  Numbered(after, NextSeqAfter(alloc, from))
<1> DEFINE next == NextSeqAfter(alloc, from)
<1>1. /\ next \in Nat \ {0} /\ from \in Nat /\ from <= next
      /\ \A n \in Needs(rs, f) : alloc[n] \in Nat /\ from <= alloc[n] /\ alloc[n] < next
      /\ \A m, n \in Needs(rs, f) : alloc[m] = alloc[n] => m = n
  BY GivenKeys DEF Merging
<1>2. rs \in Seq(Row) /\ Numbered(rs, from)
  BY DEF Merging
<1>3. ASSUME NEW i \in DOMAIN rs PROVE rs[i].key \in Nat /\ rs[i].key < from
  <2>1. rs[i] \in Row
    BY <1>2
  <2> QED
    BY <1>2, <2>1 DEF Numbered, Row
<1>4. ASSUME NEW i \in DOMAIN rs
      PROVE  \/ i \notin Keyless(rs) /\ after[i].key = rs[i].key
             \/ <<i, "row">> \in Needs(rs, f) /\ after[i].key = alloc[<<i, "row">>]
  BY OldRowAfter
<1>5. ASSUME NEW i \in DOMAIN after \ DOMAIN rs
      PROVE  \E j \in CreatedBlocks(rs, f) :
                /\ <<j, "block">> \in Needs(rs, f) /\ after[i].key = alloc[<<j, "block">>]
                /\ Rank(CreatedBlocks(rs, f), j) = i - Len(rs)
  BY NewRowAfter
<1>6. after \in Seq(Row) /\ Len(rs) \in Nat /\ DOMAIN rs \subseteq DOMAIN after
  BY RowsAfterFacts
<1> HIDE DEF next
<1>7. ASSUME NEW i \in DOMAIN after PROVE after[i].key < next
  <2>1. CASE i \in DOMAIN rs
    <3>1. CASE after[i].key = rs[i].key
      BY <1>1, <1>3, <2>1, <3>1
    <3>2. CASE after[i].key # rs[i].key
      BY <1>1, <1>4, <2>1, <3>2
    <3> QED
      BY <3>1, <3>2
  <2>2. CASE i \notin DOMAIN rs
    BY <1>1, <1>5, <2>2
  <2> QED
    BY <2>1, <2>2
<1>8. ASSUME NEW i \in DOMAIN rs, NEW h \in DOMAIN rs,
             after[i].key = after[h].key, after[i].key # NoKey
      PROVE  i = h
  <2>1. CASE after[i].key = rs[i].key /\ after[h].key = rs[h].key
    BY <1>2, <1>8, <2>1 DEF Numbered
  <2>2. CASE /\ <<i, "row">> \in Needs(rs, f) /\ after[i].key = alloc[<<i, "row">>]
             /\ <<h, "row">> \in Needs(rs, f) /\ after[h].key = alloc[<<h, "row">>]
    <3>1. <<i, "row">> = <<h, "row">>
      BY <1>1, <1>8, <2>2
    <3> QED
      BY <3>1
  <2>3. CASE after[i].key = rs[i].key /\ <<h, "row">> \in Needs(rs, f) /\ after[h].key = alloc[<<h, "row">>]
    <3>1. rs[i].key < from /\ from <= alloc[<<h, "row">>] /\ alloc[<<h, "row">>] \in Nat
      BY <1>1, <1>3, <2>3
    <3>2. rs[i].key = alloc[<<h, "row">>]
      BY <1>8, <2>3
    <3>3. rs[i].key \in Nat /\ from \in Nat
      BY <1>1, <1>3
    <3> QED
      BY <3>1, <3>2, <3>3
  <2>4. CASE <<i, "row">> \in Needs(rs, f) /\ after[i].key = alloc[<<i, "row">>] /\ after[h].key = rs[h].key
    <3>1. rs[h].key < from /\ from <= alloc[<<i, "row">>] /\ alloc[<<i, "row">>] \in Nat
      BY <1>1, <1>3, <2>4
    <3>2. rs[h].key = alloc[<<i, "row">>]
      BY <1>8, <2>4
    <3>3. rs[h].key \in Nat /\ from \in Nat
      BY <1>1, <1>3
    <3> QED
      BY <3>1, <3>2, <3>3
  <2> QED
    BY <1>4, <2>1, <2>2, <2>3, <2>4
<1>9. ASSUME NEW i \in DOMAIN rs, NEW h \in DOMAIN after \ DOMAIN rs
      PROVE  after[i].key # after[h].key
  <2>1. PICK j \in CreatedBlocks(rs, f) :
               <<j, "block">> \in Needs(rs, f) /\ after[h].key = alloc[<<j, "block">>]
    BY <1>5
  <2>2. CASE after[i].key = rs[i].key
    BY <1>1, <1>3, <2>1, <2>2
  <2>3. CASE <<i, "row">> \in Needs(rs, f) /\ after[i].key = alloc[<<i, "row">>]
    <3>1. <<i, "row">> # <<j, "block">>
      OBVIOUS
    <3> QED
      BY <1>1, <2>1, <2>3, <3>1
  <2> QED
    BY <1>4, <2>2, <2>3
<1>10. ASSUME NEW i \in DOMAIN after \ DOMAIN rs, NEW h \in DOMAIN after \ DOMAIN rs,
             after[i].key = after[h].key
      PROVE  i = h
  <2>1. PICK j \in CreatedBlocks(rs, f) :
               /\ <<j, "block">> \in Needs(rs, f) /\ after[i].key = alloc[<<j, "block">>]
               /\ Rank(CreatedBlocks(rs, f), j) = i - Len(rs)
    BY <1>5
  <2>2. PICK l \in CreatedBlocks(rs, f) :
               /\ <<l, "block">> \in Needs(rs, f) /\ after[h].key = alloc[<<l, "block">>]
               /\ Rank(CreatedBlocks(rs, f), l) = h - Len(rs)
    BY <1>5
  <2>3. <<j, "block">> = <<l, "block">>
    BY <1>1, <1>10, <2>1, <2>2
  <2>4. j = l
    BY <2>3
  <2>5. i - Len(rs) = h - Len(rs)
    BY <2>1, <2>2, <2>4
  <2>6. i \in Int /\ h \in Int /\ Len(rs) \in Int
    BY <1>6
  <2> QED
    BY <2>5, <2>6
<1>11. \A i, h \in DOMAIN after : i # h /\ after[i].key = after[h].key => after[i].key = NoKey
  BY <1>8, <1>9, <1>10
<1> QED
  BY <1>7, <1>11 DEF Numbered, next

\* The blocks of the file keep their keys, but for those that become rows.
LEMMA MergedBlockFacts ==
  ASSUME NEW rs, NEW from, NEW f, NEW alloc, NEW sn, NEW gate,
         Merging(rs, from, f, alloc), NEW j \in DOMAIN f
  PROVE  LET block == MergedBlock(rs, f, j, sn, alloc, gate)
         IN  /\ block \in Block
             /\ block.key = IF j \in CreatedBlocks(rs, f) THEN alloc[<<j, "block">>] ELSE f[j].key
<1> DEFINE block == MergedBlock(rs, f, j, sn, alloc, gate)
<1>1. f[j] \in Block /\ rs \in Seq(Row)
  BY DEF Merging
<1>2. CASE j \in CreatedBlocks(rs, f)
  <2>1. <<j, "block">> \in Needs(rs, f)
    BY <1>2 DEF Needs, CreatedBlocks
  <2>2. alloc[<<j, "block">>] \in Nat
    BY <2>1, GivenKeys
  <2>3. block = [f[j] EXCEPT !.key = alloc[<<j, "block">>]]
    BY <1>2 DEF MergedBlock
  <2> QED
    BY <1>1, <1>2, <2>2, <2>3 DEF Block
<1>3. CASE j \notin CreatedBlocks(rs, f) /\ j \in Matched(rs, f)
  <2> DEFINE st == FinalStatus(rs[RowOf(rs, f[j].key)], f[j], sn, gate)
  <2>1. \E i \in DOMAIN rs : rs[i].key = f[j].key /\ rs[i].life # "deleted"
    BY <1>3 DEF Matched, Known
  <2>2. rs[RowOf(rs, f[j].key)] \in Row
    BY <1>1, <2>1 DEF RowOf
  <2>3. st \in Statuses
    BY <1>1, <2>2 DEF FinalStatus, Row, Block
  <2>4. block = [f[j] EXCEPT !.st = st]
    BY <1>3 DEF MergedBlock
  <2> HIDE DEF st
  <2> QED
    BY <1>1, <1>3, <2>3, <2>4 DEF Block
<1>4. CASE j \notin CreatedBlocks(rs, f) /\ j \notin Matched(rs, f)
  BY <1>1, <1>4 DEF MergedBlock
<1> QED
  BY <1>2, <1>3, <1>4

\* Two files one after the other repeat what each repeats and what they share.
LEMMA JoinedFiles ==
  ASSUME NEW s \in Seq(Block), NEW t \in Seq(Block), NEW Q, RepeatsOnly(s, Q), RepeatsOnly(t, Q),
         FileKeys(s) \cap FileKeys(t) \subseteq Q
  PROVE  /\ s \o t \in Seq(Block) /\ RepeatsOnly(s \o t, Q)
         /\ FileKeys(s \o t) = FileKeys(s) \cup FileKeys(t)
<1>1. /\ s \o t \in Seq(Block) /\ Len(s) \in Nat /\ Len(t) \in Nat
      /\ DOMAIN s = 1 .. Len(s) /\ DOMAIN t = 1 .. Len(t)
      /\ DOMAIN (s \o t) = 1 .. Len(s) + Len(t)
  BY ConcatProperties
<1>2. \A i \in DOMAIN (s \o t) :
         \/ i \in DOMAIN s /\ (s \o t)[i] = s[i]
         \/ i \notin DOMAIN s /\ i - Len(s) \in DOMAIN t /\ (s \o t)[i] = t[i - Len(s)]
  BY <1>1
<1>3. \A i \in DOMAIN s : i \in DOMAIN (s \o t) /\ (s \o t)[i] = s[i]
  BY <1>1
<1>4. \A i \in DOMAIN t : i + Len(s) \in DOMAIN (s \o t) /\ (s \o t)[i + Len(s)] = t[i]
  BY <1>1
<1>5. FileKeys(s \o t) = FileKeys(s) \cup FileKeys(t)
  <2> DEFINE st == s \o t
  <2> HIDE DEF st
  <2>1. \A i \in DOMAIN st :
           \/ i \in DOMAIN s /\ st[i] = s[i]
           \/ i - Len(s) \in DOMAIN t /\ st[i] = t[i - Len(s)]
    BY <1>2 DEF st
  <2>2. \A i \in DOMAIN s : i \in DOMAIN st /\ st[i] = s[i]
    BY <1>3 DEF st
  <2>3. \A i \in DOMAIN t : i + Len(s) \in DOMAIN st /\ st[i + Len(s)] = t[i]
    BY <1>4 DEF st
  <2>4. FileKeys(st) \subseteq FileKeys(s) \cup FileKeys(t)
    BY <2>1 DEF FileKeys
  <2>5. FileKeys(s) \cup FileKeys(t) \subseteq FileKeys(st)
    BY <2>2, <2>3 DEF FileKeys
  <2> QED
    BY <2>4, <2>5 DEF st
<1>6. ASSUME NEW i \in DOMAIN (s \o t), NEW h \in DOMAIN (s \o t), i # h,
             (s \o t)[i].key = (s \o t)[h].key, (s \o t)[i].key # NoKey
      PROVE  (s \o t)[i].key \in Q
  <2>1. CASE i \in DOMAIN s /\ h \in DOMAIN s
    BY <1>2, <1>6, <2>1 DEF RepeatsOnly
  <2>2. CASE i \notin DOMAIN s /\ h \notin DOMAIN s
    <3>1. i - Len(s) # h - Len(s)
      BY <1>1, <1>6
    <3> QED
      BY <1>2, <1>6, <2>2, <3>1 DEF RepeatsOnly
  <2>3. CASE i \in DOMAIN s /\ h \notin DOMAIN s
    BY <1>2, <1>6, <2>3 DEF FileKeys
  <2>4. CASE i \notin DOMAIN s /\ h \in DOMAIN s
    BY <1>2, <1>6, <2>4 DEF FileKeys
  <2> QED
    BY <2>1, <2>2, <2>3, <2>4
<1> QED
  BY <1>1, <1>5, <1>6 DEF RepeatsOnly

-----------------------------------------------------------------------------
(* The blocks rendered from rows.                                           *)

LEMMA PiecesFinite ==
  ASSUME NEW rs \in Seq(Row), NEW S \in SUBSET DOMAIN rs
  PROVE  /\ Pieces(rs, S) \in SUBSET (Nat \X Nat) /\ IsFiniteSet(Pieces(rs, S))
         /\ \A p \in Pieces(rs, S) : p[1] \in S /\ p[2] \in DOMAIN Parts[rs[p[1]].text]
         /\ \A i \in S : <<i, 1>> \in Pieces(rs, S)
<1> DEFINE piece == [i \in S |-> {i} \X DOMAIN Parts[rs[i].text]]
           all == {piece[i] : i \in S}
<1>1. ASSUME NEW i \in S
      PROVE  /\ i \in Nat /\ rs[i].text \in Texts
             /\ Len(Parts[rs[i].text]) \in Nat
             /\ DOMAIN Parts[rs[i].text] = 1 .. Len(Parts[rs[i].text])
             /\ 1 \in DOMAIN Parts[rs[i].text]
  <2>1. i \in Nat /\ rs[i].text \in Texts
    <3>1. rs[i] \in Row /\ i \in Nat
      OBVIOUS
    <3> QED
      BY <3>1 DEF Row
  <2>2. Parts[rs[i].text] \in Seq(Block) /\ Parts[rs[i].text] # <<>>
    BY <2>1, TextAssumption DEF Block
  <2> QED
    BY <2>1, <2>2
<1>2. ASSUME NEW i \in S PROVE IsFiniteSet(piece[i])
  <2>1. IsFiniteSet({i})
    BY FS_Singleton
  <2> DEFINE len == Len(Parts[rs[i].text])
  <2>2. len \in Int /\ DOMAIN Parts[rs[i].text] = 1 .. len
    BY <1>1
  <2> HIDE DEF len
  <2>3. IsFiniteSet(1 .. len)
    BY <2>2, FS_Interval
  <2> QED
    BY <2>1, <2>2, <2>3, FS_Product
<1>3. IsFiniteSet(S)
  <2>1. IsFiniteSet(1 .. Len(rs)) /\ S \subseteq 1 .. Len(rs)
    BY FS_Interval
  <2> QED
    BY <2>1, FS_Subset
<1>4. IsFiniteSet(all)
  <2>1. piece \in Surjection(S, all)
    BY DEF Surjection
  <2> HIDE DEF piece, all
  <2> QED
    BY <1>3, <2>1, FS_Surjection
<1>5. IsFiniteSet(UNION all)
  <2>1. \A x \in all : IsFiniteSet(x)
    BY <1>2
  <2> HIDE DEF all
  <2> QED
    BY <1>4, <2>1, FS_UNION
<1>6. Pieces(rs, S) = UNION all
  BY DEF Pieces
<1>7. \A p \in Pieces(rs, S) :
         /\ p \in Nat \X Nat /\ p[1] \in S /\ p[2] \in DOMAIN Parts[rs[p[1]].text]
  <2> SUFFICES ASSUME NEW p \in Pieces(rs, S)
               PROVE  /\ p \in Nat \X Nat /\ p[1] \in S /\ p[2] \in DOMAIN Parts[rs[p[1]].text]
    OBVIOUS
  <2>1. PICK i \in S : p \in {i} \X DOMAIN Parts[rs[i].text]
    BY DEF Pieces
  <2>2. DOMAIN Parts[rs[i].text] \subseteq Nat /\ i \in Nat
    BY <1>1
  <2> QED
    BY <2>1, <2>2
<1>8. \A i \in S : <<i, 1>> \in Pieces(rs, S)
  BY <1>1 DEF Pieces
<1> QED
  BY <1>5, <1>6, <1>7, <1>8

\* The first block of a rendered row is the row's own; the others are what its
\* prose says.
LEMMA RenderedIs ==
  ASSUME NEW key, NEW text \in Texts, NEW st
  PROVE  /\ 1 \in DOMAIN Parts[text]
         /\ Rendered(key, text, st)[1] =
                [key |-> key, text |-> Parts[text][1].text, st |-> st, ok |-> TRUE]
         /\ \A n \in DOMAIN Parts[text] :
               /\ Rendered(key, text, st)[n].text \in Plain
               /\ key \in Nat /\ st \in Statuses => Rendered(key, text, st)[n] \in Block
               /\ n # 1 => Rendered(key, text, st)[n] \in Split(text)
<1> DEFINE parts == Parts[text]
           own == [key |-> key, text |-> parts[1].text, st |-> st, ok |-> TRUE]
<1>1. parts \in Seq(Block) /\ parts # <<>>
  BY TextAssumption DEF Block
<1>2. Rendered(key, text, st) = [n \in DOMAIN parts |-> IF n = 1 THEN own ELSE parts[n]]
  BY DEF Rendered
<1>3. DOMAIN parts = 1 .. Len(parts) /\ Len(parts) \in Nat /\ 1 \in DOMAIN parts
  BY <1>1
<1>4. \A n \in DOMAIN parts : parts[n] \in Block /\ parts[n].text \in Texts
  <2>1. \A n \in DOMAIN parts : parts[n] \in Block
    BY <1>1
  <2> QED
    BY <2>1 DEF Block
<1>5. \A n \in DOMAIN parts : parts[n].text \in Plain
  BY <1>4, TextAssumption DEF Plain
<1> HIDE DEF parts
<1>6. key \in Nat /\ st \in Statuses => own \in Block
  BY <1>3, <1>4 DEF Block
<1>7. own.text = parts[1].text
  OBVIOUS
<1> HIDE DEF own
<1>8. \A n \in DOMAIN parts : n # 1 => parts[n] \in Split(text)
  BY <1>3 DEF Split, parts
<1>9. /\ Rendered(key, text, st)[1] = own
      /\ \A n \in DOMAIN parts : n # 1 => Rendered(key, text, st)[n] = parts[n]
  BY <1>2, <1>3
<1>10. ASSUME NEW n \in DOMAIN parts
       PROVE  /\ Rendered(key, text, st)[n].text \in Plain
              /\ key \in Nat /\ st \in Statuses => Rendered(key, text, st)[n] \in Block
              /\ n # 1 => Rendered(key, text, st)[n] \in Split(text)
  <2>1. CASE n = 1
    BY <1>3, <1>5, <1>6, <1>7, <1>9, <2>1
  <2>2. CASE n # 1
    BY <1>4, <1>5, <1>8, <1>9, <2>2
  <2> QED
    BY <2>1, <2>2
<1> QED
  BY <1>3, <1>9, <1>10 DEF parts, own

\* A text the parser reads as one block: nothing is split off, nothing quoted.
LEMMA PlainText ==
  ASSUME NEW text \in Plain
  PROVE  Parts[text][1].text = text /\ Split(text) = {} /\ Quoted(text) = {}
BY DEF Plain, Split, Quoted

\* Rows rendered into the file: one block with the key of each, and others
\* with the ids that their prose quotes.
LEMMA RenderedFacts ==
  ASSUME NEW rs \in Seq(Row), NEW S \in SUBSET DOMAIN rs, NEW alloc,
         \A i \in S : Key(rs, i, alloc) \in Nat \ {0},
         \A i, h \in S : Key(rs, i, alloc) = Key(rs, h, alloc) => i = h
  PROVE  /\ RenderedRows(rs, S, alloc) \in Seq(Block)
         /\ RepeatsOnly(RenderedRows(rs, S, alloc), QuotedBy(rs, S))
         /\ FileKeys(RenderedRows(rs, S, alloc)) \subseteq
                {Key(rs, i, alloc) : i \in S} \cup QuotedBy(rs, S)
         /\ {Key(rs, i, alloc) : i \in S} \subseteq FileKeys(RenderedRows(rs, S, alloc))
<1> DEFINE P == Pieces(rs, S)
           pieces == Ascending(P)
           out == RenderedRows(rs, S, alloc)
<1>1. /\ P \in SUBSET (Nat \X Nat) /\ IsFiniteSet(P)
      /\ \A p \in P : p[1] \in S /\ p[2] \in DOMAIN Parts[rs[p[1]].text]
      /\ \A i \in S : <<i, 1>> \in P
  BY PiecesFinite
<1>2. /\ Cardinality(P) \in Nat /\ DOMAIN pieces = 1 .. Cardinality(P)
      /\ \A n \in DOMAIN pieces : pieces[n] \in P
      /\ \A m, n \in DOMAIN pieces : pieces[m] = pieces[n] => m = n
      /\ \A p \in P : \E n \in DOMAIN pieces : pieces[n] = p
  <2> HIDE DEF P
  <2> QED
    BY <1>1, AscendingLists
<1>3. out = [n \in DOMAIN pieces |->
               Rendered(Key(rs, pieces[n][1], alloc), rs[pieces[n][1]].text, rs[pieces[n][1]].st)[pieces[n][2]]]
  BY DEF RenderedRows
<1>4. ASSUME NEW i \in S, NEW n \in DOMAIN Parts[rs[i].text]
      PROVE  /\ Rendered(Key(rs, i, alloc), rs[i].text, rs[i].st)[n] \in Block
             /\ n = 1 => Rendered(Key(rs, i, alloc), rs[i].text, rs[i].st)[n].key = Key(rs, i, alloc)
             /\ n # 1 => Rendered(Key(rs, i, alloc), rs[i].text, rs[i].st)[n].key
                            \in {NoKey} \cup QuotedBy(rs, S)
  <2> DEFINE blocks == Rendered(Key(rs, i, alloc), rs[i].text, rs[i].st)
  <2>1. rs[i] \in Row
    OBVIOUS
  <2>2. rs[i].text \in Texts /\ rs[i].st \in Statuses
    BY <2>1 DEF Row
  <2>3. /\ blocks[1] = [key |-> Key(rs, i, alloc), text |-> Parts[rs[i].text][1].text,
                        st |-> rs[i].st, ok |-> TRUE]
        /\ blocks[n] \in Block
        /\ n # 1 => blocks[n] \in Split(rs[i].text)
    BY <2>2, RenderedIs
  <2> HIDE DEF blocks
  <2>4. ASSUME n # 1 PROVE blocks[n].key \in {NoKey} \cup QuotedBy(rs, S)
    <3>1. blocks[n].key \in {p.key : p \in Split(rs[i].text)}
      BY <2>3, <2>4
    <3>2. blocks[n].key = NoKey \/ blocks[n].key \in Quoted(rs[i].text)
      BY <3>1 DEF Quoted
    <3> QED
      BY <3>2 DEF QuotedBy
  <2>5. n = 1 => blocks[n].key = Key(rs, i, alloc)
    BY <2>3
  <2> QED
    BY <2>3, <2>4, <2>5 DEF blocks
<1> HIDE DEF P, pieces, out
<1>5. ASSUME NEW n \in DOMAIN pieces
      PROVE  /\ pieces[n] \in P /\ pieces[n][1] \in S
             /\ out[n] \in Block
             /\ pieces[n][2] = 1 => out[n].key = Key(rs, pieces[n][1], alloc)
             /\ pieces[n][2] # 1 => out[n].key \in {NoKey} \cup QuotedBy(rs, S)
  <2> DEFINE i == pieces[n][1]
             k == pieces[n][2]
  <2>1. pieces[n] \in P
    BY <1>2
  <2>2. i \in S /\ k \in DOMAIN Parts[rs[i].text]
    BY <1>1, <2>1
  <2>3. out[n] = Rendered(Key(rs, i, alloc), rs[i].text, rs[i].st)[k]
    BY <1>3
  <2> HIDE DEF i, k
  <2>4. /\ out[n] \in Block
        /\ k = 1 => out[n].key = Key(rs, i, alloc)
        /\ k # 1 => out[n].key \in {NoKey} \cup QuotedBy(rs, S)
    BY <1>4, <2>2, <2>3
  <2> QED
    BY <2>1, <2>2, <2>4 DEF i, k
<1>6. DOMAIN out = DOMAIN pieces
  BY <1>3
<1>7. out \in Seq(Block)
  <2>1. out \in [1 .. Cardinality(P) -> Block]
    BY <1>2, <1>3, <1>5
  <2> QED
    BY <1>2, <2>1, SeqDef
<1>8. RepeatsOnly(out, QuotedBy(rs, S))
  <2> SUFFICES ASSUME NEW m \in DOMAIN out, NEW n \in DOMAIN out, m # n,
                      out[m].key = out[n].key, out[m].key # NoKey, out[m].key \notin QuotedBy(rs, S)
               PROVE  FALSE
    BY DEF RepeatsOnly
  <2>1. /\ pieces[m] \in P /\ pieces[m][1] \in S /\ pieces[m][2] = 1
        /\ pieces[n] \in P /\ pieces[n][1] \in S /\ pieces[n][2] = 1
        /\ Key(rs, pieces[m][1], alloc) = Key(rs, pieces[n][1], alloc)
    BY <1>5, <1>6
  <2>2. pieces[m][1] = pieces[n][1] /\ pieces[m][2] = pieces[n][2]
    BY <2>1
  <2>3. pieces[m] \in Nat \X Nat /\ pieces[n] \in Nat \X Nat
    BY <1>1, <2>1
  <2>4. pieces[m] = pieces[n]
    BY <2>2, <2>3
  <2> QED
    BY <1>2, <1>6, <2>4
<1>9. FileKeys(out) \subseteq {Key(rs, i, alloc) : i \in S} \cup QuotedBy(rs, S)
  BY <1>5, <1>6 DEF FileKeys
<1>10. ASSUME NEW i \in S PROVE Key(rs, i, alloc) \in FileKeys(out)
  <2>1. <<i, 1>> \in P
    BY <1>1
  <2>2. PICK n \in DOMAIN pieces : pieces[n] = <<i, 1>>
    BY <1>2, <2>1
  <2>3. out[n].key = Key(rs, i, alloc)
    BY <1>5, <2>2
  <2>4. Key(rs, i, alloc) # NoKey
    BY DEF NoKey
  <2> QED
    BY <1>6, <2>3, <2>4 DEF FileKeys
<1> QED
  BY <1>7, <1>8, <1>9, <1>10 DEF out

\* The ids of a file that name a row.
KnownKeys(rs, f) == {k \in FileKeys(f) : Known(rs, k)}

\* The file after the merge has no id twice but what the prose of an appended
\* row quotes; the ids of rows stay in it, and every id the merge gives out or
\* appends is in it.
LEMMA FileAfterFacts ==
  ASSUME NEW rs, NEW from, NEW f, NEW alloc, NEW sn, NEW gate, Merging(rs, from, f, alloc),
         NEW out, out = FileAfter(rs, f, sn, alloc, gate)
  PROVE  /\ out \in Seq(Block)
         /\ RepeatsOnly(out, QuotedBy(rs, Appended(rs, f, sn) \cup Keyless(rs)))
         /\ KnownKeys(rs, f) \subseteq FileKeys(out)
         /\ \A j \in CreatedBlocks(rs, f) : alloc[<<j, "block">>] \in FileKeys(out)
         /\ \A i \in Appended(rs, f, sn) : rs[i].key \in FileKeys(out)
         /\ \A i \in Keyless(rs) : alloc[<<i, "row">>] \in FileKeys(out)
<1> DEFINE C == CreatedBlocks(rs, f)
           merged == [j \in DOMAIN f |-> MergedBlock(rs, f, j, sn, alloc, gate)]
           listed == RenderedRows(rs, Appended(rs, f, sn), alloc)
           keyed == RenderedRows(rs, Keyless(rs), alloc)
           Q == QuotedBy(rs, Appended(rs, f, sn) \cup Keyless(rs))
           NewKeys == {alloc[<<j, "block">>] : j \in C}
<1>1. /\ rs \in Seq(Row) /\ f \in Seq(Block) /\ ~Fatal(f) /\ Numbered(rs, from) /\ from \in Nat
  BY DEF Merging
<1>2. /\ \A n \in Needs(rs, f) : /\ alloc[n] \in Nat \ {0} /\ from <= alloc[n]
                                 /\ alloc[n] \notin FileKeys(f)
      /\ \A m, n \in Needs(rs, f) : alloc[m] = alloc[n] => m = n
  BY GivenKeys
<1>3. /\ \A j \in C : j \in DOMAIN f /\ <<j, "block">> \in Needs(rs, f) /\ ~Known(rs, f[j].key)
      /\ \A i \in Keyless(rs) : i \in DOMAIN rs /\ <<i, "row">> \in Needs(rs, f)
  BY DEF Needs, CreatedBlocks, NewBlocks, Keyless, Live
<1>4. \A i \in DOMAIN rs : rs[i].key \in Nat /\ rs[i].key < from
  <2> SUFFICES ASSUME NEW i \in DOMAIN rs PROVE rs[i].key \in Nat /\ rs[i].key < from
    OBVIOUS
  <2>1. rs[i] \in Row
    BY <1>1
  <2> QED
    BY <1>1, <2>1 DEF Numbered, Row
<1>5. ASSUME NEW j \in DOMAIN f
      PROVE  /\ merged[j] \in Block
             /\ merged[j].key = IF j \in C THEN alloc[<<j, "block">>] ELSE f[j].key
  <2>1. merged[j] = MergedBlock(rs, f, j, sn, alloc, gate)
    OBVIOUS
  <2> HIDE DEF merged
  <2> QED
    BY <2>1, MergedBlockFacts
<1>6. merged \in Seq(Block)
  <2>1. DOMAIN f = 1 .. Len(f) /\ Len(f) \in Nat
    BY <1>1
  <2>2. merged \in [1 .. Len(f) -> Block]
    BY <1>5, <2>1
  <2> QED
    BY <2>1, <2>2, SeqDef
<1>7. DOMAIN merged = DOMAIN f
  OBVIOUS
<1> HIDE DEF merged, C
<1>8. FileKeys(merged) \subseteq FileKeys(f) \cup NewKeys
  BY <1>5, <1>7 DEF FileKeys
<1>9. \A j \in C : alloc[<<j, "block">>] \in FileKeys(merged)
  <2> SUFFICES ASSUME NEW j \in C PROVE alloc[<<j, "block">>] \in FileKeys(merged)
    OBVIOUS
  <2>1. j \in DOMAIN merged /\ merged[j].key = alloc[<<j, "block">>]
    BY <1>3, <1>5, <1>7
  <2>2. alloc[<<j, "block">>] # NoKey
    BY <1>2, <1>3 DEF NoKey
  <2> QED
    BY <2>1, <2>2 DEF FileKeys
<1>10. ASSUME NEW k \in FileKeys(f), Known(rs, k) PROVE k \in FileKeys(merged)
  <2>1. PICK j \in DOMAIN f : f[j].key = k /\ k # NoKey
    BY DEF FileKeys
  <2>2. j \notin C
    BY <1>3, <1>10, <2>1
  <2>3. j \in DOMAIN merged /\ merged[j].key = k
    BY <1>5, <1>7, <2>1, <2>2
  <2> QED
    BY <2>1, <2>3 DEF FileKeys
<1>11. ~Fatal(merged)
  <2> SUFFICES ASSUME NEW j \in DOMAIN f, NEW h \in DOMAIN f, j # h,
                      merged[j].key = merged[h].key, merged[j].key # NoKey
               PROVE  FALSE
    BY <1>7 DEF Fatal
  <2>1. CASE j \notin C /\ h \notin C
    BY <1>1, <1>5, <2>1 DEF Fatal
  <2>2. CASE j \in C /\ h \in C
    <3>1. <<j, "block">> = <<h, "block">>
      BY <1>2, <1>3, <1>5, <2>2
    <3> QED
      BY <3>1
  <2>3. CASE j \in C /\ h \notin C
    <3>1. f[h].key \in FileKeys(f) /\ f[h].key = alloc[<<j, "block">>]
      BY <1>5, <2>3 DEF FileKeys
    <3> QED
      BY <1>2, <1>3, <2>3, <3>1
  <2>4. CASE j \notin C /\ h \in C
    <3>1. f[j].key \in FileKeys(f) /\ f[j].key = alloc[<<h, "block">>]
      BY <1>5, <2>4 DEF FileKeys
    <3> QED
      BY <1>2, <1>3, <2>4, <3>1
  <2> QED
    BY <2>1, <2>2, <2>3, <2>4
<1>12. \A i \in Appended(rs, f, sn) :
          /\ i \in DOMAIN rs /\ Key(rs, i, alloc) = rs[i].key
          /\ rs[i].key # NoKey /\ rs[i].key \notin FileKeys(f)
  BY DEF Appended, Missing, Keyless, Live, Key
<1>13. /\ listed \in Seq(Block) /\ RepeatsOnly(listed, Q)
       /\ \A k \in FileKeys(listed) : k \in Q \/ \E i \in Appended(rs, f, sn) : k = rs[i].key
       /\ \A i \in Appended(rs, f, sn) : rs[i].key \in FileKeys(listed)
  <2>1. \A i \in Appended(rs, f, sn) : Key(rs, i, alloc) \in Nat \ {0}
    BY <1>4, <1>12 DEF NoKey
  <2>2. \A i, h \in Appended(rs, f, sn) : Key(rs, i, alloc) = Key(rs, h, alloc) => i = h
    BY <1>1, <1>12 DEF Numbered
  <2>3. Appended(rs, f, sn) \in SUBSET DOMAIN rs
    BY <1>12
  <2>4. /\ listed \in Seq(Block) /\ RepeatsOnly(listed, QuotedBy(rs, Appended(rs, f, sn)))
        /\ FileKeys(listed) \subseteq {Key(rs, i, alloc) : i \in Appended(rs, f, sn)}
                                         \cup QuotedBy(rs, Appended(rs, f, sn))
        /\ {Key(rs, i, alloc) : i \in Appended(rs, f, sn)} \subseteq FileKeys(listed)
    BY <1>1, <2>1, <2>2, <2>3, RenderedFacts
  <2>5. QuotedBy(rs, Appended(rs, f, sn)) \subseteq Q
    BY DEF QuotedBy
  <2> HIDE DEF listed, Q
  <2>6. RepeatsOnly(listed, Q)
    BY <2>4, <2>5 DEF RepeatsOnly
  <2> QED
    BY <1>12, <2>4, <2>5, <2>6
<1>14. \A i \in Keyless(rs) : Key(rs, i, alloc) = alloc[<<i, "row">>]
  BY DEF Key
<1>15. /\ keyed \in Seq(Block) /\ RepeatsOnly(keyed, Q)
       /\ \A k \in FileKeys(keyed) : k \in Q \/ \E i \in Keyless(rs) : k = alloc[<<i, "row">>]
       /\ \A i \in Keyless(rs) : alloc[<<i, "row">>] \in FileKeys(keyed)
  <2>1. \A i \in Keyless(rs) : Key(rs, i, alloc) \in Nat \ {0}
    <3>1. ASSUME NEW i \in Keyless(rs) PROVE alloc[<<i, "row">>] \in Nat \ {0}
      <4>1. <<i, "row">> \in Needs(rs, f)
        BY <1>3
      <4> QED
        BY <1>2, <4>1
    <3> QED
      BY <1>14, <3>1
  <2>2. ASSUME NEW i \in Keyless(rs), NEW h \in Keyless(rs), Key(rs, i, alloc) = Key(rs, h, alloc)
        PROVE  i = h
    <3>1. /\ alloc[<<i, "row">>] = alloc[<<h, "row">>]
          /\ <<i, "row">> \in Needs(rs, f) /\ <<h, "row">> \in Needs(rs, f)
      BY <1>3, <1>14, <2>2
    <3>2. <<i, "row">> = <<h, "row">>
      BY <1>2, <3>1
    <3> QED
      BY <3>2
  <2>3. Keyless(rs) \in SUBSET DOMAIN rs
    BY <1>3
  <2>4. /\ keyed \in Seq(Block) /\ RepeatsOnly(keyed, QuotedBy(rs, Keyless(rs)))
        /\ FileKeys(keyed) \subseteq {Key(rs, i, alloc) : i \in Keyless(rs)}
                                        \cup QuotedBy(rs, Keyless(rs))
        /\ {Key(rs, i, alloc) : i \in Keyless(rs)} \subseteq FileKeys(keyed)
    BY <1>1, <2>1, <2>2, <2>3, RenderedFacts
  <2>5. QuotedBy(rs, Keyless(rs)) \subseteq Q
    BY DEF QuotedBy
  <2> HIDE DEF keyed, Q
  <2>6. RepeatsOnly(keyed, Q)
    BY <2>4, <2>5 DEF RepeatsOnly
  <2> QED
    BY <1>14, <2>4, <2>5, <2>6
<1> HIDE DEF listed, keyed, Q
<1>16. FileKeys(listed) \cap FileKeys(keyed) \subseteq Q
  <2>1. ASSUME NEW i \in Appended(rs, f, sn), NEW h \in Keyless(rs), rs[i].key = alloc[<<h, "row">>]
        PROVE  FALSE
    <3>1. rs[i].key \in Nat /\ rs[i].key < from
      BY <1>4, <1>12
    <3>2. alloc[<<h, "row">>] \in Nat /\ from <= alloc[<<h, "row">>]
      BY <1>2, <1>3
    <3> QED
      BY <1>1, <2>1, <3>1, <3>2
  <2>2. ASSUME NEW k, k \in FileKeys(listed), k \in FileKeys(keyed), k \notin Q PROVE FALSE
    <3>1. PICK i \in Appended(rs, f, sn) : k = rs[i].key
      BY <1>13, <2>2
    <3>2. PICK h \in Keyless(rs) : k = alloc[<<h, "row">>]
      BY <1>15, <2>2
    <3> QED
      BY <2>1, <3>1, <3>2
  <2> QED
    BY <2>2
<1>17. /\ listed \o keyed \in Seq(Block) /\ RepeatsOnly(listed \o keyed, Q)
       /\ FileKeys(listed \o keyed) = FileKeys(listed) \cup FileKeys(keyed)
  BY <1>13, <1>15, <1>16, JoinedFiles
<1>18. FileKeys(merged) \cap FileKeys(listed \o keyed) \subseteq Q
  <2>1. ASSUME NEW i \in Appended(rs, f, sn) PROVE rs[i].key \notin FileKeys(merged)
    <3>1. ASSUME NEW j \in C PROVE rs[i].key # alloc[<<j, "block">>]
      <4>1. rs[i].key \in Nat /\ rs[i].key < from
        BY <1>4, <1>12
      <4>2. alloc[<<j, "block">>] \in Nat /\ from <= alloc[<<j, "block">>]
        BY <1>2, <1>3
      <4> QED
        BY <1>1, <4>1, <4>2
    <3> QED
      BY <1>8, <1>12, <3>1
  <2>2. ASSUME NEW i \in Keyless(rs) PROVE alloc[<<i, "row">>] \notin FileKeys(merged)
    <3>1. ASSUME NEW j \in C PROVE alloc[<<i, "row">>] # alloc[<<j, "block">>]
      <4>1. <<i, "row">> # <<j, "block">>
        OBVIOUS
      <4> QED
        BY <1>2, <1>3, <4>1
    <3>2. alloc[<<i, "row">>] \notin FileKeys(f)
      BY <1>2, <1>3
    <3> QED
      BY <1>8, <3>1, <3>2
  <2> QED
    <3>1. \A k \in FileKeys(listed) : k \in Q \/ k \notin FileKeys(merged)
      BY <1>13, <2>1
    <3>2. \A k \in FileKeys(keyed) : k \in Q \/ k \notin FileKeys(merged)
      BY <1>15, <2>2
    <3> QED
      BY <1>17, <3>1, <3>2
<1>19. out = merged \o (listed \o keyed)
  BY DEF FileAfter, AppendedBlocks, merged, listed, keyed
<1>20. /\ out \in Seq(Block) /\ RepeatsOnly(out, Q)
       /\ FileKeys(out) = FileKeys(merged) \cup FileKeys(listed \o keyed)
  <2> DEFINE rest == listed \o keyed
  <2>1. rest \in Seq(Block) /\ RepeatsOnly(rest, Q) /\ FileKeys(merged) \cap FileKeys(rest) \subseteq Q
    BY <1>17, <1>18
  <2> HIDE DEF rest
  <2>2. RepeatsOnly(merged, Q)
    BY <1>11 DEF Fatal, RepeatsOnly
  <2>3. /\ merged \o rest \in Seq(Block) /\ RepeatsOnly(merged \o rest, Q)
        /\ FileKeys(merged \o rest) = FileKeys(merged) \cup FileKeys(rest)
    BY <1>6, <2>1, <2>2, JoinedFiles
  <2> QED
    BY <1>19, <2>3 DEF rest
<1>21. \A i \in Appended(rs, f, sn) : rs[i].key \in FileKeys(out)
  BY <1>13, <1>17, <1>20
<1>22. \A i \in Keyless(rs) : alloc[<<i, "row">>] \in FileKeys(out)
  BY <1>15, <1>17, <1>20
<1>23. \A k \in FileKeys(f) : Known(rs, k) => k \in FileKeys(out)
  BY <1>10, <1>20
<1>24. \A j \in C : alloc[<<j, "block">>] \in FileKeys(out)
  BY <1>9, <1>20
<1> QED
  BY <1>20, <1>21, <1>22, <1>23, <1>24 DEF C, Q, KnownKeys

\* The snapshot names blocks the file then has, under keys that were given out.
LEMMA SnapAfterFacts ==
  ASSUME NEW rs, NEW from, NEW f, NEW alloc, NEW sn, NEW gate, Merging(rs, from, f, alloc),
         Below(sn, from),
         NEW out, out = FileAfter(rs, f, sn, alloc, gate),
         NEW names, names = DOMAIN SnapAfter(rs, f, sn, alloc, gate)
  PROVE  names \subseteq FileKeys(out) /\ names \subseteq 1 .. NextSeqAfter(alloc, from) - 1
<1> DEFINE next == NextSeqAfter(alloc, from)
<1>1. /\ rs \in Seq(Row) /\ f \in Seq(Block) /\ Numbered(rs, from) /\ from \in Nat
      /\ next \in Nat \ {0} /\ from <= next
      /\ \A n \in Needs(rs, f) : alloc[n] \in Nat \ {0} /\ alloc[n] < next
  BY GivenKeys DEF Merging
<1>2. \A k \in 1 .. from - 1 : k \in 1 .. next - 1
  BY <1>1
<1>3. \A n \in Needs(rs, f) : alloc[n] \in 1 .. next - 1
  BY <1>1
<1>4. ASSUME NEW i \in DOMAIN rs, rs[i].key # NoKey PROVE rs[i].key \in 1 .. next - 1
  <2>1. rs[i] \in Row
    BY <1>1
  <2>2. rs[i].key \in Nat /\ rs[i].key < from
    BY <1>1, <2>1 DEF Numbered, Row
  <2> QED
    BY <1>1, <1>4, <2>2 DEF NoKey
<1> HIDE DEF next
<1>5. /\ KnownKeys(rs, f) \subseteq FileKeys(out)
      /\ \A j \in CreatedBlocks(rs, f) : alloc[<<j, "block">>] \in FileKeys(out)
      /\ \A i \in Appended(rs, f, sn) : rs[i].key \in FileKeys(out)
      /\ \A i \in Keyless(rs) : alloc[<<i, "row">>] \in FileKeys(out)
  BY FileAfterFacts
<1> SUFFICES ASSUME NEW k \in names PROVE k \in FileKeys(out) /\ k \in 1 .. next - 1
  BY DEF next
<1>6. \/ \E j \in CreatedBlocks(rs, f) : k = alloc[<<j, "block">>]
      \/ \E j \in Matched(rs, f) : k = f[j].key
      \/ \E i \in Appended(rs, f, sn) : k = rs[i].key
      \/ \E i \in Keyless(rs) : k = alloc[<<i, "row">>]
      \/ /\ k \in DOMAIN sn
         /\ \E i \in Live(rs) : rs[i].key = k
         /\ \E j \in DOMAIN f : f[j].key = k
  BY DEF SnapAfter
<1>7. CASE \E j \in CreatedBlocks(rs, f) : k = alloc[<<j, "block">>]
  BY <1>3, <1>5, <1>7 DEF Needs, CreatedBlocks
<1>8. CASE \E j \in Matched(rs, f) : k = f[j].key
  <2>1. PICK j \in DOMAIN f : k = f[j].key /\ Known(rs, k)
    BY <1>8 DEF Matched
  <2>2. k # NoKey /\ \E i \in DOMAIN rs : rs[i].key = k
    BY <2>1 DEF Known
  <2>3. k \in FileKeys(f)
    BY <2>1, <2>2 DEF FileKeys
  <2> QED
    BY <1>4, <1>5, <2>1, <2>2, <2>3 DEF KnownKeys
<1>9. CASE \E i \in Appended(rs, f, sn) : k = rs[i].key
  BY <1>4, <1>5, <1>9 DEF Appended, Missing, Live
<1>10. CASE \E i \in Keyless(rs) : k = alloc[<<i, "row">>]
  BY <1>3, <1>5, <1>10 DEF Needs
<1>11. CASE /\ k \in DOMAIN sn
            /\ \E i \in Live(rs) : rs[i].key = k
            /\ \E j \in DOMAIN f : f[j].key = k
  <2>1. k \in 1 .. from - 1
    BY <1>11 DEF Below
  <2>2. k # NoKey
    BY <1>1, <2>1 DEF NoKey
  <2>3. k \in FileKeys(f) /\ Known(rs, k)
    BY <1>11, <2>2 DEF FileKeys, Known, Live
  <2> QED
    BY <1>2, <1>5, <2>1, <2>3 DEF KnownKeys
<1> QED
  BY <1>6, <1>7, <1>8, <1>9, <1>10, <1>11

\* A merge archives nothing but rows that left the file.
LEMMA AccountedAfter ==
  ASSUME NEW rs, NEW from, NEW f, NEW alloc, NEW sn, NEW gate, Merging(rs, from, f, alloc),
         NEW gone, Covers(rs, sn, f, gone), Accounted(rs, gone),
         NEW after, after = RowsAfter(rs, f, sn, alloc, gate)
  PROVE  Accounted(after, gone)
<1> SUFFICES ASSUME NEW i \in DOMAIN after, after[i].life = "archived"
             PROVE  after[i].key \in gone
  BY DEF Accounted
<1>1. CASE i \in DOMAIN rs
  <2>1. /\ after[i].life = "archived" =>
              rs[i].life = "archived" \/ (i \in Missing(rs, f) /\ rs[i].key \in DOMAIN sn)
        /\ \/ i \notin Keyless(rs) /\ after[i].key = rs[i].key
           \/ <<i, "row">> \in Needs(rs, f) /\ after[i].key = alloc[<<i, "row">>]
    BY <1>1, OldRowAfter
  <2>2. rs[i].life = "archived" \/ (i \in Missing(rs, f) /\ rs[i].key \in DOMAIN sn)
    BY <2>1
  <2>3. i \notin Keyless(rs)
    BY <2>2 DEF Missing, Keyless, Live
  <2>4. <<i, "row">> \notin Needs(rs, f)
    BY <2>3 DEF Needs
  <2>5. after[i].key = rs[i].key
    BY <2>1, <2>4
  <2>6. CASE rs[i].life = "archived"
    BY <1>1, <2>5, <2>6 DEF Accounted
  <2>7. CASE i \in Missing(rs, f) /\ rs[i].key \in DOMAIN sn
    BY <2>5, <2>7 DEF Covers, Missing
  <2> QED
    BY <2>2, <2>6, <2>7
<1>2. CASE i \notin DOMAIN rs
  <2>1. i \in DOMAIN after \ DOMAIN rs
    BY <1>2
  <2>2. after[i].life = "open"
    BY <2>1, NewRowAfter
  <2> QED
    BY <2>2
<1> QED
  BY <1>1, <1>2

\* When the file is not written, the old snapshot and the file fit the merged rows.
LEMMA CoversAfter ==
  ASSUME NEW rs, NEW from, NEW f, NEW alloc, NEW sn, NEW gate, Merging(rs, from, f, alloc),
         NEW gone, Covers(rs, sn, f, gone), Below(sn, from),
         NEW after, after = RowsAfter(rs, f, sn, alloc, gate)
  PROVE  Covers(after, sn, f, gone)
<1> SUFFICES ASSUME NEW i \in Live(after), after[i].key \in DOMAIN sn
             PROVE  after[i].key \in FileKeys(f) \cup gone
  BY DEF Covers
<1>1. i \in DOMAIN after /\ after[i].life \in {"open", "resolved"}
  BY DEF Live
<1>2. from \in Nat /\ after[i].key \in Nat /\ after[i].key < from
  <2>1. from \in Nat
    BY DEF Merging
  <2> QED
    BY <2>1 DEF Below
<1>3. \A n \in Needs(rs, f) : alloc[n] # after[i].key
  <2> SUFFICES ASSUME NEW n \in Needs(rs, f) PROVE alloc[n] # after[i].key
    OBVIOUS
  <2>1. alloc[n] \in Nat /\ from <= alloc[n]
    BY GivenKeys
  <2> QED
    BY <1>2, <2>1
<1>4. i \in DOMAIN rs
  <2> SUFFICES ASSUME i \in DOMAIN after \ DOMAIN rs PROVE FALSE
    BY <1>1
  <2>1. /\ after[i] \in Row /\ after[i].life = "open"
        /\ \E j \in CreatedBlocks(rs, f) :
              /\ <<j, "block">> \in Needs(rs, f) /\ after[i].key = alloc[<<j, "block">>]
              /\ Rank(CreatedBlocks(rs, f), j) = i - Len(rs)
    BY NewRowAfter
  <2> QED
    BY <1>3, <2>1
<1>5. after[i].key = rs[i].key /\ rs[i].life = after[i].life
  <2>1. /\ after[i].life \in {"open", "resolved"} => after[i].life = rs[i].life
        /\ \/ i \notin Keyless(rs) /\ after[i].key = rs[i].key
           \/ <<i, "row">> \in Needs(rs, f) /\ after[i].key = alloc[<<i, "row">>]
    BY <1>4, OldRowAfter
  <2> QED
    BY <1>1, <1>3, <2>1
<1> QED
  BY <1>1, <1>4, <1>5 DEF Covers, Live

-----------------------------------------------------------------------------
(* A request.                                                               *)

\* What the request's own write may have made of the rows, and what is then
\* gone: deleted rows are, archived ones were before.
Prepared(rs, gone) ==
    /\ rs \in Seq(Row) /\ Numbered(rs, nextSeq)
    /\ Covers(rs, snap, file, gone) /\ Accounted(rs, gone)
    /\ removed \subseteq gone
    /\ \A i \in Live(rows) : rows[i].key \in DOMAIN snap => Known(rs, rows[i].key) \/ rows[i].key \in gone

\* A row written into the file for the first time stays as it is, but for its key.
LEMMA ShownRow ==
  ASSUME NEW rs, NEW from, NEW f, NEW alloc, NEW sn, NEW gate, Merging(rs, from, f, alloc),
         NEW after, after = RowsAfter(rs, f, sn, alloc, gate),
         NEW i \in Appended(rs, f, sn) \cup Keyless(rs)
  PROVE  i \in Live(after) /\ after[i].text = rs[i].text
<1>1. i \in DOMAIN rs /\ rs[i].life \in {"open", "resolved"} /\ rs[i] \in Row
  BY DEF Appended, Missing, Keyless, Live, Merging
<1>2. after[i] = MergedRow(rs, i, f, sn, alloc, gate) /\ i \in DOMAIN after
  BY <1>1, RowsAfterFacts
<1>3. CASE i \in Keyless(rs)
  <2>1. after[i] = [rs[i] EXCEPT !.key = alloc[<<i, "row">>]]
    BY <1>2, <1>3 DEF MergedRow
  <2> QED
    BY <1>1, <1>2, <2>1 DEF Live, Row
<1>4. CASE i \notin Keyless(rs)
  <2>1. i \in Missing(rs, f) /\ rs[i].key \notin DOMAIN sn
    BY <1>4 DEF Appended
  <2>2. rs[i].key \notin {f[j].key : j \in Matched(rs, f)}
    BY <2>1 DEF Missing, FileKeys, Matched
  <2>3. after[i] = rs[i]
    BY <1>2, <1>4, <2>1, <2>2 DEF MergedRow
  <2> QED
    BY <1>1, <1>2, <2>3 DEF Live
<1> QED
  BY <1>3, <1>4

\* The merged file repeats only what live rows quote.
LEMMA FileFits ==
  ASSUME NEW rs, NEW from, NEW f, NEW alloc, NEW sn, NEW gate, Merging(rs, from, f, alloc),
         NEW after, after = RowsAfter(rs, f, sn, alloc, gate),
         NEW out, out = FileAfter(rs, f, sn, alloc, gate)
  PROVE  IdsFit(out, after)
<1> DEFINE Shown == Appended(rs, f, sn) \cup Keyless(rs)
<1>1. RepeatsOnly(out, QuotedBy(rs, Shown))
  BY FileAfterFacts
<1>2. \A i \in Shown : i \in Live(after) /\ after[i].text = rs[i].text
  BY ShownRow
<1> HIDE DEF Shown
<1>3. QuotedBy(rs, Shown) \subseteq QuotedBy(after, Live(after))
  BY <1>2 DEF QuotedBy
<1> QED
  BY <1>1, <1>3 DEF RepeatsOnly, IdsFit

\* The merged rows, counter, snapshot and file.
LEMMA MergeFacts ==
  ASSUME SyncInv, NEW rs, NEW gone, Prepared(rs, gone), ~Fatal(file),
         NEW alloc \in [Needs(rs, file) -> nextSeq .. MaxKey], NEW gate,
         IsAllocation(alloc, nextSeq, UsedKeys(rs, file)),
         NEW m, m = Merge(rs, nextSeq, snap, file, alloc, gate)
  PROVE  /\ m.rows \in Seq(Row) /\ m.out \in Seq(Block) /\ m.nextSeq \in Nat \ {0}
         /\ Numbered(m.rows, m.nextSeq) /\ nextSeq <= m.nextSeq
         /\ IdsFit(m.out, m.rows) /\ Below(m.snap, m.nextSeq)
         /\ Accounted(m.rows, gone)
         /\ Covers(rows, snap, m.out, gone) /\ Covers(m.rows, m.snap, m.out, gone)
         /\ Covers(m.rows, snap, file, gone)
<1>1. Merging(rs, nextSeq, file, alloc)
  BY DEF SyncInv, SyncTypeOK, Prepared, Merging
<1>2. /\ Covers(rs, snap, file, gone) /\ Accounted(rs, gone) /\ Below(snap, nextSeq)
      /\ Covers(rows, snap, file, removed) /\ removed \subseteq gone
  BY DEF SyncInv, Prepared
<1>3. /\ m.rows = RowsAfter(rs, file, snap, alloc, gate)
      /\ m.nextSeq = NextSeqAfter(alloc, nextSeq)
      /\ m.snap = SnapAfter(rs, file, snap, alloc, gate)
      /\ m.out = FileAfter(rs, file, snap, alloc, gate)
  BY DEF Merge
<1>4. m.rows \in Seq(Row)
  BY <1>1, <1>3, RowsAfterFacts
<1>5. Numbered(m.rows, m.nextSeq)
  BY <1>1, <1>3, RowsAfterNumbered
<1>6. m.nextSeq \in Nat \ {0} /\ nextSeq <= m.nextSeq
  BY <1>1, <1>3, GivenKeys
<1>7. /\ m.out \in Seq(Block) /\ IdsFit(m.out, m.rows)
      /\ KnownKeys(rs, file) \subseteq FileKeys(m.out)
  BY <1>1, <1>3, FileAfterFacts, FileFits
<1>8. DOMAIN m.snap \subseteq FileKeys(m.out) /\ Below(m.snap, m.nextSeq)
  <2> DEFINE names == DOMAIN SnapAfter(rs, file, snap, alloc, gate)
             out == FileAfter(rs, file, snap, alloc, gate)
  <2>1. names \subseteq FileKeys(out) /\ names \subseteq 1 .. NextSeqAfter(alloc, nextSeq) - 1
    <3> HIDE DEF names, out
    <3>1. names = DOMAIN SnapAfter(rs, file, snap, alloc, gate)
      BY DEF names
    <3>2. out = FileAfter(rs, file, snap, alloc, gate)
      BY DEF out
    <3> QED
      BY <1>1, <1>2, <3>1, <3>2, SnapAfterFacts
  <2> QED
    BY <1>3, <2>1 DEF Below
<1>9. Accounted(m.rows, gone)
  BY <1>1, <1>2, <1>3, AccountedAfter
<1>10. Covers(m.rows, snap, file, gone)
  BY <1>1, <1>2, <1>3, CoversAfter
<1>11. Covers(m.rows, m.snap, m.out, gone)
  BY <1>8 DEF Covers
<1>12. Covers(rows, snap, m.out, gone)
  <2> SUFFICES ASSUME NEW i \in Live(rows), rows[i].key \in DOMAIN snap, rows[i].key \notin gone
               PROVE  rows[i].key \in FileKeys(m.out)
    BY DEF Covers
  <2>1. rows[i].key \in FileKeys(file)
    BY <1>2 DEF Covers
  <2>2. Known(rs, rows[i].key)
    BY DEF Prepared
  <2> QED
    BY <1>7, <2>1, <2>2 DEF KnownKeys
<1> QED
  BY <1>4, <1>5, <1>6, <1>7, <1>8, <1>9, <1>10, <1>11, <1>12

\* A request reads, merges and leaves what it will commit in work.
LEMMA BeginStep ==
  ASSUME SyncInv, NEW rs, NEW request, Begin(rs, request), Prepared(rs, removed')
  PROVE  SyncInv'
<1>1. /\ rows' = rows /\ nextSeq' = nextSeq /\ snap' = snap /\ file' = file
      /\ phase' = IF work'.out = file THEN "written" ELSE "merged"
      /\ SyncOutcome(rs)
  BY DEF Begin
<1>2. /\ rows \in Seq(Row) /\ file \in Seq(Block) /\ nextSeq \in Nat \ {0}
      /\ Numbered(rows, nextSeq) /\ Below(snap, nextSeq)
      /\ Accounted(rows, removed) /\ Covers(rows, snap, file, removed)
  BY DEF SyncInv, SyncTypeOK
<1>3. /\ rs \in Seq(Row) /\ Numbered(rs, nextSeq) /\ removed \subseteq removed'
      /\ Covers(rs, snap, file, removed') /\ Accounted(rs, removed')
  BY DEF Prepared
<1>4. Accounted(rows, removed') /\ Covers(rows, snap, file, removed')
  BY <1>2, <1>3 DEF Accounted, Covers
<1> DEFINE Committable ==
      /\ work'.rows \in Seq(Row) /\ work'.out \in Seq(Block) /\ work'.nextSeq \in Nat \ {0}
      /\ Numbered(work'.rows, work'.nextSeq)
      /\ work'.full => IdsFit(work'.out, work'.rows)
      /\ Below(work'.snap, work'.nextSeq)
      /\ Accounted(work'.rows, removed')
      /\ Covers(rows, snap, work'.out, removed')
      /\ Covers(work'.rows, work'.snap, work'.out, removed')
<1>5. ASSUME work' = Resting(rs, nextSeq, snap, file) PROVE Committable
  <2>1. /\ work'.rows = rs /\ work'.out = file /\ work'.nextSeq = nextSeq
        /\ work'.snap = snap /\ work'.full = FALSE
    BY <1>5 DEF Resting
  <2>2. work'.full => IdsFit(work'.out, work'.rows)
    BY <2>1
  <2>3. /\ work'.rows \in Seq(Row) /\ work'.out \in Seq(Block) /\ work'.nextSeq \in Nat \ {0}
        /\ Numbered(work'.rows, work'.nextSeq) /\ Below(work'.snap, work'.nextSeq)
    BY <1>2, <1>3, <2>1
  <2>4. /\ Accounted(work'.rows, removed')
        /\ Covers(rows, snap, work'.out, removed')
        /\ Covers(work'.rows, work'.snap, work'.out, removed')
    BY <1>3, <1>4, <2>1
  <2> QED
    BY <2>2, <2>3, <2>4
<1>6. ASSUME ~Fatal(file),
             NEW alloc \in [Needs(rs, file) -> nextSeq .. MaxKey], NEW gate,
             IsAllocation(alloc, nextSeq, UsedKeys(rs, file)),
             LET m == Merge(rs, nextSeq, snap, file, alloc, gate)
             IN  work' = m \/ work' = ReadOnly(m, snap, file)
      PROVE  Committable
  <2> DEFINE m == Merge(rs, nextSeq, snap, file, alloc, gate)
  <2>1. m.full = TRUE
    BY DEF Merge
  <2>2. CASE work' = ReadOnly(m, snap, file)
    <3>1. m = [rows |-> m.rows, nextSeq |-> m.nextSeq, snap |-> m.snap, out |-> m.out, full |-> m.full]
      BY DEF Merge
    <3> HIDE DEF m
    <3>2. /\ work'.rows = m.rows /\ work'.nextSeq = m.nextSeq
          /\ work'.snap = snap /\ work'.out = file /\ work'.full = FALSE
      BY <2>2, <3>1 DEF ReadOnly
    <3>3. /\ m.rows \in Seq(Row) /\ m.nextSeq \in Nat \ {0} /\ Numbered(m.rows, m.nextSeq)
          /\ nextSeq <= m.nextSeq /\ Accounted(m.rows, removed') /\ Covers(m.rows, snap, file, removed')
      BY <1>6, MergeFacts DEF m
    <3>4. Below(snap, m.nextSeq)
      BY <1>2, <3>3 DEF Below
    <3> QED
      BY <1>2, <1>4, <3>2, <3>3, <3>4
  <2> HIDE DEF m
  <2>3. CASE work' = m
    <3>1. /\ m.rows \in Seq(Row) /\ m.out \in Seq(Block) /\ m.nextSeq \in Nat \ {0}
          /\ Numbered(m.rows, m.nextSeq) /\ IdsFit(m.out, m.rows) /\ Below(m.snap, m.nextSeq)
          /\ Accounted(m.rows, removed')
          /\ Covers(rows, snap, m.out, removed') /\ Covers(m.rows, m.snap, m.out, removed')
      BY <1>6, MergeFacts DEF m
    <3> QED
      BY <2>3, <3>1
  <2>4. work' = m \/ work' = ReadOnly(m, snap, file)
    BY <1>6 DEF m
  <2> QED
    BY <2>2, <2>3, <2>4
<1>7. Committable
  <2> HIDE DEF Committable
  <2>1. CASE work' = Resting(rs, nextSeq, snap, file)
    BY <1>5, <2>1
  <2>2. CASE work' # Resting(rs, nextSeq, snap, file)
    <3>1. PICK alloc \in [Needs(rs, file) -> nextSeq .. MaxKey], gate \in SUBSET Asking(rs, file) :
                 /\ ~Fatal(file)
                 /\ IsAllocation(alloc, nextSeq, UsedKeys(rs, file))
                 /\ LET m == Merge(rs, nextSeq, snap, file, alloc, gate)
                    IN  work' = m \/ work' = ReadOnly(m, snap, file)
      BY <1>1, <2>2 DEF SyncOutcome
    <3> QED
      BY <1>6, <3>1
  <2> QED
    BY <2>1, <2>2
<1>8. SyncTypeOK'
  BY <1>1, <1>2, <1>7 DEF SyncTypeOK
<1>9. /\ Numbered(rows, nextSeq)' /\ Numbered(work.rows, work.nextSeq)'
      /\ (work.full => IdsFit(work.out, work.rows))'
      /\ Below(snap, nextSeq)' /\ Below(work.snap, work.nextSeq)'
      /\ Accounted(rows, removed)' /\ Accounted(work.rows, removed)'
      /\ Covers(rows, snap, file, removed)'
  BY <1>1, <1>2, <1>4, <1>7
<1>10. (phase = "merged" => /\ Covers(rows, snap, work.out, removed)
                            /\ Covers(work.rows, work.snap, work.out, removed))'
  BY <1>1, <1>7
<1>11. (phase = "written" => Covers(work.rows, work.snap, file, removed))'
  BY <1>1, <1>7
<1> QED
  BY <1>8, <1>9, <1>10, <1>11 DEF SyncInv

\* A request that changes rows in place.
LEMMA ChangedRows ==
  ASSUME SyncInv, NEW rs \in Seq(Row), NEW gone, removed \subseteq gone,
         DOMAIN rs = DOMAIN rows,
         \A i \in DOMAIN rows :
            /\ rs[i].key = rows[i].key
            /\ rs[i].life \in {"open", "resolved"} => rows[i].life \in {"open", "resolved"}
            /\ rs[i].life = "archived" => rows[i].life = "archived"
            /\ rows[i].life \in {"open", "resolved"} =>
                  rs[i].life # "deleted" \/ rows[i].key \in gone
  PROVE  Prepared(rs, gone)
<1>1. /\ Numbered(rows, nextSeq) /\ Covers(rows, snap, file, removed)
      /\ Accounted(rows, removed) /\ Below(snap, nextSeq) /\ nextSeq \in Nat
  BY DEF SyncInv, SyncTypeOK
<1>2. Numbered(rs, nextSeq)
  BY <1>1 DEF Numbered
<1>3. Covers(rs, snap, file, gone)
  BY <1>1 DEF Covers, Live
<1>4. Accounted(rs, gone)
  BY <1>1 DEF Accounted
<1>5. ASSUME NEW i \in Live(rows), rows[i].key \in DOMAIN snap
      PROVE  Known(rs, rows[i].key) \/ rows[i].key \in gone
  <2>1. rows[i].key # NoKey
    BY <1>1, <1>5 DEF Below, NoKey
  <2> QED
    BY <2>1 DEF Known, Live
<1> QED
  BY <1>2, <1>3, <1>4, <1>5 DEF Prepared

LEMMA AddStep ==
  ASSUME SyncInv, AddRequirement
  PROVE  SyncInv'
<1>1. PICK t \in Texts \ Refused, s \in Statuses :
         Request(Append(rows, [key |-> NoKey, text |-> t, st |-> s, life |-> "open"]),
                 "add", Len(rows) + 1, t)
  BY DEF AddRequirement
<1> DEFINE row == [key |-> NoKey, text |-> t, st |-> s, life |-> "open"]
           rs == Append(rows, row)
<1>2. Begin(rs, Op("add", Len(rows) + 1, t, clean)) /\ removed' = removed
  BY <1>1 DEF Request
<1>3. /\ rows \in Seq(Row) /\ Numbered(rows, nextSeq) /\ Covers(rows, snap, file, removed)
      /\ Accounted(rows, removed) /\ Below(snap, nextSeq) /\ nextSeq \in Nat \ {0}
  BY DEF SyncInv, SyncTypeOK
<1>4. row \in Row /\ row.key = NoKey /\ row.life = "open"
  BY DEF Row, Lives, NoKey
<1> HIDE DEF row
<1>5. /\ rs \in Seq(Row) /\ DOMAIN rs = DOMAIN rows \cup {Len(rows) + 1}
      /\ \A i \in DOMAIN rows : rs[i] = rows[i]
      /\ rs[Len(rows) + 1] = row
      /\ Len(rows) + 1 \notin DOMAIN rows
  <2>1. /\ rs \in Seq(Row) /\ Len(rs) = Len(rows) + 1
        /\ \A i \in 1 .. Len(rows) : rs[i] = rows[i]
        /\ rs[Len(rows) + 1] = row
    BY <1>3, <1>4, AppendProperties
  <2>2. DOMAIN rs = 1 .. Len(rows) + 1 /\ DOMAIN rows = 1 .. Len(rows) /\ Len(rows) \in Nat
    BY <1>3, <2>1
  <2> QED
    BY <2>1, <2>2
<1> HIDE DEF rs
<1>6. Numbered(rs, nextSeq)
  BY <1>3, <1>4, <1>5 DEF Numbered, NoKey
<1>7. Covers(rs, snap, file, removed)
  <2> SUFFICES ASSUME NEW i \in Live(rs), rs[i].key \in DOMAIN snap
               PROVE  rs[i].key \in FileKeys(file) \cup removed
    BY DEF Covers
  <2>1. rs[i].key # NoKey
    BY <1>3 DEF Below, NoKey
  <2>2. i \in DOMAIN rows
    BY <1>4, <1>5, <2>1 DEF Live
  <2> QED
    BY <1>3, <1>5, <2>2 DEF Covers, Live
<1>8. Accounted(rs, removed)
  BY <1>3, <1>4, <1>5 DEF Accounted
<1>9. ASSUME NEW i \in Live(rows), rows[i].key \in DOMAIN snap PROVE Known(rs, rows[i].key)
  <2>1. rows[i].key # NoKey
    BY <1>3, <1>9 DEF Below, NoKey
  <2> QED
    BY <1>5, <2>1 DEF Known, Live
<1>10. Prepared(rs, removed')
  BY <1>2, <1>5, <1>6, <1>7, <1>8, <1>9 DEF Prepared
<1> QED
  BY <1>2, <1>10, BeginStep

\* The requests that change one row where it stands.
LEMMA RequestStep ==
  ASSUME SyncInv,
         \/ UpdateRequirement \/ SetRequirementStatus \/ ResolveRequirement
         \/ DeleteEntry \/ SyncRequirements
  PROVE  SyncInv'
<1>1. rows \in Seq(Row)
  BY DEF SyncInv, SyncTypeOK
<1>2. ASSUME NEW rs \in Seq(Row), NEW i \in Live(rows), NEW request, Begin(rs, request),
             DOMAIN rs = DOMAIN rows,
             \A h \in DOMAIN rows : h # i => rs[h] = rows[h],
             rs[i].key = rows[i].key, rs[i].life # "archived",
             removed \subseteq removed',
             rs[i].life = "deleted" => rows[i].key \in removed'
      PROVE  SyncInv'
  <2>1. \A h \in DOMAIN rows :
           /\ rs[h].key = rows[h].key
           /\ rs[h].life \in {"open", "resolved"} => rows[h].life \in {"open", "resolved"}
           /\ rs[h].life = "archived" => rows[h].life = "archived"
           /\ rows[h].life \in {"open", "resolved"} =>
                 rs[h].life # "deleted" \/ rows[h].key \in removed'
    BY <1>2 DEF Live
  <2>2. Prepared(rs, removed')
    BY <1>2, <2>1, ChangedRows
  <2> QED
    BY <1>2, <2>2, BeginStep
<1>3. ASSUME NEW i \in Live(rows)
      PROVE  i \in DOMAIN rows /\ rows[i] \in Row /\ rows[i].life \in {"open", "resolved"}
  BY <1>1 DEF Live
<1>4. CASE UpdateRequirement
  <2>1. PICK i \in Live(rows), t \in Texts \ Refused :
                Request([rows EXCEPT ![i].text = t], "update", i, t)
    BY <1>4 DEF UpdateRequirement
  <2> DEFINE rs == [rows EXCEPT ![i].text = t]
  <2>2. Begin(rs, Op("update", i, t, clean)) /\ removed' = removed
    BY <2>1 DEF Request
  <2>3. /\ DOMAIN rs = DOMAIN rows /\ \A h \in DOMAIN rows : h # i => rs[h] = rows[h]
        /\ rs[i] = [rows[i] EXCEPT !.text = t]
    BY <1>3
  <2>4. rs[i] \in Row /\ rs[i].key = rows[i].key /\ rs[i].life = rows[i].life
    BY <1>3, <2>3 DEF Row
  <2>5. rs \in Seq(Row)
    BY <1>1, <1>3, <2>3, <2>4
  <2> HIDE DEF rs
  <2>6. i \in DOMAIN rows /\ rs[i].life \in {"open", "resolved"}
    BY <1>3, <2>4
  <2>7. removed \subseteq removed' /\ rs[i].life # "archived" /\ rs[i].life # "deleted"
    BY <2>2, <2>6
  <2> QED
    BY <1>2, <2>2, <2>3, <2>4, <2>5, <2>7
<1>5. CASE SetRequirementStatus
  <2>1. PICK i \in Live(rows), s \in Statuses :
                Request([rows EXCEPT ![i].st = s], "status", i, NoText)
    BY <1>5 DEF SetRequirementStatus
  <2> DEFINE rs == [rows EXCEPT ![i].st = s]
  <2>2. Begin(rs, Op("status", i, NoText, clean)) /\ removed' = removed
    BY <2>1 DEF Request
  <2>3. /\ DOMAIN rs = DOMAIN rows /\ \A h \in DOMAIN rows : h # i => rs[h] = rows[h]
        /\ rs[i] = [rows[i] EXCEPT !.st = s]
    BY <1>3
  <2>4. rs[i] \in Row /\ rs[i].key = rows[i].key /\ rs[i].life = rows[i].life
    BY <1>3, <2>3 DEF Row
  <2>5. rs \in Seq(Row)
    BY <1>1, <1>3, <2>3, <2>4
  <2> HIDE DEF rs
  <2>6. i \in DOMAIN rows /\ rs[i].life \in {"open", "resolved"}
    BY <1>3, <2>4
  <2>7. removed \subseteq removed' /\ rs[i].life # "archived" /\ rs[i].life # "deleted"
    BY <2>2, <2>6
  <2> QED
    BY <1>2, <2>2, <2>3, <2>4, <2>5, <2>7
<1>6. CASE ResolveRequirement
  <2>1. PICK i \in Live(rows) : Request([rows EXCEPT ![i].life = "resolved"], "resolve", i, NoText)
    BY <1>6 DEF ResolveRequirement
  <2> DEFINE rs == [rows EXCEPT ![i].life = "resolved"]
  <2>2. Begin(rs, Op("resolve", i, NoText, clean)) /\ removed' = removed
    BY <2>1 DEF Request
  <2>3. /\ DOMAIN rs = DOMAIN rows /\ \A h \in DOMAIN rows : h # i => rs[h] = rows[h]
        /\ rs[i] = [rows[i] EXCEPT !.life = "resolved"]
    BY <1>3
  <2>4. rs[i] \in Row /\ rs[i].key = rows[i].key /\ rs[i].life = "resolved"
    BY <1>3, <2>3 DEF Row, Lives
  <2>5. rs \in Seq(Row)
    BY <1>1, <1>3, <2>3, <2>4
  <2> HIDE DEF rs
  <2> QED
    BY <1>2, <1>3, <2>2, <2>3, <2>4, <2>5
<1>7. CASE DeleteEntry
  <2>1. PICK i \in Live(rows) : Request([rows EXCEPT ![i].life = "deleted"], "delete", i, NoText)
    BY <1>7 DEF DeleteEntry
  <2> DEFINE rs == [rows EXCEPT ![i].life = "deleted"]
  <2>2. Begin(rs, Op("delete", i, NoText, clean)) /\ removed' = removed \cup {rows[i].key}
    BY <2>1 DEF Request
  <2>3. /\ DOMAIN rs = DOMAIN rows /\ \A h \in DOMAIN rows : h # i => rs[h] = rows[h]
        /\ rs[i] = [rows[i] EXCEPT !.life = "deleted"]
    BY <1>3
  <2>4. rs[i] \in Row /\ rs[i].key = rows[i].key /\ rs[i].life = "deleted"
    BY <1>3, <2>3 DEF Row, Lives
  <2>5. rs \in Seq(Row)
    BY <1>1, <1>3, <2>3, <2>4
  <2> HIDE DEF rs
  <2> QED
    BY <1>2, <1>3, <2>2, <2>3, <2>4, <2>5
<1>8. CASE SyncRequirements
  <2>1. Begin(rows, Op("sync", 0, NoText, clean)) /\ removed' = removed
    BY <1>8 DEF SyncRequirements
  <2>2. Prepared(rows, removed')
    BY <1>1, <2>1, ChangedRows
  <2> QED
    BY <2>1, <2>2, BeginStep
<1> QED
  BY <1>4, <1>5, <1>6, <1>7, <1>8

-----------------------------------------------------------------------------
(* The other steps.                                                         *)

LEMMA DeleteToolStep ==
  ASSUME SyncInv, DeleteEntryTool
  PROVE  SyncInv'
<1>1. PICK i \in Live(rows) : rows' = [rows EXCEPT ![i].life = "deleted"]
  BY DEF DeleteEntryTool
<1>2. /\ phase = "idle" /\ phase' = phase /\ work' = Resting(rows', nextSeq, snap, file)
      /\ nextSeq' = nextSeq /\ snap' = snap /\ file' = file /\ removed' = removed
  BY DEF DeleteEntryTool
<1>3. /\ rows \in Seq(Row) /\ file \in Seq(Block) /\ nextSeq \in Nat \ {0}
      /\ Numbered(rows, nextSeq) /\ Covers(rows, snap, file, removed)
      /\ Accounted(rows, removed) /\ Below(snap, nextSeq)
  BY DEF SyncInv, SyncTypeOK
<1>4. i \in DOMAIN rows /\ rows[i] \in Row
  BY <1>3 DEF Live
<1>5. /\ DOMAIN rows' = DOMAIN rows /\ \A h \in DOMAIN rows : h # i => rows'[h] = rows[h]
      /\ rows'[i] = [rows[i] EXCEPT !.life = "deleted"]
  BY <1>1, <1>4
<1>6. rows'[i] \in Row /\ rows'[i].key = rows[i].key /\ rows'[i].life = "deleted"
  BY <1>4, <1>5 DEF Row, Lives
<1>7. rows' \in Seq(Row)
  BY <1>1, <1>3, <1>4, <1>5, <1>6
<1>8. \A h \in DOMAIN rows : rows'[h].key = rows[h].key
  BY <1>5, <1>6
<1>9. Numbered(rows', nextSeq)
  BY <1>3, <1>5, <1>8 DEF Numbered
<1>10. Covers(rows', snap, file, removed)
  BY <1>3, <1>5, <1>6 DEF Covers, Live
<1>11. Accounted(rows', removed)
  BY <1>3, <1>5, <1>6 DEF Accounted
<1>12. /\ work'.rows = rows' /\ work'.nextSeq = nextSeq /\ work'.snap = snap
       /\ work'.out = file /\ work'.full = FALSE
  BY <1>2 DEF Resting
<1>13. SyncTypeOK'
  BY <1>2, <1>3, <1>7, <1>12 DEF SyncTypeOK
<1> QED
  BY <1>2, <1>3, <1>9, <1>10, <1>11, <1>12, <1>13 DEF SyncInv

LEMMA ReplaceStep ==
  ASSUME SyncInv, ReplaceFile
  PROVE  SyncInv'
BY DEF SyncInv, SyncTypeOK, ReplaceFile

LEMMA CommitStep ==
  ASSUME SyncInv, Commit
  PROVE  SyncInv'
<1>1. /\ phase = "written" /\ phase' = "idle" /\ file' = file /\ removed' = removed
      /\ rows' = work.rows /\ nextSeq' = work.nextSeq /\ snap' = work.snap
      /\ work' = Resting(rows', nextSeq', snap', file)
  BY DEF Commit
<1>2. /\ work'.rows = work.rows /\ work'.nextSeq = work.nextSeq /\ work'.snap = work.snap
      /\ work'.out = file /\ work'.full = FALSE
  BY <1>1 DEF Resting
<1>3. SyncTypeOK'
  BY <1>1, <1>2 DEF SyncInv, SyncTypeOK
<1> QED
  BY <1>1, <1>2, <1>3 DEF SyncInv

LEMMA CrashStep ==
  ASSUME SyncInv, Crash
  PROVE  SyncInv'
<1>1. /\ phase' = "idle" /\ work' = Resting(rows, nextSeq, snap, file)
      /\ rows' = rows /\ nextSeq' = nextSeq /\ snap' = snap /\ file' = file /\ removed' = removed
  BY DEF Crash
<1>2. /\ work'.rows = rows /\ work'.nextSeq = nextSeq /\ work'.snap = snap
      /\ work'.out = file /\ work'.full = FALSE
  BY <1>1 DEF Resting
<1>3. SyncTypeOK'
  BY <1>1, <1>2 DEF SyncInv, SyncTypeOK
<1> QED
  BY <1>1, <1>2, <1>3 DEF SyncInv

\* Somebody's edit leaves a file.
LEMMA EditedFile ==
  ASSUME NEW f \in Seq(Block), nextSeq \in Nat, NEW g \in Edited(f)
  PROVE  g \in Seq(Block)
<1>1. CASE g \in Dropped(f)
  <2>1. PICK j \in DOMAIN f : g = RemoveAt(f, j)
    BY <1>1 DEF Dropped
  <2>2. SubSeq(f, 1, j - 1) \in Seq(Block) /\ SubSeq(f, j + 1, Len(f)) \in Seq(Block)
    OBVIOUS
  <2>3. g = SubSeq(f, 1, j - 1) \o SubSeq(f, j + 1, Len(f))
    BY <2>1 DEF RemoveAt
  <2> QED
    BY <2>2, <2>3, ConcatProperties
<1>2. CASE g \in Reworded(f)
  <2>1. PICK j \in DOMAIN f, t \in Plain : g = [f EXCEPT ![j].text = t]
    BY <1>2 DEF Reworded
  <2>2. f[j] \in Block /\ t \in Texts
    BY DEF Plain
  <2>3. [f[j] EXCEPT !.text = t] \in Block
    BY <2>2 DEF Block
  <2> QED
    BY <2>1, <2>3
<1>3. CASE g \in Restated(f)
  <2>1. PICK j \in DOMAIN f, s \in Statuses : g = [f EXCEPT ![j] = Token(f[j], s)]
    BY <1>3 DEF Restated
  <2>2. f[j] \in Block
    OBVIOUS
  <2>3. Token(f[j], s) \in Block
    BY <2>2 DEF Block, Token
  <2> QED
    BY <2>1, <2>3
<1>4. CASE g \in Garbled(f)
  <2>1. PICK j \in DOMAIN f : g = [f EXCEPT ![j] = BadToken(f[j])]
    BY <1>4 DEF Garbled
  <2>2. f[j] \in Block /\ NotStarted \in Statuses
    BY StatusAssumption
  <2>3. BadToken(f[j]) \in Block
    BY <2>2 DEF Block, BadToken
  <2> QED
    BY <2>1, <2>3
<1>5. CASE g \in Longer(f)
  <2>1. PICK b \in [key : NoKey .. nextSeq, text : Plain, st : Statuses, ok : {TRUE}] :
                g = Append(f, b)
    BY <1>5 DEF Longer
  <2>2. b \in Block
    <3>1. b.key \in Nat /\ b.text \in Texts /\ b.st \in Statuses /\ b.ok \in BOOLEAN
      <4>1. b.key \in NoKey .. nextSeq /\ b.text \in Plain /\ b.st \in Statuses /\ b.ok \in {TRUE}
        BY Zenon
      <4>2. b.ok \in BOOLEAN
        BY <4>1, Zenon
      <4> QED
        BY <4>1, <4>2 DEF Plain, NoKey
    <3>2. b = [key |-> b.key, text |-> b.text, st |-> b.st, ok |-> b.ok]
      OBVIOUS
    <3> QED
      BY <3>1, <3>2, Zenon DEF Block
  <2> QED
    BY <2>1, <2>2, AppendProperties
<1> QED
  BY <1>1, <1>2, <1>3, <1>4, <1>5 DEF Edited

LEMMA EditStep ==
  ASSUME SyncInv, EditFile
  PROVE  SyncInv'
<1>1. /\ file' \in Edited(file) /\ removed' = removed \cup (FileKeys(file) \ FileKeys(file'))
      /\ work' = IF phase = "idle" THEN Resting(rows, nextSeq, snap, file') ELSE work
      /\ rows' = rows /\ nextSeq' = nextSeq /\ snap' = snap /\ phase' = phase
  BY DEF EditFile
<1>2. file' \in Seq(Block)
  BY <1>1, EditedFile DEF SyncInv, SyncTypeOK
<1>3. ASSUME NEW rs, NEW sn, Covers(rs, sn, file, removed) PROVE Covers(rs, sn, file', removed')
  BY <1>1, <1>3 DEF Covers
<1>4. ASSUME NEW rs, NEW sn, NEW f, Covers(rs, sn, f, removed) PROVE Covers(rs, sn, f, removed')
  BY <1>1, <1>4 DEF Covers
<1>5. ASSUME NEW rs, Accounted(rs, removed) PROVE Accounted(rs, removed')
  BY <1>1, <1>5 DEF Accounted
<1>6. CASE phase = "idle"
  <2>1. /\ work'.rows = rows /\ work'.nextSeq = nextSeq /\ work'.snap = snap
        /\ work'.out = file' /\ work'.full = FALSE
    BY <1>1, <1>6 DEF Resting
  <2>2. SyncTypeOK'
    BY <1>1, <1>2, <2>1 DEF SyncInv, SyncTypeOK
  <2> QED
    BY <1>1, <1>3, <1>5, <1>6, <2>1, <2>2 DEF SyncInv
<1>7. CASE phase # "idle"
  <2>1. work' = work
    BY <1>1, <1>7
  <2>2. SyncTypeOK'
    BY <1>1, <1>2, <2>1 DEF SyncInv, SyncTypeOK
  <2> QED
    BY <1>1, <1>3, <1>4, <1>5, <2>1, <2>2 DEF SyncInv
<1> QED
  BY <1>6, <1>7

-----------------------------------------------------------------------------
(* KeysUnique and ArchivedWasRemoved.                                        *)

LEMMA SyncInitial == Init => SyncInv
<1> SUFFICES ASSUME Init PROVE SyncInv
  OBVIOUS
<1>1. /\ rows = <<>> /\ nextSeq = 1 /\ snap = [k \in {} |-> NotStarted] /\ file = <<>>
      /\ phase = "idle" /\ removed = {}
      /\ work = Resting(rows, nextSeq, snap, file)
  BY DEF Init
<1>2. /\ work.rows = rows /\ work.nextSeq = nextSeq /\ work.snap = snap
      /\ work.out = file /\ work.full = FALSE
  BY <1>1 DEF Resting
<1>3. DOMAIN rows = {} /\ Live(rows) = {} /\ DOMAIN snap = {}
  BY <1>1 DEF Live
<1>4. <<>> \in Seq(Row) /\ <<>> \in Seq(Block)
  OBVIOUS
<1>5. /\ work.rows \in Seq(Row) /\ work.out \in Seq(Block) /\ work.nextSeq = 1
  BY <1>1, <1>2, <1>4
<1>6. SyncTypeOK
  BY <1>1, <1>4, <1>5 DEF SyncTypeOK
<1> QED
  BY <1>1, <1>2, <1>3, <1>6 DEF SyncInv, Numbered, Below, Accounted, Covers

LEMMA SyncStep == SyncInv /\ [Next]_vars => SyncInv'
<1> SUFFICES ASSUME SyncInv, [Next]_vars PROVE SyncInv'
  OBVIOUS
<1>1. CASE Next
  BY <1>1, AddStep, RequestStep, DeleteToolStep, ReplaceStep, CommitStep, CrashStep, EditStep DEF Next
<1>2. CASE UNCHANGED vars
  BY <1>2 DEF vars, SyncInv, SyncTypeOK
<1> QED
  BY <1>1, <1>2

-----------------------------------------------------------------------------
(* The rows and blocks a merge leaves, case by case.                         *)

LEMMA RowOfIs ==
  ASSUME NEW rs, NEW from, Numbered(rs, from), NEW i \in DOMAIN rs,
         rs[i].life # "deleted", rs[i].key # NoKey
  PROVE  Known(rs, rs[i].key) /\ RowOf(rs, rs[i].key) = i
<1>1. \A h \in DOMAIN rs : rs[h].key = rs[i].key => h = i
  BY DEF Numbered
<1> QED
  BY <1>1 DEF Known, RowOf

LEMMA BlockOfIs ==
  ASSUME NEW f, ~Fatal(f), NEW j \in DOMAIN f, f[j].key # NoKey
  PROVE  BlockOf(f, f[j].key) = j
<1>1. \A h \in DOMAIN f : f[h].key = f[j].key => h = j
  BY DEF Fatal
<1> QED
  BY <1>1 DEF BlockOf

\* A row and the block it is matched with.
Paired(rs, f, alloc, sn, gate, j, i) ==
    /\ j \in DOMAIN f /\ f[j].ok
    /\ i \in Live(rs) /\ rs[i].key = f[j].key /\ rs[i].key # NoKey
    /\ i \notin Keyless(rs) /\ i \notin Missing(rs, f)
    /\ MergedBlock(rs, f, j, sn, alloc, gate) =
         [f[j] EXCEPT !.st = FinalStatus(rs[i], f[j], sn, gate)]
    /\ MergedRow(rs, i, f, sn, alloc, gate) =
         [rs[i] EXCEPT !.text = IF f[j].text \in Refused THEN Kept[<<rs[i].text, f[j].text>>]
                                ELSE f[j].text,
                       !.st = FinalStatus(rs[i], f[j], sn, gate)]

LEMMA MatchedPair ==
  ASSUME NEW rs, NEW from, NEW f, NEW alloc, NEW sn, NEW gate, Merging(rs, from, f, alloc),
         NEW j \in Matched(rs, f), NEW i, i = RowOf(rs, f[j].key)
  PROVE  Paired(rs, f, alloc, sn, gate, j, i)
<1>1. /\ rs \in Seq(Row) /\ ~Fatal(f) /\ Numbered(rs, from)
  BY DEF Merging
<1>2. /\ j \in DOMAIN f /\ f[j].ok /\ Known(rs, f[j].key) /\ rs[i].life # "archived"
  BY DEF Matched
<1>3. i \in DOMAIN rs /\ rs[i].key = f[j].key /\ rs[i].life # "deleted" /\ rs[i].key # NoKey
  BY <1>2 DEF Known, RowOf
<1>4. rs[i] \in Row
  BY <1>1, <1>3
<1>5. i \in Live(rs)
  BY <1>2, <1>3, <1>4 DEF Live, Row, Lives
<1>6. rs[i].key \in FileKeys(f)
  BY <1>2, <1>3 DEF FileKeys
<1>7. i \notin Keyless(rs) /\ i \notin Missing(rs, f)
  BY <1>3, <1>6 DEF Keyless, Missing
<1>8. j \notin CreatedBlocks(rs, f)
  BY <1>2 DEF CreatedBlocks, NewBlocks
<1>9. BlockOf(f, rs[i].key) = j
  BY <1>1, <1>2, <1>3, BlockOfIs
<1>10. rs[i].key \in {f[h].key : h \in Matched(rs, f)}
  BY <1>3
<1>11. MergedBlock(rs, f, j, sn, alloc, gate) =
         [f[j] EXCEPT !.st = FinalStatus(rs[i], f[j], sn, gate)]
  BY <1>8 DEF MergedBlock
<1>12. MergedRow(rs, i, f, sn, alloc, gate) =
         [rs[i] EXCEPT !.text = IF f[j].text \in Refused THEN Kept[<<rs[i].text, f[j].text>>]
                                ELSE f[j].text,
                       !.st = FinalStatus(rs[i], f[j], sn, gate)]
  BY <1>5, <1>7, <1>9, <1>10 DEF MergedRow
<1> QED
  BY <1>2, <1>3, <1>5, <1>7, <1>11, <1>12 DEF Paired

\* The row of a block that becomes one.
LEMMA CreatedRowOf ==
  ASSUME NEW rs, NEW from, NEW f, NEW alloc, Merging(rs, from, f, alloc),
         NEW j \in CreatedBlocks(rs, f)
  PROVE  /\ Rank(CreatedBlocks(rs, f), j) \in 1 .. Cardinality(CreatedBlocks(rs, f))
         /\ CreatedRow(rs, f, Rank(CreatedBlocks(rs, f), j), alloc) =
              [key |-> alloc[<<j, "block">>], text |-> f[j].text, st |-> f[j].st, life |-> "open"]
<1> DEFINE C == CreatedBlocks(rs, f)
           n == Rank(C, j)
<1>1. f \in Seq(Block)
  BY DEF Merging
<1>2. C \subseteq 1 .. Len(f) /\ IsFiniteSet(1 .. Len(f)) /\ Len(f) \in Nat
  BY <1>1, FS_Interval DEF CreatedBlocks, NewBlocks
<1>3. C \in SUBSET Nat /\ IsFiniteSet(C)
  BY <1>2, FS_Subset
<1>4. n \in 1 .. Cardinality(C) /\ \A x \in C : Rank(C, x) = n => x = j
  <2>1. j \in C
    OBVIOUS
  <2> HIDE DEF C
  <2> QED
    BY <1>3, <2>1, RankedNumbers
<1>5. (CHOOSE b \in C : Rank(C, b) = n) = j
  <2>1. j \in C /\ Rank(C, j) = n
    OBVIOUS
  <2> HIDE DEF C, n
  <2> QED
    BY <1>4, <2>1
<1>6. CreatedRow(rs, f, n, alloc) =
        LET b == CHOOSE x \in C : Rank(C, x) = n
        IN  [key |-> alloc[<<b, "block">>], text |-> f[b].text, st |-> f[b].st, life |-> "open"]
  BY DEF CreatedRow, Rank
<1> HIDE DEF C, n
<1> QED
  BY <1>4, <1>5, <1>6 DEF C, n

\* The created row among the rows after the merge.
LEMMA CreatedRowAfter ==
  ASSUME NEW rs, NEW from, NEW f, NEW alloc, NEW sn, NEW gate, Merging(rs, from, f, alloc),
         NEW after, after = RowsAfter(rs, f, sn, alloc, gate), NEW j \in CreatedBlocks(rs, f)
  PROVE  \E i \in DOMAIN after \ DOMAIN rs :
            after[i] = [key |-> alloc[<<j, "block">>], text |-> f[j].text, st |-> f[j].st, life |-> "open"]
<1> DEFINE C == CreatedBlocks(rs, f)
           n == Rank(C, j)
<1>1. Len(rs) \in Nat /\ DOMAIN rs = 1 .. Len(rs)
  BY DEF Merging
<1>2. Cardinality(C) \in Nat
  BY CreatedRowFacts
<1>3. /\ n \in 1 .. Cardinality(C)
      /\ CreatedRow(rs, f, n, alloc) =
           [key |-> alloc[<<j, "block">>], text |-> f[j].text, st |-> f[j].st, life |-> "open"]
  BY CreatedRowOf
<1>4. after = [i \in 1 .. Len(rs) + Cardinality(C) |->
                 IF i <= Len(rs) THEN MergedRow(rs, i, f, sn, alloc, gate)
                 ELSE CreatedRow(rs, f, i - Len(rs), alloc)]
  BY DEF RowsAfter
<1> HIDE DEF C, n
<1>5. /\ n + Len(rs) \in 1 .. Len(rs) + Cardinality(C) /\ ~(n + Len(rs) <= Len(rs))
      /\ (n + Len(rs)) - Len(rs) = n
  BY <1>1, <1>2, <1>3
<1>6. after[n + Len(rs)] = CreatedRow(rs, f, n, alloc)
  BY <1>4, <1>5
<1>7. n + Len(rs) \in DOMAIN after \ DOMAIN rs
  BY <1>1, <1>4, <1>5
<1> QED
  BY <1>3, <1>6, <1>7

\* The n-th block row i is rendered as.
Piece(rs, i, n, alloc) == Rendered(Key(rs, i, alloc), rs[i].text, rs[i].st)[n]

\* The elements of two sequences one after the other.
Joins(st, s, t) ==
    /\ \A b \in DOMAIN st : \/ \E a \in DOMAIN s : st[b] = s[a]
                            \/ \E a \in DOMAIN t : st[b] = t[a]
    /\ \A a \in DOMAIN s : \E b \in DOMAIN st : st[b] = s[a]
    /\ \A a \in DOMAIN t : \E b \in DOMAIN st : st[b] = t[a]

LEMMA ConcatElements ==
  ASSUME NEW V, NEW s \in Seq(V), NEW t \in Seq(V), NEW st, st = s \o t
  PROVE  st \in Seq(V) /\ Joins(st, s, t)
<1>1. /\ st \in Seq(V) /\ Len(s) \in Nat /\ Len(t) \in Nat
      /\ DOMAIN s = 1 .. Len(s) /\ DOMAIN t = 1 .. Len(t)
      /\ DOMAIN st = 1 .. Len(s) + Len(t)
  BY ConcatProperties
<1>2. \A b \in DOMAIN st : st[b] = IF b <= Len(s) THEN s[b] ELSE t[b - Len(s)]
  BY <1>1, ConcatProperties
<1>3. \A b \in DOMAIN st : \/ b \in DOMAIN s /\ b <= Len(s)
                           \/ b - Len(s) \in DOMAIN t /\ ~(b <= Len(s))
  BY <1>1
<1>4. \A a \in DOMAIN s : a \in DOMAIN st /\ a <= Len(s)
  BY <1>1
<1>5. \A a \in DOMAIN t : /\ a + Len(s) \in DOMAIN st /\ ~(a + Len(s) <= Len(s))
                          /\ a + Len(s) - Len(s) = a
  BY <1>1
<1>6. \A a \in DOMAIN t : st[a + Len(s)] = t[a]
  BY <1>2, <1>5
<1>7. \A b \in DOMAIN st : \/ \E a \in DOMAIN s : st[b] = s[a]
                           \/ \E a \in DOMAIN t : st[b] = t[a]
  BY <1>2, <1>3
<1> QED
  BY <1>1, <1>2, <1>4, <1>5, <1>6, <1>7 DEF Joins

\* Keys under which rows can be written.
KeysFit(rs, S, alloc) ==
    /\ \A i \in S : Key(rs, i, alloc) \in Nat \ {0}
    /\ \A i, h \in S : Key(rs, i, alloc) = Key(rs, h, alloc) => i = h

\* The blocks of some rows: all their pieces, and nothing else.
Renders(out, rs, S, alloc) ==
    /\ \A b \in DOMAIN out : \E i \in S : \E n \in DOMAIN Parts[rs[i].text] :
          out[b] = Piece(rs, i, n, alloc)
    /\ \A i \in S : \A n \in DOMAIN Parts[rs[i].text] : \E b \in DOMAIN out :
          out[b] = Piece(rs, i, n, alloc)

LEMMA RenderedElements ==
  ASSUME NEW rs \in Seq(Row), NEW S \in SUBSET DOMAIN rs, NEW alloc, KeysFit(rs, S, alloc),
         NEW out, out = RenderedRows(rs, S, alloc)
  PROVE  out \in Seq(Block) /\ Renders(out, rs, S, alloc)
<1> DEFINE P == Pieces(rs, S)
           pieces == Ascending(P)
<1>1. /\ P \in SUBSET (Nat \X Nat) /\ IsFiniteSet(P)
      /\ \A p \in P : p[1] \in S /\ p[2] \in DOMAIN Parts[rs[p[1]].text]
  BY PiecesFinite
<1>2. \A i \in S : \A n \in DOMAIN Parts[rs[i].text] : <<i, n>> \in P
  BY DEF Pieces
<1>3. /\ \A n \in DOMAIN pieces : pieces[n] \in P
      /\ \A p \in P : \E n \in DOMAIN pieces : pieces[n] = p
  <2> HIDE DEF P
  <2> QED
    BY <1>1, AscendingLists
<1>4. out = [n \in DOMAIN pieces |-> Piece(rs, pieces[n][1], pieces[n][2], alloc)]
  BY DEF RenderedRows, Piece
<1>5. out \in Seq(Block)
  BY RenderedFacts DEF KeysFit
<1> HIDE DEF P, pieces
<1>6. ASSUME NEW b \in DOMAIN out
      PROVE  \E i \in S : \E n \in DOMAIN Parts[rs[i].text] : out[b] = Piece(rs, i, n, alloc)
  <2>1. b \in DOMAIN pieces /\ out[b] = Piece(rs, pieces[b][1], pieces[b][2], alloc)
    BY <1>4
  <2> QED
    BY <1>1, <1>3, <2>1
<1>7. ASSUME NEW i \in S, NEW n \in DOMAIN Parts[rs[i].text]
      PROVE  \E b \in DOMAIN out : out[b] = Piece(rs, i, n, alloc)
  <2>1. PICK b \in DOMAIN pieces : pieces[b] = <<i, n>>
    BY <1>2, <1>3
  <2>2. b \in DOMAIN out /\ out[b] = Piece(rs, i, n, alloc)
    BY <1>4, <2>1
  <2> QED
    BY <2>2
<1> QED
  BY <1>5, <1>6, <1>7 DEF Renders

\* The keys of rendered rows are keys, and differ.
LEMMA AppendedKeys ==
  ASSUME NEW rs, NEW from, NEW f, NEW alloc, NEW sn, Merging(rs, from, f, alloc),
         NEW S, S = Appended(rs, f, sn)
  PROVE  /\ S \in SUBSET DOMAIN rs
         /\ \A i \in S : Key(rs, i, alloc) = rs[i].key /\ Key(rs, i, alloc) # NoKey
         /\ KeysFit(rs, S, alloc)
<1>1. rs \in Seq(Row) /\ Numbered(rs, from)
  BY DEF Merging
<1>2. \A i \in S : i \in DOMAIN rs /\ rs[i].key # NoKey /\ Key(rs, i, alloc) = rs[i].key
  BY DEF Appended, Missing, Keyless, Live, Key
<1>3. \A i \in DOMAIN rs : rs[i].key \in Nat
  <2>1. \A i \in DOMAIN rs : rs[i] \in Row
    BY <1>1
  <2> QED
    BY <2>1 DEF Row
<1>4. \A i, h \in S : Key(rs, i, alloc) = Key(rs, h, alloc) => i = h
  BY <1>1, <1>2 DEF Numbered
<1> QED
  BY <1>2, <1>3, <1>4 DEF NoKey, KeysFit

LEMMA KeylessKeys ==
  ASSUME NEW rs, NEW from, NEW f, NEW alloc, Merging(rs, from, f, alloc),
         NEW S, S = Keyless(rs)
  PROVE  /\ S \in SUBSET DOMAIN rs
         /\ \A i \in S : /\ Key(rs, i, alloc) = alloc[<<i, "row">>] /\ <<i, "row">> \in Needs(rs, f)
                         /\ Key(rs, i, alloc) # NoKey
         /\ KeysFit(rs, S, alloc)
<1>1. /\ \A n \in Needs(rs, f) : alloc[n] \in Nat \ {0}
      /\ \A m, n \in Needs(rs, f) : alloc[m] = alloc[n] => m = n
  BY GivenKeys
<1>2. \A i \in S : /\ i \in DOMAIN rs /\ <<i, "row">> \in Needs(rs, f)
                   /\ Key(rs, i, alloc) = alloc[<<i, "row">>]
  BY DEF Keyless, Live, Needs, Key
<1>4. \A i, h \in S : Key(rs, i, alloc) = Key(rs, h, alloc) => i = h
  <2> SUFFICES ASSUME NEW i \in S, NEW h \in S, Key(rs, i, alloc) = Key(rs, h, alloc)
               PROVE  i = h
    OBVIOUS
  <2>1. /\ <<i, "row">> \in Needs(rs, f) /\ <<h, "row">> \in Needs(rs, f)
        /\ alloc[<<i, "row">>] = alloc[<<h, "row">>]
    BY <1>2
  <2>2. <<i, "row">> = <<h, "row">>
    BY <1>1, <2>1
  <2> QED
    BY <2>2
<1> QED
  <2>1. ASSUME NEW i \in S PROVE Key(rs, i, alloc) \in Nat \ {0}
    <3>1. <<i, "row">> \in Needs(rs, f) /\ Key(rs, i, alloc) = alloc[<<i, "row">>]
      BY <1>2
    <3>2. alloc[<<i, "row">>] \in Nat \ {0}
      BY <1>1, <3>1
    <3> QED
      BY <3>1, <3>2
  <2>2. KeysFit(rs, S, alloc)
    BY <1>4, <2>1 DEF KeysFit
  <2> QED
    BY <1>2, <2>1, <2>2 DEF NoKey

\* The blocks of the file after the merge, one by one.
LEMMA BlockCases ==
  ASSUME NEW rs, NEW from, NEW f, NEW alloc, NEW sn, NEW gate, Merging(rs, from, f, alloc),
         NEW out, out = FileAfter(rs, f, sn, alloc, gate)
  PROVE  /\ \A b \in DOMAIN out :
               \/ \E j \in DOMAIN f : out[b] = MergedBlock(rs, f, j, sn, alloc, gate)
               \/ \E i \in Appended(rs, f, sn) \cup Keyless(rs) :
                     \E n \in DOMAIN Parts[rs[i].text] : out[b] = Piece(rs, i, n, alloc)
         /\ \A j \in DOMAIN f : \E b \in DOMAIN out :
               out[b] = MergedBlock(rs, f, j, sn, alloc, gate)
         /\ \A i \in Appended(rs, f, sn) \cup Keyless(rs) :
               \A n \in DOMAIN Parts[rs[i].text] : \E b \in DOMAIN out :
                  out[b] = Piece(rs, i, n, alloc)
<1> DEFINE merged == [j \in DOMAIN f |-> MergedBlock(rs, f, j, sn, alloc, gate)]
           listed == RenderedRows(rs, Appended(rs, f, sn), alloc)
           keyed == RenderedRows(rs, Keyless(rs), alloc)
           rest == listed \o keyed
<1>1. rs \in Seq(Row) /\ f \in Seq(Block)
  BY DEF Merging
<1>2. merged \in Seq(Block) /\ DOMAIN merged = DOMAIN f
  <2>1. DOMAIN f = 1 .. Len(f) /\ Len(f) \in Nat
    BY <1>1
  <2>2. \A j \in DOMAIN f : MergedBlock(rs, f, j, sn, alloc, gate) \in Block
    BY MergedBlockFacts
  <2>3. merged \in [1 .. Len(f) -> Block]
    BY <2>1, <2>2
  <2> QED
    BY <2>1, <2>3, SeqDef
<1>3. listed \in Seq(Block) /\ Renders(listed, rs, Appended(rs, f, sn), alloc)
  <2>1. PICK S : S = Appended(rs, f, sn)
    OBVIOUS
  <2>2. S \in SUBSET DOMAIN rs /\ KeysFit(rs, S, alloc)
    BY <2>1, AppendedKeys
  <2>3. /\ RenderedRows(rs, S, alloc) \in Seq(Block)
        /\ Renders(RenderedRows(rs, S, alloc), rs, S, alloc)
    BY <1>1, <2>2, RenderedElements
  <2> QED
    BY <2>1, <2>3
<1>4. keyed \in Seq(Block) /\ Renders(keyed, rs, Keyless(rs), alloc)
  <2>1. PICK S : S = Keyless(rs)
    OBVIOUS
  <2>2. S \in SUBSET DOMAIN rs /\ KeysFit(rs, S, alloc)
    BY <2>1, KeylessKeys
  <2>3. /\ RenderedRows(rs, S, alloc) \in Seq(Block)
        /\ Renders(RenderedRows(rs, S, alloc), rs, S, alloc)
    BY <1>1, <2>2, RenderedElements
  <2> QED
    BY <2>1, <2>3
<1>5. \A j \in DOMAIN f : merged[j] = MergedBlock(rs, f, j, sn, alloc, gate)
  OBVIOUS
<1>6. out = merged \o rest
  BY DEF FileAfter, AppendedBlocks
<1> HIDE DEF merged, listed, keyed
<1>7. rest \in Seq(Block) /\ Joins(rest, listed, keyed)
  BY <1>3, <1>4, ConcatElements
<1> HIDE DEF rest
<1>8. Joins(out, merged, rest)
  BY <1>2, <1>6, <1>7, ConcatElements
<1>9. ASSUME NEW b \in DOMAIN out
      PROVE  \/ \E j \in DOMAIN f : out[b] = MergedBlock(rs, f, j, sn, alloc, gate)
             \/ \E i \in Appended(rs, f, sn) \cup Keyless(rs) :
                   \E n \in DOMAIN Parts[rs[i].text] : out[b] = Piece(rs, i, n, alloc)
  <2>1. CASE \E a \in DOMAIN merged : out[b] = merged[a]
    BY <1>2, <1>5, <2>1
  <2>2. CASE \E a \in DOMAIN rest : out[b] = rest[a]
    <3>1. PICK a \in DOMAIN rest : out[b] = rest[a]
      BY <2>2
    <3>2. \/ \E c \in DOMAIN listed : rest[a] = listed[c]
          \/ \E c \in DOMAIN keyed : rest[a] = keyed[c]
      BY <1>7 DEF Joins
    <3> QED
      BY <1>3, <1>4, <3>1, <3>2 DEF Renders
  <2> QED
    BY <1>8, <2>1, <2>2 DEF Joins
<1>10. ASSUME NEW j \in DOMAIN f
       PROVE  \E b \in DOMAIN out : out[b] = MergedBlock(rs, f, j, sn, alloc, gate)
  BY <1>2, <1>5, <1>8 DEF Joins
<1>11. ASSUME NEW i \in Appended(rs, f, sn) \cup Keyless(rs), NEW n \in DOMAIN Parts[rs[i].text]
       PROVE  \E b \in DOMAIN out : out[b] = Piece(rs, i, n, alloc)
  <2>1. \E a \in DOMAIN rest : rest[a] = Piece(rs, i, n, alloc)
    BY <1>3, <1>4, <1>7 DEF Joins, Renders
  <2> QED
    BY <1>8, <2>1 DEF Joins
<1> QED
  BY <1>9, <1>10, <1>11


-----------------------------------------------------------------------------
(* File, rows and snapshot after a merge say the same.                       *)

\* A row and its block say the same.
Says(row, block) ==
    /\ row.key = block.key /\ row.st = block.st
    /\ block.text \notin Refused => block.text = Parts[row.text][1].text
    /\ block.text \in Refused /\ row.text \in Plain => Kept[<<row.text, block.text>>] = row.text

\* Every live row is in the file, where its block says what the row and the
\* snapshot say; every readable block is known or split off a prose; the
\* snapshot names live rows.
Agreed(rs, f, sn) ==
    /\ IdsFit(f, rs)
    /\ \A i \in Live(rs) : rs[i].key # NoKey /\ \E j \in DOMAIN f :
          /\ f[j].key = rs[i].key
          /\ f[j].ok => /\ Says(rs[i], f[j])
                        /\ rs[i].key \in DOMAIN sn /\ sn[rs[i].key] = rs[i].st
    /\ \A j \in DOMAIN f : f[j].ok /\ f[j].text \notin Refused =>
          \/ Known(rs, f[j].key)
          \/ \E i \in Live(rs) : f[j] \in Split(rs[i].text)
    /\ \A k \in DOMAIN sn : \E i \in Live(rs) : rs[i].key = k

Readable(rs, f) ==
    /\ \A i \in DOMAIN rs : rs[i].text \notin Refused
    /\ \A j \in DOMAIN f : f[j].text \in Plain

IsFcn(sn) == sn = [k \in DOMAIN sn |-> sn[k]]

\* Some block of each id has the status token of the snapshot, unless somebody
\* else wrote one.
Faithful(f, sn, others) ==
    \A k \in (DOMAIN sn \cap FileKeys(f)) \ others :
        \E j \in DOMAIN f : f[j].key = k /\ (f[j].ok => f[j].st = sn[k])

\* The request in service changes no status but the one it sets, and the ones
\* others have written.
StatusKept(rs) ==
    /\ DOMAIN rows \subseteq DOMAIN rs
    /\ \A i \in DOMAIN rows : rs[i].st # rows[i].st =>
          \/ op.kind = "status" /\ op.row = i
          \/ rows[i].key \in touched

FileInv ==
    /\ Readable(rows, file) /\ Readable(work.rows, work.out)
    /\ IsFcn(snap) /\ IsFcn(work.snap)
    /\ clean => Agreed(rows, file, snap)
    /\ work.full => Agreed(work.rows, work.out, work.snap)
    /\ phase = "merged" => work.full
    /\ phase # "written" => Faithful(file, snap, touched)
    /\ phase = "written" => Faithful(file, work.snap, touched)
    /\ phase # "idle" => StatusKept(work.rows)

\* The keys whose status the snapshot takes from the rows.
Told(rs, f, sn, alloc) ==
    {alloc[<<j, "block">>] : j \in CreatedBlocks(rs, f)}
        \cup {f[j].key : j \in Matched(rs, f)}
        \cup {rs[i].key : i \in Appended(rs, f, sn)}
        \cup {alloc[<<i, "row">>] : i \in Keyless(rs)}

LEMMA SnapAfterIs ==
  ASSUME NEW rs, NEW f, NEW alloc, NEW sn, NEW gate,
         NEW after, after = RowsAfter(rs, f, sn, alloc, gate),
         NEW s2, s2 = SnapAfter(rs, f, sn, alloc, gate)
  PROVE  /\ IsFcn(s2)
         /\ \A k \in Told(rs, f, sn, alloc) : k \in DOMAIN s2 /\ s2[k] = after[RowOf(after, k)].st
         /\ \A k \in DOMAIN s2 : k \notin Told(rs, f, sn, alloc) =>
               /\ k \in DOMAIN sn /\ \E i \in Live(rs) : rs[i].key = k
               /\ \E j \in DOMAIN f : ~f[j].ok /\ f[j].key = k
         /\ \A k \in DOMAIN sn : (\E i \in Live(rs) : rs[i].key = k) /\ (\E j \in DOMAIN f : ~f[j].ok /\ f[j].key = k)
               => k \in DOMAIN s2
<1> DEFINE kept == {k \in DOMAIN sn : \E i \in Live(rs) : rs[i].key = k
                                       /\ \E j \in DOMAIN f : ~f[j].ok /\ f[j].key = k}
           told == Told(rs, f, sn, alloc)
<1>1. s2 = [k \in told \cup kept |-> IF k \in told THEN after[RowOf(after, k)].st ELSE sn[k]]
  BY DEF SnapAfter, Told
<1>2. \A k : k \in kept <=> /\ k \in DOMAIN sn /\ \E i \in Live(rs) : rs[i].key = k
                            /\ \E j \in DOMAIN f : ~f[j].ok /\ f[j].key = k
  OBVIOUS
<1> HIDE DEF told, kept
<1>3. DOMAIN s2 = told \cup kept
  BY <1>1
<1>4. IsFcn(s2)
  BY <1>1 DEF IsFcn
<1>5. \A k \in told : s2[k] = after[RowOf(after, k)].st
  BY <1>1
<1> QED
  BY <1>2, <1>3, <1>4, <1>5 DEF told

\* A block that becomes a row.
LEMMA CreatedSpeaks ==
  ASSUME NEW rs, NEW from, NEW f, NEW alloc, NEW sn, NEW gate, Merging(rs, from, f, alloc),
         Readable(rs, f), NEW after, after = RowsAfter(rs, f, sn, alloc, gate),
         NEW j \in CreatedBlocks(rs, f), NEW block, block = MergedBlock(rs, f, j, sn, alloc, gate)
  PROVE  /\ block.key \in Told(rs, f, sn, alloc) /\ block.key # NoKey
         /\ block.key \notin FileKeys(f) /\ block.text \notin Refused
         /\ \E i \in Live(after) : Says(after[i], block)
<1>1. f \in Seq(Block) /\ j \in DOMAIN f /\ f[j].text \notin Refused /\ <<j, "block">> \in Needs(rs, f)
  BY DEF Merging, CreatedBlocks, NewBlocks, Needs
<1>2. f[j] \in Block
  BY <1>1
<1>3. block = [f[j] EXCEPT !.key = alloc[<<j, "block">>]]
  BY DEF MergedBlock
<1>4. block.key = alloc[<<j, "block">>] /\ block.text = f[j].text /\ block.st = f[j].st
  BY <1>2, <1>3 DEF Block
<1>5. alloc[<<j, "block">>] # NoKey /\ alloc[<<j, "block">>] \notin FileKeys(f)
  BY <1>1, GivenKeys DEF NoKey
<1>6. PICK i \in DOMAIN after \ DOMAIN rs :
         after[i] = [key |-> alloc[<<j, "block">>], text |-> f[j].text, st |-> f[j].st, life |-> "open"]
  BY CreatedRowAfter
<1>7. i \in Live(after)
  BY <1>6 DEF Live
<1>8. Parts[f[j].text][1].text = f[j].text
  BY <1>1, PlainText DEF Readable
<1>9. Says(after[i], block)
  BY <1>1, <1>4, <1>6, <1>8 DEF Says
<1> QED
  BY <1>1, <1>4, <1>5, <1>7, <1>9 DEF Told

\* A block that has its row.
LEMMA MatchedSpeaks ==
  ASSUME NEW rs, NEW from, NEW f, NEW alloc, NEW sn, NEW gate, Merging(rs, from, f, alloc),
         Readable(rs, f), NEW after, after = RowsAfter(rs, f, sn, alloc, gate),
         NEW j \in Matched(rs, f), NEW block, block = MergedBlock(rs, f, j, sn, alloc, gate),
         NEW i, i = RowOf(rs, f[j].key)
  PROVE  /\ block.key \in Told(rs, f, sn, alloc) /\ block.key # NoKey
         /\ i \in Live(after) /\ i \in Live(rs) /\ rs[i].key = f[j].key /\ block.key = f[j].key
         /\ Says(after[i], block)
<1>1. rs \in Seq(Row) /\ f \in Seq(Block)
  BY DEF Merging
<1>2. /\ j \in DOMAIN f /\ f[j].ok
      /\ i \in Live(rs) /\ rs[i].key = f[j].key /\ rs[i].key # NoKey
      /\ i \notin Keyless(rs) /\ i \notin Missing(rs, f)
      /\ MergedBlock(rs, f, j, sn, alloc, gate) =
           [f[j] EXCEPT !.st = FinalStatus(rs[i], f[j], sn, gate)]
      /\ MergedRow(rs, i, f, sn, alloc, gate) =
           [rs[i] EXCEPT !.text = IF f[j].text \in Refused THEN Kept[<<rs[i].text, f[j].text>>]
                                  ELSE f[j].text,
                         !.st = FinalStatus(rs[i], f[j], sn, gate)]
  <2>1. Paired(rs, f, alloc, sn, gate, j, i)
    BY MatchedPair
  <2> QED
    BY <2>1 DEF Paired
<1>3. i \in DOMAIN rs
  BY <1>2 DEF Live
<1>4. rs[i] \in Row /\ f[j] \in Block
  BY <1>1, <1>2, <1>3
<1> DEFINE text == IF f[j].text \in Refused THEN Kept[<<rs[i].text, f[j].text>>] ELSE f[j].text
           st == FinalStatus(rs[i], f[j], sn, gate)
<1>5. after[i] = [rs[i] EXCEPT !.text = text, !.st = st] /\ i \in DOMAIN after
  BY <1>2, <1>3, RowsAfterFacts
<1> HIDE DEF st
<1>6. /\ after[i].key = rs[i].key /\ after[i].st = st /\ after[i].text = text
      /\ after[i].life = rs[i].life
      /\ block.key = f[j].key /\ block.st = st /\ block.text = f[j].text
  BY <1>2, <1>4, <1>5 DEF Row, Block, st
<1>7. i \in Live(after)
  BY <1>2, <1>5, <1>6 DEF Live
<1>8. Parts[f[j].text][1].text = f[j].text
  BY <1>2, PlainText DEF Readable
<1>9. ASSUME f[j].text \in Refused PROVE Kept[<<text, f[j].text>>] = text
  <2>1. text = Kept[<<rs[i].text, f[j].text>>] /\ rs[i].text \in Texts
    BY <1>4, <1>9 DEF Row
  <2> QED
    BY <1>9, <2>1, TextAssumption
<1>10. Says(after[i], block)
  BY <1>2, <1>6, <1>8, <1>9 DEF Says
<1> QED
  BY <1>2, <1>6, <1>7, <1>10 DEF Told

\* A row that is written into the file.
LEMMA RenderedSpeaks ==
  ASSUME NEW rs, NEW from, NEW f, NEW alloc, NEW sn, NEW gate, Merging(rs, from, f, alloc),
         Readable(rs, f), NEW after, after = RowsAfter(rs, f, sn, alloc, gate),
         NEW i \in Appended(rs, f, sn) \cup Keyless(rs), NEW block, block = Piece(rs, i, 1, alloc)
  PROVE  /\ block.key \in Told(rs, f, sn, alloc) /\ block.key # NoKey
         /\ block.key \notin FileKeys(f)
         /\ i \in Live(after) /\ after[i].text = rs[i].text
         /\ Says(after[i], block)
<1>1. rs \in Seq(Row)
  BY DEF Merging
<1>2. i \in Live(rs) /\ i \in DOMAIN rs
  BY DEF Appended, Missing, Keyless, Live
<1>3. rs[i] \in Row
  BY <1>1, <1>2
<1>4. rs[i].text \in Texts
  BY <1>3 DEF Row
<1>6. block = [key |-> Key(rs, i, alloc), text |-> Parts[rs[i].text][1].text, st |-> rs[i].st, ok |-> TRUE]
  BY <1>4, RenderedIs DEF Piece
<1>7. Key(rs, i, alloc) # NoKey
  <2>1. CASE i \in Appended(rs, f, sn)
    BY <2>1, AppendedKeys
  <2>2. CASE i \in Keyless(rs)
    BY <2>2, KeylessKeys
  <2> QED
    BY <2>1, <2>2
<1>8. Key(rs, i, alloc) \in Told(rs, f, sn, alloc) /\ Key(rs, i, alloc) \notin FileKeys(f)
  <2>1. CASE i \in Keyless(rs)
    <3>1. Key(rs, i, alloc) = alloc[<<i, "row">>] /\ <<i, "row">> \in Needs(rs, f)
      BY <2>1, KeylessKeys
    <3> QED
      BY <2>1, <3>1, GivenKeys DEF Told
  <2>2. CASE i \in Appended(rs, f, sn)
    <3>1. Key(rs, i, alloc) = rs[i].key
      BY <2>2 DEF Appended, Missing, Keyless, Key
    <3> QED
      BY <2>2, <3>1 DEF Told, Appended, Missing
  <2> QED
    BY <2>1, <2>2
<1>9. /\ after[i].key = Key(rs, i, alloc) /\ after[i].text = rs[i].text
      /\ after[i].st = rs[i].st /\ after[i].life = rs[i].life /\ i \in DOMAIN after
  <2>1. after[i] = MergedRow(rs, i, f, sn, alloc, gate) /\ i \in DOMAIN after
    BY <1>2, RowsAfterFacts
  <2>2. CASE i \in Keyless(rs)
    <3>1. after[i] = [rs[i] EXCEPT !.key = alloc[<<i, "row">>]]
      BY <2>1, <2>2 DEF MergedRow
    <3> QED
      BY <1>3, <2>1, <2>2, <3>1 DEF Row, Key
  <2>3. CASE i \notin Keyless(rs)
    <3>1. i \in Appended(rs, f, sn) /\ rs[i].key \notin DOMAIN sn /\ rs[i].key \notin FileKeys(f)
          /\ rs[i].key # NoKey
      BY <2>3 DEF Appended, Missing
    <3>2. rs[i].key \notin {f[h].key : h \in Matched(rs, f)}
      BY <3>1 DEF Matched, FileKeys
    <3>3. after[i] = rs[i]
      BY <2>1, <2>3, <3>1, <3>2 DEF MergedRow
    <3> QED
      BY <2>1, <2>3, <3>3 DEF Key
  <2> QED
    BY <2>2, <2>3
<1>10. i \in Live(after)
  BY <1>2, <1>9 DEF Live
<1>11. Says(after[i], block)
  <2>1. block.text = Parts[after[i].text][1].text /\ block.key = after[i].key /\ block.st = after[i].st
    BY <1>6, <1>9
  <2>2. block.text \in Refused => after[i].text \notin Plain
    <3>1. after[i].text \notin Refused
      BY <1>2, <1>9 DEF Readable
    <3>2. after[i].text \in Plain => Parts[after[i].text][1].text = after[i].text
      BY PlainText
    <3> QED
      BY <2>1, <3>1, <3>2
  <2> QED
    BY <2>1, <2>2 DEF Says
<1> QED
  BY <1>6, <1>7, <1>8, <1>9, <1>10, <1>11

\* Rows that are archived or deleted are left alone.
LEMMA QuietRow ==
  ASSUME NEW rs, NEW from, NEW f, NEW alloc, NEW sn, NEW gate, Merging(rs, from, f, alloc),
         NEW after, after = RowsAfter(rs, f, sn, alloc, gate),
         NEW i \in DOMAIN rs, i \notin Live(rs)
  PROVE  i \in DOMAIN after /\ after[i] = rs[i]
<1>1. after[i] = MergedRow(rs, i, f, sn, alloc, gate) /\ i \in DOMAIN after
  BY RowsAfterFacts
<1>2. i \notin Keyless(rs) /\ i \notin Missing(rs, f)
  BY DEF Keyless, Missing
<1> QED
  BY <1>1, <1>2 DEF MergedRow

\* A live row whose key stands in the file keeps it, and lives on.
LEMMA RowStays ==
  ASSUME NEW rs, NEW from, NEW f, NEW alloc, NEW sn, NEW gate, Merging(rs, from, f, alloc),
         NEW after, after = RowsAfter(rs, f, sn, alloc, gate),
         NEW i \in Live(rs), rs[i].key \in FileKeys(f)
  PROVE  i \in Live(after) /\ after[i].key = rs[i].key
<1>1. /\ i \in DOMAIN rs /\ rs[i].key # NoKey /\ i \notin Keyless(rs) /\ i \notin Missing(rs, f)
      /\ rs[i].life \in {"open", "resolved"}
  BY DEF Live, FileKeys, Keyless, Missing
<1>2. rs[i] \in Row
  BY <1>1 DEF Merging
<1>3. after[i] = MergedRow(rs, i, f, sn, alloc, gate) /\ i \in DOMAIN after
  BY <1>1, RowsAfterFacts
<1>4. CASE rs[i].key \in {f[j].key : j \in Matched(rs, f)}
  <2>1. PICK text, st : after[i] = [rs[i] EXCEPT !.text = text, !.st = st]
    BY <1>1, <1>3, <1>4 DEF MergedRow
  <2>2. after[i].key = rs[i].key /\ after[i].life = rs[i].life
    BY <1>2, <2>1 DEF Row
  <2> QED
    BY <1>1, <1>3, <2>2 DEF Live
<1>5. CASE rs[i].key \notin {f[j].key : j \in Matched(rs, f)}
  <2>1. after[i] = rs[i]
    BY <1>1, <1>3, <1>5 DEF MergedRow
  <2> QED
    BY <1>1, <1>3, <2>1 DEF Live
<1> QED
  BY <1>4, <1>5

\* A live row under a key of the file was a live row under that key before.
LEMMA RowWas ==
  ASSUME NEW rs, NEW from, NEW f, NEW alloc, NEW sn, NEW gate, Merging(rs, from, f, alloc),
         NEW after, after = RowsAfter(rs, f, sn, alloc, gate),
         NEW i \in Live(after), after[i].key \in FileKeys(f)
  PROVE  i \in Live(rs) /\ after[i].key = rs[i].key
<1>1. i \in DOMAIN after /\ after[i].life \in {"open", "resolved"}
  BY DEF Live
<1>2. \A n \in Needs(rs, f) : alloc[n] \notin FileKeys(f)
  BY GivenKeys
<1>3. i \in DOMAIN rs
  <2> SUFFICES ASSUME i \in DOMAIN after \ DOMAIN rs PROVE FALSE
    BY <1>1
  <2>1. \E j \in CreatedBlocks(rs, f) :
           <<j, "block">> \in Needs(rs, f) /\ after[i].key = alloc[<<j, "block">>]
    BY NewRowAfter
  <2> QED
    BY <1>2, <2>1
<1>4. /\ after[i].life \in {"open", "resolved"} => after[i].life = rs[i].life
      /\ \/ i \notin Keyless(rs) /\ after[i].key = rs[i].key
         \/ <<i, "row">> \in Needs(rs, f) /\ after[i].key = alloc[<<i, "row">>]
  BY <1>3, OldRowAfter
<1> QED
  BY <1>1, <1>2, <1>3, <1>4 DEF Live

\* A readable block that neither becomes a row nor is matched with one.
LEMMA SilentBlock ==
  ASSUME NEW rs, NEW from, NEW f, NEW alloc, NEW sn, NEW gate, Merging(rs, from, f, alloc),
         NEW after, after = RowsAfter(rs, f, sn, alloc, gate),
         NEW j \in DOMAIN f, f[j].ok, j \notin CreatedBlocks(rs, f), j \notin Matched(rs, f)
  PROVE  /\ f[j].text \notin Refused => Known(after, f[j].key)
         /\ \A i \in Live(after) : after[i].key = f[j].key => f[j].key = NoKey
<1>1. rs \in Seq(Row) /\ Numbered(rs, from)
  BY DEF Merging
<1>2. ASSUME f[j].text \notin Refused PROVE Known(after, f[j].key)
  <2>1. Known(rs, f[j].key)
    BY <1>2 DEF CreatedBlocks, NewBlocks
  <2>2. PICK i : i = RowOf(rs, f[j].key)
    OBVIOUS
  <2>3. i \in DOMAIN rs /\ rs[i].key = f[j].key /\ f[j].key # NoKey /\ rs[i].life # "deleted"
    BY <2>1, <2>2 DEF Known, RowOf
  <2>4. rs[i].life = "archived"
    BY <2>1, <2>2 DEF Matched
  <2>5. i \notin Live(rs)
    BY <2>4 DEF Live
  <2>6. i \in DOMAIN after /\ after[i] = rs[i]
    BY <2>3, <2>5, QuietRow
  <2> QED
    BY <2>3, <2>6 DEF Known
<1>3. ASSUME NEW i \in Live(after), after[i].key = f[j].key, f[j].key # NoKey PROVE FALSE
  <2>1. f[j].key \in FileKeys(f)
    BY <1>3 DEF FileKeys
  <2>2. i \in Live(rs) /\ rs[i].key = f[j].key
    BY <1>3, <2>1, RowWas
  <2>3. /\ i \in DOMAIN rs /\ rs[i].life # "deleted" /\ rs[i].life # "archived"
        /\ rs[i].key # NoKey
    BY <1>3, <2>2 DEF Live
  <2>4. Known(rs, f[j].key) /\ RowOf(rs, f[j].key) = i
    BY <1>1, <2>2, <2>3, RowOfIs
  <2>5. j \in Matched(rs, f)
    BY <2>3, <2>4 DEF Matched
  <2> QED
    BY <2>5
<1> QED
  BY <1>2, <1>3

\* A block of the merged file that speaks for a row.
Heard(block, after, told) ==
    block.key \in told /\ block.key # NoKey /\ \E i \in Live(after) : Says(after[i], block)

\* What a block of the merged file can be: one that speaks for a row, a piece
\* that a heading split off a row's prose, or one that was there and is left alone.
LEMMA OutBlock ==
  ASSUME NEW rs, NEW from, NEW f, NEW alloc, NEW sn, NEW gate, Merging(rs, from, f, alloc),
         Readable(rs, f), NEW after, after = RowsAfter(rs, f, sn, alloc, gate),
         NEW out, out = FileAfter(rs, f, sn, alloc, gate), NEW b \in DOMAIN out
  PROVE  \/ Heard(out[b], after, Told(rs, f, sn, alloc))
         \/ \E i \in Live(after) : out[b] \in Split(after[i].text)
         \/ \E j \in DOMAIN f : /\ out[b] = f[j]
                                /\ j \notin CreatedBlocks(rs, f) /\ j \notin Matched(rs, f)
<1>1. \/ \E j \in DOMAIN f : out[b] = MergedBlock(rs, f, j, sn, alloc, gate)
      \/ \E i \in Appended(rs, f, sn) \cup Keyless(rs) :
            \E n \in DOMAIN Parts[rs[i].text] : out[b] = Piece(rs, i, n, alloc)
  BY BlockCases
<1>2. CASE \E j \in DOMAIN f : out[b] = MergedBlock(rs, f, j, sn, alloc, gate)
  <2>1. PICK j \in DOMAIN f : out[b] = MergedBlock(rs, f, j, sn, alloc, gate)
    BY <1>2
  <2>2. CASE j \in CreatedBlocks(rs, f)
    BY <2>1, <2>2, CreatedSpeaks DEF Heard
  <2>3. CASE j \in Matched(rs, f)
    <3>1. PICK i : i = RowOf(rs, f[j].key)
      OBVIOUS
    <3> QED
      BY <2>1, <2>3, <3>1, MatchedSpeaks DEF Heard
  <2>4. CASE j \notin CreatedBlocks(rs, f) /\ j \notin Matched(rs, f)
    <3>1. out[b] = f[j]
      BY <2>1, <2>4 DEF MergedBlock
    <3> QED
      BY <2>4, <3>1
  <2> QED
    BY <2>2, <2>3, <2>4
<1>3. CASE \E i \in Appended(rs, f, sn) \cup Keyless(rs) :
              \E n \in DOMAIN Parts[rs[i].text] : out[b] = Piece(rs, i, n, alloc)
  <2>0. PICK i \in Appended(rs, f, sn) \cup Keyless(rs) :
              \E n \in DOMAIN Parts[rs[i].text] : out[b] = Piece(rs, i, n, alloc)
    BY <1>3
  <2>1. PICK n \in DOMAIN Parts[rs[i].text] : out[b] = Piece(rs, i, n, alloc)
    BY <2>0
  <2>2. PICK first : first = Piece(rs, i, 1, alloc)
    OBVIOUS
  <2>3. /\ Heard(first, after, Told(rs, f, sn, alloc))
        /\ i \in Live(after) /\ after[i].text = rs[i].text
    BY <2>2, RenderedSpeaks DEF Heard
  <2>4. CASE n = 1
    BY <2>1, <2>2, <2>3, <2>4
  <2>5. CASE n # 1
    <3>1. i \in DOMAIN rs /\ rs \in Seq(Row)
      BY DEF Merging, Appended, Missing, Keyless, Live
    <3>2. rs[i] \in Row
      BY <3>1
    <3>3. rs[i].text \in Texts
      BY <3>2 DEF Row
    <3>4. PICK key, st : out[b] = Rendered(key, rs[i].text, st)[n]
      BY <2>1 DEF Piece
    <3>5. out[b] \in Split(rs[i].text)
      <4>1. PICK text : text = rs[i].text
        OBVIOUS
      <4>2. n \in DOMAIN Parts[text] /\ text \in Texts /\ out[b] = Rendered(key, text, st)[n]
        BY <3>3, <3>4, <4>1
      <4>3. Rendered(key, text, st)[n] \in Split(text)
        BY <2>5, <4>2, RenderedIs
      <4> QED
        BY <4>1, <4>2, <4>3
    <3> QED
      BY <2>3, <3>5
  <2> QED
    BY <2>4, <2>5
<1> QED
  BY <1>1, <1>2, <1>3


\* Every live row is in the merged file.
LEMMA RowShown ==
  ASSUME NEW rs, NEW from, NEW f, NEW alloc, NEW sn, NEW gate, Merging(rs, from, f, alloc),
         Readable(rs, f), NEW after, after = RowsAfter(rs, f, sn, alloc, gate),
         NEW out, out = FileAfter(rs, f, sn, alloc, gate), NEW i \in Live(after)
  PROVE  /\ after[i].key # NoKey
         /\ \E b \in DOMAIN out :
               /\ out[b].key = after[i].key
               /\ out[b].ok => Says(after[i], out[b]) /\ after[i].key \in Told(rs, f, sn, alloc)
<1>1. i \in DOMAIN after /\ after[i].life \in {"open", "resolved"}
  BY DEF Live
<1>2. rs \in Seq(Row) /\ Numbered(rs, from)
  BY DEF Merging
<1>3. \A h \in Live(after) : after[h].key = after[i].key => h = i \/ after[i].key = NoKey
  <2>1. Numbered(after, NextSeqAfter(alloc, from))
    BY RowsAfterNumbered
  <2> QED
    BY <1>1, <2>1 DEF Numbered, Live
<1>4. ASSUME NEW block, Heard(block, after, Told(rs, f, sn, alloc)), block.key = after[i].key
      PROVE  /\ after[i].key # NoKey /\ Says(after[i], block)
             /\ after[i].key \in Told(rs, f, sn, alloc)
  <2>1. PICK h \in Live(after) : Says(after[h], block) /\ block.key # NoKey
    BY <1>4 DEF Heard
  <2>2. h = i
    BY <1>3, <1>4, <2>1 DEF Says
  <2> QED
    BY <1>4, <2>1, <2>2 DEF Heard
<1>5. \A j \in DOMAIN f : \E b \in DOMAIN out : out[b] = MergedBlock(rs, f, j, sn, alloc, gate)
  BY BlockCases
<1>6. \A h \in Appended(rs, f, sn) \cup Keyless(rs) :
         \A n \in DOMAIN Parts[rs[h].text] : \E b \in DOMAIN out : out[b] = Piece(rs, h, n, alloc)
  BY BlockCases
<1>7. CASE i \notin DOMAIN rs
  <2>1. PICK j \in CreatedBlocks(rs, f) : after[i].key = alloc[<<j, "block">>]
    <3>1. i \in DOMAIN after \ DOMAIN rs
      BY <1>1, <1>7
    <3> QED
      BY <3>1, NewRowAfter
  <2>2. j \in DOMAIN f
    BY DEF CreatedBlocks, NewBlocks
  <2>3. PICK block : block = MergedBlock(rs, f, j, sn, alloc, gate)
    OBVIOUS
  <2>4. PICK b \in DOMAIN out : out[b] = block
    BY <1>5, <2>2, <2>3
  <2>5. block.key = alloc[<<j, "block">>]
    BY <2>2, <2>3, MergedBlockFacts
  <2>6. Heard(block, after, Told(rs, f, sn, alloc))
    BY <2>3, CreatedSpeaks DEF Heard
  <2> QED
    BY <1>4, <2>1, <2>4, <2>5, <2>6
<1>8. CASE i \in Appended(rs, f, sn) \cup Keyless(rs)
  <2>1. PICK block : block = Piece(rs, i, 1, alloc)
    OBVIOUS
  <2>2. Heard(block, after, Told(rs, f, sn, alloc)) /\ Says(after[i], block)
    BY <1>8, <2>1, RenderedSpeaks DEF Heard
  <2>3. 1 \in DOMAIN Parts[rs[i].text]
    <3>1. i \in DOMAIN rs
      BY <1>8 DEF Appended, Missing, Keyless, Live
    <3>2. rs[i] \in Row
      BY <1>2, <3>1
    <3>3. rs[i].text \in Texts
      BY <3>2 DEF Row
    <3> QED
      BY <3>3, RenderedIs
  <2>4. PICK b \in DOMAIN out : out[b] = block
    BY <1>6, <1>8, <2>1, <2>3
  <2> QED
    BY <2>2, <2>4 DEF Heard, Says
<1>9. CASE i \in DOMAIN rs /\ i \notin Appended(rs, f, sn) \cup Keyless(rs)
  <2>1. /\ after[i].life = "archived" =>
              rs[i].life = "archived" \/ (i \in Missing(rs, f) /\ rs[i].key \in DOMAIN sn)
        /\ after[i].life \in {"open", "resolved"} => after[i].life = rs[i].life
        /\ \/ i \notin Keyless(rs) /\ after[i].key = rs[i].key
           \/ <<i, "row">> \in Needs(rs, f) /\ after[i].key = alloc[<<i, "row">>]
    BY <1>9, OldRowAfter
  <2>2. <<i, "row">> \notin Needs(rs, f)
    BY <1>9 DEF Needs
  <2>3. i \in Live(rs) /\ after[i].key = rs[i].key
    BY <1>1, <1>9, <2>1, <2>2 DEF Live
  <2>4. rs[i].key # NoKey
    BY <1>9, <2>3 DEF Keyless
  <2>5. i \notin Missing(rs, f)
    <3> SUFFICES ASSUME i \in Missing(rs, f) PROVE FALSE
      OBVIOUS
    <3>1. rs[i].key \in DOMAIN sn
      BY <1>9 DEF Appended
    <3>2. after[i] = MergedRow(rs, i, f, sn, alloc, gate)
      BY <1>9, RowsAfterFacts
    <3>3. after[i] = [rs[i] EXCEPT !.life = "archived"]
      BY <1>9, <3>1, <3>2 DEF MergedRow
    <3>4. rs[i] \in Row
      BY <1>2, <1>9
    <3>5. after[i].life = "archived"
      BY <3>3, <3>4 DEF Row
    <3> QED
      BY <1>1, <3>5
  <2>6. PICK j \in DOMAIN f : f[j].key = rs[i].key
    BY <2>3, <2>4, <2>5 DEF Missing, FileKeys
  <2>7. PICK block : block = MergedBlock(rs, f, j, sn, alloc, gate)
    OBVIOUS
  <2>8. PICK b \in DOMAIN out : out[b] = block
    BY <1>5, <2>7
  <2>9. Known(rs, f[j].key) /\ RowOf(rs, f[j].key) = i
    BY <1>2, <1>9, <2>3, <2>4, <2>6, RowOfIs DEF Live
  <2>10. CASE f[j].ok
    <3>1. j \in Matched(rs, f)
      BY <2>3, <2>9, <2>10 DEF Matched, Live
    <3>2. block.key = f[j].key /\ Says(after[i], block) /\ block.key \in Told(rs, f, sn, alloc)
      BY <2>7, <2>9, <3>1, MatchedSpeaks
    <3> QED
      BY <2>3, <2>4, <2>6, <2>8, <3>2
  <2>11. CASE ~f[j].ok
    <3>1. block = f[j]
      BY <2>7, <2>11 DEF MergedBlock, CreatedBlocks, NewBlocks, Matched
    <3> QED
      BY <2>3, <2>4, <2>6, <2>8, <2>11, <3>1
  <2> QED
    BY <2>10, <2>11
<1> QED
  BY <1>7, <1>8, <1>9

\* The snapshot names live rows.
LEMMA SnapNamesLive ==
  ASSUME NEW rs, NEW from, NEW f, NEW alloc, NEW sn, NEW gate, Merging(rs, from, f, alloc),
         Readable(rs, f), Below(sn, from), NEW after, after = RowsAfter(rs, f, sn, alloc, gate),
         NEW s2, s2 = SnapAfter(rs, f, sn, alloc, gate), NEW k \in DOMAIN s2
  PROVE  \E i \in Live(after) : after[i].key = k
<1>1. CASE k \in Told(rs, f, sn, alloc)
  <2>1. CASE \E j \in CreatedBlocks(rs, f) : k = alloc[<<j, "block">>]
    <3>1. PICK j \in CreatedBlocks(rs, f) : k = alloc[<<j, "block">>]
      BY <2>1
    <3>2. PICK block : block = MergedBlock(rs, f, j, sn, alloc, gate)
      OBVIOUS
    <3>3. j \in DOMAIN f
      BY DEF CreatedBlocks, NewBlocks
    <3>4. block.key = k
      BY <3>1, <3>2, <3>3, MergedBlockFacts
    <3>5. \E i \in Live(after) : Says(after[i], block)
      BY <3>2, CreatedSpeaks
    <3> QED
      BY <3>4, <3>5 DEF Says
  <2>2. CASE \E j \in Matched(rs, f) : k = f[j].key
    <3>1. PICK j \in Matched(rs, f) : k = f[j].key
      BY <2>2
    <3>2. PICK block, i : block = MergedBlock(rs, f, j, sn, alloc, gate) /\ i = RowOf(rs, f[j].key)
      OBVIOUS
    <3>3. i \in Live(after) /\ block.key = k /\ Says(after[i], block)
      BY <3>1, <3>2, MatchedSpeaks
    <3> QED
      BY <3>3 DEF Says
  <2>3. CASE \/ \E i \in Appended(rs, f, sn) : k = rs[i].key
             \/ \E i \in Keyless(rs) : k = alloc[<<i, "row">>]
    <3>1. PICK i \in Appended(rs, f, sn) \cup Keyless(rs) : k = Key(rs, i, alloc)
      BY <2>3 DEF Appended, Missing, Keyless, Key
    <3>2. PICK block : block = Piece(rs, i, 1, alloc)
      OBVIOUS
    <3>3. i \in Live(after) /\ Says(after[i], block)
      BY <3>2, RenderedSpeaks
    <3>4. block.key = k
      <4>1. i \in DOMAIN rs
        BY DEF Appended, Missing, Keyless, Live
      <4>2. after[i].key = k
        BY <3>1, <4>1, RowsAfterFacts, MergedRowFacts
      <4> QED
        BY <3>3, <4>2 DEF Says
    <3> QED
      BY <3>3, <3>4 DEF Says
  <2> QED
    BY <1>1, <2>1, <2>2, <2>3 DEF Told
<1>2. CASE k \notin Told(rs, f, sn, alloc)
  <2>1. /\ k \in DOMAIN sn /\ \E i \in Live(rs) : rs[i].key = k
        /\ \E j \in DOMAIN f : ~f[j].ok /\ f[j].key = k
    BY <1>2, SnapAfterIs
  <2>2. PICK i \in Live(rs) : rs[i].key = k
    BY <2>1
  <2>3. k # NoKey
    <3>1. k \in 1 .. from - 1 /\ from \in Nat
      BY <2>1 DEF Below, Merging
    <3> QED
      BY <3>1 DEF NoKey
  <2>4. rs[i].key \in FileKeys(f)
    BY <2>1, <2>2, <2>3 DEF FileKeys
  <2> QED
    BY <2>2, <2>4, RowStays
<1> QED
  BY <1>1, <1>2


\* A merge leaves texts the store accepts and blocks the parser reads as one.
LEMMA ReadableAfter ==
  ASSUME NEW rs, NEW from, NEW f, NEW alloc, NEW sn, NEW gate, Merging(rs, from, f, alloc),
         Readable(rs, f), NEW after, after = RowsAfter(rs, f, sn, alloc, gate),
         NEW out, out = FileAfter(rs, f, sn, alloc, gate)
  PROVE  Readable(after, out)
<1>1. rs \in Seq(Row) /\ f \in Seq(Block)
  BY DEF Merging
<1>2. /\ \A i \in DOMAIN rs : rs[i] \in Row /\ rs[i].text \in Texts /\ rs[i].text \notin Refused
      /\ \A j \in DOMAIN f : f[j] \in Block /\ f[j].text \in Plain
  <2>1. \A i \in DOMAIN rs : rs[i] \in Row
    BY <1>1
  <2>2. \A j \in DOMAIN f : f[j] \in Block
    BY <1>1
  <2> QED
    BY <2>1, <2>2 DEF Readable, Row
<1>3. ASSUME NEW i \in DOMAIN after PROVE after[i].text \notin Refused
  <2>1. CASE i \notin DOMAIN rs
    <3>1. i \in DOMAIN after \ DOMAIN rs
      BY <2>1
    <3>2. PICK j \in CreatedBlocks(rs, f) : Rank(CreatedBlocks(rs, f), j) = i - Len(rs)
      <4>1. /\ after[i] \in Row /\ after[i].life = "open"
            /\ \E j \in CreatedBlocks(rs, f) :
                  /\ <<j, "block">> \in Needs(rs, f) /\ after[i].key = alloc[<<j, "block">>]
                  /\ Rank(CreatedBlocks(rs, f), j) = i - Len(rs)
        BY <3>1, NewRowAfter
      <4> QED
        BY <4>1
    <3>3. CreatedRow(rs, f, i - Len(rs), alloc) =
            [key |-> alloc[<<j, "block">>], text |-> f[j].text, st |-> f[j].st, life |-> "open"]
      <4>1. CreatedRow(rs, f, Rank(CreatedBlocks(rs, f), j), alloc) =
              [key |-> alloc[<<j, "block">>], text |-> f[j].text, st |-> f[j].st, life |-> "open"]
        BY CreatedRowOf
      <4> QED
        BY <3>2, <4>1
    <3>4. after[i] = CreatedRow(rs, f, i - Len(rs), alloc)
      BY <3>1, RowsAfterFacts
    <3>5. after[i].text = f[j].text
      BY <3>3, <3>4
    <3> QED
      BY <3>5 DEF CreatedBlocks
  <2>2. CASE i \in DOMAIN rs
    <3>1. after[i] = MergedRow(rs, i, f, sn, alloc, gate) /\ rs[i] \in Row
          /\ rs[i].text \in Texts /\ rs[i].text \notin Refused
      BY <1>2, <2>2, RowsAfterFacts
    <3>2. CASE i \in Keyless(rs)
      <4>1. after[i] = [rs[i] EXCEPT !.key = alloc[<<i, "row">>]]
        BY <3>1, <3>2 DEF MergedRow
      <4> QED
        BY <3>1, <4>1 DEF Row
    <3>3. CASE i \notin Keyless(rs) /\ i \in Missing(rs, f) /\ rs[i].key \in DOMAIN sn
      <4>1. after[i] = [rs[i] EXCEPT !.life = "archived"]
        BY <3>1, <3>3 DEF MergedRow
      <4> QED
        BY <3>1, <4>1 DEF Row
    <3>4. CASE /\ i \notin Keyless(rs) /\ ~(i \in Missing(rs, f) /\ rs[i].key \in DOMAIN sn)
               /\ i \in Live(rs) /\ rs[i].key \in {f[j].key : j \in Matched(rs, f)}
      <4>1. PICK j \in Matched(rs, f) : rs[i].key = f[j].key
        BY <3>4
      <4>2. j \in DOMAIN f /\ f[j].key # NoKey
        BY DEF Matched, Known
      <4>3. BlockOf(f, rs[i].key) = j
        BY <4>1, <4>2, BlockOfIs DEF Merging
      <4>4. PICK st : after[i] = [rs[i] EXCEPT !.text = IF f[j].text \in Refused
                                                        THEN Kept[<<rs[i].text, f[j].text>>]
                                                        ELSE f[j].text,
                                               !.st = st]
        BY <3>1, <3>4, <4>3 DEF MergedRow
      <4>5. after[i].text = IF f[j].text \in Refused THEN Kept[<<rs[i].text, f[j].text>>] ELSE f[j].text
        BY <3>1, <4>4 DEF Row
      <4>6. f[j].text \in Refused => Kept[<<rs[i].text, f[j].text>>] \notin Refused
        BY <3>1, TextAssumption
      <4> QED
        BY <4>5, <4>6
    <3>5. CASE /\ i \notin Keyless(rs) /\ ~(i \in Missing(rs, f) /\ rs[i].key \in DOMAIN sn)
               /\ ~(i \in Live(rs) /\ rs[i].key \in {f[j].key : j \in Matched(rs, f)})
      <4>1. after[i] = rs[i]
        BY <3>1, <3>5 DEF MergedRow
      <4> QED
        BY <3>1, <4>1
    <3> QED
      BY <3>2, <3>3, <3>4, <3>5
  <2> QED
    BY <2>1, <2>2
<1>4. ASSUME NEW b \in DOMAIN out PROVE out[b].text \in Plain
  <2>1. CASE \E j \in DOMAIN f : out[b] = MergedBlock(rs, f, j, sn, alloc, gate)
    <3>1. PICK j \in DOMAIN f : out[b] = MergedBlock(rs, f, j, sn, alloc, gate)
      BY <2>1
    <3>2. f[j] \in Block /\ f[j].text \in Plain
      BY <1>2
    <3>3. out[b].text = f[j].text
      BY <3>1, <3>2 DEF MergedBlock, Block
    <3> QED
      BY <3>2, <3>3
  <2>2. CASE \E i \in Appended(rs, f, sn) \cup Keyless(rs) :
                \E n \in DOMAIN Parts[rs[i].text] : out[b] = Piece(rs, i, n, alloc)
    <3>1. PICK i \in Appended(rs, f, sn) \cup Keyless(rs) :
                \E n \in DOMAIN Parts[rs[i].text] : out[b] = Piece(rs, i, n, alloc)
      BY <2>2
    <3>2. PICK n \in DOMAIN Parts[rs[i].text] : out[b] = Piece(rs, i, n, alloc)
      BY <3>1
    <3>3. rs[i].text \in Texts
      BY <1>2 DEF Appended, Missing, Keyless, Live
    <3>4. PICK key, st : out[b] = Rendered(key, rs[i].text, st)[n]
      BY <3>2 DEF Piece
    <3>5. PICK text : text = rs[i].text
      OBVIOUS
    <3>6. n \in DOMAIN Parts[text] /\ text \in Texts /\ out[b] = Rendered(key, text, st)[n]
      BY <3>3, <3>4, <3>5
    <3>7. Rendered(key, text, st)[n].text \in Plain
      BY <3>6, RenderedIs
    <3> QED
      BY <3>6, <3>7
  <2>3. \/ \E j \in DOMAIN f : out[b] = MergedBlock(rs, f, j, sn, alloc, gate)
        \/ \E i \in Appended(rs, f, sn) \cup Keyless(rs) :
              \E n \in DOMAIN Parts[rs[i].text] : out[b] = Piece(rs, i, n, alloc)
    BY BlockCases
  <2> QED
    BY <2>1, <2>2, <2>3
<1> QED
  BY <1>3, <1>4 DEF Readable

\* After a merge rows, file and snapshot agree.
LEMMA MergeAgrees ==
  ASSUME NEW rs, NEW from, NEW f, NEW alloc, NEW sn, NEW gate, Merging(rs, from, f, alloc),
         Readable(rs, f), Below(sn, from), NEW after, after = RowsAfter(rs, f, sn, alloc, gate),
         NEW out, out = FileAfter(rs, f, sn, alloc, gate),
         NEW s2, s2 = SnapAfter(rs, f, sn, alloc, gate)
  PROVE  Agreed(after, out, s2)
<1> DEFINE told == Told(rs, f, sn, alloc)
<1>1. IdsFit(out, after) /\ Numbered(after, NextSeqAfter(alloc, from)) /\ after \in Seq(Row)
  BY FileFits, RowsAfterNumbered, RowsAfterFacts
<1>2. \A i \in Live(after) : after[i].key # NoKey /\ \E b \in DOMAIN out :
         /\ out[b].key = after[i].key
         /\ out[b].ok => Says(after[i], out[b]) /\ after[i].key \in told
  BY RowShown
<1>3. \A k \in DOMAIN s2 : \E i \in Live(after) : after[i].key = k
  BY SnapNamesLive
<1>4. \A b \in DOMAIN out :
         \/ Heard(out[b], after, told)
         \/ \E i \in Live(after) : out[b] \in Split(after[i].text)
         \/ \E j \in DOMAIN f : /\ out[b] = f[j]
                                /\ j \notin CreatedBlocks(rs, f) /\ j \notin Matched(rs, f)
  BY OutBlock
<1>5. \A k \in told : k \in DOMAIN s2 /\ s2[k] = after[RowOf(after, k)].st
  BY SnapAfterIs
<1> HIDE DEF told
<1>6. ASSUME NEW b \in DOMAIN out, out[b].ok, out[b].text \notin Refused
      PROVE  \/ Known(after, out[b].key)
             \/ \E i \in Live(after) : out[b] \in Split(after[i].text)
  <2>1. CASE Heard(out[b], after, told)
    BY <2>1 DEF Heard, Says, Known, Live
  <2>2. CASE \E j \in DOMAIN f : /\ out[b] = f[j]
                                 /\ j \notin CreatedBlocks(rs, f) /\ j \notin Matched(rs, f)
    <3>1. PICK j \in DOMAIN f : /\ out[b] = f[j]
                                /\ j \notin CreatedBlocks(rs, f) /\ j \notin Matched(rs, f)
      BY <2>2
    <3>2. f[j].text \notin Refused => Known(after, f[j].key)
      BY <1>6, <3>1, SilentBlock
    <3> QED
      BY <1>6, <3>1, <3>2
  <2> QED
    BY <1>4, <2>1, <2>2
<1>7. ASSUME NEW i \in Live(after), after[i].key \in told
      PROVE  after[i].key \in DOMAIN s2 /\ s2[after[i].key] = after[i].st
  <2>1. i \in DOMAIN after /\ after[i].life # "deleted" /\ after[i].key # NoKey
    BY <1>2 DEF Live
  <2>2. RowOf(after, after[i].key) = i
    BY <1>1, <2>1, RowOfIs
  <2> QED
    BY <1>5, <1>7, <2>2
<1> QED
  BY <1>1, <1>2, <1>3, <1>6, <1>7 DEF Agreed

\* Where rows, file and snapshot agree, the file has the snapshot's tokens.
LEMMA AgreedExact ==
  ASSUME NEW rs, NEW f, NEW sn, Agreed(rs, f, sn)
  PROVE  Faithful(f, sn, {})
<1> SUFFICES ASSUME NEW k \in DOMAIN sn
             PROVE  \E j \in DOMAIN f : f[j].key = k /\ (f[j].ok => f[j].st = sn[k])
  BY DEF Faithful
<1>1. PICK i \in Live(rs) : rs[i].key = k
  BY DEF Agreed
<1>2. PICK j \in DOMAIN f : f[j].key = k /\ (f[j].ok => Says(rs[i], f[j]) /\ sn[k] = rs[i].st)
  BY <1>1 DEF Agreed
<1> QED
  BY <1>2 DEF Says


-----------------------------------------------------------------------------
(* FileInv step by step.                                                     *)

\* What a request's own write may have made of the rows.
Served(rs, request) ==
    /\ rs \in Seq(Row) /\ Numbered(rs, nextSeq)
    /\ \A i \in DOMAIN rs : rs[i].text \notin Refused
    /\ DOMAIN rows \subseteq DOMAIN rs
    /\ \A i \in DOMAIN rows :
          /\ rs[i].key = rows[i].key
          /\ rs[i].st # rows[i].st => request.kind = "status" /\ request.row = i

\* A merge changes a status only to a token the snapshot does not know.
LEMMA StatusFromToken ==
  ASSUME NEW rs, NEW from, NEW f, NEW alloc, NEW sn, NEW gate, Merging(rs, from, f, alloc),
         NEW after, after = RowsAfter(rs, f, sn, alloc, gate),
         NEW others, Faithful(f, sn, others), NEW i \in DOMAIN rs, after[i].st # rs[i].st
  PROVE  rs[i].key \in others
<1>1. after[i] = MergedRow(rs, i, f, sn, alloc, gate) /\ rs[i] \in Row
  BY RowsAfterFacts DEF Merging
<1>2. i \notin Keyless(rs)
  <2> SUFFICES ASSUME i \in Keyless(rs) PROVE FALSE
    OBVIOUS
  <2>1. after[i] = [rs[i] EXCEPT !.key = alloc[<<i, "row">>]]
    BY <1>1 DEF MergedRow
  <2> QED
    BY <1>1, <2>1 DEF Row
<1>3. ~(i \in Missing(rs, f) /\ rs[i].key \in DOMAIN sn)
  <2> SUFFICES ASSUME i \in Missing(rs, f), rs[i].key \in DOMAIN sn PROVE FALSE
    OBVIOUS
  <2>1. after[i] = [rs[i] EXCEPT !.life = "archived"]
    BY <1>1, <1>2 DEF MergedRow
  <2> QED
    BY <1>1, <2>1 DEF Row
<1>4. i \in Live(rs) /\ rs[i].key \in {f[j].key : j \in Matched(rs, f)}
  <2> SUFFICES ASSUME ~(i \in Live(rs) /\ rs[i].key \in {f[j].key : j \in Matched(rs, f)}) PROVE FALSE
    OBVIOUS
  <2>1. after[i] = rs[i]
    BY <1>1, <1>2, <1>3 DEF MergedRow
  <2> QED
    BY <2>1
<1>5. PICK j \in Matched(rs, f) : rs[i].key = f[j].key
  BY <1>4
<1>6. j \in DOMAIN f /\ f[j].ok /\ f[j].key # NoKey
  BY DEF Matched, Known
<1>7. BlockOf(f, rs[i].key) = j
  BY <1>5, <1>6, BlockOfIs DEF Merging
<1>8. PICK text : after[i] = [rs[i] EXCEPT !.text = text, !.st = FinalStatus(rs[i], f[j], sn, gate)]
  BY <1>1, <1>2, <1>3, <1>4, <1>7 DEF MergedRow
<1>9. after[i].st = FinalStatus(rs[i], f[j], sn, gate)
  BY <1>1, <1>8 DEF Row
<1>10. rs[i].key \in DOMAIN sn /\ f[j].st # sn[rs[i].key]
  BY <1>9 DEF FinalStatus
<1>11. \A h \in DOMAIN f : f[h].key = rs[i].key => h = j
  BY <1>5, <1>6 DEF Merging, Fatal
<1>12. rs[i].key \in FileKeys(f)
  BY <1>5, <1>6 DEF FileKeys
<1> QED
  BY <1>6, <1>10, <1>11, <1>12 DEF Faithful

LEMMA FileBegin ==
  ASSUME SyncInv, FileInv, NEW rs, NEW request, Begin(rs, request), Served(rs, request)
  PROVE  FileInv'
<1>1. /\ rows' = rows /\ nextSeq' = nextSeq /\ snap' = snap /\ file' = file
      /\ clean' = clean /\ touched' = touched /\ op' = request /\ phase = "idle"
      /\ phase' = IF work'.out = file THEN "written" ELSE "merged"
      /\ SyncOutcome(rs)
  BY DEF Begin
<1>2. /\ Readable(rows, file) /\ IsFcn(snap) /\ Faithful(file, snap, touched)
      /\ clean => Agreed(rows, file, snap)
  BY <1>1 DEF FileInv
<1>3. /\ rs \in Seq(Row) /\ Numbered(rs, nextSeq) /\ Readable(rs, file)
      /\ file \in Seq(Block) /\ nextSeq \in Nat \ {0} /\ Below(snap, nextSeq)
  BY <1>2 DEF Served, Readable, SyncInv, SyncTypeOK
<1> DEFINE Kept2(r) ==
      /\ DOMAIN rows \subseteq DOMAIN r
      /\ \A i \in DOMAIN rows : r[i].st # rows[i].st =>
            \/ request.kind = "status" /\ request.row = i
            \/ rows[i].key \in touched
<1>4. Kept2(rs)
  BY DEF Served
<1> DEFINE Ready ==
      /\ Readable(work'.rows, work'.out) /\ IsFcn(work'.snap) /\ Kept2(work'.rows)
      /\ work'.full => Agreed(work'.rows, work'.out, work'.snap)
      /\ work'.out # file => work'.full
      /\ work'.out = file => Faithful(file, work'.snap, touched)
<1>5. ASSUME work' = Resting(rs, nextSeq, snap, file) PROVE Ready
  <2>1. /\ work'.rows = rs /\ work'.out = file /\ work'.snap = snap /\ work'.full = FALSE
    BY <1>5 DEF Resting
  <2> HIDE DEF Kept2
  <2> QED
    BY <1>2, <1>3, <1>4, <2>1
<1>6. ASSUME ~Fatal(file),
             NEW alloc \in [Needs(rs, file) -> nextSeq .. MaxKey], NEW gate,
             IsAllocation(alloc, nextSeq, UsedKeys(rs, file)),
             LET m == Merge(rs, nextSeq, snap, file, alloc, gate)
             IN  work' = m \/ work' = ReadOnly(m, snap, file)
      PROVE  Ready
  <2> DEFINE m == Merge(rs, nextSeq, snap, file, alloc, gate)
  <2>1. Merging(rs, nextSeq, file, alloc)
    BY <1>3, <1>6 DEF Merging
  <2>2. PICK after, out, s2 : /\ after = RowsAfter(rs, file, snap, alloc, gate)
                              /\ out = FileAfter(rs, file, snap, alloc, gate)
                              /\ s2 = SnapAfter(rs, file, snap, alloc, gate)
    OBVIOUS
  <2>3. m.rows = after /\ m.out = out /\ m.snap = s2 /\ m.full = TRUE
    BY <2>2 DEF Merge
  <2>4. m = [rows |-> m.rows, nextSeq |-> m.nextSeq, snap |-> m.snap, out |-> m.out, full |-> m.full]
    BY DEF Merge
  <2>5. work' = m \/ work' = ReadOnly(m, snap, file)
    BY <1>6
  <2> HIDE DEF m
  <2>6. Readable(after, out)
    BY <1>3, <2>1, <2>2, ReadableAfter
  <2>7. Agreed(after, out, s2)
    BY <1>3, <2>1, <2>2, MergeAgrees
  <2>8. IsFcn(s2)
    BY <2>2, SnapAfterIs
  <2>9. Kept2(after)
    <3>1. DOMAIN rs \subseteq DOMAIN after
      BY <2>1, <2>2, RowsAfterFacts
    <3>2. ASSUME NEW i \in DOMAIN rows, after[i].st # rows[i].st
          PROVE  (request.kind = "status" /\ request.row = i) \/ rows[i].key \in touched
      <4>1. i \in DOMAIN rs /\ rs[i].key = rows[i].key
        BY DEF Served
      <4>2. CASE rs[i].st # rows[i].st
        BY <4>2 DEF Served
      <4>3. CASE after[i].st # rs[i].st
        BY <1>2, <2>1, <2>2, <4>1, <4>3, StatusFromToken
      <4> QED
        BY <3>2, <4>2, <4>3
    <3> QED
      BY <1>4, <3>1, <3>2
  <2>10. Faithful(out, s2, {})
    BY <2>7, AgreedExact
  <2> HIDE DEF Kept2
  <2>11. CASE work' = m
    <3>1. /\ work'.rows = after /\ work'.out = out /\ work'.snap = s2 /\ work'.full = TRUE
      BY <2>3, <2>11
    <3>2. Faithful(out, s2, touched)
      BY <2>10 DEF Faithful
    <3> QED
      BY <2>6, <2>7, <2>8, <2>9, <3>1, <3>2
  <2>12. CASE work' = ReadOnly(m, snap, file)
    <3>1. /\ work'.rows = after /\ work'.out = file /\ work'.snap = snap /\ work'.full = FALSE
      BY <2>3, <2>4, <2>12 DEF ReadOnly
    <3>2. Readable(after, file)
      BY <1>2, <2>6 DEF Readable
    <3> QED
      BY <1>2, <2>9, <3>1, <3>2
  <2> QED
    BY <2>5, <2>11, <2>12
<1>7. Ready
  <2> HIDE DEF Ready
  <2>1. CASE work' = Resting(rs, nextSeq, snap, file)
    BY <1>5, <2>1
  <2>2. CASE work' # Resting(rs, nextSeq, snap, file)
    <3>1. PICK alloc \in [Needs(rs, file) -> nextSeq .. MaxKey], gate \in SUBSET Asking(rs, file) :
                 /\ ~Fatal(file)
                 /\ IsAllocation(alloc, nextSeq, UsedKeys(rs, file))
                 /\ LET m == Merge(rs, nextSeq, snap, file, alloc, gate)
                    IN  work' = m \/ work' = ReadOnly(m, snap, file)
      BY <1>1, <2>2 DEF SyncOutcome
    <3> QED
      BY <1>6, <3>1
  <2> QED
    BY <2>1, <2>2
<1>8. StatusKept(work.rows)'
  BY <1>1, <1>7 DEF StatusKept
<1>9. /\ (phase = "merged" => work.full)'
      /\ (phase # "written" => Faithful(file, snap, touched))'
      /\ (phase = "written" => Faithful(file, work.snap, touched))'
  BY <1>1, <1>2, <1>7
<1>10. /\ (Readable(rows, file) /\ IsFcn(snap) /\ (clean => Agreed(rows, file, snap)))'
       /\ (Readable(work.rows, work.out) /\ IsFcn(work.snap))'
       /\ (work.full => Agreed(work.rows, work.out, work.snap))'
  BY <1>1, <1>2, <1>7
<1> QED
  BY <1>8, <1>9, <1>10 DEF FileInv


\* Every request serves rows of that kind.
LEMMA RequestsServed ==
  ASSUME SyncInv, FileInv,
         \/ AddRequirement \/ UpdateRequirement \/ SetRequirementStatus \/ ResolveRequirement
         \/ DeleteEntry \/ SyncRequirements
  PROVE  \E rs, request : Begin(rs, request) /\ Served(rs, request)
<1>1. /\ rows \in Seq(Row) /\ Numbered(rows, nextSeq) /\ nextSeq \in Nat \ {0}
      /\ \A i \in DOMAIN rows : rows[i].text \notin Refused
  BY DEF SyncInv, SyncTypeOK, FileInv, Readable
<1>2. ASSUME NEW i \in Live(rows)
      PROVE  i \in DOMAIN rows /\ rows[i] \in Row
  BY <1>1 DEF Live
\* A request that changes row i where it stands.
<1>3. ASSUME NEW i \in Live(rows), NEW row \in Row, NEW request,
             NEW rs, rs = [rows EXCEPT ![i] = row], Begin(rs, request),
             row.key = rows[i].key, row.text \notin Refused,
             row.st # rows[i].st => request.kind = "status" /\ request.row = i
      PROVE  Begin(rs, request) /\ Served(rs, request)
  <2>1. /\ DOMAIN rs = DOMAIN rows /\ rs[i] = row
        /\ \A h \in DOMAIN rows : h # i => rs[h] = rows[h]
    BY <1>1, <1>2, <1>3
  <2>2. rs \in Seq(Row)
    BY <1>1, <1>2, <1>3
  <2>3. \A h \in DOMAIN rows : rs[h].key = rows[h].key
    BY <1>3, <2>1
  <2>4. Numbered(rs, nextSeq)
    BY <1>1, <2>1, <2>3 DEF Numbered
  <2>5. \A h \in DOMAIN rs : rs[h].text \notin Refused
    BY <1>1, <1>3, <2>1
  <2>6. \A h \in DOMAIN rows : rs[h].st # rows[h].st => request.kind = "status" /\ request.row = h
    BY <1>3, <2>1
  <2> QED
    BY <1>3, <2>1, <2>2, <2>3, <2>4, <2>5, <2>6 DEF Served
<1>4. CASE UpdateRequirement
  <2>1. PICK i \in Live(rows), t \in Texts \ Refused :
                Request([rows EXCEPT ![i].text = t], "update", i, t)
    BY <1>4 DEF UpdateRequirement
  <2>2. PICK row : row = [rows[i] EXCEPT !.text = t]
    OBVIOUS
  <2>3. row \in Row /\ row.key = rows[i].key /\ row.text = t /\ row.st = rows[i].st
    BY <1>2, <2>2 DEF Row
  <2>4. PICK rs : rs = [rows EXCEPT ![i] = row]
    OBVIOUS
  <2>5. Begin(rs, Op("update", i, t, clean))
    BY <2>1, <2>2, <2>4 DEF Request
  <2> QED
    BY <1>3, <2>3, <2>4, <2>5
<1>5. CASE SetRequirementStatus
  <2>1. PICK i \in Live(rows), s \in Statuses :
                Request([rows EXCEPT ![i].st = s], "status", i, NoText)
    BY <1>5 DEF SetRequirementStatus
  <2>2. PICK row : row = [rows[i] EXCEPT !.st = s]
    OBVIOUS
  <2>3. row \in Row /\ row.key = rows[i].key /\ row.text = rows[i].text
    BY <1>2, <2>2 DEF Row
  <2>4. PICK rs : rs = [rows EXCEPT ![i] = row]
    OBVIOUS
  <2>5. Begin(rs, Op("status", i, NoText, clean))
    BY <2>1, <2>2, <2>4 DEF Request
  <2>6. Op("status", i, NoText, clean).kind = "status" /\ Op("status", i, NoText, clean).row = i
    BY DEF Op
  <2> QED
    BY <1>1, <1>2, <1>3, <2>3, <2>4, <2>5, <2>6
<1>6. CASE ResolveRequirement
  <2>1. PICK i \in Live(rows) : Request([rows EXCEPT ![i].life = "resolved"], "resolve", i, NoText)
    BY <1>6 DEF ResolveRequirement
  <2>2. PICK row : row = [rows[i] EXCEPT !.life = "resolved"]
    OBVIOUS
  <2>3. row \in Row /\ row.key = rows[i].key /\ row.text = rows[i].text /\ row.st = rows[i].st
    BY <1>2, <2>2 DEF Row, Lives
  <2>4. PICK rs : rs = [rows EXCEPT ![i] = row]
    OBVIOUS
  <2>5. Begin(rs, Op("resolve", i, NoText, clean))
    BY <2>1, <2>2, <2>4 DEF Request
  <2> QED
    BY <1>1, <1>2, <1>3, <2>3, <2>4, <2>5
<1>7. CASE DeleteEntry
  <2>1. PICK i \in Live(rows) : Request([rows EXCEPT ![i].life = "deleted"], "delete", i, NoText)
    BY <1>7 DEF DeleteEntry
  <2>2. PICK row : row = [rows[i] EXCEPT !.life = "deleted"]
    OBVIOUS
  <2>3. row \in Row /\ row.key = rows[i].key /\ row.text = rows[i].text /\ row.st = rows[i].st
    BY <1>2, <2>2 DEF Row, Lives
  <2>4. PICK rs : rs = [rows EXCEPT ![i] = row]
    OBVIOUS
  <2>5. Begin(rs, Op("delete", i, NoText, clean))
    BY <2>1, <2>2, <2>4 DEF Request
  <2> QED
    BY <1>1, <1>2, <1>3, <2>3, <2>4, <2>5
<1>8. CASE SyncRequirements
  <2>1. Begin(rows, Op("sync", 0, NoText, clean))
    BY <1>8 DEF SyncRequirements
  <2>2. Served(rows, Op("sync", 0, NoText, clean))
    BY <1>1 DEF Served
  <2> QED
    BY <2>1, <2>2
<1>9. CASE AddRequirement
  <2>1. PICK t \in Texts \ Refused, s \in Statuses :
           Request(Append(rows, [key |-> NoKey, text |-> t, st |-> s, life |-> "open"]),
                   "add", Len(rows) + 1, t)
    BY <1>9 DEF AddRequirement
  <2>2. PICK row : row = [key |-> NoKey, text |-> t, st |-> s, life |-> "open"]
    OBVIOUS
  <2>3. row \in Row /\ row.key = NoKey /\ row.text = t
    BY <2>2 DEF Row, Lives, NoKey
  <2>4. PICK rs, request : rs = Append(rows, row) /\ request = Op("add", Len(rows) + 1, t, clean)
    OBVIOUS
  <2>5. Begin(rs, request)
    BY <2>1, <2>2, <2>4 DEF Request
  <2>6. /\ rs \in Seq(Row) /\ DOMAIN rs = DOMAIN rows \cup {Len(rows) + 1}
        /\ \A i \in DOMAIN rows : rs[i] = rows[i]
        /\ rs[Len(rows) + 1] = row
        /\ Len(rows) + 1 \notin DOMAIN rows
    <3>1. /\ rs \in Seq(Row) /\ Len(rs) = Len(rows) + 1
          /\ \A i \in 1 .. Len(rows) : rs[i] = rows[i]
          /\ rs[Len(rows) + 1] = row
      BY <1>1, <2>3, <2>4, AppendProperties
    <3>2. DOMAIN rs = 1 .. Len(rows) + 1 /\ DOMAIN rows = 1 .. Len(rows) /\ Len(rows) \in Nat
      BY <1>1, <3>1
    <3> QED
      BY <3>1, <3>2
  <2>7. Numbered(rs, nextSeq)
    BY <1>1, <2>3, <2>6 DEF Numbered, NoKey
  <2>8. \A i \in DOMAIN rs : rs[i].text \notin Refused
    BY <1>1, <2>3, <2>6
  <2>9. Served(rs, request)
    BY <2>6, <2>7, <2>8 DEF Served
  <2> QED
    BY <2>5, <2>9
<1> QED
  BY <1>4, <1>5, <1>6, <1>7, <1>8, <1>9

LEMMA FileDeleteTool ==
  ASSUME SyncInv, FileInv, DeleteEntryTool
  PROVE  FileInv'
<1>1. PICK i \in Live(rows) : rows' = [rows EXCEPT ![i].life = "deleted"]
  BY DEF DeleteEntryTool
<1>2. /\ phase = "idle" /\ phase' = phase /\ work' = Resting(rows', nextSeq, snap, file)
      /\ snap' = snap /\ file' = file /\ clean' = FALSE /\ touched' = touched
  BY DEF DeleteEntryTool
<1>3. rows[i] \in Row /\ i \in DOMAIN rows
  BY DEF SyncInv, SyncTypeOK, Live
<1>4. /\ DOMAIN rows' = DOMAIN rows /\ \A h \in DOMAIN rows : h # i => rows'[h] = rows[h]
      /\ rows'[i] = [rows[i] EXCEPT !.life = "deleted"]
  BY <1>1, <1>3
<1>5. rows'[i].text = rows[i].text
  BY <1>3, <1>4 DEF Row
<1>6. Readable(rows', file)
  BY <1>4, <1>5 DEF FileInv, Readable
<1>7. /\ work'.rows = rows' /\ work'.out = file /\ work'.snap = snap /\ work'.full = FALSE
  BY <1>2 DEF Resting
<1> QED
  BY <1>2, <1>6, <1>7 DEF FileInv

LEMMA FileReplace ==
  ASSUME SyncInv, FileInv, ReplaceFile
  PROVE  FileInv'
<1>1. /\ phase = "merged" /\ phase' = "written" /\ file' = work.out /\ clean' = FALSE
      /\ rows' = rows /\ snap' = snap /\ work' = work /\ op' = op /\ touched' = touched
  BY DEF ReplaceFile
<1>2. Agreed(work.rows, work.out, work.snap)
  BY <1>1 DEF FileInv
<1>3. Faithful(work.out, work.snap, {})
  BY <1>2, AgreedExact
<1>4. Faithful(work.out, work.snap, touched)
  BY <1>3 DEF Faithful
<1>5. Readable(rows, work.out)
  BY DEF FileInv, Readable
<1>6. StatusKept(work.rows)'
  BY <1>1 DEF FileInv, StatusKept
<1> QED
  BY <1>1, <1>4, <1>5, <1>6 DEF FileInv

LEMMA FileCommit ==
  ASSUME SyncInv, FileInv, Commit
  PROVE  FileInv'
<1>1. /\ phase = "written" /\ phase' = "idle" /\ file' = file
      /\ rows' = work.rows /\ snap' = work.snap
      /\ clean' = (work.full /\ file = work.out)
      /\ touched' = IF clean' THEN {k \in touched : \E j \in DOMAIN file : file[j].key = k /\ ~file[j].ok}
                    ELSE touched
      /\ work' = Resting(rows', nextSeq', snap', file)
  BY DEF Commit
<1>2. /\ work'.rows = work.rows /\ work'.snap = work.snap /\ work'.out = file /\ work'.full = FALSE
  BY <1>1 DEF Resting
<1>3. clean' => Agreed(work.rows, file, work.snap)
  BY <1>1 DEF FileInv
<1>4. Faithful(file, work.snap, touched')
  <2>1. CASE clean'
    <3>1. Faithful(file, work.snap, {})
      BY <1>3, <2>1, AgreedExact
    <3> QED
      BY <3>1 DEF Faithful
  <2>2. CASE ~clean'
    BY <1>1, <2>2 DEF FileInv
  <2> QED
    BY <2>1, <2>2
<1>5. Readable(work.rows, file)
  BY DEF FileInv, Readable
<1> QED
  BY <1>1, <1>2, <1>3, <1>4, <1>5 DEF FileInv

LEMMA FileCrash ==
  ASSUME SyncInv, FileInv, Crash
  PROVE  FileInv'
<1>1. /\ phase' = "idle" /\ work' = Resting(rows, nextSeq, snap, file)
      /\ rows' = rows /\ snap' = snap /\ file' = file /\ clean' = clean
      /\ touched' = touched \cup {k \in FileKeys(file) : k \notin DOMAIN snap
                                    \/ \E j \in DOMAIN file : file[j].key = k /\ file[j].st # snap[k]}
  BY DEF Crash
<1>2. /\ work'.rows = rows /\ work'.snap = snap /\ work'.out = file /\ work'.full = FALSE
  BY <1>1 DEF Resting
<1>3. Faithful(file, snap, touched')
  <2> SUFFICES ASSUME NEW k \in FileKeys(file), k \in DOMAIN snap, k \notin touched'
               PROVE  \E j \in DOMAIN file : file[j].key = k /\ file[j].st = snap[k]
    BY DEF Faithful
  <2>1. PICK j \in DOMAIN file : file[j].key = k
    BY DEF FileKeys
  <2> QED
    BY <1>1, <2>1
<1> QED
  BY <1>1, <1>2, <1>3 DEF FileInv


\* Blocks with a text the parser reads as one.
PlainBlock == {b \in Block : b.text \in Plain}

LEMMA EditedPlain ==
  ASSUME NEW f \in Seq(PlainBlock), NEW g \in Edited(f)
  PROVE  \A j \in DOMAIN g : g[j].text \in Plain
<1>1. \A j \in DOMAIN f : f[j] \in Block /\ f[j].text \in Plain
  <2>1. \A j \in DOMAIN f : f[j] \in PlainBlock
    OBVIOUS
  <2> QED
    BY <2>1 DEF PlainBlock
<1>2. CASE g \in Dropped(f)
  <2>1. PICK j \in DOMAIN f : g = RemoveAt(f, j)
    BY <1>2 DEF Dropped
  <2>2. SubSeq(f, 1, j - 1) \in Seq(PlainBlock) /\ SubSeq(f, j + 1, Len(f)) \in Seq(PlainBlock)
    OBVIOUS
  <2>3. g = SubSeq(f, 1, j - 1) \o SubSeq(f, j + 1, Len(f))
    BY <2>1 DEF RemoveAt
  <2>4. g \in Seq(PlainBlock)
    BY <2>2, <2>3, ConcatProperties
  <2>5. \A b \in DOMAIN g : g[b] \in PlainBlock
    BY <2>4
  <2> QED
    BY <2>5 DEF PlainBlock
<1>3. CASE g \in Reworded(f)
  <2>1. PICK j \in DOMAIN f, t \in Plain : g = [f EXCEPT ![j].text = t]
    BY <1>3 DEF Reworded
  <2>2. /\ DOMAIN g = DOMAIN f /\ g[j] = [f[j] EXCEPT !.text = t]
        /\ \A b \in DOMAIN f : b # j => g[b] = f[b]
    BY <2>1
  <2>3. g[j].text = t
    BY <1>1, <2>2 DEF Block
  <2> QED
    BY <1>1, <2>2, <2>3
<1>4. CASE g \in Restated(f)
  <2>1. PICK j \in DOMAIN f, s \in Statuses : g = [f EXCEPT ![j] = Token(f[j], s)]
    BY <1>4 DEF Restated
  <2>2. /\ DOMAIN g = DOMAIN f /\ g[j] = Token(f[j], s)
        /\ \A b \in DOMAIN f : b # j => g[b] = f[b]
    BY <2>1
  <2>3. g[j].text = f[j].text
    BY <1>1, <2>2 DEF Block, Token
  <2> QED
    BY <1>1, <2>2, <2>3
<1>5. CASE g \in Garbled(f)
  <2>1. PICK j \in DOMAIN f : g = [f EXCEPT ![j] = BadToken(f[j])]
    BY <1>5 DEF Garbled
  <2>2. /\ DOMAIN g = DOMAIN f /\ g[j] = BadToken(f[j])
        /\ \A b \in DOMAIN f : b # j => g[b] = f[b]
    BY <2>1
  <2>3. g[j].text = f[j].text
    BY <1>1, <2>2 DEF Block, BadToken
  <2> QED
    BY <1>1, <2>2, <2>3
<1>6. CASE g \in Longer(f)
  <2>1. PICK b \in [key : NoKey .. nextSeq, text : Plain, st : Statuses, ok : {TRUE}] :
                g = Append(f, b)
    BY <1>6 DEF Longer
  <2>2. b.text \in Plain
    BY Zenon
  <2>3. /\ Len(g) = Len(f) + 1 /\ Len(f) \in Nat /\ DOMAIN f = 1 .. Len(f)
        /\ DOMAIN g = 1 .. Len(f) + 1
        /\ \A h \in 1 .. Len(f) : g[h] = f[h]
        /\ g[Len(f) + 1] = b
    BY <2>1
  <2> QED
    BY <1>1, <2>2, <2>3
<1> QED
  BY <1>2, <1>3, <1>4, <1>5, <1>6 DEF Edited

LEMMA FileEdit ==
  ASSUME SyncInv, FileInv, EditFile
  PROVE  FileInv'
<1>1. /\ file' \in Edited(file) /\ clean' = FALSE
      /\ touched' = touched \cup Stray(file', file)
      /\ work' = IF phase = "idle" THEN Resting(rows, nextSeq, snap, file') ELSE work
      /\ rows' = rows /\ nextSeq' = nextSeq /\ snap' = snap /\ phase' = phase /\ op' = op
  BY DEF EditFile
<1>2. \A j \in DOMAIN file' : file'[j].text \in Plain
  <2>1. file \in Seq(Block) /\ \A j \in DOMAIN file : file[j].text \in Plain
    BY DEF SyncInv, SyncTypeOK, FileInv, Readable
  <2>2. \A j \in DOMAIN file : file[j] \in PlainBlock
    BY <2>1 DEF PlainBlock
  <2>3. file \in Seq(PlainBlock)
    BY <2>1, <2>2
  <2> QED
    BY <1>1, <2>3, EditedPlain
<1>3. Readable(rows, file')
  BY <1>2 DEF FileInv, Readable
<1>4. ASSUME NEW sn, Faithful(file, sn, touched) PROVE Faithful(file', sn, touched')
  <2> SUFFICES ASSUME NEW k \in FileKeys(file'), k \in DOMAIN sn, k \notin touched'
               PROVE  \E j \in DOMAIN file' : file'[j].key = k /\ (file'[j].ok => file'[j].st = sn[k])
    BY DEF Faithful
  <2>1. PICK j \in DOMAIN file' : file'[j].key = k
    BY DEF FileKeys
  <2>2. k \notin Stray(file', file) /\ k \notin touched /\ k # NoKey
    BY <1>1 DEF FileKeys
  <2>3. /\ \E a \in DOMAIN file : file[a].key = k
        /\ \A a \in DOMAIN file :
              file[a].key = k => file[a].st = file'[j].st /\ file[a].ok = file'[j].ok
    BY <2>1, <2>2 DEF Stray
  <2>4. k \in FileKeys(file)
    BY <2>2, <2>3 DEF FileKeys
  <2>5. PICK a \in DOMAIN file : file[a].key = k /\ (file[a].ok => file[a].st = sn[k])
    BY <1>4, <2>2, <2>4 DEF Faithful
  <2> QED
    BY <2>1, <2>3, <2>5
<1>5. (phase # "idle" => StatusKept(work.rows))'
  BY <1>1 DEF FileInv, StatusKept
<1>6. CASE phase = "idle"
  <2>1. /\ work'.rows = rows /\ work'.snap = snap /\ work'.out = file' /\ work'.full = FALSE
    BY <1>1, <1>6 DEF Resting
  <2> QED
    BY <1>1, <1>3, <1>4, <1>6, <2>1 DEF FileInv
<1>7. CASE phase # "idle"
  <2>1. work' = work
    BY <1>1, <1>7
  <2> QED
    BY <1>1, <1>3, <1>4, <1>5, <2>1 DEF FileInv
<1> QED
  BY <1>6, <1>7

LEMMA FileInitial == Init => FileInv
<1> SUFFICES ASSUME Init PROVE FileInv
  OBVIOUS
<1>1. /\ rows = <<>> /\ snap = [k \in {} |-> NotStarted] /\ file = <<>> /\ phase = "idle"
      /\ work = Resting(rows, nextSeq, snap, file)
  BY DEF Init
<1>2. /\ work.rows = rows /\ work.snap = snap /\ work.out = file /\ work.full = FALSE
  BY <1>1 DEF Resting
<1>3. DOMAIN rows = {} /\ DOMAIN file = {} /\ DOMAIN snap = {}
  BY <1>1
<1>4. Readable(rows, file) /\ Faithful(file, snap, touched)
  BY <1>3 DEF Readable, Faithful
<1>5. IsFcn(snap)
  BY <1>1 DEF IsFcn
<1>6. Agreed(rows, file, snap)
  BY <1>3 DEF Agreed, IdsFit, RepeatsOnly, Live
<1> QED
  BY <1>1, <1>2, <1>4, <1>5, <1>6 DEF FileInv

LEMMA FileStep == SyncInv /\ FileInv /\ [Next]_vars => FileInv'
<1> SUFFICES ASSUME SyncInv, FileInv, [Next]_vars PROVE FileInv'
  OBVIOUS
<1>1. CASE Next
  <2>1. CASE \/ AddRequirement \/ UpdateRequirement \/ SetRequirementStatus \/ ResolveRequirement
             \/ DeleteEntry \/ SyncRequirements
    <3>1. PICK rs, request : Begin(rs, request) /\ Served(rs, request)
      BY <2>1, RequestsServed
    <3> QED
      BY <3>1, FileBegin
  <2> QED
    BY <1>1, <2>1, FileDeleteTool, FileReplace, FileCommit, FileCrash, FileEdit DEF Next
<1>2. CASE UNCHANGED vars
  BY <1>2 DEF vars, FileInv, StatusKept
<1> QED
  BY <1>1, <1>2

\* D15, the store owns the status: no merge changes the status of a row unless
\* the request sets it or somebody else wrote the token of its block since the
\* last complete sync.
THEOREM TheStoreOwnsStatus == Spec => StoreOwnsStatus
<1>1. Init => SyncInv /\ FileInv
  BY SyncInitial, FileInitial
<1>2. SyncInv /\ FileInv /\ [Next]_vars => (SyncInv /\ FileInv)'
  BY SyncStep, FileStep
<1> DEFINE Owned == \A i \in DOMAIN rows : rows'[i].st # rows[i].st =>
                       \/ op.kind = "status" /\ op.row = i
                       \/ rows[i].key \in touched
<1>3. SyncInv /\ FileInv /\ [Next]_vars => [Owned]_vars
  <2> SUFFICES ASSUME SyncInv, FileInv, Next PROVE Owned
    OBVIOUS
  <2>1. CASE Commit
    <3>1. rows' = work.rows /\ phase = "written"
      BY <2>1 DEF Commit
    <3> QED
      BY <3>1 DEF FileInv, StatusKept
  <2>2. CASE DeleteEntryTool
    <3>1. PICK i \in Live(rows) : rows' = [rows EXCEPT ![i].life = "deleted"]
      BY <2>2 DEF DeleteEntryTool
    <3>2. rows[i] \in Row /\ i \in DOMAIN rows
      BY DEF SyncInv, SyncTypeOK, Live
    <3>3. /\ \A h \in DOMAIN rows : h # i => rows'[h] = rows[h]
          /\ rows'[i] = [rows[i] EXCEPT !.life = "deleted"]
      BY <3>1, <3>2
    <3>4. rows'[i].st = rows[i].st
      BY <3>2, <3>3 DEF Row
    <3> QED
      BY <3>3, <3>4
  <2>3. CASE ~Commit /\ ~DeleteEntryTool
    <3>1. rows' = rows
      BY <2>3 DEF Next, AddRequirement, UpdateRequirement, SetRequirementStatus, ResolveRequirement,
                  DeleteEntry, SyncRequirements, Request, Begin, ReplaceFile, Crash, EditFile
    <3> QED
      BY <3>1
  <2> QED
    BY <2>1, <2>2, <2>3
<1> QED
  BY <1>1, <1>2, <1>3, PTL DEF Spec, StoreOwnsStatus


\* Rows, file and snapshot agree whenever nothing was touched since a complete sync.
LEMMA CleanMeansAgreed == SyncInv /\ FileInv => CleanAgrees
<1> SUFFICES ASSUME FileInv, clean PROVE CleanAgrees
  BY DEF CleanAgrees
<1>1. Agreed(rows, file, snap)
  BY DEF FileInv
<1>2. ASSUME NEW i \in Live(rows)
      PROVE  \E j \in DOMAIN file :
                /\ file[j].key = rows[i].key /\ rows[i].key # NoKey
                /\ file[j].ok => /\ file[j].st = rows[i].st
                                 /\ file[j].text \notin Refused => file[j].text = Parts[rows[i].text][1].text
  <2>1. rows[i].key # NoKey /\ \E j \in DOMAIN file :
           file[j].key = rows[i].key /\ (file[j].ok => Says(rows[i], file[j]))
    BY <1>1 DEF Agreed
  <2> QED
    BY <2>1 DEF Says
<1>3. \A j \in DOMAIN file : file[j].ok /\ file[j].text \notin Refused =>
         \/ Known(rows, file[j].key)
         \/ \E i \in Live(rows) : file[j] \in Split(rows[i].text)
  BY <1>1 DEF Agreed
<1> QED
  BY <1>2, <1>3 DEF CleanAgrees

\* After a complete sync, and until somebody touches either side, every live row
\* has its block with its text and status, and every readable block has its row or
\* is one that a heading line split off a live row's prose, keyed or not.
THEOREM CleanFilesAgree == Spec => []CleanAgrees
<1>1. Init => SyncInv /\ FileInv
  BY SyncInitial, FileInitial
<1>2. SyncInv /\ FileInv /\ [Next]_vars => (SyncInv /\ FileInv)'
  BY SyncStep, FileStep
<1> QED
  BY <1>1, <1>2, CleanMeansAgreed, PTL DEF Spec

-----------------------------------------------------------------------------
(* The second sync.                                                          *)

\* Where all agree, a matched block says what its row says.
LEMMA AgreedPair ==
  ASSUME NEW rs, NEW f, NEW sn, NEW from, Agreed(rs, f, sn), ~Fatal(f), Numbered(rs, from),
         rs \in Seq(Row), NEW j \in Matched(rs, f), NEW i, i = RowOf(rs, f[j].key)
  PROVE  /\ i \in Live(rs) /\ rs[i].key = f[j].key /\ f[j].key # NoKey /\ Says(rs[i], f[j])
         /\ f[j].key \in DOMAIN sn /\ sn[f[j].key] = rs[i].st
<1>1. /\ j \in DOMAIN f /\ f[j].ok /\ Known(rs, f[j].key) /\ rs[i].life # "archived"
  BY DEF Matched
<1>2. i \in DOMAIN rs /\ rs[i].key = f[j].key /\ rs[i].life # "deleted" /\ f[j].key # NoKey
  BY <1>1 DEF Known, RowOf
<1>3. i \in Live(rs)
  <2>1. rs[i] \in Row
    BY <1>2
  <2> QED
    BY <1>1, <1>2, <2>1 DEF Live, Row, Lives
<1>4. PICK b \in DOMAIN f :
         /\ f[b].key = rs[i].key
         /\ f[b].ok => /\ Says(rs[i], f[b])
                       /\ rs[i].key \in DOMAIN sn /\ sn[rs[i].key] = rs[i].st
  BY <1>3 DEF Agreed
<1>5. b = j
  BY <1>1, <1>2, <1>4 DEF Fatal
<1> QED
  BY <1>1, <1>2, <1>3, <1>4, <1>5

\* The sets a merge of agreeing sides works on are empty.
LEMMA NothingToDo ==
  ASSUME NEW rs, NEW f, NEW sn, Agreed(rs, f, sn), \A i \in DOMAIN rs : rs[i].text \in Plain
  PROVE  CreatedBlocks(rs, f) = {} /\ Keyless(rs) = {} /\ Missing(rs, f) = {}
<1>1. ASSUME NEW j \in CreatedBlocks(rs, f) PROVE FALSE
  <2>1. j \in DOMAIN f /\ f[j].ok /\ ~Known(rs, f[j].key) /\ f[j].text \notin Refused
    BY <1>1 DEF CreatedBlocks, NewBlocks
  <2>2. PICK i \in Live(rs) : f[j] \in Split(rs[i].text)
    BY <2>1 DEF Agreed
  <2>3. Split(rs[i].text) = {}
    BY PlainText DEF Live
  <2> QED
    BY <2>2, <2>3
<1>2. \A i \in Live(rs) : rs[i].key # NoKey /\ \E j \in DOMAIN f : f[j].key = rs[i].key
  BY DEF Agreed
<1>3. Keyless(rs) = {}
  BY <1>2 DEF Keyless
<1>4. Missing(rs, f) = {}
  BY <1>2 DEF Missing, FileKeys
<1> QED
  BY <1>1, <1>3, <1>4

\* No rows, no blocks.
LEMMA NothingRendered ==
  ASSUME NEW rs, NEW alloc
  PROVE  RenderedRows(rs, {}, alloc) = <<>>
<1>1. Pieces(rs, {}) = {}
  BY DEF Pieces
<1>2. DOMAIN Ascending({}) = {}
  <2>1. Cardinality({}) = 0
    BY FS_EmptySet
  <2>2. DOMAIN Ascending({}) = 1 .. Cardinality({})
    BY DEF Ascending
  <2> QED
    BY <2>1, <2>2
<1>3. RenderedRows(rs, {}, alloc) =
        [n \in DOMAIN Ascending({}) |->
            LET i == Ascending({})[n][1]
            IN  Rendered(Key(rs, i, alloc), rs[i].text, rs[i].st)[Ascending({})[n][2]]]
  BY <1>1 DEF RenderedRows
<1> QED
  BY <1>2, <1>3

\* What a merge of agreeing sides makes of rows and file.
LEMMA AgreedStays ==
  ASSUME NEW rs, NEW from, NEW f, NEW alloc, NEW sn, NEW gate, Merging(rs, from, f, alloc),
         Readable(rs, f), Agreed(rs, f, sn), \A i \in DOMAIN rs : rs[i].text \in Plain,
         NEW after, after = RowsAfter(rs, f, sn, alloc, gate),
         NEW out, out = FileAfter(rs, f, sn, alloc, gate)
  PROVE  after = rs /\ out = f
<1>1. /\ rs \in Seq(Row) /\ f \in Seq(Block) /\ ~Fatal(f) /\ Numbered(rs, from)
      /\ CreatedBlocks(rs, f) = {} /\ Keyless(rs) = {} /\ Missing(rs, f) = {}
  BY NothingToDo DEF Merging
<1>2. ASSUME NEW j \in Matched(rs, f), NEW i, i = RowOf(rs, f[j].key)
      PROVE  FinalStatus(rs[i], f[j], sn, gate) = rs[i].st /\ f[j].st = rs[i].st
  <2>1. f[j].st = rs[i].st
    <3>1. Says(rs[i], f[j])
      BY <1>1, <1>2, AgreedPair
    <3> QED
      BY <3>1 DEF Says
  <2> QED
    BY <2>1 DEF FinalStatus
<1>3. ASSUME NEW i \in DOMAIN rs PROVE MergedRow(rs, i, f, sn, alloc, gate) = rs[i]
  <2>1. CASE i \in Live(rs) /\ rs[i].key \in {f[j].key : j \in Matched(rs, f)}
    <3>1. PICK j \in Matched(rs, f) : rs[i].key = f[j].key
      BY <2>1
    <3>2. rs[i].key # NoKey /\ rs[i].life # "deleted" /\ rs[i] \in Row
      BY <1>1, <2>1, <3>1 DEF Live, Matched, Known
    <3>3. RowOf(rs, f[j].key) = i
      BY <1>1, <3>1, <3>2, RowOfIs
    <3>4. Paired(rs, f, alloc, sn, gate, j, i)
      BY <3>3, MatchedPair
    <3>5. Says(rs[i], f[j]) /\ FinalStatus(rs[i], f[j], sn, gate) = rs[i].st
      BY <1>1, <1>2, <3>3, AgreedPair
    <3> DEFINE text == IF f[j].text \in Refused THEN Kept[<<rs[i].text, f[j].text>>] ELSE f[j].text
    <3>6. text = rs[i].text
      <4>1. rs[i].text \in Plain
        OBVIOUS
      <4>2. CASE f[j].text \in Refused
        BY <3>5, <4>1, <4>2 DEF Says
      <4>3. CASE f[j].text \notin Refused
        <5>1. f[j].text = Parts[rs[i].text][1].text
          BY <3>5, <4>3 DEF Says
        <5> QED
          BY <4>1, <4>3, <5>1, PlainText
      <4> QED
        BY <4>2, <4>3
    <3>7. MergedRow(rs, i, f, sn, alloc, gate) =
            [rs[i] EXCEPT !.text = text, !.st = FinalStatus(rs[i], f[j], sn, gate)]
      BY <3>4 DEF Paired
    <3> HIDE DEF text
    <3>8. MergedRow(rs, i, f, sn, alloc, gate) = [rs[i] EXCEPT !.text = rs[i].text, !.st = rs[i].st]
      BY <3>5, <3>6, <3>7
    <3> QED
      BY <3>2, <3>8 DEF Row
  <2>2. CASE ~(i \in Live(rs) /\ rs[i].key \in {f[j].key : j \in Matched(rs, f)})
    BY <1>1, <2>2 DEF MergedRow
  <2> QED
    BY <2>1, <2>2
<1>4. ASSUME NEW j \in DOMAIN f PROVE MergedBlock(rs, f, j, sn, alloc, gate) = f[j]
  <2>1. CASE j \in Matched(rs, f)
    <3>1. PICK i : i = RowOf(rs, f[j].key)
      OBVIOUS
    <3>2. FinalStatus(rs[i], f[j], sn, gate) = f[j].st
      BY <1>2, <2>1, <3>1
    <3>3. MergedBlock(rs, f, j, sn, alloc, gate) = [f[j] EXCEPT !.st = f[j].st]
      BY <1>1, <2>1, <3>1, <3>2 DEF MergedBlock
    <3>4. f[j] \in Block
      BY <1>1
    <3> QED
      BY <3>3, <3>4 DEF Block
  <2>2. CASE j \notin Matched(rs, f)
    BY <1>1, <2>2 DEF MergedBlock
  <2> QED
    BY <2>1, <2>2
<1>5. after = rs
  <2>1. Cardinality(CreatedBlocks(rs, f)) = 0
    BY <1>1, FS_EmptySet
  <2>2. Len(rs) \in Nat /\ DOMAIN rs = 1 .. Len(rs) /\ rs = [i \in 1 .. Len(rs) |-> rs[i]]
    BY <1>1
  <2>3. after = [i \in 1 .. Len(rs) + Cardinality(CreatedBlocks(rs, f)) |->
                   IF i <= Len(rs) THEN MergedRow(rs, i, f, sn, alloc, gate)
                   ELSE CreatedRow(rs, f, i - Len(rs), alloc)]
    BY DEF RowsAfter
  <2>4. Len(rs) + Cardinality(CreatedBlocks(rs, f)) = Len(rs)
    BY <2>1, <2>2
  <2>5. \A i \in 1 .. Len(rs) : i <= Len(rs) /\ MergedRow(rs, i, f, sn, alloc, gate) = rs[i]
    BY <1>3, <2>2
  <2>6. after = [i \in 1 .. Len(rs) |-> IF i <= Len(rs) THEN MergedRow(rs, i, f, sn, alloc, gate)
                                        ELSE CreatedRow(rs, f, i - Len(rs), alloc)]
    BY <2>3, <2>4
  <2> QED
    BY <2>2, <2>5, <2>6
<1>6. out = f
  <2>1. Appended(rs, f, sn) = {}
    BY <1>1 DEF Appended
  <2>2. AppendedBlocks(rs, f, sn, alloc) = <<>> \o <<>>
    BY <1>1, <2>1, NothingRendered DEF AppendedBlocks
  <2>3. AppendedBlocks(rs, f, sn, alloc) = <<>>
    BY <2>2
  <2>4. [j \in DOMAIN f |-> MergedBlock(rs, f, j, sn, alloc, gate)] = f
    <3>1. f = [j \in DOMAIN f |-> f[j]]
      BY <1>1
    <3> QED
      BY <1>4, <3>1
  <2>5. out = f \o <<>>
    BY <2>3, <2>4 DEF FileAfter
  <2> QED
    BY <1>1, <2>5
<1> QED
  BY <1>5, <1>6

\* And of the snapshot.
LEMMA SnapStays ==
  ASSUME NEW rs, NEW from, NEW f, NEW alloc, NEW sn, NEW gate, Merging(rs, from, f, alloc),
         Readable(rs, f), Agreed(rs, f, sn), \A i \in DOMAIN rs : rs[i].text \in Plain,
         Below(sn, from), IsFcn(sn), NEW s2, s2 = SnapAfter(rs, f, sn, alloc, gate)
  PROVE  s2 = sn
<1>1. PICK after : after = RowsAfter(rs, f, sn, alloc, gate)
  OBVIOUS
<1>2. after = rs
  <2>1. PICK out : out = FileAfter(rs, f, sn, alloc, gate)
    OBVIOUS
  <2> QED
    BY <1>1, <2>1, AgreedStays
<1>3. CreatedBlocks(rs, f) = {} /\ Keyless(rs) = {} /\ Missing(rs, f) = {}
  BY NothingToDo
<1>4. Told(rs, f, sn, alloc) = {f[j].key : j \in Matched(rs, f)}
  BY <1>3 DEF Told, Appended
<1> DEFINE told == {f[j].key : j \in Matched(rs, f)}
           kept == {k \in DOMAIN sn : \E i \in Live(rs) : rs[i].key = k
                                       /\ \E j \in DOMAIN f : ~f[j].ok /\ f[j].key = k}
<1>5. s2 = [k \in told \cup kept |-> IF k \in told THEN rs[RowOf(rs, k)].st ELSE sn[k]]
  BY <1>1, <1>2, <1>4 DEF SnapAfter, Told
<1>6. \A k \in told : k \in DOMAIN sn /\ sn[k] = rs[RowOf(rs, k)].st
  <2> SUFFICES ASSUME NEW j \in Matched(rs, f), NEW i, i = RowOf(rs, f[j].key)
               PROVE  f[j].key \in DOMAIN sn /\ sn[f[j].key] = rs[i].st
    OBVIOUS
  <2> QED
    BY AgreedPair DEF Merging
<1>7. \A k \in DOMAIN sn : k \in told \cup kept
  <2> SUFFICES ASSUME NEW k \in DOMAIN sn, k \notin kept PROVE k \in told
    OBVIOUS
  <2>1. PICK i \in Live(rs) : rs[i].key = k
    BY DEF Agreed
  <2>2. k # NoKey
    BY DEF Below, Merging, NoKey
  <2>3. PICK j \in DOMAIN f : f[j].key = k
    BY <2>1 DEF Agreed
  <2>4. f[j].ok
    BY <2>1, <2>3
  <2>5. i \in DOMAIN rs /\ rs[i].life # "deleted" /\ rs[i].life # "archived"
    BY <2>1 DEF Live
  <2>6. Known(rs, f[j].key) /\ RowOf(rs, f[j].key) = i
    BY <2>1, <2>2, <2>3, <2>5, RowOfIs DEF Merging
  <2>7. j \in Matched(rs, f)
    BY <2>4, <2>5, <2>6 DEF Matched
  <2> QED
    BY <2>3, <2>7
<1>8. told \cup kept = DOMAIN sn
  BY <1>6, <1>7
<1> HIDE DEF told, kept
<1>9. s2 = [k \in DOMAIN sn |-> sn[k]]
  BY <1>5, <1>6, <1>8
<1> QED
  BY <1>9 DEF IsFcn

\* A second sync changes neither rows nor snapshot nor file, whatever keys it
\* could give out and whatever the close gate answers.
THEOREM SyncIsIdempotent == Spec => []SecondSyncIdle
<1>1. Init => SyncInv /\ FileInv
  BY SyncInitial, FileInitial
<1>2. SyncInv /\ FileInv /\ [Next]_vars => (SyncInv /\ FileInv)'
  BY SyncStep, FileStep
<1>3. SyncInv /\ FileInv => SecondSyncIdle
  <2> SUFFICES ASSUME SyncInv, FileInv, clean, \A i \in DOMAIN rows : rows[i].text \in Plain,
                      NEW alloc \in [Needs(rows, file) -> nextSeq .. MaxKey],
                      NEW gate \in SUBSET Asking(rows, file),
                      IsAllocation(alloc, nextSeq, UsedKeys(rows, file)),
                      NEW m, m = Merge(rows, nextSeq, snap, file, alloc, gate)
               PROVE  m.rows = rows /\ m.snap = snap /\ m.out = file
    BY DEF SecondSyncIdle
  <2>1. Agreed(rows, file, snap) /\ Readable(rows, file) /\ IsFcn(snap) /\ Below(snap, nextSeq)
    BY DEF FileInv, SyncInv
  <2>2. Merging(rows, nextSeq, file, alloc)
    <3>1. QuotedBy(rows, Live(rows)) = {}
      BY PlainText DEF QuotedBy, Live
    <3>2. ~Fatal(file)
      BY <2>1, <3>1 DEF Agreed, IdsFit, RepeatsOnly, Fatal
    <3> QED
      BY <3>2 DEF Merging, SyncInv, SyncTypeOK
  <2>3. /\ m.rows = RowsAfter(rows, file, snap, alloc, gate)
        /\ m.snap = SnapAfter(rows, file, snap, alloc, gate)
        /\ m.out = FileAfter(rows, file, snap, alloc, gate)
    BY DEF Merge
  <2>4. m.rows = rows /\ m.out = file
    BY <2>1, <2>2, <2>3, AgreedStays
  <2>5. m.snap = snap
    BY <2>1, <2>2, <2>3, SnapStays
  <2> QED
    BY <2>4, <2>5
<1> QED
  BY <1>1, <1>2, <1>3, PTL DEF Spec


\* No id of a requirement is ever used twice in the store or in what is about to
\* be committed, and in the file the server writes only where a heading line in
\* the prose of a live row quotes one.
THEOREM IdsAreNeverReused == Spec => []KeysUnique
<1>1. Init => SyncInv
  BY SyncInitial
<1>2. SyncInv /\ [Next]_vars => SyncInv'
  BY SyncStep
<1>3. SyncInv => KeysUnique
  BY DEF SyncInv, Numbered, IdsFit, RepeatsOnly, QuotedBy, KeysUnique
<1> QED
  BY <1>1, <1>2, <1>3, PTL DEF Spec

\* The merge archives only what somebody removed, through crashes, edits during
\* a request and directories that cannot be written.
THEOREM NothingArchivedUnasked == Spec => []ArchivedWasRemoved
<1>1. Init => SyncInv
  BY SyncInitial
<1>2. SyncInv /\ [Next]_vars => SyncInv'
  BY SyncStep
<1>3. SyncInv => ArchivedWasRemoved
  BY DEF SyncInv, Accounted, ArchivedWasRemoved
<1> QED
  BY <1>1, <1>2, <1>3, PTL DEF Spec

=============================================================================

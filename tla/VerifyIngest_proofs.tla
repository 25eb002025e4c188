-------------------------- MODULE VerifyIngest_proofs --------------------------
(***************************************************************************)
(* Proofs about `verify ingest`, for every chain, CAR file, depth limit,   *)
(* batch size and number of failures: the ads it visits, the counts it     *)
(* prints, what it lists as not indexed, and what "passed" says.           *)
(***************************************************************************)
EXTENDS VerifyIngest, FiniteSetTheorems, SequenceTheorems, TLAPS

Mhs == Nat \X Nat
Places == {"start", "ad", "sample", "lookup", "next", "print", "done", "aborted"}
Sources == {"provider", "car"}
Commands == [source : Sources, adCid : Nat, lastSeen : BOOLEAN, depth : Nat,
             sampleAll : BOOLEAN]
Walks == [pc : Places, i : Nat, adCid : Nat, ad : Nat,
          verdict : {"none", "inconclusive", "passed", "failed"}]
Results == [total : Nat, present : Nat, mismatch : Nat, absent : Nat, failed : Nat,
            absentMhs : SUBSET Mhs]
Statistics == [rm : {0}, noLonger : {0}, nonRm : Nat, removed : {{}}]
Lookups == [mh : Mhs, answer : Answers \cup {"failed"}]

Types ==
  /\ chain \in Seq(Kinds) /\ Len(chain) >= 1
  /\ opts \in Commands /\ opts.adCid <= Len(chain)
  /\ seen \in 0..Len(chain) /\ faults \in 0..MaxFaults
  /\ walk \in Walks
  /\ stats \in Statistics
  /\ pending \in Seq(Mhs)
  /\ result \in Results /\ agg \in Results
  /\ asked \subseteq Lookups /\ IsFiniteSet(asked)
  /\ visited \in Seq(Nat)

(* The ads visited go down from the first one; the next one is Low - 1.       *)
First ==
  IF opts.lastSeen /\ seen # Undef THEN seen
  ELSE IF ~opts.lastSeen /\ opts.adCid # Undef THEN opts.adCid
  ELSE Len(chain)
Low == First - Len(visited) + 1

Visiting ==
  /\ Len(visited) <= First /\ Len(visited) <= opts.depth
  /\ \A j \in 1..Len(visited) : visited[j] = First - j + 1
  /\ opts.source = "car" =>
       visited = <<>> /\ walk.pc \in {"start", "lookup", "print", "done", "aborted"}
  /\ walk.pc = "start" => visited = <<>>
  /\ opts.source = "provider" /\ walk.pc \in {"start", "ad"} => walk.i = Len(visited) + 1
  /\ walk.pc = "ad" =>
       IF Len(visited) = 0 THEN walk.adCid = StartAt
       ELSE walk.adCid = Low - 1 /\ walk.adCid >= 1
  /\ opts.source = "provider" /\ walk.pc \in {"sample", "lookup", "next"} =>
       walk.i = Len(visited) /\ walk.ad = Low /\ walk.ad >= 1 /\ walk.i >= 1
  /\ walk.pc = "sample" => ~chain[walk.ad].rm
  /\ opts.source = "provider" /\ walk.pc \in {"print", "done"} /\ opts.depth > 0 =>
       Len(visited) = DepthCut(First, opts.depth)
  /\ 1 <= walk.i /\ walk.i <= opts.depth + 1 /\ walk.adCid <= Len(chain) /\ walk.ad <= Len(chain)

(* A multihash is looked up once.                                             *)
Distinct(s) == \A i, j \in 1..Len(s) : s[i] = s[j] => i = j
AskedMhs == {q.mh : q \in asked}

LookingUp ==
  /\ Distinct(pending)
  /\ \A i \in 1..Len(pending) : pending[i] \notin AskedMhs
  /\ walk.pc # "lookup" => pending = <<>> /\ result = NoResult
  /\ walk.pc = "start" => asked = {}
  /\ opts.source = "provider" =>
       /\ \A mh \in AskedMhs : mh[1] >= Low /\ (walk.pc = "sample" => mh[1] > Low)
       /\ \A i \in 1..Len(pending) : pending[i][1] = Low

Judged ==
  walk.verdict = IF walk.pc = "done" THEN Verdict ELSE "none"

(* If all is sampled and nothing has failed, nothing has been left out.       *)
Covered ==
  opts.source = "provider" /\ opts.sampleAll /\ faults = 0 =>
    \A k \in Low..First : ~chain[k].rm /\ (walk.pc = "sample" => k # Low) =>
      \A j \in Due(chain[k]) : <<k, j>> \in AskedMhs \cup Range(pending)

Inv ==
  /\ Types /\ Visiting /\ LookingUp /\ CountsMatchAnswers /\ Judged /\ Covered
  /\ PrintedAreAbsent

-----------------------------------------------------------------------------
(* Lookups of one batch: there are as many as it has multihashes, and none    *)
(* has been counted before.                                                   *)
LEMMA LookupsOf ==
  ASSUME NEW R, IsFiniteSet(R), NEW ans
  PROVE  LET N == {[mh |-> mh, answer |-> ans[mh]] : mh \in R}
         IN  IsFiniteSet(N) /\ Cardinality(N) = Cardinality(R)
<1> DEFINE N == {[mh |-> mh, answer |-> ans[mh]] : mh \in R}
           f == [mh \in R |-> [mh |-> mh, answer |-> ans[mh]]]
<1>1. f \in [R -> N] /\ \A n \in N : \E mh \in R : f[mh] = n
  OBVIOUS
<1>2. \A mh \in R : f[mh].mh = mh
  OBVIOUS
<1>3. \A x, y \in R : f[x] = f[y] => x = y
  BY <1>2, Zenon
<1>4. f \in Bijection(R, N)
  BY <1>1, <1>3 DEF Bijection, Injection, Surjection, IsInjective
<1>5. ExistsBijection(R, N)
  BY <1>4 DEF ExistsBijection
<1> QED
  BY <1>5, FS_Bijection

LEMMA MhsOfLookups ==
  ASSUME NEW R, NEW ans
  PROVE  LET N == {[mh |-> mh, answer |-> ans[mh]] : mh \in R}
         IN  /\ {q.mh : q \in N} = R
             /\ \A A : {q.mh : q \in {r \in N : r.answer \in A}} = {mh \in R : ans[mh] \in A}
<1> DEFINE N == {[mh |-> mh, answer |-> ans[mh]] : mh \in R}
<1>1. \A q \in N : q.mh \in R /\ q.answer = ans[q.mh]
  OBVIOUS
<1>2. \A mh \in R : \E q \in N : q.mh = mh /\ q.answer = ans[mh]
  <2> SUFFICES ASSUME NEW mh \in R PROVE \E q \in N : q.mh = mh /\ q.answer = ans[mh]
    OBVIOUS
  <2>1. [mh |-> mh, answer |-> ans[mh]] \in N
    OBVIOUS
  <2> QED
    BY <2>1
<1> HIDE DEF N
<1>3. {q.mh : q \in N} = R
  BY <1>1, <1>2
<1>4. \A A : {q.mh : q \in {r \in N : r.answer \in A}} = {mh \in R : ans[mh] \in A}
  BY <1>1, <1>2
<1> QED
  BY <1>3, <1>4 DEF N

(* A batch and the rest of what is to be looked up.                           *)
LEMMA Split ==
  ASSUME pending \in Seq(Mhs), pending # <<>>, Distinct(pending)
  PROVE  /\ Range(Batch) \subseteq Range(pending) /\ Range(Batch) \subseteq Mhs
         /\ Len(Batch) \in Nat \ {0}
         /\ IsFiniteSet(Range(Batch)) /\ Cardinality(Range(Batch)) = Len(Batch)
         /\ Rest \in Seq(Mhs) /\ Distinct(Rest)
         /\ Range(Batch) \cup Range(Rest) = Range(pending)
         /\ \A i \in 1..Len(Rest) : Rest[i] \in Range(pending) /\ Rest[i] \notin Range(Batch)
<1> DEFINE M == Mhs
<1> HIDE DEF M
<1>a. PICK size \in Nat \ {0} : size = BatchSize
  BY BoundsAssumption
<1>b. PICK p \in Seq(M) : p = pending /\ p # <<>> /\ Distinct(p)
  BY DEF M
<1>c. PICK b : b = SubSeq(p, 1, IF Len(p) > size THEN size ELSE Len(p))
  OBVIOUS
<1>d. PICK r : r = SubSeq(p, size + 1, Len(p))
  OBVIOUS
<1>1. PICK len \in Nat : len = Len(p)
  BY <1>b
<1>2. len > 0 /\ DOMAIN p = 1..len /\ \A i \in 1..len : p[i] \in M
  BY <1>1, <1>b
<1>3. PICK n \in Nat : n = IF len > size THEN size ELSE len
  BY <1>1, <1>a
<1>4. n >= 1 /\ n <= len /\ n <= size /\ (n < len => n = size)
  BY <1>2, <1>3
<1>5. b \in Seq(M) /\ Len(b) = n /\ DOMAIN b = 1..n /\ \A i \in 1..n : b[i] = p[i]
  <2>1. b = SubSeq(p, 1, n)
    BY <1>1, <1>3, <1>c
  <2>2. \A i \in 1..n : p[i] \in M
    BY <1>2, <1>4
  <2> QED
    BY <1>4, <2>1, <2>2, SubSeqProperties
<1>6. PICK m \in Nat : m = len - n
  BY <1>4
<1>7. r \in Seq(M) /\ Len(r) = m /\ DOMAIN r = 1..m /\ \A i \in 1..m : r[i] = p[n + i]
  <2>1. \A i \in (size + 1)..len : p[i] \in M
    BY <1>2
  <2>2. /\ r \in Seq(M)
        /\ Len(r) = IF size + 1 <= len THEN len - (size + 1) + 1 ELSE 0
        /\ \A i \in 1..(len - (size + 1) + 1) : r[i] = p[size + 1 + i - 1]
    BY <1>1, <1>d, <2>1, SubSeqProperties
  <2>0. (IF size + 1 <= len THEN len - (size + 1) + 1 ELSE 0) = m
    BY <1>3, <1>4, <1>6
  <2>3. Len(r) = m
    BY <2>0, <2>2, Zenon
  <2>4. \A i \in 1..m : i \in 1..(len - (size + 1) + 1) /\ size + 1 + i - 1 = n + i
    BY <1>3, <1>4, <1>6
  <2>5. DOMAIN r = 1..m
    BY <2>2, <2>3, LenProperties
  <2>6. \A i \in 1..m : r[i] = p[n + i]
    BY <2>2, <2>4, Zenon
  <2> QED
    BY <2>2, <2>3, <2>5, <2>6
<1>8. \A i \in 1..m : n + i \in 1..len /\ n + i \notin 1..n
  BY <1>4, <1>6
<1>9. Distinct(b) /\ Distinct(r)
  <2>1. \A i \in 1..n : i \in 1..len
    BY <1>4
  <2>2. \A i, j \in 1..m : n + i = n + j => i = j
    OBVIOUS
  <2>3. \A i, j \in 1..len : p[i] = p[j] => i = j
    BY <1>1, <1>b DEF Distinct
  <2>4. \A i, j \in 1..n : b[i] = b[j] => i = j
    BY <1>5, <2>1, <2>3, Zenon
  <2>5. \A i, j \in 1..m : r[i] = r[j] => i = j
    <3> SUFFICES ASSUME NEW i \in 1..m, NEW j \in 1..m, r[i] = r[j] PROVE i = j
      OBVIOUS
    <3>1. p[n + i] = p[n + j] /\ n + i \in 1..len /\ n + j \in 1..len
      BY <1>7, <1>8, Zenon
    <3>2. n + i = n + j
      BY <2>3, <3>1, Zenon
    <3> QED
      BY <2>2, <3>2, Zenon
  <2> QED
    BY <1>5, <1>7, <2>4, <2>5, Zenon DEF Distinct
<1>10. Range(b) = {b[i] : i \in 1..n} /\ Range(r) = {r[i] : i \in 1..m} /\ Range(p) = {p[i] : i \in 1..len}
  BY <1>2, <1>5, <1>7 DEF Range
<1>11. IsFiniteSet(Range(b)) /\ Cardinality(Range(b)) = n
  <2>0. b \in [1..n -> M]
    BY <1>5, LenProperties
  <2>1. b \in [1..n -> Range(b)] /\ \A y \in Range(b) : \E i \in 1..n : b[i] = y
    BY <1>10, <2>0
  <2>2. b \in Bijection(1..n, Range(b))
    <3>1. \A i, j \in 1..n : b[i] = b[j] => i = j
      BY <1>5, <1>9 DEF Distinct
    <3> QED
      BY <2>1, <3>1 DEF Bijection, Injection, Surjection, IsInjective
  <2>3. IsFiniteSet(1..n) /\ Cardinality(1..n) = n
    <3>0. 1 \in Int /\ n \in Int
      OBVIOUS
    <3>1. IsFiniteSet(1..n) /\ Cardinality(1..n) = IF 1 > n THEN 0 ELSE n - 1 + 1
      BY <3>0, FS_Interval, Zenon
    <3>2. (IF 1 > n THEN 0 ELSE n - 1 + 1) = n
      BY <1>4
    <3> QED
      BY <3>1, <3>2
  <2>4. ExistsBijection(1..n, Range(b))
    BY <2>2 DEF ExistsBijection
  <2> QED
    BY <2>3, <2>4, FS_Bijection
<1>12. Range(b) \cup Range(r) = Range(p)
  <2>1. \A i \in 1..len : i \in 1..n \/ \E j \in 1..m : i = n + j
    <3> SUFFICES ASSUME NEW i \in 1..len, i \notin 1..n PROVE \E j \in 1..m : i = n + j
      OBVIOUS
    <3>1. i - n \in 1..m /\ i = n + (i - n)
      BY <1>4, <1>6
    <3> QED
      BY <3>1
  <2>2. \A i \in 1..n : i \in 1..len
    BY <1>4
  <2>3. Range(b) \subseteq Range(p)
    BY <1>5, <1>10, <2>2
  <2>4. Range(r) \subseteq Range(p)
    BY <1>7, <1>8, <1>10
  <2>5. \A i \in 1..len : p[i] \in Range(b) \cup Range(r)
    <3> SUFFICES ASSUME NEW i \in 1..len PROVE p[i] \in Range(b) \cup Range(r)
      OBVIOUS
    <3>1. CASE i \in 1..n
      BY <1>5, <1>10, <3>1
    <3>2. CASE \E j \in 1..m : i = n + j
      BY <1>7, <1>10, <3>2
    <3> QED
      BY <2>1, <3>1, <3>2
  <2> QED
    BY <1>10, <2>3, <2>4, <2>5
<1>13. \A i \in 1..m : r[i] \in Range(p) /\ r[i] \notin Range(b)
  <2>1. \A i \in 1..len, j \in 1..len : p[i] = p[j] => i = j
    BY <1>1, <1>b DEF Distinct
  <2>2. \A i \in 1..n : i \in 1..len
    BY <1>4
  <2>3. \A i \in 1..m : r[i] \in Range(p)
    BY <1>7, <1>10, <1>12
  <2>4. \A i \in 1..m, j \in 1..n : r[i] # b[j]
    <3> SUFFICES ASSUME NEW i \in 1..m, NEW j \in 1..n PROVE r[i] # b[j]
      OBVIOUS
    <3>1. r[i] = p[n + i] /\ b[j] = p[j]
      BY <1>5, <1>7
    <3>2. n + i \in 1..len /\ j \in 1..len /\ n + i # j
      BY <1>8, <2>2
    <3> QED
      BY <2>1, <3>1, <3>2, Zenon
  <2> QED
    BY <1>10, <2>3, <2>4
<1>14. Range(b) \subseteq M
  BY <1>5, <1>10
<1>15. Len(b) \in Nat \ {0}
  BY <1>4, <1>5
<1>16. b = Batch /\ r = Rest /\ p = pending /\ M = Mhs
  BY <1>a, <1>b, <1>c, <1>d, Zenon DEF Batch, Rest, M
<1> QED
  BY <1>5, <1>7, <1>9, <1>11, <1>12, <1>13, <1>14, <1>15, <1>16, Zenon

(* A sample has no multihash twice, and all of them if all are included.      *)
LEMMA Sampled ==
  ASSUME NEW k \in Nat, NEW n \in Nat, NEW p \in Samples(MhsOf(k, n))
  PROVE  /\ p \in Seq(Mhs) /\ Distinct(p)
         /\ \A i \in 1..Len(p) : p[i][1] = k
         /\ opts.sampleAll => \A j \in 1..n : <<k, j>> \in Range(p)
<1> DEFINE all == MhsOf(k, n)
<1>1. /\ all \in Seq(Mhs) /\ Len(all) = n /\ DOMAIN all = 1..n
      /\ \A j \in 1..n : all[j] = <<k, j>>
  BY DEF MhsOf, Mhs
<1>2. Distinct(all) /\ \A j \in 1..n : all[j][1] = k
  BY <1>1 DEF Distinct
<1>3. \A j \in 1..n : <<k, j>> \in Range(all)
  BY <1>1 DEF Range
<1> HIDE DEF all
<1>4. CASE opts.sampleAll
  <2>1. p = all
    BY <1>4 DEF Samples, all
  <2> QED
    BY <1>1, <1>2, <1>3, <2>1
<1>5. CASE ~opts.sampleAll
  <2>1. PICK len \in 0..n : \E f \in [1..len -> 1..n] :
          /\ \A i, j \in 1..len : i < j => f[i] < f[j]
          /\ p = [i \in DOMAIN f |-> all[f[i]]]
    BY <1>1, <1>5 DEF Samples, all
  <2>2. PICK f \in [1..len -> 1..n] :
          /\ \A i, j \in 1..len : i < j => f[i] < f[j]
          /\ p = [i \in 1..len |-> all[f[i]]]
    BY <2>1
  <2>3. p \in Seq(Mhs) /\ Len(p) = len /\ \A i \in 1..len : p[i] = all[f[i]]
    <3>1. \A i \in 1..len : all[f[i]] \in Mhs
      <4> SUFFICES ASSUME NEW i \in 1..len PROVE all[f[i]] \in Mhs
        OBVIOUS
      <4>1. f[i] \in 1..n
        BY <2>2
      <4> QED
        BY <1>1, <4>1, ElementOfSeq
    <3>2. p \in [1..len -> Mhs]
      BY <2>2, <3>1
    <3>3. p \in Seq(Mhs) /\ Len(p) = len
      BY <3>2
    <3> QED
      BY <2>2, <3>3, Zenon
  <2>4. \A i, j \in 1..len : f[i] = f[j] => i = j
    <3> SUFFICES ASSUME NEW i \in 1..len, NEW j \in 1..len, f[i] = f[j] PROVE i = j
      OBVIOUS
    <3>1. ~(i < j) /\ ~(j < i)
      BY <2>2
    <3> QED
      BY <3>1
  <2>5. \A i \in 1..len : f[i] \in 1..n
    BY <2>2
  <2>6. Distinct(p)
    BY <1>1, <1>2, <2>3, <2>4, <2>5 DEF Distinct
  <2> QED
    BY <1>2, <1>5, <2>3, <2>5, <2>6
<1> QED
  BY <1>4, <1>5

-----------------------------------------------------------------------------
LEMMA Known ==
  ASSUME Types
  PROVE  /\ opts.source \in Sources /\ opts.adCid \in Nat /\ opts.depth \in Nat
         /\ walk \in Walks /\ walk.pc \in Places /\ walk.i \in Nat
         /\ walk.adCid \in Nat /\ walk.ad \in Nat
         /\ Len(chain) \in Nat \ {0} /\ DOMAIN chain = 1..Len(chain)
         /\ First \in 1..Len(chain) /\ First \in Nat /\ StartAt \in 0..Len(chain)
         /\ First = IF StartAt = Undef THEN Len(chain) ELSE StartAt
         /\ Len(visited) \in Nat /\ Len(pending) \in Nat /\ Low \in Int
         /\ \A k \in 1..Len(chain) : chain[k].rm \in BOOLEAN /\ chain[k] \in Kinds
         /\ MaxFaults \in Nat /\ faults \in Nat
<1>1. opts \in Commands /\ walk \in Walks /\ chain \in Seq(Kinds) /\ Len(chain) >= 1
  BY DEF Types
<1>2. opts.source \in Sources /\ opts.adCid \in Nat /\ opts.depth \in Nat /\ opts.lastSeen \in BOOLEAN
  BY <1>1 DEF Commands
<1>3. /\ walk.pc \in Places /\ walk.i \in Nat /\ walk.adCid \in Nat /\ walk.ad \in Nat
  BY <1>1 DEF Walks
<1>4. Len(chain) \in Nat \ {0} /\ DOMAIN chain = 1..Len(chain)
  BY <1>1
<1>5. /\ First \in 1..Len(chain) /\ StartAt \in 0..Len(chain)
      /\ First = IF StartAt = Undef THEN Len(chain) ELSE StartAt
  <2>1. seen \in 0..Len(chain) /\ opts.adCid \in 0..Len(chain)
    BY <1>2, <1>4 DEF Types
  <2> QED
    BY <1>2, <1>4, <2>1 DEF First, StartAt, Undef
<1>6. Len(visited) \in Nat /\ Len(pending) \in Nat
  BY DEF Types
<1>7. Low \in Int
  BY <1>5, <1>6 DEF Low
<1>8. \A k \in 1..Len(chain) : chain[k].rm \in BOOLEAN /\ chain[k] \in Kinds
  <2> SUFFICES ASSUME NEW k \in 1..Len(chain) PROVE chain[k] \in Kinds
    BY BoundsAssumption
  <2> QED
    BY <1>1, ElementOfSeq
<1>9. MaxFaults \in Nat /\ faults \in Nat
  BY BoundsAssumption DEF Types
<1>10. First \in Nat
  <2>1. \A n \in Nat \ {0} : 1..n \subseteq Nat
    OBVIOUS
  <2> QED
    BY <1>4, <1>5, <2>1, Zenon
<1> QED
  BY <1>1, <1>2, <1>3, <1>4, <1>5, <1>6, <1>7, <1>8, <1>9, <1>10

LEMMA NothingCounted ==
  /\ NoResult \in Results /\ NoResult.absentMhs = {}
  /\ NoResult.total = 0 /\ NoResult.present = 0 /\ NoResult.mismatch = 0
  /\ NoResult.absent = 0 /\ NoResult.failed = 0
  BY DEF NoResult, Results

LEMMA InvInit == Init => Inv
<1> SUFFICES ASSUME Init PROVE Inv
  OBVIOUS
<1>1. PICK len \in 1..MaxAds : chain \in [1..len -> Kinds]
  BY DEF Init
<1>2. chain \in Seq(Kinds) /\ Len(chain) >= 1 /\ Len(chain) \in Nat
  BY <1>1, BoundsAssumption
<1>3. opts \in Commands /\ opts.adCid <= Len(chain)
  <2>1. Depths \subseteq Nat /\ 0..Len(chain) \subseteq Nat
    BY <1>2, BoundsAssumption
  <2>2. opts \in [source : Sources, adCid : 0..Len(chain), lastSeen : BOOLEAN,
                  depth : Depths, sampleAll : BOOLEAN]
    BY DEF Init, Sources
  <2>3. opts \in Commands /\ opts.adCid \in 0..Len(chain)
    BY <2>1, <2>2 DEF Commands
  <2> QED
    BY <1>2, <2>3
<1>4. walk \in Walks /\ walk.pc = "start" /\ walk.i = 1 /\ walk.verdict = "none"
      /\ walk.adCid = 0 /\ walk.ad = 0
  BY DEF Init, Walks, Places, Undef
<1>5. Types
  <2>1. IsFiniteSet(asked) /\ asked \subseteq Lookups
    BY FS_EmptySet DEF Init
  <2>2. stats \in Statistics
    BY DEF Init, Statistics
  <2>3. MaxFaults \in Nat
    BY BoundsAssumption
  <2> QED
    BY <1>2, <1>3, <1>4, <2>1, <2>2, <2>3, NothingCounted DEF Init, Types
<1>6. visited = <<>> /\ Len(visited) = 0 /\ pending = <<>> /\ Len(pending) = 0 /\ asked = {}
  BY DEF Init
<1>7. First \in 1..Len(chain) /\ opts.depth \in Nat
  BY <1>5, Known
<1>8. Visiting
  BY <1>2, <1>4, <1>6, <1>7 DEF Visiting
<1>9. LookingUp
  BY <1>4, <1>6 DEF Init, LookingUp, Distinct, AskedMhs
<1>10. CountsMatchAnswers
  <2>1. Cardinality(asked) = 0 /\ \A A : {q \in asked : q.answer \in A} = {}
    BY <1>6, FS_EmptySet
  <2>2. \A A : Count(A) = 0
    BY <2>1, FS_EmptySet DEF Count
  <2>3. /\ All("total") = 0 /\ All("present") = 0 /\ All("mismatch") = 0
        /\ All("absent") = 0 /\ All("failed") = 0
    BY DEF Init, All, NoResult
  <2> QED
    BY <2>1, <2>2, <2>3, Zenon DEF CountsMatchAnswers
<1>11. Judged
  BY <1>4 DEF Judged
<1>12. Covered
  BY <1>2, <1>6, <1>7 DEF Covered, Low
<1>13. PrintedAreAbsent
  BY <1>6, NothingCounted DEF Init, PrintedAreAbsent
<1> QED
  BY <1>5, <1>8, <1>9, <1>10, <1>11, <1>12, <1>13 DEF Inv

-----------------------------------------------------------------------------
(* Steps that look nothing up.                                                *)
LEMMA NotCounted ==
  ASSUME Inv, UNCHANGED <<result, agg, asked>>
  PROVE  CountsMatchAnswers' /\ PrintedAreAbsent'
  BY DEF Inv, CountsMatchAnswers, PrintedAreAbsent, All, Count

(* Steps of the loop that sample nothing.                                     *)
LEMMA Moved ==
  ASSUME Inv, UNCHANGED <<chain, opts, seen, stats, pending, result, agg, asked, visited>>,
         walk.pc \notin {"sample", "lookup"}, walk'.pc \notin {"start", "sample", "lookup"},
         walk' \in Walks, faults' \in faults..MaxFaults,
         Visiting', Judged'
  PROVE  Inv'
<1>1. faults' \in 0..MaxFaults /\ (faults' = 0 => faults = 0)
  BY Known DEF Inv
<1>2. Types'
  BY <1>1 DEF Inv, Types
<1>3. Low' = Low /\ AskedMhs' = AskedMhs /\ First' = First
  BY DEF Low, First, AskedMhs
<1>4. LookingUp'
  BY <1>3 DEF Inv, LookingUp, Distinct
<1>5. Covered'
  BY <1>1, <1>3 DEF Inv, Covered, Range
<1> QED
  BY <1>2, <1>4, <1>5, NotCounted DEF Inv

LEMMA StartProviderInv ==
  ASSUME Inv, StartProvider
  PROVE  Inv'
<1>1. /\ walk.pc = "start" /\ opts.source = "provider"
      /\ walk' = [walk EXCEPT !.pc = "ad", !.adCid = StartAt]
      /\ UNCHANGED <<chain, opts, seen, faults, stats, pending, result, agg, asked, visited>>
  BY DEF StartProvider, input
<1>2. PICK at \in 0..Len(chain) : at = StartAt
  BY Known DEF Inv
<1>3. /\ Len(chain) \in Nat /\ faults \in Nat /\ MaxFaults \in Nat /\ walk \in Walks
      /\ faults <= MaxFaults /\ at \in Nat /\ at <= Len(chain)
  BY <1>2, Known DEF Inv, Types
<1>4. /\ walk' \in Walks /\ walk'.pc = "ad" /\ walk'.adCid = at /\ walk'.ad = walk.ad
      /\ walk'.i = walk.i /\ walk'.verdict = walk.verdict
  BY <1>1, <1>2, <1>3 DEF Walks, Places
<1>5. Visiting'
  <2>1. visited = <<>> /\ Len(visited) = 0 /\ walk.i = Len(visited) + 1
    BY <1>1 DEF Inv, Visiting
  <2>2. StartAt' = at /\ First' = First
    BY <1>1, <1>2 DEF StartAt, First
  <2> QED
    BY <1>1, <1>3, <1>4, <2>1, <2>2 DEF Inv, Visiting
<1>6. Judged'
  BY <1>1, <1>4 DEF Inv, Judged
<1>7. faults' \in faults..MaxFaults
  BY <1>1, <1>3
<1> QED
  BY <1>1, <1>4, <1>5, <1>6, <1>7, Moved

LEMMA AbortsInv ==
  ASSUME Inv, Aborts
  PROVE  Inv'
<1>1. /\ walk.pc \in {"start", "ad"} /\ faults < MaxFaults /\ faults' = faults + 1
      /\ walk' = [walk EXCEPT !.pc = "aborted"]
      /\ UNCHANGED <<chain, opts, seen, stats, pending, result, agg, asked, visited>>
  BY DEF Aborts, Fault, input
<1>2. walk \in Walks /\ faults \in Nat /\ MaxFaults \in Nat
  BY Known DEF Inv
<1>3. /\ walk' \in Walks /\ walk'.pc = "aborted" /\ walk'.adCid = walk.adCid
      /\ walk'.ad = walk.ad /\ walk'.i = walk.i /\ walk'.verdict = walk.verdict
  BY <1>1, <1>2 DEF Walks, Places
<1>4. First' = First
  BY <1>1 DEF First
<1>5. Visiting'
  BY <1>1, <1>3, <1>4 DEF Inv, Visiting
<1>6. Judged'
  BY <1>1, <1>3 DEF Inv, Judged
<1>7. faults' \in faults..MaxFaults
  BY <1>1, <1>2
<1> QED
  BY <1>1, <1>3, <1>5, <1>6, <1>7, Moved

LEMMA NextAdInv ==
  ASSUME Inv, NextAd
  PROVE  Inv'
<1>1. /\ walk.pc = "next"
      /\ walk' = IF walk.ad - 1 = Undef
                 THEN [walk EXCEPT !.pc = "print"]
                 ELSE [walk EXCEPT !.pc = "ad", !.i = @ + 1, !.adCid = walk.ad - 1]
      /\ UNCHANGED <<chain, opts, seen, faults, stats, pending, result, agg, asked, visited>>
  BY DEF NextAd, input
<1>2. /\ walk \in Walks /\ opts.source = "provider" /\ First' = First /\ StartAt' = StartAt
      /\ Low' = Low
  BY <1>1, Known DEF Inv, Visiting, Sources, First, StartAt, Low
<1>3. PICK i \in Nat, ad \in Nat, len \in Nat, first \in Nat, depth \in Nat, n \in Nat :
        /\ i = walk.i /\ ad = walk.ad /\ len = Len(visited) /\ first = First
        /\ depth = opts.depth /\ n = Len(chain)
  BY Known DEF Inv
<1>4. /\ i = len /\ ad = first - len + 1 /\ ad >= 1 /\ i >= 1 /\ i <= depth /\ len <= first
      /\ ad <= n
  BY <1>1, <1>2, <1>3 DEF Inv, Visiting, Low
<1>5. faults' \in faults..MaxFaults
  BY <1>1, Known DEF Inv, Types
<1>6. CASE walk.ad - 1 = Undef
  <2>1. /\ walk' \in Walks /\ walk'.pc = "print" /\ walk'.adCid = walk.adCid
        /\ walk'.ad = walk.ad /\ walk'.i = walk.i /\ walk'.verdict = walk.verdict
    BY <1>1, <1>2, <1>6 DEF Walks, Places
  <2>2. len = first /\ len <= depth
    BY <1>3, <1>4, <1>6 DEF Undef
  <2>3. len = DepthCut(first, depth)
    BY <2>2 DEF DepthCut
  <2>4. Visiting'
    BY <1>1, <1>2, <1>3, <2>1, <2>3 DEF Inv, Visiting
  <2>5. Judged'
    BY <1>1, <2>1 DEF Inv, Judged
  <2> QED
    BY <1>1, <1>5, <2>1, <2>4, <2>5, Moved
<1>7. CASE walk.ad - 1 # Undef
  <2>1. ad - 1 \in Nat /\ i + 1 \in Nat /\ ad - 1 >= 1
    BY <1>3, <1>4, <1>7 DEF Undef
  <2>2. /\ walk' \in Walks /\ walk'.pc = "ad" /\ walk'.adCid = ad - 1
        /\ walk'.ad = ad /\ walk'.i = i + 1 /\ walk'.verdict = walk.verdict
    BY <1>1, <1>2, <1>3, <1>7, <2>1 DEF Walks, Places
  <2>3. /\ i + 1 = len + 1 /\ ad - 1 = first - len + 1 - 1 /\ i + 1 <= depth + 1
        /\ ad - 1 <= n /\ len # 0 /\ 1 <= i + 1
    BY <1>4, <2>1
  <2>4. Low = first - len + 1
    BY <1>3 DEF Low
  <2>5. Visiting'
    BY <1>1, <1>2, <1>3, <1>4, <2>1, <2>2, <2>3, <2>4 DEF Inv, Visiting
  <2>6. Judged'
    BY <1>1, <2>2 DEF Inv, Judged
  <2> QED
    BY <1>1, <1>5, <2>2, <2>5, <2>6, Moved
<1> QED
  BY <1>6, <1>7

LEMMA LoopDoneInv ==
  ASSUME Inv, LoopDone
  PROVE  Inv'
<1>1. /\ walk.pc = "ad" /\ ~(walk.i <= opts.depth) /\ walk' = [walk EXCEPT !.pc = "print"]
      /\ UNCHANGED <<chain, opts, seen, faults, stats, pending, result, agg, asked, visited>>
  BY DEF LoopDone, More, input
<1>2. walk \in Walks /\ opts.source = "provider" /\ First' = First
  BY <1>1, Known DEF Inv, Visiting, Sources, First
<1>3. /\ walk' \in Walks /\ walk'.pc = "print" /\ walk'.adCid = walk.adCid
      /\ walk'.ad = walk.ad /\ walk'.i = walk.i /\ walk'.verdict = walk.verdict
  BY <1>1, <1>2 DEF Walks, Places
<1>4. PICK i \in Nat, len \in Nat, first \in Nat, depth \in Nat :
        i = walk.i /\ len = Len(visited) /\ first = First /\ depth = opts.depth
  BY Known DEF Inv
<1>5. i = len + 1 /\ len <= first /\ len <= depth /\ ~(i <= depth)
  BY <1>1, <1>2, <1>4 DEF Inv, Visiting
<1>6. depth > 0 => len = DepthCut(first, depth)
  BY <1>5 DEF DepthCut
<1>7. Visiting'
  BY <1>1, <1>2, <1>3, <1>4, <1>6 DEF Inv, Visiting
<1>8. Judged'
  BY <1>1, <1>3 DEF Inv, Judged
<1>9. faults' \in faults..MaxFaults
  BY <1>1, Known DEF Inv, Types
<1> QED
  BY <1>1, <1>3, <1>7, <1>8, <1>9, Moved

LEMMA PrintResultInv ==
  ASSUME Inv, PrintResult
  PROVE  Inv'
<1>1. /\ walk.pc = "print" /\ walk' = [walk EXCEPT !.pc = "done", !.verdict = Verdict]
      /\ UNCHANGED <<chain, opts, seen, faults, stats, pending, result, agg, asked, visited>>
  BY DEF PrintResult, input
<1>2. walk \in Walks /\ First' = First /\ Verdict' = Verdict
      /\ Verdict \in {"inconclusive", "passed", "failed"}
  BY <1>1, Known DEF Inv, First, Verdict
<1>3. /\ walk' \in Walks /\ walk'.pc = "done" /\ walk'.adCid = walk.adCid
      /\ walk'.ad = walk.ad /\ walk'.i = walk.i /\ walk'.verdict = Verdict
  BY <1>1, <1>2 DEF Walks, Places
<1>4. Visiting'
  BY <1>1, <1>2, <1>3 DEF Inv, Visiting
<1>5. Judged'
  BY <1>2, <1>3 DEF Judged
<1>6. faults' \in faults..MaxFaults
  BY <1>1, Known DEF Inv, Types
<1> QED
  BY <1>1, <1>3, <1>4, <1>5, <1>6, Moved

-----------------------------------------------------------------------------
(* An ad without entries adds nothing.                                        *)
LEMMA NoneDue ==
  ASSUME NEW ad \in Kinds, ad.ends = <<>>
  PROVE  Due(ad) = {}
<1>1. Len(ad.ends) = 0 /\ EntriesDepth \in Nat
  BY BoundsAssumption
<1>2. DepthCut(Len(ad.ends), EntriesDepth) = 0
  BY <1>1 DEF DepthCut
<1>3. Reached(ad) = {}
  BY <1>2 DEF Reached
<1> QED
  BY <1>3 DEF Due

LEMMA GetAdInv ==
  ASSUME Inv, GetAd
  PROVE  Inv'
<1>1. PICK k : k = IF walk.adCid = Undef THEN Len(chain) ELSE walk.adCid
  OBVIOUS
<1>2. /\ walk.pc = "ad" /\ walk.i <= opts.depth
      /\ walk' = [walk EXCEPT !.ad = k, !.pc =
                     IF chain[k].rm \/ chain[k].ends = <<>> THEN "next" ELSE "sample"]
      /\ visited' = Append(visited, k)
      /\ UNCHANGED <<chain, opts, seen, faults, stats, pending, result, agg, asked>>
  BY <1>1 DEF GetAd, More, input
<1>3. walk \in Walks /\ opts.source = "provider" /\ First' = First /\ StartAt' = StartAt
  BY <1>2, Known DEF Inv, Visiting, Sources, First, StartAt
<1>4. PICK i \in Nat, len \in Nat, first \in Nat, depth \in Nat, n \in Nat :
        /\ i = walk.i /\ len = Len(visited) /\ first = First
        /\ depth = opts.depth /\ n = Len(chain)
  BY Known DEF Inv
<1>5. i = len + 1 /\ len <= first /\ i <= depth /\ first \in 1..n
  BY <1>2, <1>3, <1>4, Known DEF Inv, Visiting
<1>6. k \in Nat /\ k = first - len /\ k >= 1 /\ k <= n
  <2>1. CASE len = 0
    <3>1. walk.adCid = StartAt
      BY <1>2, <1>4, <2>1 DEF Inv, Visiting
    <3>2. k = first
      BY <1>1, <1>4, <3>1, Known DEF Inv
    <3> QED
      BY <1>5, <2>1, <3>2
  <2>2. CASE len # 0
    <3>1. walk.adCid = first - len + 1 - 1 /\ walk.adCid >= 1
      BY <1>2, <1>4, <2>2 DEF Inv, Visiting, Low
    <3>2. k = walk.adCid
      BY <1>1, <3>1 DEF Undef
    <3> QED
      BY <1>5, <3>1, <3>2
  <2> QED
    BY <2>1, <2>2
<1>7. /\ walk' \in Walks /\ walk'.adCid = walk.adCid /\ walk'.ad = k /\ walk'.i = i
      /\ walk'.pc = (IF chain[k].rm \/ chain[k].ends = <<>> THEN "next" ELSE "sample")
      /\ walk'.verdict = walk.verdict
  BY <1>2, <1>3, <1>4, <1>6 DEF Walks, Places
<1>8. /\ visited' \in Seq(Nat) /\ Len(visited') = len + 1
      /\ \A j \in 1..(len + 1) : visited'[j] = IF j = len + 1 THEN k ELSE visited[j]
  BY <1>2, <1>4, <1>6 DEF Inv, Types
<1>9. Types'
  BY <1>2, <1>7, <1>8 DEF Inv, Types
<1>10. Low' = k /\ Low = k + 1
  <2>1. Low' = first - (len + 1) + 1 /\ Low = first - len + 1
    BY <1>3, <1>4, <1>8 DEF Low
  <2> QED
    BY <1>4, <1>6, <2>1
<1>11. Visiting'
  <2>1. /\ len + 1 <= first /\ len + 1 <= depth /\ i = len + 1 /\ i <= depth + 1 /\ 1 <= i
    BY <1>5, <1>6
  <2>2. \A j \in 1..(len + 1) : visited'[j] = first - j + 1
    <3>1. \A j \in 1..len : visited[j] = first - j + 1
      BY <1>4 DEF Inv, Visiting
    <3>2. k = first - (len + 1) + 1
      BY <1>4, <1>6
    <3>3. \A j \in 1..(len + 1) : j # len + 1 => j \in 1..len
      OBVIOUS
    <3> QED
      BY <1>8, <3>1, <3>2, <3>3
  <2>3. walk'.pc \in {"next", "sample"} /\ (walk'.pc = "sample" => ~chain[k].rm)
    BY <1>7
  <2>4. walk.adCid <= n
    BY <1>4 DEF Inv, Visiting
  <2> QED
    BY <1>2, <1>3, <1>4, <1>6, <1>7, <1>8, <1>10, <2>1, <2>2, <2>3, <2>4 DEF Visiting
<1>12. pending = <<>> /\ Len(pending) = 0 /\ result = NoResult
  BY <1>2 DEF Inv, LookingUp
<1>13. AskedMhs' = AskedMhs /\ \A mh \in AskedMhs : mh[1] >= k /\ mh[1] > k
  <2>1. \A mh \in AskedMhs : mh \in Mhs
    BY DEF AskedMhs, Inv, Types, Lookups
  <2>2. \A mh \in AskedMhs : mh[1] \in Nat /\ mh[1] >= k + 1
    BY <1>3, <1>10, <2>1 DEF Inv, LookingUp, Mhs
  <2>3. \A m \in Nat : m >= k + 1 => m >= k /\ m > k
    BY <1>6
  <2> QED
    BY <1>2, <2>2, <2>3 DEF AskedMhs
<1>14. LookingUp'
  BY <1>2, <1>3, <1>7, <1>10, <1>12, <1>13 DEF LookingUp, Distinct
<1>15. Judged'
  BY <1>2, <1>7 DEF Inv, Judged
<1>16. Covered'
  <2> SUFFICES ASSUME opts.sampleAll, faults = 0, NEW m \in k..first, ~chain[m].rm,
                      walk'.pc = "sample" => m # k, NEW j \in Due(chain[m])
               PROVE  <<m, j>> \in AskedMhs \cup Range(pending)
    BY <1>2, <1>3, <1>4, <1>10, <1>13 DEF Covered, Range
  <2>1. m # k
    <3> SUFFICES ASSUME m = k PROVE FALSE
      OBVIOUS
    <3>1. chain[k] \in Kinds
      BY <1>4, <1>6, Known DEF Inv
    <3>2. chain[k].ends = <<>>
      BY <1>7
    <3>3. j \in Due(chain[k])
      OBVIOUS
    <3> QED
      BY <3>1, <3>2, <3>3, NoneDue
  <2>2. m \in (k + 1)..first
    BY <1>4, <1>6, <2>1
  <2> QED
    BY <1>2, <1>3, <1>4, <1>10, <2>2 DEF Inv, Covered
<1> QED
  BY <1>2, <1>9, <1>11, <1>14, <1>15, <1>16, NotCounted DEF Inv

(* A drain that stops where nothing more can be reached has all that is due.  *)
LEMMA DrainedAll ==
  ASSUME NEW ad \in Kinds, NEW c \in {0} \cup Reached(ad)
  PROVE  /\ MhsThrough(ad, c) \in Nat
         /\ c + 1 \notin Reached(ad) => Due(ad) \subseteq 1..MhsThrough(ad, c)
<1> DEFINE cut == DepthCut(Len(ad.ends), EntriesDepth)
<1>1. /\ ad.ends \in Seq(Nat) /\ Len(ad.ends) \in Nat /\ DOMAIN ad.ends = 1..Len(ad.ends)
      /\ \A b, d \in DOMAIN ad.ends : b <= d => ad.ends[b] <= ad.ends[d]
      /\ EntriesDepth \in Nat
  BY BoundsAssumption
<1>2. cut \in Nat /\ cut <= Len(ad.ends)
  BY <1>1 DEF DepthCut
<1>3. \A b \in Reached(ad) : b \in 1..cut /\ b \in DOMAIN ad.ends /\ ad.ends[b] \in Nat
  BY <1>1, <1>2 DEF Reached
<1>4. c \in Nat /\ MhsThrough(ad, c) \in Nat
  BY <1>2, <1>3 DEF MhsThrough
<1>5. ASSUME c + 1 \notin Reached(ad), NEW b \in Reached(ad)
      PROVE  ad.ends[b] <= MhsThrough(ad, c)
  <2>1. b \in 1..cut /\ \A d \in 1..b : ~Empty(ad, d)
    BY <1>5 DEF Reached
  <2>2. b <= c
    <3> SUFFICES ASSUME ~(b <= c) PROVE FALSE
      OBVIOUS
    <3>1. c + 1 \in 1..cut /\ 1..(c + 1) \subseteq 1..b
      BY <1>2, <1>4, <2>1
    <3>2. c + 1 \in Reached(ad)
      BY <2>1, <3>1 DEF Reached
    <3> QED
      BY <1>5, <3>2
  <2>3. c # 0 /\ c \in Reached(ad)
    BY <1>4, <2>1, <2>2
  <2> QED
    BY <1>1, <1>3, <1>5, <2>2, <2>3 DEF MhsThrough
<1>6. ASSUME c + 1 \notin Reached(ad), NEW j \in Due(ad)
      PROVE  j \in 1..MhsThrough(ad, c)
  <2>1. PICK b \in Reached(ad) : j \in 1..ad.ends[b]
    BY <1>6 DEF Due
  <2> QED
    BY <1>3, <1>4, <1>5, <1>6, <2>1
<1> QED
  BY <1>4, <1>6

LEMMA SampleAdInv ==
  ASSUME Inv, SampleAd
  PROVE  Inv'
<1>1. /\ walk.pc = "sample"
      /\ stats' = Recorded(stats, chain[walk.ad])
      /\ walk' = [walk EXCEPT !.pc = IF pending' = <<>> THEN "next" ELSE "lookup"]
      /\ UNCHANGED <<chain, opts, seen, result, agg, asked, visited>>
  BY DEF SampleAd, input
<1>2. PICK k \in Nat : k = walk.ad
  BY Known DEF Inv
<1>3. /\ opts.source = "provider" /\ walk \in Walks /\ First' = First /\ Low' = Low
      /\ k = Low /\ ~chain[k].rm /\ k \in 1..Len(chain)
      /\ chain[k] \in Kinds /\ faults \in Nat /\ MaxFaults \in Nat /\ faults <= MaxFaults
  <2>1. opts.source = "provider" /\ walk \in Walks
    BY <1>1, Known DEF Inv, Visiting, Sources
  <2>2. k = Low /\ ~chain[k].rm /\ k \in 1..Len(chain)
    BY <1>1, <1>2, <2>1, Known DEF Inv, Visiting
  <2>3. First' = First /\ Low' = Low
    BY <1>1 DEF First, Low
  <2>4. chain[k] \in Kinds /\ faults \in Nat /\ MaxFaults \in Nat /\ faults <= MaxFaults
    BY <2>2, Known DEF Inv, Types
  <2> QED
    BY <2>1, <2>2, <2>3, <2>4
<1>4. pending = <<>> /\ Len(pending) = 0 /\ result = NoResult /\ stats \in Statistics
  BY <1>1 DEF Inv, LookingUp, Types
<1>5. stats' \in Statistics
  <2>1. stats.removed = {}
    BY <1>4 DEF Statistics
  <2>2. stats' = [stats EXCEPT !.nonRm = @ + 1]
    BY <1>1, <1>2, <1>3, <2>1 DEF Recorded
  <2> QED
    BY <1>4, <2>2 DEF Statistics
<1>6. NoSample(stats, chain[k]) <=> chain[k].ends = <<>>
  BY <1>3, <1>4 DEF NoSample, Statistics
<1>7. /\ pending' \in Seq(Mhs) /\ Distinct(pending')
      /\ \A i \in 1..Len(pending') : pending'[i][1] = k
      /\ faults' \in faults..MaxFaults
      /\ opts.sampleAll /\ faults' = 0 =>
           \A j \in Due(chain[k]) : <<k, j>> \in Range(pending')
  <2>1. CASE chain[k].ends = <<>>
    <3>1. pending' = <<>> /\ faults' = faults
      BY <1>2, <1>4, <1>6, <2>1 DEF SampleAd
    <3>2. Due(chain[k]) = {}
      BY <1>3, <2>1, NoneDue
    <3> QED
      BY <1>3, <3>1, <3>2 DEF Distinct
  <2>2. CASE chain[k].ends # <<>>
    <3>1. PICK c \in {0} \cup Reached(chain[k]) :
            /\ IF c + 1 \in Reached(chain[k]) THEN Fault ELSE UNCHANGED faults
            /\ pending' \in Samples(MhsOf(k, MhsThrough(chain[k], c)))
      BY <1>2, <1>6, <2>2 DEF SampleAd
    <3>0. PICK n : n = MhsThrough(chain[k], c)
      OBVIOUS
    <3>2. /\ n \in Nat
          /\ c + 1 \notin Reached(chain[k]) => Due(chain[k]) \subseteq 1..n
      BY <1>3, <3>0, <3>1, DrainedAll
    <3>3. /\ pending' \in Seq(Mhs) /\ Distinct(pending')
          /\ \A i \in 1..Len(pending') : pending'[i][1] = k
          /\ opts.sampleAll => \A j \in 1..n : <<k, j>> \in Range(pending')
      BY <3>0, <3>1, <3>2, Sampled
    <3>4. faults' \in faults..MaxFaults /\ (faults' = 0 => c + 1 \notin Reached(chain[k]))
      BY <1>3, <3>1 DEF Fault
    <3> QED
      BY <3>2, <3>3, <3>4
  <2> QED
    BY <2>1, <2>2
<1>8. /\ walk' \in Walks /\ walk'.adCid = walk.adCid /\ walk'.ad = k /\ walk'.i = walk.i
      /\ walk'.pc = (IF pending' = <<>> THEN "next" ELSE "lookup")
      /\ walk'.verdict = walk.verdict
  BY <1>1, <1>2, <1>3 DEF Walks, Places
<1>9. Types'
  <2>1. faults' \in 0..MaxFaults
    BY <1>3, <1>7
  <2> QED
    BY <1>1, <1>5, <1>7, <1>8, <2>1 DEF Inv, Types
<1>10. walk'.pc \in {"next", "lookup"}
  BY <1>8
<1>11. Visiting'
  BY <1>1, <1>2, <1>3, <1>8, <1>10 DEF Inv, Visiting
<1>12. AskedMhs' = AskedMhs /\ \A mh \in AskedMhs : mh[1] >= Low /\ mh # <<>> /\ mh[1] # k
  <2>1. \A mh \in AskedMhs : mh \in Mhs
    BY DEF AskedMhs, Inv, Types, Lookups
  <2>2. \A mh \in AskedMhs : mh[1] \in Nat /\ mh[1] >= Low /\ mh[1] > k
    BY <1>1, <1>3, <2>1 DEF Inv, LookingUp, Mhs
  <2> QED
    BY <1>1, <2>1, <2>2 DEF AskedMhs, Mhs
<1>13. LookingUp'
  <2>1. \A i \in 1..Len(pending') : pending'[i] \notin AskedMhs
    BY <1>7, <1>12
  <2> QED
    BY <1>1, <1>3, <1>4, <1>7, <1>8, <1>10, <1>12, <2>1 DEF LookingUp
<1>14. Judged'
  BY <1>1, <1>8 DEF Inv, Judged
<1>15. Covered'
  <2> SUFFICES ASSUME opts.sampleAll, faults' = 0, NEW m \in Low..First, ~chain[m].rm,
                      NEW j \in Due(chain[m])
               PROVE  <<m, j>> \in AskedMhs \cup Range(pending')
    BY <1>1, <1>3, <1>12 DEF Covered, Range
  <2>1. CASE m = k
    BY <1>7, <2>1
  <2>2. CASE m # k
    <3>1. faults = 0
      BY <1>3, <1>7
    <3>2. <<m, j>> \in AskedMhs \cup Range(pending)
      BY <1>3, <2>2, <3>1 DEF Inv, Covered
    <3>3. Range(pending) = {}
      BY <1>4 DEF Range
    <3> QED
      BY <3>2, <3>3
  <2> QED
    BY <2>1, <2>2
<1> QED
  BY <1>1, <1>9, <1>11, <1>13, <1>14, <1>15, NotCounted DEF Inv

LEMMA StartCarInv ==
  ASSUME Inv, StartCar
  PROVE  Inv'
<1>1. /\ walk.pc = "start" /\ opts.source = "car"
      /\ pending' \in Samples(MhsOf(Undef, CarMhs))
      /\ walk' = [walk EXCEPT !.pc = "lookup"]
      /\ UNCHANGED <<chain, opts, seen, faults, stats, result, agg, asked, visited>>
  BY DEF StartCar, input
<1>2. /\ pending' \in Seq(Mhs) /\ Distinct(pending')
  <2>1. Undef \in Nat /\ CarMhs \in Nat
    BY BoundsAssumption DEF Undef
  <2> QED
    BY <1>1, <2>1, Sampled
<1>3. walk \in Walks /\ First' = First /\ asked = {}
  BY <1>1, Known DEF Inv, First, LookingUp
<1>4. /\ walk' \in Walks /\ walk'.pc = "lookup" /\ walk'.adCid = walk.adCid
      /\ walk'.ad = walk.ad /\ walk'.i = walk.i /\ walk'.verdict = walk.verdict
  BY <1>1, <1>3 DEF Walks, Places
<1>5. Types'
  BY <1>1, <1>2, <1>4 DEF Inv, Types
<1>6. Visiting'
  BY <1>1, <1>3, <1>4 DEF Inv, Visiting
<1>7. LookingUp'
  BY <1>1, <1>2, <1>3, <1>4 DEF LookingUp, AskedMhs
<1>8. Judged'
  BY <1>1, <1>4 DEF Inv, Judged
<1>9. Covered'
  BY <1>1 DEF Covered
<1> QED
  BY <1>1, <1>5, <1>6, <1>7, <1>8, <1>9, NotCounted DEF Inv

-----------------------------------------------------------------------------
(* A batch has been looked up, whatever came of it.                           *)
LEMMA BatchInv ==
  ASSUME Inv, walk.pc = "lookup", pending # <<>>, NEW ans \in [Range(Batch) -> Answers \cup {"failed"}],
         asked' = asked \cup {[mh |-> mh, answer |-> ans[mh]] : mh \in Range(Batch)},
         pending' = Rest, faults' \in faults..MaxFaults, result' \in Results,
         UNCHANGED <<chain, opts, seen, walk, stats, agg, visited>>
  PROVE  /\ Types' /\ Visiting' /\ LookingUp' /\ Judged' /\ Covered'
         /\ IsFiniteSet(Range(Batch)) /\ Cardinality(Range(Batch)) = Len(Batch)
         /\ Range(Batch) \subseteq Mhs /\ Len(Batch) \in Nat \ {0}
         /\ Cardinality(asked') = Cardinality(asked) + Len(Batch)
         /\ \A A : Count(A)' = Count(A) + Cardinality({mh \in Range(Batch) : ans[mh] \in A})
         /\ \A A : {q.mh : q \in {r \in asked' : r.answer \in A}}
                     = {q.mh : q \in {r \in asked : r.answer \in A}}
                       \cup {mh \in Range(Batch) : ans[mh] \in A}
<1> DEFINE R == Range(Batch)
           N == {[mh |-> mh, answer |-> ans[mh]] : mh \in R}
<1>1. pending \in Seq(Mhs) /\ Distinct(pending)
  BY DEF Inv, Types, LookingUp
<1>2. /\ Range(Batch) \subseteq Range(pending) /\ Range(Batch) \subseteq Mhs
      /\ Len(Batch) \in Nat \ {0}
      /\ IsFiniteSet(Range(Batch)) /\ Cardinality(Range(Batch)) = Len(Batch)
      /\ Rest \in Seq(Mhs) /\ Distinct(Rest)
      /\ Range(Batch) \cup Range(Rest) = Range(pending)
      /\ \A i \in 1..Len(Rest) : Rest[i] \in Range(pending) /\ Rest[i] \notin Range(Batch)
  BY <1>1, Split, Zenon
<1>3. \A mh \in Range(pending) : mh \notin AskedMhs /\ (opts.source = "provider" => mh[1] = Low)
  <2>1. Range(pending) = {pending[i] : i \in 1..Len(pending)}
    BY <1>1 DEF Range
  <2> QED
    BY <2>1 DEF Inv, LookingUp
<1>4. asked \subseteq Lookups /\ IsFiniteSet(asked) /\ \A q \in asked : q.mh \notin R
  BY <1>2, <1>3 DEF Inv, Types, AskedMhs
<1>5. /\ IsFiniteSet(asked') /\ Cardinality(asked') = Cardinality(asked) + Len(Batch)
      /\ \A A : Count(A)' = Count(A) + Cardinality({mh \in R : ans[mh] \in A})
  <2>1. \A A : /\ IsFiniteSet(asked \cup N)
               /\ Cardinality(asked \cup N) = Cardinality(asked) + Cardinality(R)
               /\ Cardinality({q \in asked \cup N : q.answer \in A})
                    = Cardinality({q \in asked : q.answer \in A})
                      + Cardinality({mh \in R : ans[mh] \in A})
    <3> SUFFICES ASSUME NEW A
                 PROVE  /\ IsFiniteSet(asked \cup N)
                        /\ Cardinality(asked \cup N) = Cardinality(asked) + Cardinality(R)
                        /\ Cardinality({q \in asked \cup N : q.answer \in A})
                             = Cardinality({q \in asked : q.answer \in A})
                               + Cardinality({mh \in R : ans[mh] \in A})
      OBVIOUS
    <3> DEFINE S == asked
               T == {mh \in R : ans[mh] \in A}
               NA == {[mh |-> mh, answer |-> ans[mh]] : mh \in T}
               SA == {q \in S : q.answer \in A}
    <3>0. IsFiniteSet(S) /\ IsFiniteSet(R) /\ \A q \in S : q.mh \notin R
      BY <1>2, <1>4
    <3>1. IsFiniteSet(T) /\ IsFiniteSet(SA)
      BY <3>0, FS_Subset
    <3>2. /\ IsFiniteSet(N) /\ Cardinality(N) = Cardinality(R)
          /\ IsFiniteSet(NA) /\ Cardinality(NA) = Cardinality(T)
      <4>1. IsFiniteSet(N) /\ Cardinality(N) = Cardinality(R)
        BY <3>0, LookupsOf
      <4>2. IsFiniteSet(NA) /\ Cardinality(NA) = Cardinality(T)
        BY <3>1, LookupsOf
      <4> QED
        BY <4>1, <4>2
    <3>3. \A n \in N : n.mh \in R
      OBVIOUS
    <3>4. S \cap N = {}
      BY <3>0, <3>3
    <3>5. {q \in S \cup N : q.answer \in A} = SA \cup NA
      <4>1. {q \in N : q.answer \in A} = NA
        OBVIOUS
      <4> QED
        BY <4>1
    <3>6. NA \subseteq N
      OBVIOUS
    <3>7. SA \cap NA = {}
      BY <3>4, <3>6
    <3>8. Cardinality({}) = 0
      BY FS_EmptySet
    <3>9. Cardinality(SA \cup NA) = Cardinality(SA) + Cardinality(NA)
      <4>1. Cardinality(SA \cup NA) = Cardinality(SA) + Cardinality(NA) - Cardinality(SA \cap NA)
        BY <3>1, <3>2, FS_Union
      <4>2. Cardinality(SA \cap NA) = 0
        BY <3>7, <3>8, Zenon
      <4>3. Cardinality(SA) \in Nat /\ Cardinality(NA) \in Nat
        BY <3>1, <3>2, FS_CardinalityType
      <4>4. \A a, b \in Nat : a + b - 0 = a + b
        OBVIOUS
      <4> QED
        BY <4>1, <4>2, <4>3, <4>4, Zenon
    <3>10. IsFiniteSet(S \cup N) /\ Cardinality(S \cup N) = Cardinality(S) + Cardinality(N)
      <4>1. IsFiniteSet(S \cup N)
            /\ Cardinality(S \cup N) = Cardinality(S) + Cardinality(N) - Cardinality(S \cap N)
        BY <3>0, <3>2, FS_Union
      <4>2. Cardinality(S \cap N) = 0
        BY <3>4, <3>8, Zenon
      <4>3. Cardinality(S) \in Nat /\ Cardinality(N) \in Nat
        BY <3>0, <3>2, FS_CardinalityType
      <4>4. \A a, b \in Nat : a + b - 0 = a + b
        OBVIOUS
      <4> QED
        BY <4>1, <4>2, <4>3, <4>4, Zenon
    <3> QED
      BY <3>2, <3>5, <3>9, <3>10
  <2>2. asked' = asked \cup N
    OBVIOUS
  <2> QED
    BY <1>2, <2>1, <2>2 DEF Count
<1>6. asked' \subseteq Lookups /\ AskedMhs' = AskedMhs \cup R
  <2>1. N \subseteq Lookups
    BY <1>2 DEF Lookups
  <2>2. {q.mh : q \in N} = R
    BY MhsOfLookups
  <2>3. asked' = asked \cup N
    OBVIOUS
  <2> HIDE DEF N
  <2> QED
    BY <1>4, <2>1, <2>2, <2>3 DEF AskedMhs
<1>7. \A A : {q.mh : q \in {r \in asked' : r.answer \in A}}
               = {q.mh : q \in {r \in asked : r.answer \in A}} \cup {mh \in R : ans[mh] \in A}
  <2> SUFFICES ASSUME NEW A
               PROVE  {q.mh : q \in {r \in asked' : r.answer \in A}}
                        = {q.mh : q \in {r \in asked : r.answer \in A}} \cup {mh \in R : ans[mh] \in A}
    OBVIOUS
  <2>1. {q.mh : q \in {r \in N : r.answer \in A}} = {mh \in R : ans[mh] \in A}
    BY MhsOfLookups
  <2>2. asked' = asked \cup N
    OBVIOUS
  <2> HIDE DEF N
  <2> QED
    BY <2>1, <2>2
<1>8. First' = First /\ StartAt' = StartAt /\ Low' = Low /\ Verdict' = Verdict
  BY DEF First, StartAt, Low, Verdict
<1>9. faults' \in 0..MaxFaults /\ (faults' = 0 => faults = 0)
  BY Known DEF Inv
<1>10. Types'
  BY <1>2, <1>5, <1>6, <1>9 DEF Inv, Types
<1>11. Visiting' /\ Judged'
  BY <1>8 DEF Inv, Visiting, Judged
<1>12. Low \in Int /\ \A mh \in AskedMhs \cup R : opts.source = "provider" => mh[1] >= Low
  BY <1>2, <1>3, Known DEF Inv, LookingUp
<1>13. LookingUp'
  <2>1. \A i \in 1..Len(Rest) : Rest[i] \notin AskedMhs \cup R
    BY <1>2, <1>3
  <2>2. opts.source = "provider" => \A i \in 1..Len(Rest) : Rest[i][1] = Low
    BY <1>2, <1>3
  <2> QED
    BY <1>2, <1>6, <1>8, <1>12, <2>1, <2>2 DEF LookingUp
<1>14. Covered'
  BY <1>2, <1>6, <1>8, <1>9 DEF Inv, Covered
<1> QED
  BY <1>2, <1>5, <1>7, <1>10, <1>11, <1>13, <1>14

(* Results add up.                                                            *)
LEMMA Added ==
  ASSUME NEW r \in Results, NEW s \in Results
  PROVE  /\ Add(r, s) \in Results
         /\ Add(r, s).total = r.total + s.total
         /\ Add(r, s).present = r.present + s.present
         /\ Add(r, s).mismatch = r.mismatch + s.mismatch
         /\ Add(r, s).absent = r.absent + s.absent
         /\ Add(r, s).failed = r.failed + s.failed
         /\ Add(r, s).absentMhs = r.absentMhs \cup s.absentMhs
  BY DEF Add, Results

(* The result of a batch that the indexer answers.                            *)
LEMMA VerifiedBatch ==
  ASSUME NEW mhs, NEW answer \in [Range(mhs) -> Answers], Range(mhs) \subseteq Mhs,
         IsFiniteSet(Range(mhs)), Cardinality(Range(mhs)) = Len(mhs)
  PROVE  LET With(A) == {mh \in Range(mhs) : answer[mh] \in A}
             V == Verified(mhs, answer)
         IN  /\ V \in Results /\ V.total = Len(mhs) /\ V.failed = 0
             /\ V.present = Cardinality(With({"present"}))
             /\ V.mismatch = Cardinality(With({"mismatch"}))
             /\ V.absent = Cardinality(With({"no providers", "no result"}))
             /\ With({"no providers"}) \subseteq V.absentMhs
             /\ V.absentMhs \subseteq With({"no providers", "no result"})
<1> DEFINE With(A) == {mh \in Range(mhs) : answer[mh] \in A}
           V == Verified(mhs, answer)
<1>1. \A A : With(A) \subseteq Range(mhs) /\ Cardinality(With(A)) \in Nat
  <2> SUFFICES ASSUME NEW A PROVE Cardinality(With(A)) \in Nat
    OBVIOUS
  <2>1. IsFiniteSet(With(A))
    BY FS_Subset
  <2> QED
    BY <2>1, FS_CardinalityType
<1>2. Len(mhs) \in Nat
  BY FS_CardinalityType
<1>3. CASE With({"no result"}) = Range(mhs)
  <2>1. PICK n \in Nat : n = Len(mhs)
    BY <1>2
  <2>2. /\ V \in Results /\ V.total = n /\ V.absent = n
        /\ V.present = 0 /\ V.mismatch = 0 /\ V.failed = 0 /\ V.absentMhs = {}
    <3>1. V = [NoResult EXCEPT !.total = n, !.absent = n]
      BY <1>3, <2>1 DEF Verified
    <3> HIDE DEF V
    <3> QED
      BY <3>1 DEF NoResult, Results
  <2>3. \A mh \in Range(mhs) : answer[mh] = "no result"
    BY <1>3
  <2>4. /\ With({"present"}) = {} /\ With({"mismatch"}) = {} /\ With({"no providers"}) = {}
        /\ With({"no providers", "no result"}) = Range(mhs)
    BY <2>3
  <2>5. Cardinality({}) = 0
    BY FS_EmptySet
  <2> HIDE DEF V, With
  <2> QED
    BY <2>1, <2>2, <2>4, <2>5 DEF V, With
<1>4. CASE With({"no result"}) # Range(mhs)
  <2>1. V = [NoResult EXCEPT !.total = Len(mhs),
               !.absent = Cardinality(With({"no providers", "no result"})),
               !.present = Cardinality(With({"present"})),
               !.mismatch = Cardinality(With({"mismatch"})),
               !.absentMhs = With({"no providers", "no result"})]
    BY <1>4 DEF Verified
  <2>2. PICK a \in Nat, b \in Nat, c \in Nat, n \in Nat, S \in SUBSET Mhs :
          /\ a = Cardinality(With({"no providers", "no result"})) /\ n = Len(mhs)
          /\ b = Cardinality(With({"present"})) /\ c = Cardinality(With({"mismatch"}))
          /\ S = With({"no providers", "no result"})
    BY <1>1, <1>2
  <2>3. /\ V \in Results /\ V.total = n /\ V.absent = a /\ V.present = b
        /\ V.mismatch = c /\ V.failed = 0 /\ V.absentMhs = S
    <3>1. V = [NoResult EXCEPT !.total = n, !.absent = a, !.present = b, !.mismatch = c,
                 !.absentMhs = S]
      BY <2>1, <2>2, Zenon
    <3> HIDE DEF V
    <3> QED
      BY <3>1 DEF NoResult, Results
  <2>4. With({"no providers"}) \subseteq With({"no providers", "no result"})
    OBVIOUS
  <2> HIDE DEF V, With
  <2> QED
    BY <2>2, <2>3, <2>4 DEF V, With
<1> QED
  BY <1>3, <1>4

LEMMA AddZero == \A a, b \in Nat : (a + b) + 0 = a + b
  OBVIOUS

LEMMA AddMore ==
  ASSUME NEW a \in Nat, NEW b \in Nat, NEW c \in Nat
  PROVE  a + (b + c) = (a + b) + c
  OBVIOUS

(* A batch is counted: V says how many of it have each answer.                *)
LEMMA Counted ==
  ASSUME Inv, walk.pc = "lookup", pending # <<>>,
         NEW ans \in [Range(Batch) -> Answers \cup {"failed"}],
         asked' = asked \cup {[mh |-> mh, answer |-> ans[mh]] : mh \in Range(Batch)},
         pending' = Rest, faults' \in faults..MaxFaults,
         NEW V \in Results, result' = Add(result, V),
         UNCHANGED <<chain, opts, seen, walk, stats, agg, visited>>,
         V.total = Len(Batch),
         V.present = Cardinality({mh \in Range(Batch) : ans[mh] \in {"present"}}),
         V.mismatch = Cardinality({mh \in Range(Batch) : ans[mh] \in {"mismatch"}}),
         V.absent = Cardinality({mh \in Range(Batch) : ans[mh] \in {"no providers", "no result"}}),
         V.failed = Cardinality({mh \in Range(Batch) : ans[mh] \in {"failed"}}),
         {mh \in Range(Batch) : ans[mh] \in {"no providers"}} \subseteq V.absentMhs,
         V.absentMhs \subseteq {mh \in Range(Batch) : ans[mh] \in {"no providers", "no result"}}
  PROVE  Inv'
<1>1. result \in Results /\ agg \in Results
  BY DEF Inv, Types
<1>2. /\ result' \in Results
      /\ result'.total = result.total + V.total /\ result'.present = result.present + V.present
      /\ result'.mismatch = result.mismatch + V.mismatch
      /\ result'.absent = result.absent + V.absent /\ result'.failed = result.failed + V.failed
      /\ result'.absentMhs = result.absentMhs \cup V.absentMhs
  BY <1>1, Added
<1>3. /\ Types' /\ Visiting' /\ LookingUp' /\ Judged' /\ Covered'
      /\ Cardinality(asked') = Cardinality(asked) + Len(Batch)
      /\ \A A : Count(A)' = Count(A) + Cardinality({mh \in Range(Batch) : ans[mh] \in A})
      /\ \A A : {q.mh : q \in {r \in asked' : r.answer \in A}}
                  = {q.mh : q \in {r \in asked : r.answer \in A}}
                    \cup {mh \in Range(Batch) : ans[mh] \in A}
  BY <1>2, BatchInv
<1>4. CountsMatchAnswers'
  <2>2. /\ \A f \in {"total", "present", "mismatch", "absent", "failed"} :
             agg[f] \in Nat /\ result[f] \in Nat /\ V[f] \in Nat /\ result'[f] = result[f] + V[f]
    BY <1>1, <1>2 DEF Results
  <2>3. \A f \in {"total", "present", "mismatch", "absent", "failed"} : All(f)' = All(f) + V[f]
    <3> SUFFICES ASSUME NEW f \in {"total", "present", "mismatch", "absent", "failed"}
                 PROVE  All(f)' = All(f) + V[f]
      OBVIOUS
    <3>1. All(f)' = agg[f] + (result[f] + V[f])
      BY <2>2, Zenon DEF All
    <3>2. agg[f] + (result[f] + V[f]) = (agg[f] + result[f]) + V[f]
      <4>1. PICK a \in Nat, r \in Nat, v \in Nat : a = agg[f] /\ r = result[f] /\ v = V[f]
        BY <2>2, Zenon
      <4>2. a + (r + v) = (a + r) + v
        BY <4>1, AddMore
      <4> QED
        BY <4>1, <4>2, Zenon
    <3> QED
      BY <3>1, <3>2, Zenon DEF All
  <2>4. /\ All("total") = Cardinality(asked) /\ All("present") = Count({"present"})
        /\ All("mismatch") = Count({"mismatch"})
        /\ All("absent") = Count({"no providers", "no result"})
        /\ All("failed") = Count({"failed"})
    BY DEF Inv, CountsMatchAnswers
  <2>5. All("total")' = Cardinality(asked)'
    BY <1>3, <2>3, <2>4
  <2>6. All("present")' = Count({"present"})'
    BY <1>3, <2>3, <2>4
  <2>7. All("mismatch")' = Count({"mismatch"})'
    BY <1>3, <2>3, <2>4
  <2>8. All("absent")' = Count({"no providers", "no result"})'
    BY <1>3, <2>3, <2>4
  <2>9. All("failed")' = Count({"failed"})'
    BY <1>3, <2>3, <2>4
  <2> QED
    BY <2>5, <2>6, <2>7, <2>8, <2>9 DEF CountsMatchAnswers
<1>5. PrintedAreAbsent'
  <2> DEFINE With(A) == {q.mh : q \in {r \in asked : r.answer \in A}}
             New(A) == {mh \in Range(Batch) : ans[mh] \in A}
             printed == agg.absentMhs \cup result.absentMhs
  <2>1. With({"no providers"}) \subseteq printed
        /\ printed \subseteq With({"no providers", "no result"})
    BY DEF Inv, PrintedAreAbsent
  <2>2. printed' = printed \cup V.absentMhs
    BY <1>2
  <2>3. \A A : With(A)' = With(A) \cup New(A)
    BY <1>3
  <2>4. New({"no providers"}) \subseteq V.absentMhs
        /\ V.absentMhs \subseteq New({"no providers", "no result"})
    OBVIOUS
  <2>5. With({"no providers"})' = With({"no providers"}) \cup New({"no providers"})
    BY <1>3
  <2>6. With({"no providers", "no result"})'
          = With({"no providers", "no result"}) \cup New({"no providers", "no result"})
    BY <1>3
  <2>7. With({"no providers"})' \subseteq printed'
        /\ printed' \subseteq With({"no providers", "no result"})'
    <3> HIDE DEF With, New, printed
    <3> QED
      BY <2>1, <2>2, <2>4, <2>5, <2>6
  <2> QED
    BY <2>7 DEF PrintedAreAbsent
<1> QED
  BY <1>3, <1>4, <1>5 DEF Inv

LEMMA LookupInv ==
  ASSUME Inv, Lookup
  PROVE  Inv'
<1>1. PICK answer \in [Range(Batch) -> Answers] :
        /\ walk.pc = "lookup" /\ pending # <<>>
        /\ result' = Add(result, Verified(Batch, answer))
        /\ asked' = asked \cup {[mh |-> mh, answer |-> answer[mh]] : mh \in Range(Batch)}
        /\ pending' = Rest
        /\ UNCHANGED <<chain, opts, seen, faults, walk, stats, agg, visited>>
  BY DEF Lookup, input
<1>2. answer \in [Range(Batch) -> Answers \cup {"failed"}]
  OBVIOUS
<1>3. /\ Range(Batch) \subseteq Mhs
      /\ IsFiniteSet(Range(Batch)) /\ Cardinality(Range(Batch)) = Len(Batch)
  BY <1>1, Split DEF Inv, Types, LookingUp
<1>4. PICK V : V = Verified(Batch, answer)
  OBVIOUS
<1>5. /\ V \in Results /\ V.total = Len(Batch) /\ V.failed = 0
      /\ V.present = Cardinality({mh \in Range(Batch) : answer[mh] \in {"present"}})
      /\ V.mismatch = Cardinality({mh \in Range(Batch) : answer[mh] \in {"mismatch"}})
      /\ V.absent = Cardinality({mh \in Range(Batch) : answer[mh] \in {"no providers", "no result"}})
      /\ {mh \in Range(Batch) : answer[mh] \in {"no providers"}} \subseteq V.absentMhs
      /\ V.absentMhs \subseteq {mh \in Range(Batch) : answer[mh] \in {"no providers", "no result"}}
  BY <1>3, <1>4, VerifiedBatch
<1>6. {mh \in Range(Batch) : answer[mh] \in {"failed"}} = {}
  BY DEF Answers
<1>7. V.failed = Cardinality({mh \in Range(Batch) : answer[mh] \in {"failed"}})
  BY <1>5, <1>6, FS_EmptySet
<1>8. faults' \in faults..MaxFaults
  BY <1>1, Known DEF Inv, Types
<1> QED
  BY <1>1, <1>2, <1>4, <1>5, <1>7, <1>8, Counted

LEMMA LookupFailsInv ==
  ASSUME Inv, LookupFails
  PROVE  Inv'
<1>1. /\ walk.pc = "lookup" /\ pending # <<>>
      /\ faults < MaxFaults /\ faults' = faults + 1
      /\ result' = Add(result, Unverified(Batch))
      /\ asked' = asked \cup {[mh |-> mh, answer |-> "failed"] : mh \in Range(Batch)}
      /\ pending' = Rest
      /\ UNCHANGED <<chain, opts, seen, walk, stats, agg, visited>>
  BY DEF LookupFails, Fault, input
<1>2. PICK ans \in [Range(Batch) -> Answers \cup {"failed"}] : \A mh \in Range(Batch) : ans[mh] = "failed"
  <2> DEFINE all == [mh \in Range(Batch) |-> "failed"]
  <2>1. all \in [Range(Batch) -> Answers \cup {"failed"}] /\ \A mh \in Range(Batch) : all[mh] = "failed"
    OBVIOUS
  <2> QED
    BY <2>1
<1>3. {[mh |-> mh, answer |-> "failed"] : mh \in Range(Batch)}
        = {[mh |-> mh, answer |-> ans[mh]] : mh \in Range(Batch)}
  BY <1>2
<1>4. Len(Batch) \in Nat /\ Cardinality(Range(Batch)) = Len(Batch)
  BY <1>1, Split DEF Inv, Types, LookingUp
<1>5. PICK V : V = Unverified(Batch)
  OBVIOUS
<1>6. /\ V \in Results /\ V.total = Len(Batch) /\ V.failed = Len(Batch)
      /\ V.present = 0 /\ V.mismatch = 0 /\ V.absent = 0 /\ V.absentMhs = {}
  <2>1. PICK n \in Nat : n = Len(Batch)
    BY <1>4
  <2>2. V = [NoResult EXCEPT !.total = n, !.failed = n]
    BY <1>5, <2>1 DEF Unverified
  <2>3. V \in Results /\ V.total = n /\ V.failed = n
        /\ V.present = 0 /\ V.mismatch = 0 /\ V.absent = 0 /\ V.absentMhs = {}
    BY <2>2 DEF NoResult, Results
  <2> QED
    BY <2>1, <2>3
<1>7. /\ {mh \in Range(Batch) : ans[mh] \in {"failed"}} = Range(Batch)
      /\ {mh \in Range(Batch) : ans[mh] \in {"present"}} = {}
      /\ {mh \in Range(Batch) : ans[mh] \in {"mismatch"}} = {}
      /\ {mh \in Range(Batch) : ans[mh] \in {"no providers"}} = {}
      /\ {mh \in Range(Batch) : ans[mh] \in {"no providers", "no result"}} = {}
  BY <1>2
<1>8. Cardinality({}) = 0
  BY FS_EmptySet
<1>9. faults' \in faults..MaxFaults
  BY <1>1, Known DEF Inv, Types
<1>10. /\ V.present = Cardinality({mh \in Range(Batch) : ans[mh] \in {"present"}})
       /\ V.mismatch = Cardinality({mh \in Range(Batch) : ans[mh] \in {"mismatch"}})
       /\ V.absent = Cardinality({mh \in Range(Batch) : ans[mh] \in {"no providers", "no result"}})
       /\ V.failed = Cardinality({mh \in Range(Batch) : ans[mh] \in {"failed"}})
       /\ {mh \in Range(Batch) : ans[mh] \in {"no providers"}} \subseteq V.absentMhs
       /\ V.absentMhs \subseteq {mh \in Range(Batch) : ans[mh] \in {"no providers", "no result"}}
  BY <1>4, <1>6, <1>7, <1>8
<1>11. asked' = asked \cup {[mh |-> mh, answer |-> ans[mh]] : mh \in Range(Batch)}
  BY <1>1, <1>3
<1> QED
  BY <1>1, <1>5, <1>6, <1>9, <1>10, <1>11, Counted

LEMMA AddResultInv ==
  ASSUME Inv, AddResult
  PROVE  Inv'
<1>1. /\ walk.pc = "lookup" /\ pending = <<>>
      /\ agg' = Add(agg, result) /\ result' = NoResult
      /\ walk' = [walk EXCEPT !.pc = IF opts.source = "car" THEN "print" ELSE "next"]
      /\ UNCHANGED <<chain, opts, seen, faults, stats, pending, asked, visited>>
  BY DEF AddResult, input
<1>2. PICK to \in {"print", "next"} : to = IF opts.source = "car" THEN "print" ELSE "next"
  OBVIOUS
<1>3. walk \in Walks /\ agg \in Results /\ result \in Results /\ opts.source \in Sources
  BY Known DEF Inv, Types
<1>4. /\ walk' \in Walks /\ walk'.pc = to /\ walk'.adCid = walk.adCid
      /\ walk'.ad = walk.ad /\ walk'.i = walk.i /\ walk'.verdict = walk.verdict
  BY <1>1, <1>2, <1>3 DEF Walks, Places
<1>5. /\ agg' \in Results
      /\ agg'.total = agg.total + result.total /\ agg'.present = agg.present + result.present
      /\ agg'.mismatch = agg.mismatch + result.mismatch
      /\ agg'.absent = agg.absent + result.absent /\ agg'.failed = agg.failed + result.failed
      /\ agg'.absentMhs = agg.absentMhs \cup result.absentMhs
  BY <1>1, <1>3, Added
<1>6. /\ result' \in Results /\ result'.absentMhs = {} /\ result'.total = 0
      /\ result'.present = 0 /\ result'.mismatch = 0 /\ result'.absent = 0 /\ result'.failed = 0
  BY <1>1 DEF NoResult, Results
<1>7. First' = First /\ StartAt' = StartAt /\ Low' = Low
  BY <1>1 DEF First, StartAt, Low
<1>8. Types'
  BY <1>1, <1>4, <1>5, <1>6 DEF Inv, Types
<1>9. Visiting'
  BY <1>1, <1>2, <1>3, <1>4, <1>7 DEF Inv, Visiting, Sources
<1>10. LookingUp'
  BY <1>1, <1>2, <1>4, <1>7 DEF Inv, LookingUp, AskedMhs, Distinct
<1>11. Judged'
  BY <1>1, <1>2, <1>4 DEF Inv, Judged
<1>12. Covered'
  <2>1. AskedMhs' = AskedMhs /\ Range(pending)' = Range(pending)
    BY <1>1 DEF AskedMhs
  <2> QED
    BY <1>1, <1>2, <1>4, <1>7, <2>1 DEF Inv, Covered
<1>13. CountsMatchAnswers'
  <2>1. \A f \in {"total", "present", "mismatch", "absent", "failed"} : All(f)' = All(f)
    <3>1. \A f \in {"total", "present", "mismatch", "absent", "failed"} :
            agg[f] \in Nat /\ result[f] \in Nat /\ result'[f] = 0 /\ agg'[f] = agg[f] + result[f]
      BY <1>3, <1>5, <1>6 DEF Results
    <3> SUFFICES ASSUME NEW f \in {"total", "present", "mismatch", "absent", "failed"}
                 PROVE  All(f)' = All(f)
      OBVIOUS
    <3>2. All(f)' = agg'[f] + result'[f]
      BY DEF All
    <3>3. agg'[f] + result'[f] = (agg[f] + result[f]) + 0
      BY <3>1, Zenon
    <3>4. (agg[f] + result[f]) + 0 = agg[f] + result[f]
      <4>1. PICK a \in Nat, r \in Nat : a = agg[f] /\ r = result[f]
        BY <3>1, Zenon
      <4>2. (a + r) + 0 = a + r
        BY AddZero
      <4> QED
        BY <4>1, <4>2, Zenon
    <3> QED
      BY <3>2, <3>3, <3>4, Zenon DEF All
  <2>2. \A A : Count(A)' = Count(A)
    BY <1>1 DEF Count
  <2> QED
    BY <1>1, <2>1, <2>2 DEF Inv, CountsMatchAnswers
<1>14. PrintedAreAbsent'
  BY <1>1, <1>5, <1>6 DEF Inv, PrintedAreAbsent
<1> QED
  BY <1>8, <1>9, <1>10, <1>11, <1>12, <1>13, <1>14 DEF Inv

-----------------------------------------------------------------------------
LEMMA InvNext ==
  ASSUME Inv, [Next]_vars
  PROVE  Inv'
<1>1. CASE UNCHANGED vars
  <2>1. UNCHANGED <<chain, opts, seen, faults, walk, stats, pending, result, agg, asked, visited>>
    BY <1>1 DEF vars
  <2>2. First' = First /\ StartAt' = StartAt /\ Low' = Low
    BY <2>1 DEF First, StartAt, Low
  <2>3. Types' /\ Visiting' /\ Judged'
    BY <2>1, <2>2 DEF Inv, Types, Visiting, Judged, Verdict
  <2>5. AskedMhs' = AskedMhs /\ Range(pending)' = Range(pending)
    BY <2>1 DEF AskedMhs
  <2>6. LookingUp'
    BY <2>1, <2>2, <2>5 DEF Inv, LookingUp, Distinct
  <2>4. Covered'
    BY <2>1, <2>2, <2>5 DEF Inv, Covered
  <2> QED
    BY <2>1, <2>3, <2>4, <2>6, NotCounted DEF Inv
<1>2. CASE Step
  <2>1. CASE StartProvider \/ StartCar \/ Aborts
    BY <2>1, StartProviderInv, StartCarInv, AbortsInv
  <2>2. CASE GetAd \/ SampleAd \/ NextAd \/ LoopDone
    BY <2>2, GetAdInv, SampleAdInv, NextAdInv, LoopDoneInv
  <2>3. CASE Lookup \/ LookupFails \/ AddResult
    BY <2>3, LookupInv, LookupFailsInv, AddResultInv
  <2>4. CASE PrintResult
    BY <2>4, PrintResultInv
  <2> QED
    BY <1>2, <2>1, <2>2, <2>3, <2>4 DEF Step
<1> QED
  BY <1>1, <1>2 DEF Next

(* The invariant holds of every run.                                          *)
LEMMA InvHolds == Spec => []Inv
<1>1. Init => Inv
  BY InvInit
<1>2. Inv /\ [Next]_vars => Inv'
  BY InvNext
<1> QED
  BY <1>1, <1>2, PTL DEF Spec

(* The types of the state hold of every run of verify ingest.                 *)
THEOREM VerifyTypeCorrect == Spec => []TypeOK
<1>1. Inv => TypeOK
  <2> SUFFICES ASSUME Inv PROVE TypeOK
    OBVIOUS
  <2>1. PICK i \in Nat, adCid \in Nat, ad \in Nat, depth \in Nat, len \in Nat, n \in Nat, first \in Nat :
          /\ i = walk.i /\ adCid = walk.adCid /\ ad = walk.ad /\ depth = opts.depth
          /\ len = Len(visited) /\ n = Len(chain) /\ first = First
    BY Known DEF Inv, Types, Walks
  <2>2. 1 <= i /\ i <= depth + 1 /\ adCid <= n /\ ad <= n /\ len <= first /\ first <= n
    BY <2>1, Known DEF Inv, Visiting
  <2>3. i \in 1..(depth + 1) /\ adCid \in 0..n /\ ad \in 0..n /\ len <= n
    BY <2>2
  <2>4. walk.pc \in Places /\ walk.verdict \in {"none", "inconclusive", "passed", "failed"}
    BY DEF Inv, Types, Walks
  <2>5. \A q \in asked : q.answer \in Answers \cup {"failed"}
    BY DEF Inv, Types, Lookups
  <2>6. faults \in 0..MaxFaults
    BY DEF Inv, Types
  <2> QED
    BY <2>1, <2>3, <2>4, <2>5, <2>6 DEF TypeOK, Places
<1> QED
  BY <1>1, InvHolds, PTL

(* The ads verified are consecutive, from the one that was asked for (if not  *)
(* both options give one), and as many as a positive --ad-depth-limit and the *)
(* chain allow.                                                               *)
THEOREM VisitsAreRight == Spec => []VisitsInOrder
<1>1. Inv => VisitsInOrder
  <2> SUFFICES ASSUME Inv PROVE VisitsInOrder
    OBVIOUS
  <2>1. PICK len \in Nat, first \in Nat, depth \in Nat :
          len = Len(visited) /\ first = First /\ depth = opts.depth
    BY Known DEF Inv
  <2>2. visited \in Seq(Nat) /\ DOMAIN visited = 1..len
    BY <2>1 DEF Inv, Types
  <2>3. \A j \in 1..len : visited[j] = first - j + 1
    BY <2>1 DEF Inv, Visiting
  <2>4. \A i \in 1..len : i > 1 => visited[i] = visited[i - 1] - 1
    <3> SUFFICES ASSUME NEW i \in 1..len, i > 1 PROVE visited[i] = visited[i - 1] - 1
      OBVIOUS
    <3>1. i - 1 \in 1..len
      OBVIOUS
    <3>2. visited[i] = first - i + 1 /\ visited[i - 1] = first - (i - 1) + 1
      BY <2>3, <3>1
    <3>3. first - i + 1 = first - (i - 1) + 1 - 1
      OBVIOUS
    <3> QED
      BY <3>2, <3>3
  <2>5. visited # <<>> => len >= 1 /\ visited[1] = first
    BY <2>1, <2>2, <2>3
  <2>6. len <= depth
    BY <2>1 DEF Inv, Visiting
  <2>7. walk.pc = "done" /\ opts.source = "provider" /\ opts.depth > 0 =>
          len = DepthCut(first, depth) /\ visited[1] = first
    <3> SUFFICES ASSUME walk.pc = "done", opts.source = "provider", opts.depth > 0
                 PROVE  len = DepthCut(first, depth) /\ visited[1] = first
      OBVIOUS
    <3>0. opts.depth > 0
      OBVIOUS
    <3>1. len = DepthCut(first, depth)
      BY <2>1 DEF Inv, Visiting
    <3>2. first >= 1 /\ depth > 0
      <4>1. First \in 1..Len(chain) /\ Len(chain) \in Nat
        BY Known DEF Inv
      <4> QED
        BY <2>1, <3>0, <4>1
    <3>3. len >= 1
      BY <3>1, <3>2 DEF DepthCut
    <3>4. visited[1] = first
      BY <2>3, <3>3
    <3> QED
      BY <3>1, <3>4
  <2> QED
    BY <2>1, <2>2, <2>4, <2>5, <2>6, <2>7 DEF VisitsInOrder, First
<1> QED
  BY <1>1, InvHolds, PTL

(* Every multihash looked up is counted once, as what the indexer said of it. *)
THEOREM CountsAreRight == Spec => []CountsMatchAnswers
<1>1. Inv => CountsMatchAnswers
  BY DEF Inv
<1> QED
  BY <1>1, InvHolds, PTL

(* What --print-unindexed-mhs prints was answered as not indexed.              *)
THEOREM PrintedIsRight == Spec => []PrintedAreAbsent
<1>1. Inv => PrintedAreAbsent
  BY DEF Inv
<1> QED
  BY <1>1, InvHolds, PTL

(* What the verdict rests on.                                                 *)
LEMMA AtTheEnd ==
  ASSUME Inv, walk.pc = "done"
  PROVE  /\ walk.verdict = Verdict /\ pending = <<>>
         /\ agg.total = Cardinality(asked) /\ agg.present = Count({"present"})
<1>1. walk.verdict = Verdict /\ result = NoResult /\ pending = <<>> /\ agg \in Results
  BY DEF Inv, Judged, LookingUp, Types
<1>2. All("total") = agg.total /\ All("present") = agg.present
  BY <1>1 DEF All, NoResult, Results
<1> QED
  BY <1>1, <1>2 DEF Inv, CountsMatchAnswers

(* All that is due of a visited ad has been looked up, if nothing failed.     *)
LEMMA VisitedAreAsked ==
  ASSUME Inv, walk.pc = "done", opts.sampleAll, faults = 0,
         NEW i \in DOMAIN visited, ~chain[visited[i]].rm,
         NEW j \in Due(chain[visited[i]])
  PROVE  \E q \in asked : q.mh = <<visited[i], j>>
<1>1. PICK k : k = visited[i]
  OBVIOUS
<1>2. opts.source = "provider" /\ k \in Low..First
  <2>1. PICK len \in Nat, first \in Nat : len = Len(visited) /\ first = First
    BY Known DEF Inv
  <2>2. i \in 1..len /\ visited # <<>>
    BY <2>1 DEF Inv, Types
  <2>3. k = first - i + 1 /\ Low = first - len + 1
    BY <1>1, <2>1, <2>2 DEF Inv, Visiting, Low
  <2>4. k \in Low..first
    BY <2>2, <2>3
  <2>5. opts.source \in Sources /\ opts.source # "car"
    BY <2>2, Known DEF Inv, Visiting
  <2> QED
    BY <2>1, <2>4, <2>5 DEF Sources
<1>3. <<k, j>> \in AskedMhs \cup Range(pending)
  BY <1>1, <1>2 DEF Inv, Covered
<1>4. Range(pending) = {}
  BY AtTheEnd DEF Range
<1> QED
  BY <1>1, <1>3, <1>4 DEF AskedMhs

(* "Passed" is said only if the indexer has confirmed every multihash that was *)
(* looked up, and, if all were to be and nothing has failed, all that could be *)
(* reached: up to --entries-depth-limit and to the first empty chunk of an ad. *)
THEOREM PassedIsRight == Spec => []PassedMeansPresent
<1>1. Inv => PassedMeansPresent
  <2> SUFFICES ASSUME Inv, walk.verdict = "passed"
               PROVE  /\ asked # {}
                      /\ \A q \in asked : q.answer = "present"
                      /\ opts.sampleAll /\ faults = 0 =>
                           \A i \in DOMAIN visited :
                             LET ad == chain[visited[i]]
                             IN  ~ad.rm => \A j \in Due(ad) : [mh |-> <<visited[i], j>>,
                                                                 answer |-> "present"] \in asked
    BY DEF PassedMeansPresent
  <2>1. walk.pc = "done" /\ agg.total # 0 /\ agg.present = agg.total
    BY DEF Inv, Judged, Verdict
  <2>2. asked \subseteq Lookups /\ IsFiniteSet(asked)
    BY DEF Inv, Types
  <2>3. agg.total = Cardinality(asked) /\ agg.present = Count({"present"})
    BY <2>1, AtTheEnd
  <2>4. \A q \in asked : q.answer = "present"
    <3> DEFINE P == {q \in asked : q.answer \in {"present"}}
    <3>1. P \subseteq asked /\ Cardinality(P) = Cardinality(asked)
      BY <2>1, <2>3 DEF Count
    <3>2. P = asked
      BY <2>2, <3>1, FS_Subset
    <3> QED
      BY <3>2
  <2>5. asked # {}
    BY <2>1, <2>3, FS_EmptySet
  <2>6. ASSUME opts.sampleAll, faults = 0, NEW i \in DOMAIN visited,
               ~chain[visited[i]].rm, NEW j \in Due(chain[visited[i]])
        PROVE  [mh |-> <<visited[i], j>>, answer |-> "present"] \in asked
    <3>1. PICK q \in asked : q.mh = <<visited[i], j>>
      BY <2>1, <2>6, VisitedAreAsked
    <3>2. q = [mh |-> <<visited[i], j>>, answer |-> "present"]
      BY <2>2, <2>4, <3>1 DEF Lookups
    <3> QED
      BY <3>1, <3>2
  <2> QED
    BY <2>4, <2>5, <2>6
<1> QED
  BY <1>1, InvHolds, PTL

(* No removal is ever counted or remembered, so that an ad whose context ID a *)
(* later ad has removed is verified like any other: if all is sampled and     *)
(* nothing fails, its multihashes up to --entries-depth-limit and to its      *)
(* first empty chunk are looked up, and the verification fails if the         *)
(* indexer, rightly, does not have one of them.                               *)
RemovalsIgnored ==
  /\ stats.rm = 0 /\ stats.noLonger = 0 /\ stats.removed = {}
  /\ walk.pc = "done" /\ opts.sampleAll /\ faults = 0 =>
       \A i \in DOMAIN visited : ~chain[visited[i]].rm =>
         \A j \in Due(chain[visited[i]]) :
           \E q \in asked : /\ q.mh = <<visited[i], j>>
                            /\ q.answer # "present" => walk.verdict = "failed"

(* What run verifyingest_removed shows of one ad, for every chain: ingest.go  *)
(* never says "Removed in later advertisements; skipping verification."       *)
THEOREM RemovalsAreIgnored == Spec => []RemovalsIgnored
<1>1. Inv => RemovalsIgnored
  <2> SUFFICES ASSUME Inv PROVE RemovalsIgnored
    OBVIOUS
  <2>1. stats.rm = 0 /\ stats.noLonger = 0 /\ stats.removed = {}
    BY DEF Inv, Types, Statistics
  <2>2. ASSUME walk.pc = "done", NEW q \in asked, q.answer # "present"
        PROVE  walk.verdict = "failed"
    <3> DEFINE P == {r \in asked : r.answer \in {"present"}}
    <3>1. IsFiniteSet(asked) /\ P \subseteq asked /\ P # asked /\ asked # {}
      BY <2>2 DEF Inv, Types
    <3>2. Cardinality(P) # Cardinality(asked) /\ Cardinality(asked) # 0
      BY <3>1, FS_Subset, FS_EmptySet
    <3>3. agg.total # 0 /\ agg.present # agg.total
      BY <2>2, <3>2, AtTheEnd DEF Count
    <3> QED
      BY <2>2, <3>3, AtTheEnd DEF Verdict
  <2>3. ASSUME walk.pc = "done", opts.sampleAll, faults = 0, NEW i \in DOMAIN visited,
               ~chain[visited[i]].rm, NEW j \in Due(chain[visited[i]])
        PROVE  \E q \in asked : q.mh = <<visited[i], j>>
    BY <2>3, VisitedAreAsked
  <2> QED
    BY <2>1, <2>2, <2>3 DEF RemovalsIgnored
<1> QED
  BY <1>1, InvHolds, PTL
=============================================================================

------------------------- MODULE CutRecordingProofs -------------------------
(***************************************************************************)
(* Proofs about the recording that is cut, split, paired and stored, for   *)
(* every stream and every cut.  Splitting gives what Recording says, a     *)
(* merge keeps the order within a file, and where no second is spread over *)
(* three files the stream is restored.                                     *)
(*                                                                         *)
(* The loops of split_once are recursive functions.  What they compute is  *)
(* proved from LeastNumber, which the finite sets of numbers give: the     *)
(* library's own induction rules take an operator as a parameter.          *)
(***************************************************************************)
EXTENDS CutRecording, FiniteSetTheorems, SequenceTheorems, TLAPS

-----------------------------------------------------------------------------
(* Induction and recursion on numbers. *)

(* A set of numbers has a least one: the intervals below its members have a *)
(* smallest.                                                                *)
LEMMA LeastNumber ==
    ASSUME NEW T \in SUBSET Nat, T # {}
    PROVE  \E m \in T : \A k \in T : m <= k
<1> DEFINE U == {0 .. n : n \in T}
<1>1. U \subseteq FiniteSubsetsOf(Nat) /\ U # {}
  <2>1. ASSUME NEW n \in Nat PROVE 0 .. n \in FiniteSubsetsOf(Nat)
    BY FS_Interval DEF FiniteSubsetsOf
  <2> QED
    BY <2>1
<1>2. \E x \in U : \A y \in U : ~(<<y, x>> \in StrictSubsetOrdering(Nat))
  <2> HIDE DEF U
  <2> QED
    BY <1>1, FS_StrictSubsetOrderingWellFounded, WFMin
<1>3. PICK m \in T : \A k \in T : ~(<<0 .. k, 0 .. m>> \in StrictSubsetOrdering(Nat))
  BY <1>2
<1>4. ASSUME NEW k \in T, k < m PROVE FALSE
  <2>1. /\ 0 .. k \in SUBSET Nat /\ 0 .. m \in SUBSET Nat /\ 0 .. k \subseteq 0 .. m
        /\ m \notin 0 .. k /\ m \in 0 .. m
    BY <1>4
  <2> QED
    BY <1>3, <2>1 DEF StrictSubsetOrdering
<1> QED
  BY <1>4

(* What holds of 0, and of each number up to N if of the one before.        *)
LEMMA UpTo ==
    ASSUME NEW N \in Nat, NEW A \in SUBSET (0 .. N), 0 \in A,
           \A n \in 1 .. N : n - 1 \in A => n \in A
    PROVE  A = 0 .. N
<1> SUFFICES ASSUME (0 .. N) \ A # {} PROVE FALSE
  OBVIOUS
<1>1. PICK m \in (0 .. N) \ A : \A k \in (0 .. N) \ A : m <= k
  <2>1. (0 .. N) \ A \in SUBSET Nat
    OBVIOUS
  <2> QED
    BY <2>1, LeastNumber
<1>2. m # 0 /\ m \in 1 .. N /\ m - 1 \in 0 .. N /\ ~(m <= m - 1)
  BY <1>1
<1> QED
  BY <1>1, <1>2

(* A loop over N elements has a value after each.                           *)
LEMMA Loop ==
    ASSUME NEW S, NEW first \in S, NEW N \in Nat, NEW step \in [1 .. N -> [S -> S]]
    PROVE  \E f \in [0 .. N -> S] :
              f[0] = first /\ \A n \in 1 .. N : f[n] = step[n][f[n - 1]]
<1> DEFINE Run(f, m) == f[0] = first /\ \A n \in 1 .. m : f[n] = step[n][f[n - 1]]
           A == {m \in 0 .. N : \E f \in [0 .. m -> S] : Run(f, m)}
<1>1. 0 \in A
  <2> DEFINE f0 == [n \in 0 .. 0 |-> first]
  <2>1. f0 \in [0 .. 0 -> S] /\ Run(f0, 0) /\ 0 \in 0 .. N
    OBVIOUS
  <2> HIDE DEF f0, Run
  <2> QED
    BY <2>1
<1>2. ASSUME NEW m \in 1 .. N, m - 1 \in A PROVE m \in A
  <2>1. PICK f \in [0 .. m - 1 -> S] : Run(f, m - 1)
    BY <1>2
  <2> DEFINE g == [n \in 0 .. m |-> IF n = m THEN step[m][f[m - 1]] ELSE f[n]]
  <2>2. f[m - 1] \in S /\ step[m][f[m - 1]] \in S
    <3>1. m - 1 \in 0 .. m - 1 /\ m \in 1 .. N
      BY <1>2
    <3>2. f[m - 1] \in S
      BY <3>1
    <3> QED
      BY <3>1, <3>2
  <2>3. g \in [0 .. m -> S]
    BY <2>2
  <2>4. \A n \in 0 .. m - 1 : g[n] = f[n]
    BY <1>2
  <2>5. g[m] = step[m][g[m - 1]]
    BY <2>4
  <2>6. ASSUME NEW n \in 1 .. m PROVE g[n] = step[n][g[n - 1]]
    BY <2>1, <2>4, <2>5
  <2>7. Run(g, m)
    BY <2>1, <2>4, <2>6
  <2> HIDE DEF g, Run
  <2> QED
    BY <2>3, <2>7
<1>3. A = 0 .. N
  <2> HIDE DEF A
  <2>1. A \subseteq 0 .. N
    BY DEF A
  <2> QED
    BY <1>1, <1>2, <2>1, UpTo
<1> QED
  BY <1>3

-----------------------------------------------------------------------------
(* split_once. *)

Packet == [captime : Clock, carry : Carry, no : 1 .. Length]

(* The second of a packet is one of Second, and a number.                   *)
LEMMA PacketSecond == \A p \in Packet : SecondOf(p) \in Second /\ SecondOf(p) \in Nat
<1> SUFFICES ASSUME NEW p \in Packet
             PROVE  SecondOf(p) \in Second /\ SecondOf(p) \in Nat
  OBVIOUS
<1>1. p.captime \in Clock /\ p.carry \in Carry
  BY DEF Packet
<1> DEFINE c == p.captime
           d == p.carry
<1>2. SecondOf(p) = c + d
  BY DEF SecondOf
<1> HIDE DEF c, d
<1>3. c \in Clock /\ d \in Carry
  BY <1>1 DEF c, d
<1>4. c \in Nat /\ d \in Nat
  BY <1>3, CutAssumption
<1>5. c + d \in Nat
  BY <1>4
<1>6. c + d \in Second
  BY <1>3 DEF Second
<1> QED
  BY <1>2, <1>5, <1>6

(* What the loop over the records makes, record by record.                  *)
LEMMA GroupsLoop ==
    ASSUME NEW records \in Seq(Packet)
    PROVE  \E after : /\ Groups(records) = after[Len(records)]
                      /\ after[0] = <<>>
                      /\ \A n \in 1 .. Len(records) :
                            after[n] = AddToGroup(after[n - 1], records[n])
<1> DEFINE N == Len(records)
           G == UNION {[D -> Seq(Packet)] : D \in SUBSET Second}
           step == [n \in 1 .. N |-> [g \in G |-> AddToGroup(g, records[n])]]
           IsLoop(f) == f = [n \in 0 .. N |-> IF n = 0 THEN <<>>
                                              ELSE AddToGroup(f[n - 1], records[n])]
           after == CHOOSE f : IsLoop(f)
<1>1. N \in Nat /\ \A n \in 1 .. N : records[n] \in Packet
  BY LenProperties, ElementOfSeq
<1>2. <<>> \in G
  <2>1. <<>> \in [{} -> Seq(Packet)]
    OBVIOUS
  <2> QED
    BY <2>1
<1>3. ASSUME NEW g \in G, NEW p \in Packet PROVE AddToGroup(g, p) \in G
  <2>1. PICK D \in SUBSET Second : g \in [D -> Seq(Packet)]
    BY <1>3
  <2>2. AddToGroup(g, p) \in [D \cup {SecondOf(p)} -> Seq(Packet)]
    <3>1. ASSUME NEW s \in D \cup {SecondOf(p)}
          PROVE  LET group == IF s \in DOMAIN g THEN g[s] ELSE <<>>
                 IN  (IF s = SecondOf(p) THEN Append(group, p) ELSE group) \in Seq(Packet)
      BY <2>1, <1>3, <3>1, EmptySeq, AppendProperties
    <3>2. DOMAIN g = D
      BY <2>1
    <3> QED
      BY <3>1, <3>2 DEF AddToGroup
  <2>3. D \cup {SecondOf(p)} \in SUBSET Second
    BY <1>3, PacketSecond
  <2> QED
    BY <2>2, <2>3
<1>4. step \in [1 .. N -> [G -> G]]
  BY <1>1, <1>3
<1>5. PICK f \in [0 .. N -> G] :
        f[0] = <<>> /\ \A n \in 1 .. N : f[n] = step[n][f[n - 1]]
  <2> DEFINE none == <<>>
  <2>1. N \in Nat /\ none \in G
    BY <1>1, <1>2
  <2> HIDE DEF N, G, step, none, IsLoop
  <2>2. \E f \in [0 .. N -> G] :
           f[0] = none /\ \A n \in 1 .. N : f[n] = step[n][f[n - 1]]
    BY <1>4, <2>1, Loop
  <2> QED
    BY <2>2 DEF none
<1>6. \A n \in 1 .. N : f[n] = AddToGroup(f[n - 1], records[n])
  <2>1. ASSUME NEW n \in 1 .. N PROVE f[n - 1] \in G
    <3> HIDE DEF G
    <3>1. n - 1 \in 0 .. N
      BY <1>1
    <3> QED
      BY <1>5, <3>1
  <2> HIDE DEF G
  <2> QED
    BY <1>5, <2>1
<1>7. IsLoop(f)
  BY <1>5, <1>6
<1>8. IsLoop(after)
  <2> HIDE DEF IsLoop
  <2> QED
    BY <1>7
<1>9. Groups(records) = after[N]
  BY DEF Groups
<1>10. after[0] = <<>> /\ \A n \in 1 .. N : after[n] = AddToGroup(after[n - 1], records[n])
  <2> HIDE DEF after
  <2> QED
    BY <1>1, <1>8
<1> QED
  BY <1>9, <1>10

(* A sequence whose packets ascend in number, as a recorder writes them.    *)
Ascends(q) == \A i, j \in DOMAIN q : i < j => q[i].no < q[j].no

(* The groups are the packets by second, in the order of the file.          *)
LEMMA GroupsRight ==
    ASSUME NEW records \in Seq(Packet), Ascends(records)
    PROVE  /\ DOMAIN Groups(records) = {SecondOf(p) : p \in ToSet(records)}
           /\ \A s \in DOMAIN Groups(records) :
                 /\ Groups(records)[s] \in Seq(Packet)
                 /\ ToSet(Groups(records)[s]) = {p \in ToSet(records) : SecondOf(p) = s}
                 /\ Ascends(Groups(records)[s])
<1> DEFINE N == Len(records)
           Read(n) == {records[i] : i \in 1 .. n}
           GroupOK(g, n, s) ==
               /\ g[s] \in Seq(Packet)
               /\ ToSet(g[s]) = {p \in Read(n) : SecondOf(p) = s}
               /\ Ascends(g[s])
           Right(g, n) == /\ DOMAIN g = {SecondOf(p) : p \in Read(n)}
                          /\ \A s \in DOMAIN g : GroupOK(g, n, s)
<1>1. /\ N \in Nat /\ DOMAIN records = 1 .. N
      /\ \A n \in 1 .. N : records[n] \in Packet
  BY LenProperties, ElementOfSeq
<1>2. PICK after : /\ Groups(records) = after[N] /\ after[0] = <<>>
                   /\ \A n \in 1 .. N : after[n] = AddToGroup(after[n - 1], records[n])
  BY GroupsLoop
<1> DEFINE A == {n \in 0 .. N : Right(after[n], n)}
<1>3. 0 \in A
  <2>1. Read(0) = {} /\ DOMAIN after[0] = {}
    BY <1>2
  <2>2. Right(after[0], 0)
    <3> HIDE DEF GroupOK, Read
    <3> QED
      BY <2>1
  <2> HIDE DEF Right
  <2> QED
    BY <1>1, <2>2
<1>4. ASSUME NEW n \in 1 .. N, n - 1 \in A PROVE n \in A
  <2> DEFINE p == records[n]
             t == SecondOf(p)
             g == after[n - 1]
             h == after[n]
             old(s) == IF s \in DOMAIN g THEN g[s] ELSE <<>>
  <2>1. Right(g, n - 1) /\ h = AddToGroup(g, p) /\ n \in 0 .. N /\ p \in Packet
    <3>1. Right(g, n - 1)
      <4> HIDE DEF Right
      <4> QED
        BY <1>4
    <3>2. h = AddToGroup(g, p) /\ n \in 0 .. N /\ p \in Packet
      <4> HIDE DEF A
      <4> QED
        BY <1>1, <1>2
    <3> QED
      BY <3>1, <3>2
  <2>2. /\ Read(n) = Read(n - 1) \cup {p}
        /\ \A q \in Read(n - 1) : q \in Packet /\ q.no < p.no
    <3>1. 1 .. n = (1 .. n - 1) \cup {n} /\ (1 .. n) \subseteq DOMAIN records
          /\ \A i \in 1 .. n - 1 : i < n /\ i \in DOMAIN records
      BY <1>1
    <3> QED
      BY <1>1, <3>1 DEF Ascends
  <2>3. DOMAIN h = DOMAIN g \cup {t}
        /\ \A s \in DOMAIN h : h[s] = IF s = t THEN Append(old(s), p) ELSE old(s)
    BY <2>1 DEF AddToGroup
  <2>4. DOMAIN h = {SecondOf(q) : q \in Read(n)}
    BY <2>1, <2>2, <2>3
  <2>5. /\ old(t) \in Seq(Packet) /\ ToSet(old(t)) = {q \in Read(n - 1) : SecondOf(q) = t}
        /\ Ascends(old(t))
    <3>1. CASE t \in DOMAIN g
      BY <2>1, <3>1
    <3>2. CASE t \notin DOMAIN g
      <4>1. old(t) = <<>> /\ {q \in Read(n - 1) : SecondOf(q) = t} = {}
        BY <2>1, <3>2
      <4> QED
        <5> DEFINE none == <<>>
        <5>1. none \in Seq(Packet) /\ DOMAIN none = {} /\ ToSet(none) = {}
          BY DEF ToSet
        <5>2. Ascends(none)
          <6> HIDE DEF none
          <6> QED
            BY <5>1 DEF Ascends
        <5> HIDE DEF Ascends
        <5> QED
          BY <4>1, <5>1, <5>2
    <3> QED
      BY <3>1, <3>2
  <2>6. GroupOK(h, n, t)
    <3> DEFINE o == old(t)
    <3>1. h[t] = Append(o, p)
      BY <2>3
    <3>2. /\ Len(o) \in Nat /\ DOMAIN o = 1 .. Len(o) /\ Append(o, p) \in Seq(Packet)
          /\ Len(Append(o, p)) = Len(o) + 1 /\ DOMAIN Append(o, p) = 1 .. Len(o) + 1
          /\ \A i \in 1 .. Len(o) : Append(o, p)[i] = o[i]
          /\ Append(o, p)[Len(o) + 1] = p
      BY <2>1, <2>5, AppendProperties, LenProperties
    <3>3. ToSet(h[t]) = ToSet(o) \cup {p}
      <4> HIDE DEF o, h
      <4>1. DOMAIN Append(o, p) = DOMAIN o \cup {Len(o) + 1}
        BY <3>2
      <4>2. ToSet(Append(o, p)) = ToSet(o) \cup {p}
        BY <3>2, <4>1 DEF ToSet
      <4> QED
        BY <3>1, <4>2
    <3>4. ToSet(h[t]) = {q \in Read(n) : SecondOf(q) = t}
      BY <2>2, <2>5, <3>3
    <3>5. \A i \in DOMAIN o : o[i] \in Read(n - 1)
      BY <2>5 DEF ToSet
    <3>6. Ascends(h[t])
      <4> HIDE DEF o, h
      <4>1. Ascends(o) /\ \A i \in DOMAIN o : o[i].no < p.no
        BY <2>2, <2>5, <3>5 DEF o
      <4>2. Ascends(Append(o, p))
        BY <3>2, <4>1 DEF Ascends
      <4> QED
        BY <3>1, <4>2
    <3> QED
      BY <3>1, <3>2, <3>4, <3>6
  <2>7. ASSUME NEW s \in DOMAIN h, s # t PROVE GroupOK(h, n, s)
    <3>1. s \in DOMAIN g /\ h[s] = g[s] /\ GroupOK(g, n - 1, s)
      BY <2>1, <2>3, <2>7
    <3>2. {q \in Read(n) : SecondOf(q) = s} = {q \in Read(n - 1) : SecondOf(q) = s}
      BY <2>2, <2>7
    <3> QED
      BY <3>1, <3>2
  <2>8. Right(h, n)
    <3> HIDE DEF GroupOK, h
    <3> QED
      BY <2>4, <2>6, <2>7
  <2> HIDE DEF Right
  <2> QED
    BY <2>1, <2>8
<1>5. A = 0 .. N
  <2> HIDE DEF A
  <2>1. A \subseteq 0 .. N
    BY DEF A
  <2> QED
    BY <1>1, <1>3, <1>4, <2>1, UpTo
<1>6. Right(Groups(records), N)
  <2>1. N \in A
    <3> HIDE DEF A
    <3> QED
      BY <1>1, <1>5
  <2>2. Right(after[N], N)
    <3> HIDE DEF Right
    <3> QED
      BY <2>1
  <2> QED
    <3> HIDE DEF Right
    <3> QED
      BY <1>2, <2>2
<1>7. Read(N) = ToSet(records)
  BY <1>1 DEF ToSet
<1> QED
  BY <1>6, <1>7

(* sorted() puts a finite set of numbers in ascending order.                *)
LEMMA SortedRight ==
    ASSUME NEW S \in SUBSET Nat, IsFiniteSet(S)
    PROVE  /\ Cardinality(S) \in Nat
           /\ Sorted(S) \in [1 .. Cardinality(S) -> S]
           /\ \A i, j \in 1 .. Cardinality(S) : i < j => Sorted(S)[i] < Sorted(S)[j]
           /\ \A s \in S : \E i \in 1 .. Cardinality(S) : Sorted(S)[i] = s
<1> DEFINE N == Cardinality(S)
           Below(s) == {t \in S : t < s}
           rank == [s \in S |-> Cardinality(Below(s))]
<1>1. N \in Nat
  BY FS_CardinalityType
<1>2. \A s \in S : IsFiniteSet(Below(s)) /\ Cardinality(Below(s)) \in 0 .. N - 1
  <2>1. SUFFICES ASSUME NEW s \in S
                 PROVE  IsFiniteSet(Below(s)) /\ Cardinality(Below(s)) \in 0 .. N - 1
    OBVIOUS
  <2>2. Below(s) \in SUBSET S /\ Below(s) # S
    BY <2>1
  <2> HIDE DEF Below
  <2>3. IsFiniteSet(Below(s)) /\ Cardinality(Below(s)) <= N /\ Cardinality(Below(s)) # N
    BY <2>2, FS_Subset
  <2> QED
    BY <1>1, <2>3, FS_CardinalityType
<1>3. ASSUME NEW s \in S, NEW t \in S, s < t PROVE rank[s] < rank[t]
  <2>1. Below(s) \in SUBSET Below(t) /\ Below(s) # Below(t)
    <3>1. s \in Nat /\ t \in Nat /\ \A r \in Below(s) : r \in Nat
      OBVIOUS
    <3>2. s \in Below(t) /\ s \notin Below(s)
      BY <1>3, <3>1
    <3>3. ASSUME NEW r \in Below(s) PROVE r \in Below(t)
      BY <1>3, <3>1
    <3> HIDE DEF Below
    <3> QED
      BY <3>2, <3>3
  <2> HIDE DEF Below
  <2>2. /\ Cardinality(Below(s)) <= Cardinality(Below(t))
        /\ Cardinality(Below(s)) # Cardinality(Below(t))
    BY <1>2, <2>1, FS_Subset
  <2> QED
    BY <1>2, <2>2
<1>4. \A n \in 0 .. N - 1 : \E s \in S : rank[s] = n
  <2> DEFINE T == 0 .. N - 1
  <2>1. IsFiniteSet(T) /\ Cardinality(T) = N
    <3>1. N - 1 \in Int /\ 0 \in Int /\ (0 > N - 1 => N = 0) /\ N - 1 - 0 + 1 = N
      BY <1>1
    <3> HIDE DEF N
    <3> QED
      BY <3>1, FS_Interval
  <2>2. rank \in [S -> T]
    BY <1>2
  <2>3. \A s, t \in S : s # t => rank[s] # rank[t]
    <3>1. \A s \in S : s \in Nat /\ rank[s] \in Nat
      BY <1>2
    <3> HIDE DEF rank
    <3> QED
      BY <1>3, <3>1
  <2> HIDE DEF rank, T
  <2>4. rank \in Injection(S, T)
    BY <2>2, <2>3 DEF Injection, IsInjective
  <2>5. rank \in Surjection(S, T)
    BY <2>1, <2>4, FS_Injection
  <2> QED
    BY <2>5 DEF Surjection, T
<1>5. \A n \in 1 .. N : Sorted(S)[n] \in S /\ rank[Sorted(S)[n]] = n - 1
  <2> SUFFICES ASSUME NEW n \in 1 .. N
               PROVE  Sorted(S)[n] \in S /\ rank[Sorted(S)[n]] = n - 1
    OBVIOUS
  <2>1. n - 1 \in 0 .. N - 1
    BY <1>1
  <2>2. PICK s \in S : rank[s] = n - 1
    BY <1>4, <2>1
  <2>3. Sorted(S)[n] = CHOOSE r \in S : Cardinality({t \in S : t < r}) = n - 1
    BY DEF Sorted
  <2> QED
    BY <2>2, <2>3
<1>6. Sorted(S) \in [1 .. N -> S]
  BY <1>5 DEF Sorted
<1>7. ASSUME NEW i \in 1 .. N, NEW j \in 1 .. N, i < j PROVE Sorted(S)[i] < Sorted(S)[j]
  <2> DEFINE a == Sorted(S)[i]
             b == Sorted(S)[j]
  <2>1. a \in S /\ b \in S /\ a \in Nat /\ b \in Nat /\ rank[a] = i - 1 /\ rank[b] = j - 1
    BY <1>5
  <2> HIDE DEF a, b, rank
  <2>2. ~(b < a) /\ a # b
    BY <1>1, <1>3, <1>7, <2>1
  <2> QED
    BY <2>1, <2>2 DEF a, b
<1>8. ASSUME NEW s \in S PROVE \E i \in 1 .. N : Sorted(S)[i] = s
  <2> DEFINE i == rank[s] + 1
  <2>1. i \in 1 .. N
    BY <1>1, <1>2
  <2>2. Sorted(S)[i] \in S /\ rank[Sorted(S)[i]] = rank[s]
    <3>1. rank[s] \in Nat
      BY <1>2
    <3> HIDE DEF rank
    <3> QED
      BY <1>5, <2>1, <3>1
  <2> HIDE DEF rank, i
  <2>3. Sorted(S)[i] = s
    <3> DEFINE r == Sorted(S)[i]
    <3>1. r \in Nat /\ s \in Nat /\ rank[r] \in Nat
      <4>1. rank[s] \in Nat
        BY <1>2 DEF rank
      <4> QED
        BY <2>2, <4>1
    <3> HIDE DEF r
    <3>2. r \in S /\ rank[r] = rank[s]
      BY <2>2 DEF r
    <3>3. ~(r < s) /\ ~(s < r)
      BY <1>3, <3>1, <3>2
    <3>4. r = s
      BY <3>1, <3>3
    <3> QED
      BY <3>4 DEF r
  <2> QED
    BY <2>1, <2>3
<1> QED
  BY <1>1, <1>6, <1>7, <1>8

(* merge_pcap_files of two pieces: the packets of one, then of the other.   *)
LEMMA MergeOfTwo ==
    ASSUME NEW S, NEW a, NEW b, a.packets \in Seq(S), b.packets \in Seq(S)
    PROVE  MergePcapFiles(<<a, b>>) = a.packets \o b.packets
<1> DEFINE q == [i \in DOMAIN <<a, b>> |-> <<a, b>>[i].packets]
           IsFlat(g) == g = [i \in 1 .. 2 |-> IF i = 1 THEN q[i] ELSE g[i - 1] \o q[i]]
           flat == CHOOSE g : IsFlat(g)
<1>1. q = <<a.packets, b.packets>> /\ Len(q) = 2
  <2>1. DOMAIN <<a, b>> = 1 .. 2 /\ <<a, b>>[1] = a /\ <<a, b>>[2] = b
    OBVIOUS
  <2>2. q = [i \in 1 .. 2 |-> IF i = 1 THEN a.packets ELSE b.packets]
    BY <2>1
  <2>3. <<a.packets, b.packets>> = [i \in 1 .. 2 |-> IF i = 1 THEN a.packets ELSE b.packets]
    OBVIOUS
  <2> HIDE DEF q
  <2> QED
    BY <2>2, <2>3
<1>2. \E g : IsFlat(g)
  <2> DEFINE g == [i \in 1 .. 2 |-> IF i = 1 THEN a.packets ELSE a.packets \o b.packets]
  <2>1. q[1] = a.packets /\ q[2] = b.packets /\ g[1] = a.packets /\ g[2] = a.packets \o b.packets
    <3>1. q[1] = a.packets /\ q[2] = b.packets
      <4> HIDE DEF q, g
      <4> QED
        BY <1>1
    <3>2. g[1] = a.packets /\ g[2] = a.packets \o b.packets
      <4>1. 1 \in 1 .. 2 /\ 2 \in 1 .. 2 /\ 2 # 1
        OBVIOUS
      <4> QED
        BY <4>1, Zenon
    <3> HIDE DEF q, g
    <3> QED
      BY <3>1, <3>2
  <2>2. ASSUME NEW i \in 1 .. 2
        PROVE  g[i] = IF i = 1 THEN q[i] ELSE g[i - 1] \o q[i]
    <3>1. i = 1 \/ (i = 2 /\ i - 1 = 1)
      OBVIOUS
    <3> HIDE DEF q, g
    <3> QED
      BY <2>1, <3>1
  <2>3. IsFlat(g)
    <3> HIDE DEF q
    <3> QED
      BY <2>2
  <2> HIDE DEF IsFlat
  <2> QED
    BY <2>3
<1>3. IsFlat(flat)
  <2> HIDE DEF IsFlat
  <2> QED
    BY <1>2
<1>4. MergePcapFiles(<<a, b>>) = flat[2]
  BY <1>1 DEF MergePcapFiles, FlattenSeq
<1>5. flat[2] = a.packets \o b.packets
  <2> HIDE DEF flat, q
  <2>1. \A i \in 1 .. 2 : flat[i] = IF i = 1 THEN q[i] ELSE flat[i - 1] \o q[i]
    BY <1>3
  <2>2. flat[1] = q[1] /\ flat[2] = flat[1] \o q[2]
    <3>1. 1 \in 1 .. 2 /\ 2 \in 1 .. 2 /\ 2 - 1 = 1 /\ 2 # 1
      OBVIOUS
    <3> HIDE DEF IsFlat
    <3> QED
      BY <2>1, <3>1
  <2> QED
    BY <1>1, <2>2
<1> QED
  BY <1>4, <1>5

-----------------------------------------------------------------------------
(* The two lists of pieces. *)

BySecond(q) == \A i, j \in DOMAIN q : i < j => q[i].second < q[j].second

(* Append: the old elements where they were, then the new one.              *)
LEMMA Appended ==
    ASSUME NEW S, NEW q \in Seq(S), NEW p \in S
    PROVE  /\ Append(q, p) \in Seq(S)
           /\ DOMAIN Append(q, p) = DOMAIN q \cup {Len(q) + 1}
           /\ \A i \in DOMAIN q : Append(q, p)[i] = q[i] /\ i < Len(q) + 1
           /\ Append(q, p)[Len(q) + 1] = p
           /\ ToSet(Append(q, p)) = ToSet(q) \cup {p}
<1>1. /\ Append(q, p) \in Seq(S) /\ Len(q) \in Nat
      /\ DOMAIN q = 1 .. Len(q) /\ DOMAIN Append(q, p) = 1 .. Len(q) + 1
      /\ \A i \in 1 .. Len(q) : Append(q, p)[i] = q[i]
      /\ Append(q, p)[Len(q) + 1] = p
  BY AppendProperties, LenProperties
<1>2. DOMAIN Append(q, p) = DOMAIN q \cup {Len(q) + 1}
  BY <1>1
<1>3. ToSet(Append(q, p)) = ToSet(q) \cup {p}
  BY <1>1, <1>2 DEF ToSet
<1> QED
  BY <1>1, <1>2, <1>3

(* One turn of the loop that lists pieces by position.                      *)
Taken(list, p, positions) == IF p.position \in positions THEN Append(list, p) ELSE list

(* What the loop over the pieces makes, piece by piece.                     *)
LEMMA ListedLoop ==
    ASSUME NEW T, NEW pieces \in Seq(T), NEW positions
    PROVE  \E list :
              /\ Listed(pieces, positions) = list[Len(pieces)]
              /\ list[0] = <<>>
              /\ \A n \in 1 .. Len(pieces) :
                    list[n] = Taken(list[n - 1], pieces[n], positions)
<1> DEFINE N == Len(pieces)
           step == [n \in 1 .. N |-> [l \in Seq(T) |-> Taken(l, pieces[n], positions)]]
           IsLoop(f) == f = [n \in 0 .. N |-> IF n = 0 THEN <<>>
                                              ELSE Taken(f[n - 1], pieces[n], positions)]
           list == CHOOSE f : IsLoop(f)
<1>1. /\ N \in Nat /\ DOMAIN pieces = 1 .. N
      /\ \A n \in 1 .. N : pieces[n] \in T
  BY LenProperties, ElementOfSeq
<1>2. \A l \in Seq(T), p \in T : Taken(l, p, positions) \in Seq(T)
  BY AppendProperties DEF Taken
<1>3. step \in [1 .. N -> [Seq(T) -> Seq(T)]]
  BY <1>1, <1>2
<1>4. PICK f \in [0 .. N -> Seq(T)] :
        f[0] = <<>> /\ \A n \in 1 .. N : f[n] = step[n][f[n - 1]]
  <2> DEFINE none == <<>>
             Q == Seq(T)
  <2>1. N \in Nat /\ none \in Q
    BY <1>1, EmptySeq
  <2>2. step \in [1 .. N -> [Q -> Q]]
    BY <1>3
  <2> HIDE DEF N, step, none, IsLoop, Q
  <2>3. \E f \in [0 .. N -> Q] :
           f[0] = none /\ \A n \in 1 .. N : f[n] = step[n][f[n - 1]]
    BY <2>1, <2>2, Loop, SMTT(30)
  <2> QED
    BY <2>3 DEF none, Q
<1>5. \A n \in 1 .. N : f[n] = Taken(f[n - 1], pieces[n], positions)
  <2> SUFFICES ASSUME NEW n \in 1 .. N PROVE f[n] = Taken(f[n - 1], pieces[n], positions)
    OBVIOUS
  <2>1. f[n - 1] \in Seq(T)
    BY <1>1, <1>4
  <2> QED
    BY <1>4, <2>1
<1>6. IsLoop(f)
  BY <1>4, <1>5
<1>7. IsLoop(list)
  <2> HIDE DEF IsLoop
  <2> QED
    BY <1>6
<1>8. Listed(pieces, positions) = list[N]
  BY DEF Listed, Taken
<1>9. list[0] = <<>> /\ \A n \in 1 .. N : list[n] = Taken(list[n - 1], pieces[n], positions)
  <2>1. \A n \in 0 .. N : list[n] = IF n = 0 THEN <<>>
                                     ELSE Taken(list[n - 1], pieces[n], positions)
    <3> HIDE DEF list
    <3> QED
      BY <1>7
  <2>2. 0 \in 0 .. N /\ \A n \in 1 .. N : n \in 0 .. N /\ n # 0
    BY <1>1
  <2> HIDE DEF list, IsLoop, N
  <2> QED
    BY <2>1, <2>2
<1> QED
  BY <1>8, <1>9

(* Listed keeps the pieces of the given positions, in their order.          *)
LEMMA ListedRight ==
    ASSUME NEW S, NEW pieces \in Seq(S), NEW positions,
           \A p \in S : p.second \in Nat, BySecond(pieces)
    PROVE  /\ Listed(pieces, positions) \in Seq(S)
           /\ ToSet(Listed(pieces, positions)) =
                 {p \in ToSet(pieces) : p.position \in positions}
           /\ BySecond(Listed(pieces, positions))
<1> DEFINE N == Len(pieces)
           Read(n) == {pieces[i] : i \in 1 .. n}
           Right(l, n) == /\ l \in Seq(S)
                          /\ ToSet(l) = {p \in Read(n) : p.position \in positions}
                          /\ BySecond(l)
<1>1. /\ N \in Nat /\ DOMAIN pieces = 1 .. N
      /\ \A n \in 1 .. N : pieces[n] \in S
  BY LenProperties, ElementOfSeq
<1>2. PICK list : /\ Listed(pieces, positions) = list[N]
                  /\ list[0] = <<>>
                  /\ \A n \in 1 .. N : list[n] = Taken(list[n - 1], pieces[n], positions)
  BY ListedLoop
<1> DEFINE A == {n \in 0 .. N : Right(list[n], n)}
<1>3. 0 \in A
  <2> DEFINE none == <<>>
  <2>1. none \in Seq(S) /\ DOMAIN none = {} /\ ToSet(none) = {} /\ Read(0) = {}
    BY DEF ToSet
  <2>2. list[0] = none /\ 0 \in 0 .. N
    BY <1>1, <1>2
  <2> HIDE DEF none, Read
  <2>3. BySecond(none)
    BY <2>1 DEF BySecond
  <2> QED
    BY <2>1, <2>2, <2>3
<1>4. ASSUME NEW n \in 1 .. N, n - 1 \in A PROVE n \in A
  <2> DEFINE p == pieces[n]
             l == list[n - 1]
  <2>1. Right(l, n - 1)
    <3> HIDE DEF Right
    <3> QED
      BY <1>4
  <2>2. p \in S /\ n \in 0 .. N /\ p.second \in Nat
    BY <1>1
  <2>3. Read(n) = Read(n - 1) \cup {p}
        /\ \A q \in Read(n - 1) : q.second < p.second
    <3>1. 1 .. n = (1 .. n - 1) \cup {n} /\ (1 .. n) \subseteq DOMAIN pieces
          /\ \A i \in 1 .. n - 1 : i < n /\ i \in DOMAIN pieces
      BY <1>1
    <3> QED
      BY <1>1, <3>1 DEF BySecond
  <2>4. list[n] = Taken(l, p, positions)
    BY <1>2
  <2> HIDE DEF p, l, Read, N
  <2>5. CASE p.position \in positions
    <3>1. list[n] = Append(l, p)
      BY <2>4, <2>5 DEF Taken
    <3>2. /\ Append(l, p) \in Seq(S)
          /\ ToSet(Append(l, p)) = ToSet(l) \cup {p}
          /\ DOMAIN Append(l, p) = DOMAIN l \cup {Len(l) + 1}
          /\ \A i \in DOMAIN l : Append(l, p)[i] = l[i] /\ i < Len(l) + 1
          /\ Append(l, p)[Len(l) + 1] = p
      BY <2>1, <2>2, Appended
    <3>3. ToSet(Append(l, p)) = {q \in Read(n) : q.position \in positions}
      BY <2>1, <2>3, <2>5, <3>2
    <3>4. \A i \in DOMAIN l : l[i] \in Read(n - 1) /\ i \in Nat
      <4>1. \A i \in DOMAIN l : l[i] \in ToSet(l) /\ i \in Nat
        BY <2>1, LenProperties DEF ToSet
      <4> QED
        BY <2>1, <4>1
    <3>5. BySecond(Append(l, p))
      <4>1. Len(l) + 1 \in Nat /\ \A i \in DOMAIN l : l[i].second < p.second
        BY <2>1, <2>3, <3>4, LenProperties
      <4>2. BySecond(l)
        BY <2>1
      <4> QED
        BY <3>2, <3>4, <4>1, <4>2 DEF BySecond
    <3> QED
      BY <2>2, <3>1, <3>2, <3>3, <3>5
  <2>6. CASE p.position \notin positions
    <3>1. list[n] = l
      BY <2>4, <2>6 DEF Taken
    <3>2. {q \in Read(n) : q.position \in positions} =
              {q \in Read(n - 1) : q.position \in positions}
      BY <2>3, <2>6
    <3> QED
      BY <2>1, <2>2, <3>1, <3>2
  <2> QED
    BY <2>5, <2>6
<1>5. A = 0 .. N
  <2> HIDE DEF A
  <2>1. A \subseteq 0 .. N
    BY DEF A
  <2> QED
    BY <1>1, <1>3, <1>4, <2>1, UpTo
<1>6. Right(list[N], N)
  <2>1. N \in A
    <3> HIDE DEF A
    <3> QED
      BY <1>1, <1>5
  <2> HIDE DEF Right
  <2> QED
    BY <2>1
<1>7. Read(N) = ToSet(pieces)
  BY <1>1 DEF ToSet
<1> QED
  BY <1>2, <1>6, <1>7

-----------------------------------------------------------------------------
(* What a raw file becomes, computed from the file as a whole. *)

RawFile == {r \in [packets : Seq(Packet), cutOff : BOOLEAN] :
              r.packets # <<>> /\ Ascends(r.packets)}

(* A piece as split_once writes it.                                         *)
Piece == [second : Second, packets : Seq(Packet), position : {"HEAD", "MID", "TAIL"}]

(* The seconds in which a raw file has complete packets.                    *)
SecondsOf(r) == {SecondOf(p) : p \in ToSet(Readable(r))}

(* HEAD, TAIL or MID by the seconds before and after it.                    *)
PositionIn(r, s) ==
    IF \A t \in SecondsOf(r) : s <= t THEN "HEAD"
    ELSE IF \A t \in SecondsOf(r) : t <= s THEN "TAIL"
    ELSE "MID"

(* The packets of a file in a second, and the piece they make.              *)
GroupOf(r, s) == Groups(Readable(r))[s]

PieceOf(r, s) ==
    [second |-> s, packets |-> GroupOf(r, s), position |-> PositionIn(r, s)]

(* What is read is the file without a last record that is cut off.          *)
LEMMA ReadableRight ==
    ASSUME NEW r \in RawFile
    PROVE  /\ Readable(r) \in Seq(Packet)
           /\ Ascends(Readable(r))
           /\ ToSet(Readable(r)) =
                 {r.packets[i] : i \in {n \in DOMAIN r.packets :
                                          ~(r.cutOff /\ n = Len(r.packets))}}
<1> DEFINE q == r.packets
           N == Len(q)
           short == SubSeq(q, 1, N - 1)
<1>1. /\ q \in Seq(Packet) /\ q # <<>> /\ Ascends(q) /\ N \in Nat \ {0}
      /\ DOMAIN q = 1 .. N /\ \A i \in 1 .. N : q[i] \in Packet
  BY LenProperties, EmptySeq, ElementOfSeq DEF RawFile
<1>2. /\ short \in Seq(Packet) /\ Len(short) = N - 1 /\ DOMAIN short = 1 .. N - 1
      /\ \A i \in 1 .. N - 1 : short[i] = q[i]
  <2>1. N - 1 \in Int /\ 1 \in Int /\ \A i \in 1 .. N - 1 : q[i] \in Packet
    BY <1>1
  <2>2. /\ short \in Seq(Packet)
        /\ Len(short) = IF 1 <= N - 1 THEN N - 1 - 1 + 1 ELSE 0
        /\ \A i \in 1 .. N - 1 - 1 + 1 : short[i] = q[1 + i - 1]
    <3> HIDE DEF N, q
    <3> QED
      BY <2>1, SubSeqProperties
  <2> HIDE DEF short
  <2> QED
    BY <1>1, <2>2, LenProperties
<1> HIDE DEF short, N, q
<1>3. CASE r.cutOff
  <2>1. Readable(r) = short
    BY <1>3 DEF Readable, Front, short, N, q
  <2>2. Ascends(short)
    BY <1>1, <1>2 DEF Ascends
  <2>3. {n \in DOMAIN q : ~(r.cutOff /\ n = N)} = 1 .. N - 1
    BY <1>1, <1>3
  <2>4. ToSet(short) = {q[i] : i \in 1 .. N - 1}
    BY <1>2 DEF ToSet
  <2> QED
    BY <1>2, <2>1, <2>2, <2>3, <2>4 DEF q, N
<1>4. CASE ~r.cutOff
  <2>1. Readable(r) = q
    BY <1>4 DEF Readable, q
  <2>2. {n \in DOMAIN q : ~(r.cutOff /\ n = N)} = DOMAIN q
    BY <1>4
  <2> QED
    BY <1>1, <2>1, <2>2 DEF ToSet, q, N
<1> QED
  BY <1>3, <1>4

(* A file's seconds are finitely many, and each has its packets in order.   *)
LEMMA GroupRight ==
    ASSUME NEW r \in RawFile
    PROVE  /\ DOMAIN Groups(Readable(r)) = SecondsOf(r)
           /\ SecondsOf(r) \subseteq Second /\ SecondsOf(r) \in SUBSET Nat
           /\ IsFiniteSet(SecondsOf(r))
           /\ \A s \in SecondsOf(r) :
                 /\ GroupOf(r, s) \in Seq(Packet)
                 /\ ToSet(GroupOf(r, s)) = {p \in ToSet(Readable(r)) : SecondOf(p) = s}
                 /\ Ascends(GroupOf(r, s))
<1> DEFINE q == Readable(r)
           N == Len(q)
           at == [i \in 1 .. N |-> SecondOf(q[i])]
<1>1. q \in Seq(Packet) /\ Ascends(q)
  BY ReadableRight
<1>2. N \in Nat /\ DOMAIN q = 1 .. N /\ \A i \in 1 .. N : q[i] \in Packet
  <2> HIDE DEF q
  <2> QED
    BY <1>1, LenProperties, ElementOfSeq
<1>3. SecondsOf(r) \subseteq Second /\ SecondsOf(r) \in SUBSET Nat
  <2>1. \A p \in ToSet(q) : p \in Packet
    BY <1>2 DEF ToSet
  <2> QED
    BY <2>1, PacketSecond DEF SecondsOf
<1>4. IsFiniteSet(SecondsOf(r))
  <2>1. SecondsOf(r) = {at[i] : i \in 1 .. N}
    BY <1>2 DEF SecondsOf, ToSet
  <2>2. IsFiniteSet(1 .. N)
    BY <1>2, FS_Interval
  <2>3. at \in Surjection(1 .. N, {at[i] : i \in 1 .. N})
    BY DEF Surjection
  <2> HIDE DEF at, N
  <2> QED
    BY <2>1, <2>2, <2>3, FS_Surjection
<1> QED
  <2> HIDE DEF q
  <2>1. /\ DOMAIN Groups(q) = {SecondOf(p) : p \in ToSet(q)}
        /\ \A s \in DOMAIN Groups(q) :
              /\ Groups(q)[s] \in Seq(Packet)
              /\ ToSet(Groups(q)[s]) = {p \in ToSet(q) : SecondOf(p) = s}
              /\ Ascends(Groups(q)[s])
    BY <1>1, GroupsRight
  <2> QED
    BY <1>3, <1>4, <2>1 DEF SecondsOf, GroupOf, q

(* split_once writes one piece per second, by ascending second.             *)
LEMMA SplitRight ==
    ASSUME NEW r \in RawFile
    PROVE  /\ SplitOnce(r) \in Seq(Piece)
           /\ BySecond(SplitOnce(r))
           /\ \A i \in DOMAIN SplitOnce(r) :
                 SplitOnce(r)[i] = PieceOf(r, SplitOnce(r)[i].second)
           /\ ToSet(SplitOnce(r)) = {PieceOf(r, s) : s \in SecondsOf(r)}
<1> DEFINE D == SecondsOf(r)
           N == Cardinality(D)
           S == Sorted(D)
           pieces == SplitOnce(r)
<1>1. /\ D \subseteq Second /\ D \in SUBSET Nat /\ IsFiniteSet(D)
      /\ DOMAIN Groups(Readable(r)) = D
      /\ \A s \in D : GroupOf(r, s) \in Seq(Packet)
  BY GroupRight
<1>2. /\ N \in Nat /\ S \in [1 .. N -> D]
      /\ \A i, j \in 1 .. N : i < j => S[i] < S[j]
      /\ \A s \in D : \E i \in 1 .. N : S[i] = s
  <2> HIDE DEF D
  <2> QED
    BY <1>1, SortedRight
<1>3. S \in Seq(D) /\ Len(S) = N /\ DOMAIN S = 1 .. N
  <2> HIDE DEF S, N, D
  <2>1. S \in Seq(D)
    BY <1>2, SeqDef
  <2> QED
    BY <1>2, <2>1, LenProperties
<1>4. ASSUME NEW i \in 1 .. N
      PROVE  Classify(S[i], Head(S), Last(S)) = PositionIn(r, S[i])
  <2> HIDE DEF S, N, D
  <2>1. /\ N # 0 /\ 1 \in 1 .. N /\ N \in 1 .. N /\ S # <<>>
        /\ Head(S) = S[1] /\ Last(S) = S[N]
    BY <1>2, <1>3 DEF Last
  <2>2. \A k \in 1 .. N : S[k] \in D /\ S[k] \in Nat
    BY <1>1, <1>2
  <2>3. S[i] = S[1] <=> \A t \in D : S[i] <= t
    <3>1. ASSUME NEW t \in D PROVE S[1] <= t
      <4>1. PICK k \in 1 .. N : S[k] = t
        BY <1>2
      <4>2. k = 1 \/ 1 < k
        BY <1>2
      <4> QED
        BY <1>2, <2>1, <2>2, <4>1, <4>2
    <3> QED
      BY <2>1, <2>2, <3>1
  <2>4. S[i] = S[N] <=> \A t \in D : t <= S[i]
    <3>1. ASSUME NEW t \in D PROVE t <= S[N]
      <4>1. PICK k \in 1 .. N : S[k] = t
        BY <1>2
      <4>2. k = N \/ k < N
        BY <1>2
      <4> QED
        BY <1>2, <2>1, <2>2, <4>1, <4>2
    <3> QED
      BY <2>1, <2>2, <3>1
  <2> QED
    BY <2>1, <2>3, <2>4 DEF Classify, PositionIn, D
<1>5. /\ pieces = [i \in 1 .. N |-> PieceOf(r, S[i])]
  <2> DEFINE G == Groups(Readable(r))
  <2>1. pieces = [i \in DOMAIN S |->
                    [second |-> S[i], packets |-> G[S[i]],
                     position |-> Classify(S[i], Head(S), Last(S))]]
    BY <1>1 DEF SplitOnce
  <2>2. \A i \in 1 .. N : PieceOf(r, S[i]) =
                    [second |-> S[i], packets |-> G[S[i]],
                     position |-> Classify(S[i], Head(S), Last(S))]
    <3> HIDE DEF S, N, D
    <3> QED
      BY <1>4 DEF PieceOf, GroupOf
  <2> HIDE DEF S, N, D, G, pieces
  <2> QED
    BY <1>3, <2>1, <2>2
<1>6. \A s \in D : PieceOf(r, s) \in Piece /\ PieceOf(r, s).second = s
  BY <1>1 DEF PieceOf, Piece, PositionIn
<1> HIDE DEF S, N, D, pieces
<1>7. /\ DOMAIN pieces = 1 .. N
      /\ \A i \in 1 .. N : /\ S[i] \in D /\ pieces[i] \in Piece
                           /\ pieces[i] = PieceOf(r, S[i])
                           /\ pieces[i].second = S[i]
  BY <1>2, <1>5, <1>6
<1>8. pieces \in Seq(Piece)
  <2>1. pieces \in [1 .. N -> Piece]
    BY <1>5, <1>7
  <2> QED
    BY <1>2, <2>1, SeqDef
<1>9. BySecond(pieces)
  BY <1>2, <1>7 DEF BySecond
<1>10. ToSet(pieces) = {PieceOf(r, s) : s \in D}
  BY <1>2, <1>7 DEF ToSet
<1> QED
  BY <1>7, <1>8, <1>9, <1>10 DEF pieces, D

(* The pieces of given positions, listed by ascending second.               *)
LEMMA ListsRight ==
    ASSUME NEW r \in RawFile, NEW positions
    PROVE  LET list == Listed(SplitOnce(r), positions)
           IN  /\ list \in Seq(Piece)
               /\ BySecond(list)
               /\ ToSet(list) = {PieceOf(r, s) : s \in
                                   {t \in SecondsOf(r) : PositionIn(r, t) \in positions}}
<1> DEFINE pieces == SplitOnce(r)
<1>1. /\ pieces \in Seq(Piece) /\ BySecond(pieces)
      /\ ToSet(pieces) = {PieceOf(r, s) : s \in SecondsOf(r)}
  BY SplitRight
<1>2. \A p \in Piece : p.second \in Nat
  <2>1. Second \subseteq Nat
    BY CutAssumption DEF Second
  <2> QED
    BY <2>1 DEF Piece
<1>3. /\ Listed(pieces, positions) \in Seq(Piece)
      /\ ToSet(Listed(pieces, positions)) = {p \in ToSet(pieces) : p.position \in positions}
      /\ BySecond(Listed(pieces, positions))
  <2> HIDE DEF pieces
  <2> QED
    BY <1>1, <1>2, ListedRight
<1>4. \A s \in SecondsOf(r) : PieceOf(r, s).position = PositionIn(r, s)
  BY DEF PieceOf
<1> QED
  BY <1>1, <1>3, <1>4

-----------------------------------------------------------------------------
(* What the recorder left, which no step of the cycle changes. *)

LEMMA Monotone ==
    ASSUME NEW N \in Nat, NEW h \in [0 .. N -> Nat], \A n \in 1 .. N : h[n - 1] <= h[n]
    PROVE  \A i, j \in 0 .. N : i <= j => h[i] <= h[j]
<1> SUFFICES ASSUME NEW i \in 0 .. N
             PROVE  \A j \in 0 .. N : i <= j => h[i] <= h[j]
  OBVIOUS
<1> DEFINE A == {j \in 0 .. N : i <= j => h[i] <= h[j]}
<1>1. 0 \in A
  OBVIOUS
<1>2. ASSUME NEW n \in 1 .. N, n - 1 \in A PROVE n \in A
  <2>1. /\ n \in 0 .. N /\ n - 1 \in 0 .. N /\ h[n] \in Nat /\ h[n - 1] \in Nat /\ h[i] \in Nat
        /\ h[n - 1] <= h[n]
    OBVIOUS
  <2>2. i <= n => i = n \/ i <= n - 1
    OBVIOUS
  <2> QED
    BY <1>2, <2>1, <2>2
<1>3. A = 0 .. N
  <2> HIDE DEF A
  <2>1. A \subseteq 0 .. N
    BY DEF A
  <2> QED
    BY <1>1, <1>2, <2>1, UpTo
<1> QED
  BY <1>3

(* The files hold the packets of the stream in turn.                        *)
RawOK ==
    /\ raw \in [File -> RawFile]
    /\ \A f, g \in File : f < g =>
          \A p \in ToSet(raw[f].packets), q \in ToSet(raw[g].packets) :
             p.no < q.no /\ SecondOf(p) <= SecondOf(q)

(* The clocks of a stream ascend from any packet to any later one.          *)
LEMMA ClocksAscend ==
    ASSUME NEW t \in Clocks
    PROVE  \A i, j \in 1 .. Length : i <= j => SecondOf(t[i]) <= SecondOf(t[j])
<1> DEFINE h == [n \in 0 .. Length - 1 |-> SecondOf(t[n + 1])]
<1>1. \A i \in 1 .. Length : t[i] \in [captime : Clock, carry : Carry]
  BY DEF Clocks
<1>2. \A i \in 1 .. Length : SecondOf(t[i]) \in Nat
  <2> SUFFICES ASSUME NEW i \in 1 .. Length PROVE SecondOf(t[i]) \in Nat
    OBVIOUS
  <2>1. t[i].captime \in Nat /\ t[i].carry \in Nat
    BY <1>1, CutAssumption
  <2> QED
    BY <2>1 DEF SecondOf
<1>3. CASE Length # 0
  <2>1. Length - 1 \in Nat
    BY <1>3, CutAssumption
  <2>2. h \in [0 .. Length - 1 -> Nat]
    BY <1>2, CutAssumption
  <2>3. \A n \in 1 .. Length - 1 : h[n - 1] <= h[n]
    <3> SUFFICES ASSUME NEW n \in 1 .. Length - 1 PROVE h[n - 1] <= h[n]
      OBVIOUS
    <3>1. SecondOf(t[n]) <= SecondOf(t[n + 1])
      BY DEF Clocks
    <3>2. n - 1 \in 0 .. Length - 1 /\ n \in 0 .. Length - 1 /\ (n - 1) + 1 = n
      BY <2>1
    <3> QED
      BY <3>1, <3>2
  <2>4. \A i, j \in 0 .. Length - 1 : i <= j => h[i] <= h[j]
    <3> DEFINE N == Length - 1
    <3> HIDE DEF h, N
    <3>1. N \in Nat /\ h \in [0 .. N -> Nat] /\ \A n \in 1 .. N : h[n - 1] <= h[n]
      BY <2>1, <2>2, <2>3 DEF N
    <3>2. \A i, j \in 0 .. N : i <= j => h[i] <= h[j]
      BY <3>1, Monotone
    <3> QED
      BY <3>2 DEF N
  <2>5. \A i \in 1 .. Length : i - 1 \in 0 .. Length - 1 /\ h[i - 1] = SecondOf(t[i])
    BY CutAssumption
  <2> SUFFICES ASSUME NEW i \in 1 .. Length, NEW j \in 1 .. Length, i <= j
               PROVE  SecondOf(t[i]) <= SecondOf(t[j])
    OBVIOUS
  <2>6. i - 1 <= j - 1
    OBVIOUS
  <2> HIDE DEF h
  <2>7. h[i - 1] <= h[j - 1]
    BY <2>4, <2>5, <2>6
  <2> QED
    BY <2>5, <2>7
<1>4. CASE Length = 0
  BY <1>4
<1> QED
  BY <1>3, <1>4

(* The places of the cuts ascend.                                           *)
LEMMA CutsAscend ==
    ASSUME NEW c \in Cuts
    PROVE  \A f, g \in 0 .. Files : f <= g => c[f] <= c[g]
<1>1. c \in [0 .. Files -> Nat] /\ Files \in Nat
  BY CutAssumption DEF Cuts
<1>2. \A n \in 1 .. Files : c[n - 1] <= c[n]
  <2>1. \A n \in 1 .. Files : c[n - 1] < c[n] /\ n - 1 \in 0 .. Files /\ n \in 0 .. Files
    BY <1>1 DEF Cuts, File
  <2> QED
    BY <1>1, <2>1
<1> QED
  BY <1>1, <1>2, Monotone

(* The recorder leaves what RawOK says.                                     *)
LEMMA InitRaw == Init => RawOK
<1> SUFFICES ASSUME Init PROVE RawOK
  OBVIOUS
<1>1. PICK stream \in Stream, c \in Cuts, cutOff \in BOOLEAN :
        raw = [f \in File |->
                  [packets |-> SubSeq(stream, c[f - 1] + 1, c[f]),
                   cutOff |-> cutOff /\ f = Files]]
  BY DEF Init
<1>2. PICK t \in Clocks :
        stream = [i \in 1 .. Length |->
                    [captime |-> t[i].captime, carry |-> t[i].carry, no |-> i]]
  BY <1>1 DEF Stream
<1>3. \A i \in 1 .. Length : /\ stream[i] \in Packet /\ stream[i].no = i
                             /\ SecondOf(stream[i]) = SecondOf(t[i])
  <2> SUFFICES ASSUME NEW i \in 1 .. Length
               PROVE  /\ stream[i] \in Packet /\ stream[i].no = i
                      /\ SecondOf(stream[i]) = SecondOf(t[i])
    OBVIOUS
  <2>1. t[i] \in [captime : Clock, carry : Carry]
    BY DEF Clocks
  <2> QED
    BY <1>2, <2>1 DEF Packet, SecondOf
<1>4. /\ \A f \in File : /\ c[f - 1] \in 0 .. Length /\ c[f] \in 0 .. Length
                         /\ c[f - 1] < c[f]
      /\ \A f, g \in File : f < g => c[f] <= c[g - 1]
  <2>1. Files \in Nat /\ c \in [0 .. Files -> 0 .. Length]
    BY CutAssumption DEF Cuts
  <2>2. \A f \in File : f \in 0 .. Files /\ f - 1 \in 0 .. Files
    BY <2>1 DEF File
  <2>3. \A f \in File : c[f - 1] \in 0 .. Length /\ c[f] \in 0 .. Length /\ c[f - 1] < c[f]
    BY <2>1, <2>2 DEF Cuts
  <2>4. \A f, g \in File : f < g => f <= g - 1
    BY <2>1 DEF File
  <2> QED
    BY <2>2, <2>3, <2>4, CutsAscend
<1>5. ASSUME NEW f \in File
      PROVE  LET q == SubSeq(stream, c[f - 1] + 1, c[f])
             IN  /\ q \in Seq(Packet) /\ Len(q) = c[f] - c[f - 1] /\ q # <<>>
                 /\ DOMAIN q = 1 .. c[f] - c[f - 1]
                 /\ \A i \in DOMAIN q : /\ c[f - 1] + i \in c[f - 1] + 1 .. c[f]
                                        /\ q[i] = stream[c[f - 1] + i]
  <2> DEFINE m == c[f - 1] + 1
             n == c[f]
             q == SubSeq(stream, m, n)
  <2>1. /\ m \in Int /\ n \in Int /\ m <= n /\ n - m + 1 = c[f] - c[f - 1]
        /\ \A i \in m .. n : i \in 1 .. Length
        /\ n - m + 1 # 0 /\ n - m + 1 \in Nat
    <3> DEFINE a == c[f - 1]
               b == c[f]
    <3>1. a \in 0 .. Length /\ b \in 0 .. Length /\ a < b /\ Length \in Nat
      BY <1>4, CutAssumption
    <3> HIDE DEF a, b
    <3>2. /\ a + 1 \in Int /\ b \in Int /\ a + 1 <= b /\ b - (a + 1) + 1 = b - a
          /\ \A i \in a + 1 .. b : i \in 1 .. Length
          /\ b - (a + 1) + 1 # 0 /\ b - (a + 1) + 1 \in Nat
      BY <3>1
    <3> QED
      BY <3>2 DEF a, b
  <2>2. \A i \in m .. n : stream[i] \in Packet
    BY <1>3, <2>1
  <2> HIDE DEF m, n
  <2>3. /\ q \in Seq(Packet) /\ Len(q) = n - m + 1
        /\ \A i \in 1 .. n - m + 1 : q[i] = stream[m + i - 1]
    BY <2>1, <2>2, SubSeqProperties
  <2> HIDE DEF q
  <2>4. DOMAIN q = 1 .. n - m + 1 /\ q # <<>>
    <3>1. DOMAIN q = 1 .. n - m + 1
      BY <2>3, LenProperties
    <3>2. Len(q) # 0 /\ Len(<<>>) = 0
      BY <2>1, <2>3
    <3> QED
      BY <3>1, <3>2
  <2>5. \A i \in 1 .. n - m + 1 : m + i - 1 = c[f - 1] + i /\ c[f - 1] + i \in c[f - 1] + 1 .. c[f]
    BY <1>4 DEF m, n
  <2> QED
    BY <2>1, <2>3, <2>4, <2>5 DEF q, m, n
<1> DEFINE Within(f) == c[f - 1] + 1 .. c[f]
<1>6. \A f \in File : \A k \in Within(f) : k \in 1 .. Length
  <2> SUFFICES ASSUME NEW f \in File, NEW k \in Within(f) PROVE k \in 1 .. Length
    OBVIOUS
  <2> DEFINE a == c[f - 1]
             b == c[f]
  <2>1. a \in 0 .. Length /\ b \in 0 .. Length /\ Length \in Nat /\ k \in a + 1 .. b
    BY <1>4, CutAssumption
  <2> HIDE DEF a, b
  <2> QED
    BY <2>1
<1>7. \A f, g \in File : f < g => \A k \in Within(f), l \in Within(g) : k < l
  <2> SUFFICES ASSUME NEW f \in File, NEW g \in File, f < g,
                      NEW k \in Within(f), NEW l \in Within(g)
               PROVE  k < l
    OBVIOUS
  <2> DEFINE a == c[f - 1]
             b == c[f]
             d == c[g - 1]
             e == c[g]
  <2>1. /\ a \in 0 .. Length /\ b \in 0 .. Length /\ d \in 0 .. Length /\ e \in 0 .. Length
        /\ Length \in Nat /\ k \in a + 1 .. b /\ l \in d + 1 .. e /\ b <= d
    BY <1>4, CutAssumption
  <2> HIDE DEF a, b, d, e
  <2> QED
    BY <2>1
<1>8. ASSUME NEW f \in File PROVE raw[f] \in RawFile
  <2> DEFINE q == SubSeq(stream, c[f - 1] + 1, c[f])
  <2>1. raw[f] = [packets |-> q, cutOff |-> cutOff /\ f = Files]
    BY <1>1
  <2>2. /\ q \in Seq(Packet) /\ q # <<>> /\ DOMAIN q = 1 .. c[f] - c[f - 1]
        /\ \A i \in DOMAIN q : q[i] = stream[c[f - 1] + i] /\ c[f - 1] + i \in Within(f)
    BY <1>5
  <2>3. (cutOff /\ f = Files) \in BOOLEAN
    OBVIOUS
  <2> HIDE DEF q
  <2>4. Ascends(q)
    <3>1. \A i \in DOMAIN q : q[i].no = c[f - 1] + i
      BY <1>3, <1>6, <2>2
    <3>2. c[f - 1] \in Nat /\ c[f] \in Nat
      BY <1>4
    <3> QED
      BY <2>2, <3>1, <3>2 DEF Ascends
  <2> QED
    BY <2>1, <2>2, <2>3, <2>4 DEF RawFile
<1>9. ASSUME NEW f \in File, NEW p \in ToSet(raw[f].packets)
      PROVE  \E k \in Within(f) : p = stream[k]
  <2> DEFINE q == SubSeq(stream, c[f - 1] + 1, c[f])
  <2>1. raw[f].packets = q
    BY <1>1
  <2>2. \A i \in DOMAIN q : q[i] = stream[c[f - 1] + i] /\ c[f - 1] + i \in Within(f)
    BY <1>5
  <2> HIDE DEF q
  <2>3. PICK i \in DOMAIN q : p = q[i]
    BY <1>9, <2>1 DEF ToSet
  <2> QED
    BY <2>2, <2>3
<1>10. ASSUME NEW f \in File, NEW g \in File, f < g,
             NEW p \in ToSet(raw[f].packets), NEW q \in ToSet(raw[g].packets)
      PROVE  p.no < q.no /\ SecondOf(p) <= SecondOf(q)
  <2>1. PICK k \in Within(f) : p = stream[k]
    BY <1>9
  <2>2. PICK l \in Within(g) : q = stream[l]
    BY <1>9
  <2>3. k \in 1 .. Length /\ l \in 1 .. Length /\ k < l
    <3> HIDE DEF Within
    <3> QED
      BY <1>10, <1>6, <1>7
  <2>4. k <= l
    BY <2>3
  <2> QED
    BY <1>3, <2>1, <2>2, <2>3, <2>4, ClocksAscend
<1>11. raw \in [File -> RawFile]
  BY <1>1, <1>8
<1> QED
  BY <1>10, <1>11 DEF RawOK

(* No step of the cycle writes to a raw file.                               *)
LEMMA RawStays == [Next]_vars => raw' = raw
BY DEF Next, vars, SplitFile, UploadMid, PutPiece, SweepRest

(* The raw files are the stream cut in turn, throughout the cycle.          *)
THEOREM Recorder == Spec => []RawOK
<1>1. RawOK /\ [Next]_vars => RawOK'
  BY RawStays DEF RawOK
<1> QED
  BY InitRaw, <1>1, PTL DEF Spec

(* split_once makes of each file the segments Recording says it has.        *)
LEMMA Segments == RawOK => SplitAsRecorded
<1> SUFFICES ASSUME RawOK, NEW f \in File
             PROVE  LET pieces == SplitOnce(raw[f])
                    IN  /\ PieceSeconds(Processed(pieces)) = R!Processed(f)
                        /\ PieceSeconds(Unprocessed(pieces)) = R!Unprocessed(f)
                        /\ \A i, j \in DOMAIN pieces :
                              i < j => pieces[i].second < pieces[j].second
                        /\ \A i \in DOMAIN pieces :
                              pieces[i].position = R!Position(f, pieces[i].second)
  BY DEF SplitAsRecorded
<1> DEFINE r == raw[f]
           pieces == SplitOnce(r)
<1>1. r \in RawFile
  BY DEF RawOK
<1>2. \A s : R!Position(f, s) = PositionIn(r, s)
  BY DEF R!Position, PositionIn, SecondsOf
<1>3. /\ R!Processed(f) = {s \in SecondsOf(r) : PositionIn(r, s) = "MID"}
      /\ R!Unprocessed(f) = {s \in SecondsOf(r) : PositionIn(r, s) # "MID"}
  BY <1>2 DEF R!Processed, R!Unprocessed, SecondsOf
<1>4. \A s : PieceOf(r, s).second = s /\ PieceOf(r, s).position = PositionIn(r, s)
  BY DEF PieceOf
<1>5. ASSUME NEW positions
      PROVE  PieceSeconds(Listed(pieces, positions)) =
                {s \in SecondsOf(r) : PositionIn(r, s) \in positions}
  <2> DEFINE list == Listed(pieces, positions)
  <2>1. ToSet(list) = {PieceOf(r, s) : s \in
                         {t \in SecondsOf(r) : PositionIn(r, t) \in positions}}
    BY <1>1, ListsRight
  <2>2. PieceSeconds(list) = {p.second : p \in ToSet(list)}
    BY DEF PieceSeconds, ToSet
  <2> HIDE DEF list
  <2> QED
    BY <1>4, <2>1, <2>2 DEF list
<1>6. \A s : PositionIn(r, s) \in {"HEAD", "TAIL"} <=> PositionIn(r, s) # "MID"
  BY DEF PositionIn
<1>7. /\ PieceSeconds(Processed(pieces)) = R!Processed(f)
      /\ PieceSeconds(Unprocessed(pieces)) = R!Unprocessed(f)
  BY <1>3, <1>5, <1>6 DEF Processed, Unprocessed
<1>8. /\ BySecond(pieces)
      /\ \A i \in DOMAIN pieces : pieces[i] = PieceOf(r, pieces[i].second)
  BY <1>1, SplitRight
<1>9. \A i \in DOMAIN pieces : pieces[i].position = R!Position(f, pieces[i].second)
  <2> HIDE DEF pieces, r
  <2> QED
    BY <1>2, <1>4, <1>8
<1> QED
  BY <1>7, <1>8, <1>9 DEF BySecond

(* split_once makes of every file the segments Recording gives it.          *)
THEOREM SplitRecorded == Spec => []SplitAsRecorded
BY Recorder, Segments, PTL

-----------------------------------------------------------------------------
(* The workers' queues, and what each step takes from them. *)

(* The seconds a worker uploads itself, and those it hands to the manager.  *)
Mids(r)  == {s \in SecondsOf(r) : PositionIn(r, s) = "MID"}
Edges(r) == {s \in SecondsOf(r) : PositionIn(r, s) # "MID"}

(* The seconds of a file that are still to be uploaded, and to be sent.     *)
Left(f)    == IF f \in toSplit THEN Mids(raw[f]) ELSE PieceSeconds(toUpload[f])
Waiting(f) == IF f \in toSplit THEN Edges(raw[f]) ELSE PieceSeconds(toSend[f])

(* The files whose piece of an edge second the manager has seen.            *)
Delivered(s) == {f \in File : s \in Edges(raw[f]) \ Waiting(f)}

(* A worker's list of pieces of a file, by ascending second.                *)
Queue(q, r, seconds) ==
    /\ q \in Seq(Piece) /\ BySecond(q)
    /\ \A p \in ToSet(q) : p.second \in seconds /\ p = PieceOf(r, p.second)

(* Every queue holds pieces of its file, and nothing after the sweep.       *)
QueuesOK ==
    /\ toSplit \subseteq File
    /\ toUpload \in [File -> Seq(Piece)] /\ toSend \in [File -> Seq(Piece)]
    /\ \A f \in File : /\ Queue(toUpload[f], raw[f], Mids(raw[f]))
                       /\ Queue(toSend[f], raw[f], Edges(raw[f]))
                       /\ f \in toSplit => toUpload[f] = <<>> /\ toSend[f] = <<>>
    /\ swept => /\ toSplit = {}
                /\ \A f \in File : toUpload[f] = <<>> /\ toSend[f] = <<>>


(* Taking the first piece of a queue takes one second from it.              *)
LEMMA HeadAndTail ==
    ASSUME NEW r, NEW seconds, NEW q, Queue(q, r, seconds), q # <<>>,
           \A p \in Piece : p.second \in Nat
    PROVE  /\ Queue(Tail(q), r, seconds)
           /\ Head(q).second \in seconds /\ Head(q) = PieceOf(r, Head(q).second)
           /\ Head(q).second \in PieceSeconds(q)
           /\ PieceSeconds(Tail(q)) = PieceSeconds(q) \ {Head(q).second}
<1> DEFINE N == Len(q)
           h == Head(q)
           u == Tail(q)
<1>1. /\ q \in Seq(Piece) /\ BySecond(q) /\ N \in Nat \ {0} /\ DOMAIN q = 1 .. N
      /\ \A i \in 1 .. N : q[i] \in Piece
  BY LenProperties, EmptySeq, ElementOfSeq DEF Queue
<1>2. /\ u \in Seq(Piece) /\ Len(u) = N - 1 /\ h = q[1]
      /\ \A i \in 1 .. Len(u) : u[i] = q[i + 1]
  BY <1>1, HeadTailProperties
<1>3. DOMAIN u = 1 .. N - 1
  <2> HIDE DEF u, N
  <2> QED
    BY <1>2, LenProperties
<1> HIDE DEF N, h, u
<1>4. /\ \A i \in 1 .. N - 1 : i + 1 \in DOMAIN q /\ i + 1 \in 1 .. N
      /\ 1 \in DOMAIN q /\ \A i \in 1 .. N : i = 1 \/ (i - 1 \in 1 .. N - 1 /\ (i - 1) + 1 = i)
  BY <1>1
<1>5. \A i \in 1 .. N - 1 : u[i] = q[i + 1]
  BY <1>2
<1>6. BySecond(u)
  <2> SUFFICES ASSUME NEW i \in DOMAIN u, NEW j \in DOMAIN u, i < j
               PROVE  u[i].second < u[j].second
    BY DEF BySecond
  <2>1. i \in 1 .. N - 1 /\ j \in 1 .. N - 1 /\ i + 1 < j + 1
    BY <1>3
  <2> QED
    BY <1>1, <1>4, <1>5, <2>1 DEF BySecond
<1>7. \A p \in ToSet(u) : p \in ToSet(q)
  BY <1>3, <1>4, <1>5 DEF ToSet
<1>8. Queue(u, r, seconds)
  BY <1>2, <1>6, <1>7 DEF Queue
<1>9. h \in ToSet(q) /\ h.second \in PieceSeconds(q)
  BY <1>2, <1>4 DEF ToSet, PieceSeconds
<1>10. ASSUME NEW i \in 1 .. N - 1 PROVE u[i].second # h.second /\ u[i].second \in PieceSeconds(q)
  <2>1. 1 < i + 1
    OBVIOUS
  <2>2. q[1].second < q[i + 1].second
    BY <1>1, <1>4, <2>1 DEF BySecond
  <2>3. q[1].second \in Nat /\ q[i + 1].second \in Nat
    BY <1>1, <1>4
  <2> QED
    BY <1>2, <1>4, <1>5, <2>2, <2>3 DEF PieceSeconds
<1>11. ASSUME NEW i \in 1 .. N, q[i].second # h.second
       PROVE  q[i].second \in PieceSeconds(u)
  <2>1. i - 1 \in 1 .. N - 1 /\ (i - 1) + 1 = i
    BY <1>2, <1>4, <1>11
  <2>2. q[i] = u[i - 1] /\ i - 1 \in DOMAIN u
    BY <1>3, <1>5, <2>1
  <2> QED
    BY <2>2 DEF PieceSeconds
<1>12. PieceSeconds(u) = PieceSeconds(q) \ {h.second}
  <2>1. PieceSeconds(u) \subseteq PieceSeconds(q) \ {h.second}
    BY <1>3, <1>10 DEF PieceSeconds
  <2>2. PieceSeconds(q) \ {h.second} \subseteq PieceSeconds(u)
    <3> SUFFICES ASSUME NEW s \in PieceSeconds(q) \ {h.second} PROVE s \in PieceSeconds(u)
      OBVIOUS
    <3>1. PICK i \in 1 .. N : s = q[i].second
      BY <1>1 DEF PieceSeconds
    <3> QED
      BY <1>11, <3>1
  <2> QED
    BY <2>1, <2>2
<1> QED
  BY <1>8, <1>9, <1>12 DEF Queue, h, u

(* The second of a piece is a number.                                       *)
LEMMA PieceSecond == \A p \in Piece : p.second \in Nat
<1>1. Second \subseteq Nat
  BY CutAssumption DEF Second
<1> QED
  BY <1>1 DEF Piece

(* The lists split_once returns are the queues of its worker.               *)
LEMMA NewQueues ==
    ASSUME NEW r \in RawFile
    PROVE  LET pieces == SplitOnce(r)
           IN  /\ Queue(Processed(pieces), r, Mids(r))
               /\ PieceSeconds(Processed(pieces)) = Mids(r)
               /\ Queue(Unprocessed(pieces), r, Edges(r))
               /\ PieceSeconds(Unprocessed(pieces)) = Edges(r)
<1> DEFINE pieces == SplitOnce(r)
<1>1. ASSUME NEW positions, NEW seconds,
             seconds = {t \in SecondsOf(r) : PositionIn(r, t) \in positions}
      PROVE  /\ Queue(Listed(pieces, positions), r, seconds)
             /\ PieceSeconds(Listed(pieces, positions)) = seconds
  <2> DEFINE list == Listed(pieces, positions)
  <2>1. /\ list \in Seq(Piece) /\ BySecond(list)
        /\ ToSet(list) = {PieceOf(r, s) : s \in seconds}
    BY <1>1, ListsRight
  <2>2. \A s : PieceOf(r, s).second = s
    BY DEF PieceOf
  <2>3. PieceSeconds(list) = {p.second : p \in ToSet(list)}
    BY DEF PieceSeconds, ToSet
  <2> HIDE DEF list
  <2>4. Queue(list, r, seconds)
    BY <2>1, <2>2 DEF Queue
  <2>5. PieceSeconds(list) = seconds
    BY <2>1, <2>2, <2>3
  <2> QED
    BY <2>4, <2>5 DEF list
<1>2. /\ Mids(r) = {t \in SecondsOf(r) : PositionIn(r, t) \in {"MID"}}
      /\ Edges(r) = {t \in SecondsOf(r) : PositionIn(r, t) \in {"HEAD", "TAIL"}}
  BY DEF Mids, Edges, PositionIn
<1> HIDE DEF pieces
<1>3. /\ Processed(pieces) = Listed(pieces, {"MID"})
      /\ Unprocessed(pieces) = Listed(pieces, {"HEAD", "TAIL"})
  BY DEF Processed, Unprocessed
<1> QED
  BY <1>1, <1>2, <1>3 DEF pieces

(* Every step keeps the queues right.                                       *)
LEMMA QueuesKept == RawOK /\ QueuesOK /\ [Next]_vars => QueuesOK'
<1> SUFFICES ASSUME RawOK, QueuesOK, [Next]_vars PROVE QueuesOK'
  OBVIOUS
<1>1. /\ toUpload \in [File -> Seq(Piece)] /\ toSend \in [File -> Seq(Piece)]
      /\ raw' = raw /\ \A g \in File : raw[g] \in RawFile
  BY RawStays DEF QueuesOK, RawOK
<1>2. ASSUME NEW f \in File, SplitFile(f) PROVE QueuesOK'
  <2> DEFINE pieces == SplitOnce(raw[f])
  <2>1. /\ Queue(Processed(pieces), raw[f], Mids(raw[f]))
        /\ Queue(Unprocessed(pieces), raw[f], Edges(raw[f]))
    BY <1>1, NewQueues
  <2>2. /\ f \in toSplit /\ toSplit' = toSplit \ {f} /\ swept' = swept
        /\ toUpload' = [toUpload EXCEPT ![f] = Processed(pieces)]
        /\ toSend' = [toSend EXCEPT ![f] = Unprocessed(pieces)]
    BY <1>2 DEF SplitFile
  <2> HIDE DEF pieces
  <2>3. toUpload' \in [File -> Seq(Piece)] /\ toSend' \in [File -> Seq(Piece)]
    BY <1>1, <2>1, <2>2 DEF Queue
  <2>4. ASSUME NEW g \in File
        PROVE  /\ Queue(toUpload'[g], raw[g], Mids(raw[g]))
               /\ Queue(toSend'[g], raw[g], Edges(raw[g]))
               /\ g \in toSplit' => toUpload'[g] = <<>> /\ toSend'[g] = <<>>
    <3>1. CASE g = f
      BY <1>1, <2>1, <2>2, <3>1
    <3>2. CASE g # f
      BY <1>1, <2>2, <3>2 DEF QueuesOK
    <3> QED
      BY <3>1, <3>2
  <2> QED
    BY <1>1, <2>2, <2>3, <2>4 DEF QueuesOK
<1>3. ASSUME NEW f \in File, UploadMid(f) PROVE QueuesOK'
  <2>1. /\ toUpload[f] # <<>> /\ toUpload' = [toUpload EXCEPT ![f] = Tail(toUpload[f])]
        /\ toSplit' = toSplit /\ toSend' = toSend /\ swept' = swept
    BY <1>3 DEF UploadMid
  <2>2. Queue(Tail(toUpload[f]), raw[f], Mids(raw[f]))
    BY <2>1, HeadAndTail, PieceSecond DEF QueuesOK
  <2>3. toUpload' \in [File -> Seq(Piece)] /\ toSend' \in [File -> Seq(Piece)]
    BY <1>1, <2>1, <2>2 DEF Queue
  <2>4. ASSUME NEW g \in File
        PROVE  /\ Queue(toUpload'[g], raw[g], Mids(raw[g]))
               /\ g \in toSplit => toUpload'[g] = <<>>
    BY <1>1, <2>1, <2>2 DEF QueuesOK
  <2> QED
    BY <1>1, <2>1, <2>3, <2>4 DEF QueuesOK
<1>4. ASSUME NEW f \in File, PutPiece(f) PROVE QueuesOK'
  <2>1. /\ toSend[f] # <<>> /\ toSend' = [toSend EXCEPT ![f] = Tail(toSend[f])]
        /\ toSplit' = toSplit /\ toUpload' = toUpload /\ swept' = swept
    BY <1>4 DEF PutPiece
  <2>2. Queue(Tail(toSend[f]), raw[f], Edges(raw[f]))
    BY <2>1, HeadAndTail, PieceSecond DEF QueuesOK
  <2>3. toUpload' \in [File -> Seq(Piece)] /\ toSend' \in [File -> Seq(Piece)]
    BY <1>1, <2>1, <2>2 DEF Queue
  <2>4. ASSUME NEW g \in File
        PROVE  /\ Queue(toSend'[g], raw[g], Edges(raw[g]))
               /\ g \in toSplit => toSend'[g] = <<>>
    BY <1>1, <2>1, <2>2 DEF QueuesOK
  <2> QED
    BY <1>1, <2>1, <2>3, <2>4 DEF QueuesOK
<1>5. CASE SweepRest
  BY <1>1, <1>5 DEF SweepRest, QueuesOK
<1>6. CASE UNCHANGED vars
  BY <1>6 DEF vars, QueuesOK
<1> QED
  BY <1>2, <1>3, <1>4, <1>5, <1>6 DEF Next

(* They are right before the first file is split.                           *)
LEMMA InitQueues == Init => QueuesOK
<1> SUFFICES ASSUME Init PROVE QueuesOK
  OBVIOUS
<1> DEFINE none == <<>>
<1>1. none \in Seq(Piece) /\ DOMAIN none = {} /\ ToSet(none) = {}
  BY DEF ToSet
<1>2. /\ toSplit = File /\ toUpload = [f \in File |-> none]
      /\ toSend = [f \in File |-> none] /\ swept = FALSE
  BY DEF Init
<1> HIDE DEF none
<1>3. \A r, seconds : Queue(none, r, seconds)
  BY <1>1 DEF Queue, BySecond
<1>4. \A f \in File : toUpload[f] = none /\ toSend[f] = none
  BY <1>2
<1>5. toUpload \in [File -> Seq(Piece)] /\ toSend \in [File -> Seq(Piece)]
  BY <1>1, <1>2
<1> QED
  BY <1>2, <1>3, <1>4, <1>5 DEF QueuesOK, none

(* Splitting a file only says where its pieces wait.                        *)
LEMMA SplitEffect ==
    ASSUME RawOK, QueuesOK, NEW f \in File, SplitFile(f)
    PROVE  \A g \in File : Left(g)' = Left(g) /\ Waiting(g)' = Waiting(g)
<1> DEFINE pieces == SplitOnce(raw[f])
<1>1. /\ PieceSeconds(Processed(pieces)) = Mids(raw[f])
      /\ PieceSeconds(Unprocessed(pieces)) = Edges(raw[f])
  BY NewQueues DEF RawOK
<1>2. /\ f \in toSplit /\ toSplit' = toSplit \ {f} /\ raw' = raw
      /\ toUpload' = [toUpload EXCEPT ![f] = Processed(pieces)]
      /\ toSend' = [toSend EXCEPT ![f] = Unprocessed(pieces)]
      /\ toUpload \in [File -> Seq(Piece)] /\ toSend \in [File -> Seq(Piece)]
  BY DEF SplitFile, QueuesOK
<1> HIDE DEF pieces
<1> SUFFICES ASSUME NEW g \in File
             PROVE  Left(g)' = Left(g) /\ Waiting(g)' = Waiting(g)
  OBVIOUS
<1>3. CASE g = f
  BY <1>1, <1>2, <1>3 DEF Left, Waiting
<1>4. CASE g # f
  BY <1>2, <1>4 DEF Left, Waiting
<1> QED
  BY <1>3, <1>4

(* An upload takes one complete second of one file from what is left.       *)
LEMMA UploadEffect ==
    ASSUME RawOK, QueuesOK, NEW f \in File, UploadMid(f)
    PROVE  \E s \in Mids(raw[f]) :
              /\ object' = [object EXCEPT ![<<"split", s>>] = GroupOf(raw[f], s)]
              /\ s \in Left(f)
              /\ \A g \in File : /\ Left(g)' = IF g = f THEN Left(g) \ {s} ELSE Left(g)
                                 /\ Waiting(g)' = Waiting(g)
<1> DEFINE h == Head(toUpload[f])
           s == h.second
<1>1. /\ toUpload[f] # <<>> /\ toUpload' = [toUpload EXCEPT ![f] = Tail(toUpload[f])]
      /\ toSplit' = toSplit /\ toSend' = toSend /\ raw' = raw
      /\ object' = [object EXCEPT ![<<"split", s>>] = h.packets]
  BY DEF UploadMid
<1>2. /\ s \in Mids(raw[f]) /\ h = PieceOf(raw[f], s) /\ s \in PieceSeconds(toUpload[f])
      /\ PieceSeconds(Tail(toUpload[f])) = PieceSeconds(toUpload[f]) \ {s}
  BY <1>1, HeadAndTail, PieceSecond DEF QueuesOK
<1> HIDE DEF s
<1>3. h.packets = GroupOf(raw[f], s)
  BY <1>2 DEF PieceOf
<1> HIDE DEF h
<1>4. toUpload \in [File -> Seq(Piece)] /\ f \notin toSplit
  BY <1>1 DEF QueuesOK
<1>5. \A g \in File : Waiting(g)' = Waiting(g)
  BY <1>1 DEF Waiting
<1>6. \A g \in File : Left(g)' = IF g = f THEN Left(g) \ {s} ELSE Left(g)
  BY <1>1, <1>2, <1>4 DEF Left
<1>7. s \in Left(f)
  BY <1>2, <1>4 DEF Left
<1> QED
  BY <1>1, <1>2, <1>3, <1>5, <1>6, <1>7

(* A delivery brings one edge second of one file to the manager.            *)
LEMMA PutEffect ==
    ASSUME RawOK, QueuesOK, NEW f \in File, PutPiece(f)
    PROVE  \E s \in Edges(raw[f]) :
              LET piece == PieceOf(raw[f], s)
                  put == Put(buckets, s, piece)
              IN  /\ buckets' = put.buckets
                  /\ object' = IF put.paired = <<>> THEN object
                               ELSE [object EXCEPT ![<<"merged", s>>] =
                                         MergePcapFiles(put.paired)]
                  /\ f \notin Delivered(s) /\ Delivered(s)' = Delivered(s) \cup {f}
                  /\ \A t : t # s => Delivered(t)' = Delivered(t)
                  /\ \A g \in File : Left(g)' = Left(g)
<1> DEFINE h == Head(toSend[f])
<1> PICK s : s = h.second
  OBVIOUS
<1>1. /\ toSend[f] # <<>> /\ toSend' = [toSend EXCEPT ![f] = Tail(toSend[f])]
      /\ toSplit' = toSplit /\ toUpload' = toUpload /\ raw' = raw
      /\ buckets' = Put(buckets, s, h).buckets
      /\ object' = IF Put(buckets, s, h).paired = <<>> THEN object
                   ELSE [object EXCEPT ![<<"merged", s>>] =
                             MergePcapFiles(Put(buckets, s, h).paired)]
  BY DEF PutPiece
<1>2. /\ s \in Edges(raw[f]) /\ h = PieceOf(raw[f], s) /\ s \in PieceSeconds(toSend[f])
      /\ PieceSeconds(Tail(toSend[f])) = PieceSeconds(toSend[f]) \ {s}
  BY <1>1, HeadAndTail, PieceSecond DEF QueuesOK
<1> HIDE DEF h
<1>3. toSend \in [File -> Seq(Piece)] /\ f \notin toSplit
  BY <1>1 DEF QueuesOK
<1>4. \A g \in File : Left(g)' = Left(g)
  BY <1>1 DEF Left
<1>5. \A g \in File : Waiting(g)' = IF g = f THEN Waiting(g) \ {s} ELSE Waiting(g)
  BY <1>1, <1>2, <1>3 DEF Waiting
<1>6. s \in Waiting(f)
  BY <1>2, <1>3 DEF Waiting
<1>7. \A t : Delivered(t)' = {g \in File : t \in Edges(raw[g]) \ Waiting(g)'}
  BY <1>1 DEF Delivered
<1>8. /\ f \notin Delivered(s) /\ Delivered(s)' = Delivered(s) \cup {f}
      /\ \A t : t # s => Delivered(t)' = Delivered(t)
  <2>1. f \notin Delivered(s)
    BY <1>6 DEF Delivered
  <2>2. Delivered(s)' = Delivered(s) \cup {f}
    BY <1>2, <1>5, <1>7 DEF Delivered
  <2>3. ASSUME NEW t, t # s PROVE Delivered(t)' = Delivered(t)
    <3>1. \A g \in File : t \in Waiting(g)' <=> t \in Waiting(g)
      BY <1>5, <2>3
    <3> QED
      BY <1>7, <3>1 DEF Delivered
  <2> QED
    BY <2>1, <2>2, <2>3
<1> QED
  BY <1>1, <1>2, <1>4, <1>8

-----------------------------------------------------------------------------
(* What can be made of a second. *)

(* Merged in either order, from two files.                                  *)
PairOf(s, f, g) == GroupOf(raw[f], s) \o GroupOf(raw[g], s)

(* What there can be of a second, whoever delivered in which order: ...     *)
SplitMade(s) ==
    \/ /\ object[<<"split", s>>] = <<>>
       /\ \A f \in File : s \in Mids(raw[f]) => s \in Left(f)
    \/ \E f \in File : /\ s \in Mids(raw[f]) \ Left(f)
                       /\ object[<<"split", s>>] = GroupOf(raw[f], s)

(* ... a bucket is empty or holds one piece that was delivered, ...         *)
BucketMade(s) ==
    \/ buckets[s] = <<>>
    \/ \E f \in Delivered(s) : buckets[s] = <<PieceOf(raw[f], s)>>

(* ... a merged object has one delivered piece, or two of two files.        *)
MergedMade(s) ==
    \/ object[<<"merged", s>>] = <<>>
    \/ \E f \in Delivered(s) : object[<<"merged", s>>] = GroupOf(raw[f], s)
    \/ \E f, g \in Delivered(s) : f # g /\ object[<<"merged", s>>] = PairOf(s, f, g)

(* Each second is made from delivered pieces; the sweep empties buckets.    *)
Made ==
    /\ object \in [ObjectName -> Seq(Packet)] /\ buckets \in [Second -> Seq(Piece)]
    /\ \A s \in Second : SplitMade(s) /\ BucketMade(s) /\ MergedMade(s)
    /\ swept => buckets = NoBuckets(Second)


(* The first piece of a key waits, ...                                      *)
LEMMA PutFirst ==
    ASSUME NEW b, NEW k, NEW item, b[k] = <<>>
    PROVE  Put(b, k, item) = [buckets |-> [b EXCEPT ![k] = <<item>>], paired |-> <<>>]
BY DEF Put

(* ... the second one leaves with it.                                       *)
LEMMA PutSecond ==
    ASSUME NEW b, NEW k, NEW item, NEW other, b[k] = <<other>>
    PROVE  Put(b, k, item) = [buckets |-> [b EXCEPT ![k] = <<>>], paired |-> <<other, item>>]
BY DEF Put

(* A second of a file has a piece, with that file's packets.                *)
LEMMA EdgeGroup ==
    ASSUME RawOK, NEW f \in File, NEW s \in Mids(raw[f]) \cup Edges(raw[f])
    PROVE  /\ s \in SecondsOf(raw[f]) /\ s \in Second
           /\ GroupOf(raw[f], s) \in Seq(Packet)
           /\ PieceOf(raw[f], s) \in Piece
           /\ PieceOf(raw[f], s).packets = GroupOf(raw[f], s)
BY GroupRight DEF RawOK, Mids, Edges, PieceOf, Piece, PositionIn

(* At first everything is still to be uploaded or sent.                     *)
LEMMA NothingDelivered ==
    Init => \A f \in File : Left(f) = Mids(raw[f]) /\ Waiting(f) = Edges(raw[f])
BY DEF Init, Left, Waiting

(* At first nothing is made.                                                *)
LEMMA InitMade == Init => Made
<1> SUFFICES ASSUME Init PROVE Made
  OBVIOUS
<1> DEFINE none == <<>>
<1>1. /\ object = [n \in ObjectName |-> none] /\ buckets = [s \in Second |-> none]
      /\ swept = FALSE
  BY DEF Init, NoBuckets
<1>2. none \in Seq(Packet) /\ none \in Seq(Piece)
  OBVIOUS
<1> HIDE DEF none
<1>3. \A s \in Second : <<"split", s>> \in ObjectName /\ <<"merged", s>> \in ObjectName
  BY DEF ObjectName
<1>4. \A s \in Second : /\ object[<<"split", s>>] = none /\ object[<<"merged", s>>] = none
                        /\ buckets[s] = none
  BY <1>1, <1>3
<1>5. object \in [ObjectName -> Seq(Packet)] /\ buckets \in [Second -> Seq(Piece)]
  BY <1>1, <1>2
<1>6. ASSUME NEW s \in Second PROVE SplitMade(s) /\ BucketMade(s) /\ MergedMade(s)
  BY <1>4, NothingDelivered DEF SplitMade, BucketMade, MergedMade, none
<1> QED
  BY <1>1, <1>5, <1>6 DEF Made

(* What is delivered changes only with what waits.                          *)
LEMMA DeliveredStays ==
    ASSUME raw' = raw, \A g \in File : Waiting(g)' = Waiting(g)
    PROVE  \A s : Delivered(s)' = Delivered(s)
BY DEF Delivered

(* A merged object that is not written stays well made.                     *)
LEMMA MergedStays ==
    ASSUME raw' = raw, NEW s, MergedMade(s), object'[<<"merged", s>>] = object[<<"merged", s>>],
           Delivered(s) \subseteq Delivered(s)'
    PROVE  MergedMade(s)'
<1>1. CASE object[<<"merged", s>>] = <<>>
  BY <1>1 DEF MergedMade
<1>2. CASE \E f \in Delivered(s) : object[<<"merged", s>>] = GroupOf(raw[f], s)
  <2>1. \E f \in Delivered(s)' : object'[<<"merged", s>>] = GroupOf(raw'[f], s)
    BY <1>2
  <2> QED
    BY <2>1 DEF MergedMade
<1>3. CASE \E f, g \in Delivered(s) : f # g /\ object[<<"merged", s>>] = PairOf(s, f, g)
  <2>1. \E f, g \in Delivered(s)' :
           f # g /\ object'[<<"merged", s>>] = GroupOf(raw'[f], s) \o GroupOf(raw'[g], s)
    BY <1>3 DEF PairOf
  <2> QED
    BY <2>1 DEF MergedMade, PairOf
<1> QED
  BY <1>1, <1>2, <1>3 DEF MergedMade

(* A piece waits for its other half, or finds it and is merged with it.     *)
LEMMA PutResult ==
    ASSUME RawOK, QueuesOK, Made, NEW f \in File, PutPiece(f)
    PROVE  \E t \in Edges(raw[f]) :
              /\ t \in Second
              /\ f \notin Delivered(t) /\ Delivered(t)' = Delivered(t) \cup {f}
              /\ \A s : s # t => Delivered(s)' = Delivered(s)
              /\ \A g \in File : Left(g)' = Left(g)
              /\ \/ /\ buckets[t] = <<>> /\ object' = object
                    /\ buckets' = [buckets EXCEPT ![t] = <<PieceOf(raw[f], t)>>]
                 \/ \E g \in Delivered(t) :
                       /\ buckets[t] = <<PieceOf(raw[g], t)>>
                       /\ buckets' = [buckets EXCEPT ![t] = <<>>]
                       /\ object' = [object EXCEPT ![<<"merged", t>>] = PairOf(t, g, f)]
<1>1. PICK t \in Edges(raw[f]) :
            LET piece == PieceOf(raw[f], t)
                put == Put(buckets, t, piece)
            IN  /\ buckets' = put.buckets
                /\ object' = IF put.paired = <<>> THEN object
                             ELSE [object EXCEPT ![<<"merged", t>>] =
                                       MergePcapFiles(put.paired)]
                /\ f \notin Delivered(t) /\ Delivered(t)' = Delivered(t) \cup {f}
                /\ \A s : s # t => Delivered(s)' = Delivered(s)
                /\ \A g \in File : Left(g)' = Left(g)
  BY PutEffect
<1>2. /\ t \in Second /\ GroupOf(raw[f], t) \in Seq(Packet)
      /\ PieceOf(raw[f], t).packets = GroupOf(raw[f], t)
  BY EdgeGroup
<1>3. CASE buckets[t] = <<>>
  <2>1. /\ buckets' = [buckets EXCEPT ![t] = <<PieceOf(raw[f], t)>>] /\ object' = object
    BY <1>1, <1>3, PutFirst
  <2> QED
    BY <1>1, <1>2, <1>3, <2>1
<1>4. CASE buckets[t] # <<>>
  <2>1. PICK g \in Delivered(t) : buckets[t] = <<PieceOf(raw[g], t)>>
    BY <1>2, <1>4 DEF Made, BucketMade
  <2>2. g \in File /\ t \in Edges(raw[g])
    BY DEF Delivered
  <2>3. /\ PieceOf(raw[g], t).packets = GroupOf(raw[g], t)
        /\ GroupOf(raw[g], t) \in Seq(Packet)
    BY <2>2, EdgeGroup
  <2>4. MergePcapFiles(<<PieceOf(raw[g], t), PieceOf(raw[f], t)>>) = PairOf(t, g, f)
    BY <1>2, <2>3, MergeOfTwo DEF PairOf
  <2>5. /\ buckets' = [buckets EXCEPT ![t] = <<>>]
        /\ object' = [object EXCEPT ![<<"merged", t>>] = PairOf(t, g, f)]
    <3> DEFINE a == PieceOf(raw[g], t)
               b == PieceOf(raw[f], t)
    <3>1. Put(buckets, t, b) = [buckets |-> [buckets EXCEPT ![t] = <<>>], paired |-> <<a, b>>]
      BY <2>1, PutSecond
    <3>2. <<a, b>> # <<>>
      OBVIOUS
    <3> HIDE DEF a, b
    <3>3. /\ Put(buckets, t, b).buckets = [buckets EXCEPT ![t] = <<>>]
          /\ Put(buckets, t, b).paired = <<a, b>>
      BY <3>1
    <3> QED
      BY <1>1, <2>4, <3>2, <3>3 DEF a, b
  <2> QED
    BY <1>1, <1>2, <2>1, <2>5
<1> QED
  BY <1>3, <1>4

(* At the end what waits is uploaded alone, the rest stays as it is.        *)
LEMMA SweepResult ==
    ASSUME RawOK, Made, SweepRest
    PROVE  /\ \A g \in File : Left(g)' = Left(g)
           /\ \A s \in Second :
                 /\ Delivered(s)' = Delivered(s) /\ buckets'[s] = <<>>
                 /\ object'[<<"split", s>>] = object[<<"split", s>>]
                 /\ \/ /\ buckets[s] = <<>>
                       /\ object'[<<"merged", s>>] = object[<<"merged", s>>]
                    \/ \E f \in Delivered(s) :
                          /\ buckets[s] = <<PieceOf(raw[f], s)>>
                          /\ object'[<<"merged", s>>] = GroupOf(raw[f], s)
                          /\ GroupOf(raw[f], s) \in Seq(Packet)
<1>1. /\ object' = [n \in ObjectName |->
                      IF n[1] = "merged" /\ buckets[n[2]] # <<>>
                      THEN buckets[n[2]][1].packets ELSE object[n]]
      /\ buckets' = NoBuckets(Second) /\ raw' = raw
      /\ toSplit' = toSplit /\ toUpload' = toUpload /\ toSend' = toSend
  BY DEF SweepRest
<1>2. \A g \in File : Left(g)' = Left(g) /\ Waiting(g)' = Waiting(g)
  BY <1>1 DEF Left, Waiting
<1>3. \A s \in Second : Delivered(s)' = Delivered(s)
  BY <1>1, <1>2, DeliveredStays
<1>4. \A s \in Second :
         /\ object'[<<"split", s>>] = object[<<"split", s>>]
         /\ object'[<<"merged", s>>] = IF buckets[s] # <<>> THEN buckets[s][1].packets
                                       ELSE object[<<"merged", s>>]
  BY <1>1 DEF ObjectName
<1>5. \A s \in Second : buckets'[s] = <<>>
  BY <1>1 DEF NoBuckets
<1>6. ASSUME NEW s \in Second, buckets[s] # <<>>
      PROVE  \E f \in Delivered(s) : /\ buckets[s] = <<PieceOf(raw[f], s)>>
                                     /\ object'[<<"merged", s>>] = GroupOf(raw[f], s)
                                     /\ GroupOf(raw[f], s) \in Seq(Packet)
  <2>1. PICK f \in Delivered(s) : buckets[s] = <<PieceOf(raw[f], s)>>
    BY <1>6 DEF Made, BucketMade
  <2>2. f \in File /\ s \in Edges(raw[f])
    BY DEF Delivered
  <2>3. /\ PieceOf(raw[f], s).packets = GroupOf(raw[f], s)
        /\ GroupOf(raw[f], s) \in Seq(Packet)
    BY <2>2, EdgeGroup
  <2>4. buckets[s][1] = PieceOf(raw[f], s)
    BY <2>1
  <2> QED
    BY <1>4, <1>6, <2>1, <2>3, <2>4
<1> QED
  BY <1>2, <1>3, <1>4, <1>5, <1>6

(* Every step makes objects from delivered pieces only.                     *)
LEMMA MadeKept == RawOK /\ QueuesOK /\ Made /\ [Next]_vars => Made'
<1> SUFFICES ASSUME RawOK, QueuesOK, Made, [Next]_vars PROVE Made'
  OBVIOUS
<1>1. /\ raw' = raw
      /\ object \in [ObjectName -> Seq(Packet)] /\ buckets \in [Second -> Seq(Piece)]
      /\ swept => buckets = NoBuckets(Second)
      /\ \A s \in Second : SplitMade(s) /\ BucketMade(s) /\ MergedMade(s)
  BY RawStays DEF Made
<1>2. \A s \in Second : <<"split", s>> \in ObjectName /\ <<"merged", s>> \in ObjectName
  BY DEF ObjectName
<1>3. ASSUME NEW s \in Second, object'[<<"split", s>>] = object[<<"split", s>>],
             \A g \in File : Left(g)' = Left(g)
      PROVE  SplitMade(s)'
  BY <1>1, <1>3 DEF SplitMade
<1>4. ASSUME NEW s \in Second, Delivered(s)' = Delivered(s), buckets'[s] = buckets[s],
             object'[<<"merged", s>>] = object[<<"merged", s>>]
      PROVE  BucketMade(s)' /\ MergedMade(s)'
  BY <1>1, <1>4 DEF BucketMade, MergedMade, PairOf
<1>5. ASSUME NEW f \in File, SplitFile(f) PROVE Made'
  <2>1. object' = object /\ buckets' = buckets /\ swept' = swept
    BY <1>5 DEF SplitFile
  <2>2. \A g \in File : Left(g)' = Left(g) /\ Waiting(g)' = Waiting(g)
    BY <1>5, SplitEffect
  <2>3. \A s \in Second : Delivered(s)' = Delivered(s)
    BY <1>1, <2>2, DeliveredStays
  <2>4. \A s \in Second : SplitMade(s)' /\ BucketMade(s)' /\ MergedMade(s)'
    BY <1>3, <1>4, <2>1, <2>2, <2>3
  <2> QED
    BY <1>1, <2>1, <2>4 DEF Made
<1>6. ASSUME NEW f \in File, UploadMid(f) PROVE Made'
  <2>1. PICK t \in Mids(raw[f]) :
              /\ object' = [object EXCEPT ![<<"split", t>>] = GroupOf(raw[f], t)]
              /\ t \in Left(f)
              /\ \A g \in File : /\ Left(g)' = IF g = f THEN Left(g) \ {t} ELSE Left(g)
                                 /\ Waiting(g)' = Waiting(g)
    BY <1>6, UploadEffect
  <2>2. buckets' = buckets /\ swept' = swept
    BY <1>6 DEF UploadMid
  <2>3. GroupOf(raw[f], t) \in Seq(Packet) /\ t \in Second
    BY EdgeGroup
  <2>4. object' \in [ObjectName -> Seq(Packet)]
    BY <1>1, <2>1, <2>3
  <2>5. \A s \in Second : /\ object'[<<"merged", s>>] = object[<<"merged", s>>]
                          /\ object'[<<"split", s>>] = IF s = t THEN GroupOf(raw[f], t)
                                                       ELSE object[<<"split", s>>]
    BY <1>1, <1>2, <2>1
  <2>6. \A s \in Second : Delivered(s)' = Delivered(s)
    BY <1>1, <2>1, DeliveredStays
  <2>7. \A s \in Second : BucketMade(s)' /\ MergedMade(s)'
    BY <1>4, <2>2, <2>5, <2>6
  <2>8. ASSUME NEW s \in Second PROVE SplitMade(s)'
    <3>1. CASE s = t
      <4>1. t \in Mids(raw[f]) \ Left(f)' /\ object'[<<"split", s>>] = GroupOf(raw[f], t)
        BY <2>1, <2>5, <3>1
      <4> QED
        BY <1>1, <3>1, <4>1 DEF SplitMade
    <3>2. CASE s # t
      <4>1. \A g \in File : s \in Left(g)' <=> s \in Left(g)
        BY <2>1, <3>2
      <4> QED
        BY <1>1, <2>5, <3>2, <4>1 DEF SplitMade
    <3> QED
      BY <3>1, <3>2
  <2> QED
    BY <1>1, <2>2, <2>4, <2>7, <2>8 DEF Made
<1>7. ASSUME NEW f \in File, PutPiece(f) PROVE Made'
  <2>1. PICK t \in Edges(raw[f]) :
              /\ t \in Second
              /\ f \notin Delivered(t) /\ Delivered(t)' = Delivered(t) \cup {f}
              /\ \A s : s # t => Delivered(s)' = Delivered(s)
              /\ \A g \in File : Left(g)' = Left(g)
              /\ \/ /\ buckets[t] = <<>> /\ object' = object
                    /\ buckets' = [buckets EXCEPT ![t] = <<PieceOf(raw[f], t)>>]
                 \/ \E g \in Delivered(t) :
                       /\ buckets[t] = <<PieceOf(raw[g], t)>>
                       /\ buckets' = [buckets EXCEPT ![t] = <<>>]
                       /\ object' = [object EXCEPT ![<<"merged", t>>] = PairOf(t, g, f)]
    BY <1>7, PutResult
  <2>2. /\ swept' = swept /\ ~swept
    BY <1>7 DEF PutPiece, QueuesOK
  <2>3. PieceOf(raw[f], t) \in Piece /\ GroupOf(raw[f], t) \in Seq(Packet)
    BY EdgeGroup
  <2>4. CASE /\ object' = object
             /\ buckets' = [buckets EXCEPT ![t] = <<PieceOf(raw[f], t)>>]
    <3>1. buckets' \in [Second -> Seq(Piece)]
      <4>1. <<PieceOf(raw[f], t)>> \in Seq(Piece)
        BY <2>3
      <4> QED
        BY <1>1, <2>4, <4>1
    <3>2. BucketMade(t)'
      BY <1>1, <2>1, <2>4 DEF BucketMade
    <3>3. MergedMade(t)'
      BY <1>1, <2>1, <2>4, MergedStays
    <3>4. \A s \in Second : s # t => BucketMade(s)' /\ MergedMade(s)'
      BY <1>1, <1>4, <2>1, <2>4
    <3>5. \A s \in Second : SplitMade(s)'
      BY <1>3, <2>1, <2>4
    <3> QED
      BY <1>1, <2>2, <2>4, <3>1, <3>2, <3>3, <3>4, <3>5 DEF Made
  <2>5. ASSUME NEW g \in Delivered(t),
               buckets' = [buckets EXCEPT ![t] = <<>>],
               object' = [object EXCEPT ![<<"merged", t>>] = PairOf(t, g, f)]
        PROVE  Made'
    <3>1. g \in File /\ g # f /\ t \in Edges(raw[g])
      BY <2>1 DEF Delivered
    <3>2. PairOf(t, g, f) \in Seq(Packet)
      BY <2>3, <3>1, EdgeGroup, ConcatProperties DEF PairOf
    <3>3. object' \in [ObjectName -> Seq(Packet)]
      BY <1>1, <2>5, <3>2
    <3>4. buckets' \in [Second -> Seq(Piece)]
      <4> DEFINE none == <<>>
      <4>1. none \in Seq(Piece) /\ buckets' = [buckets EXCEPT ![t] = none]
        BY <2>5
      <4> HIDE DEF none
      <4> QED
        BY <1>1, <4>1
    <3>5. BucketMade(t)'
      BY <1>1, <2>1, <2>5 DEF BucketMade
    <3>6. MergedMade(t)'
      <4>1. object'[<<"merged", t>>] = PairOf(t, g, f)
        BY <1>1, <1>2, <2>1, <2>5
      <4>2. PairOf(t, g, f)' = PairOf(t, g, f)
        BY <1>1 DEF PairOf
      <4>3. g \in Delivered(t)' /\ f \in Delivered(t)'
        BY <2>1
      <4> QED
        BY <3>1, <4>1, <4>2, <4>3 DEF MergedMade
    <3>7. \A s \in Second : s # t => BucketMade(s)' /\ MergedMade(s)'
      BY <1>1, <1>2, <1>4, <2>1, <2>5
    <3>8. \A s \in Second : SplitMade(s)'
      BY <1>1, <1>2, <1>3, <2>1, <2>5
    <3> QED
      BY <1>1, <2>2, <3>3, <3>4, <3>5, <3>6, <3>7, <3>8 DEF Made
  <2> QED
    BY <2>1, <2>4, <2>5
<1>8. CASE SweepRest
  <2>1. /\ \A g \in File : Left(g)' = Left(g)
        /\ \A s \in Second :
              /\ Delivered(s)' = Delivered(s) /\ buckets'[s] = <<>>
              /\ object'[<<"split", s>>] = object[<<"split", s>>]
              /\ \/ /\ buckets[s] = <<>>
                    /\ object'[<<"merged", s>>] = object[<<"merged", s>>]
                 \/ \E f \in Delivered(s) :
                       /\ buckets[s] = <<PieceOf(raw[f], s)>>
                       /\ object'[<<"merged", s>>] = GroupOf(raw[f], s)
                       /\ GroupOf(raw[f], s) \in Seq(Packet)
    BY <1>8, SweepResult
  <2>2. ASSUME NEW s \in Second PROVE MergedMade(s)'
    <3>1. CASE object'[<<"merged", s>>] = object[<<"merged", s>>]
      BY <1>1, <2>1, <3>1, MergedStays
    <3>2. CASE \E f \in Delivered(s) : object'[<<"merged", s>>] = GroupOf(raw[f], s)
      BY <1>1, <2>1, <3>2 DEF MergedMade
    <3> QED
      BY <2>1, <3>1, <3>2
  <2>3. \A s \in Second : SplitMade(s)' /\ BucketMade(s)'
    BY <1>3, <2>1 DEF BucketMade
  <2>4. object' \in [ObjectName -> Seq(Packet)]
    <3>1. DOMAIN object' = ObjectName /\ object' = [n \in ObjectName |-> object'[n]]
      BY <1>8 DEF SweepRest
    <3>2. \A n \in ObjectName : object'[n] \in Seq(Packet)
      <4> SUFFICES ASSUME NEW k \in {"split", "merged"}, NEW s \in Second
                   PROVE  object'[<<k, s>>] \in Seq(Packet)
        BY DEF ObjectName
      <4> QED
        BY <1>1, <1>2, <2>1
    <3> QED
      BY <3>1, <3>2
  <2>5. buckets' \in [Second -> Seq(Piece)] /\ buckets' = NoBuckets(Second)
    BY <1>8 DEF SweepRest, NoBuckets
  <2> QED
    BY <2>2, <2>3, <2>4, <2>5 DEF Made
<1>9. CASE UNCHANGED vars
  <2>1. /\ object' = object /\ buckets' = buckets /\ swept' = swept /\ toSplit' = toSplit
        /\ toUpload' = toUpload /\ toSend' = toSend
    BY <1>9 DEF vars
  <2>2. \A g \in File : Left(g)' = Left(g) /\ Waiting(g)' = Waiting(g)
    BY <1>1, <2>1 DEF Left, Waiting
  <2>3. \A s \in Second : Delivered(s)' = Delivered(s)
    BY <1>1, <2>2, DeliveredStays
  <2>4. \A s \in Second : SplitMade(s)' /\ BucketMade(s)' /\ MergedMade(s)'
    BY <1>3, <1>4, <2>1, <2>2, <2>3
  <2> QED
    BY <1>1, <2>1, <2>4 DEF Made
<1> QED
  BY <1>5, <1>6, <1>7, <1>8, <1>9 DEF Next

-----------------------------------------------------------------------------
(* What is stored at the end. *)

(* ... and what there is of it when no third file has a part of it.         *)
Placed(s) ==
    \/ /\ Delivered(s) = {} /\ buckets[s] = <<>> /\ object[<<"merged", s>>] = <<>>
    \/ \E f \in File :
          /\ Delivered(s) = {f}
          /\ IF swept THEN object[<<"merged", s>>] = GroupOf(raw[f], s)
             ELSE buckets[s] = <<PieceOf(raw[f], s)>> /\ object[<<"merged", s>>] = <<>>
    \/ \E f, g \in File :
          /\ f # g /\ Delivered(s) = {f, g}
          /\ buckets[s] = <<>> /\ object[<<"merged", s>>] = PairOf(s, f, g)

(* Each second has packets in at most two of the raw files.                 *)
NoThird ==
    \A s \in Second : \A f, g, h \in File :
        {s} \subseteq SecondsOf(raw[f]) \cap SecondsOf(raw[g]) \cap SecondsOf(raw[h]) =>
            f = g \/ g = h \/ f = h

(* NoThird is about the raw files alone.                                    *)
LEMMA NoThirdStays == raw' = raw => NoThird' = NoThird
BY DEF NoThird

(* A second no step touches stays in its place.                             *)
LEMMA PlacedStays ==
    ASSUME raw' = raw, swept' = swept, NEW s, Delivered(s)' = Delivered(s),
           buckets'[s] = buckets[s], object'[<<"merged", s>>] = object[<<"merged", s>>],
           Placed(s)
    PROVE  Placed(s)'
<1>1. CASE Delivered(s) = {} /\ buckets[s] = <<>> /\ object[<<"merged", s>>] = <<>>
  BY <1>1 DEF Placed
<1>2. ASSUME NEW f \in File, Delivered(s) = {f},
             IF swept THEN object[<<"merged", s>>] = GroupOf(raw[f], s)
             ELSE buckets[s] = <<PieceOf(raw[f], s)>> /\ object[<<"merged", s>>] = <<>>
      PROVE  Placed(s)'
  BY <1>2 DEF Placed
<1>3. ASSUME NEW f \in File, NEW g \in File, f # g, Delivered(s) = {f, g},
             buckets[s] = <<>>, object[<<"merged", s>>] = PairOf(s, f, g)
      PROVE  Placed(s)'
  <2>1. PairOf(s, f, g)' = PairOf(s, f, g)
    BY DEF PairOf
  <2> QED
    BY <1>3, <2>1 DEF Placed
<1> QED
  BY <1>1, <1>2, <1>3 DEF Placed

(* Every second is where its deliveries put it, if no third file has it.    *)
AllPlaced == NoThird => \A s \in Second : Placed(s)

(* Before the first delivery every second is in its place.                  *)
LEMMA InitPlaced == Init => AllPlaced
<1> SUFFICES ASSUME Init, NEW s \in Second PROVE Placed(s)
  BY DEF AllPlaced
<1>1. buckets[s] = <<>> /\ object[<<"merged", s>>] = <<>>
  BY DEF Init, NoBuckets, ObjectName
<1>2. Delivered(s) = {}
  BY NothingDelivered DEF Delivered
<1> QED
  BY <1>1, <1>2 DEF Placed

(* A delivery moves its second on, the sweep the seconds that still wait.   *)
LEMMA PlacedKept == RawOK /\ QueuesOK /\ Made /\ AllPlaced /\ [Next]_vars => AllPlaced'
<1> SUFFICES ASSUME RawOK, QueuesOK, Made, AllPlaced, [Next]_vars, NoThird,
                    NEW s \in Second
             PROVE  Placed(s)'
  BY RawStays, NoThirdStays DEF AllPlaced
<1>1. /\ raw' = raw /\ \A t \in Second : Placed(t)
      /\ object \in [ObjectName -> Seq(Packet)] /\ buckets \in [Second -> Seq(Piece)]
      /\ <<"merged", s>> \in ObjectName
  BY RawStays DEF Made, AllPlaced, ObjectName
<1>2. ASSUME NEW f \in File, SplitFile(f) PROVE Placed(s)'
  <2>1. object' = object /\ buckets' = buckets /\ swept' = swept
    BY <1>2 DEF SplitFile
  <2>2. Delivered(s)' = Delivered(s)
    BY <1>1, <1>2, SplitEffect, DeliveredStays
  <2> QED
    BY <1>1, <2>1, <2>2, PlacedStays
<1>3. ASSUME NEW f \in File, UploadMid(f) PROVE Placed(s)'
  <2>1. /\ \A g \in File : Waiting(g)' = Waiting(g)
        /\ \E t \in Mids(raw[f]) :
              object' = [object EXCEPT ![<<"split", t>>] = GroupOf(raw[f], t)]
    BY <1>3, UploadEffect
  <2>2. object'[<<"merged", s>>] = object[<<"merged", s>>]
    BY <1>1, <2>1
  <2>3. Delivered(s)' = Delivered(s)
    BY <1>1, <2>1, DeliveredStays
  <2>4. buckets' = buckets /\ swept' = swept
    BY <1>3 DEF UploadMid
  <2> QED
    BY <1>1, <2>2, <2>3, <2>4, PlacedStays
<1>4. ASSUME NEW f \in File, PutPiece(f) PROVE Placed(s)'
  <2>1. PICK t \in Edges(raw[f]) :
              /\ t \in Second
              /\ f \notin Delivered(t) /\ Delivered(t)' = Delivered(t) \cup {f}
              /\ \A r : r # t => Delivered(r)' = Delivered(r)
              /\ \/ /\ buckets[t] = <<>> /\ object' = object
                    /\ buckets' = [buckets EXCEPT ![t] = <<PieceOf(raw[f], t)>>]
                 \/ \E g \in Delivered(t) :
                       /\ buckets[t] = <<PieceOf(raw[g], t)>>
                       /\ buckets' = [buckets EXCEPT ![t] = <<>>]
                       /\ object' = [object EXCEPT ![<<"merged", t>>] = PairOf(t, g, f)]
    BY <1>4, PutResult
  <2>2. /\ swept' = swept /\ ~swept
    BY <1>4 DEF PutPiece, QueuesOK
  <2>3. CASE s # t
    <3>1. buckets'[s] = buckets[s] /\ object'[<<"merged", s>>] = object[<<"merged", s>>]
      BY <1>1, <2>1, <2>3
    <3> QED
      BY <1>1, <2>1, <2>2, <2>3, <3>1, PlacedStays
  <2>4. CASE s = t
    <3>1. CASE Delivered(s) = {} /\ object[<<"merged", s>>] = <<>>
      <4>1. object' = object /\ buckets'[s] = <<PieceOf(raw[f], s)>> /\ Delivered(s)' = {f}
        BY <1>1, <2>1, <2>4, <3>1
      <4> QED
        BY <1>1, <2>2, <3>1, <4>1 DEF Placed
    <3>2. ASSUME NEW g \in File, Delivered(s) = {g}, buckets[s] = <<PieceOf(raw[g], s)>>
          PROVE  Placed(s)'
      <4>1. buckets[t] # <<>>
        BY <2>4, <3>2
      <4>2. /\ buckets' = [buckets EXCEPT ![t] = <<>>]
            /\ object' = [object EXCEPT ![<<"merged", t>>] = PairOf(t, g, f)]
        BY <2>1, <2>4, <3>2, <4>1
      <4>3. /\ buckets'[s] = <<>> /\ object'[<<"merged", s>>] = PairOf(s, g, f)
            /\ Delivered(s)' = {g, f} /\ g # f
        BY <1>1, <2>1, <2>4, <3>2, <4>2
      <4>4. PairOf(s, g, f)' = PairOf(s, g, f)
        BY <1>1 DEF PairOf
      <4> QED
        BY <4>3, <4>4 DEF Placed
    <3>3. ASSUME NEW g \in File, NEW h \in File, g # h, Delivered(s) = {g, h} PROVE FALSE
      <4>1. \A k \in {f, g, h} : k \in File /\ s \in Edges(raw[k])
        BY <2>1, <2>4, <3>3 DEF Delivered
      <4>2. \A k \in {f, g, h} : s \in SecondsOf(raw[k])
        BY <4>1 DEF Edges
      <4> QED
        BY <2>1, <2>4, <3>3, <4>1, <4>2 DEF NoThird
    <3> QED
      BY <1>1, <2>2, <3>1, <3>2, <3>3 DEF Placed
  <2> QED
    BY <2>3, <2>4
<1>5. CASE SweepRest
  <2>1. /\ Delivered(s)' = Delivered(s) /\ buckets'[s] = <<>>
        /\ \/ /\ buckets[s] = <<>>
              /\ object'[<<"merged", s>>] = object[<<"merged", s>>]
           \/ \E f \in Delivered(s) :
                 /\ buckets[s] = <<PieceOf(raw[f], s)>>
                 /\ object'[<<"merged", s>>] = GroupOf(raw[f], s)
    BY <1>5, SweepResult
  <2>2. ~swept /\ swept'
    BY <1>5 DEF SweepRest
  <2>3. CASE Delivered(s) = {} /\ object[<<"merged", s>>] = <<>>
    BY <2>1, <2>3 DEF Placed
  <2>4. ASSUME NEW f \in File, Delivered(s) = {f}, buckets[s] = <<PieceOf(raw[f], s)>>
        PROVE  Placed(s)'
    <3>1. buckets[s] # <<>>
      BY <2>4
    <3>2. object'[<<"merged", s>>] = GroupOf(raw'[f], s)
      BY <1>1, <2>1, <2>4, <3>1
    <3> QED
      BY <2>1, <2>2, <2>4, <3>2 DEF Placed
  <2>5. ASSUME NEW f \in File, NEW g \in File, f # g, Delivered(s) = {f, g},
               buckets[s] = <<>>, object[<<"merged", s>>] = PairOf(s, f, g)
        PROVE  Placed(s)'
    <3>1. object'[<<"merged", s>>] = PairOf(s, f, g)
      BY <2>1, <2>5
    <3>2. PairOf(s, f, g)' = PairOf(s, f, g)
      BY <1>1 DEF PairOf
    <3> QED
      BY <2>1, <2>5, <3>1, <3>2 DEF Placed
  <2> QED
    BY <1>1, <2>2, <2>3, <2>4, <2>5 DEF Placed
<1>6. CASE UNCHANGED vars
  <2>1. object' = object /\ buckets' = buckets /\ swept' = swept
    BY <1>6 DEF vars
  <2>2. \A g \in File : Waiting(g)' = Waiting(g)
    BY <1>6 DEF vars, Waiting
  <2>3. Delivered(s)' = Delivered(s)
    BY <1>1, <2>2, DeliveredStays
  <2> QED
    BY <1>1, <2>1, <2>3, PlacedStays
<1> QED
  BY <1>2, <1>3, <1>4, <1>5, <1>6 DEF Next

-----------------------------------------------------------------------------
(* From what is stored to the packets. *)

(* The number of a packet says which file it came from.                     *)
LEMMA OneFile ==
    ASSUME RawOK, NEW f \in File, NEW g \in File,
           NEW p \in ToSet(raw[f].packets), NEW q \in ToSet(raw[g].packets), p.no = q.no
    PROVE  f = g
<1>1. p.no \in Nat
  <2>1. raw[f].packets \in Seq(Packet)
    BY DEF RawOK, RawFile
  <2>2. p \in Packet
    <3> DEFINE u == raw[f].packets
    <3> HIDE DEF u
    <3>1. u \in Seq(Packet)
      BY <2>1 DEF u
    <3>2. \A i \in DOMAIN u : u[i] \in Packet
      BY <3>1, LenProperties, ElementOfSeq
    <3>3. p \in ToSet(u)
      BY DEF u
    <3> QED
      BY <3>2, <3>3 DEF ToSet
  <2> QED
    BY <2>2, CutAssumption DEF Packet
<1>2. f \in Nat /\ g \in Nat
  BY DEF File
<1>3. ~(f < g) /\ ~(g < f)
  BY <1>1 DEF RawOK
<1> QED
  BY <1>2, <1>3

(* What is read of a file is in the file.                                   *)
LEMMA ReadableInFile ==
    ASSUME RawOK, NEW f \in File
    PROVE  ToSet(Readable(raw[f])) \subseteq ToSet(raw[f].packets)
<1>1. raw[f] \in RawFile
  BY DEF RawOK
<1> QED
  BY <1>1, ReadableRight DEF ToSet

(* A group has the packets of its second, ascending, and no others.         *)
LEMMA GroupPackets ==
    ASSUME RawOK, NEW f \in File, NEW s \in SecondsOf(raw[f])
    PROVE  /\ GroupOf(raw[f], s) \in Seq(Packet) /\ Ascends(GroupOf(raw[f], s))
           /\ ToSet(GroupOf(raw[f], s)) =
                 {p \in ToSet(Readable(raw[f])) : SecondOf(p) = s}
           /\ ToSet(GroupOf(raw[f], s)) \subseteq ToSet(raw[f].packets)
<1>1. raw[f] \in RawFile
  BY DEF RawOK
<1> QED
  BY <1>1, ReadableInFile, GroupRight

(* An object holds the packets one or two files have of its second.         *)
HasGroups(q, s, from) ==
    \/ q = <<>> /\ from = {}
    \/ \E f \in File : from = {f} /\ s \in SecondsOf(raw[f]) /\ q = GroupOf(raw[f], s)
    \/ \E f, g \in File : /\ f # g /\ from = {f, g} /\ q = PairOf(s, f, g)
                          /\ s \in SecondsOf(raw[f]) \cap SecondsOf(raw[g])

(* A merge has the packets of both groups, those of the first in front.     *)
LEMMA PairPackets ==
    ASSUME RawOK, NEW f \in File, NEW g \in File, f # g,
           NEW s \in SecondsOf(raw[f]) \cap SecondsOf(raw[g])
    PROVE  /\ PairOf(s, f, g) \in Seq(Packet)
           /\ ToSet(PairOf(s, f, g)) = ToSet(GroupOf(raw[f], s)) \cup ToSet(GroupOf(raw[g], s))
           /\ \A i, j \in DOMAIN PairOf(s, f, g) : i < j =>
                 \/ PairOf(s, f, g)[i].no < PairOf(s, f, g)[j].no
                 \/ /\ PairOf(s, f, g)[i] \in ToSet(raw[f].packets)
                    /\ PairOf(s, f, g)[j] \in ToSet(raw[g].packets)
<1> DEFINE a == GroupOf(raw[f], s)
           b == GroupOf(raw[g], s)
           q == a \o b
<1>1. /\ a \in Seq(Packet) /\ b \in Seq(Packet) /\ Ascends(a) /\ Ascends(b)
      /\ ToSet(a) \subseteq ToSet(raw[f].packets) /\ ToSet(b) \subseteq ToSet(raw[g].packets)
  BY GroupPackets
<1> DEFINE M == Len(a)
           N == Len(b)
<1> HIDE DEF a, b
<1>2. /\ M \in Nat /\ N \in Nat /\ DOMAIN a = 1 .. M /\ DOMAIN b = 1 .. N
      /\ q \in Seq(Packet) /\ Len(q) = M + N
      /\ \A i \in 1 .. M + N : q[i] = IF i <= M THEN a[i] ELSE b[i - M]
  BY <1>1, LenProperties, ConcatProperties
<1>3. DOMAIN q = 1 .. M + N
  <2> HIDE DEF q, M, N
  <2> QED
    BY <1>2, LenProperties
<1> HIDE DEF M, N, q
<1>4. \A i \in 1 .. M + N : \/ i \in 1 .. M /\ q[i] = a[i]
                            \/ i - M \in 1 .. N /\ q[i] = b[i - M] /\ ~(i <= M)
  BY <1>2
<1>5. \A i \in 1 .. M : i \in 1 .. M + N /\ q[i] = a[i]
  BY <1>2
<1>6. \A i \in 1 .. N : i + M \in 1 .. M + N /\ q[i + M] = b[i]
  BY <1>2
<1>7. ToSet(q) = ToSet(a) \cup ToSet(b)
  <2>1. \A i \in DOMAIN q : q[i] \in ToSet(a) \cup ToSet(b)
    BY <1>2, <1>3, <1>4 DEF ToSet
  <2>2. \A i \in DOMAIN a : a[i] \in ToSet(q)
    BY <1>2, <1>3, <1>5 DEF ToSet
  <2>3. \A i \in DOMAIN b : b[i] \in ToSet(q)
    BY <1>2, <1>3, <1>6 DEF ToSet
  <2> QED
    BY <2>1, <2>2, <2>3 DEF ToSet
<1>8. ASSUME NEW i \in 1 .. M + N, NEW j \in 1 .. M + N, i < j
      PROVE  \/ q[i].no < q[j].no
             \/ q[i] \in ToSet(raw[f].packets) /\ q[j] \in ToSet(raw[g].packets)
  <2>1. CASE i \in 1 .. M /\ q[i] = a[i] /\ j \in 1 .. M /\ q[j] = a[j]
    BY <1>1, <1>2, <1>8, <2>1 DEF Ascends
  <2>2. CASE i \in 1 .. M /\ q[i] = a[i] /\ j - M \in 1 .. N /\ q[j] = b[j - M]
    <3>1. q[i] \in ToSet(a) /\ q[j] \in ToSet(b)
      BY <1>2, <2>2 DEF ToSet
    <3> QED
      BY <1>1, <3>1
  <2>3. CASE i - M \in 1 .. N /\ q[i] = b[i - M] /\ j - M \in 1 .. N /\ q[j] = b[j - M]
    <3>1. i - M < j - M
      BY <1>2, <1>8
    <3> QED
      BY <1>1, <1>2, <2>3, <3>1 DEF Ascends
  <2>4. i <= M \/ ~(j <= M)
    BY <1>2, <1>8
  <2>5. j \in 1 .. M => i <= M
    BY <1>2, <1>8
  <2> QED
    BY <1>4, <2>1, <2>2, <2>3, <2>5
<1> QED
  BY <1>2, <1>3, <1>7, <1>8 DEF PairOf, q, a, b

(* Its packets are those, each once, the ones of a file in their order.     *)
LEMMA ObjectPackets ==
    ASSUME RawOK, NEW q, NEW s, NEW from, HasGroups(q, s, from)
    PROVE  /\ q \in Seq(Packet)
           /\ from \subseteq File
           /\ ToSet(q) = UNION {ToSet(GroupOf(raw[f], s)) : f \in from}
           /\ \A f \in from : s \in SecondsOf(raw[f])
           /\ \A i, j \in DOMAIN q : i < j =>
                 \/ q[i].no < q[j].no
                 \/ \E f, g \in File : /\ f # g
                                       /\ q[i] \in ToSet(raw[f].packets)
                                       /\ q[j] \in ToSet(raw[g].packets)
<1>1. CASE q = <<>> /\ from = {}
  <2> DEFINE none == <<>>
  <2>1. none \in Seq(Packet) /\ DOMAIN none = {} /\ ToSet(none) = {}
    BY DEF ToSet
  <2> HIDE DEF none
  <2>2. q = none
    BY <1>1 DEF none
  <2> QED
    BY <1>1, <2>1, <2>2
<1>2. ASSUME NEW f \in File, from = {f}, s \in SecondsOf(raw[f]), q = GroupOf(raw[f], s)
      PROVE  /\ q \in Seq(Packet)
             /\ ToSet(q) = UNION {ToSet(GroupOf(raw[h], s)) : h \in from}
             /\ \A i, j \in DOMAIN q : i < j => q[i].no < q[j].no
  BY <1>2, GroupPackets DEF Ascends
<1>3. ASSUME NEW f \in File, NEW g \in File, f # g, from = {f, g}, q = PairOf(s, f, g),
             s \in SecondsOf(raw[f]) \cap SecondsOf(raw[g])
      PROVE  /\ q \in Seq(Packet)
             /\ ToSet(q) = UNION {ToSet(GroupOf(raw[h], s)) : h \in from}
             /\ \A i, j \in DOMAIN q : i < j =>
                   \/ q[i].no < q[j].no
                   \/ q[i] \in ToSet(raw[f].packets) /\ q[j] \in ToSet(raw[g].packets)
  BY <1>3, PairPackets
<1> QED
  BY <1>1, <1>2, <1>3 DEF HasGroups

(* Every object is made from the groups of its second.                      *)
LEMMA ObjectGroups ==
    ASSUME RawOK, Made, NEW n \in ObjectName
    PROVE  \E from : HasGroups(object[n], n[2], from)
<1>1. PICK k \in {"split", "merged"}, s \in Second : n = <<k, s>>
  BY DEF ObjectName
<1>2. SplitMade(s) /\ MergedMade(s) /\ n[2] = s
  BY <1>1 DEF Made
<1>3. CASE k = "split"
  BY <1>1, <1>2, <1>3 DEF SplitMade, HasGroups, Mids
<1>4. CASE k = "merged"
  BY <1>1, <1>2, <1>4 DEF MergedMade, HasGroups, Delivered, Edges
<1> QED
  BY <1>3, <1>4

(* Within an object the packets of one file ascend.                         *)
LEMMA OrderKept == RawOK /\ Made => FileOrderKept
<1> SUFFICES ASSUME RawOK, Made, NEW n \in ObjectName, NEW f \in File,
                    NEW i \in DOMAIN object[n], NEW j \in DOMAIN object[n], i < j,
                    {object[n][i], object[n][j]} \subseteq ToSet(raw[f].packets)
             PROVE  object[n][i].no < object[n][j].no
  BY DEF FileOrderKept
<1> DEFINE q == object[n]
<1>1. \/ q[i].no < q[j].no
      \/ \E g, h \in File : /\ g # h
                            /\ q[i] \in ToSet(raw[g].packets)
                            /\ q[j] \in ToSet(raw[h].packets)
  BY ObjectGroups, ObjectPackets
<1>2. ASSUME NEW g \in File, NEW h \in File, g # h,
             q[i] \in ToSet(raw[g].packets), q[j] \in ToSet(raw[h].packets)
      PROVE  FALSE
  BY <1>2, OneFile
<1> QED
  BY <1>1, <1>2

(* The invariants the steps keep.                                           *)
IInv == RawOK /\ QueuesOK /\ Made /\ AllPlaced

(* The four parts hold in every state of every cycle.                       *)
THEOREM Cycle == Spec => []IInv
<1>1. Init => IInv
  BY InitRaw, InitQueues, InitMade, InitPlaced DEF IInv
<1>2. IInv /\ [Next]_vars => IInv'
  <2>1. RawOK /\ [Next]_vars => RawOK'
    BY RawStays DEF RawOK
  <2> QED
    BY <2>1, QueuesKept, MadeKept, PlacedKept DEF IInv
<1> QED
  BY <1>1, <1>2, PTL DEF Spec

(* Splitting and merging never shuffle the packets of one raw file.         *)
THEOREM OrderOfFiles == Spec => []FileOrderKept
<1>1. IInv => FileOrderKept
  BY OrderKept DEF IInv
<1> QED
  BY <1>1, Cycle, PTL

-----------------------------------------------------------------------------
(* The stream restored. *)

(* A complete second of one file is no second of another.                   *)
LEMMA MidAlone ==
    ASSUME RawOK, NEW f \in File, NEW g \in File,
           NEW s \in Mids(raw[f]), s \in SecondsOf(raw[g])
    PROVE  f = g
<1>1. /\ raw[f] \in RawFile /\ raw[g] \in RawFile
      /\ SecondsOf(raw[f]) \in SUBSET Nat /\ s \in SecondsOf(raw[f])
  BY GroupRight DEF RawOK, Mids
<1>2. PICK t \in SecondsOf(raw[f]), u \in SecondsOf(raw[f]) : ~(s <= t) /\ ~(u <= s)
  BY DEF Mids, PositionIn
<1>3. \A h \in File : ToSet(Readable(raw[h])) \subseteq ToSet(raw[h].packets)
  BY ReadableInFile
<1>4. PICK p \in ToSet(raw[f].packets), r \in ToSet(raw[f].packets) :
          SecondOf(p) = t /\ SecondOf(r) = u
  BY <1>2, <1>3 DEF SecondsOf
<1>5. PICK q \in ToSet(raw[g].packets) : SecondOf(q) = s
  BY <1>3 DEF SecondsOf
<1>6. f < g => u <= s
  BY <1>4, <1>5 DEF RawOK
<1>7. g < f => s <= t
  BY <1>4, <1>5 DEF RawOK
<1>8. f \in Nat /\ g \in Nat
  BY DEF File
<1> QED
  BY <1>2, <1>6, <1>7, <1>8

(* A sequence without repetition is as long as its set is large.            *)
LEMMA NoRepetition ==
    ASSUME NEW S, NEW q \in Seq(S), \A i, j \in DOMAIN q : i # j => q[i] # q[j]
    PROVE  Len(q) = Cardinality(ToSet(q))
<1> DEFINE N == Len(q)
           T == ToSet(q)
<1>1. N \in Nat /\ DOMAIN q = 1 .. N /\ q \in [1 .. N -> S]
  BY LenProperties
<1>2. IsFiniteSet(1 .. N) /\ Cardinality(1 .. N) = N
  <2> HIDE DEF N
  <2>1. N \in Int /\ 1 \in Int /\ (1 > N => N = 0) /\ N - 1 + 1 = N
    BY <1>1
  <2> QED
    BY <2>1, FS_Interval
<1>3. q \in Surjection(1 .. N, T)
  BY <1>1 DEF Surjection, ToSet
<1>4. q \in Injection(1 .. N, T)
  BY <1>1, <1>3 DEF Surjection, Injection, IsInjective
<1> HIDE DEF N, T
<1> QED
  BY <1>2, <1>3, <1>4, FS_Surjection DEF N, T

(* The files an object should be made from, once the cycle is over.         *)
From(n) ==
    {f \in File : n[2] \in IF n[1] = "split" THEN Mids(raw[f]) ELSE Edges(raw[f])}

(* After the sweep every object has the groups of all its files.            *)
LEMMA AllStored ==
    ASSUME RawOK, QueuesOK, Made, AllPlaced, NoThird, swept, NEW n \in ObjectName
    PROVE  HasGroups(object[n], n[2], From(n))
<1>1. PICK k \in {"split", "merged"}, s \in Second : n = <<k, s>>
  BY DEF ObjectName
<1>2. n[1] = k /\ n[2] = s
  BY <1>1
<1>3. \A f \in File : Left(f) = {} /\ Waiting(f) = {}
  <2> DEFINE none == <<>>
  <2>1. PieceSeconds(none) = {}
    BY DEF PieceSeconds
  <2> QED
    BY <2>1 DEF QueuesOK, Left, Waiting
<1>4. CASE k = "split"
  <2>1. From(n) = {f \in File : s \in Mids(raw[f])}
    BY <1>2, <1>4 DEF From
  <2>2. CASE object[<<"split", s>>] = <<>> /\ \A f \in File : s \in Mids(raw[f]) => s \in Left(f)
    BY <1>1, <1>2, <1>3, <1>4, <2>1, <2>2 DEF HasGroups
  <2>3. ASSUME NEW f \in File, s \in Mids(raw[f]), object[<<"split", s>>] = GroupOf(raw[f], s)
        PROVE  HasGroups(object[n], n[2], From(n))
    <3>1. \A g \in File : s \in Mids(raw[g]) => g = f
      BY <2>3, MidAlone DEF Mids
    <3>2. From(n) = {f} /\ s \in SecondsOf(raw[f])
      BY <2>1, <2>3, <3>1 DEF Mids
    <3> QED
      BY <1>1, <1>2, <1>4, <2>3, <3>2 DEF HasGroups
  <2> QED
    BY <2>2, <2>3 DEF Made, SplitMade
<1>5. CASE k = "merged"
  <2>1. From(n) = Delivered(s)
    BY <1>2, <1>3, <1>5 DEF From, Delivered
  <2>2. \A f \in Delivered(s) : f \in File /\ s \in SecondsOf(raw[f])
    BY DEF Delivered, Edges
  <2>3. Placed(s)
    BY DEF AllPlaced
  <2> QED
    BY <1>1, <1>2, <1>5, <2>1, <2>2, <2>3 DEF Placed, HasGroups
<1> QED
  BY <1>4, <1>5

(* The complete packets of the stream are those split_once reads.           *)
LEMMA RecordedRight ==
    RawOK => Recorded = UNION {ToSet(Readable(raw[f])) : f \in File}
BY ReadableRight DEF RawOK, Recorded

(* So nothing is lost, doubled or stored under another second.              *)
LEMMA Restored ==
    ASSUME RawOK, QueuesOK, Made, AllPlaced, NoThird, swept
    PROVE  /\ \A p \in Recorded : \E n \in ObjectName :
                 Holding(p) = {n} /\ n[2] = SecondOf(p)
           /\ \A n \in ObjectName : /\ ToSet(object[n]) \subseteq Recorded
                                    /\ Len(object[n]) = Cardinality(ToSet(object[n]))
           /\ \A s \in Second :
                 object[<<"split", s>>] = <<>> \/ object[<<"merged", s>>] = <<>>
<1>1. ASSUME NEW n \in ObjectName
      PROVE  /\ object[n] \in Seq(Packet)
             /\ ToSet(object[n]) = UNION {ToSet(GroupOf(raw[f], n[2])) : f \in From(n)}
             /\ \A f \in From(n) : f \in File /\ n[2] \in SecondsOf(raw[f])
             /\ \A i, j \in DOMAIN object[n] : i < j =>
                   \/ object[n][i].no < object[n][j].no
                   \/ \E f, g \in File : /\ f # g
                                         /\ object[n][i] \in ToSet(raw[f].packets)
                                         /\ object[n][j] \in ToSet(raw[g].packets)
  <2>1. HasGroups(object[n], n[2], From(n))
    BY AllStored
  <2> QED
    BY <2>1, ObjectPackets
<1>2. \A n \in ObjectName : \A f \in From(n) :
         /\ ToSet(GroupOf(raw[f], n[2])) =
               {p \in ToSet(Readable(raw[f])) : SecondOf(p) = n[2]}
         /\ ToSet(GroupOf(raw[f], n[2])) \subseteq ToSet(raw[f].packets)
  BY <1>1, GroupPackets
<1>3. ASSUME NEW f \in File, NEW p \in ToSet(Readable(raw[f]))
      PROVE  /\ p \in ToSet(raw[f].packets)
             /\ SecondOf(p) \in SecondsOf(raw[f]) /\ SecondOf(p) \in Second
  <2>1. SecondOf(p) \in SecondsOf(raw[f]) /\ raw[f] \in RawFile
    BY DEF SecondsOf, RawOK
  <2>2. p \in ToSet(GroupOf(raw[f], SecondOf(p)))
    BY <2>1, GroupPackets
  <2> QED
    BY <2>1, <2>2, GroupPackets, GroupRight
<1>4. ASSUME NEW p \in Recorded
      PROVE  \E n \in ObjectName : Holding(p) = {n} /\ n[2] = SecondOf(p)
  <2>1. PICK f \in File : p \in ToSet(Readable(raw[f]))
    BY <1>4, RecordedRight
  <2> DEFINE s == SecondOf(p)
             n == IF s \in Mids(raw[f]) THEN <<"split", s>> ELSE <<"merged", s>>
  <2>2. /\ p \in ToSet(raw[f].packets) /\ s \in SecondsOf(raw[f]) /\ s \in Second
    BY <1>3, <2>1
  <2>3. /\ n \in ObjectName /\ n[2] = s /\ f \in From(n)
    BY <2>2 DEF ObjectName, From, Mids, Edges
  <2>4. p \in ToSet(object[n])
    <3> HIDE DEF n, s
    <3>1. p \in ToSet(GroupOf(raw[f], n[2]))
      BY <1>2, <2>1, <2>3 DEF s
    <3> QED
      BY <1>1, <2>3, <3>1
  <2>5. ASSUME NEW m \in ObjectName, p \in ToSet(object[m]) PROVE m = n
    <3>1. PICK g \in From(m) : p \in ToSet(GroupOf(raw[g], m[2]))
      BY <1>1, <2>5
    <3>2. g \in File /\ p \in ToSet(raw[g].packets) /\ SecondOf(p) = m[2]
      <4> HIDE DEF n
      <4>1. g \in File
        BY <1>1, <2>5, <3>1
      <4>2. p \in ToSet(raw[g].packets) /\ SecondOf(p) = m[2]
        BY <1>2, <2>5, <3>1
      <4> QED
        BY <4>1, <4>2
    <3>3. g = f
      BY <2>2, <3>2, OneFile
    <3>4. m = <<"split", s>> \/ m = <<"merged", s>>
      BY <3>2 DEF ObjectName
    <3>5. m = <<"split", s>> <=> s \in Mids(raw[f])
      <4>1. m[2] = s /\ (m[1] = "split" <=> m = <<"split", s>>)
        BY <3>4
      <4>2. s \in IF m[1] = "split" THEN Mids(raw[f]) ELSE Edges(raw[f])
        BY <3>1, <3>3, <4>1 DEF From
      <4>3. ~(s \in Mids(raw[f]) /\ s \in Edges(raw[f]))
        BY DEF Mids, Edges
      <4> QED
        BY <4>1, <4>2, <4>3
    <3> QED
      BY <3>4, <3>5
  <2>6. Holding(p) = {n}
    <3> HIDE DEF n
    <3> QED
      BY <2>3, <2>4, <2>5 DEF Holding
  <2> HIDE DEF n
  <2> QED
    BY <2>3, <2>6
<1>5. ASSUME NEW n \in ObjectName PROVE ToSet(object[n]) \subseteq Recorded
  <2> SUFFICES ASSUME NEW p \in ToSet(object[n]) PROVE p \in Recorded
    OBVIOUS
  <2>1. PICK f \in From(n) : p \in ToSet(GroupOf(raw[f], n[2]))
    BY <1>1
  <2>2. f \in File /\ p \in ToSet(Readable(raw[f]))
    BY <1>1, <1>2, <2>1
  <2> QED
    BY <2>2, RecordedRight
<1>6. ASSUME NEW n \in ObjectName PROVE Len(object[n]) = Cardinality(ToSet(object[n]))
  <2> DEFINE q == object[n]
  <2>1. /\ q \in Seq(Packet)
        /\ \A i, j \in DOMAIN q : i < j =>
              \/ q[i].no < q[j].no
              \/ \E f, g \in File : /\ f # g
                                    /\ q[i] \in ToSet(raw[f].packets)
                                    /\ q[j] \in ToSet(raw[g].packets)
    BY <1>1
  <2> HIDE DEF q
  <2>2. \A i \in DOMAIN q : i \in Nat /\ q[i] \in Packet /\ q[i].no \in Nat
    <3>1. \A i \in DOMAIN q : i \in Nat /\ q[i] \in Packet
      BY <2>1, LenProperties, ElementOfSeq
    <3>2. \A p \in Packet : p.no \in Nat
      BY CutAssumption DEF Packet
    <3> QED
      BY <3>1, <3>2
  <2>3. ASSUME NEW i \in DOMAIN q, NEW j \in DOMAIN q, i < j PROVE q[i] # q[j]
    <3>1. CASE q[i].no < q[j].no
      BY <2>2, <3>1
    <3>2. ASSUME NEW f \in File, NEW g \in File, f # g,
                 q[i] \in ToSet(raw[f].packets), q[j] \in ToSet(raw[g].packets)
          PROVE  q[i] # q[j]
      BY <3>2, OneFile
    <3> QED
      BY <2>1, <2>3, <3>1, <3>2
  <2>4. \A i, j \in DOMAIN q : i # j => q[i] # q[j]
    <3>1. \A i, j \in DOMAIN q : i # j => i < j \/ j < i
      BY <2>2
    <3> QED
      BY <2>3, <3>1
  <2>5. Len(q) = Cardinality(ToSet(q))
    BY <2>1, <2>4, NoRepetition
  <2> QED
    BY <2>5 DEF q
<1>7. ASSUME NEW s \in Second
      PROVE  object[<<"split", s>>] = <<>> \/ object[<<"merged", s>>] = <<>>
  <2>1. <<"split", s>> \in ObjectName /\ <<"merged", s>> \in ObjectName
    BY DEF ObjectName
  <2>2. From(<<"split", s>>) = {} \/ From(<<"merged", s>>) = {}
    <3> SUFFICES ASSUME NEW f \in File, NEW g \in File, s \in Mids(raw[f]), s \in Edges(raw[g])
                 PROVE  FALSE
      BY DEF From
    <3>1. f = g
      BY MidAlone DEF Edges
    <3> QED
      BY <3>1 DEF Mids, Edges
  <2>3. \A n \in ObjectName : From(n) = {} => object[n] = <<>>
    BY AllStored DEF HasGroups
  <2> QED
    BY <2>1, <2>2, <2>3
<1> QED
  BY <1>4, <1>5, <1>6, <1>7

(* Where no second is spread over three files the stream is restored,       *)
(* whoever delivers in which order.                                         *)
THEOREM StreamAgain == Spec => [](NoThird => StreamRestored)
<1>1. IInv => (NoThird => StreamRestored)
  BY Restored DEF IInv, StreamRestored
<1> QED
  BY <1>1, Cycle, PTL

(* Two files cannot share a second with a third.                            *)
THEOREM StreamOfTwo == Files <= 2 => (Spec => []StreamRestored)
<1> SUFFICES ASSUME Files <= 2 PROVE Spec => []StreamRestored
  OBVIOUS
<1>1. NoThird
  BY CutAssumption DEF NoThird, File
<1> QED
  BY <1>1, StreamAgain, PTL

=============================================================================

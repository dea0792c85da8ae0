---------------------------- MODULE MirrorProofs ----------------------------
(***************************************************************************)
(* Proofs about LocalRegistry: the walk copies a closed set of records and *)
(* fails only on a root mainnet does not have, and the batch it makes with *)
(* the seeds is one the registry accepts; for any mainnet that keeps the   *)
(* registry's invariants and any scope.                                    *)
(*                                                                         *)
(* The walk and the merge are loops.  NatInductive is induction on the     *)
(* naturals stated of a set, Recursion the existence of what a loop        *)
(* computes; copyKeys and Kept are reasoned about through them.            *)
(***************************************************************************)
EXTENDS LocalRegistry, FiniteSetTheorems, TLAPS

LEMMA NatInductive ==
  ASSUME NEW T \in SUBSET Nat, 0 \in T, \A n \in T : n + 1 \in T
  PROVE  \A n \in Nat : n \in T
<1> SUFFICES ASSUME NEW k \in Nat, k \notin T PROVE FALSE
  OBVIOUS
<1> DEFINE Missed == {x \in SUBSET Nat : \E n \in Nat : n \notin T /\ x = 0..n}
<1>1. Missed \subseteq FiniteSubsetsOf(Nat)
  <2> SUFFICES ASSUME NEW n \in Nat PROVE 0..n \in FiniteSubsetsOf(Nat)
    BY DEF Missed
  <2> QED
    BY FS_Interval DEF FiniteSubsetsOf
<1>2. 0..k \in Missed
  OBVIOUS
<1>3. PICK x \in Missed : \A y \in Missed : ~(<<y, x>> \in StrictSubsetOrdering(Nat))
  BY <1>1, <1>2, FS_StrictSubsetOrderingWellFounded, WFMin, Zenon
<1>4. PICK n \in Nat : n \notin T /\ x = 0..n
  BY <1>3
<1>5. n # 0 /\ n - 1 \in Nat /\ n - 1 \notin T
  BY <1>4
<1>6. 0..(n - 1) \in Missed
  BY <1>5
<1>7. <<0..(n - 1), 0..n>> \in StrictSubsetOrdering(Nat)
  <2>1. 0..(n - 1) \subseteq 0..n /\ n \in 0..n /\ n \notin 0..(n - 1)
    BY <1>5
  <2>2. 0..(n-1) # 0..n
    BY <2>1
  <2> QED
    BY <2>1, <2>2 DEF StrictSubsetOrdering
<1> QED
  BY <1>3, <1>4, <1>6, <1>7

\* g[i] is the state of a loop after i rounds, F[i] what its round i does.
Loop(g, N, S, x, F) ==
  g \in [0..N -> S] /\ g[0] = x /\ \A i \in 1..N : g[i] = F[i][g[i - 1]]

LEMMA Recursion ==
  ASSUME NEW N \in Nat, NEW S, NEW x \in S, NEW F \in [1..N -> [S -> S]]
  PROVE  \E g : Loop(g, N, S, x, F)
<1> DEFINE
     Upto(k, g) == /\ g \in [0..k -> S]
                   /\ \A i \in 0..k : g[i] = IF i = 0 THEN x ELSE F[i][g[i - 1]]
     T == {k \in Nat : k <= N => \E g : Upto(k, g)}
<1>1. 0 \in T
  <2>1. Upto(0, [i \in 0..0 |-> x])
    OBVIOUS
  <2> QED
    BY <2>1
<1>2. ASSUME NEW k \in T PROVE k + 1 \in T
  <2> SUFFICES ASSUME k + 1 <= N PROVE \E g : Upto(k + 1, g)
    OBVIOUS
  <2>1. PICK g : Upto(k, g)
    BY <1>2
  <2> DEFINE h == [i \in 0..(k + 1) |-> IF i = k + 1 THEN F[i][g[k]] ELSE g[i]]
  <2>2. k \in 0..k /\ k + 1 \in 1..N /\ F[k + 1] \in [S -> S] /\ g[k] \in S
    BY <2>1
  <2>3. h \in [0..(k + 1) -> S]
    BY <2>1, <2>2
  <2>4. ASSUME NEW i \in 0..(k + 1) PROVE h[i] = IF i = 0 THEN x ELSE F[i][h[i - 1]]
    <3>1. CASE i = k + 1
      BY <3>1, <2>1, <2>2
    <3>2. CASE i # k + 1
      BY <3>2, <2>1
    <3> QED
      BY <3>1, <3>2
  <2> QED
    BY <2>3, <2>4
<1>3. \A n \in Nat : n \in T
  BY <1>1, <1>2, NatInductive
<1>4. PICK g : Upto(N, g)
  BY <1>3
<1> QED
  BY <1>4 DEF Loop

LEMMA SetToSeqIs ==
  ASSUME NEW S, IsFiniteSet(S)
  PROVE  SetToSeq(S) \in Seq(S) /\ ToSet(SetToSeq(S)) = S
<1> DEFINE N == Cardinality(S)
           s == SetToSeq(S)
<1>1. N \in Nat /\ ExistsBijection(1..N, S)
  BY FS_CardinalityType
<1>2. \E f \in [1..N -> S] : IsInjective(f)
  BY <1>1 DEF ExistsBijection, Bijection, Injection, IsInjective
<1>3. s \in [1..N -> S] /\ IsInjective(s)
  BY <1>2 DEF SetToSeq
<1>4. s \in Injection(1..N, S)
  BY <1>3 DEF Injection, IsInjective
<1>5. Cardinality(1..N) = N
  BY <1>1, FS_Interval
<1>6. s \in Surjection(1..N, S)
  BY <1>4, <1>5, FS_Injection
<1>7. \A x \in S : \E i \in 1..N : s[i] = x
  BY <1>6 DEF Surjection
<1> QED
  BY <1>1, <1>3, <1>7 DEF ToSet

-----------------------------------------------------------------------------
(* Sequences and the sets of their elements. *)

LEMMA ToSetIs ==
  ASSUME NEW S
  PROVE  /\ ToSet(<<>>) = {}
         /\ \A s \in Seq(S), x \in S : ToSet(Append(s, x)) = ToSet(s) \union {x}
         /\ \A s, t \in Seq(S) : ToSet(s \o t) = ToSet(s) \union ToSet(t)
         /\ \A s \in Seq(S) : s # <<>> =>
              /\ ToSet(s) = {Head(s)} \union ToSet(Tail(s))
              /\ Head(s) \in S /\ Tail(s) \in Seq(S)
<1>1. ToSet(<<>>) = {}
  BY DEF ToSet
<1>2. ASSUME NEW s \in Seq(S), NEW x \in S
      PROVE  ToSet(Append(s, x)) = ToSet(s) \union {x}
  <2>1. \A i \in 1..Len(s) : Append(s, x)[i] = s[i]
    OBVIOUS
  <2>2. Append(s, x)[Len(s) + 1] = x /\ DOMAIN Append(s, x) = 1..(Len(s) + 1)
    OBVIOUS
  <2>3. Len(s) \in Nat /\ DOMAIN s = 1..Len(s)
    OBVIOUS
  <2> QED
    BY <2>1, <2>2, <2>3 DEF ToSet
<1>3. ASSUME NEW s \in Seq(S), NEW t \in Seq(S)
      PROVE  ToSet(s \o t) = ToSet(s) \union ToSet(t)
  <2>1. Len(s) \in Nat /\ Len(t) \in Nat /\ DOMAIN s = 1..Len(s) /\ DOMAIN t = 1..Len(t)
    OBVIOUS
  <2>2. DOMAIN (s \o t) = 1..(Len(s) + Len(t))
    OBVIOUS
  <2>3. \A i \in 1..Len(s) : (s \o t)[i] = s[i]
    OBVIOUS
  <2>4. \A i \in 1..Len(t) : (s \o t)[Len(s) + i] = t[i]
    OBVIOUS
  <2>5. \A i \in 1..(Len(s) + Len(t)) :
          i \in 1..Len(s) \/ (i - Len(s) \in 1..Len(t) /\ i = Len(s) + (i - Len(s)))
    BY <2>1
  <2>6. ToSet(s \o t) \subseteq ToSet(s) \union ToSet(t)
    BY <2>1, <2>2, <2>3, <2>4, <2>5 DEF ToSet
  <2>7. ToSet(s) \union ToSet(t) \subseteq ToSet(s \o t)
    <3>1. \A i \in 1..Len(s) : i \in DOMAIN (s \o t)
      BY <2>1, <2>2
    <3>2. \A i \in 1..Len(t) : Len(s) + i \in DOMAIN (s \o t)
      BY <2>1, <2>2
    <3> QED
      BY <3>1, <3>2, <2>1, <2>3, <2>4 DEF ToSet
  <2> QED
    BY <2>6, <2>7
<1>4. ASSUME NEW s \in Seq(S), s # <<>>
      PROVE  /\ ToSet(s) = {Head(s)} \union ToSet(Tail(s))
             /\ Head(s) \in S /\ Tail(s) \in Seq(S)
  <2>1. Len(s) \in Nat /\ Len(s) # 0 /\ DOMAIN s = 1..Len(s) /\ Head(s) = s[1]
    BY <1>4
  <2>2. DOMAIN Tail(s) = 1..(Len(s) - 1)
    BY <1>4
  <2>3. \A i \in 1..(Len(s) - 1) : Tail(s)[i] = s[i + 1]
    BY <1>4
  <2>4. \A i \in 1..Len(s) : i = 1 \/ (i - 1 \in 1..(Len(s) - 1) /\ (i - 1) + 1 = i)
    BY <2>1
  <2>5. ToSet(s) \subseteq {Head(s)} \union ToSet(Tail(s))
    <3> SUFFICES ASSUME NEW i \in 1..Len(s) PROVE s[i] = Head(s) \/ s[i] \in ToSet(Tail(s))
      BY <2>1 DEF ToSet
    <3> QED
      BY <2>1, <2>2, <2>3, <2>4 DEF ToSet
  <2>6. {Head(s)} \union ToSet(Tail(s)) \subseteq ToSet(s)
    <3>1. 1 \in DOMAIN s /\ \A i \in 1..(Len(s) - 1) : i + 1 \in DOMAIN s
      BY <2>1
    <3> QED
      BY <3>1, <2>1, <2>2, <2>3 DEF ToSet
  <2> QED
    BY <1>4, <2>5, <2>6
<1> QED
  BY <1>1, <1>2, <1>3, <1>4

\* k is s, read at positions f that run through keep.
ReadAt(k, s, keep) ==
  \E f \in [1..Len(k) -> keep] :
    /\ \A i \in 1..Len(k) : k[i] = s[f[i]]
    /\ \A i, j \in 1..Len(k) : f[i] = f[j] => i = j
    /\ \A x \in keep : \E i \in 1..Len(k) : f[i] = x

LEMMA KeptIs ==
  ASSUME NEW S, NEW s \in Seq(S), NEW keep \in SUBSET (1..Len(s))
  PROVE  Kept(s, keep) \in Seq(S) /\ ReadAt(Kept(s, keep), s, keep)
<1> DEFINE N == Len(s)
           g0 == CHOOSE g : g = [i \in 0..N |->
                   IF i = 0 THEN <<>>
                   ELSE IF i \in keep THEN Append(g[i - 1], s[i]) ELSE g[i - 1]]
           F == [i \in 1..N |-> [q \in Seq(S) |->
                   IF i \in keep THEN Append(q, s[i]) ELSE q]]
           Reads(q, n, f) ==
             /\ f \in [1..Len(q) -> keep \intersect 1..n]
             /\ \A i \in 1..Len(q) : q[i] = s[f[i]]
             /\ \A i, j \in 1..Len(q) : f[i] = f[j] => i = j
             /\ \A x \in keep \intersect 1..n : \E i \in 1..Len(q) : f[i] = x
           T == {n \in Nat : n <= N => g0[n] \in Seq(S) /\ \E f : Reads(g0[n], n, f)}
           Result(k) == k \in Seq(S) /\ ReadAt(k, s, keep)
<1> SUFFICES Result(Kept(s, keep))
  BY Zenon
<1>1. N \in Nat /\ <<>> \in Seq(S) /\ \A i \in 1..N : s[i] \in S
  OBVIOUS
<1>2. F \in [1..N -> [Seq(S) -> Seq(S)]]
  BY <1>1
<1>3. PICK g \in [0..N -> Seq(S)] :
        g[0] = <<>> /\ \A i \in 1..N : g[i] = F[i][g[i - 1]]
  <2> DEFINE L == Seq(S)
             e == <<>>
  <2>1. N \in Nat /\ e \in L /\ F \in [1..N -> [L -> L]]
    BY <1>1, <1>2
  <2> HIDE DEF F, N, L, e
  <2>2. \E g : Loop(g, N, L, e, F)
    BY <2>1, Recursion, Zenon
  <2> QED
    BY <2>2 DEF L, e, Loop
<1>4. g = [i \in 0..N |-> IF i = 0 THEN <<>>
                          ELSE IF i \in keep THEN Append(g[i - 1], s[i]) ELSE g[i - 1]]
  <2>1. ASSUME NEW i \in 1..N
        PROVE  g[i] = IF i \in keep THEN Append(g[i - 1], s[i]) ELSE g[i - 1]
    <3>1. i - 1 \in 0..N
      BY <1>1
    <3>2. g[i - 1] \in Seq(S)
      BY <3>1
    <3> QED
      BY <1>3, <3>2
  <2> HIDE DEF F
  <2>2. \A i \in 0..N : i = 0 \/ i \in 1..N
    BY <1>1
  <2> QED
    BY <1>1, <1>3, <2>1, <2>2
<1>5. g0 = [i \in 0..N |-> IF i = 0 THEN <<>>
                          ELSE IF i \in keep THEN Append(g0[i - 1], s[i]) ELSE g0[i - 1]]
  <2> HIDE DEF N
  <2> QED
    BY <1>4, Zenon
<1>6. Kept(s, keep) = g0[N]
  BY DEF Kept
<1> HIDE DEF g0, F
<1>7. 0 \in T
  <2>1. g0[0] = <<>>
    BY <1>1, <1>5
  <2>2. Reads(<<>>, 0, <<>>)
    OBVIOUS
  <2> HIDE DEF Reads
  <2>3. g0[0] \in Seq(S) /\ Reads(g0[0], 0, <<>>)
    BY <2>1, <2>2, <1>1, Zenon
  <2> QED
    BY <2>3
<1>8. ASSUME NEW n \in T PROVE n + 1 \in T
  <2> HIDE DEF Reads
  <2> SUFFICES ASSUME n + 1 <= N
               PROVE  g0[n + 1] \in Seq(S) /\ \E f : Reads(g0[n + 1], n + 1, f)
    BY <1>1
  <2> USE DEF Reads
  <2> DEFINE q == g0[n]
  <2>1. n \in Nat /\ n + 1 \in 1..N /\ n + 1 \in 0..N /\ n + 1 # 0 /\ (n + 1) - 1 = n
    BY <1>1
  <2>2. PICK f : Reads(q, n, f)
    BY <2>1
  <2>3. q \in Seq(S) /\ Len(q) \in Nat /\ s[n + 1] \in S
    BY <2>1, <1>1
  <2>4. g0[n + 1] = IF n + 1 \in keep THEN Append(q, s[n + 1]) ELSE q
    <3> HIDE DEF N
    <3>1. g0[n + 1] = IF n + 1 = 0 THEN <<>>
                      ELSE IF n + 1 \in keep THEN Append(g0[(n + 1) - 1], s[n + 1])
                           ELSE g0[(n + 1) - 1]
      BY <1>5, <2>1, Zenon
    <3> QED
      BY <3>1, <2>1, Zenon
  <2> HIDE DEF q
  <2>5. CASE n + 1 \in keep
    <3> DEFINE r == Append(q, s[n + 1])
               h == [i \in 1..Len(r) |-> IF i = Len(r) THEN n + 1 ELSE f[i]]
    <3>1. r \in Seq(S) /\ Len(r) = Len(q) + 1 /\ r[Len(r)] = s[n + 1]
          /\ \A i \in 1..Len(q) : r[i] = q[i]
      BY <2>3
    <3> HIDE DEF r
    <3>2. \A i \in 1..Len(r) : i # Len(r) => i \in 1..Len(q)
      BY <3>1, <2>3
    <3>3. \A i \in 1..Len(q) : f[i] \in keep /\ f[i] \in 1..n
      BY <2>2
    <3>4. h \in [1..Len(r) -> keep \intersect 1..(n + 1)]
      BY <3>1, <3>2, <3>3, <2>1, <2>5
    <3>5. \A i \in 1..Len(r) : r[i] = s[h[i]]
      BY <3>1, <3>2, <2>2
    <3>6. \A i, j \in 1..Len(r) : h[i] = h[j] => i = j
      <4> SUFFICES ASSUME NEW i \in 1..Len(r), NEW j \in 1..Len(r), h[i] = h[j] PROVE i = j
        OBVIOUS
      <4>1. \A x \in 1..Len(q) : f[x] # n + 1
        BY <3>3, <2>1
      <4> QED
        BY <4>1, <3>2, <2>2
    <3>7. ASSUME NEW x \in keep \intersect 1..(n + 1) PROVE \E i \in 1..Len(r) : h[i] = x
      <4>1. CASE x = n + 1
        <5>1. Len(r) \in 1..Len(r)
          BY <3>1, <2>3
        <5> QED
          BY <4>1, <5>1
      <4>2. CASE x # n + 1
        <5>1. x \in 1..n
          BY <4>2, <2>1
        <5>2. PICK i \in 1..Len(q) : f[i] = x
          BY <5>1, <2>2
        <5>3. i \in 1..Len(r) /\ i # Len(r)
          BY <3>1, <2>3
        <5> QED
          BY <5>2, <5>3
      <4> QED
        BY <4>1, <4>2
    <3> HIDE DEF h
    <3>8. Reads(r, n + 1, h)
      BY <3>4, <3>5, <3>6, <3>7
    <3>9. g0[n + 1] = r
      BY <2>4, <2>5, Zenon DEF r
    <3> HIDE DEF Reads
    <3> QED
      BY <3>1, <3>8, <3>9, Zenon
  <2>6. CASE n + 1 \notin keep
    <3>1. keep \intersect 1..(n + 1) = keep \intersect 1..n
      BY <2>6, <2>1
    <3>2. Reads(q, n + 1, f)
      BY <2>2, <3>1, Zenon
    <3>3. g0[n + 1] = q
      BY <2>4, <2>6, Zenon
    <3> HIDE DEF Reads
    <3> QED
      BY <2>3, <3>2, <3>3, Zenon
  <2> QED
    BY <2>5, <2>6
<1>9. \A n \in Nat : n \in T
  <2> HIDE DEF T
  <2>1. T \in SUBSET Nat
    BY DEF T
  <2> QED
    BY <2>1, <1>7, <1>8, NatInductive
<1>10. g0[N] \in Seq(S) /\ \E f : Reads(g0[N], N, f)
  <2> HIDE DEF Reads
  <2> QED
    BY <1>1, <1>9
<1>11. keep \intersect 1..N = keep
  OBVIOUS
<1>12. PICK f : Reads(g0[N], N, f)
  BY <1>10, Zenon
<1>13. f \in [1..Len(g0[N]) -> keep]
  BY <1>11, <1>12, Zenon
<1>14. \A x \in keep : \E i \in 1..Len(g0[N]) : f[i] = x
  BY <1>11, <1>12, Zenon
<1>15. Result(g0[N])
  BY <1>10, <1>12, <1>13, <1>14, Zenon DEF ReadAt
<1> HIDE DEF N, Result
<1> QED
  BY <1>6, <1>15, Zenon

-----------------------------------------------------------------------------
(***************************************************************************)
(* Copying keys.                                                           *)
(***************************************************************************)

Copies == [key : RecordKey, value : Values]

Walks == [todo : Scope, seen : SUBSET RecordKey, out : Seq(Copies),
          subnets : Seq(Subnets), versions : Seq(Versions), failed : BOOLEAN]

\* What was copied is what mainnet holds, each key once.
Copied(w, m) ==
  /\ \A i \in 1..Len(w.out) : /\ w.out[i].key \in w.seen
                              /\ w.out[i].value = value(m, w.out[i].key)
                              /\ w.out[i].value # None
  /\ \A k \in w.seen : \E i \in 1..Len(w.out) : w.out[i].key = k
  /\ \A i, j \in 1..Len(w.out) : w.out[i].key = w.out[j].key => i = j

\* r is w with the keys ks copied, or failed on one of them.
Extends(w, r, ks, m) ==
  /\ r \in Walks /\ Copied(r, m)
  /\ r.todo = w.todo /\ r.subnets = w.subnets /\ r.versions = w.versions
  /\ w.failed => r.failed
  /\ ~r.failed => r.seen = w.seen \union ks /\ \A k \in ks : value(m, k) # None
  /\ ~w.failed /\ (\A k \in ks : value(m, k) # None) => ~r.failed

LEMMA ValueIs ==
  ASSUME NEW m \in Mainnet
  PROVE  /\ \A s \in Subnets :
              /\ value(m, <<"subnet_record", s>>) =
                   IF m.subnets[s] = None THEN None
                   ELSE [system |-> s = System, members |-> m.subnets[s].members,
                         version |-> m.subnets[s].version]
              /\ value(m, <<"threshold_key", s>>) =
                   IF m.subnets[s] = None THEN None ELSE "mainnet"
              /\ value(m, <<"cup", s>>) = IF m.subnets[s] = None THEN None ELSE "mainnet"
         /\ \A n \in Nodes :
              /\ value(m, <<"node_record", n>>) = m.nodes[n]
              /\ value(m, <<"crypto_tls_cert", n>>) =
                   IF m.nodes[n] = None THEN None ELSE "mainnet"
              /\ \A p \in ToSet(nodeKeyPurposes) :
                   value(m, <<"crypto_record", n, p>>) =
                     IF m.nodes[n] = None THEN None ELSE "mainnet"
         /\ \A o \in Operators :
              value(m, <<"node_operator_record", o>>) = m.operators[o]
         /\ \A d \in Dcs : value(m, <<"data_center_record", d>>) =
                             IF d \in m.dcs THEN "mainnet" ELSE None
         /\ \A v \in Versions : value(m, <<"replica_version", v>>) =
                                  IF v \in m.versions THEN "mainnet" ELSE None
         /\ \A h \in HostVersions : value(m, <<"hostos_version", h>>) =
                                      IF h \in m.hostos THEN "mainnet" ELSE None
  BY DEF value

LEMMA KeyCases ==
  ASSUME NEW k \in RecordKey
  PROVE  \/ \E s \in Subnets : \/ k = <<"subnet_record", s>> \/ k = <<"threshold_key", s>>
                               \/ k = <<"cup", s>>
         \/ \E n \in Nodes : \/ k = <<"node_record", n>> \/ k = <<"crypto_tls_cert", n>>
                             \/ \E p \in ToSet(nodeKeyPurposes) : k = <<"crypto_record", n, p>>
         \/ \E o \in Operators : k = <<"node_operator_record", o>>
         \/ \E d \in Dcs : k = <<"data_center_record", d>>
         \/ \E v \in Versions : k = <<"replica_version", v>>
         \/ \E h \in HostVersions : k = <<"hostos_version", h>>
  BY DEF RecordKey

LEMMA ValueType ==
  ASSUME NEW m \in Mainnet, NEW k \in RecordKey, value(m, k) # None
  PROVE  value(m, k) \in Values
<1>1. m.subnets \in [Subnets -> Optional(SubnetRecord)]
      /\ m.nodes \in [Nodes -> Optional(NodeRecord)]
      /\ m.operators \in [Operators -> Optional(OperatorRecord)]
  BY DEF Mainnet
<1>2. "mainnet" \in Values
  BY DEF Values
<1>3. CASE \E s \in Subnets : k = <<"subnet_record", s>>
  <2>1. PICK s \in Subnets : k = <<"subnet_record", s>>
    BY <1>3
  <2>2. value(m, k) = IF m.subnets[s] = None THEN None
                      ELSE [system |-> s = System, members |-> m.subnets[s].members,
                            version |-> m.subnets[s].version]
    BY <2>1, ValueIs, Zenon
  <2>3. m.subnets[s] # None
    BY <2>2, Zenon
  <2>4. m.subnets[s].members \in SUBSET Nodes /\ m.subnets[s].version \in Versions
    BY <1>1, <2>3 DEF Optional, SubnetRecord
  <2> QED
    BY <2>2, <2>3, <2>4 DEF Values
<1>4. CASE \E s \in Subnets : k = <<"threshold_key", s>> \/ k = <<"cup", s>>
  <2>1. PICK s \in Subnets : k = <<"threshold_key", s>> \/ k = <<"cup", s>>
    BY <1>4
  <2>2. /\ value(m, <<"threshold_key", s>>) \in {None, "mainnet"}
        /\ value(m, <<"cup", s>>) \in {None, "mainnet"}
    BY ValueIs
  <2>3. CASE k = <<"threshold_key", s>>
    BY <1>2, <2>2, <2>3
  <2>4. CASE k = <<"cup", s>>
    BY <1>2, <2>2, <2>4
  <2> QED
    BY <2>1, <2>3, <2>4
<1>5. CASE \E n \in Nodes : k = <<"node_record", n>>
  <2>1. PICK n \in Nodes : k = <<"node_record", n>>
    BY <1>5
  <2>2. value(m, k) = m.nodes[n]
    BY <2>1, ValueIs, Zenon
  <2> QED
    BY <1>1, <2>2 DEF Values, Optional
<1>6. CASE \E n \in Nodes : \/ k = <<"crypto_tls_cert", n>>
                            \/ \E p \in ToSet(nodeKeyPurposes) : k = <<"crypto_record", n, p>>
  <2>1. PICK n \in Nodes : \/ k = <<"crypto_tls_cert", n>>
                           \/ \E p \in ToSet(nodeKeyPurposes) : k = <<"crypto_record", n, p>>
    BY <1>6
  <2>2. /\ value(m, <<"crypto_tls_cert", n>>) \in {None, "mainnet"}
        /\ \A p \in ToSet(nodeKeyPurposes) :
             value(m, <<"crypto_record", n, p>>) \in {None, "mainnet"}
    BY ValueIs
  <2>3. CASE k = <<"crypto_tls_cert", n>>
    BY <1>2, <2>2, <2>3
  <2>4. CASE \E p \in ToSet(nodeKeyPurposes) : k = <<"crypto_record", n, p>>
    BY <1>2, <2>2, <2>4
  <2> QED
    BY <2>1, <2>3, <2>4
<1>7. CASE \E o \in Operators : k = <<"node_operator_record", o>>
  BY <1>1, <1>7, ValueIs DEF Values, Optional
<1>8. CASE \/ \E d \in Dcs : k = <<"data_center_record", d>>
           \/ \E v \in Versions : k = <<"replica_version", v>>
           \/ \E h \in HostVersions : k = <<"hostos_version", h>>
  BY <1>2, <1>8, ValueIs
<1> QED
  BY <1>3, <1>4, <1>5, <1>6, <1>7, <1>8, KeyCases, Zenon

LEMMA KeyCopied ==
  ASSUME NEW m \in Mainnet, NEW w \in Walks, Copied(w, m), NEW k \in RecordKey
  PROVE  Extends(w, copyKey(w, k, m), {k}, m)
<1>1. CASE w.failed
  BY <1>1 DEF copyKey, Extends
<1>2. CASE ~w.failed /\ k \in w.seen
  <2>1. value(m, k) # None
    BY <1>2 DEF Copied
  <2> QED
    BY <1>2, <2>1 DEF copyKey, Extends
<1>3. CASE ~w.failed /\ k \notin w.seen /\ value(m, k) = None
  <2> DEFINE r == [w EXCEPT !.failed = TRUE]
  <2>1. copyKey(w, k, m) = r
    BY <1>3 DEF copyKey
  <2>2. r \in Walks /\ r.failed /\ r.todo = w.todo /\ r.subnets = w.subnets
        /\ r.versions = w.versions /\ r.out = w.out /\ r.seen = w.seen
    BY DEF Walks
  <2> HIDE DEF r
  <2> QED
    BY <1>3, <2>1, <2>2 DEF Extends, Copied
<1>4. CASE ~w.failed /\ k \notin w.seen /\ value(m, k) # None
  <2> DEFINE c == [key |-> k, value |-> value(m, k)]
             r == [w EXCEPT !.seen = @ \union {k}, !.out = Append(@, c)]
  <2>1. copyKey(w, k, m) = r
    BY <1>4 DEF copyKey
  <2>2. c \in Copies /\ c.key = k /\ c.value = value(m, k)
    BY <1>4, ValueType DEF Copies
  <2> HIDE DEF c
  <2>a. Append(w.out, c) \in Seq(Copies) /\ w.seen \union {k} \in SUBSET RecordKey
    BY <2>2 DEF Walks
  <2>3. r \in Walks /\ ~r.failed /\ r.todo = w.todo /\ r.subnets = w.subnets
        /\ r.versions = w.versions /\ r.out = Append(w.out, c) /\ r.seen = w.seen \union {k}
    BY <1>4, <2>a DEF Walks
  <2>4. w.out \in Seq(Copies) /\ Len(w.out) \in Nat
    BY DEF Walks
  <2> HIDE DEF r
  <2>5. /\ Len(r.out) = Len(w.out) + 1 /\ r.out[Len(w.out) + 1] = c
        /\ \A i \in 1..Len(w.out) : r.out[i] = w.out[i]
    BY <2>2, <2>3, <2>4
  <2>6. \A i \in 1..Len(r.out) : i \in 1..Len(w.out) \/ i = Len(w.out) + 1
    BY <2>4, <2>5
  <2>7. /\ \A i \in 1..Len(w.out) : i \in 1..Len(r.out)
        /\ Len(w.out) + 1 \in 1..Len(r.out)
    BY <2>4, <2>5
  <2>8. Copied(r, m)
    <3>1. \A i \in 1..Len(r.out) : /\ r.out[i].key \in r.seen
                                   /\ r.out[i].value = value(m, r.out[i].key)
                                   /\ r.out[i].value # None
      BY <1>4, <2>2, <2>3, <2>5, <2>6 DEF Copied
    <3>2. \A x \in r.seen : \E i \in 1..Len(r.out) : r.out[i].key = x
      BY <2>2, <2>3, <2>5, <2>7 DEF Copied
    <3>3. \A i, j \in 1..Len(r.out) : r.out[i].key = r.out[j].key => i = j
      <4>1. \A i \in 1..Len(w.out) : r.out[i].key \in w.seen
        BY <2>5 DEF Copied
      <4>2. \A i, j \in 1..Len(w.out) : r.out[i].key = r.out[j].key => i = j
        BY <2>5 DEF Copied
      <4> QED
        BY <1>4, <2>2, <2>5, <2>6, <4>1, <4>2
    <3> QED
      BY <3>1, <3>2, <3>3 DEF Copied
  <2> QED
    BY <1>4, <2>1, <2>3, <2>8 DEF Extends
<1> QED
  BY <1>1, <1>2, <1>3, <1>4

LEMMA ExtendsMore ==
  ASSUME NEW m, NEW w, NEW v, NEW r, NEW ks, NEW ls,
         Extends(w, v, ks, m), Extends(v, r, ls, m)
  PROVE  Extends(w, r, ks \union ls, m)
  BY DEF Extends

LEMMA KeysCopied ==
  ASSUME NEW m \in Mainnet, NEW w \in Walks, Copied(w, m), NEW keys \in Seq(RecordKey)
  PROVE  Extends(w, copyKeys(w, keys, m), ToSet(keys), m)
<1> DEFINE N == Len(keys)
           G == {v \in Walks : Copied(v, m)}
           F == [i \in 1..N |-> [v \in G |-> copyKey(v, keys[i], m)]]
           g0 == CHOOSE g : g = [i \in 0..N |->
                   IF i = 0 THEN w ELSE copyKey(g[i - 1], keys[i], m)]
           Upto(i) == {keys[j] : j \in 1..i}
           T == {i \in Nat : i <= N => Extends(w, g0[i], Upto(i), m)}
<1>1. N \in Nat /\ DOMAIN keys = 1..N /\ \A i \in 1..N : keys[i] \in RecordKey
  OBVIOUS
<1>2. w \in G /\ F \in [1..N -> [G -> G]]
  BY <1>1, KeyCopied DEF Extends
<1>3. PICK g : Loop(g, N, G, w, F)
  <2> HIDE DEF N, G, F
  <2> QED
    BY <1>1, <1>2, Recursion, Zenon
<1>4. g = [i \in 0..N |-> IF i = 0 THEN w ELSE copyKey(g[i - 1], keys[i], m)]
  <2>1. ASSUME NEW i \in 1..N PROVE g[i] = copyKey(g[i - 1], keys[i], m)
    <3>1. i - 1 \in 0..N
      BY <1>1
    <3>2. g[i - 1] \in G
      BY <1>3, <3>1 DEF Loop
    <3> QED
      BY <1>3, <3>2 DEF Loop
  <2> HIDE DEF F, G, N
  <2>2. \A i \in 0..N : i = 0 \/ i \in 1..N
    BY <1>1
  <2> QED
    BY <1>1, <1>3, <2>1, <2>2 DEF Loop
<1>5. g0 = [i \in 0..N |-> IF i = 0 THEN w ELSE copyKey(g0[i - 1], keys[i], m)]
  <2> HIDE DEF N
  <2> QED
    BY <1>4, Zenon
<1>6. copyKeys(w, keys, m) = g0[N]
  BY DEF copyKeys
<1> HIDE DEF g0, F, G
<1>7. 0 \in T
  <2>1. g0[0] = w
    BY <1>1, <1>5
  <2>2. Upto(0) = {}
    OBVIOUS
  <2>3. Extends(w, w, {}, m)
    BY DEF Extends
  <2> QED
    BY <2>1, <2>2, <2>3
<1>8. ASSUME NEW n \in T PROVE n + 1 \in T
  <2> SUFFICES ASSUME n + 1 <= N PROVE Extends(w, g0[n + 1], Upto(n + 1), m)
    BY <1>1
  <2>1. n \in Nat /\ n + 1 \in 1..N /\ n + 1 \in 0..N /\ n + 1 # 0 /\ (n + 1) - 1 = n
        /\ n <= N
    BY <1>1
  <2>2. Extends(w, g0[n], Upto(n), m)
    BY <2>1
  <2>3. g0[n + 1] = copyKey(g0[n], keys[n + 1], m)
    <3> HIDE DEF N
    <3>1. g0[n + 1] = IF n + 1 = 0 THEN w ELSE copyKey(g0[(n + 1) - 1], keys[n + 1], m)
      BY <1>5, <2>1, Zenon
    <3> QED
      BY <3>1, <2>1, Zenon
  <2>4. Extends(g0[n], g0[n + 1], {keys[n + 1]}, m)
    <3>1. g0[n] \in Walks /\ Copied(g0[n], m)
      BY <2>2 DEF Extends
    <3>2. keys[n + 1] \in RecordKey
      BY <1>1, <2>1
    <3> QED
      BY <2>3, <3>1, <3>2, KeyCopied
  <2>5. Upto(n + 1) = Upto(n) \union {keys[n + 1]}
    BY <2>1
  <2> HIDE DEF Upto
  <2> QED
    BY <2>2, <2>4, <2>5, ExtendsMore
<1>9. \A n \in Nat : n \in T
  <2>1. T \in SUBSET Nat
    OBVIOUS
  <2> HIDE DEF T
  <2> QED
    BY <2>1, <1>7, <1>8, NatInductive
<1>10. Upto(N) = ToSet(keys)
  BY <1>1 DEF ToSet
<1>11. Extends(w, g0[N], Upto(N), m)
  <2> HIDE DEF Upto
  <2> QED
    BY <1>1, <1>9
<1> QED
  BY <1>6, <1>10, <1>11
-----------------------------------------------------------------------------
(***************************************************************************)
(* One root after the other.                                               *)
(***************************************************************************)

\* The record of a root is copied, or still to be.
SubnetHeld(w, s) == <<"subnet_record", s>> \in w.seen \/ s \in ToSet(w.todo.subnets)
NodeHeld(w, n) == <<"node_record", n>> \in w.seen \/ n \in ToSet(w.todo.nodes)
OperatorHeld(w, o) ==
  <<"node_operator_record", o>> \in w.seen \/ o \in ToSet(w.todo.operators)
VersionHeld(w, v) == <<"replica_version", v>> \in w.seen \/ v \in ToSet(w.todo.versions)

\* Whatever a copied record refers to is held, and what belongs to it copied.
SubnetsClosed(w, m) ==
  \A s \in Subnets :
    /\ <<"subnet_record", s>> \in w.seen =>
         /\ <<"threshold_key", s>> \in w.seen /\ <<"cup", s>> \in w.seen
         /\ s \in ToSet(w.subnets)
         /\ \A n \in m.subnets[s].members : NodeHeld(w, n)
         /\ VersionHeld(w, m.subnets[s].version)
    /\ (\/ <<"threshold_key", s>> \in w.seen \/ <<"cup", s>> \in w.seen
        \/ s \in ToSet(w.subnets)) => <<"subnet_record", s>> \in w.seen

NodesClosed(w, m) ==
  \A n \in Nodes : <<"node_record", n>> \in w.seen =>
    /\ ToSet(NodeKeys(n)) \subseteq w.seen
    /\ OperatorHeld(w, m.nodes[n].operator)
    /\ m.nodes[n].hostos # None => <<"hostos_version", m.nodes[n].hostos>> \in w.seen

OperatorsClosed(w, m) ==
  \A o \in Operators : <<"node_operator_record", o>> \in w.seen =>
    <<"data_center_record", m.operators[o].dc>> \in w.seen

Closed(w, m) ==
  /\ SubnetsClosed(w, m) /\ NodesClosed(w, m) /\ OperatorsClosed(w, m)
  /\ \A i, j \in 1..Len(w.subnets) : w.subnets[i] = w.subnets[j] => i = j

\* Mainnet has every root.
AllPresent(w, m) ==
  /\ ToSet(w.todo.subnets) \subseteq Present(m.subnets)
  /\ ToSet(w.todo.nodes) \subseteq Present(m.nodes)
  /\ ToSet(w.todo.operators) \subseteq Present(m.operators)
  /\ ToSet(w.todo.versions) \subseteq m.versions

\* No root is forgotten.
KeepsRoots(w, r) ==
  /\ \A s \in Subnets : SubnetHeld(w, s) => SubnetHeld(r, s)
  /\ \A n \in Nodes : NodeHeld(w, n) => NodeHeld(r, n)
  /\ \A o \in Operators : OperatorHeld(w, o) => OperatorHeld(r, o)
  /\ \A v \in Versions : VersionHeld(w, v) => VersionHeld(r, v)

\* What one step of the walk makes of w.
Progress(w, r, m) ==
  /\ r \in Walks /\ Copied(r, m)
  /\ AllPresent(w, m) => ~r.failed /\ AllPresent(r, m)
  /\ ~r.failed => KeepsRoots(w, r) /\ (Closed(w, m) => Closed(r, m))

LEMMA ScopeParts ==
  ASSUME NEW w \in Walks
  PROVE  /\ w.todo \in Scope /\ w.todo.subnets \in Seq(Subnets)
         /\ w.todo.nodes \in Seq(Nodes) /\ w.todo.operators \in Seq(Operators)
         /\ w.todo.versions \in Seq(Versions) /\ w.subnets \in Seq(Subnets)
         /\ w.seen \in SUBSET RecordKey /\ w.failed \in BOOLEAN
  BY DEF Walks, Scope

LEMMA MainnetParts ==
  ASSUME NEW m \in Mainnet, MainnetOK(m)
  PROVE  /\ \A s \in Subnets : m.subnets[s] # None =>
              /\ m.subnets[s].members \in SUBSET Nodes
              /\ m.subnets[s].version \in Versions
              /\ m.subnets[s].members \subseteq Present(m.nodes)
              /\ m.subnets[s].version \in m.versions
         /\ \A n \in Nodes : m.nodes[n] # None =>
              /\ m.nodes[n].operator \in Operators
              /\ m.nodes[n].operator \in Present(m.operators)
              /\ m.nodes[n].hostos # None =>
                   m.nodes[n].hostos \in HostVersions /\ m.nodes[n].hostos \in m.hostos
         /\ \A o \in Operators : m.operators[o] # None =>
              m.operators[o].dc \in Dcs /\ m.operators[o].dc \in m.dcs
         /\ \A s : s \in Present(m.subnets) <=> s \in Subnets /\ m.subnets[s] # None
         /\ \A n : n \in Present(m.nodes) <=> n \in Nodes /\ m.nodes[n] # None
         /\ \A o : o \in Present(m.operators) <=> o \in Operators /\ m.operators[o] # None
<1>1. m.subnets \in [Subnets -> Optional(SubnetRecord)]
      /\ m.nodes \in [Nodes -> Optional(NodeRecord)]
      /\ m.operators \in [Operators -> Optional(OperatorRecord)]
      /\ m.hostos \in SUBSET HostVersions
  BY DEF Mainnet
<1>2. /\ \A s \in Subnets : m.subnets[s] # None => m.subnets[s] \in SubnetRecord
      /\ \A n \in Nodes : m.nodes[n] # None => m.nodes[n] \in NodeRecord
      /\ \A o \in Operators : m.operators[o] # None => m.operators[o] \in OperatorRecord
  BY <1>1 DEF Optional
<1>3. /\ \A s : s \in Present(m.subnets) <=> s \in Subnets /\ m.subnets[s] # None
      /\ \A n : n \in Present(m.nodes) <=> n \in Nodes /\ m.nodes[n] # None
      /\ \A o : o \in Present(m.operators) <=> o \in Operators /\ m.operators[o] # None
  BY <1>1 DEF Present
<1>4. ASSUME NEW s \in Subnets, m.subnets[s] # None
      PROVE  /\ m.subnets[s].members \in SUBSET Nodes
             /\ m.subnets[s].version \in Versions
             /\ m.subnets[s].members \subseteq Present(m.nodes)
             /\ m.subnets[s].version \in m.versions
  BY <1>2, <1>3, <1>4 DEF SubnetRecord, MainnetOK
<1>5. ASSUME NEW n \in Nodes, m.nodes[n] # None
      PROVE  /\ m.nodes[n].operator \in Operators
             /\ m.nodes[n].operator \in Present(m.operators)
             /\ m.nodes[n].hostos # None =>
                  m.nodes[n].hostos \in HostVersions /\ m.nodes[n].hostos \in m.hostos
  BY <1>1, <1>2, <1>3, <1>5 DEF NodeRecord, MainnetOK, Optional
<1>6. ASSUME NEW o \in Operators, m.operators[o] # None
      PROVE  m.operators[o].dc \in Dcs /\ m.operators[o].dc \in m.dcs
  BY <1>2, <1>3, <1>6 DEF OperatorRecord, MainnetOK
<1> QED
  BY <1>3, <1>4, <1>5, <1>6
LEMMA KeyTypes ==
  /\ \A s \in Subnets : /\ <<"subnet_record", s>> \in RecordKey
                        /\ <<"threshold_key", s>> \in RecordKey
                        /\ <<"cup", s>> \in RecordKey
  /\ \A n \in Nodes : /\ <<"node_record", n>> \in RecordKey
                      /\ <<"crypto_tls_cert", n>> \in RecordKey
                      /\ \A p \in ToSet(nodeKeyPurposes) : <<"crypto_record", n, p>> \in RecordKey
  /\ \A o \in Operators : <<"node_operator_record", o>> \in RecordKey
  /\ \A d \in Dcs : <<"data_center_record", d>> \in RecordKey
  /\ \A v \in Versions : <<"replica_version", v>> \in RecordKey
  /\ \A h \in HostVersions : <<"hostos_version", h>> \in RecordKey
  BY DEF RecordKey

LEMMA ConcatIs ==
  ASSUME NEW S, NEW s \in Seq(S), NEW t \in Seq(S)
  PROVE  /\ s \o t \in Seq(S) /\ Len(s \o t) = Len(s) + Len(t)
         /\ DOMAIN (s \o t) = 1..(Len(s) + Len(t))
         /\ \A i \in 1..Len(s) : (s \o t)[i] = s[i]
         /\ \A i \in 1..Len(t) : (s \o t)[Len(s) + i] = t[i]
  OBVIOUS

LEMMA NodeKeysAre ==
  ASSUME NEW n
  PROVE  /\ DOMAIN NodeKeys(n) = 1..5 /\ Len(NodeKeys(n)) = 5
         /\ NodeKeys(n)[1] = <<"crypto_tls_cert", n>>
         /\ \A i \in 1..4 : NodeKeys(n)[i + 1] = <<"crypto_record", n, nodeKeyPurposes[i]>>
         /\ n \in Nodes => NodeKeys(n) \in Seq(RecordKey)
<1> DEFINE c == <<<<"crypto_tls_cert", n>>>>
           p == [i \in 1..4 |-> <<"crypto_record", n, nodeKeyPurposes[i]>>]
           S == {c[1]} \union {p[i] : i \in 1..4}
<1>1. c \in Seq(S) /\ p \in Seq(S) /\ Len(c) = 1 /\ Len(p) = 4
  OBVIOUS
<1>2. NodeKeys(n) = c \o p
  BY DEF NodeKeys
<1>3. c \o p \in Seq(S) /\ Len(c \o p) = 5 /\ DOMAIN (c \o p) = 1..5
      /\ (c \o p)[1] = c[1] /\ \A i \in 1..4 : (c \o p)[i + 1] = p[i]
  <2> HIDE DEF c, p, S
  <2>1. /\ c \o p \in Seq(S) /\ Len(c \o p) = 1 + 4
        /\ DOMAIN (c \o p) = 1..(1 + 4)
        /\ \A i \in 1..1 : (c \o p)[i] = c[i]
        /\ \A i \in 1..4 : (c \o p)[1 + i] = p[i]
    BY <1>1, ConcatIs
  <2> QED
    BY <2>1
<1>4. n \in Nodes => S \subseteq RecordKey
  <2>1. \A i \in 1..4 : nodeKeyPurposes[i] \in ToSet(nodeKeyPurposes)
    BY DEF ToSet, nodeKeyPurposes
  <2> QED
    BY <2>1, KeyTypes
<1>5. n \in Nodes => c \o p \in Seq(RecordKey)
  <2> HIDE DEF c, p, S
  <2> QED
    BY <1>3, <1>4
<1> QED
  BY <1>2, <1>3, <1>5

LEMMA NodeKeysSet ==
  ASSUME NEW n
  PROVE  ToSet(NodeKeys(n)) =
           {<<"crypto_tls_cert", n>>}
             \union {<<"crypto_record", n, p>> : p \in ToSet(nodeKeyPurposes)}
<1>1. ToSet(nodeKeyPurposes) = {nodeKeyPurposes[i] : i \in 1..4}
  BY DEF ToSet, nodeKeyPurposes
<1>3. \A i \in 1..4 : i + 1 \in 1..5
  OBVIOUS
<1>4. ToSet(NodeKeys(n)) = {NodeKeys(n)[i] : i \in 1..5}
  BY NodeKeysAre DEF ToSet
<1> DEFINE All == {<<"crypto_tls_cert", n>>}
                    \union {<<"crypto_record", n, p>> : p \in ToSet(nodeKeyPurposes)}
<1>5. ASSUME NEW i \in 1..5 PROVE NodeKeys(n)[i] \in All
  <2>1. CASE i = 1
    BY <2>1, NodeKeysAre
  <2>2. CASE i # 1
    <3>1. i - 1 \in 1..4 /\ (i - 1) + 1 = i
      BY <2>2
    <3>2. NodeKeys(n)[i] = <<"crypto_record", n, nodeKeyPurposes[i - 1]>>
      BY <3>1, NodeKeysAre
    <3> QED
      BY <1>1, <3>1, <3>2
  <2> QED
    BY <2>1, <2>2
<1>6. ASSUME NEW k \in All PROVE \E i \in 1..5 : NodeKeys(n)[i] = k
  <2>1. CASE k = <<"crypto_tls_cert", n>>
    BY <2>1, NodeKeysAre
  <2>2. CASE \E p \in ToSet(nodeKeyPurposes) : k = <<"crypto_record", n, p>>
    <3>1. PICK i \in 1..4 : k = <<"crypto_record", n, nodeKeyPurposes[i]>>
      BY <1>1, <2>2
    <3> QED
      BY <1>3, <3>1, NodeKeysAre
  <2> QED
    BY <2>1, <2>2
<1> HIDE DEF All
<1>7. ToSet(NodeKeys(n)) = All
  BY <1>4, <1>5, <1>6
<1> QED
  BY <1>7 DEF All

\* The keys of a record mainnet has are all there.
LEMMA PresentValues ==
  ASSUME NEW m \in Mainnet, MainnetOK(m)
  PROVE  /\ \A s \in Subnets :
              /\ value(m, <<"subnet_record", s>>) # None <=> m.subnets[s] # None
              /\ value(m, <<"threshold_key", s>>) # None <=> m.subnets[s] # None
              /\ value(m, <<"cup", s>>) # None <=> m.subnets[s] # None
         /\ \A n \in Nodes :
              /\ value(m, <<"node_record", n>>) # None <=> m.nodes[n] # None
              /\ \A k \in ToSet(NodeKeys(n)) : value(m, k) # None <=> m.nodes[n] # None
         /\ \A o \in Operators :
              value(m, <<"node_operator_record", o>>) # None <=> m.operators[o] # None
         /\ \A d \in Dcs : value(m, <<"data_center_record", d>>) # None <=> d \in m.dcs
         /\ \A v \in Versions : value(m, <<"replica_version", v>>) # None <=> v \in m.versions
         /\ \A h \in HostVersions : value(m, <<"hostos_version", h>>) # None <=> h \in m.hostos
<1>1. "mainnet" # None
  BY NoneAssumption DEF Values
<1>2. ASSUME NEW s \in Subnets, m.subnets[s] # None
      PROVE  [system |-> s = System, members |-> m.subnets[s].members,
              version |-> m.subnets[s].version] # None
  <2>1. m.subnets[s].members \in SUBSET Nodes /\ m.subnets[s].version \in Versions
    BY <1>2, MainnetParts
  <2>2. [system |-> s = System, members |-> m.subnets[s].members,
         version |-> m.subnets[s].version] \in Values
    BY <2>1 DEF Values
  <2> QED
    BY <2>2, NoneAssumption
<1>3. ASSUME NEW s \in Subnets
      PROVE  /\ value(m, <<"subnet_record", s>>) # None <=> m.subnets[s] # None
             /\ value(m, <<"threshold_key", s>>) # None <=> m.subnets[s] # None
             /\ value(m, <<"cup", s>>) # None <=> m.subnets[s] # None
  <2>1. value(m, <<"subnet_record", s>>) =
                   IF m.subnets[s] = None THEN None
                   ELSE [system |-> s = System, members |-> m.subnets[s].members,
                         version |-> m.subnets[s].version]
    BY ValueIs, Zenon
  <2>2. /\ value(m, <<"threshold_key", s>>) =
                   IF m.subnets[s] = None THEN None ELSE "mainnet"
        /\ value(m, <<"cup", s>>) = IF m.subnets[s] = None THEN None ELSE "mainnet"
    BY ValueIs, Zenon
  <2> QED
    BY <1>1, <1>2, <2>1, <2>2
<1>4. ASSUME NEW n \in Nodes
      PROVE  /\ value(m, <<"node_record", n>>) # None <=> m.nodes[n] # None
             /\ \A k \in ToSet(NodeKeys(n)) : value(m, k) # None <=> m.nodes[n] # None
  <2>1. /\ value(m, <<"node_record", n>>) = m.nodes[n]
        /\ value(m, <<"crypto_tls_cert", n>>) = IF m.nodes[n] = None THEN None ELSE "mainnet"
        /\ \A p \in ToSet(nodeKeyPurposes) : value(m, <<"crypto_record", n, p>>) =
             IF m.nodes[n] = None THEN None ELSE "mainnet"
    BY ValueIs, Zenon
  <2> QED
    BY <1>1, <2>1, NodeKeysSet
<1>5. /\ \A o \in Operators :
              value(m, <<"node_operator_record", o>>) # None <=> m.operators[o] # None
      /\ \A d \in Dcs : value(m, <<"data_center_record", d>>) # None <=> d \in m.dcs
      /\ \A v \in Versions : value(m, <<"replica_version", v>>) # None <=> v \in m.versions
      /\ \A h \in HostVersions : value(m, <<"hostos_version", h>>) # None <=> h \in m.hostos
  BY <1>1, ValueIs
<1> QED
  BY <1>3, <1>4, <1>5, Zenon
LEMMA CopiedSame ==
  ASSUME NEW m, NEW w, NEW r, Copied(w, m), r.out = w.out, r.seen = w.seen
  PROVE  Copied(r, m)
  BY DEF Copied

LEMMA CopiedValue ==
  ASSUME NEW m, NEW w, Copied(w, m), NEW k \in w.seen
  PROVE  value(m, k) # None
  BY DEF Copied

LEMMA SubnetStep ==
  ASSUME NEW m \in Mainnet, MainnetOK(m), NEW w \in Walks, Copied(w, m), ~w.failed,
         w.todo.subnets # <<>>
  PROVE  Progress(w, WalkOne(w, m), m)
<1> DEFINE s == Head(w.todo.subnets)
           u == [w EXCEPT !.todo.subnets = Tail(@)]
           keys == <<<<"subnet_record", s>>, <<"threshold_key", s>>, <<"cup", s>>>>
           v == copyKeys(u, keys, m)
           r == WalkOne(w, m)
<1>1. /\ s \in Subnets /\ Tail(w.todo.subnets) \in Seq(Subnets)
      /\ ToSet(w.todo.subnets) = {s} \union ToSet(Tail(w.todo.subnets))
  BY ScopeParts, ToSetIs
<1>2. /\ u \in Walks /\ Copied(u, m) /\ ~u.failed
      /\ u.seen = w.seen /\ u.subnets = w.subnets /\ u.versions = w.versions
      /\ u.todo.subnets = Tail(w.todo.subnets) /\ u.todo.nodes = w.todo.nodes
      /\ u.todo.operators = w.todo.operators /\ u.todo.versions = w.todo.versions
  <2>1. /\ u \in Walks /\ ~u.failed /\ u.out = w.out
        /\ u.seen = w.seen /\ u.subnets = w.subnets /\ u.versions = w.versions
        /\ u.todo.subnets = Tail(w.todo.subnets) /\ u.todo.nodes = w.todo.nodes
        /\ u.todo.operators = w.todo.operators /\ u.todo.versions = w.todo.versions
    BY <1>1 DEF Walks, Scope
  <2> QED
    BY <2>1, CopiedSame
<1>3. r = copySubnet(u, s, m)
  BY DEF WalkOne
<1> SUFFICES Progress(w, r, m)
  OBVIOUS
<1> HIDE DEF s, u, r
<1>4. CASE <<"subnet_record", s>> \in w.seen
  <2>1. r = u
    BY <1>2, <1>3, <1>4 DEF copySubnet
  <2>2. AllPresent(w, m) => AllPresent(u, m)
    BY <1>1, <1>2 DEF AllPresent
  <2>3. KeepsRoots(w, u)
    BY <1>1, <1>2, <1>4 DEF KeepsRoots, SubnetHeld, NodeHeld, OperatorHeld, VersionHeld
  <2>4. ASSUME Closed(w, m) PROVE Closed(u, m)
    <3>1. SubnetsClosed(u, m)
      BY <1>2, <2>4 DEF Closed, SubnetsClosed, NodeHeld, VersionHeld
    <3>2. NodesClosed(u, m) /\ OperatorsClosed(u, m)
      BY <1>2, <2>4 DEF Closed, NodesClosed, OperatorsClosed, OperatorHeld
    <3> QED
      BY <1>2, <2>4, <3>1, <3>2 DEF Closed
  <2> QED
    BY <1>2, <2>1, <2>2, <2>3, <2>4 DEF Progress
<1>5. CASE <<"subnet_record", s>> \notin w.seen
  <2> DEFINE K == {<<"subnet_record", s>>, <<"threshold_key", s>>, <<"cup", s>>}
  <2>1. keys \in Seq(RecordKey) /\ ToSet(keys) = K
    <3>1. K \subseteq RecordKey
      BY <1>1, KeyTypes
    <3> QED
      BY <3>1 DEF ToSet
  <2>2. Extends(u, v, K, m)
    <3> HIDE DEF keys, K
    <3> QED
      BY <1>2, <2>1, KeysCopied
  <2>3. /\ v \in Walks /\ Copied(v, m) /\ v.todo = u.todo
        /\ v.subnets = w.subnets /\ v.versions = w.versions
        /\ ~v.failed => v.seen = w.seen \union K /\ \A k \in K : value(m, k) # None
        /\ (\A k \in K : value(m, k) # None) => ~v.failed
    BY <1>2, <2>2 DEF Extends
  <2>4. r = IF v.failed THEN v
            ELSE [v EXCEPT !.todo.nodes = @ \o SetToSeq(m.subnets[s].members),
                           !.todo.versions = Append(@, m.subnets[s].version),
                           !.subnets = Append(@, s)]
    BY <1>2, <1>3, <1>5, Zenon DEF copySubnet
  <2>5. AllPresent(w, m) => ~v.failed
    <3> SUFFICES ASSUME AllPresent(w, m) PROVE \A k \in K : value(m, k) # None
      BY <2>3
    <3>1. m.subnets[s] # None
      BY <1>1, MainnetParts DEF AllPresent
    <3> QED
      BY <1>1, <3>1, PresentValues
  <2> HIDE DEF v, keys
  <2>6. CASE v.failed
    BY <2>3, <2>4, <2>5, <2>6 DEF Progress
  <2>7. CASE ~v.failed
    <3> DEFINE members == m.subnets[s].members
               ver == m.subnets[s].version
    <3>1. m.subnets[s] # None
      BY <1>1, <2>3, <2>7, PresentValues
    <3>2. /\ members \in SUBSET Nodes /\ ver \in Versions
          /\ members \subseteq Present(m.nodes) /\ ver \in m.versions
      BY <1>1, <3>1, MainnetParts
    <3>3. SetToSeq(members) \in Seq(Nodes) /\ ToSet(SetToSeq(members)) = members
      <4>1. IsFiniteSet(members)
        BY <3>2, LocalRegistryAssumption, FS_Subset
      <4>2. SetToSeq(members) \in Seq(members) /\ ToSet(SetToSeq(members)) = members
        <5> HIDE DEF members
        <5> QED
          BY <4>1, SetToSeqIs
      <4> QED
        BY <3>2, <4>2
    <3> HIDE DEF members, ver
    <3>4. r = [v EXCEPT !.todo.nodes = @ \o SetToSeq(members),
                        !.todo.versions = Append(@, ver), !.subnets = Append(@, s)]
      BY <2>4, <2>7 DEF members, ver
    <3>5. /\ u.todo \in Scope /\ u.todo.nodes \in Seq(Nodes)
          /\ u.todo.versions \in Seq(Versions) /\ w.subnets \in Seq(Subnets)
      BY <1>2, ScopeParts
    <3>6. /\ u.todo.nodes \o SetToSeq(members) \in Seq(Nodes)
          /\ Append(u.todo.versions, ver) \in Seq(Versions)
          /\ Append(w.subnets, s) \in Seq(Subnets)
          /\ ToSet(u.todo.nodes \o SetToSeq(members)) = ToSet(u.todo.nodes) \union members
          /\ ToSet(Append(u.todo.versions, ver)) = ToSet(u.todo.versions) \union {ver}
          /\ ToSet(Append(w.subnets, s)) = ToSet(w.subnets) \union {s}
      BY <1>1, <3>2, <3>3, <3>5, ToSetIs
    <3>7. /\ r \in Walks /\ ~r.failed /\ r.out = v.out /\ r.seen = v.seen
          /\ r.subnets = Append(w.subnets, s)
          /\ r.todo.subnets = u.todo.subnets
          /\ r.todo.nodes = u.todo.nodes \o SetToSeq(members)
          /\ r.todo.operators = u.todo.operators
          /\ r.todo.versions = Append(u.todo.versions, ver)
      <4> DEFINE a == u.todo.nodes \o SetToSeq(members)
                 b == Append(u.todo.versions, ver)
                 c == Append(w.subnets, s)
      <4>1. r = [v EXCEPT !.todo.nodes = a, !.todo.versions = b, !.subnets = c]
        BY <2>3, <3>4, <3>5 DEF Walks, Scope
      <4> HIDE DEF a, b, c
      <4>2. /\ r \in Walks /\ ~r.failed /\ r.out = v.out /\ r.seen = v.seen
            /\ r.subnets = c /\ r.todo.subnets = u.todo.subnets /\ r.todo.nodes = a
            /\ r.todo.operators = u.todo.operators /\ r.todo.versions = b
        <5>1. a \in Seq(Nodes) /\ b \in Seq(Versions) /\ c \in Seq(Subnets)
          BY <3>6 DEF a, b, c
        <5> QED
          BY <2>3, <2>7, <3>5, <4>1, <5>1 DEF Walks, Scope
      <4> QED
        BY <4>2 DEF a, b, c
    <3>8. Copied(r, m)
      BY <2>3, <3>7, CopiedSame
    <3>9. r.seen = w.seen \union K
      BY <2>3, <2>7, <3>7
    <3>10. AllPresent(w, m) => AllPresent(r, m)
      BY <1>1, <1>2, <3>2, <3>6, <3>7 DEF AllPresent
    <3>11. KeepsRoots(w, r)
      BY <1>1, <1>2, <3>6, <3>7, <3>9
      DEF KeepsRoots, SubnetHeld, NodeHeld, OperatorHeld, VersionHeld
    <3>12. ASSUME Closed(w, m) PROVE Closed(r, m)
      <4>1. ASSUME NEW x \in Subnets
            PROVE  /\ <<"subnet_record", x>> \in r.seen <=> <<"subnet_record", x>> \in w.seen \/ x = s
                   /\ <<"threshold_key", x>> \in r.seen <=> <<"threshold_key", x>> \in w.seen \/ x = s
                   /\ <<"cup", x>> \in r.seen <=> <<"cup", x>> \in w.seen \/ x = s
        BY <3>9
      <4>2. /\ \A n \in Nodes : <<"node_record", n>> \in r.seen <=> <<"node_record", n>> \in w.seen
            /\ \A o \in Operators : <<"node_operator_record", o>> \in r.seen
                                      <=> <<"node_operator_record", o>> \in w.seen
        BY <3>9
      <4>3. SubnetsClosed(r, m)
        <5>1. \A n \in Nodes : NodeHeld(w, n) => NodeHeld(r, n)
          BY <3>11 DEF KeepsRoots
        <5>2. \A n \in members : NodeHeld(r, n)
          BY <3>6, <3>7 DEF NodeHeld
        <5>3. VersionHeld(r, ver)
          BY <3>6, <3>7 DEF VersionHeld
        <5> SUFFICES ASSUME NEW x \in Subnets
            PROVE  /\ <<"subnet_record", x>> \in r.seen =>
                        /\ <<"threshold_key", x>> \in r.seen /\ <<"cup", x>> \in r.seen
                        /\ x \in ToSet(r.subnets)
                        /\ \A n \in m.subnets[x].members : NodeHeld(r, n)
                        /\ VersionHeld(r, m.subnets[x].version)
                   /\ (\/ <<"threshold_key", x>> \in r.seen \/ <<"cup", x>> \in r.seen
                       \/ x \in ToSet(r.subnets)) => <<"subnet_record", x>> \in r.seen
          BY DEF SubnetsClosed
        <5>4. CASE x = s
          BY <4>1, <5>2, <5>3, <5>4, <3>6, <3>7 DEF members, ver
        <5>5. CASE x # s
          <6>1. <<"subnet_record", x>> \in w.seen =>
                  m.subnets[x].members \in SUBSET Nodes /\ m.subnets[x].version \in Versions
            <7> SUFFICES ASSUME <<"subnet_record", x>> \in w.seen PROVE m.subnets[x] # None
              BY MainnetParts
            <7>1. value(m, <<"subnet_record", x>>) # None
              BY CopiedValue
            <7> QED
              BY <7>1, PresentValues
          <6>2. <<"subnet_record", x>> \in w.seen =>
                     /\ \A n \in m.subnets[x].members : NodeHeld(r, n)
                     /\ VersionHeld(r, m.subnets[x].version)
            BY <3>12, <6>1, <5>1, <3>11 DEF Closed, SubnetsClosed, KeepsRoots
          <6> QED
            BY <3>12, <4>1, <5>5, <6>2, <3>6, <3>7 DEF Closed, SubnetsClosed
        <5> QED
          BY <5>4, <5>5
      <4>4. NodesClosed(r, m) /\ OperatorsClosed(r, m)
        <5>1. w.seen \subseteq r.seen
          BY <3>9
        <5> QED
          BY <1>2, <3>12, <3>7, <4>2, <5>1 DEF Closed, NodesClosed, OperatorsClosed, OperatorHeld
      <4>5. \A i, j \in 1..Len(r.subnets) : r.subnets[i] = r.subnets[j] => i = j
        <5>1. \A i \in 1..Len(w.subnets) : w.subnets[i] # s
          <6>1. s \notin ToSet(w.subnets)
            BY <1>1, <1>5, <3>12 DEF Closed, SubnetsClosed
          <6> QED
            BY <6>1, <3>5 DEF ToSet
        <5>2. /\ Len(r.subnets) = Len(w.subnets) + 1 /\ Len(w.subnets) \in Nat
              /\ \A i \in 1..Len(w.subnets) : r.subnets[i] = w.subnets[i]
              /\ r.subnets[Len(w.subnets) + 1] = s
          BY <1>1, <3>5, <3>7
        <5>3. \A i \in 1..Len(r.subnets) : i \in 1..Len(w.subnets) \/ i = Len(w.subnets) + 1
          BY <5>2
        <5>4. \A i, j \in 1..Len(w.subnets) : w.subnets[i] = w.subnets[j] => i = j
          BY <3>12 DEF Closed
        <5> QED
          BY <5>1, <5>2, <5>3, <5>4
      <4> QED
        BY <4>3, <4>4, <4>5 DEF Closed
    <3> QED
      BY <3>7, <3>8, <3>10, <3>11, <3>12 DEF Progress
  <2> QED
    BY <2>6, <2>7
<1> QED
  BY <1>4, <1>5
\* What every step keeps of the subnets already copied, when it copies none.
LEMMA SubnetsStayClosed ==
  ASSUME NEW m \in Mainnet, MainnetOK(m), NEW w, Copied(w, m), NEW r,
         SubnetsClosed(w, m), KeepsRoots(w, r), r.subnets = w.subnets,
         w.seen \subseteq r.seen,
         \A s \in Subnets : /\ <<"subnet_record", s>> \in r.seen => <<"subnet_record", s>> \in w.seen
                            /\ <<"threshold_key", s>> \in r.seen => <<"threshold_key", s>> \in w.seen
                            /\ <<"cup", s>> \in r.seen => <<"cup", s>> \in w.seen
  PROVE  SubnetsClosed(r, m)
<1>1. ASSUME NEW s \in Subnets, <<"subnet_record", s>> \in w.seen
      PROVE  m.subnets[s].members \in SUBSET Nodes /\ m.subnets[s].version \in Versions
  BY <1>1, CopiedValue, PresentValues, MainnetParts
<1> QED
  BY <1>1 DEF SubnetsClosed, KeepsRoots

LEMMA NodeStep ==
  ASSUME NEW m \in Mainnet, MainnetOK(m), NEW w \in Walks, Copied(w, m), ~w.failed,
         w.todo.subnets = <<>>, w.todo.nodes # <<>>
  PROVE  Progress(w, WalkOne(w, m), m)
<1> DEFINE n == Head(w.todo.nodes)
           u == [w EXCEPT !.todo.nodes = Tail(@)]
           keys == <<<<"node_record", n>>>> \o NodeKeys(n)
           v == copyKeys(u, keys, m)
           hostos == m.nodes[n].hostos
           q == IF hostos = None THEN v ELSE copyKey(v, <<"hostos_version", hostos>>, m)
           r == WalkOne(w, m)
<1>1. /\ n \in Nodes /\ Tail(w.todo.nodes) \in Seq(Nodes)
      /\ ToSet(w.todo.nodes) = {n} \union ToSet(Tail(w.todo.nodes))
  BY ScopeParts, ToSetIs
<1>2. /\ u \in Walks /\ Copied(u, m) /\ ~u.failed
      /\ u.seen = w.seen /\ u.subnets = w.subnets /\ u.versions = w.versions
      /\ u.todo.subnets = w.todo.subnets /\ u.todo.nodes = Tail(w.todo.nodes)
      /\ u.todo.operators = w.todo.operators /\ u.todo.versions = w.todo.versions
  <2>1. /\ u \in Walks /\ ~u.failed /\ u.out = w.out
        /\ u.seen = w.seen /\ u.subnets = w.subnets /\ u.versions = w.versions
        /\ u.todo.subnets = w.todo.subnets /\ u.todo.nodes = Tail(w.todo.nodes)
        /\ u.todo.operators = w.todo.operators /\ u.todo.versions = w.todo.versions
    BY <1>1 DEF Walks, Scope
  <2> QED
    BY <2>1, CopiedSame
<1>3. r = copyNode(u, n, m)
  BY DEF WalkOne
<1> SUFFICES Progress(w, r, m)
  OBVIOUS
<1> HIDE DEF n, u, r
<1>4. CASE <<"node_record", n>> \in w.seen
  <2>1. r = u
    BY <1>2, <1>3, <1>4 DEF copyNode
  <2>2. AllPresent(w, m) => AllPresent(u, m)
    BY <1>1, <1>2 DEF AllPresent
  <2>3. KeepsRoots(w, u)
    BY <1>1, <1>2, <1>4 DEF KeepsRoots, SubnetHeld, NodeHeld, OperatorHeld, VersionHeld
  <2>4. ASSUME Closed(w, m) PROVE Closed(u, m)
    <3>1. SubnetsClosed(u, m)
      BY <1>2, <2>3, <2>4, SubnetsStayClosed DEF Closed
    <3>2. NodesClosed(u, m) /\ OperatorsClosed(u, m)
      BY <1>2, <2>4 DEF Closed, NodesClosed, OperatorsClosed, OperatorHeld
    <3> QED
      BY <1>2, <2>4, <3>1, <3>2 DEF Closed
  <2> QED
    BY <1>2, <2>1, <2>2, <2>3, <2>4 DEF Progress
<1>5. CASE <<"node_record", n>> \notin w.seen
  <2> DEFINE K == {<<"node_record", n>>} \union ToSet(NodeKeys(n))
  <2>1. keys \in Seq(RecordKey) /\ ToSet(keys) = K
    <3> DEFINE a == <<<<"node_record", n>>>>
               b == NodeKeys(n)
    <3>1. a \in Seq(RecordKey) /\ ToSet(a) = {<<"node_record", n>>}
      <4>1. <<"node_record", n>> \in RecordKey
        BY <1>1, KeyTypes
      <4> QED
        BY <4>1 DEF ToSet
    <3>2. b \in Seq(RecordKey)
      BY <1>1, NodeKeysAre
    <3> HIDE DEF a, b
    <3>3. a \o b \in Seq(RecordKey) /\ ToSet(a \o b) = ToSet(a) \union ToSet(b)
      BY <3>1, <3>2, ToSetIs
    <3> QED
      BY <3>1, <3>3 DEF a, b
  <2>2. Extends(u, v, K, m)
    <3> HIDE DEF keys, K
    <3> QED
      BY <1>2, <2>1, KeysCopied
  <2>3. /\ v \in Walks /\ Copied(v, m)
        /\ ~v.failed => \A k \in K : value(m, k) # None
        /\ (\A k \in K : value(m, k) # None) => ~v.failed
    BY <1>2, <2>2 DEF Extends
  <2>4. r = IF v.failed THEN v
            ELSE [q EXCEPT !.todo.operators = Append(@, m.nodes[n].operator)]
    BY <1>2, <1>3, <1>5, Zenon DEF copyNode
  <2>5. AllPresent(w, m) => ~v.failed
    <3> SUFFICES ASSUME AllPresent(w, m) PROVE \A k \in K : value(m, k) # None
      BY <2>3
    <3>1. m.nodes[n] # None
      BY <1>1, MainnetParts DEF AllPresent
    <3> QED
      BY <1>1, <3>1, PresentValues
  <2> HIDE DEF v, keys
  <2>6. CASE v.failed
    BY <2>3, <2>4, <2>5, <2>6 DEF Progress
  <2>7. CASE ~v.failed
    <3> DEFINE op == m.nodes[n].operator
               H == IF hostos = None THEN {} ELSE {<<"hostos_version", hostos>>}
    <3>1. m.nodes[n] # None
      BY <1>1, <2>3, <2>7, PresentValues
    <3>2. /\ op \in Operators /\ op \in Present(m.operators)
          /\ hostos # None => hostos \in HostVersions /\ hostos \in m.hostos
      BY <1>1, <3>1, MainnetParts
    <3> HIDE DEF hostos
    <3>3. Extends(v, q, H, m)
      <4>1. CASE hostos = None
        BY <2>3, <4>1 DEF Extends
      <4>2. CASE hostos # None
        <5>1. <<"hostos_version", hostos>> \in RecordKey
          BY <3>2, <4>2, KeyTypes
        <5>2. Extends(v, copyKey(v, <<"hostos_version", hostos>>, m), {<<"hostos_version", hostos>>}, m)
          BY <2>3, <5>1, KeyCopied
        <5> QED
          BY <4>2, <5>2
      <4> QED
        BY <4>1, <4>2
    <3>4. Extends(u, q, K \union H, m)
      BY <2>2, <3>3, ExtendsMore
    <3>5. ~q.failed
      <4>1. \A k \in H : value(m, k) # None
        BY <3>2, PresentValues
      <4> QED
        BY <2>7, <3>3, <4>1 DEF Extends
    <3> HIDE DEF q, H, op, K
    <3>6. /\ q \in Walks /\ Copied(q, m) /\ q.todo = u.todo
          /\ q.subnets = w.subnets /\ q.seen = w.seen \union (K \union H)
      BY <1>2, <3>4, <3>5 DEF Extends
    <3>7. /\ u.todo \in Scope /\ u.todo.operators \in Seq(Operators)
      BY <1>2, ScopeParts
    <3>8. /\ Append(u.todo.operators, op) \in Seq(Operators)
          /\ ToSet(Append(u.todo.operators, op)) = ToSet(u.todo.operators) \union {op}
      BY <3>2, <3>7, ToSetIs
    <3>9. /\ r \in Walks /\ ~r.failed /\ r.out = q.out /\ r.seen = q.seen
          /\ r.subnets = w.subnets
          /\ r.todo.subnets = u.todo.subnets /\ r.todo.nodes = u.todo.nodes
          /\ r.todo.operators = Append(u.todo.operators, op)
          /\ r.todo.versions = u.todo.versions
      <4> DEFINE a == Append(u.todo.operators, op)
      <4>1. r = [q EXCEPT !.todo.operators = a]
        BY <2>4, <2>7, <3>6, <3>7 DEF op, Walks, Scope
      <4>2. a \in Seq(Operators)
        BY <3>8
      <4> HIDE DEF a
      <4>3. /\ r \in Walks /\ ~r.failed /\ r.out = q.out /\ r.seen = q.seen
            /\ r.subnets = w.subnets
            /\ r.todo.subnets = u.todo.subnets /\ r.todo.nodes = u.todo.nodes
            /\ r.todo.operators = a /\ r.todo.versions = u.todo.versions
        BY <3>5, <3>6, <3>7, <4>1, <4>2 DEF Walks, Scope
      <4> QED
        BY <4>3 DEF a
    <3>10. Copied(r, m)
      BY <3>6, <3>9, CopiedSame
    <3>11. AllPresent(w, m) => AllPresent(r, m)
      BY <1>1, <1>2, <3>2, <3>8, <3>9 DEF AllPresent
    <3>12. r.seen = w.seen \union K \union H
      BY <3>6, <3>9
    <3>13. KeepsRoots(w, r)
      <4>1. w.seen \subseteq r.seen /\ <<"node_record", n>> \in r.seen
        BY <3>12 DEF K
      <4> QED
        BY <1>1, <1>2, <3>8, <3>9, <4>1
        DEF KeepsRoots, SubnetHeld, NodeHeld, OperatorHeld, VersionHeld
    <3>14. ASSUME Closed(w, m) PROVE Closed(r, m)
      <4>1. /\ \A s \in Subnets :
                 /\ <<"subnet_record", s>> \in r.seen => <<"subnet_record", s>> \in w.seen
                 /\ <<"threshold_key", s>> \in r.seen => <<"threshold_key", s>> \in w.seen
                 /\ <<"cup", s>> \in r.seen => <<"cup", s>> \in w.seen
            /\ \A o \in Operators : <<"node_operator_record", o>> \in r.seen
                                      => <<"node_operator_record", o>> \in w.seen
            /\ \A x \in Nodes : <<"node_record", x>> \in r.seen
                                  => <<"node_record", x>> \in w.seen \/ x = n
        <5>1. \A k \in K \union H : k[1] \in {"node_record", "crypto_tls_cert", "crypto_record",
                                             "hostos_version"}
          BY <1>1, NodeKeysSet DEF K, H
        <5>2. \A x : <<"node_record", x>> \in K \union H => x = n
          BY <1>1, NodeKeysSet DEF K, H
        <5> QED
          BY <3>12, <5>1, <5>2
      <4>2. w.seen \subseteq r.seen
        BY <3>12
      <4>3. SubnetsClosed(r, m)
        BY <3>9, <3>13, <3>14, <4>1, <4>2, SubnetsStayClosed DEF Closed
      <4>4. OperatorsClosed(r, m)
        BY <3>14, <4>1, <4>2 DEF Closed, OperatorsClosed
      <4>5. NodesClosed(r, m)
        <5> SUFFICES ASSUME NEW x \in Nodes, <<"node_record", x>> \in r.seen
            PROVE  /\ ToSet(NodeKeys(x)) \subseteq r.seen
                   /\ OperatorHeld(r, m.nodes[x].operator)
                   /\ m.nodes[x].hostos # None => <<"hostos_version", m.nodes[x].hostos>> \in r.seen
          BY DEF NodesClosed
        <5>1. CASE x = n
          <6>1. OperatorHeld(r, op)
            BY <3>8, <3>9 DEF OperatorHeld
          <6> QED
            BY <5>1, <6>1, <3>12 DEF K, H, hostos, op
        <5>2. CASE x # n
          <6>1. <<"node_record", x>> \in w.seen
            BY <4>1, <5>2
          <6>2. m.nodes[x].operator \in Operators
            BY <6>1, CopiedValue, PresentValues, MainnetParts
          <6> QED
            BY <3>13, <3>14, <4>2, <6>1, <6>2 DEF Closed, NodesClosed, KeepsRoots
        <5> QED
          BY <5>1, <5>2
      <4> QED
        BY <3>9, <3>14, <4>3, <4>4, <4>5 DEF Closed
    <3> QED
      BY <3>9, <3>10, <3>11, <3>13, <3>14 DEF Progress
  <2> QED
    BY <2>6, <2>7
<1> QED
  BY <1>4, <1>5
LEMMA OperatorStep ==
  ASSUME NEW m \in Mainnet, MainnetOK(m), NEW w \in Walks, Copied(w, m), ~w.failed,
         w.todo.subnets = <<>>, w.todo.nodes = <<>>, w.todo.operators # <<>>
  PROVE  Progress(w, WalkOne(w, m), m)
<1> DEFINE o == Head(w.todo.operators)
           u == [w EXCEPT !.todo.operators = Tail(@)]
           k == <<"node_operator_record", o>>
           v == copyKey(u, k, m)
           dc == m.operators[o].dc
           d == <<"data_center_record", dc>>
           q == copyKey(v, d, m)
           r == WalkOne(w, m)
<1>1. /\ o \in Operators /\ Tail(w.todo.operators) \in Seq(Operators)
      /\ ToSet(w.todo.operators) = {o} \union ToSet(Tail(w.todo.operators))
  BY ScopeParts, ToSetIs
<1>2. /\ u \in Walks /\ Copied(u, m) /\ ~u.failed
      /\ u.seen = w.seen /\ u.subnets = w.subnets
      /\ u.todo.subnets = w.todo.subnets /\ u.todo.nodes = w.todo.nodes
      /\ u.todo.operators = Tail(w.todo.operators) /\ u.todo.versions = w.todo.versions
  <2>1. /\ u \in Walks /\ ~u.failed /\ u.out = w.out
        /\ u.seen = w.seen /\ u.subnets = w.subnets
        /\ u.todo.subnets = w.todo.subnets /\ u.todo.nodes = w.todo.nodes
        /\ u.todo.operators = Tail(w.todo.operators) /\ u.todo.versions = w.todo.versions
    BY <1>1 DEF Walks, Scope
  <2> QED
    BY <2>1, CopiedSame
<1>3. r = copyOperator(u, o, m)
  BY DEF WalkOne
<1> SUFFICES Progress(w, r, m)
  OBVIOUS
<1> HIDE DEF o, u, r
<1>4. CASE <<"node_operator_record", o>> \in w.seen
  <2>1. r = u
    BY <1>2, <1>3, <1>4 DEF copyOperator
  <2>2. AllPresent(w, m) => AllPresent(u, m)
    BY <1>1, <1>2 DEF AllPresent
  <2>3. KeepsRoots(w, u)
    BY <1>1, <1>2, <1>4 DEF KeepsRoots, SubnetHeld, NodeHeld, OperatorHeld, VersionHeld
  <2>4. ASSUME Closed(w, m) PROVE Closed(u, m)
    <3>1. SubnetsClosed(u, m)
      BY <1>2, <2>3, <2>4, SubnetsStayClosed DEF Closed
    <3>2. NodesClosed(u, m)
      <4>1. \A n \in Nodes : <<"node_record", n>> \in w.seen => m.nodes[n].operator \in Operators
        BY CopiedValue, PresentValues, MainnetParts
      <4> QED
        BY <1>2, <2>3, <2>4, <4>1 DEF Closed, NodesClosed, KeepsRoots
    <3>3. OperatorsClosed(u, m)
      BY <1>2, <2>4 DEF Closed, OperatorsClosed
    <3> QED
      BY <1>2, <2>4, <3>1, <3>2, <3>3 DEF Closed
  <2> QED
    BY <1>2, <2>1, <2>2, <2>3, <2>4 DEF Progress
<1>5. CASE k \notin w.seen
  <2>1. k \in RecordKey
    BY <1>1, KeyTypes
  <2>2. Extends(u, v, {k}, m)
    <3> HIDE DEF k
    <3> QED
      BY <1>2, <2>1, KeyCopied
  <2>3. /\ v \in Walks /\ Copied(v, m)
        /\ ~v.failed => value(m, k) # None
        /\ value(m, k) # None => ~v.failed
    BY <1>2, <2>2 DEF Extends
  <2>4. r = IF v.failed THEN v ELSE q
    BY <1>2, <1>3, <1>5, Zenon DEF copyOperator
  <2>5. AllPresent(w, m) => ~v.failed
    <3> SUFFICES ASSUME AllPresent(w, m) PROVE value(m, k) # None
      BY <2>3
    <3>1. m.operators[o] # None
      BY <1>1, MainnetParts DEF AllPresent
    <3> QED
      BY <1>1, <3>1, PresentValues
  <2> HIDE DEF v
  <2>6. CASE v.failed
    BY <2>3, <2>4, <2>5, <2>6 DEF Progress
  <2>7. CASE ~v.failed
    <3>1. m.operators[o] # None
      BY <1>1, <2>3, <2>7, PresentValues
    <3>2. dc \in Dcs /\ dc \in m.dcs
      BY <1>1, <3>1, MainnetParts
    <3> HIDE DEF dc
    <3>3. d \in RecordKey /\ value(m, d) # None
      BY <3>2, KeyTypes, PresentValues
    <3> HIDE DEF d, k
    <3>4. Extends(v, q, {d}, m)
      BY <2>3, <3>3, KeyCopied
    <3>5. Extends(u, q, {k} \union {d}, m)
      BY <2>2, <3>4, ExtendsMore
    <3>6. ~q.failed
      BY <2>7, <3>3, <3>4 DEF Extends
    <3> HIDE DEF q
    <3>7. /\ r \in Walks /\ Copied(r, m) /\ ~r.failed /\ r.todo = u.todo
          /\ r.subnets = w.subnets /\ r.seen = w.seen \union {k, d}
      BY <1>2, <2>4, <2>7, <3>5, <3>6 DEF Extends
    <3>8. AllPresent(w, m) => AllPresent(r, m)
      BY <1>1, <1>2, <3>7 DEF AllPresent
    <3>9. KeepsRoots(w, r)
      BY <1>1, <1>2, <3>7 DEF KeepsRoots, SubnetHeld, NodeHeld, OperatorHeld, VersionHeld, k
    <3>10. ASSUME Closed(w, m) PROVE Closed(r, m)
      <4>1. /\ \A s \in Subnets :
                 /\ <<"subnet_record", s>> \in r.seen => <<"subnet_record", s>> \in w.seen
                 /\ <<"threshold_key", s>> \in r.seen => <<"threshold_key", s>> \in w.seen
                 /\ <<"cup", s>> \in r.seen => <<"cup", s>> \in w.seen
            /\ \A x \in Operators : <<"node_operator_record", x>> \in r.seen
                                      => <<"node_operator_record", x>> \in w.seen \/ x = o
            /\ \A n \in Nodes : <<"node_record", n>> \in r.seen => <<"node_record", n>> \in w.seen
        BY <3>7 DEF k, d
      <4>2. w.seen \subseteq r.seen
        BY <3>7
      <4>3. SubnetsClosed(r, m)
        BY <3>7, <3>9, <3>10, <4>1, <4>2, SubnetsStayClosed DEF Closed
      <4>4. OperatorsClosed(r, m)
        BY <3>7, <3>10, <4>1, <4>2 DEF Closed, OperatorsClosed, d, dc
      <4>5. NodesClosed(r, m)
        <5>1. \A n \in Nodes : <<"node_record", n>> \in w.seen => m.nodes[n].operator \in Operators
          BY CopiedValue, PresentValues, MainnetParts
        <5> QED
          BY <3>9, <3>10, <4>1, <4>2, <5>1 DEF Closed, NodesClosed, KeepsRoots
      <4> QED
        BY <3>7, <3>10, <4>3, <4>4, <4>5 DEF Closed
    <3> QED
      BY <3>7, <3>8, <3>9, <3>10 DEF Progress
  <2> QED
    BY <2>6, <2>7
<1> QED
  BY <1>4, <1>5

LEMMA VersionStep ==
  ASSUME NEW m \in Mainnet, MainnetOK(m), NEW w \in Walks, Copied(w, m), ~w.failed,
         w.todo.subnets = <<>>, w.todo.nodes = <<>>, w.todo.operators = <<>>,
         w.todo.versions # <<>>
  PROVE  Progress(w, WalkOne(w, m), m)
<1> DEFINE ver == Head(w.todo.versions)
           u == [w EXCEPT !.todo.versions = Tail(@)]
           k == <<"replica_version", ver>>
           v == copyKey(u, k, m)
           r == WalkOne(w, m)
<1>1. /\ ver \in Versions /\ Tail(w.todo.versions) \in Seq(Versions)
      /\ ToSet(w.todo.versions) = {ver} \union ToSet(Tail(w.todo.versions))
  BY ScopeParts, ToSetIs
<1>2. /\ u \in Walks /\ Copied(u, m) /\ ~u.failed
      /\ u.seen = w.seen /\ u.subnets = w.subnets
      /\ u.todo.subnets = w.todo.subnets /\ u.todo.nodes = w.todo.nodes
      /\ u.todo.operators = w.todo.operators /\ u.todo.versions = Tail(w.todo.versions)
  <2>1. /\ u \in Walks /\ ~u.failed /\ u.out = w.out
        /\ u.seen = w.seen /\ u.subnets = w.subnets
        /\ u.todo.subnets = w.todo.subnets /\ u.todo.nodes = w.todo.nodes
        /\ u.todo.operators = w.todo.operators /\ u.todo.versions = Tail(w.todo.versions)
    BY <1>1 DEF Walks, Scope
  <2> QED
    BY <2>1, CopiedSame
<1>3. r = copyVersion(u, ver, m)
  BY DEF WalkOne
<1> SUFFICES Progress(w, r, m)
  OBVIOUS
<1> HIDE DEF ver, u, r
\* Seen already or copied now, the version is in, and nothing else changed.
<1>4. ASSUME r \in Walks, Copied(r, m), ~r.failed, r.todo = u.todo, r.subnets = w.subnets,
             r.seen = w.seen \union {k}
      PROVE  Progress(w, r, m)
  <2>1. AllPresent(w, m) => AllPresent(r, m)
    BY <1>1, <1>2, <1>4 DEF AllPresent
  <2>2. KeepsRoots(w, r)
    BY <1>1, <1>2, <1>4 DEF KeepsRoots, SubnetHeld, NodeHeld, OperatorHeld, VersionHeld
  <2>3. ASSUME Closed(w, m) PROVE Closed(r, m)
    <3>1. /\ \A s \in Subnets :
               /\ <<"subnet_record", s>> \in r.seen => <<"subnet_record", s>> \in w.seen
               /\ <<"threshold_key", s>> \in r.seen => <<"threshold_key", s>> \in w.seen
               /\ <<"cup", s>> \in r.seen => <<"cup", s>> \in w.seen
          /\ \A x \in Operators : <<"node_operator_record", x>> \in r.seen
                                    => <<"node_operator_record", x>> \in w.seen
          /\ \A n \in Nodes : <<"node_record", n>> \in r.seen => <<"node_record", n>> \in w.seen
      BY <1>4
    <3>2. w.seen \subseteq r.seen
      BY <1>4
    <3>3. SubnetsClosed(r, m)
      BY <1>4, <2>2, <2>3, <3>1, <3>2, SubnetsStayClosed DEF Closed
    <3>4. OperatorsClosed(r, m)
      BY <2>3, <3>1, <3>2 DEF Closed, OperatorsClosed
    <3>5. NodesClosed(r, m)
      <4>1. \A n \in Nodes : <<"node_record", n>> \in w.seen => m.nodes[n].operator \in Operators
        BY CopiedValue, PresentValues, MainnetParts
      <4> QED
        BY <2>2, <2>3, <3>1, <3>2, <4>1 DEF Closed, NodesClosed, KeepsRoots
    <3> QED
      BY <1>4, <2>3, <3>3, <3>4, <3>5 DEF Closed
  <2> QED
    BY <1>4, <2>1, <2>2, <2>3 DEF Progress
<1>5. CASE k \in w.seen
  <2>1. r = u
    BY <1>2, <1>3, <1>5 DEF copyVersion
  <2> HIDE DEF k
  <2>2. r.seen = w.seen \union {k}
    BY <1>2, <1>5, <2>1
  <2> QED
    BY <1>2, <1>4, <2>1, <2>2
<1>6. CASE k \notin w.seen
  <2>1. k \in RecordKey
    BY <1>1, KeyTypes
  <2>2. Extends(u, v, {k}, m)
    <3> HIDE DEF k
    <3> QED
      BY <1>2, <2>1, KeyCopied
  <2>3. r = IF v.failed THEN v ELSE [v EXCEPT !.versions = Append(@, ver)]
    BY <1>2, <1>3, <1>6, Zenon DEF copyVersion
  <2>4. AllPresent(w, m) => value(m, k) # None
    BY <1>1, PresentValues DEF AllPresent
  <2> HIDE DEF v, k
  <2>5. CASE v.failed
    BY <1>2, <2>2, <2>3, <2>4, <2>5 DEF Progress, Extends
  <2>6. CASE ~v.failed
    <3>1. v \in Walks /\ Copied(v, m) /\ v.todo = u.todo /\ v.subnets = w.subnets
          /\ v.seen = w.seen \union {k}
      BY <1>2, <2>2, <2>6 DEF Extends
    <3>2. Append(v.versions, ver) \in Seq(Versions)
      BY <1>1, <3>1 DEF Walks
    <3>3. r \in Walks /\ ~r.failed /\ r.out = v.out /\ r.seen = v.seen /\ r.todo = v.todo
          /\ r.subnets = v.subnets
      BY <2>3, <2>6, <3>1, <3>2 DEF Walks
    <3>4. Copied(r, m)
      BY <3>1, <3>3, CopiedSame
    <3> QED
      BY <1>4, <3>1, <3>3, <3>4
  <2> QED
    BY <2>5, <2>6
<1> QED
  BY <1>5, <1>6

\* A step of the walk, whichever root it takes.
LEMMA WalkProgress ==
  ASSUME NEW m \in Mainnet, MainnetOK(m), NEW w \in Walks, Copied(w, m), ~w.failed,
         w.todo # NoScope
  PROVE  Progress(w, WalkOne(w, m), m)
<1>1. \/ w.todo.subnets # <<>> \/ w.todo.nodes # <<>> \/ w.todo.operators # <<>>
      \/ w.todo.versions # <<>>
  BY ScopeParts DEF Scope, NoScope
<1> QED
  BY <1>1, SubnetStep, NodeStep, OperatorStep, VersionStep

LEMMA WalkStarts ==
  ASSUME NEW m, NEW scope \in Scope
  PROVE  LET w == StartWalk(scope)
         IN  w \in Walks /\ Copied(w, m) /\ ~w.failed /\ Closed(w, m)
<1> DEFINE w == StartWalk(scope)
<1>1. w \in Walks /\ w.seen = {} /\ w.out = <<>> /\ ~w.failed /\ w.subnets = <<>>
  BY DEF StartWalk, Walks
<1>2. ToSet(w.subnets) = {}
  BY <1>1, ToSetIs
<1> HIDE DEF w
<1>3. Copied(w, m)
  BY <1>1 DEF Copied
<1>4. Closed(w, m)
  BY <1>1, <1>2 DEF Closed, SubnetsClosed, NodesClosed, OperatorsClosed
<1> QED
  BY <1>1, <1>3, <1>4 DEF w
-----------------------------------------------------------------------------
(***************************************************************************)
(* The batch.                                                              *)
(***************************************************************************)

\* s lists the elements of E, each once.
Listed(s, E) ==
  s \in Seq(E) /\ ToSet(s) = E /\ \A i, j \in 1..Len(s) : s[i] = s[j] => i = j

\* s is a batch of the mutations E, one for each key.
Table(s, E) == Listed(s, E) /\ \A e, f \in E : e.key = f.key => e = f

LEMMA SeqGrows ==
  ASSUME NEW S, NEW T, S \subseteq T, NEW s \in Seq(S)
  PROVE  s \in Seq(T)
  OBVIOUS

LEMMA ListedJoin ==
  ASSUME NEW s, NEW E, NEW t, NEW F, Listed(s, E), Listed(t, F), E \intersect F = {}
  PROVE  Listed(s \o t, E \union F)
<1> DEFINE G == E \union F
           r == s \o t
<1>1. s \in Seq(G) /\ t \in Seq(G)
  BY SeqGrows DEF Listed
<1>2. /\ s \in Seq(E) /\ ToSet(s) = E /\ t \in Seq(F) /\ ToSet(t) = F
      /\ \A i, j \in 1..Len(s) : s[i] = s[j] => i = j
      /\ \A i, j \in 1..Len(t) : t[i] = t[j] => i = j
  BY DEF Listed
<1> HIDE DEF G
<1>3. /\ r \in Seq(G) /\ Len(r) = Len(s) + Len(t) /\ Len(s) \in Nat /\ Len(t) \in Nat
      /\ \A i \in 1..Len(s) : r[i] = s[i]
      /\ \A i \in 1..Len(t) : r[Len(s) + i] = t[i]
  BY <1>1, ConcatIs
<1>4. ToSet(r) = E \union F
  BY <1>1, <1>2, ToSetIs
<1> HIDE DEF r
<1>5. \A i \in 1..Len(r) : i \notin 1..Len(s) =>
        i - Len(s) \in 1..Len(t) /\ Len(s) + (i - Len(s)) = i
  BY <1>3
<1>6. \A i \in 1..Len(r) : IF i \in 1..Len(s) THEN r[i] = s[i] /\ r[i] \in E
                           ELSE r[i] = t[i - Len(s)] /\ r[i] \in F
  <2>1. \A i \in 1..Len(s) : s[i] \in E
    BY <1>2
  <2>2. \A i \in 1..Len(t) : t[i] \in F
    BY <1>2
  <2> QED
    BY <1>3, <1>5, <2>1, <2>2
<1>7. ASSUME NEW i \in 1..Len(r), NEW j \in 1..Len(r), r[i] = r[j] PROVE i = j
  <2>1. CASE i \in 1..Len(s)
    <3>1. j \in 1..Len(s)
      BY <1>6, <1>7, <2>1
    <3> QED
      BY <1>2, <1>6, <1>7, <2>1, <3>1
  <2>2. CASE i \notin 1..Len(s)
    <3>1. j \notin 1..Len(s)
      BY <1>6, <1>7, <2>2
    <3>2. i - Len(s) = j - Len(s)
      BY <1>2, <1>5, <1>6, <1>7, <2>2, <3>1
    <3> QED
      BY <1>3, <3>2
  <2> QED
    BY <2>1, <2>2
<1> QED
  BY <1>3, <1>4, <1>7 DEF Listed, G, r

LEMMA TableJoin ==
  ASSUME NEW s, NEW E, NEW t, NEW F, Table(s, E), Table(t, F),
         \A e \in E, f \in F : e.key # f.key
  PROVE  Table(s \o t, E \union F)
<1>1. E \intersect F = {}
  OBVIOUS
<1>2. Listed(s \o t, E \union F)
  BY <1>1, ListedJoin DEF Table
<1> QED
  BY <1>2 DEF Table

LEMMA ListedKept ==
  ASSUME NEW s, NEW E, Listed(s, E), NEW X
  PROVE  Listed(Kept(s, {i \in DOMAIN s : s[i] \notin X}), E \ X)
<1> DEFINE keep == {i \in DOMAIN s : s[i] \notin X}
           k == Kept(s, keep)
<1>1. /\ s \in Seq(E) /\ ToSet(s) = E /\ DOMAIN s = 1..Len(s)
      /\ \A i, j \in 1..Len(s) : s[i] = s[j] => i = j
  BY DEF Listed
<1>2. keep \in SUBSET (1..Len(s))
  BY <1>1
<1>3. k \in Seq(E) /\ ReadAt(k, s, keep)
  <2> HIDE DEF keep
  <2> QED
    BY <1>1, <1>2, KeptIs
<1> HIDE DEF k
<1>4. PICK f \in [1..Len(k) -> keep] :
        /\ \A i \in 1..Len(k) : k[i] = s[f[i]]
        /\ \A i, j \in 1..Len(k) : f[i] = f[j] => i = j
        /\ \A x \in keep : \E i \in 1..Len(k) : f[i] = x
  BY <1>3 DEF ReadAt
<1>5. Len(k) \in Nat /\ DOMAIN k = 1..Len(k)
  BY <1>3
<1>6. \A i \in 1..Len(k) : f[i] \in keep /\ k[i] = s[f[i]] /\ k[i] \in E \ X
  BY <1>1, <1>4
<1>7. k \in Seq(E \ X)
  BY <1>3, <1>5, <1>6
<1>8. \A x \in E \ X : \E i \in 1..Len(k) : k[i] = x
  <2> SUFFICES ASSUME NEW x \in E \ X PROVE \E i \in 1..Len(k) : k[i] = x
    OBVIOUS
  <2>1. PICK j \in 1..Len(s) : s[j] = x
    BY <1>1 DEF ToSet
  <2> QED
    BY <1>1, <1>4, <2>1
<1>9. ToSet(k) = E \ X
  BY <1>5, <1>6, <1>8 DEF ToSet
<1>10. \A i, j \in 1..Len(k) : k[i] = k[j] => i = j
  BY <1>1, <1>4, <1>6
<1> QED
  BY <1>7, <1>9, <1>10 DEF Listed, k

LEMMA ShortLists ==
  /\ Listed(<<>>, {}) /\ Table(<<>>, {})
  /\ \A e : Listed(<<e>>, {e}) /\ Table(<<e>>, {e})
<1>1. Listed(<<>>, {})
  BY DEF Listed, ToSet
<1>2. ASSUME NEW e PROVE Listed(<<e>>, {e})
  BY DEF Listed, ToSet
<1> QED
  BY <1>1, <1>2 DEF Table

LEMMA MirrorTable ==
  ASSUME NEW m, NEW w \in Walks, Copied(w, m)
  PROVE  Table(w.out, {Insert(k, value(m, k)) : k \in w.seen})
<1> DEFINE E == {Insert(k, value(m, k)) : k \in w.seen}
<1>1. w.out \in Seq(Copies) /\ Len(w.out) \in Nat /\ DOMAIN w.out = 1..Len(w.out)
  BY DEF Walks
<1>2. ASSUME NEW i \in 1..Len(w.out)
      PROVE  w.out[i] = Insert(w.out[i].key, value(m, w.out[i].key)) /\ w.out[i] \in E
  <2>1. w.out[i] \in Copies
    BY <1>1
  <2>2. w.out[i] = [key |-> w.out[i].key, value |-> w.out[i].value]
    BY <2>1 DEF Copies
  <2>3. w.out[i].value = value(m, w.out[i].key) /\ w.out[i].key \in w.seen
    BY DEF Copied
  <2> QED
    BY <2>2, <2>3 DEF Insert
<1>3. ASSUME NEW k \in w.seen PROVE \E i \in 1..Len(w.out) : w.out[i] = Insert(k, value(m, k))
  <2>1. PICK i \in 1..Len(w.out) : w.out[i].key = k
    BY DEF Copied
  <2> QED
    BY <1>2, <2>1
<1>4. w.out \in Seq(E)
  BY <1>1, <1>2
<1>5. ToSet(w.out) = E
  BY <1>1, <1>2, <1>3 DEF ToSet
<1>6. \A i, j \in 1..Len(w.out) : w.out[i] = w.out[j] => i = j
  BY DEF Copied
<1>7. \A e, f \in E : e.key = f.key => e = f
  BY DEF Insert
<1> QED
  BY <1>4, <1>5, <1>6, <1>7 DEF Table, Listed
\* What the seeds plant: a node, its subnet, an operator.
FabNode(n) ==
  {Insert(k, "seed") : k \in ToSet(NodeKeys(n))}
    \union {Insert(<<"node_record", n>>, [operator |-> None, hostos |-> None])}

FabSubnet(s) ==
  FabNode(NodeOf(s)) \union
  {Insert(<<"subnet_record", s>>,
          [system |-> TRUE, members |-> {NodeOf(s)}, version |-> SeedVersion]),
   Insert(<<"threshold_key", s>>, "seed"), Insert(<<"cup", s>>, "seed")}

FabOperator(P) ==
  IF P = {} THEN {}
  ELSE {Insert(<<"node_operator_record", SeedOperator>>, [dc |-> SeedDc]),
        Insert(<<"data_center_record", SeedDc>>, "seed")}

FabLists(s, mirrored) ==
  {Insert(<<"subnet_list">>, MergeSubnets(<<s>>, mirrored)),
   Insert(<<"replica_version", SeedVersion>>, "seed")}

LEMMA InsertIs ==
  \A k, v : Insert(k, v).key = k /\ Insert(k, v).value = v
  BY DEF Insert

LEMMA NodeTable ==
  ASSUME NEW n
  PROVE  /\ Table(seedNodes(n), FabNode(n))
         /\ \A e \in FabNode(n) :
              e.key[1] \in {"crypto_tls_cert", "crypto_record", "node_record"}
<1> DEFINE p == [i \in 1..5 |-> Insert(NodeKeys(n)[i], "seed")]
           E == {Insert(k, "seed") : k \in ToSet(NodeKeys(n))}
           r == Insert(<<"node_record", n>>, [operator |-> None, hostos |-> None])
<1>1. ToSet(NodeKeys(n)) = {NodeKeys(n)[i] : i \in 1..5}
  BY NodeKeysAre DEF ToSet
<1>2. \A i, j \in 1..5 : NodeKeys(n)[i] = NodeKeys(n)[j] => i = j
  <2> SUFFICES ASSUME NEW i \in 1..5, NEW j \in 1..5, NodeKeys(n)[i] = NodeKeys(n)[j]
               PROVE  i = j
    OBVIOUS
  <2>1. ASSUME NEW x \in 1..5, x # 1
        PROVE  /\ x - 1 \in 1..4 /\ (x - 1) + 1 = x
               /\ NodeKeys(n)[x] = <<"crypto_record", n, nodeKeyPurposes[x - 1]>>
    <3>1. x - 1 \in 1..4 /\ (x - 1) + 1 = x
      BY <2>1
    <3> QED
      BY <3>1, NodeKeysAre
  <2>2. NodeKeys(n)[1] = <<"crypto_tls_cert", n>>
    BY NodeKeysAre
  <2>3. CASE i = 1 \/ j = 1
    BY <2>1, <2>2, <2>3
  <2>4. CASE i # 1 /\ j # 1
    <3>1. nodeKeyPurposes[i - 1] = nodeKeyPurposes[j - 1]
      BY <2>1, <2>4
    <3>2. \A x, y \in 1..4 : nodeKeyPurposes[x] = nodeKeyPurposes[y] => x = y
      BY DEF nodeKeyPurposes
    <3> QED
      BY <2>1, <2>4, <3>1, <3>2
  <2> QED
    BY <2>3, <2>4
<1>3. Table(p, E)
  <2>1. \A i \in 1..5 : p[i].key = NodeKeys(n)[i] /\ p[i] \in E
    BY <1>1, InsertIs
  <2>2. p \in Seq(E) /\ Len(p) = 5 /\ DOMAIN p = 1..5
    BY <2>1
  <2>3. ToSet(p) = E
    BY <1>1, <2>2 DEF ToSet
  <2>4. \A i, j \in 1..5 : p[i] = p[j] => i = j
    BY <1>2, <2>1
  <2>5. \A e, f \in E : e.key = f.key => e = f
    BY InsertIs
  <2> QED
    BY <2>2, <2>3, <2>4, <2>5 DEF Table, Listed
<1>4. \A e \in E : e.key[1] \in {"crypto_tls_cert", "crypto_record"}
  BY NodeKeysSet, InsertIs
<1>5. r.key = <<"node_record", n>> /\ r.key[1] = "node_record"
  BY InsertIs
<1>6. seedNodes(n) = p \o <<r>>
  <2>1. p \in Seq(E)
    BY <1>3 DEF Table, Listed
  <2>2. seedNodes(n) = Append(p, r)
    BY DEF seedNodes
  <2> HIDE DEF p, r, E
  <2> QED
    BY <2>1, <2>2
<1>7. FabNode(n) = E \union {r}
  BY DEF FabNode
<1> HIDE DEF p, E, r
<1>8. Table(p \o <<r>>, E \union {r})
  <2>1. \A e \in E, f \in {r} : e.key # f.key
    BY <1>4, <1>5
  <2> QED
    BY <1>3, <2>1, ShortLists, TableJoin
<1> QED
  BY <1>4, <1>5, <1>6, <1>7, <1>8

LEMMA SubnetTable ==
  ASSUME NEW s
  PROVE  /\ Table(seedSubnet(s, TRUE), FabSubnet(s))
         /\ \A e \in FabSubnet(s) :
              e.key[1] \in {"crypto_tls_cert", "crypto_record", "node_record",
                            "subnet_record", "threshold_key", "cup"}
<1> DEFINE N == FabNode(NodeOf(s))
           a == Insert(<<"subnet_record", s>>,
                       [system |-> TRUE, members |-> {NodeOf(s)}, version |-> SeedVersion])
           b == Insert(<<"threshold_key", s>>, "seed")
           c == Insert(<<"cup", s>>, "seed")
<1>1. /\ a.key = <<"subnet_record", s>> /\ a.key[1] = "subnet_record"
      /\ b.key = <<"threshold_key", s>> /\ b.key[1] = "threshold_key"
      /\ c.key = <<"cup", s>> /\ c.key[1] = "cup"
  BY InsertIs
<1>2. seedSubnet(s, TRUE) = seedNodes(NodeOf(s)) \o <<a, b, c>>
  BY DEF seedSubnet
<1>3. FabSubnet(s) = N \union {a, b, c}
  BY DEF FabSubnet
<1> HIDE DEF a, b, c
<1>4. Table(<<a, b, c>>, {a, b, c})
  BY <1>1 DEF Table, Listed, ToSet
<1>5. \A e \in N : e.key[1] \in {"crypto_tls_cert", "crypto_record", "node_record"}
  BY NodeTable
<1> HIDE DEF N
<1>6. \A e \in N, f \in {a, b, c} : e.key # f.key
  BY <1>1, <1>5
<1>7. Table(seedNodes(NodeOf(s)) \o <<a, b, c>>, N \union {a, b, c})
  BY <1>4, <1>6, NodeTable, TableJoin DEF N
<1> QED
  BY <1>1, <1>2, <1>3, <1>5, <1>7

LEMMA FlattenOne ==
  ASSUME NEW s
  PROVE  FlattenSeq(<<s>>) = s
<1> DEFINE f0 == CHOOSE f : f = [i \in 1..1 |-> IF i = 1 THEN <<s>>[i] ELSE f[i - 1] \o <<s>>[i]]
           f1 == [i \in 1..1 |-> s]
<1>1. f1 = [i \in 1..1 |-> IF i = 1 THEN <<s>>[i] ELSE f1[i - 1] \o <<s>>[i]]
  OBVIOUS
<1>2. f0 = [i \in 1..1 |-> IF i = 1 THEN <<s>>[i] ELSE f0[i - 1] \o <<s>>[i]]
  <2> HIDE DEF f1
  <2> QED
    BY <1>1, Zenon
<1>3. Len(<<s>>) = 1
  OBVIOUS
<1>4. FlattenSeq(<<s>>) = f0[1]
  BY <1>3 DEF FlattenSeq
<1> HIDE DEF f0
<1> QED
  BY <1>2, <1>4

LEMMA SeedsTable ==
  ASSUME NEW s, NEW mirrored, NEW versions \in Seq(Versions)
  PROVE  /\ Table(seedMutations(<<s>>, mirrored, versions),
                  FabSubnet(s) \union FabLists(s, mirrored))
         /\ \A e \in FabSubnet(s) \union FabLists(s, mirrored) :
              e.key[1] \in {"crypto_tls_cert", "crypto_record", "node_record",
                            "subnet_record", "threshold_key", "cup", "subnet_list",
                            "replica_version"}
<1> DEFINE a == Insert(<<"subnet_list">>, MergeSubnets(<<s>>, mirrored))
           b == Insert(<<"replica_version", SeedVersion>>, "seed")
           F == FabSubnet(s)
           t == seedSubnet(s, TRUE)
<1>1. a.key[1] = "subnet_list" /\ b.key[1] = "replica_version"
  BY InsertIs
<1>2. ~Contains(versions, SeedVersion)
  BY LocalRegistryAssumption DEF Contains
<1>3. [i \in DOMAIN <<s>> |-> seedSubnet(<<s>>[i], i = 1)] = <<t>>
  <2>1. DOMAIN <<s>> = 1..1 /\ <<s>>[1] = s
    OBVIOUS
  <2>2. ASSUME NEW i \in 1..1 PROVE seedSubnet(<<s>>[i], i = 1) = t
    <3>1. i = 1 /\ (i = 1) = TRUE
      OBVIOUS
    <3>2. <<s>>[i] = s
      BY <2>1, <3>1
    <3> QED
      BY <3>1, <3>2, Zenon
  <2> HIDE DEF t
  <2>3. [i \in DOMAIN <<s>> |-> seedSubnet(<<s>>[i], i = 1)] = [i \in 1..1 |-> t]
    BY <2>1, <2>2, Zenon
  <2>4. [i \in 1..1 |-> t] = <<t>>
    OBVIOUS
  <2> QED
    BY <2>3, <2>4, Zenon
<1>4. FlattenSeq([i \in DOMAIN <<s>> |-> seedSubnet(<<s>>[i], i = 1)]) = t
  <2> HIDE DEF t
  <2> QED
    BY <1>3, FlattenOne
<1>5. seedMutations(<<s>>, mirrored, versions) = t \o <<a>> \o <<b>>
  <2>1. <<s>> # <<>>
    OBVIOUS
  <2> HIDE DEF t
  <2> QED
    BY <1>2, <1>4, <2>1 DEF seedMutations
<1>6. \A e \in F : e.key[1] \in {"crypto_tls_cert", "crypto_record", "node_record",
                            "subnet_record", "threshold_key", "cup"}
  BY SubnetTable
<1>7. Table(t, F)
  BY SubnetTable
<1>8. FabLists(s, mirrored) = {a, b}
  BY DEF FabLists
<1> HIDE DEF a, b, F, t
<1>9. Table(t \o <<a>>, F \union {a})
  <2>1. \A e \in F, f \in {a} : e.key # f.key
    BY <1>1, <1>6
  <2> QED
    BY <1>7, <2>1, ShortLists, TableJoin
<1>10. Table((t \o <<a>>) \o <<b>>, (F \union {a}) \union {b})
  <2>1. \A e \in F \union {a}, f \in {b} : e.key # f.key
    BY <1>1, <1>6
  <2> QED
    BY <1>9, <2>1, ShortLists, TableJoin
<1>11. (F \union {a}) \union {b} = F \union {a, b}
  OBVIOUS
<1> QED
  BY <1>1, <1>5, <1>6, <1>8, <1>10, <1>11 DEF F

LEMMA OperatorTable ==
  ASSUME NEW P
  PROVE  /\ Table(seedProviderMutations(P), FabOperator(P))
         /\ \A e \in FabOperator(P) : e.key[1] \in {"node_operator_record", "data_center_record"}
<1> DEFINE a == Insert(<<"node_operator_record", SeedOperator>>, [dc |-> SeedDc])
           b == Insert(<<"data_center_record", SeedDc>>, "seed")
<1>1. a.key[1] = "node_operator_record" /\ b.key[1] = "data_center_record"
  BY InsertIs
<1>2. /\ seedProviderMutations(P) = IF P = {} THEN <<>> ELSE <<a, b>>
      /\ FabOperator(P) = IF P = {} THEN {} ELSE {a, b}
  BY DEF seedProviderMutations, FabOperator
<1> HIDE DEF a, b
<1>3. Table(<<a, b>>, {a, b})
  BY <1>1 DEF Table, Listed, ToSet
<1> QED
  BY <1>1, <1>2, <1>3, ShortLists
FabDcs(D, taken) ==
  {Insert(<<"data_center_record", d>>, "seed") :
     d \in {x \in D : <<"data_center_record", x>> \notin taken}}

\* All that is fabricated, and what is left of it beside the mirror.
Fabricated(s, P, D, mirrored) ==
  LET F == FabSubnet(s) \union FabLists(s, mirrored) \union FabOperator(P)
  IN  F \union FabDcs(D, {e.key : e \in F})

Planted(s, P, D, w, m) ==
  {e \in Fabricated(s, P, D, w.subnets) : e.key \notin w.seen}
    \union {Insert(k, value(m, k)) : k \in w.seen}

LEMMA KeysAre ==
  ASSUME NEW s, NEW E, Listed(s, E)
  PROVE  Keys(s) = {e.key : e \in E}
  BY DEF Listed, ToSet, Keys

LEMMA DcTable ==
  ASSUME NEW dcs, NEW D, Listed(dcs, D), NEW taken
  PROVE  /\ Table(seedDataCenterMutations(dcs, taken), FabDcs(D, taken))
         /\ \A e \in FabDcs(D, taken) : e.key[1] = "data_center_record" /\ e.key \notin taken
<1> DEFINE X == {x \in D : <<"data_center_record", x>> \in taken}
           fresh == Kept(dcs, {i \in DOMAIN dcs : <<"data_center_record", dcs[i]>> \notin taken})
           b == [i \in DOMAIN fresh |-> Insert(<<"data_center_record", fresh[i]>>, "seed")]
           E == FabDcs(D, taken)
<1>1. {i \in DOMAIN dcs : <<"data_center_record", dcs[i]>> \notin taken}
        = {i \in DOMAIN dcs : dcs[i] \notin X}
  BY DEF Listed
<1>2. Listed(fresh, D \ X)
  BY <1>1, ListedKept
<1>3. seedDataCenterMutations(dcs, taken) = b
  BY DEF seedDataCenterMutations
<1>4. \A x : x \in D \ X <=> x \in D /\ <<"data_center_record", x>> \notin taken
  OBVIOUS
<1> HIDE DEF fresh, X
<1>5. /\ fresh \in Seq(D \ X) /\ ToSet(fresh) = D \ X
      /\ \A i, j \in 1..Len(fresh) : fresh[i] = fresh[j] => i = j
      /\ DOMAIN fresh = 1..Len(fresh) /\ Len(fresh) \in Nat
  BY <1>2 DEF Listed
<1>6. E = {Insert(<<"data_center_record", d>>, "seed") : d \in D \ X}
  BY <1>4 DEF FabDcs
<1> HIDE DEF E
<1>7. \A i \in 1..Len(fresh) : fresh[i] \in D \ X /\ b[i].key = <<"data_center_record", fresh[i]>>
                               /\ b[i] \in E
  BY <1>5, <1>6, InsertIs
<1>8. b \in Seq(E) /\ Len(b) = Len(fresh) /\ DOMAIN b = 1..Len(fresh)
  BY <1>5, <1>7
<1>9. ToSet(b) = E
  <2>1. \A x \in D \ X : \E i \in 1..Len(fresh) : fresh[i] = x
    BY <1>5 DEF ToSet
  <2>2. ASSUME NEW e \in E PROVE \E i \in 1..Len(fresh) : b[i] = e
    <3>1. PICK d \in D \ X : e = Insert(<<"data_center_record", d>>, "seed")
      BY <1>6, <2>2
    <3>2. PICK i \in 1..Len(fresh) : fresh[i] = d
      BY <2>1
    <3> QED
      BY <1>5, <3>1, <3>2
  <2> QED
    BY <1>7, <1>8, <2>2 DEF ToSet
<1>10. \A i, j \in 1..Len(b) : b[i] = b[j] => i = j
  BY <1>5, <1>7, <1>8
<1>11. ASSUME NEW e \in E
      PROVE  \E d \in D \ X : /\ e = Insert(<<"data_center_record", d>>, "seed")
                              /\ e.key = <<"data_center_record", d>>
  <2>1. PICK d \in D \ X : e = Insert(<<"data_center_record", d>>, "seed")
    BY <1>6
  <2> QED
    BY <2>1, InsertIs
<1>12. ASSUME NEW e \in E, NEW f \in E, e.key = f.key PROVE e = f
  <2>1. PICK d \in D \ X : /\ e = Insert(<<"data_center_record", d>>, "seed")
                          /\ e.key = <<"data_center_record", d>>
    BY <1>11
  <2>2. PICK c \in D \ X : /\ f = Insert(<<"data_center_record", c>>, "seed")
                          /\ f.key = <<"data_center_record", c>>
    BY <1>11
  <2>3. d = c
    BY <1>12, <2>1, <2>2
  <2> QED
    BY <2>1, <2>2, <2>3
<1>13. ASSUME NEW e \in E PROVE e.key[1] = "data_center_record" /\ e.key \notin taken
  <2>1. PICK d \in D \ X : e.key = <<"data_center_record", d>>
    BY <1>11
  <2>2. <<"data_center_record", d>> \notin taken
    BY <1>4
  <2> QED
    BY <2>1, <2>2
<1> QED
  BY <1>3, <1>8, <1>9, <1>10, <1>12, <1>13 DEF Table, Listed, E

LEMMA FabricatedTable ==
  ASSUME NEW s, NEW P, NEW dcs, NEW D, Listed(dcs, D), NEW mirrored,
         NEW versions \in Seq(Versions)
  PROVE  LET ops == seedMutations(<<s>>, mirrored, versions) \o seedProviderMutations(P)
         IN  Table(ops \o seedDataCenterMutations(dcs, Keys(ops)),
                   Fabricated(s, P, D, mirrored))
<1> DEFINE A == FabSubnet(s) \union FabLists(s, mirrored)
           F == A \union FabOperator(P)
           ops == seedMutations(<<s>>, mirrored, versions) \o seedProviderMutations(P)
           taken == {e.key : e \in F}
<1>1. \A e \in A, f \in FabOperator(P) : e.key # f.key
  <2> HIDE DEF A
  <2>1. /\ \A e \in A : e.key[1] \in {"crypto_tls_cert", "crypto_record", "node_record",
                            "subnet_record", "threshold_key", "cup", "subnet_list",
                            "replica_version"}
        /\ \A f \in FabOperator(P) : f.key[1] \in {"node_operator_record", "data_center_record"}
    BY SeedsTable, OperatorTable DEF A
  <2> QED
    BY <2>1
<1>2. Table(ops, F)
  <2>1. /\ Table(seedMutations(<<s>>, mirrored, versions), A)
        /\ Table(seedProviderMutations(P), FabOperator(P))
    BY SeedsTable, OperatorTable
  <2> HIDE DEF A
  <2> QED
    BY <1>1, <2>1, TableJoin
<1> HIDE DEF ops
<1>3. Keys(ops) = taken
  <2> HIDE DEF F
  <2> QED
    BY <1>2, KeysAre DEF Table
<1>4. Fabricated(s, P, D, mirrored) = F \union FabDcs(D, taken)
  BY DEF Fabricated
<1> HIDE DEF F
<1>5. \A e \in F, f \in FabDcs(D, taken) : e.key # f.key
  <2>1. \A e \in F : e.key \in taken
    OBVIOUS
  <2> HIDE DEF taken
  <2> QED
    BY <2>1, DcTable
<1> HIDE DEF taken
<1>6. Table(seedDataCenterMutations(dcs, taken), FabDcs(D, taken))
  BY DcTable
<1>7. Table(ops \o seedDataCenterMutations(dcs, taken), F \union FabDcs(D, taken))
  BY <1>2, <1>5, <1>6, TableJoin
<1> QED
  BY <1>3, <1>4, <1>7 DEF ops

LEMMA BatchTable ==
  ASSUME NEW m, NEW w \in Walks, Copied(w, m),
         NEW s, NEW P, NEW dcs, NEW D, Listed(dcs, D)
  PROVE  Table(minimalRegistryInit([providers |-> P, subnets |-> <<s>>, dcs |-> dcs], w),
               Planted(s, P, D, w, m))
<1> DEFINE ops == seedMutations(<<s>>, w.subnets, w.versions) \o seedProviderMutations(P)
           fab == ops \o seedDataCenterMutations(dcs, Keys(ops))
           E == Fabricated(s, P, D, w.subnets)
           M == {Insert(k, value(m, k)) : k \in w.seen}
           X == {e \in E : e.key \in w.seen}
           kept == Kept(fab, {i \in DOMAIN fab : fab[i] \notin X})
<1>1. w.versions \in Seq(Versions)
  BY DEF Walks
<1>2. Table(fab, E)
  BY <1>1, FabricatedTable
<1>3. minimalRegistryInit([providers |-> P, subnets |-> <<s>>, dcs |-> dcs], w)
        = mirrorPrecedence(fab, w.out) \o w.out
  BY DEF minimalRegistryInit
<1> HIDE DEF fab, E
<1>4. Table(w.out, M)
  BY MirrorTable
<1>5. Keys(w.out) = w.seen
  <2>1. \A k \in w.seen : Insert(k, value(m, k)).key = k
    BY InsertIs
  <2>2. {e.key : e \in M} = w.seen
    BY <2>1
  <2>3. Listed(w.out, M)
    BY <1>4 DEF Table
  <2> HIDE DEF M
  <2> QED
    BY <2>2, <2>3, KeysAre
<1>6. mirrorPrecedence(fab, w.out) = kept
  <2>1. {i \in DOMAIN fab : fab[i].key \notin Keys(w.out)} = {i \in DOMAIN fab : fab[i] \notin X}
    BY <1>2, <1>5 DEF Table, Listed
  <2> QED
    BY <2>1, Zenon DEF mirrorPrecedence
<1>7. Listed(kept, E \ X)
  <2> HIDE DEF X
  <2> QED
    BY <1>2, ListedKept DEF Table
<1>8. Table(kept, E \ X)
  BY <1>2, <1>7 DEF Table
<1>9. \A e \in E \ X, f \in M : e.key # f.key
  BY InsertIs
<1>10. Planted(s, P, D, w, m) = (E \ X) \union M
  BY DEF Planted, E
<1> HIDE DEF M, X, kept
<1>11. Table(kept \o w.out, (E \ X) \union M)
  BY <1>4, <1>8, <1>9, TableJoin
<1> QED
  BY <1>3, <1>6, <1>10, <1>11
-----------------------------------------------------------------------------
(***************************************************************************)
(* The registry accepts it.                                                *)
(***************************************************************************)

RecordsIn(batch) ==
  [k \in Keys(batch) |-> batch[CHOOSE i \in DOMAIN batch : batch[i].key = k].value]

LEMMA RecordsAre ==
  ASSUME NEW B, NEW E, Table(B, E)
  PROVE  /\ DOMAIN RecordsIn(B) = {e.key : e \in E}
         /\ \A e \in E : RecordsIn(B)[e.key] = e.value
         /\ \A i, j \in DOMAIN B : B[i].key = B[j].key => i = j
<1>1. /\ B \in Seq(E) /\ ToSet(B) = E /\ DOMAIN B = 1..Len(B)
      /\ \A i, j \in DOMAIN B : B[i] = B[j] => i = j
      /\ \A e, f \in E : e.key = f.key => e = f
  BY DEF Table, Listed
<1>2. DOMAIN RecordsIn(B) = {e.key : e \in E}
  BY KeysAre DEF RecordsIn, Table
<1>3. ASSUME NEW e \in E PROVE RecordsIn(B)[e.key] = e.value
  <2>1. PICK i \in DOMAIN B : B[i] = e
    BY <1>1 DEF ToSet
  <2> DEFINE j == CHOOSE x \in DOMAIN B : B[x].key = e.key
  <2>2. j \in DOMAIN B /\ B[j].key = e.key
    BY <2>1
  <2>3. RecordsIn(B)[e.key] = B[j].value
    BY <1>2 DEF RecordsIn
  <2> HIDE DEF j
  <2>4. B[j] = e
    BY <1>1, <2>2
  <2> QED
    BY <2>3, <2>4
<1>4. \A i \in DOMAIN B : B[i] \in E
  BY <1>1
<1>5. \A i, j \in DOMAIN B : B[i].key = B[j].key => i = j
  BY <1>1, <1>4
<1> QED
  BY <1>2, <1>3, <1>5

LEMMA MergedList ==
  ASSUME NEW s, NEW w, NEW m, w.subnets \in Seq(Subnets), Closed(w, m)
  PROVE  Listed(MergeSubnets(<<s>>, w.subnets), {s} \union ToSet(w.subnets))
<1> DEFINE kept == Kept(w.subnets, {i \in DOMAIN w.subnets : w.subnets[i] \notin {s}})
           S == ToSet(w.subnets)
<1>1. Listed(w.subnets, S)
  BY DEF Closed, Listed, ToSet
<1>2. Listed(kept, S \ {s})
  BY <1>1, ListedKept
<1>3. MergeSubnets(<<s>>, w.subnets) = <<s>> \o kept
  <2>1. \A y : Contains(<<s>>, y) <=> y \in {s}
    BY DEF Contains
  <2>2. {i \in DOMAIN w.subnets : ~Contains(<<s>>, w.subnets[i])}
          = {i \in DOMAIN w.subnets : w.subnets[i] \notin {s}}
    BY <2>1
  <2> QED
    BY <2>2, Zenon DEF MergeSubnets
<1> HIDE DEF kept, S
<1>4. Listed(<<s>> \o kept, {s} \union (S \ {s}))
  BY <1>2, ShortLists, ListedJoin
<1>5. {s} \union (S \ {s}) = {s} \union S
  OBVIOUS
<1> QED
  BY <1>3, <1>4, <1>5 DEF S

LEMMA KeyTags ==
  /\ \A k \in RecordKey : k[1] # "subnet_list"
  /\ \A s : /\ <<"subnet_record", s>> \in RecordKey => s \in Subnets
            /\ <<"threshold_key", s>> \in RecordKey => s \in Subnets
            /\ <<"cup", s>> \in RecordKey => s \in Subnets
  /\ \A k \in RecordKey : k[1] = "subnet_record" => \E s \in Subnets : k = <<"subnet_record", s>>
  /\ \A k \in RecordKey : k[1] = "node_record" => \E n \in Nodes : k = <<"node_record", n>>
  /\ \A k \in RecordKey : k[1] = "node_operator_record" =>
       \E o \in Operators : k = <<"node_operator_record", o>>
<1>1. ASSUME NEW k \in RecordKey
      PROVE  /\ k[1] # "subnet_list"
             /\ k[1] = "subnet_record" => \E s \in Subnets : k = <<"subnet_record", s>>
             /\ k[1] = "node_record" => \E n \in Nodes : k = <<"node_record", n>>
             /\ k[1] = "node_operator_record" =>
                  \E o \in Operators : k = <<"node_operator_record", o>>
  BY KeyCases
<1>2. ASSUME NEW s
      PROVE  /\ <<"subnet_record", s>> \in RecordKey => s \in Subnets
             /\ <<"threshold_key", s>> \in RecordKey => s \in Subnets
             /\ <<"cup", s>> \in RecordKey => s \in Subnets
  BY KeyCases
<1> QED
  BY <1>1, <1>2

SubnetEntry(s) ==
  Insert(<<"subnet_record", s>>,
         [system |-> TRUE, members |-> {NodeOf(s)}, version |-> SeedVersion])
NodeEntry(s) ==
  Insert(<<"node_record", NodeOf(s)>>, [operator |-> None, hostos |-> None])
OperatorEntry == Insert(<<"node_operator_record", SeedOperator>>, [dc |-> SeedDc])

LEMMA FabricatedHas ==
  ASSUME NEW s, NEW P, NEW D, NEW mirrored
  PROVE  LET F == Fabricated(s, P, D, mirrored)
         IN  /\ \A k \in ToSet(NodeKeys(NodeOf(s))) : Insert(k, "seed") \in F
             /\ NodeEntry(s) \in F /\ SubnetEntry(s) \in F
             /\ Insert(<<"threshold_key", s>>, "seed") \in F
             /\ Insert(<<"cup", s>>, "seed") \in F
             /\ Insert(<<"subnet_list">>, MergeSubnets(<<s>>, mirrored)) \in F
             /\ Insert(<<"replica_version", SeedVersion>>, "seed") \in F
             /\ OperatorEntry \in F => Insert(<<"data_center_record", SeedDc>>, "seed") \in F
             /\ \A e \in F : /\ e.key[1] = "subnet_record" => e = SubnetEntry(s)
                             /\ e.key[1] = "node_record" => e = NodeEntry(s)
                             /\ e.key[1] = "node_operator_record" =>
                                  e = OperatorEntry
                                  /\ Insert(<<"data_center_record", SeedDc>>, "seed") \in F
<1> DEFINE taken == {e.key : e \in FabSubnet(s) \union FabLists(s, mirrored) \union FabOperator(P)}
           N == {Insert(k, "seed") : k \in ToSet(NodeKeys(NodeOf(s)))}
           F == Fabricated(s, P, D, mirrored)
<1>1. F = FabSubnet(s) \union FabLists(s, mirrored) \union FabOperator(P)
            \union FabDcs(D, taken)
  BY DEF Fabricated
<1> HIDE DEF F, taken
<1>2. FabSubnet(s) = N \union {NodeEntry(s), SubnetEntry(s),
                               Insert(<<"threshold_key", s>>, "seed"), Insert(<<"cup", s>>, "seed")}
  BY DEF FabSubnet, FabNode, NodeEntry, SubnetEntry
<1>3. /\ \A e \in N : e.key[1] \in {"crypto_tls_cert", "crypto_record"}
      /\ NodeEntry(s).key[1] = "node_record" /\ SubnetEntry(s).key[1] = "subnet_record"
      /\ Insert(<<"threshold_key", s>>, "seed").key[1] = "threshold_key"
      /\ Insert(<<"cup", s>>, "seed").key[1] = "cup"
  BY InsertIs, NodeKeysSet DEF NodeEntry, SubnetEntry
<1>4. ASSUME NEW e \in FabLists(s, mirrored)
      PROVE  e.key[1] \in {"subnet_list", "replica_version"}
  BY InsertIs DEF FabLists
<1>5. ASSUME NEW e \in FabOperator(P)
      PROVE  /\ \/ e = OperatorEntry
                \/ e = Insert(<<"data_center_record", SeedDc>>, "seed")
             /\ Insert(<<"data_center_record", SeedDc>>, "seed") \in FabOperator(P)
  BY DEF FabOperator, OperatorEntry
<1>6. /\ OperatorEntry.key[1] = "node_operator_record"
      /\ Insert(<<"data_center_record", SeedDc>>, "seed").key[1] = "data_center_record"
  BY InsertIs DEF OperatorEntry
<1>7. ASSUME NEW e \in FabDcs(D, taken) PROVE e.key[1] = "data_center_record"
  <2>1. PICK d : e = Insert(<<"data_center_record", d>>, "seed")
    BY DEF FabDcs
  <2>2. e.key = <<"data_center_record", d>>
    BY <2>1, InsertIs
  <2> QED
    BY <2>2
<1>8. /\ Insert(<<"subnet_list">>, MergeSubnets(<<s>>, mirrored)) \in FabLists(s, mirrored)
      /\ Insert(<<"replica_version", SeedVersion>>, "seed") \in FabLists(s, mirrored)
  BY DEF FabLists
<1>9. ASSUME NEW e \in F
      PROVE  /\ e.key[1] = "subnet_record" => e = SubnetEntry(s)
             /\ e.key[1] = "node_record" => e = NodeEntry(s)
             /\ e.key[1] = "node_operator_record" =>
                  e = OperatorEntry /\ Insert(<<"data_center_record", SeedDc>>, "seed") \in F
  <2> HIDE DEF N
  <2>1. CASE e \in FabSubnet(s)
    BY <1>2, <1>3, <2>1
  <2>2. CASE e \in FabLists(s, mirrored)
    BY <1>4, <2>2
  <2>3. CASE e \in FabOperator(P)
    BY <1>1, <1>5, <1>6, <2>3
  <2>4. CASE e \in FabDcs(D, taken)
    BY <1>7, <2>4
  <2> QED
    BY <1>1, <2>1, <2>2, <2>3, <2>4
<1>10. \A k \in ToSet(NodeKeys(NodeOf(s))) : Insert(k, "seed") \in F
  BY <1>1, <1>2
<1>11. /\ NodeEntry(s) \in F /\ SubnetEntry(s) \in F
       /\ Insert(<<"threshold_key", s>>, "seed") \in F
       /\ Insert(<<"cup", s>>, "seed") \in F
  <2> HIDE DEF N
  <2> QED
    BY <1>1, <1>2
<1>12. /\ Insert(<<"subnet_list">>, MergeSubnets(<<s>>, mirrored)) \in F
       /\ Insert(<<"replica_version", SeedVersion>>, "seed") \in F
  BY <1>1, <1>8
<1>13. OperatorEntry \in F => Insert(<<"data_center_record", SeedDc>>, "seed") \in F
  BY <1>6, <1>9
<1> QED
  BY <1>9, <1>10, <1>11, <1>12, <1>13 DEF F
(***************************************************************************)
(* A batch of a closed mirror and the seeds around one subnet is accepted. *)
(***************************************************************************)
LEMMA Accepted ==
  ASSUME NEW m \in Mainnet, MainnetOK(m), NEW w \in Walks, Copied(w, m), Closed(w, m),
         w.todo = NoScope, NEW s, s \in Subnets => s = System,
         NEW P, NEW D, NEW B, Table(B, Planted(s, P, D, w, m))
  PROVE  RegistryAccepts(B)
<1> DEFINE F == Fabricated(s, P, D, w.subnets)
           E == Planted(s, P, D, w, m)
           rec == RecordsIn(B)
           has(key) == key \in DOMAIN rec
           RecordsOf(kind) == {k[2] : k \in {j \in DOMAIN rec : j[1] = kind}}
           list == MergeSubnets(<<s>>, w.subnets)
           LK == <<"subnet_list">>
           SK(x) == <<"subnet_record", x>>
           NK(n) == <<"node_record", n>>
           OK(o) == <<"node_operator_record", o>>
\* What a lookup finds: the mirror's value, else the fabricated one.
<1>1. /\ \A k \in w.seen : has(k) /\ rec[k] = value(m, k)
      /\ \A e \in F : has(e.key) /\ (e.key \notin w.seen => rec[e.key] = e.value)
      /\ \A k \in DOMAIN rec : k \in w.seen \/ \E e \in F : e.key = k
  <2>1. DOMAIN rec = {e.key : e \in E} /\ \A e \in E : rec[e.key] = e.value
    BY RecordsAre
  <2>2. ASSUME NEW k \in w.seen PROVE has(k) /\ rec[k] = value(m, k)
    <3>1. Insert(k, value(m, k)) \in E
      BY DEF Planted
    <3> HIDE DEF E, rec
    <3> QED
      BY <2>1, <3>1, InsertIs
  <2>3. ASSUME NEW e \in F PROVE has(e.key) /\ (e.key \notin w.seen => rec[e.key] = e.value)
    <3>1. e.key \notin w.seen => e \in E
      BY DEF Planted
    <3> HIDE DEF E, rec, F
    <3> QED
      BY <2>1, <2>2, <3>1
  <2>4. ASSUME NEW k \in DOMAIN rec PROVE k \in w.seen \/ \E e \in F : e.key = k
    <3>1. PICK e \in E : e.key = k
      BY <2>1
    <3>2. e \in F \/ \E x \in w.seen : e = Insert(x, value(m, x))
      BY DEF Planted
    <3> HIDE DEF E, rec, F
    <3> QED
      BY <3>1, <3>2, InsertIs
  <2> QED
    BY <2>2, <2>3, <2>4
<1>2. \A i, j \in DOMAIN B : B[i].key = B[j].key => i = j
  BY RecordsAre
<1> HIDE DEF rec, E
<1>3. w.seen \in SUBSET RecordKey /\ w.subnets \in Seq(Subnets)
  BY ScopeParts
<1>4. Listed(list, {s} \union ToSet(w.subnets))
  BY <1>3, MergedList
<1> HIDE DEF list
<1>5. /\ \A k \in ToSet(NodeKeys(NodeOf(s))) : Insert(k, "seed") \in F
      /\ NodeEntry(s) \in F /\ SubnetEntry(s) \in F
      /\ Insert(<<"threshold_key", s>>, "seed") \in F
      /\ Insert(<<"cup", s>>, "seed") \in F
      /\ Insert(LK, list) \in F
      /\ Insert(<<"replica_version", SeedVersion>>, "seed") \in F
  BY FabricatedHas, Zenon DEF list
<1>6. \A e \in F : /\ e.key[1] = "subnet_record" => e = SubnetEntry(s)
                   /\ e.key[1] = "node_record" => e = NodeEntry(s)
                   /\ e.key[1] = "node_operator_record" =>
                        e = OperatorEntry /\ Insert(<<"data_center_record", SeedDc>>, "seed") \in F
  BY FabricatedHas, Zenon
<1> HIDE DEF F
<1>7. /\ SubnetEntry(s).key = SK(s) /\ NodeEntry(s).key = NK(NodeOf(s))
      /\ SubnetEntry(s).value = [system |-> TRUE, members |-> {NodeOf(s)}, version |-> SeedVersion]
      /\ NodeEntry(s).value = [operator |-> None, hostos |-> None]
      /\ OperatorEntry.key = OK(SeedOperator) /\ OperatorEntry.value = [dc |-> SeedDc]
  BY InsertIs DEF SubnetEntry, NodeEntry, OperatorEntry
\* The empty scope: what is held is seen.
<1>8. /\ \A n : NodeHeld(w, n) <=> NK(n) \in w.seen
      /\ \A o : OperatorHeld(w, o) <=> OK(o) \in w.seen
      /\ \A v : VersionHeld(w, v) <=> <<"replica_version", v>> \in w.seen
  <2>1. w.todo.nodes = <<>> /\ w.todo.operators = <<>> /\ w.todo.versions = <<>>
    BY DEF NoScope
  <2>2. ToSet(<<>>) = {}
    BY ToSetIs
  <2> QED
    BY <2>1, <2>2 DEF NodeHeld, OperatorHeld, VersionHeld
\* The list of the subnets.
<1>9. has(LK) /\ rec[LK] = list
  <2>1. LK[1] = "subnet_list" /\ LK \notin w.seen
    BY <1>3, KeyTags
  <2>2. Insert(LK, list).key = LK /\ Insert(LK, list).value = list
    BY InsertIs
  <2> HIDE DEF LK
  <2> QED
    BY <1>1, <1>5, <2>1, <2>2
<1>10. IsInjective(list) /\ ToSet(list) = {s} \union ToSet(w.subnets)
  BY <1>4 DEF Listed, IsInjective
\* A subnet's record is mirrored, or fabricated with what belongs to it.
<1>11. ASSUME NEW x
       PROVE  x \in RecordsOf("subnet_record") <=>
                \/ x \in Subnets /\ SK(x) \in w.seen
                \/ x = s
  <2>1. ASSUME x \in RecordsOf("subnet_record")
        PROVE  \/ x \in Subnets /\ SK(x) \in w.seen
               \/ x = s
    <3>1. PICK k \in DOMAIN rec : k[1] = "subnet_record" /\ k[2] = x
      BY <2>1
    <3>2. CASE k \in w.seen
      BY <1>3, <3>1, <3>2, KeyTags
    <3>3. CASE \E e \in F : e.key = k
      BY <1>6, <1>7, <3>1, <3>3
    <3> QED
      BY <1>1, <3>2, <3>3
  <2>2. SK(x) \in DOMAIN rec => x \in RecordsOf("subnet_record")
    <3>1. SK(x)[1] = "subnet_record" /\ SK(x)[2] = x
      OBVIOUS
    <3> HIDE DEF SK
    <3> QED
      BY <3>1
  <2>3. SK(s) \in DOMAIN rec
    BY <1>1, <1>5, <1>7
  <2> QED
    BY <1>1, <2>1, <2>2, <2>3
<1>12. ASSUME NEW x
       PROVE  x \in RecordsOf("node_record") <=>
                \/ x \in Nodes /\ NK(x) \in w.seen
                \/ x = NodeOf(s)
  <2>1. ASSUME x \in RecordsOf("node_record")
        PROVE  \/ x \in Nodes /\ NK(x) \in w.seen
               \/ x = NodeOf(s)
    <3>1. PICK k \in DOMAIN rec : k[1] = "node_record" /\ k[2] = x
      BY <2>1
    <3>2. CASE k \in w.seen
      BY <1>3, <3>1, <3>2, KeyTags
    <3>3. CASE \E e \in F : e.key = k
      BY <1>6, <1>7, <3>1, <3>3
    <3> QED
      BY <1>1, <3>2, <3>3
  <2>2. NK(x) \in DOMAIN rec => x \in RecordsOf("node_record")
    <3>1. NK(x)[1] = "node_record" /\ NK(x)[2] = x
      OBVIOUS
    <3> HIDE DEF NK
    <3> QED
      BY <3>1
  <2>3. NK(NodeOf(s)) \in DOMAIN rec
    BY <1>1, <1>5, <1>7
  <2> QED
    BY <1>1, <2>1, <2>2, <2>3
<1>13. ASSUME NEW x \in RecordsOf("node_operator_record")
       PROVE  \/ x \in Operators /\ OK(x) \in w.seen
              \/ /\ x = SeedOperator /\ OperatorEntry \in F
                 /\ Insert(<<"data_center_record", SeedDc>>, "seed") \in F
  <2>1. PICK k \in DOMAIN rec : k[1] = "node_operator_record" /\ k[2] = x
    OBVIOUS
  <2>2. CASE k \in w.seen
    BY <1>3, <2>1, <2>2, KeyTags
  <2>3. CASE \E e \in F : e.key = k
    BY <1>6, <1>7, <2>1, <2>3
  <2> QED
    BY <1>1, <2>2, <2>3
<1>14. ToSet(list) = RecordsOf("subnet_record")
  <2>1. \A x \in Subnets : x \in ToSet(w.subnets) <=> SK(x) \in w.seen
    BY DEF Closed, SubnetsClosed
  <2>2. ToSet(w.subnets) \subseteq Subnets
    BY <1>3 DEF ToSet
  <2>3. \A x : x \in ToSet(list) <=> x \in RecordsOf("subnet_record")
    BY <1>10, <1>11, <2>1, <2>2
  <2> HIDE DEF RecordsOf
  <2> QED
    BY <2>3
\* A mirrored subnet.
<1>15. ASSUME NEW x \in Subnets, SK(x) \in w.seen
       PROVE  /\ rec[SK(x)].system = (x = System)
              /\ rec[SK(x)].members = m.subnets[x].members
              /\ rec[SK(x)].version = m.subnets[x].version
              /\ <<"threshold_key", x>> \in w.seen /\ <<"cup", x>> \in w.seen
              /\ rec[<<"threshold_key", x>>] = rec[<<"cup", x>>]
              /\ <<"replica_version", m.subnets[x].version>> \in w.seen
              /\ \A n \in m.subnets[x].members : NK(n) \in w.seen
  <2>1. m.subnets[x] # None
    BY <1>15, CopiedValue, PresentValues
  <2>2. value(m, SK(x)) = IF m.subnets[x] = None THEN None
                   ELSE [system |-> x = System, members |-> m.subnets[x].members,
                         version |-> m.subnets[x].version]
    BY ValueIs, Zenon
  <2>3. /\ value(m, <<"threshold_key", x>>) = IF m.subnets[x] = None THEN None ELSE "mainnet"
        /\ value(m, <<"cup", x>>) = IF m.subnets[x] = None THEN None ELSE "mainnet"
    BY ValueIs, Zenon
  <2>4. /\ <<"threshold_key", x>> \in w.seen /\ <<"cup", x>> \in w.seen
        /\ \A n \in m.subnets[x].members : NodeHeld(w, n)
        /\ VersionHeld(w, m.subnets[x].version)
    BY <1>15 DEF Closed, SubnetsClosed
  <2>5. /\ <<"replica_version", m.subnets[x].version>> \in w.seen
        /\ \A n \in m.subnets[x].members : NK(n) \in w.seen
    BY <1>8, <2>4
  <2>6. rec[<<"threshold_key", x>>] = rec[<<"cup", x>>]
    BY <1>1, <2>1, <2>3, <2>4
  <2>7. rec[SK(x)] = [system |-> x = System, members |-> m.subnets[x].members,
                      version |-> m.subnets[x].version]
    BY <1>1, <1>15, <2>1, <2>2, Zenon
  <2> QED
    BY <2>4, <2>5, <2>6, <2>7
\* The fabricated one.
<1>16. ASSUME SK(s) \notin w.seen
       PROVE  /\ rec[SK(s)].system
              /\ rec[SK(s)].members = {NodeOf(s)} /\ rec[SK(s)].version = SeedVersion
              /\ rec[<<"threshold_key", s>>] = rec[<<"cup", s>>]
  <2>1. rec[SK(s)] = [system |-> TRUE, members |-> {NodeOf(s)}, version |-> SeedVersion]
    BY <1>1, <1>5, <1>7, <1>16
  <2>2. <<"threshold_key", s>> \notin w.seen /\ <<"cup", s>> \notin w.seen
    BY <1>3, <1>16, KeyTags DEF Closed, SubnetsClosed
  <2>3. /\ Insert(<<"threshold_key", s>>, "seed").key = <<"threshold_key", s>>
        /\ Insert(<<"cup", s>>, "seed").key = <<"cup", s>>
        /\ Insert(<<"threshold_key", s>>, "seed").value = "seed"
        /\ Insert(<<"cup", s>>, "seed").value = "seed"
    BY InsertIs
  <2>4. rec[<<"threshold_key", s>>] = "seed" /\ rec[<<"cup", s>>] = "seed"
    BY <1>1, <1>5, <2>2, <2>3
  <2> QED
    BY <2>1, <2>4
<1>17. /\ has(<<"threshold_key", s>>) /\ has(<<"cup", s>>)
       /\ has(<<"replica_version", SeedVersion>>) /\ has(NK(NodeOf(s)))
       /\ \A k \in ToSet(NodeKeys(NodeOf(s))) : has(k)
       /\ Insert(<<"data_center_record", SeedDc>>, "seed") \in F
            => has(<<"data_center_record", SeedDc>>)
  <2>1. /\ \A e \in F : e.key \in DOMAIN rec
        /\ \A k : Insert(k, "seed").key = k
    BY <1>1, InsertIs
  <2>2. \A k : Insert(k, "seed") \in F => has(k)
    BY <2>1
  <2> QED
    BY <1>5, <1>7, <2>1, <2>2
<1>18. \E x \in RecordsOf("subnet_record") : rec[SK(x)].system
  <2>1. s \in RecordsOf("subnet_record")
    BY <1>11
  <2>2. CASE SK(s) \in w.seen
    <3>1. s \in Subnets /\ s = System
      BY <1>3, <2>2, KeyTags
    <3> QED
      BY <1>15, <2>1, <2>2, <3>1
  <2>3. CASE SK(s) \notin w.seen
    BY <1>16, <2>1, <2>3
  <2> QED
    BY <2>2, <2>3
<1>19. ASSUME NEW x \in RecordsOf("subnet_record")
       PROVE  /\ has(<<"threshold_key", x>>) /\ has(<<"cup", x>>)
              /\ rec[<<"threshold_key", x>>] = rec[<<"cup", x>>]
              /\ has(<<"replica_version", rec[SK(x)].version>>)
              /\ \A n \in rec[SK(x)].members : has(NK(n))
  <2>1. CASE x \in Subnets /\ SK(x) \in w.seen
    <3>1. /\ rec[SK(x)].members = m.subnets[x].members
          /\ rec[SK(x)].version = m.subnets[x].version
          /\ <<"threshold_key", x>> \in w.seen /\ <<"cup", x>> \in w.seen
          /\ rec[<<"threshold_key", x>>] = rec[<<"cup", x>>]
          /\ <<"replica_version", m.subnets[x].version>> \in w.seen
          /\ \A n \in m.subnets[x].members : NK(n) \in w.seen
      BY <1>15, <2>1
    <3>2. \A k \in w.seen : has(k)
      BY <1>1
    <3> QED
      BY <3>1, <3>2
  <2>2. CASE ~(x \in Subnets /\ SK(x) \in w.seen)
    <3>1. x = s
      BY <1>11, <2>2
    <3>2. SK(s) \notin w.seen
      BY <1>3, <2>2, <3>1, KeyTags
    <3> QED
      BY <1>16, <1>17, <3>1, <3>2
  <2> QED
    BY <2>1, <2>2
<1>20. ASSUME NEW n \in RecordsOf("node_record")
       PROVE  /\ \A i \in 1..5 : has(NodeKeys(n)[i])
              /\ rec[NK(n)].operator # None => has(OK(rec[NK(n)].operator))
              /\ rec[NK(n)].hostos # None => has(<<"hostos_version", rec[NK(n)].hostos>>)
  <2>1. \A i \in 1..5 : NodeKeys(n)[i] \in ToSet(NodeKeys(n))
    BY NodeKeysAre DEF ToSet
  <2>2. CASE n \in Nodes /\ NK(n) \in w.seen
    <3>1. rec[NK(n)] = m.nodes[n]
      <4>1. value(m, NK(n)) = m.nodes[n]
        BY <2>2, ValueIs, Zenon
      <4> QED
        BY <1>1, <2>2, <4>1, Zenon
    <3>2. /\ ToSet(NodeKeys(n)) \subseteq w.seen
          /\ OK(m.nodes[n].operator) \in w.seen
          /\ m.nodes[n].hostos # None => <<"hostos_version", m.nodes[n].hostos>> \in w.seen
      BY <1>8, <2>2 DEF Closed, NodesClosed
    <3>3. \A k \in w.seen : has(k)
      BY <1>1
    <3> QED
      BY <2>1, <3>1, <3>2, <3>3
  <2>3. CASE ~(n \in Nodes /\ NK(n) \in w.seen)
    <3>1. n = NodeOf(s)
      BY <1>12, <2>3
    <3>2. NK(n) \notin w.seen
      <4>1. NK(n) \in RecordKey => n \in Nodes
        <5>1. NK(n)[1] = "node_record" /\ NK(n)[2] = n
          OBVIOUS
        <5> QED
          BY <5>1, KeyTags
      <4> QED
        BY <1>3, <2>3, <4>1
    <3>3. rec[NK(n)] = [operator |-> None, hostos |-> None]
      BY <1>1, <1>5, <1>7, <3>1, <3>2
    <3> QED
      BY <1>17, <2>1, <3>1, <3>3
  <2> QED
    BY <2>2, <2>3
<1>21. ASSUME NEW o \in RecordsOf("node_operator_record")
       PROVE  has(<<"data_center_record", rec[OK(o)].dc>>)
  <2>1. CASE o \in Operators /\ OK(o) \in w.seen
    <3>1. rec[OK(o)] = m.operators[o]
      <4>1. value(m, OK(o)) = m.operators[o]
        BY <2>1, ValueIs, Zenon
      <4> QED
        BY <1>1, <2>1, <4>1, Zenon
    <3>2. <<"data_center_record", m.operators[o].dc>> \in w.seen
      BY <2>1 DEF Closed, OperatorsClosed
    <3> QED
      BY <1>1, <3>1, <3>2
  <2>2. CASE ~(o \in Operators /\ OK(o) \in w.seen)
    <3>1. /\ o = SeedOperator /\ OperatorEntry \in F
          /\ Insert(<<"data_center_record", SeedDc>>, "seed") \in F
      BY <1>13, <2>2
    <3>2. OK(o) \notin w.seen
      <4>1. OK(o) \in RecordKey => o \in Operators
        <5>1. OK(o)[1] = "node_operator_record" /\ OK(o)[2] = o
          OBVIOUS
        <5> QED
          BY <5>1, KeyTags
      <4> QED
        BY <1>3, <2>2, <4>1
    <3>3. rec[OK(o)] = [dc |-> SeedDc]
      BY <1>1, <1>7, <3>1, <3>2
    <3> QED
      BY <1>17, <3>1, <3>3
  <2> QED
    BY <2>1, <2>2
<1> HIDE DEF has, RecordsOf
<1>22. /\ IsInjective(IF has(LK) THEN rec[LK] ELSE <<>>)
       /\ ToSet(IF has(LK) THEN rec[LK] ELSE <<>>) = RecordsOf("subnet_record")
  BY <1>9, <1>10, <1>14, Zenon
<1> QED
  BY <1>2, <1>18, <1>19, <1>20, <1>21, <1>22, Zenon
  DEF RegistryAccepts, RecordsIn, rec, has, RecordsOf
=============================================================================

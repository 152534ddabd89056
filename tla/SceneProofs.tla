------------------------------ MODULE SceneProofs ------------------------------
(***************************************************************************)
(* Safety of a scene, for every set of surfaces, shells and levels: what   *)
(* the clients of the simple shell are told, the agreement of the two      *)
(* orders, and the handshake about the path of the video.  Then the three  *)
(* renderer modules that draw it, for every set of surfaces, pictures and  *)
(* levels: what they draw, what they free, and the embedded renderer's     *)
(* fast path.                                                              *)
(***************************************************************************)
EXTENDS Scene, GlRenderer, EmbRenderer, DmxRenderer, SequenceTheorems, FiniteSetTheorems,
        WellFoundedInduction, TLAPS

--------------------------------------------------------------------------------
(* Lists without repetitions: finding, taking out, putting in. *)

Once(list) == \A i, j \in 1..Len(list) : list[i] = list[j] => i = j

\* A non-empty set of naturals has its minimum.
LEMMA MinInSet ==
  ASSUME NEW I \in SUBSET Nat, I # {}
  PROVE  Min(I) \in I /\ \A j \in I : Min(I) <= j
<1>1. PICK i \in I : \A j \in I : <<j, i>> \notin OpToRel(<, Nat)
  BY NatLessThanWellFounded, WFMin
<1>2. \A j \in I : i <= j
  <2> TAKE j \in I
  <2>1. ~(j < i)
    BY <1>1 DEF OpToRel
  <2> QED BY <2>1
<1> QED BY <1>1, <1>2 DEF Min

\* The place of s in a list.
LEMMA PlaceOf ==
  ASSUME NEW S, NEW list \in Seq(S), NEW s, \E i \in 1..Len(list) : list[i] = s
  PROVE  LET k == SelectInSeq(list, LAMBDA t : t = s)
         IN  k \in 1..Len(list) /\ list[k] = s
<1> DEFINE I == {i \in 1..Len(list) : list[i] = s}
<1>1. I \in SUBSET Nat /\ I # {}
  OBVIOUS
<1>2. Min(I) \in I
  BY <1>1, MinInSet
<1>3. SelectInSeq(list, LAMBDA t : t = s) = Min(I)
  BY <1>1 DEF SelectInSeq
<1> QED BY <1>2, <1>3

\* The first place in a list that is higher than s, or 0.
LEMMA PlaceAbove ==
  ASSUME NEW S, NEW list \in Seq(S), NEW z, NEW s
  PROVE  LET k == SelectInSeq(list, LAMBDA t : z[s] < z[t])
         IN  \/ k = 0 /\ \A i \in 1..Len(list) : ~(z[s] < z[list[i]])
             \/ /\ k \in 1..Len(list) /\ z[s] < z[list[k]]
                /\ \A i \in 1..(k - 1) : ~(z[s] < z[list[i]])
<1> DEFINE I == {i \in 1..Len(list) : z[s] < z[list[i]]}
<1>1. CASE I = {}
  BY <1>1 DEF SelectInSeq
<1>2. CASE I # {}
  <2>1. I \in SUBSET Nat
    OBVIOUS
  <2>2. Min(I) \in I /\ \A j \in I : Min(I) <= j
    BY <1>2, <2>1, MinInSet
  <2>3. SelectInSeq(list, LAMBDA t : z[s] < z[t]) = Min(I)
    BY <1>2 DEF SelectInSeq
  <2>4. \A i \in 1..(Min(I) - 1) : i \notin I /\ i \in 1..Len(list)
    BY <2>1, <2>2
  <2> HIDE DEF I
  <2>5. /\ Min(I) \in 1..Len(list) /\ z[s] < z[list[Min(I)]]
        /\ \A i \in 1..(Min(I) - 1) : ~(z[s] < z[list[i]])
    BY <2>2, <2>4 DEF I
  <2> QED BY <2>3, <2>5
<1> QED BY <1>1, <1>2

\* RemoveAt closes the gap.
LEMMA RemovedAt ==
  ASSUME NEW S, NEW list \in Seq(S), NEW k \in 1..Len(list)
  PROVE  /\ RemoveAt(list, k) \in Seq(S)
         /\ Len(RemoveAt(list, k)) = Len(list) - 1
         /\ \A i \in 1..(Len(list) - 1) :
              RemoveAt(list, k)[i] = IF i < k THEN list[i] ELSE list[i + 1]
<1> DEFINE n == Len(list)  left == SubSeq(list, 1, k - 1)  right == SubSeq(list, k + 1, n)
<1>1. n \in Nat /\ k \in Int /\ \A i \in 1..n : list[i] \in S
  BY LenProperties, ElementOfSeq
<1>2. /\ left \in Seq(S) /\ Len(left) = k - 1
      /\ \A i \in 1..(k - 1) : left[i] = list[i]
  <2>1. /\ left \in Seq(S) /\ Len(left) = IF 1 <= k - 1 THEN (k - 1) - 1 + 1 ELSE 0
        /\ \A i \in 1..((k - 1) - 1 + 1) : left[i] = list[1 + i - 1]
    BY <1>1, SubSeqProperties
  <2> QED BY <1>1, <2>1
<1>3. /\ right \in Seq(S) /\ Len(right) = n - k
      /\ \A i \in 1..(n - k) : right[i] = list[k + i]
  <2>1. /\ right \in Seq(S) /\ Len(right) = IF k + 1 <= n THEN n - (k + 1) + 1 ELSE 0
        /\ \A i \in 1..(n - (k + 1) + 1) : right[i] = list[(k + 1) + i - 1]
    BY <1>1, SubSeqProperties
  <2> QED BY <1>1, <2>1
<1>0. RemoveAt(list, k) = left \o right
  BY DEF RemoveAt
<1> HIDE DEF left, right
<1>4. /\ left \o right \in Seq(S) /\ Len(left \o right) = Len(left) + Len(right)
      /\ \A i \in 1..(Len(left) + Len(right)) :
           (left \o right)[i] = IF i <= Len(left) THEN left[i] ELSE right[i - Len(left)]
  BY <1>2, <1>3, ConcatProperties
<1>5. \A i \in 1..(n - 1) : (left \o right)[i] = IF i < k THEN list[i] ELSE list[i + 1]
  <2> TAKE i \in 1..(n - 1)
  <2>1. CASE i < k
    BY <1>1, <1>2, <1>3, <1>4, <2>1
  <2>2. CASE ~(i < k)
    <3>1. i - (k - 1) \in 1..(n - k)
      BY <1>1, <2>2
    <3>2. right[i - (k - 1)] = list[k + (i - (k - 1))]
      BY <3>1, <1>3
    <3> QED BY <1>1, <1>2, <1>3, <1>4, <2>2, <3>2
  <2> QED BY <2>1, <2>2
<1>6. Len(left \o right) = n - 1 /\ left \o right \in Seq(S)
  BY <1>1, <1>2, <1>3, <1>4
<1> QED BY <1>0, <1>5, <1>6, Zenon

\* InsertAt makes room.
LEMMA InsertedAt ==
  ASSUME NEW S, NEW list \in Seq(S), NEW k \in 1..Len(list), NEW e \in S
  PROVE  /\ InsertAt(list, k, e) \in Seq(S)
         /\ Len(InsertAt(list, k, e)) = Len(list) + 1
         /\ \A i \in 1..(Len(list) + 1) :
              InsertAt(list, k, e)[i] = IF i < k THEN list[i]
                                        ELSE IF i = k THEN e ELSE list[i - 1]
<1> DEFINE n == Len(list)  left == SubSeq(list, 1, k - 1)  right == SubSeq(list, k, n)
           one == << e >>  front == left \o one
<1>1. n \in Nat /\ k \in Int /\ \A i \in 1..n : list[i] \in S
  BY LenProperties, ElementOfSeq
<1>2. /\ left \in Seq(S) /\ Len(left) = k - 1
      /\ \A i \in 1..(k - 1) : left[i] = list[i]
  <2>1. /\ left \in Seq(S) /\ Len(left) = IF 1 <= k - 1 THEN (k - 1) - 1 + 1 ELSE 0
        /\ \A i \in 1..((k - 1) - 1 + 1) : left[i] = list[1 + i - 1]
    BY <1>1, SubSeqProperties
  <2> QED BY <1>1, <2>1
<1>3. /\ right \in Seq(S) /\ Len(right) = n - k + 1
      /\ \A i \in 1..(n - k + 1) : right[i] = list[k + i - 1]
  BY <1>1, SubSeqProperties
<1>4. one \in Seq(S) /\ Len(one) = 1 /\ one[1] = e
  OBVIOUS
<1>0. InsertAt(list, k, e) = front \o right
  BY DEF InsertAt
<1> HIDE DEF left, right, one, n
<1>5. /\ front \in Seq(S) /\ Len(front) = k
      /\ \A i \in 1..k : front[i] = IF i < k THEN list[i] ELSE e
  <2>1. /\ front \in Seq(S) /\ Len(front) = Len(left) + Len(one)
        /\ \A i \in 1..(Len(left) + Len(one)) :
             front[i] = IF i <= Len(left) THEN left[i] ELSE one[i - Len(left)]
    BY <1>2, <1>4, ConcatProperties
  <2> QED BY <1>1, <1>2, <1>4, <2>1
<1> HIDE DEF front
<1>6. /\ front \o right \in Seq(S) /\ Len(front \o right) = Len(front) + Len(right)
      /\ \A i \in 1..(Len(front) + Len(right)) :
           (front \o right)[i] = IF i <= Len(front) THEN front[i] ELSE right[i - Len(front)]
  BY <1>3, <1>5, ConcatProperties
<1>7. \A i \in 1..(n + 1) :
        (front \o right)[i] = IF i < k THEN list[i] ELSE IF i = k THEN e ELSE list[i - 1]
  <2> TAKE i \in 1..(n + 1)
  <2>1. CASE i <= k
    BY <1>1, <1>3, <1>5, <1>6, <2>1 DEF n
  <2>2. CASE ~(i <= k)
    <3>1. i - k \in 1..(n - k + 1)
      BY <1>1, <2>2
    <3>2. right[i - k] = list[k + (i - k) - 1]
      BY <3>1, <1>3
    <3> QED BY <1>1, <1>3, <1>5, <1>6, <2>2, <3>2 DEF n
  <2> QED BY <2>1, <2>2
<1>8. Len(front \o right) = n + 1 /\ front \o right \in Seq(S)
  BY <1>1, <1>3, <1>5, <1>6
<1> QED BY <1>0, <1>7, <1>8, Zenon DEF n

\* A list with e left out is in order of z.
Sorted(list, z, e) ==
  \A i, j \in 1..Len(list) : i < j /\ list[i] # e /\ list[j] # e => z[list[i]] <= z[list[j]]

LEMMA ListFacts ==
  ASSUME NEW S, NEW list \in Seq(S)
  PROVE  /\ Len(list) \in Nat /\ DOMAIN list = 1..Len(list)
         /\ \A i \in 1..Len(list) : list[i] \in S
         /\ \A t : t \in ToSet(list) <=> \E i \in 1..Len(list) : list[i] = t
         /\ \A t, u : Below(list, t, u) <=> \E i, j \in 1..Len(list) : i < j /\ list[i] = t /\ list[j] = u
<1>1. /\ Len(list) \in Nat /\ DOMAIN list = 1..Len(list)
      /\ \A i \in 1..Len(list) : list[i] \in S
  BY LenProperties, ElementOfSeq
<1>2. \A t : t \in ToSet(list) <=> \E i \in 1..Len(list) : list[i] = t
  BY <1>1 DEF ToSet
<1> QED BY <1>1, <1>2 DEF Below

\* RemoveFirst takes s out of a list, and leaves the others in their order.
LEMMA TakenOut ==
  ASSUME NEW S, NEW list \in Seq(S), Once(list), NEW s
  PROVE  /\ RemoveFirst(list, s) \in Seq(S)
         /\ Once(RemoveFirst(list, s))
         /\ \A t : t \in ToSet(RemoveFirst(list, s)) <=> t \in ToSet(list) /\ t # s
         /\ \A t, u : Below(RemoveFirst(list, s), t, u) <=> Below(list, t, u) /\ t # s /\ u # s
<1> DEFINE r == RemoveFirst(list, s)  n == Len(list)
<1>1. CASE ~ \E i \in 1..n : list[i] = s
  <2>1. r = list
    BY <1>1 DEF RemoveFirst
  <2>2. s \notin ToSet(list) /\ \A t : ~Below(list, t, s) /\ ~Below(list, s, t)
    BY <1>1, ListFacts
  <2> QED BY <2>1, <2>2
<1>2. CASE \E i \in 1..n : list[i] = s
  <2> DEFINE k == SelectInSeq(list, LAMBDA t : t = s)
  <2>1. k \in 1..n /\ list[k] = s
    BY <1>2, PlaceOf
  <2>2. r = RemoveAt(list, k)
    BY <1>2 DEF RemoveFirst
  <2> HIDE DEF k
  <2>3. /\ r \in Seq(S) /\ Len(r) = n - 1
        /\ \A i \in 1..(n - 1) : r[i] = IF i < k THEN list[i] ELSE list[i + 1]
    BY <2>1, <2>2, RemovedAt
  <2> HIDE DEF r
  <2>4. /\ n \in Nat /\ \A i \in 1..n : list[i] \in S
        /\ \A t : t \in ToSet(list) <=> \E i \in 1..n : list[i] = t
        /\ \A t, u : Below(list, t, u) <=> \E i, j \in 1..n : i < j /\ list[i] = t /\ list[j] = u
    BY ListFacts
  <2>5. /\ \A t : t \in ToSet(r) <=> \E i \in 1..(n - 1) : r[i] = t
        /\ \A t, u : Below(r, t, u) <=> \E i, j \in 1..(n - 1) : i < j /\ r[i] = t /\ r[j] = u
    <3>0. r \in Seq(S)
      BY <2>3
    <3>1. /\ \A t : t \in ToSet(r) <=> \E i \in 1..Len(r) : r[i] = t
          /\ \A t, u : Below(r, t, u) <=> \E i, j \in 1..Len(r) : i < j /\ r[i] = t /\ r[j] = u
      BY <3>0, ListFacts
    <3>2. Len(r) = n - 1
      BY <2>3
    <3> QED BY <3>1, <3>2
  <2> HIDE DEF n
  <2>6. \A i \in 1..n : i # k => list[i] # s
    BY <2>1 DEF Once, n
  \* Where each element of r was, and where each of the list has gone.
  <2>7. \A i \in 1..(n - 1) : \E a \in 1..n : /\ a = IF i < k THEN i ELSE i + 1
                                              /\ a # k /\ r[i] = list[a]
    <3> TAKE i \in 1..(n - 1)
    <3>1. CASE i < k
      BY <3>1, <2>1, <2>3, <2>4
    <3>2. CASE ~(i < k)
      BY <3>2, <2>1, <2>3, <2>4
    <3> QED BY <3>1, <3>2
  <2>8. \A a \in 1..n : a # k => \E i \in 1..(n - 1) : /\ i = IF a < k THEN a ELSE a - 1
                                                       /\ r[i] = list[a]
    <3> SUFFICES ASSUME NEW a \in 1..n, a # k
                 PROVE  \E i \in 1..(n - 1) : /\ i = IF a < k THEN a ELSE a - 1
                                              /\ r[i] = list[a]
      OBVIOUS
    <3>1. CASE a < k
      BY <3>1, <2>1, <2>3, <2>4
    <3>2. CASE a > k
      <4>1. a - 1 \in 1..(n - 1) /\ ~(a - 1 < k) /\ (a - 1) + 1 = a /\ ~(a < k)
        BY <3>2, <2>1, <2>4
      <4>2. r[a - 1] = list[a]
        BY <4>1, <2>3
      <4> QED BY <4>1, <4>2
    <3> QED BY <3>1, <3>2, <2>1, <2>4
  <2>9. Once(r)
    <3> SUFFICES ASSUME NEW i \in 1..(n - 1), NEW j \in 1..(n - 1), r[i] = r[j]  PROVE i = j
      BY <2>3 DEF Once
    <3>1. PICK a \in 1..n : a = (IF i < k THEN i ELSE i + 1) /\ a # k /\ r[i] = list[a]
      BY <2>7
    <3>2. PICK b \in 1..n : b = (IF j < k THEN j ELSE j + 1) /\ b # k /\ r[j] = list[b]
      BY <2>7
    <3>3. a = b
      BY <3>1, <3>2 DEF Once, n
    <3> QED BY <3>1, <3>2, <3>3, <2>1, <2>4
  <2>10. \A t : t \in ToSet(r) <=> t \in ToSet(list) /\ t # s
    <3> TAKE t
    <3>1. ASSUME t \in ToSet(r)  PROVE t \in ToSet(list) /\ t # s
      BY <3>1, <2>4, <2>5, <2>6, <2>7
    <3>2. ASSUME t \in ToSet(list), t # s  PROVE t \in ToSet(r)
      BY <3>2, <2>1, <2>4, <2>5, <2>8
    <3> QED BY <3>1, <3>2
  <2>11. \A t, u : Below(r, t, u) <=> Below(list, t, u) /\ t # s /\ u # s
    <3> TAKE t, u
    <3>1. ASSUME Below(r, t, u)  PROVE Below(list, t, u) /\ t # s /\ u # s
      <4>1. PICK i \in 1..(n - 1), j \in 1..(n - 1) : i < j /\ r[i] = t /\ r[j] = u
        BY <3>1, <2>5
      <4>2. PICK a \in 1..n : a = (IF i < k THEN i ELSE i + 1) /\ a # k /\ r[i] = list[a]
        BY <2>7
      <4>3. PICK b \in 1..n : b = (IF j < k THEN j ELSE j + 1) /\ b # k /\ r[j] = list[b]
        BY <2>7
      <4>4. a < b
        BY <4>1, <4>2, <4>3, <2>1, <2>4
      <4> QED BY <4>1, <4>2, <4>3, <4>4, <2>4, <2>6
    <3>2. ASSUME Below(list, t, u), t # s, u # s  PROVE Below(r, t, u)
      <4>1. PICK a \in 1..n, b \in 1..n : a < b /\ list[a] = t /\ list[b] = u
        BY <3>2, <2>4
      <4>2. a # k /\ b # k
        BY <4>1, <3>2, <2>1
      <4>3. PICK i \in 1..(n - 1) : i = (IF a < k THEN a ELSE a - 1) /\ r[i] = list[a]
        BY <4>2, <2>8
      <4>4. PICK j \in 1..(n - 1) : j = (IF b < k THEN b ELSE b - 1) /\ r[j] = list[b]
        BY <4>2, <2>8
      <4>5. i < j
        BY <4>1, <4>2, <4>3, <4>4, <2>1, <2>4
      <4> QED BY <4>1, <4>3, <4>4, <4>5, <2>5
    <3> QED BY <3>1, <3>2
  <2> QED BY <2>3, <2>9, <2>10, <2>11 DEF r
<1> QED BY <1>1, <1>2

\* A new element goes above those that are not higher and below those that are.
LEMMA PutIn ==
  ASSUME NEW S, NEW rest \in Seq(S), Once(rest), NEW e \in S, e \notin ToSet(rest),
         NEW z \in [S -> Nat], Sorted(rest, z, e)
  PROVE  LET k == SelectInSeq(rest, LAMBDA t : z[e] < z[t])
             r == IF k = 0 THEN Append(rest, e) ELSE InsertAt(rest, k, e)
         IN  /\ r \in Seq(S) /\ Once(r)
             /\ \A t : t \in ToSet(r) <=> t \in ToSet(rest) \/ t = e
             /\ \A i, j \in 1..Len(r) : i < j => z[r[i]] <= z[r[j]]
             /\ \A t, u : t # e /\ u # e => (Below(r, t, u) <=> Below(rest, t, u))
             /\ \A t : Below(r, t, e) <=> t \in ToSet(rest) /\ z[t] <= z[e]
             /\ \A t : Below(r, e, t) <=> t \in ToSet(rest) /\ z[e] < z[t]
<1> DEFINE n == Len(rest)
           k == SelectInSeq(rest, LAMBDA t : z[e] < z[t])
           r == IF k = 0 THEN Append(rest, e) ELSE InsertAt(rest, k, e)
<1>1. /\ n \in Nat /\ \A i \in 1..n : rest[i] \in S
      /\ \A t : t \in ToSet(rest) <=> \E i \in 1..n : rest[i] = t
      /\ \A t, u : Below(rest, t, u) <=> \E i, j \in 1..n : i < j /\ rest[i] = t /\ rest[j] = u
  BY ListFacts
<1>2. \/ k = 0 /\ \A i \in 1..n : ~(z[e] < z[rest[i]])
      \/ /\ k \in 1..n /\ z[e] < z[rest[k]]
         /\ \A i \in 1..(k - 1) : ~(z[e] < z[rest[i]])
  BY PlaceAbove
<1> HIDE DEF k
<1>3. \E p \in 1..(n + 1) :
        /\ r \in Seq(S) /\ Len(r) = n + 1
        /\ \A i \in 1..(n + 1) : r[i] = IF i < p THEN rest[i] ELSE IF i = p THEN e ELSE rest[i - 1]
        /\ \A i \in 1..(p - 1) : ~(z[e] < z[rest[i]])
        /\ p \in 1..n => z[e] < z[rest[p]]
  <2>1. CASE k = 0
    <3>1. /\ r \in Seq(S) /\ Len(r) = n + 1 /\ r[n + 1] = e
          /\ \A i \in 1..n : r[i] = rest[i]
      BY <2>1, AppendProperties
    <3> HIDE DEF r
    <3>2. \A i \in 1..(n + 1) :
            r[i] = IF i < n + 1 THEN rest[i] ELSE IF i = n + 1 THEN e ELSE rest[i - 1]
      BY <3>1, <1>1, SMTT(60)
    <3>3. (\A i \in 1..((n + 1) - 1) : ~(z[e] < z[rest[i]])) /\ n + 1 \notin 1..n
      BY <2>1, <1>1, <1>2
    <3>4. n + 1 \in 1..(n + 1)
      BY <1>1
    <3> QED BY <3>1, <3>2, <3>3, <3>4
  <2>2. CASE k # 0
    <3>1. /\ k \in 1..n /\ z[e] < z[rest[k]]
          /\ \A i \in 1..(k - 1) : ~(z[e] < z[rest[i]])
      BY <2>2, <1>2
    <3>2. /\ r \in Seq(S) /\ Len(r) = n + 1
          /\ \A i \in 1..(n + 1) :
               r[i] = IF i < k THEN rest[i] ELSE IF i = k THEN e ELSE rest[i - 1]
      BY <2>2, <3>1, InsertedAt
    <3> HIDE DEF r
    <3>3. k \in 1..(n + 1)
      BY <3>1, <1>1
    <3> QED BY <3>1, <3>2, <3>3
  <2> QED BY <2>1, <2>2
<1> HIDE DEF r
<1>4. PICK p \in 1..(n + 1) :
        /\ r \in Seq(S) /\ Len(r) = n + 1
        /\ \A i \in 1..(n + 1) : r[i] = IF i < p THEN rest[i] ELSE IF i = p THEN e ELSE rest[i - 1]
        /\ \A i \in 1..(p - 1) : ~(z[e] < z[rest[i]])
        /\ p \in 1..n => z[e] < z[rest[p]]
  BY <1>3
<1>5. /\ \A t : t \in ToSet(r) <=> \E i \in 1..(n + 1) : r[i] = t
      /\ \A t, u : Below(r, t, u) <=> \E i, j \in 1..(n + 1) : i < j /\ r[i] = t /\ r[j] = u
  <2>1. /\ \A t : t \in ToSet(r) <=> \E i \in 1..Len(r) : r[i] = t
        /\ \A t, u : Below(r, t, u) <=> \E i, j \in 1..Len(r) : i < j /\ r[i] = t /\ r[j] = u
    <3>1. r \in Seq(S)
      BY <1>4
    <3> QED BY <3>1, ListFacts
  <2>2. Len(r) = n + 1
    BY <1>4
  <2> QED BY <2>1, <2>2
<1>6. /\ \A i \in 1..n : rest[i] # e
      /\ \A i, j \in 1..n : i < j => z[rest[i]] <= z[rest[j]]
      /\ \A i, j \in 1..n : rest[i] = rest[j] => i = j
  BY <1>1 DEF Sorted, Once
<1> HIDE DEF n
\* Where each element of r was, and where each of the list has gone.
<1>7. \A i \in 1..(n + 1) : i # p => \E a \in 1..n : /\ a = IF i < p THEN i ELSE i - 1
                                                     /\ r[i] = rest[a]
  <2> SUFFICES ASSUME NEW i \in 1..(n + 1), i # p
               PROVE  \E a \in 1..n : a = (IF i < p THEN i ELSE i - 1) /\ r[i] = rest[a]
    OBVIOUS
  <2>1. CASE i < p
    <3>1. i \in 1..n
      BY <2>1, <1>1
    <3> QED BY <2>1, <3>1, <1>4
  <2>2. CASE ~(i < p)
    <3>1. i - 1 \in 1..n
      BY <2>2, <1>1
    <3>2. r[i] = rest[i - 1]
      BY <2>2, <1>4
    <3> QED BY <2>2, <3>1, <3>2
  <2> QED BY <2>1, <2>2
<1>8. \A a \in 1..n : \E i \in 1..(n + 1) : /\ i = IF a < p THEN a ELSE a + 1
                                            /\ i # p /\ r[i] = rest[a]
  <2> TAKE a \in 1..n
  <2>1. CASE a < p
    <3>1. a \in 1..(n + 1)
      BY <1>1
    <3> QED BY <2>1, <3>1, <1>4
  <2>2. CASE ~(a < p)
    <3>1. a + 1 \in 1..(n + 1) /\ ~(a + 1 < p) /\ a + 1 # p /\ (a + 1) - 1 = a
      BY <2>2, <1>1
    <3>2. r[a + 1] = rest[a]
      BY <3>1, <1>4
    <3> QED BY <2>2, <3>1, <3>2
  <2> QED BY <2>1, <2>2
<1>9. r[p] = e
  BY <1>4
\* What was before the new place is not higher than e, and what was after it is.
<1>10. \A a \in 1..n : /\ a < p => z[rest[a]] <= z[e]
                       /\ ~(a < p) => z[e] < z[rest[a]]
  <2> TAKE a \in 1..n
  <2>1. z[e] \in Nat /\ z[rest[a]] \in Nat
    BY <1>1
  <2>2. ASSUME a < p  PROVE z[rest[a]] <= z[e]
    <3>1. a \in 1..(p - 1)
      BY <2>2, <1>1
    <3> QED BY <3>1, <2>1, <1>4
  <2>3. ASSUME ~(a < p)  PROVE z[e] < z[rest[a]]
    <3>1. p \in 1..n /\ p <= a
      BY <2>3, <1>1
    <3>2. z[e] < z[rest[p]] /\ z[rest[p]] <= z[rest[a]] /\ z[rest[p]] \in Nat
      BY <3>1, <1>1, <1>4, <1>6
    <3> QED BY <3>2, <2>1
  <2> QED BY <2>2, <2>3
<1>11. Once(r)
  <2> SUFFICES ASSUME NEW i \in 1..(n + 1), NEW j \in 1..(n + 1), r[i] = r[j]  PROVE i = j
    BY <1>4 DEF Once
  <2>1. CASE i = p
    BY <2>1, <1>6, <1>7, <1>9
  <2>2. CASE j = p
    BY <2>2, <1>6, <1>7, <1>9
  <2>3. CASE i # p /\ j # p
    <3>1. PICK a \in 1..n : a = (IF i < p THEN i ELSE i - 1) /\ r[i] = rest[a]
      BY <2>3, <1>7
    <3>2. PICK b \in 1..n : b = (IF j < p THEN j ELSE j - 1) /\ r[j] = rest[b]
      BY <2>3, <1>7
    <3>3. a = b
      BY <3>1, <3>2, <1>6
    <3> QED BY <2>3, <3>1, <3>2, <3>3, <1>1
  <2> QED BY <2>1, <2>2, <2>3
<1>12. \A t : t \in ToSet(r) <=> t \in ToSet(rest) \/ t = e
  <2> TAKE t
  <2>1. ASSUME t \in ToSet(r)  PROVE t \in ToSet(rest) \/ t = e
    BY <2>1, <1>1, <1>5, <1>7, <1>9
  <2>2. ASSUME t \in ToSet(rest)  PROVE t \in ToSet(r)
    BY <2>2, <1>1, <1>5, <1>8
  <2>3. e \in ToSet(r)
    BY <1>5, <1>9
  <2> QED BY <2>1, <2>2, <2>3
<1>13. \A i, j \in 1..(n + 1) : i < j => z[r[i]] <= z[r[j]]
  <2> SUFFICES ASSUME NEW i \in 1..(n + 1), NEW j \in 1..(n + 1), i < j
               PROVE  z[r[i]] <= z[r[j]]
    OBVIOUS
  <2>1. CASE i = p
    <3>1. PICK b \in 1..n : b = j - 1 /\ r[j] = rest[b]
      BY <2>1, <1>1, <1>7
    <3>2. z[e] < z[rest[b]] /\ z[e] \in Nat /\ z[rest[b]] \in Nat
      BY <2>1, <3>1, <1>1, <1>10
    <3> QED BY <2>1, <3>1, <3>2, <1>9
  <2>2. CASE j = p
    <3>1. PICK a \in 1..n : a = i /\ r[i] = rest[a]
      BY <2>2, <1>1, <1>7
    <3>2. a < p
      BY <2>2, <3>1
    <3>3. z[rest[a]] <= z[e]
      BY <3>2, <1>10
    <3> QED BY <2>2, <3>1, <3>3, <1>9
  <2>3. CASE i # p /\ j # p
    <3>1. PICK a \in 1..n : a = (IF i < p THEN i ELSE i - 1) /\ r[i] = rest[a]
      BY <2>3, <1>7
    <3>2. PICK b \in 1..n : b = (IF j < p THEN j ELSE j - 1) /\ r[j] = rest[b]
      BY <2>3, <1>7
    <3>3. a < b
      BY <2>3, <3>1, <3>2, <1>1
    <3> QED BY <3>1, <3>2, <3>3, <1>6
  <2> QED BY <2>1, <2>2, <2>3
<1>14. \A t, u : t # e /\ u # e => (Below(r, t, u) <=> Below(rest, t, u))
  <2> SUFFICES ASSUME NEW t, NEW u, t # e, u # e  PROVE Below(r, t, u) <=> Below(rest, t, u)
    OBVIOUS
  <2>1. ASSUME Below(r, t, u)  PROVE Below(rest, t, u)
    <3>1. PICK i \in 1..(n + 1), j \in 1..(n + 1) : i < j /\ r[i] = t /\ r[j] = u
      BY <2>1, <1>5
    <3>2. i # p /\ j # p
      BY <3>1, <1>9
    <3>3. PICK a \in 1..n : a = (IF i < p THEN i ELSE i - 1) /\ r[i] = rest[a]
      BY <3>2, <1>7
    <3>4. PICK b \in 1..n : b = (IF j < p THEN j ELSE j - 1) /\ r[j] = rest[b]
      BY <3>2, <1>7
    <3>5. a < b
      BY <3>1, <3>2, <3>3, <3>4, <1>1
    <3> QED BY <3>1, <3>3, <3>4, <3>5, <1>1
  <2>2. ASSUME Below(rest, t, u)  PROVE Below(r, t, u)
    <3>1. PICK a \in 1..n, b \in 1..n : a < b /\ rest[a] = t /\ rest[b] = u
      BY <2>2, <1>1
    <3>2. PICK i \in 1..(n + 1) : i = (IF a < p THEN a ELSE a + 1) /\ r[i] = rest[a]
      BY <1>8
    <3>3. PICK j \in 1..(n + 1) : j = (IF b < p THEN b ELSE b + 1) /\ r[j] = rest[b]
      BY <1>8
    <3>4. i < j
      BY <3>1, <3>2, <3>3, <1>1
    <3> QED BY <3>1, <3>2, <3>3, <3>4, <1>5
  <2> QED BY <2>1, <2>2
<1>15. \A t : Below(r, t, e) <=> t \in ToSet(rest) /\ z[t] <= z[e]
  <2> TAKE t
  <2>1. ASSUME Below(r, t, e)  PROVE t \in ToSet(rest) /\ z[t] <= z[e]
    <3>1. PICK i \in 1..(n + 1), j \in 1..(n + 1) : i < j /\ r[i] = t /\ r[j] = e
      BY <2>1, <1>5
    <3>2. j = p
      BY <3>1, <1>6, <1>7
    <3>3. PICK a \in 1..n : a = i /\ r[i] = rest[a]
      BY <3>1, <3>2, <1>1, <1>7
    <3>4. a < p
      BY <3>1, <3>2, <3>3
    <3>5. z[rest[a]] <= z[e]
      BY <3>4, <1>10
    <3> QED BY <3>1, <3>3, <3>5, <1>1
  <2>2. ASSUME t \in ToSet(rest), z[t] <= z[e]  PROVE Below(r, t, e)
    <3>1. PICK a \in 1..n : rest[a] = t
      BY <2>2, <1>1
    <3>2. a < p
      <4>1. z[e] \in Nat /\ z[rest[a]] \in Nat
        BY <1>1
      <4> QED BY <4>1, <2>2, <3>1, <1>10
    <3>3. a \in 1..(n + 1) /\ r[a] = t
      BY <3>1, <3>2, <1>1, <1>8
    <3> QED BY <3>2, <3>3, <1>5, <1>9
  <2> QED BY <2>1, <2>2
<1>16. \A t : Below(r, e, t) <=> t \in ToSet(rest) /\ z[e] < z[t]
  <2> TAKE t
  <2>1. ASSUME Below(r, e, t)  PROVE t \in ToSet(rest) /\ z[e] < z[t]
    <3>1. PICK i \in 1..(n + 1), j \in 1..(n + 1) : i < j /\ r[i] = e /\ r[j] = t
      BY <2>1, <1>5
    <3>2. i = p
      BY <3>1, <1>6, <1>7
    <3>3. PICK a \in 1..n : a = j - 1 /\ r[j] = rest[a]
      BY <3>1, <3>2, <1>1, <1>7
    <3>4. ~(a < p)
      BY <3>1, <3>2, <3>3
    <3> QED BY <3>1, <3>3, <3>4, <1>1, <1>10
  <2>2. ASSUME t \in ToSet(rest), z[e] < z[t]  PROVE Below(r, e, t)
    <3>1. PICK a \in 1..n : rest[a] = t
      BY <2>2, <1>1
    <3>2. ~(a < p)
      <4>1. z[e] \in Nat /\ z[rest[a]] \in Nat
        BY <1>1
      <4>2. a < p => z[rest[a]] <= z[e]
        BY <1>10
      <4>3. z[e] < z[rest[a]]
        BY <2>2, <3>1
      <4> QED BY <4>1, <4>2, <4>3
    <3>3. PICK j \in 1..(n + 1) : j = a + 1 /\ r[j] = t
      BY <3>1, <3>2, <1>8
    <3>4. p < j
      BY <3>2, <3>3
    <3> QED BY <3>3, <3>4, <1>5, <1>9
  <2> QED BY <2>1, <2>2
<1>17. \A i, j \in 1..Len(r) : i < j => z[r[i]] <= z[r[j]]
  BY <1>4, <1>13
<1> QED BY <1>4, <1>11, <1>12, <1>14, <1>15, <1>16, <1>17 DEF r, k

--------------------------------------------------------------------------------
(* The two orders. *)

Ascending(list, z) == \A t, u : Below(list, t, u) => z[t] <= z[u]
AscendingBut(list, z, e) == \A t, u : Below(list, t, u) /\ t # e /\ u # e => z[t] <= z[u]

\* A level is the same in both lists, except of a cursor.
LevelsAgree == \A s \in Ids \ cursors : drawnAt[s] = zorder[s]

OrderInv == /\ OrderTypeOK
            /\ Once(surfaces) /\ Once(drawn)
            /\ Ascending(surfaces, zorder) /\ Ascending(drawn, drawnAt)
            /\ LevelsAgree
            /\ HitOrderIsPaintOrder

\* In a list without repetitions nothing is below itself.
LEMMA NotBelowItself ==
  ASSUME NEW S, NEW list \in Seq(S), Once(list), NEW t
  PROVE  ~Below(list, t, t)
<1>1. Len(list) \in Nat /\ DOMAIN list = 1..Len(list)
  BY ListFacts
<1> QED BY <1>1 DEF Below, Once

\* What wstSurfaceInsertSurface makes of a list.
LEMMA Placed ==
  ASSUME NEW S, NEW list \in Seq(S), Once(list), NEW e \in S, NEW z \in [S -> Nat],
         AscendingBut(list, z, e)
  PROVE  LET r == InsertSurface(list, e, z)
         IN  /\ r \in Seq(S) /\ Once(r) /\ Ascending(r, z)
             /\ \A t : t \in ToSet(r) <=> t \in ToSet(list) \/ t = e
             /\ \A t, u : t # e /\ u # e => (Below(r, t, u) <=> Below(list, t, u))
             /\ \A t : Below(r, t, e) <=> t # e /\ t \in ToSet(list) /\ z[t] <= z[e]
             /\ \A t : Below(r, e, t) <=> t # e /\ t \in ToSet(list) /\ z[e] < z[t]
<1> DEFINE rest == RemoveFirst(list, e)
           r == InsertSurface(list, e, z)
<1>1. /\ rest \in Seq(S) /\ Once(rest)
      /\ \A t : t \in ToSet(rest) <=> t \in ToSet(list) /\ t # e
      /\ \A t, u : Below(rest, t, u) <=> Below(list, t, u) /\ t # e /\ u # e
  BY TakenOut
<1> HIDE DEF rest
<1>2. Sorted(rest, z, e)
  <2>1. \A i, j \in 1..Len(rest) : i < j => Below(rest, rest[i], rest[j])
    BY <1>1, ListFacts
  <2> QED BY <2>1, <1>1 DEF Sorted, AscendingBut
<1>3. e \notin ToSet(rest)
  BY <1>1
<1> DEFINE k == SelectInSeq(rest, LAMBDA t : z[e] < z[t])
           new == IF k = 0 THEN Append(rest, e) ELSE InsertAt(rest, k, e)
<1>4. /\ new \in Seq(S) /\ Once(new)
      /\ \A t : t \in ToSet(new) <=> t \in ToSet(rest) \/ t = e
      /\ \A i, j \in 1..Len(new) : i < j => z[new[i]] <= z[new[j]]
      /\ \A t, u : t # e /\ u # e => (Below(new, t, u) <=> Below(rest, t, u))
      /\ \A t : Below(new, t, e) <=> t \in ToSet(rest) /\ z[t] <= z[e]
      /\ \A t : Below(new, e, t) <=> t \in ToSet(rest) /\ z[e] < z[t]
  BY <1>1, <1>2, <1>3, PutIn
<1>5. r = new
  BY DEF InsertSurface, rest
<1> HIDE DEF new, r
<1>6. Ascending(new, z)
  <2>1. \A t, u : Below(new, t, u) <=>
                    \E i, j \in 1..Len(new) : i < j /\ new[i] = t /\ new[j] = u
    BY <1>4, ListFacts
  <2> QED BY <2>1, <1>4, SMTT(60) DEF Ascending
<1>7. /\ \A t : t \in ToSet(new) <=> t \in ToSet(list) \/ t = e
      /\ \A t, u : t # e /\ u # e => (Below(new, t, u) <=> Below(list, t, u))
      /\ \A t : Below(new, t, e) <=> t # e /\ t \in ToSet(list) /\ z[t] <= z[e]
      /\ \A t : Below(new, e, t) <=> t # e /\ t \in ToSet(list) /\ z[e] < z[t]
  BY <1>1, <1>4
<1>8. r \in Seq(S) /\ Once(r) /\ Ascending(r, z)
  BY <1>4, <1>5, <1>6
<1>9. /\ \A t : t \in ToSet(r) <=> t \in ToSet(list) \/ t = e
      /\ \A t, u : t # e /\ u # e => (Below(r, t, u) <=> Below(list, t, u))
      /\ \A t : Below(r, t, e) <=> t # e /\ t \in ToSet(list) /\ z[t] <= z[e]
      /\ \A t : Below(r, e, t) <=> t # e /\ t \in ToSet(list) /\ z[e] < z[t]
  BY <1>5, <1>7
<1> QED BY <1>8, <1>9 DEF r

LEMMA SameInsertion ==
  ASSUME NEW list, NEW e, NEW z
  PROVE  RendererInsert(list, e, z) = InsertSurface(list, e, z)
  BY DEF RendererInsert, InsertSurface

\* A level that changes in e alone leaves the others in order.
LEMMA OthersAscend ==
  ASSUME NEW S, NEW list \in Seq(S), NEW z \in [S -> Nat], NEW e, NEW level \in Nat,
         Ascending(list, z)
  PROVE  AscendingBut(list, [z EXCEPT ![e] = level], e)
<1>1. \A t, u : Below(list, t, u) => t \in S /\ u \in S
  BY ListFacts
<1> QED BY <1>1 DEF Ascending, AscendingBut

LEMMA OrderTypes ==
  ASSUME OrderInv
  PROVE  /\ surfaces \in Seq(Ids) /\ drawn \in Seq(Ids)
         /\ zorder \in [Ids -> Nat] /\ drawnAt \in [Ids -> Nat]
         /\ zorder \in [Ids -> Levels] /\ drawnAt \in [Ids -> Levels \cup {CursorLevel}]
         /\ cursors \subseteq Ids
<1>1. /\ surfaces \in Seq(Ids) /\ drawn \in Seq(Ids)
      /\ zorder \in [Ids -> Levels] /\ drawnAt \in [Ids -> Levels \cup {CursorLevel}]
      /\ cursors \subseteq Ids
  BY DEF OrderInv, OrderTypeOK
<1>2. Levels \subseteq Nat /\ CursorLevel \in Nat
  BY LevelAssumption
<1> QED BY <1>1, <1>2

\* A surface that gets the same level in both lists.
LEMMA SameLevel ==
  ASSUME OrderInv, NEW s \in Ids, NEW level \in Levels,
         zorder' = [zorder EXCEPT ![s] = level],
         drawnAt' = [drawnAt EXCEPT ![s] = level],
         surfaces' = InsertSurface(surfaces, s, zorder'),
         drawn' = RendererInsert(drawn, s, drawnAt'),
         cursors' = cursors
  PROVE  OrderInv'
<1>1. /\ surfaces \in Seq(Ids) /\ drawn \in Seq(Ids)
      /\ zorder \in [Ids -> Nat] /\ drawnAt \in [Ids -> Nat]
      /\ zorder \in [Ids -> Levels] /\ drawnAt \in [Ids -> Levels \cup {CursorLevel}]
      /\ cursors \subseteq Ids
  BY OrderTypes
<1>2. level \in Nat
  BY LevelAssumption
<1>3. /\ zorder' \in [Ids -> Nat] /\ drawnAt' \in [Ids -> Nat]
      /\ zorder' \in [Ids -> Levels] /\ drawnAt' \in [Ids -> Levels \cup {CursorLevel}]
  BY <1>1, <1>2
<1>4. AscendingBut(surfaces, zorder', s) /\ AscendingBut(drawn, drawnAt', s)
  BY <1>1, <1>2, OthersAscend DEF OrderInv
<1>5. PICK z : z = zorder'
  OBVIOUS
<1>6. PICK d : d = drawnAt'
  OBVIOUS
<1>7. /\ surfaces' \in Seq(Ids) /\ Once(surfaces') /\ Ascending(surfaces', z)
      /\ \A t : t \in ToSet(surfaces') <=> t \in ToSet(surfaces) \/ t = s
      /\ \A t, u : t # s /\ u # s => (Below(surfaces', t, u) <=> Below(surfaces, t, u))
      /\ \A t : Below(surfaces', t, s) <=> t # s /\ t \in ToSet(surfaces) /\ z[t] <= z[s]
      /\ \A t : Below(surfaces', s, t) <=> t # s /\ t \in ToSet(surfaces) /\ z[s] < z[t]
  <2>1. /\ surfaces \in Seq(Ids) /\ Once(surfaces) /\ z \in [Ids -> Nat]
        /\ AscendingBut(surfaces, z, s) /\ surfaces' = InsertSurface(surfaces, s, z)
    BY <1>1, <1>3, <1>4, <1>5 DEF OrderInv
  <2>2. PICK r : r = InsertSurface(surfaces, s, z)
    OBVIOUS
  <2>3. /\ r \in Seq(Ids) /\ Once(r) /\ Ascending(r, z)
        /\ \A t : t \in ToSet(r) <=> t \in ToSet(surfaces) \/ t = s
        /\ \A t, u : t # s /\ u # s => (Below(r, t, u) <=> Below(surfaces, t, u))
        /\ \A t : Below(r, t, s) <=> t # s /\ t \in ToSet(surfaces) /\ z[t] <= z[s]
        /\ \A t : Below(r, s, t) <=> t # s /\ t \in ToSet(surfaces) /\ z[s] < z[t]
    BY <2>1, <2>2, Placed
  <2>4. surfaces' = r
    BY <2>1, <2>2
  <2> QED BY <2>3, <2>4, Zenon
<1>8. /\ drawn' \in Seq(Ids) /\ Once(drawn') /\ Ascending(drawn', d)
      /\ \A t : t \in ToSet(drawn') <=> t \in ToSet(drawn) \/ t = s
      /\ \A t, u : t # s /\ u # s => (Below(drawn', t, u) <=> Below(drawn, t, u))
      /\ \A t : Below(drawn', t, s) <=> t # s /\ t \in ToSet(drawn) /\ d[t] <= d[s]
      /\ \A t : Below(drawn', s, t) <=> t # s /\ t \in ToSet(drawn) /\ d[s] < d[t]
  <2>1. /\ drawn \in Seq(Ids) /\ Once(drawn) /\ d \in [Ids -> Nat]
        /\ AscendingBut(drawn, d, s) /\ drawn' = InsertSurface(drawn, s, d)
    BY <1>1, <1>3, <1>4, <1>6, SameInsertion DEF OrderInv
  <2>2. PICK r : r = InsertSurface(drawn, s, d)
    OBVIOUS
  <2>3. /\ r \in Seq(Ids) /\ Once(r) /\ Ascending(r, d)
        /\ \A t : t \in ToSet(r) <=> t \in ToSet(drawn) \/ t = s
        /\ \A t, u : t # s /\ u # s => (Below(r, t, u) <=> Below(drawn, t, u))
        /\ \A t : Below(r, t, s) <=> t # s /\ t \in ToSet(drawn) /\ d[t] <= d[s]
        /\ \A t : Below(r, s, t) <=> t # s /\ t \in ToSet(drawn) /\ d[s] < d[t]
    BY <2>1, <2>2, Placed
  <2>4. drawn' = r
    BY <2>1, <2>2
  <2> QED BY <2>3, <2>4, Zenon
<1>9. \A t \in Ids \ cursors : d[t] = z[t]
  BY <1>1, <1>5, <1>6 DEF OrderInv, LevelsAgree
<1>10. LevelsAgree'
  BY <1>5, <1>6, <1>9 DEF LevelsAgree
<1>11. OrderTypeOK'
  BY <1>1, <1>3, <1>7, <1>8 DEF OrderTypeOK
<1>12. HitOrderIsPaintOrder'
  <2> SUFFICES ASSUME NEW t \in Ids \ cursors, NEW u \in Ids \ cursors
               PROVE  /\ t \in ToSet(surfaces') <=> t \in ToSet(drawn')
                      /\ Below(surfaces', t, u) <=> Below(drawn', t, u)
                      /\ Below(surfaces', t, u) => t # u
    BY DEF HitOrderIsPaintOrder, ToSet, Below
  <2>1. /\ t \in ToSet(surfaces) <=> t \in ToSet(drawn)
        /\ u \in ToSet(surfaces) <=> u \in ToSet(drawn)
        /\ Below(surfaces, t, u) <=> Below(drawn, t, u)
        /\ d[t] = z[t] /\ d[u] = z[u]
    BY <1>9 DEF OrderInv, HitOrderIsPaintOrder
  <2>2. Below(surfaces', t, u) => t # u
    BY <1>7, NotBelowItself
  <2>3. t \in ToSet(surfaces') <=> t \in ToSet(drawn')
    BY <2>1, <1>7, <1>8
  <2>4. Below(surfaces', t, u) <=> Below(drawn', t, u)
    <3>1. CASE t = s /\ u # s
      BY <3>1, <2>1, <1>7, <1>8
    <3>2. CASE t # s /\ u = s
      BY <3>2, <2>1, <1>7, <1>8
    <3>3. CASE t = s /\ u = s
      BY <3>3, <1>7, <1>8
    <3>4. CASE t # s /\ u # s
      BY <3>4, <2>1, <1>7, <1>8
    <3> QED BY <3>1, <3>2, <3>3, <3>4
  <2> QED BY <2>2, <2>3, <2>4
<1>13. (Once(surfaces) /\ Once(drawn) /\ Ascending(surfaces, zorder) /\ Ascending(drawn, drawnAt))'
  BY <1>5, <1>6, <1>7, <1>8 DEF Once, Ascending, Below
<1> QED BY <1>10, <1>11, <1>12, <1>13 DEF OrderInv

LEMMA CursorOnTop ==
  ASSUME OrderInv, NEW s \in Ids, SetCursorSurface(s)
  PROVE  OrderInv'
<1>1. /\ surfaces \in Seq(Ids) /\ drawn \in Seq(Ids)
      /\ zorder \in [Ids -> Nat] /\ drawnAt \in [Ids -> Nat]
      /\ zorder \in [Ids -> Levels] /\ drawnAt \in [Ids -> Levels \cup {CursorLevel}]
      /\ cursors \subseteq Ids
  BY OrderTypes
<1>2. /\ drawnAt' = [drawnAt EXCEPT ![s] = CursorLevel]
      /\ drawn' = RendererInsert(drawn, s, drawnAt')
      /\ cursors' = cursors \cup {s} /\ UNCHANGED <<surfaces, zorder>>
  BY DEF SetCursorSurface, RendererSetZOrder
<1>3. CursorLevel \in Nat
  BY LevelAssumption
<1>4. drawnAt' \in [Ids -> Nat] /\ drawnAt' \in [Ids -> Levels \cup {CursorLevel}]
  BY <1>1, <1>2, <1>3
<1>5. AscendingBut(drawn, drawnAt', s)
  BY <1>1, <1>2, <1>3, OthersAscend DEF OrderInv
<1>6. PICK d : d = drawnAt'
  OBVIOUS
<1>7. PICK r : r = InsertSurface(drawn, s, d)
  OBVIOUS
<1>8. drawn' = r
  BY <1>2, <1>6, <1>7, SameInsertion
<1>9. /\ drawn \in Seq(Ids) /\ Once(drawn) /\ d \in [Ids -> Nat] /\ AscendingBut(drawn, d, s)
  BY <1>1, <1>4, <1>5, <1>6 DEF OrderInv
<1>10. /\ r \in Seq(Ids) /\ Once(r) /\ Ascending(r, d)
       /\ \A t : t \in ToSet(r) <=> t \in ToSet(drawn) \/ t = s
       /\ \A t, u : t # s /\ u # s => (Below(r, t, u) <=> Below(drawn, t, u))
  BY <1>7, <1>9, Placed
<1>11. OrderTypeOK'
  BY <1>1, <1>2, <1>4, <1>8, <1>10 DEF OrderTypeOK
<1>12. LevelsAgree'
  BY <1>1, <1>2 DEF OrderInv, LevelsAgree
<1>13. HitOrderIsPaintOrder'
  <2> SUFFICES ASSUME NEW t \in Ids \ cursors', NEW u \in Ids \ cursors'
               PROVE  /\ t \in ToSet(surfaces') <=> t \in ToSet(drawn')
                      /\ Below(surfaces', t, u) <=> Below(drawn', t, u)
                      /\ Below(surfaces', t, u) => t # u
    BY DEF HitOrderIsPaintOrder, ToSet, Below
  <2>1. t # s /\ u # s /\ t \in Ids \ cursors /\ u \in Ids \ cursors
    BY <1>2
  <2>2. /\ t \in ToSet(surfaces') <=> t \in ToSet(surfaces)
        /\ Below(surfaces', t, u) <=> Below(surfaces, t, u)
    BY <1>2 DEF ToSet, Below
  <2> QED BY <2>1, <2>2, <1>8, <1>10 DEF OrderInv, HitOrderIsPaintOrder
<1>14. (Once(surfaces) /\ Once(drawn) /\ Ascending(surfaces, zorder) /\ Ascending(drawn, drawnAt))'
  <2>1. Once(surfaces)' /\ Ascending(surfaces, zorder)'
    BY <1>2 DEF OrderInv, Once, Ascending, Below
  <2>2. Once(drawn)' /\ Ascending(drawn, drawnAt)'
    BY <1>6, <1>8, <1>10 DEF Once, Ascending, Below
  <2> QED BY <2>1, <2>2
<1> QED BY <1>11, <1>12, <1>13, <1>14 DEF OrderInv

LEMMA Removed ==
  ASSUME OrderInv, NEW s \in Ids, SceneRemove(s)
  PROVE  OrderInv'
<1>1. /\ surfaces \in Seq(Ids) /\ drawn \in Seq(Ids)
      /\ zorder \in [Ids -> Nat] /\ drawnAt \in [Ids -> Nat]
      /\ zorder \in [Ids -> Levels] /\ drawnAt \in [Ids -> Levels \cup {CursorLevel}]
      /\ cursors \subseteq Ids
  BY OrderTypes
<1>2. /\ surfaces' = RemoveFirst(surfaces, s) /\ drawn' = RemoveFirst(drawn, s)
      /\ zorder' = [zorder EXCEPT ![s] = DefaultLevel]
      /\ drawnAt' = [drawnAt EXCEPT ![s] = DefaultLevel]
      /\ cursors' = cursors \ {s}
  BY DEF SceneRemove
<1>3. PICK r : r = RemoveFirst(surfaces, s)
  OBVIOUS
<1>4. PICK q : q = RemoveFirst(drawn, s)
  OBVIOUS
<1>5. surfaces' = r /\ drawn' = q
  BY <1>2, <1>3, <1>4
<1>6. Once(surfaces) /\ Once(drawn)
  BY DEF OrderInv
<1>7. /\ r \in Seq(Ids) /\ Once(r)
      /\ \A t : t \in ToSet(r) <=> t \in ToSet(surfaces) /\ t # s
      /\ \A t, u : Below(r, t, u) <=> Below(surfaces, t, u) /\ t # s /\ u # s
  BY <1>1, <1>3, <1>6, TakenOut
<1>8. /\ q \in Seq(Ids) /\ Once(q)
      /\ \A t : t \in ToSet(q) <=> t \in ToSet(drawn) /\ t # s
      /\ \A t, u : Below(q, t, u) <=> Below(drawn, t, u) /\ t # s /\ u # s
  BY <1>1, <1>4, <1>6, TakenOut
<1>9. DefaultLevel \in Levels /\ DefaultLevel \in Nat
  BY LevelAssumption
<1>10. OrderTypeOK'
  BY <1>1, <1>2, <1>5, <1>7, <1>8, <1>9 DEF OrderTypeOK
<1>11. LevelsAgree'
  BY <1>1, <1>2 DEF OrderInv, LevelsAgree
<1>12. HitOrderIsPaintOrder'
  <2> SUFFICES ASSUME NEW t \in Ids \ cursors', NEW u \in Ids \ cursors'
               PROVE  /\ t \in ToSet(surfaces') <=> t \in ToSet(drawn')
                      /\ Below(surfaces', t, u) <=> Below(drawn', t, u)
                      /\ Below(surfaces', t, u) => t # u
    BY DEF HitOrderIsPaintOrder, ToSet, Below
  <2>1. CASE t # s /\ u # s
    <3>1. t \in Ids \ cursors /\ u \in Ids \ cursors
      BY <2>1, <1>2
    <3> QED BY <3>1, <2>1, <1>5, <1>7, <1>8 DEF OrderInv, HitOrderIsPaintOrder
  <2>2. CASE t = s
    BY <2>2, <1>5, <1>7, <1>8
  <2>3. CASE t # s /\ u = s
    <3>1. t \in Ids \ cursors
      BY <2>3, <1>2
    <3>2. t \in ToSet(surfaces) <=> t \in ToSet(drawn)
      BY <3>1 DEF OrderInv, HitOrderIsPaintOrder
    <3> QED BY <3>2, <2>3, <1>5, <1>7, <1>8
  <2> QED BY <2>1, <2>2, <2>3
<1>13. PICK z : z = zorder'
  OBVIOUS
<1>14. PICK d : d = drawnAt'
  OBVIOUS
<1>15. AscendingBut(surfaces, z, s) /\ AscendingBut(drawn, d, s)
  BY <1>1, <1>2, <1>9, <1>13, <1>14, OthersAscend DEF OrderInv
<1>16. Ascending(r, z) /\ Ascending(q, d)
  BY <1>7, <1>8, <1>15 DEF Ascending, AscendingBut
<1>17. (Once(surfaces) /\ Once(drawn) /\ Ascending(surfaces, zorder) /\ Ascending(drawn, drawnAt))'
  BY <1>5, <1>7, <1>8, <1>13, <1>14, <1>16 DEF Once, Ascending, Below
<1> QED BY <1>10, <1>11, <1>12, <1>17 DEF OrderInv

LEMMA OrderInitInv == OrderInit => OrderInv
<1> SUFFICES ASSUME OrderInit  PROVE OrderInv
  OBVIOUS
<1>1. surfaces = << >> /\ drawn = << >>
  BY DEF OrderInit
<1>2. OrderTypeOK
  BY LevelAssumption DEF OrderInit, OrderTypeOK
<1>3. LevelsAgree
  BY DEF OrderInit, LevelsAgree
<1>4. /\ \A t : t \notin ToSet(surfaces) /\ t \notin ToSet(drawn)
      /\ \A t, u : ~Below(surfaces, t, u) /\ ~Below(drawn, t, u)
      /\ Once(surfaces) /\ Once(drawn)
  BY <1>1 DEF ToSet, Below, Once
<1> QED BY <1>2, <1>3, <1>4 DEF OrderInv, Ascending, HitOrderIsPaintOrder

\* What the steps of a scene do to the two orders.
OrderStep == \E s \in Ids :
               \/ SceneCreate(s) \/ SceneRemove(s) \/ SetCursorSurface(s)
               \/ \E z \in Levels : SetZOrder(s, z)

LEMMA OrderStepInv ==
  ASSUME OrderInv, OrderStep \/ UNCHANGED orderVars
  PROVE  OrderInv'
<1>1. CASE UNCHANGED orderVars
  BY <1>1 DEF orderVars, OrderInv, OrderTypeOK, Once, Ascending, LevelsAgree,
       HitOrderIsPaintOrder, Below, ToSet
<1>2. ASSUME NEW s \in Ids, SceneCreate(s)  PROVE OrderInv'
  BY <1>2, SameLevel, LevelAssumption DEF SceneCreate, RendererSetZOrder
<1>3. ASSUME NEW s \in Ids, SceneRemove(s)  PROVE OrderInv'
  BY <1>3, Removed
<1>4. ASSUME NEW s \in Ids, SetCursorSurface(s)  PROVE OrderInv'
  BY <1>4, CursorOnTop
<1>5. ASSUME NEW s \in Ids, NEW z \in Levels, SetZOrder(s, z)  PROVE OrderInv'
  BY <1>5, SameLevel DEF SetZOrder, RendererSetZOrder
<1> QED BY <1>1, <1>2, <1>3, <1>4, <1>5 DEF OrderStep

--------------------------------------------------------------------------------
(* The announcements of the simple shell. *)

\* What the client of shell o knows of s: nothing of a surface to come; of one that
\* lives, that it is there, unless that is still to be announced.
KnownRight(o, s) ==
  /\ New(s) => told[o][s] = "unknown"
  /\ s \in ids => IF s \in ToSet(pending) THEN told[o][s] \in {"unknown", "listed"}
                  ELSE told[o][s] \in {"listed", "created"}

ShellInv == /\ ShellTypeOK
            /\ Once(pending)
            /\ pending # << >> => timer
            /\ \A s \in ToSet(pending) : s \in ids \cup past
            /\ \A o \in bound, s \in Ids : KnownRight(o, s)

LEMMA ShellTypes ==
  ASSUME ShellInv
  PROVE  /\ bound \subseteq Shells /\ ids \subseteq Ids /\ past \subseteq Ids
         /\ ids \cap past = {} /\ pending \in Seq(Ids) /\ timer \in BOOLEAN
         /\ told \in [Shells -> [Ids -> News]]
  BY DEF ShellInv, ShellTypeOK

\* The announcement of some surfaces, client by client and surface by surface.
LEMMA CreationKnown ==
  ASSUME NEW known \in [Shells -> [Ids -> News]], NEW created
  PROVE  LET new == BroadcastCreation(known, created)
         IN  /\ new \in [Shells -> [Ids -> News]]
             /\ \A o \in Shells \cap bound, s \in Ids :
                  new[o][s] = IF s \notin created THEN known[o][s]
                              ELSE IF known[o][s] \in {"unknown", "listed"} THEN "created"
                              ELSE "confused"
<1> DEFINE row(o) == [s \in Ids |->
                        IF s \notin created THEN known[o][s]
                        ELSE IF known[o][s] \in {"unknown", "listed"} THEN "created"
                        ELSE "confused"]
<1>1. BroadcastCreation(known, created) = [o \in Shells |-> IF o \in bound THEN row(o) ELSE known[o]]
  BY DEF BroadcastCreation
<1>2. \A o \in Shells : row(o) \in [Ids -> News]
  <2> TAKE o \in Shells
  <2>1. \A s \in Ids : known[o][s] \in News
    OBVIOUS
  <2> QED BY <2>1 DEF News
<1>3. \A o \in Shells : \A s \in Ids :
        row(o)[s] = IF s \notin created THEN known[o][s]
                    ELSE IF known[o][s] \in {"unknown", "listed"} THEN "created"
                    ELSE "confused"
  OBVIOUS
<1> HIDE DEF row
<1> QED BY <1>1, <1>2, <1>3

LEMMA StatusKnown ==
  ASSUME NEW known \in [Shells -> [Ids -> News]], NEW s \in Ids, NEW asker
  PROVE  LET new == BroadcastStatus(known, s, asker)
         IN  /\ new \in [Shells -> [Ids -> News]]
             /\ \A o \in Shells, t \in Ids : t # s \/ s \notin past => new[o][t] = known[o][t]
<1> DEFINE row(o) == [known[o] EXCEPT ![s] = "confused"]
<1>1. BroadcastStatus(known, s, asker) =
        [o \in Shells |-> IF o \in bound /\ o # asker /\ s \in past THEN row(o) ELSE known[o]]
  BY DEF BroadcastStatus
<1>2. \A o \in Shells : /\ row(o) \in [Ids -> News]
                        /\ \A t \in Ids : t # s => row(o)[t] = known[o][t]
  BY DEF News
<1> HIDE DEF row
<1> QED BY <1>1, <1>2

LEMMA ShellInitInv == ShellInit => ShellInv
<1> SUFFICES ASSUME ShellInit  PROVE ShellInv
  OBVIOUS
<1>1. ShellTypeOK
  <2>1. [s \in Ids |-> "unknown"] \in [Ids -> News]
    BY DEF News
  <2>2. << >> \in Seq(Ids)
    BY EmptySeq
  <2> QED BY <2>1, <2>2 DEF ShellInit, ShellTypeOK
<1>2. Once(pending) /\ \A s : s \notin ToSet(pending)
  <2>1. pending = << >>
    BY DEF ShellInit
  <2> QED BY <2>1 DEF Once, ToSet
<1> QED BY <1>1, <1>2 DEF ShellInit, ShellInv

LEMMA BindInv ==
  ASSUME ShellInv, NEW o \in Shells, Bind(o)
  PROVE  ShellInv'
<1> DEFINE row == [s \in Ids |-> IF New(s) THEN "unknown" ELSE IF s \in ids THEN "listed"
                                 ELSE "destroyed"]
<1>1. /\ bound' = bound \cup {o} /\ told' = [told EXCEPT ![o] = row] /\ o \notin bound
      /\ UNCHANGED <<ids, past, pending, timer>>
  BY DEF Bind
<1>2. /\ row \in [Ids -> News]
      /\ \A s \in Ids : /\ New(s) => row[s] = "unknown"
                        /\ s \in ids => row[s] = "listed"
  BY DEF News, New
<1> HIDE DEF row
<1>3. ShellTypeOK'
  BY <1>1, <1>2, ShellTypes DEF ShellTypeOK
<1>4. \A q \in bound', s \in Ids : KnownRight(q, s)'
  <2> SUFFICES ASSUME NEW q \in bound', NEW s \in Ids  PROVE KnownRight(q, s)'
    OBVIOUS
  <2>1. New(s)' = New(s) /\ (s \in ToSet(pending))' = (s \in ToSet(pending))
    BY <1>1 DEF New, ToSet
  <2>2. CASE q = o
    <3>1. told'[q] = row
      BY <2>2, <1>1, ShellTypes
    <3> QED BY <3>1, <2>1, <1>1, <1>2 DEF KnownRight
  <2>3. CASE q # o
    <3>1. told'[q] = told[q] /\ q \in bound
      BY <2>3, <1>1, ShellTypes
    <3> QED BY <3>1, <2>1, <1>1 DEF KnownRight, ShellInv
  <2> QED BY <2>2, <2>3
<1>5. (Once(pending) /\ (pending # << >> => timer) /\ \A s \in ToSet(pending) : s \in ids \cup past)'
  BY <1>1 DEF ShellInv, Once, ToSet
<1> QED BY <1>3, <1>4, <1>5 DEF ShellInv

LEMMA UnbindInv ==
  ASSUME ShellInv, NEW o \in Shells, Unbind(o)
  PROVE  ShellInv'
<1>1. /\ bound' = bound \ {o} /\ told' = [told EXCEPT ![o] = [s \in Ids |-> "unknown"]]
      /\ UNCHANGED <<ids, past, pending, timer>>
  BY DEF Unbind
<1>2. ShellTypeOK'
  <2>1. [s \in Ids |-> "unknown"] \in [Ids -> News]
    BY DEF News
  <2> QED BY <1>1, <2>1, ShellTypes DEF ShellTypeOK
<1>3. \A q \in bound' : q \in bound /\ told'[q] = told[q]
  BY <1>1, ShellTypes
<1>4. \A q \in bound', s \in Ids : KnownRight(q, s)'
  <2> SUFFICES ASSUME NEW q \in bound', NEW s \in Ids  PROVE KnownRight(q, s)'
    OBVIOUS
  <2>1. New(s)' = New(s) /\ (s \in ToSet(pending))' = (s \in ToSet(pending))
    BY <1>1 DEF New, ToSet
  <2>2. told'[q] = told[q] /\ KnownRight(q, s) /\ ids' = ids
    BY <1>1, <1>3 DEF ShellInv
  <2> QED BY <2>1, <2>2 DEF KnownRight
<1>5. (Once(pending) /\ (pending # << >> => timer) /\ \A s \in ToSet(pending) : s \in ids \cup past)'
  BY <1>1 DEF ShellInv, Once, ToSet
<1> QED BY <1>2, <1>4, <1>5 DEF ShellInv

\* The announcement of a new surface, at once or later.
LEMMA SurfaceCreatedInv ==
  ASSUME ShellInv, NEW s \in Ids, NEW o \in Shells, SurfaceCreated(s, o)
  PROVE  ShellInv'
<1>1. /\ s \notin ids /\ s \notin past /\ ids' = ids \cup {s}
      /\ UNCHANGED <<bound, past>>
      /\ IF o \in bound
         THEN /\ pending' = Append(pending, s) /\ timer' = (timer \/ pending = << >>)
              /\ told' = told
         ELSE told' = BroadcastCreation(told, {s}) /\ UNCHANGED <<pending, timer>>
  BY DEF SurfaceCreated, New
<1>2. s \notin ToSet(pending)
  BY <1>1 DEF ShellInv
<1>3. /\ told' \in [Shells -> [Ids -> News]]
      /\ \A q \in bound, t \in Ids :
           told'[q][t] = IF o \in bound \/ t # s THEN told[q][t]
                         ELSE IF told[q][t] \in {"unknown", "listed"} THEN "created"
                         ELSE "confused"
  <2>1. CASE o \in bound
    BY <2>1, <1>1, ShellTypes
  <2>2. CASE o \notin bound
    <3>1. PICK new : new = BroadcastCreation(told, {s})
      OBVIOUS
    <3>2. /\ new \in [Shells -> [Ids -> News]]
          /\ \A q \in Shells \cap bound, t \in Ids :
               new[q][t] = IF t \notin {s} THEN told[q][t]
                           ELSE IF told[q][t] \in {"unknown", "listed"} THEN "created"
                           ELSE "confused"
      BY <3>1, CreationKnown, ShellTypes
    <3>3. told' = new
      BY <2>2, <3>1, <1>1
    <3> QED BY <2>2, <3>2, <3>3, ShellTypes
  <2> QED BY <2>1, <2>2
<1>4. /\ pending' \in Seq(Ids) /\ Once(pending')
      /\ \A t : t \in ToSet(pending') <=> t \in ToSet(pending) \/ (o \in bound /\ t = s)
  <2>1. CASE o \in bound
    <3>1. /\ Append(pending, s) \in Seq(Ids)
          /\ Len(Append(pending, s)) = Len(pending) + 1
          /\ \A i \in 1..Len(pending) : Append(pending, s)[i] = pending[i]
          /\ Append(pending, s)[Len(pending) + 1] = s
      BY AppendProperties, ShellTypes
    <3>2. PICK q : q = Append(pending, s)
      OBVIOUS
    <3>3. /\ Len(pending) \in Nat
          /\ \A t : t \in ToSet(pending) <=> \E i \in 1..Len(pending) : pending[i] = t
      BY ListFacts, ShellTypes
    <3>4. \A t : t \in ToSet(q) <=> \E i \in 1..(Len(pending) + 1) : q[i] = t
      <4>1. \A t : t \in ToSet(q) <=> \E i \in 1..Len(q) : q[i] = t
        <5>1. q \in Seq(Ids)
          BY <3>1, <3>2
        <5> QED BY <5>1, ListFacts
      <4> QED BY <4>1, <3>1, <3>2
    <3>5. \A i \in 1..(Len(pending) + 1) : i \in 1..Len(pending) \/ i = Len(pending) + 1
      BY <3>3
    <3>6. \A i \in 1..Len(pending) : i \in 1..(Len(pending) + 1)
      BY <3>3
    <3>7. \A t : t \in ToSet(q) <=> t \in ToSet(pending) \/ t = s
      <4> TAKE t
      <4>1. ASSUME t \in ToSet(q)  PROVE t \in ToSet(pending) \/ t = s
        BY <4>1, <3>1, <3>2, <3>3, <3>4, <3>5
      <4>2. ASSUME t \in ToSet(pending)  PROVE t \in ToSet(q)
        BY <4>2, <3>1, <3>2, <3>3, <3>4, <3>6
      <4>3. s \in ToSet(q)
        <5>1. Len(pending) + 1 \in 1..(Len(pending) + 1)
          BY <3>3
        <5> QED BY <5>1, <3>1, <3>2, <3>4
      <4> QED BY <4>1, <4>2, <4>3
    <3>8. Once(q)
      <4> SUFFICES ASSUME NEW i \in 1..(Len(pending) + 1), NEW j \in 1..(Len(pending) + 1),
                          q[i] = q[j]
                   PROVE  i = j
        BY <3>1, <3>2 DEF Once
      <4>1. \A k \in 1..Len(pending) : q[k] = pending[k] /\ pending[k] # s
        BY <1>2, <3>1, <3>2, <3>3
      <4>2. q[Len(pending) + 1] = s
        BY <3>1, <3>2
      <4>3. \A k, l \in 1..Len(pending) : pending[k] = pending[l] => k = l
        BY DEF ShellInv, Once
      <4> QED BY <3>5, <4>1, <4>2, <4>3
    <3>9. pending' = q
      BY <2>1, <3>2, <1>1
    <3> QED BY <2>1, <3>1, <3>2, <3>7, <3>8, <3>9
  <2>2. CASE o \notin bound
    BY <2>2, <1>1, ShellTypes DEF ShellInv, Once, ToSet
  <2> QED BY <2>1, <2>2
<1>5. timer' \in BOOLEAN /\ (pending' # << >> => timer')
  <2>1. CASE o \in bound
    <3>1. timer \in BOOLEAN /\ (pending # << >> => timer)
      BY ShellTypes DEF ShellInv
    <3> QED BY <2>1, <3>1, <1>1
  <2>2. CASE o \notin bound
    BY <2>2, <1>1, ShellTypes DEF ShellInv
  <2> QED BY <2>1, <2>2
<1>6. ShellTypeOK'
  BY <1>1, <1>3, <1>4, <1>5, ShellTypes DEF ShellTypeOK
<1>7. \A t \in ToSet(pending)' : t \in ids' \cup past'
  <2>1. \A t \in ToSet(pending) : t \in ids \cup past
    BY DEF ShellInv
  <2>2. \A t : t \in ToSet(pending)' <=> t \in ToSet(pending')
    BY DEF ToSet
  <2> QED BY <2>1, <2>2, <1>1, <1>4
<1>8. \A q \in bound', t \in Ids : KnownRight(q, t)'
  <2> SUFFICES ASSUME NEW q \in bound, NEW t \in Ids  PROVE KnownRight(q, t)'
    BY <1>1
  <2>1. KnownRight(q, t)
    BY DEF ShellInv
  <2>2. (t \in ToSet(pending))' <=> t \in ToSet(pending) \/ (o \in bound /\ t = s)
    BY <1>4 DEF ToSet
  <2>3. New(t)' <=> New(t) /\ t # s
    BY <1>1 DEF New
  <2>4. t \in ids' <=> t \in ids \/ t = s
    BY <1>1
  <2>5. CASE t # s
    BY <2>1, <2>2, <2>3, <2>4, <2>5, <1>3 DEF KnownRight
  <2>6. CASE t = s
    <3>1. told[q][t] = "unknown"
      BY <2>1, <2>6, <1>1 DEF KnownRight, New
    <3>2. told'[q][t] = IF o \in bound THEN "unknown" ELSE "created"
      BY <3>1, <2>6, <1>3
    <3> QED BY <3>2, <2>2, <2>3, <2>6, <1>2 DEF KnownRight
  <2> QED BY <2>5, <2>6
<1> QED BY <1>4, <1>5, <1>6, <1>7, <1>8 DEF ShellInv, Once

LEMMA SurfaceDestroyedInv ==
  ASSUME ShellInv, NEW s \in Ids, SurfaceDestroyed(s)
  PROVE  ShellInv'
<1> DEFINE row(o) == [told[o] EXCEPT ![s] = "destroyed"]
<1>1. /\ s \in ids /\ ids' = ids \ {s} /\ past' = past \cup {s}
      /\ told' = [o \in Shells |-> IF o \in bound THEN row(o) ELSE told[o]]
      /\ UNCHANGED <<bound, pending, timer>>
  BY DEF SurfaceDestroyed
<1>2. \A o \in Shells : /\ row(o) \in [Ids -> News]
                        /\ \A t \in Ids : t # s => row(o)[t] = told[o][t]
  BY ShellTypes DEF News
<1> HIDE DEF row
<1>3. /\ told' \in [Shells -> [Ids -> News]]
      /\ \A q \in bound, t \in Ids : t # s => told'[q][t] = told[q][t]
  BY <1>1, <1>2, ShellTypes
<1>4. ShellTypeOK'
  BY <1>1, <1>3, ShellTypes DEF ShellTypeOK
<1>5. \A q \in bound', t \in Ids : KnownRight(q, t)'
  <2> SUFFICES ASSUME NEW q \in bound, NEW t \in Ids  PROVE KnownRight(q, t)'
    BY <1>1
  <2>1. KnownRight(q, t) /\ ((t \in ToSet(pending))' <=> t \in ToSet(pending))
    BY <1>1 DEF ShellInv, ToSet
  <2>2. New(t)' <=> New(t) /\ t # s
    BY <1>1 DEF New
  <2>3. t \in ids' <=> t \in ids /\ t # s
    BY <1>1
  <2> QED BY <2>1, <2>2, <2>3, <1>3 DEF KnownRight
<1>6. (Once(pending) /\ (pending # << >> => timer) /\ \A t \in ToSet(pending) : t \in ids \cup past)'
  BY <1>1 DEF ShellInv, Once, ToSet
<1> QED BY <1>4, <1>5, <1>6 DEF ShellInv

\* A request about a surface: who asks matters only for what is said of the dead.
LEMMA ChangedInv ==
  ASSUME ShellInv, NEW s \in Ids, NEW o \in Shells, Changed(s, o)
  PROVE  ShellInv'
<1>1. told' = BroadcastStatus(told, s, o) /\ UNCHANGED <<bound, ids, past, pending, timer>>
  BY DEF Changed
<1>2. /\ told' \in [Shells -> [Ids -> News]]
      /\ \A q \in Shells, t \in Ids : t # s \/ s \notin past => told'[q][t] = told[q][t]
  BY <1>1, StatusKnown, ShellTypes
<1>3. ShellTypeOK'
  BY <1>1, <1>2, ShellTypes DEF ShellTypeOK
<1>4. \A q \in bound', t \in Ids : KnownRight(q, t)'
  <2> SUFFICES ASSUME NEW q \in bound, NEW t \in Ids  PROVE KnownRight(q, t)'
    BY <1>1
  <2>1. KnownRight(q, t) /\ ((t \in ToSet(pending))' <=> t \in ToSet(pending))
    BY <1>1 DEF ShellInv, ToSet
  <2>2. New(t)' <=> New(t)
    BY <1>1 DEF New
  <2>3. t \in past => ~New(t) /\ t \notin ids
    BY ShellTypes DEF New
  <2>4. t \notin past => told'[q][t] = told[q][t]
    BY <1>2, ShellTypes
  <2> QED BY <2>1, <2>2, <2>3, <2>4, <1>1 DEF KnownRight, New
<1>5. (Once(pending) /\ (pending # << >> => timer) /\ \A t \in ToSet(pending) : t \in ids \cup past)'
  BY <1>1 DEF ShellInv, Once, ToSet
<1> QED BY <1>3, <1>4, <1>5 DEF ShellInv

\* What the clients know of the surfaces that live once those of made are announced.
AnnouncedAs(made, known) ==
  \A q \in bound, t \in Ids \ past :
    known[q][t] = IF t \notin made THEN told[q][t]
                  ELSE IF told[q][t] \in {"unknown", "listed"} THEN "created"
                  ELSE "confused"

\* Announcing a part of those that wait, and taking it off the list, is right for all.
LEMMA AnnouncedRight ==
  ASSUME ShellInv, NEW made \in SUBSET ToSet(pending), NEW rest,
         NEW known \in [Shells -> [Ids -> News]],
         AnnouncedAs(made, known),
         rest \in Seq(Ids), Once(rest),
         \A t : t \in ToSet(rest) <=> t \in ToSet(pending) /\ t \notin made,
         told' = known, pending' = rest, timer' \in BOOLEAN, rest # << >> => timer',
         UNCHANGED <<bound, ids, past>>
  PROVE  ShellInv'
<1>1. ShellTypeOK'
  BY ShellTypes DEF ShellTypeOK
<1>2. \A q \in bound', t \in Ids : KnownRight(q, t)'
  <2> SUFFICES ASSUME NEW q \in bound, NEW t \in Ids  PROVE KnownRight(q, t)'
    OBVIOUS
  <2>1. KnownRight(q, t)
    BY DEF ShellInv
  <2>2. (t \in ToSet(pending))' <=> t \in ToSet(pending) /\ t \notin made
    BY DEF ToSet
  <2>3. New(t)' <=> New(t)
    BY DEF New
  <2>4. t \in past => ~New(t) /\ t \notin ids
    BY ShellTypes DEF New
  <2>5. New(t) => t \notin made
    BY DEF ShellInv, New
  <2>6. CASE t \in past
    BY <2>3, <2>4, <2>6 DEF KnownRight
  <2>7. CASE t \notin past /\ t \in made
    <3>1. t \in ids => told'[q][t] = "created"
      BY <2>1, <2>7 DEF KnownRight, AnnouncedAs
    <3> QED BY <3>1, <2>2, <2>3, <2>5, <2>7 DEF KnownRight
  <2>8. CASE t \notin past /\ t \notin made
    <3>1. told'[q][t] = told[q][t]
      BY <2>8 DEF AnnouncedAs
    <3> QED BY <3>1, <2>1, <2>2, <2>3, <2>8 DEF KnownRight
  <2> QED BY <2>6, <2>7, <2>8
<1>3. \A t \in ToSet(pending)' : t \in ids' \cup past'
  <2>1. \A t : t \in ToSet(pending)' <=> t \in ToSet(rest)
    BY DEF ToSet
  <2> QED BY <2>1 DEF ShellInv
<1>4. Once(pending)'
  BY DEF Once
<1> QED BY <1>1, <1>2, <1>3, <1>4 DEF ShellInv

LEMMA SetNameInv ==
  ASSUME ShellInv, NEW s \in Ids, NEW o \in Shells, SetName(s, o)
  PROVE  ShellInv'
<1> DEFINE made == {s} \cap ToSet(pending)
<1>1. /\ pending' = RemoveFirst(pending, s)
      /\ told' = BroadcastStatus(BroadcastCreation(told, made), s, o)
      /\ UNCHANGED <<bound, ids, past, timer>>
  BY DEF SetName
<1>2. made \in SUBSET ToSet(pending)
  OBVIOUS
<1>3. \A t : t \in made <=> t = s /\ t \in ToSet(pending)
  OBVIOUS
<1> HIDE DEF made
<1>4. PICK named : named = BroadcastCreation(told, made)
  OBVIOUS
<1>5. /\ named \in [Shells -> [Ids -> News]]
      /\ \A q \in Shells \cap bound, t \in Ids :
           named[q][t] = IF t \notin made THEN told[q][t]
                         ELSE IF told[q][t] \in {"unknown", "listed"} THEN "created"
                         ELSE "confused"
  BY <1>4, CreationKnown, ShellTypes
<1>6. PICK known : known = BroadcastStatus(named, s, o)
  OBVIOUS
<1>7. /\ known \in [Shells -> [Ids -> News]]
      /\ \A q \in Shells, t \in Ids : t # s \/ s \notin past => known[q][t] = named[q][t]
  BY <1>5, <1>6, StatusKnown
<1>8. told' = known
  BY <1>1, <1>4, <1>6
<1>9. AnnouncedAs(made, known)
  <2> SUFFICES ASSUME NEW q \in bound, NEW t \in Ids \ past
               PROVE  known[q][t] = IF t \notin made THEN told[q][t]
                                    ELSE IF told[q][t] \in {"unknown", "listed"} THEN "created"
                                    ELSE "confused"
    BY DEF AnnouncedAs
  <2>1. q \in Shells \cap bound
    BY ShellTypes
  <2>2. known[q][t] = named[q][t]
    BY <1>7, <2>1
  <2> QED BY <2>1, <2>2, <1>5
<1>10. PICK rest : rest = RemoveFirst(pending, s)
  OBVIOUS
<1>11. /\ rest \in Seq(Ids) /\ Once(rest)
       /\ \A t : t \in ToSet(rest) <=> t \in ToSet(pending) /\ t # s
  BY <1>10, TakenOut, ShellTypes DEF ShellInv
<1>12. \A t : t \in ToSet(rest) <=> t \in ToSet(pending) /\ t \notin made
  BY <1>3, <1>11
<1>13. rest # << >> => timer'
  <2>1. CASE pending = << >>
    <3>1. \A t : t \notin ToSet(rest)
      <4>1. \A t : t \notin ToSet(pending)
        BY <2>1 DEF ToSet
      <4> QED BY <4>1, <1>11
    <3>2. Len(rest) = 0
      <4>1. Len(rest) \in Nat /\ \A i \in 1..Len(rest) : rest[i] \in ToSet(rest)
        BY <1>11, ListFacts
      <4> QED BY <4>1, <3>1
    <3> QED BY <3>2, <1>11, EmptySeq
  <2>2. CASE pending # << >>
    BY <2>2, <1>1 DEF ShellInv
  <2> QED BY <2>1, <2>2
<1>14. timer' \in BOOLEAN /\ UNCHANGED <<bound, ids, past>> /\ pending' = rest
  BY <1>1, <1>10, ShellTypes
<1> QED BY <1>2, <1>7, <1>8, <1>9, <1>11, <1>12, <1>13, <1>14, AnnouncedRight

\* The first n of a list without repetitions, and the rest.
LEMMA CutAt ==
  ASSUME NEW S, NEW list \in Seq(S), Once(list), NEW n \in 0..Len(list)
  PROVE  LET first == SubSeq(list, 1, n)
             rest == SubSeq(list, n + 1, Len(list))
         IN  /\ rest \in Seq(S) /\ Once(rest) /\ Len(rest) = Len(list) - n
             /\ \A t : t \in ToSet(first) => t \in ToSet(list)
             /\ \A t : t \in ToSet(rest) <=> t \in ToSet(list) /\ t \notin ToSet(first)
<1> DEFINE l == Len(list)  first == SubSeq(list, 1, n)  rest == SubSeq(list, n + 1, l)
<1>1. /\ l \in Nat /\ n \in Int /\ \A i \in 1..l : list[i] \in S
      /\ \A t : t \in ToSet(list) <=> \E i \in 1..l : list[i] = t
  BY ListFacts
<1>2. /\ first \in Seq(S) /\ Len(first) = n /\ \A i \in 1..n : first[i] = list[i]
  <2>1. /\ first \in Seq(S) /\ Len(first) = IF 1 <= n THEN n - 1 + 1 ELSE 0
        /\ \A i \in 1..(n - 1 + 1) : first[i] = list[1 + i - 1]
    BY <1>1, SubSeqProperties
  <2> QED BY <1>1, <2>1
<1>3. /\ rest \in Seq(S) /\ Len(rest) = l - n /\ \A i \in 1..(l - n) : rest[i] = list[n + i]
  <2>1. /\ rest \in Seq(S) /\ Len(rest) = IF n + 1 <= l THEN l - (n + 1) + 1 ELSE 0
        /\ \A i \in 1..(l - (n + 1) + 1) : rest[i] = list[(n + 1) + i - 1]
    BY <1>1, SubSeqProperties
  <2> QED BY <1>1, <2>1
<1> HIDE DEF first, rest
<1>4. \A i, j \in 1..l : list[i] = list[j] => i = j
  BY DEF Once
<1> HIDE DEF l
<1>5. \A t : t \in ToSet(first) <=> \E i \in 1..n : first[i] = t
  <2>1. \A t : t \in ToSet(first) <=> \E i \in 1..Len(first) : first[i] = t
    BY <1>2, ListFacts
  <2> QED BY <2>1, <1>2
<1>6. \A t : t \in ToSet(rest) <=> \E i \in 1..(l - n) : rest[i] = t
  <2>1. \A t : t \in ToSet(rest) <=> \E i \in 1..Len(rest) : rest[i] = t
    BY <1>3, ListFacts
  <2> QED BY <2>1, <1>3
<1>7. n \in 0..l
  BY DEF l
<1>8. \A i \in 1..n : i \in 1..l
  BY <1>1, <1>7
<1>9. \A i \in 1..(l - n) : n + i \in 1..l /\ n + i \notin 1..n
  BY <1>1, <1>7
<1>10. \A t : t \in ToSet(first) => t \in ToSet(list)
  BY <1>1, <1>2, <1>5, <1>8
<1>11. \A t : t \in ToSet(rest) <=> t \in ToSet(list) /\ t \notin ToSet(first)
  <2> TAKE t
  <2>1. ASSUME t \in ToSet(rest)  PROVE t \in ToSet(list) /\ t \notin ToSet(first)
    <3>1. PICK i \in 1..(l - n) : list[n + i] = t
      BY <2>1, <1>3, <1>6
    <3>2. n + i \in 1..l /\ n + i \notin 1..n
      BY <1>9
    <3>3. \A j \in 1..n : list[j] # t
      BY <3>1, <3>2, <1>4, <1>8
    <3> QED BY <3>1, <3>2, <3>3, <1>1, <1>2, <1>5
  <2>2. ASSUME t \in ToSet(list), t \notin ToSet(first)  PROVE t \in ToSet(rest)
    <3>1. PICK i \in 1..l : list[i] = t
      BY <2>2, <1>1
    <3>2. i \notin 1..n
      BY <3>1, <2>2, <1>2, <1>5
    <3>3. i - n \in 1..(l - n) /\ n + (i - n) = i
      BY <3>2, <1>1, <1>7
    <3>4. rest[i - n] = t
      BY <3>1, <3>3, <1>3
    <3> QED BY <3>3, <3>4, <1>6
  <2> QED BY <2>1, <2>2
<1>12. Once(rest)
  <2> SUFFICES ASSUME NEW i \in 1..(l - n), NEW j \in 1..(l - n), rest[i] = rest[j]  PROVE i = j
    BY <1>3 DEF Once
  <2>1. n + i \in 1..l /\ n + j \in 1..l /\ list[n + i] = list[n + j]
    BY <1>3, <1>9
  <2>2. n + i = n + j
    BY <2>1, <1>4
  <2> QED BY <2>2, <1>1
<1> QED BY <1>3, <1>10, <1>11, <1>12 DEF first, rest, l

LEMMA TimeOutInv ==
  ASSUME ShellInv, TimeOut
  PROVE  ShellInv'
<1>1. PICK n \in 0..Len(pending) :
        /\ n = 0 <=> pending = << >>
        /\ told' = BroadcastCreation(told, ToSet(SubSeq(pending, 1, n)))
        /\ pending' = SubSeq(pending, n + 1, Len(pending))
        /\ timer' = (n < Len(pending))
  BY DEF TimeOut
<1>2. UNCHANGED <<bound, ids, past>>
  BY DEF TimeOut
<1>3. PICK made : made = ToSet(SubSeq(pending, 1, n))
  OBVIOUS
<1>4. PICK rest : rest = SubSeq(pending, n + 1, Len(pending))
  OBVIOUS
<1>5. PICK known : known = BroadcastCreation(told, made)
  OBVIOUS
<1>6. /\ rest \in Seq(Ids) /\ Once(rest) /\ Len(rest) = Len(pending) - n
      /\ \A t : t \in made => t \in ToSet(pending)
      /\ \A t : t \in ToSet(rest) <=> t \in ToSet(pending) /\ t \notin made
  <2>1. pending \in Seq(Ids) /\ Once(pending) /\ n \in 0..Len(pending)
    BY ShellTypes DEF ShellInv
  <2> DEFINE first == SubSeq(pending, 1, n)  last == SubSeq(pending, n + 1, Len(pending))
  <2>2. /\ last \in Seq(Ids) /\ Once(last) /\ Len(last) = Len(pending) - n
        /\ \A t : t \in ToSet(first) => t \in ToSet(pending)
        /\ \A t : t \in ToSet(last) <=> t \in ToSet(pending) /\ t \notin ToSet(first)
    BY <2>1, CutAt
  <2>3. made = ToSet(first) /\ rest = last
    BY <1>3, <1>4
  <2> HIDE DEF first, last
  <2> QED BY <2>2, <2>3
<1>7. /\ known \in [Shells -> [Ids -> News]]
      /\ \A q \in Shells \cap bound, t \in Ids :
           known[q][t] = IF t \notin made THEN told[q][t]
                         ELSE IF told[q][t] \in {"unknown", "listed"} THEN "created"
                         ELSE "confused"
  BY <1>5, CreationKnown, ShellTypes
<1>8. AnnouncedAs(made, known)
  <2>1. \A q \in bound : q \in Shells \cap bound
    BY ShellTypes
  <2> QED BY <2>1, <1>7 DEF AnnouncedAs
<1>9. timer' \in BOOLEAN /\ (rest # << >> => timer')
  <2>1. PICK l : l = Len(pending) /\ l \in Nat
    BY LenProperties, ShellTypes
  <2>2. PICK m : m = Len(rest) /\ (rest # << >> => m \in Nat \ {0})
    BY <1>6, EmptySeq
  <2>3. m = l - n /\ n \in Int
    BY <1>6, <2>1, <2>2
  <2>4. timer' = (n < l)
    BY <1>1, <2>1
  <2>5. rest # << >> => n < l
    BY <2>1, <2>2, <2>3
  <2>6. (n < l) \in BOOLEAN
    OBVIOUS
  <2> QED BY <2>4, <2>5, <2>6, Zenon
<1>10. told' = known /\ pending' = rest /\ made \in SUBSET ToSet(pending)
  BY <1>1, <1>3, <1>4, <1>5, <1>6
<1> QED BY <1>2, <1>6, <1>7, <1>8, <1>9, <1>10, AnnouncedRight

\* What the steps of a scene do to the announcements.
ShellStep == \/ \E s \in Ids : \/ SurfaceDestroyed(s)
                               \/ \E o \in Shells : \/ SurfaceCreated(s, o)
                                                    \/ SetName(s, o) \/ Changed(s, o)
             \/ \E o \in Shells : Bind(o) \/ Unbind(o)
             \/ TimeOut

LEMMA ShellStepInv ==
  ASSUME ShellInv, ShellStep \/ UNCHANGED shellVars
  PROVE  ShellInv'
<1>1. CASE UNCHANGED shellVars
  <2>1. UNCHANGED <<bound, ids, past, pending, timer, told>>
    BY <1>1 DEF shellVars
  <2>2. ShellTypeOK' /\ Once(pending)' /\ (pending # << >> => timer)'
    BY <2>1 DEF ShellInv, ShellTypeOK, Once
  <2>3. (\A s \in ToSet(pending) : s \in ids \cup past)'
    BY <2>1 DEF ShellInv, ToSet
  <2>4. (\A o \in bound, s \in Ids : KnownRight(o, s))'
    BY <2>1 DEF ShellInv, KnownRight, New, ToSet
  <2> QED BY <2>2, <2>3, <2>4 DEF ShellInv
<1>2. CASE ShellStep
  BY <1>2, SurfaceDestroyedInv, SurfaceCreatedInv, SetNameInv, ChangedInv, BindInv,
       UnbindInv, TimeOutInv DEF ShellStep
<1> QED BY <1>1, <1>2

--------------------------------------------------------------------------------
(* The path of the video. *)

PathInv == VideoTypeOK /\ PathHandshake

\* The conditions on one surface with video.
HandshakeAt(v, shown, changed) ==
  v.there => /\ v.toldHW = (IF v.pathTransitionPending THEN v.useHWPathNext ELSE v.useHWPath)
             /\ v.pathTransitionPending => v.useHWPathNext # v.useHWPath
             /\ ~changed => shown = ~v.useHWPath

VpcType == [there : BOOLEAN, useHWPath : BOOLEAN, useHWPathNext : BOOLEAN,
            pathTransitionPending : BOOLEAN, toldHW : BOOLEAN]

LEMMA PathInvByParts ==
  PathInv <=> /\ vpc \in [VideoIds -> VpcType]
              /\ visible \in [VideoIds -> BOOLEAN] /\ overridden \in [VideoIds -> BOOLEAN]
              /\ \A s \in VideoIds : HandshakeAt(vpc[s], visible[s], overridden[s])
  BY DEF PathInv, VideoTypeOK, PathHandshake, HandshakeAt, VpcType

\* A step that changes one surface with video and keeps its conditions.
LEMMA OneChanges ==
  ASSUME PathInv, NEW s \in VideoIds, NEW v \in VpcType, NEW shown \in BOOLEAN,
         NEW changed \in BOOLEAN, HandshakeAt(v, shown, changed),
         vpc' = [vpc EXCEPT ![s] = v], visible' = [visible EXCEPT ![s] = shown],
         overridden' = [overridden EXCEPT ![s] = changed]
  PROVE  PathInv'
<1>1. /\ vpc \in [VideoIds -> VpcType]
      /\ visible \in [VideoIds -> BOOLEAN] /\ overridden \in [VideoIds -> BOOLEAN]
      /\ \A q \in VideoIds : HandshakeAt(vpc[q], visible[q], overridden[q])
  BY PathInvByParts
<1>2. /\ vpc' \in [VideoIds -> VpcType]
      /\ visible' \in [VideoIds -> BOOLEAN] /\ overridden' \in [VideoIds -> BOOLEAN]
  BY <1>1
<1>3. \A q \in VideoIds : HandshakeAt(vpc'[q], visible'[q], overridden'[q])
  <2> TAKE q \in VideoIds
  <2>1. CASE q = s
    <3>1. vpc'[q] = v /\ visible'[q] = shown /\ overridden'[q] = changed
      BY <2>1, <1>1
    <3> QED BY <3>1
  <2>2. CASE q # s
    <3>1. vpc'[q] = vpc[q] /\ visible'[q] = visible[q] /\ overridden'[q] = overridden[q]
      BY <2>2, <1>1
    <3> QED BY <3>1, <1>1
  <2> QED BY <2>1, <2>2
<1>4. PathInv' <=> /\ vpc' \in [VideoIds -> VpcType]
                   /\ visible' \in [VideoIds -> BOOLEAN] /\ overridden' \in [VideoIds -> BOOLEAN]
                   /\ \A q \in VideoIds : HandshakeAt(vpc'[q], visible'[q], overridden'[q])
  BY DEF PathInv, VideoTypeOK, PathHandshake, HandshakeAt, VpcType
<1> QED BY <1>2, <1>3, <1>4

LEMMA OneVideoStep ==
  ASSUME PathInv, NEW s \in VideoIds,
         \/ GetVpcSurface(s) \/ DestroyVpcSurface(s) \/ VideoSurfaceGone(s)
         \/ \E b \in BOOLEAN : CommitVideo(s, b) \/ SetVideoVisible(s, b)
  PROVE  PathInv'
<1>1. /\ vpc \in [VideoIds -> VpcType] /\ vpc[s] \in VpcType
      /\ visible \in [VideoIds -> BOOLEAN] /\ overridden \in [VideoIds -> BOOLEAN]
      /\ visible[s] \in BOOLEAN /\ overridden[s] \in BOOLEAN
      /\ HandshakeAt(vpc[s], visible[s], overridden[s])
  BY PathInvByParts
<1>2. /\ NoVpc \in VpcType /\ NewVpc \in VpcType
      /\ \A shown, changed \in BOOLEAN : HandshakeAt(NoVpc, shown, changed)
      /\ HandshakeAt(NewVpc, FALSE, FALSE)
  BY DEF NoVpc, NewVpc, VpcType, HandshakeAt
<1>3. /\ visible = [visible EXCEPT ![s] = visible[s]]
      /\ overridden = [overridden EXCEPT ![s] = overridden[s]]
      /\ vpc = [vpc EXCEPT ![s] = vpc[s]]
  BY <1>1
<1>4. CASE GetVpcSurface(s)
  BY <1>2, <1>4, OneChanges DEF GetVpcSurface
<1>5. CASE DestroyVpcSurface(s)
  <2>1. /\ vpc' = [vpc EXCEPT ![s] = NoVpc]
        /\ visible' = [visible EXCEPT ![s] = visible[s]]
        /\ overridden' = [overridden EXCEPT ![s] = overridden[s]]
    BY <1>3, <1>5 DEF DestroyVpcSurface
  <2>2. HandshakeAt(NoVpc, visible[s], overridden[s])
    BY <1>1, <1>2
  <2> QED BY <1>1, <1>2, <2>1, <2>2, OneChanges
<1>6. CASE VideoSurfaceGone(s)
  BY <1>2, <1>6, OneChanges DEF VideoSurfaceGone
<1>7. ASSUME NEW b \in BOOLEAN, CommitVideo(s, b)  PROVE PathInv'
  <2>1. CASE vpc[s].pathTransitionPending /\ b # vpc[s].useHWPathNext
    <3>1. PICK next : next = vpc[s].useHWPathNext /\ next \in BOOLEAN
      BY <1>1 DEF VpcType
    <3>2. PICK v : v = [vpc[s] EXCEPT !.useHWPath = next, !.pathTransitionPending = FALSE]
      OBVIOUS
    <3>3. /\ vpc' = [vpc EXCEPT ![s].useHWPath = next, ![s].pathTransitionPending = FALSE]
          /\ visible' = [visible EXCEPT ![s] = ~next]
          /\ overridden' = [overridden EXCEPT ![s] = FALSE]
      BY <1>7, <2>1, <3>1 DEF CommitVideo
    <3>4. [vpc EXCEPT ![s].useHWPath = next, ![s].pathTransitionPending = FALSE]
            = [vpc EXCEPT ![s] = v]
      BY <1>1, <3>2
    <3>5. /\ v \in VpcType /\ v.there = vpc[s].there /\ v.toldHW = vpc[s].toldHW
          /\ v.useHWPath = next /\ v.useHWPathNext = next /\ v.pathTransitionPending = FALSE
      BY <1>1, <3>1, <3>2 DEF VpcType
    <3>6. HandshakeAt(v, ~next, FALSE)
      BY <1>1, <2>1, <3>1, <3>5 DEF HandshakeAt
    <3>7. (~next) \in BOOLEAN
      OBVIOUS
    <3> QED BY <3>3, <3>4, <3>5, <3>6, <3>7, OneChanges
  <2>2. CASE ~(vpc[s].pathTransitionPending /\ b # vpc[s].useHWPathNext)
    <3>1. UNCHANGED <<vpc, visible, overridden>>
      BY <1>7, <2>2 DEF CommitVideo, videoVars
    <3> QED BY <3>1 DEF PathInv, VideoTypeOK, PathHandshake
  <2> QED BY <2>1, <2>2
<1>8. ASSUME NEW b \in BOOLEAN, SetVideoVisible(s, b)  PROVE PathInv'
  <2>1. /\ vpc' = [vpc EXCEPT ![s] = vpc[s]]
        /\ visible' = [visible EXCEPT ![s] = b]
        /\ overridden' = [overridden EXCEPT ![s] = TRUE]
    BY <1>3, <1>8 DEF SetVideoVisible
  <2>2. HandshakeAt(vpc[s], b, TRUE)
    BY <1>1 DEF HandshakeAt
  <2> QED BY <1>1, <2>1, <2>2, OneChanges
<1> QED BY <1>4, <1>5, <1>6, <1>7, <1>8

\* Composing a frame asks all that are on the other path.
LEMMA FrameStep ==
  ASSUME PathInv, NEW u \in BOOLEAN, UpdateVideoPath(u)
  PROVE  PathInv'
<1> DEFINE asked(s) == [vpc[s] EXCEPT !.useHWPathNext = u, !.pathTransitionPending = TRUE,
                                      !.toldHW = u]
           new(s) == IF vpc[s].there /\ vpc[s].useHWPath # u THEN asked(s) ELSE vpc[s]
<1>1. /\ vpc \in [VideoIds -> VpcType]
      /\ visible \in [VideoIds -> BOOLEAN] /\ overridden \in [VideoIds -> BOOLEAN]
      /\ \A s \in VideoIds : HandshakeAt(vpc[s], visible[s], overridden[s])
  BY PathInvByParts
<1>2. vpc' = [s \in VideoIds |-> new(s)] /\ visible' = visible /\ overridden' = overridden
  BY DEF UpdateVideoPath
<1>3. ASSUME NEW r \in VpcType,
             NEW v, v = [r EXCEPT !.useHWPathNext = u, !.pathTransitionPending = TRUE,
                                  !.toldHW = u]
      PROVE  /\ v \in VpcType /\ v.there = r.there /\ v.useHWPath = r.useHWPath
             /\ v.useHWPathNext = u /\ v.pathTransitionPending = TRUE /\ v.toldHW = u
  BY <1>3 DEF VpcType
<1>4. \A s \in VideoIds : new(s) \in VpcType /\ HandshakeAt(new(s), visible[s], overridden[s])
  <2> TAKE s \in VideoIds
  <2>1. vpc[s] \in VpcType /\ HandshakeAt(vpc[s], visible[s], overridden[s])
    BY <1>1
  <2>2. CASE vpc[s].there /\ vpc[s].useHWPath # u
    <3>1. PICK v : v = asked(s)
      OBVIOUS
    <3>2. new(s) = v
      BY <2>2, <3>1
    <3>3. /\ v \in VpcType /\ v.there = vpc[s].there /\ v.useHWPath = vpc[s].useHWPath
          /\ v.useHWPathNext = u /\ v.pathTransitionPending = TRUE /\ v.toldHW = u
      BY <1>3, <2>1, <3>1
    <3>4. HandshakeAt(v, visible[s], overridden[s])
      BY <2>1, <2>2, <3>3 DEF HandshakeAt
    <3> HIDE DEF new
    <3> QED BY <3>2, <3>3, <3>4
  <2>3. CASE ~(vpc[s].there /\ vpc[s].useHWPath # u)
    BY <2>1, <2>3
  <2> QED BY <2>2, <2>3
<1> HIDE DEF new
<1>5. /\ vpc' \in [VideoIds -> VpcType]
      /\ \A s \in VideoIds : HandshakeAt(vpc'[s], visible'[s], overridden'[s])
  BY <1>2, <1>4
<1>6. PathInv' <=> /\ vpc' \in [VideoIds -> VpcType]
                   /\ visible' \in [VideoIds -> BOOLEAN] /\ overridden' \in [VideoIds -> BOOLEAN]
                   /\ \A q \in VideoIds : HandshakeAt(vpc'[q], visible'[q], overridden'[q])
  BY DEF PathInv, VideoTypeOK, PathHandshake, HandshakeAt, VpcType
<1> QED BY <1>1, <1>2, <1>5, <1>6

LEMMA PathInitInv == VideoInit => PathInv
<1> SUFFICES ASSUME VideoInit  PROVE PathInv
  OBVIOUS
<1>1. NoVpc \in VpcType /\ HandshakeAt(NoVpc, TRUE, FALSE)
  BY DEF NoVpc, VpcType, HandshakeAt
<1>2. /\ vpc \in [VideoIds -> VpcType]
      /\ visible \in [VideoIds -> BOOLEAN] /\ overridden \in [VideoIds -> BOOLEAN]
      /\ \A s \in VideoIds : HandshakeAt(vpc[s], visible[s], overridden[s])
  BY <1>1 DEF VideoInit
<1> QED BY <1>2, PathInvByParts

\* What the steps of a scene do to the video.
VideoStep ==
  \/ \E s \in VideoIds : \/ GetVpcSurface(s) \/ DestroyVpcSurface(s) \/ VideoSurfaceGone(s)
                         \/ \E b \in BOOLEAN : CommitVideo(s, b) \/ SetVideoVisible(s, b)
  \/ \E u \in BOOLEAN : UpdateVideoPath(u)

LEMMA VideoStepInv ==
  ASSUME PathInv, VideoStep \/ UNCHANGED videoVars
  PROVE  PathInv'
<1>1. CASE UNCHANGED videoVars
  BY <1>1 DEF videoVars, PathInv, VideoTypeOK, PathHandshake
<1>2. CASE VideoStep
  BY <1>2, OneVideoStep, FrameStep DEF VideoStep
<1> QED BY <1>1, <1>2

--------------------------------------------------------------------------------
(* The scene. *)

SceneInv == OrderInv /\ ShellInv /\ PathInv

\* Every step of a scene is, for each part, one of that part's steps or none.
LEMMA StepOfParts ==
  ASSUME Next
  PROVE  /\ OrderStep \/ UNCHANGED orderVars
         /\ ShellStep \/ UNCHANGED shellVars
         /\ VideoStep \/ UNCHANGED videoVars
<1>1. ASSUME NEW s \in Ids, DestroySurface(s)  PROVE OrderStep /\ ShellStep /\ (VideoStep \/ UNCHANGED videoVars)
  BY <1>1 DEF DestroySurface, OrderStep, ShellStep, VideoStep
<1>2. ASSUME NEW s \in Ids, SetCursor(s)
      PROVE  OrderStep /\ UNCHANGED shellVars /\ UNCHANGED videoVars
  BY <1>2 DEF SetCursor, OrderStep
<1>3. ASSUME NEW s \in Ids, NEW o \in Shells, CreateSurface(s, o)
      PROVE  OrderStep /\ ShellStep /\ UNCHANGED videoVars
  BY <1>3 DEF CreateSurface, OrderStep, ShellStep
<1>4. ASSUME NEW s \in Ids, NEW o \in Shells,
             SetNameRequest(s, o) \/ SetGeometryRequest(s, o) \/ SetOpacityRequest(s, o)
      PROVE  UNCHANGED orderVars /\ ShellStep /\ UNCHANGED videoVars
  BY <1>4 DEF SetNameRequest, SetGeometryRequest, SetOpacityRequest, ShellStep
<1>5. ASSUME NEW s \in Ids, NEW o \in Shells, SetVisibleRequest(s, o)
      PROVE  UNCHANGED orderVars /\ ShellStep /\ (VideoStep \/ UNCHANGED videoVars)
  BY <1>5 DEF SetVisibleRequest, ShellStep, VideoStep
<1>6. ASSUME NEW s \in Ids, NEW o \in Shells, SetZOrderRequest(s, o)
      PROVE  (OrderStep \/ UNCHANGED orderVars) /\ ShellStep /\ UNCHANGED videoVars
  BY <1>6 DEF SetZOrderRequest, OrderStep, ShellStep
<1>7. ASSUME NEW s \in VideoIds, GetVpc(s) \/ DestroyVpc(s) \/ Commit(s)
      PROVE  UNCHANGED orderVars /\ UNCHANGED shellVars /\ VideoStep
  BY <1>7 DEF GetVpc, DestroyVpc, Commit, VideoStep
<1>8. ASSUME NEW o \in Shells, BindShell(o) \/ UnbindShell(o)
      PROVE  UNCHANGED orderVars /\ ShellStep /\ UNCHANGED videoVars
  BY <1>8 DEF BindShell, UnbindShell, ShellStep
<1>9. ASSUME Compose  PROVE UNCHANGED orderVars /\ UNCHANGED shellVars /\ VideoStep
  BY <1>9 DEF Compose, VideoStep
<1>10. ASSUME ShellTimeOut  PROVE UNCHANGED orderVars /\ ShellStep /\ UNCHANGED videoVars
  BY <1>10 DEF ShellTimeOut, ShellStep
<1> QED BY <1>1, <1>2, <1>3, <1>4, <1>5, <1>6, <1>7, <1>8, <1>9, <1>10 DEF Next

\* The inductive invariant holds of every behaviour.
THEOREM InvariantHolds == Spec => []SceneInv
<1>1. Init => SceneInv
  BY OrderInitInv, ShellInitInv, PathInitInv DEF Init, SceneInv
<1>2. SceneInv /\ [Next]_vars => SceneInv'
  <2> SUFFICES ASSUME SceneInv, [Next]_vars  PROVE SceneInv'
    OBVIOUS
  <2>1. /\ OrderStep \/ UNCHANGED orderVars
        /\ ShellStep \/ UNCHANGED shellVars
        /\ VideoStep \/ UNCHANGED videoVars
    BY StepOfParts DEF vars
  <2> QED BY <2>1, OrderStepInv, ShellStepInv, VideoStepInv DEF SceneInv
<1> QED BY <1>1, <1>2, PTL DEF Spec

\* Every variable of the three parts keeps its type.
THEOREM TypeCorrect == Spec => [](OrderTypeOK /\ ShellTypeOK /\ VideoTypeOK)
<1>1. SceneInv => OrderTypeOK /\ ShellTypeOK /\ VideoTypeOK
  BY DEF SceneInv, OrderInv, ShellInv, PathInv
<1> QED BY InvariantHolds, <1>1, PTL

\* Every client with a shell is told once of every surface that lives, now or when the
\* timer that serves the list of the pending announcements fires.
THEOREM EverySurfaceAnnounced == Spec => []Announced
<1>1. SceneInv => Announced
  <2> SUFFICES ASSUME ShellInv  PROVE Announced
    BY DEF SceneInv
  <2>1. \A o \in bound, s \in ids :
          /\ told[o][s] \notin {"confused", "destroyed"}
          /\ told[o][s] = "unknown" => s \in ToSet(pending)
    <3> TAKE o \in bound, s \in ids
    <3>1. KnownRight(o, s)
      BY ShellTypes DEF ShellInv
    <3> QED BY <3>1 DEF KnownRight
  <2> QED BY <2>1 DEF ShellInv, Announced
<1> QED BY InvariantHolds, <1>1, PTL

\* Whatever surfaces come, go, move and become cursors, the pointer is given the surface
\* that is seen on top.
THEOREM HitsWhatIsSeen == Spec => []HitOrderIsPaintOrder
<1>1. SceneInv => HitOrderIsPaintOrder
  BY DEF SceneInv, OrderInv
<1> QED BY InvariantHolds, <1>1, PTL

\* However often the embedder changes its mind between two commits, the client has been
\* told the path that it is on or is about to take.
THEOREM ClientKnowsItsPath == Spec => []PathHandshake
<1>1. SceneInv => PathHandshake
  BY DEF SceneInv, PathInv
<1> QED BY InvariantHolds, <1>1, PTL

--------------------------------------------------------------------------------
(* What a surface holds of its buffers. *)

Held == Pictures \cup {None, Blank, Freed}
ContentType ==
  [textureCount : Planes, textureId : [Planes -> Held], eglImage : [Planes -> Pictures \cup {None}],
   fromPixmap : BOOLEAN, nativePixmap : BOOLEAN, mem : Held, memDirty : BOOLEAN,
   textures : Nat, images : Nat,
   kind : {"none", "mem", "egl", "sb", "mixed"}, last : Pictures \cup {None}]

TexturePlanes(c) == {i \in Planes : c.textureId[i] # None}
ImagePlanes(c) == {i \in Planes : c.eglImage[i] # None}

\* The handles name what there is.
CountsOK(c) ==
  /\ c \in ContentType
  /\ c.textures = Cardinality(TexturePlanes(c)) /\ c.images = Cardinality(ImagePlanes(c))

\* By the kind of the buffers, where the last picture is.
ContentOK(c) ==
  /\ c.kind \in {"none", "mem", "sb"} => c.textureCount = 1
  /\ c.kind = "none" => /\ \A i \in Planes : c.textureId[i] = None /\ c.eglImage[i] = None
                        /\ c.mem = None /\ ~c.memDirty /\ c.last = None
  /\ c.kind = "mem" => /\ \A i \in Planes : c.eglImage[i] = None
                       /\ c.mem \notin {None, Freed} => c.mem = c.last
                       /\ c.textureId[1] # None /\ ~c.memDirty => c.textureId[1] = c.last
  /\ c.kind \in {"egl", "sb"} =>
       /\ c.mem = None /\ ~c.memDirty
       /\ c.eglImage[1] # None => \A i \in 1 .. c.textureCount : c.eglImage[i] = c.last
       /\ c.textureId[1] # None => \A i \in 1 .. c.textureCount : c.textureId[i] = c.last
  /\ c.kind = "sb" /\ c.eglImage[1] # None => c.fromPixmap

\* Apart from its textures, or its images, or what a commit remembers, a surface stays.
SameTextures(c, e) == e.textureId = c.textureId /\ e.textures = c.textures
SameImages(c, e) == e.eglImage = c.eglImage /\ e.images = c.images
SamePixmap(c, e) == e.fromPixmap = c.fromPixmap /\ e.nativePixmap = c.nativePixmap
SameMemory(c, e) == e.mem = c.mem /\ e.memDirty = c.memDirty
SameHistory(c, e) == e.kind = c.kind /\ e.last = c.last

LEMMA PlanesFinite ==
  ASSUME NEW S \in SUBSET Planes
  PROVE  IsFiniteSet(S) /\ Cardinality(S) \in Nat
<1>1. IsFiniteSet(1 .. 2)
  <2>1. IsFiniteSet({1}) /\ IsFiniteSet({1} \cup {2})
    BY FS_Singleton, FS_AddElement, ZenonT(60)
  <2>2. 1 .. 2 = {1} \cup {2}
    OBVIOUS
  <2> QED BY <2>1, <2>2
<1>2. IsFiniteSet(S)
  BY <1>1, FS_Subset DEF Planes
<1> QED BY <1>2, FS_CardinalityType

LEMMA DroppedTextures ==
  ASSUME NEW c, CountsOK(c), NEW planes \in SUBSET Planes
  PROVE  LET e == DropTextures(c, planes) IN
         /\ CountsOK(e)
         /\ \A i \in Planes : e.textureId[i] = IF i \in planes THEN None ELSE c.textureId[i]
         /\ e.textureCount = c.textureCount
         /\ SameImages(c, e) /\ SamePixmap(c, e) /\ SameMemory(c, e) /\ SameHistory(c, e)
<1> DEFINE e == DropTextures(c, planes)
           gone == {i \in planes : c.textureId[i] # None}
           named == [i \in Planes |-> IF i \in planes THEN None ELSE c.textureId[i]]
           n == c.textures - Cardinality(gone)
<1>1. c \in ContentType /\ c.textures = Cardinality(TexturePlanes(c))
  BY DEF CountsOK
<1>2. e = [c EXCEPT !.textureId = named, !.textures = n]
  <2>1. named = [i \in Planes |-> IF i \in planes THEN None ELSE c.textureId[i]]
    OBVIOUS
  <2> QED BY <1>1 DEF DropTextures
<1>3. named \in [Planes -> Held]
  BY <1>1 DEF ContentType, Held
<1>4. n = Cardinality(TexturePlanes(c) \ gone) /\ n \in Nat
  <2>1. gone = TexturePlanes(c) \cap gone
    BY DEF TexturePlanes
  <2>2. TexturePlanes(c) \in SUBSET Planes
    BY DEF TexturePlanes
  <2>3. IsFiniteSet(TexturePlanes(c)) /\ Cardinality(TexturePlanes(c) \ gone) \in Nat
    BY <2>2, PlanesFinite
  <2>4. Cardinality(TexturePlanes(c) \ gone) = Cardinality(TexturePlanes(c)) - Cardinality(TexturePlanes(c) \cap gone)
    BY <2>3, FS_Difference
  <2> HIDE DEF gone
  <2> QED BY <1>1, <2>1, <2>3, <2>4
<1>5. e \in ContentType
  <2> HIDE DEF named, n
  <2> QED BY <1>1, <1>2, <1>3, <1>4 DEF ContentType
<1>6. /\ e.textureId = named /\ e.textures = n
      /\ e.textureCount = c.textureCount
      /\ SameImages(c, e) /\ SamePixmap(c, e) /\ SameMemory(c, e) /\ SameHistory(c, e)
  <2> HIDE DEF named, n
  <2> QED BY <1>1, <1>2 DEF ContentType, SameImages, SamePixmap, SameMemory, SameHistory
<1>7. TexturePlanes(e) = TexturePlanes(c) \ gone /\ ImagePlanes(e) = ImagePlanes(c)
  <2> HIDE DEF e
  <2> QED BY <1>6 DEF TexturePlanes, ImagePlanes, SameImages
<1>8. CountsOK(e)
  <2> HIDE DEF e
  <2> QED BY <1>4, <1>5, <1>6, <1>7 DEF CountsOK, SameImages
<1> HIDE DEF e
<1>9. /\ CountsOK(e)
      /\ \A i \in Planes : e.textureId[i] = IF i \in planes THEN None ELSE c.textureId[i]
      /\ e.textureCount = c.textureCount
      /\ SameImages(c, e) /\ SamePixmap(c, e) /\ SameMemory(c, e) /\ SameHistory(c, e)
  BY <1>6, <1>8
<1> QED BY <1>9 DEF e

LEMMA DroppedImages ==
  ASSUME NEW c, CountsOK(c), NEW planes \in SUBSET Planes
  PROVE  LET e == DropImages(c, planes) IN
         /\ CountsOK(e)
         /\ \A i \in Planes : e.eglImage[i] = IF i \in planes THEN None ELSE c.eglImage[i]
         /\ e.textureCount = c.textureCount
         /\ SameTextures(c, e) /\ SamePixmap(c, e) /\ SameMemory(c, e) /\ SameHistory(c, e)
<1> DEFINE e == DropImages(c, planes)
           gone == {i \in planes : c.eglImage[i] # None}
           imgs == [i \in Planes |-> IF i \in planes THEN None ELSE c.eglImage[i]]
           n == c.images - Cardinality(gone)
<1>1. c \in ContentType /\ c.images = Cardinality(ImagePlanes(c))
  BY DEF CountsOK
<1>2. e = [c EXCEPT !.eglImage = imgs, !.images = n]
  <2>1. imgs = [i \in Planes |-> IF i \in planes THEN None ELSE c.eglImage[i]]
    OBVIOUS
  <2> QED BY <1>1 DEF DropImages
<1>3. imgs \in [Planes -> Pictures \cup {None}]
  BY <1>1 DEF ContentType
<1>4. n = Cardinality(ImagePlanes(c) \ gone) /\ n \in Nat
  <2>1. gone = ImagePlanes(c) \cap gone
    BY DEF ImagePlanes
  <2>2. ImagePlanes(c) \in SUBSET Planes
    BY DEF ImagePlanes
  <2>3. IsFiniteSet(ImagePlanes(c)) /\ Cardinality(ImagePlanes(c) \ gone) \in Nat
    BY <2>2, PlanesFinite
  <2>4. Cardinality(ImagePlanes(c) \ gone) = Cardinality(ImagePlanes(c)) - Cardinality(ImagePlanes(c) \cap gone)
    BY <2>3, FS_Difference
  <2> HIDE DEF gone
  <2> QED BY <1>1, <2>1, <2>3, <2>4
<1>5. e \in ContentType
  <2> HIDE DEF imgs, n
  <2> QED BY <1>1, <1>2, <1>3, <1>4 DEF ContentType
<1>6. /\ e.eglImage = imgs /\ e.images = n
      /\ e.textureCount = c.textureCount
      /\ SameTextures(c, e) /\ SamePixmap(c, e) /\ SameMemory(c, e) /\ SameHistory(c, e)
  <2> HIDE DEF imgs, n
  <2> QED BY <1>1, <1>2 DEF ContentType, SameTextures, SamePixmap, SameMemory, SameHistory
<1>7. ImagePlanes(e) = ImagePlanes(c) \ gone /\ TexturePlanes(e) = TexturePlanes(c)
  <2> HIDE DEF e
  <2> QED BY <1>6 DEF ImagePlanes, TexturePlanes, SameTextures
<1>8. CountsOK(e)
  <2> HIDE DEF e
  <2> QED BY <1>4, <1>5, <1>6, <1>7 DEF CountsOK, SameTextures
<1> HIDE DEF e
<1>9. /\ CountsOK(e)
      /\ \A i \in Planes : e.eglImage[i] = IF i \in planes THEN None ELSE c.eglImage[i]
      /\ e.textureCount = c.textureCount
      /\ SameTextures(c, e) /\ SamePixmap(c, e) /\ SameMemory(c, e) /\ SameHistory(c, e)
  BY <1>6, <1>8
<1> QED BY <1>9 DEF e

\* New images for planes that have none, whose textures go.
LEMMA NewImages ==
  ASSUME NEW c, CountsOK(c), NEW planes \in SUBSET Planes, NEW p \in Pictures,
         \A i \in planes : c.eglImage[i] = None
  PROVE  LET e == WithImages(c, planes, p) IN
         /\ CountsOK(e)
         /\ \A i \in Planes : /\ e.textureId[i] = IF i \in planes THEN None ELSE c.textureId[i]
                              /\ e.eglImage[i] = IF i \in planes THEN p ELSE c.eglImage[i]
         /\ e.textureCount = c.textureCount
         /\ SamePixmap(c, e) /\ SameMemory(c, e) /\ SameHistory(c, e)
<1> DEFINE d == DropTextures(c, planes)  e == WithImages(c, planes, p)
           imgs == [i \in Planes |-> IF i \in planes THEN p ELSE d.eglImage[i]]
           n == d.images + Cardinality(planes)
<1>1. /\ CountsOK(d)
      /\ \A i \in Planes : d.textureId[i] = IF i \in planes THEN None ELSE c.textureId[i]
      /\ d.textureCount = c.textureCount
      /\ SameImages(c, d) /\ SamePixmap(c, d) /\ SameMemory(c, d) /\ SameHistory(c, d)
  BY DroppedTextures
<1>2. e = [d EXCEPT !.eglImage = imgs, !.images = n]
  <2> HIDE DEF d
  <2> QED BY <1>1 DEF WithImages, d, CountsOK, ContentType
<1> HIDE DEF d
<1>3. d \in ContentType /\ d.images = Cardinality(ImagePlanes(d))
  BY <1>1 DEF CountsOK
<1>4. imgs \in [Planes -> Pictures \cup {None}]
  BY <1>3 DEF ContentType
<1>5. n = Cardinality(ImagePlanes(d) \cup planes) /\ n \in Nat
  <2>1. ImagePlanes(d) \in SUBSET Planes /\ ImagePlanes(d) \cup planes \in SUBSET Planes
    BY DEF ImagePlanes
  <2>2. /\ IsFiniteSet(ImagePlanes(d)) /\ IsFiniteSet(planes)
        /\ Cardinality(ImagePlanes(d) \cup planes) \in Nat
        /\ Cardinality(ImagePlanes(d)) \in Nat /\ Cardinality(planes) \in Nat
    BY <2>1, PlanesFinite
  <2>3. ImagePlanes(d) \cap planes = {}
    BY <1>1 DEF ImagePlanes, SameImages
  <2>4. Cardinality({}) = 0
    BY FS_EmptySet
  <2>5. Cardinality(ImagePlanes(d) \cup planes)
        = Cardinality(ImagePlanes(d)) + Cardinality(planes) - Cardinality(ImagePlanes(d) \cap planes)
    BY <2>2, FS_Union
  <2> QED BY <1>3, <2>2, <2>3, <2>4, <2>5
<1>6. e \in ContentType
  <2> HIDE DEF imgs, n, e
  <2> QED BY <1>2, <1>3, <1>4, <1>5 DEF ContentType
<1>7. /\ e.eglImage = imgs /\ e.images = n /\ SameTextures(d, e)
      /\ e.textureCount = d.textureCount
      /\ SamePixmap(d, e) /\ SameMemory(d, e) /\ SameHistory(d, e)
  <2> HIDE DEF imgs, n, e
  <2> QED BY <1>2, <1>3 DEF ContentType, SameTextures, SamePixmap, SameMemory, SameHistory
<1> HIDE DEF e, n
<1>8. \A i \in Planes : e.eglImage[i] = IF i \in planes THEN p ELSE d.eglImage[i]
  BY <1>7
<1> HIDE DEF imgs
<1>9. ImagePlanes(e) = ImagePlanes(d) \cup planes /\ TexturePlanes(e) = TexturePlanes(d)
  <2>1. p # None
    BY ContentAssumption
  <2> QED BY <1>7, <1>8, <2>1 DEF ImagePlanes, TexturePlanes, SameTextures
<1>10. CountsOK(e)
  BY <1>1, <1>5, <1>6, <1>7, <1>9 DEF CountsOK, SameTextures
<1>11. /\ CountsOK(e)
       /\ \A i \in Planes : /\ e.textureId[i] = IF i \in planes THEN None ELSE c.textureId[i]
                            /\ e.eglImage[i] = IF i \in planes THEN p ELSE c.eglImage[i]
       /\ e.textureCount = c.textureCount
       /\ SamePixmap(c, e) /\ SameMemory(c, e) /\ SameHistory(c, e)
  BY <1>1, <1>7, <1>8, <1>10 DEF SameImages, SameTextures, SamePixmap, SameMemory, SameHistory
<1> QED BY <1>11 DEF e

LEMMA SameCounts ==
  ASSUME NEW c, CountsOK(c), NEW e \in ContentType, SameTextures(c, e), SameImages(c, e)
  PROVE  CountsOK(e)
BY DEF CountsOK, SameTextures, SameImages, TexturePlanes, ImagePlanes

\* What a commit remembers of itself.
LEMMA CommitRemembered ==
  ASSUME NEW c, CountsOK(c), NEW kind \in {"mem", "egl", "sb", "mixed"}, NEW p \in Pictures
  PROVE  LET e == Committed(c, kind, p) IN
         /\ CountsOK(e)
         /\ e.kind = IF c.kind \in {"none", kind} THEN kind ELSE "mixed"
         /\ e.last = IF e.kind = "mixed" THEN None ELSE p
         /\ e.textureCount = c.textureCount
         /\ SameTextures(c, e) /\ SameImages(c, e) /\ SamePixmap(c, e) /\ SameMemory(c, e)
<1> DEFINE k == IF c.kind \in {"none", kind} THEN kind ELSE "mixed"
           l == IF k = "mixed" THEN None ELSE p
           e == [c EXCEPT !.kind = k, !.last = l]
<1>1. Committed(c, kind, p) = e
  BY DEF Committed
<1>2. c \in ContentType /\ k \in {"none", "mem", "egl", "sb", "mixed"} /\ l \in Pictures \cup {None}
  BY DEF CountsOK
<1> HIDE DEF k, l
<1>3. e \in ContentType
  BY <1>2 DEF ContentType
<1>4. /\ e.kind = k /\ e.last = l /\ e.textureCount = c.textureCount
      /\ SameTextures(c, e) /\ SameImages(c, e) /\ SamePixmap(c, e) /\ SameMemory(c, e)
  BY <1>2 DEF ContentType, SameTextures, SameImages, SamePixmap, SameMemory
<1> HIDE DEF e
<1>5. CountsOK(e)
  BY <1>3, <1>4, SameCounts
<1>6. e.last = IF e.kind = "mixed" THEN None ELSE p
  BY <1>4 DEF l
<1>7. e.kind = IF c.kind \in {"none", kind} THEN kind ELSE "mixed"
  BY <1>4 DEF k
<1> QED BY <1>1, <1>4, <1>5, <1>6, <1>7

LEMMA ShmCommitted ==
  ASSUME NEW c, CountsOK(c), ContentOK(c), NEW p \in Pictures
  PROVE  CountsOK(CommitShm(c, p)) /\ ContentOK(CommitShm(c, p)) /\ CommitShm(c, p).mem = p
<1> DEFINE d == [c EXCEPT !.mem = p, !.memDirty = TRUE]  e == Committed(d, "mem", p)
<1>1. /\ CountsOK(d) /\ d.mem = p /\ d.memDirty /\ d.textureCount = c.textureCount
      /\ SameTextures(c, d) /\ SameImages(c, d) /\ SamePixmap(c, d) /\ SameHistory(c, d)
  <2>1. d \in ContentType
    BY DEF CountsOK, ContentType, Held
  <2>2. /\ d.mem = p /\ d.memDirty /\ d.textureCount = c.textureCount
        /\ SameTextures(c, d) /\ SameImages(c, d) /\ SamePixmap(c, d) /\ SameHistory(c, d)
    BY DEF CountsOK, ContentType, SameTextures, SameImages, SamePixmap, SameHistory
  <2> HIDE DEF d
  <2> QED BY <2>1, <2>2, SameCounts
<1> HIDE DEF d
<1>2. /\ CountsOK(e)
      /\ e.kind = IF d.kind \in {"none", "mem"} THEN "mem" ELSE "mixed"
      /\ e.last = IF e.kind = "mixed" THEN None ELSE p
      /\ e.textureCount = d.textureCount
      /\ SameTextures(d, e) /\ SameImages(d, e) /\ SamePixmap(d, e) /\ SameMemory(d, e)
  BY <1>1, CommitRemembered
<1>3. CommitShm(c, p) = e
  BY DEF CommitShm, d
<1> HIDE DEF e
<1>4. e.mem = p /\ e.memDirty
  BY <1>1, <1>2 DEF SameMemory
<1>5. e.kind = "mem" => e.textureCount = 1 /\ \A i \in Planes : e.eglImage[i] = None
  BY <1>1, <1>2 DEF SameImages, SameHistory, ContentOK
<1>6. ContentOK(e)
  BY <1>2, <1>4, <1>5 DEF ContentOK
<1> QED BY <1>2, <1>3, <1>4, <1>6

LEMMA DispmanxCommitted ==
  ASSUME NEW c, CountsOK(c), ContentOK(c), NEW p \in Pictures, NEW read \in BOOLEAN
  PROVE  LET e == CommitDispmanx(c, p, read) IN CountsOK(e) /\ ContentOK(e) /\ e.mem # Freed
<1>1. CASE read
  <2>1. p # Freed
    BY ContentAssumption
  <2> QED BY <1>1, <2>1, ShmCommitted DEF CommitDispmanx
<1>2. CASE ~read
  <2> DEFINE d == [c EXCEPT !.mem = Blank]  e == Committed(d, "mixed", p)
  <2>1. CountsOK(d) /\ d.mem = Blank
    <3>1. d \in ContentType
      BY DEF CountsOK, ContentType, Held
    <3>2. d.mem = Blank /\ SameTextures(c, d) /\ SameImages(c, d)
      BY DEF CountsOK, ContentType, SameTextures, SameImages
    <3> HIDE DEF d
    <3> QED BY <3>1, <3>2, SameCounts
  <2>3. CommitDispmanx(c, p, read) = e
    BY <1>2 DEF CommitDispmanx
  <2> HIDE DEF d
  <2>4. /\ CountsOK(e) /\ e.kind = "mixed" /\ SameMemory(d, e)
    BY <2>1, CommitRemembered
  <2> HIDE DEF e
  <2>5. ContentOK(e)
    BY <2>4 DEF ContentOK
  <2> QED BY <2>1, <2>3, <2>4, <2>5, ContentAssumption DEF SameMemory
<1> QED BY <1>1, <1>2

LEMMA WaylandEGLCommitted ==
  ASSUME NEW c, CountsOK(c), ContentOK(c), NEW format \in Formats, NEW p \in Pictures,
         NEW made \in SUBSET Planes
  PROVE  LET e == CommitWaylandEGL(c, format, p, made) IN
         CountsOK(e) /\ ContentOK(e) /\ e.mem = c.mem
<1> DEFINE bare == DropImages(c, Planes)
           planes == CASE format = "rgba" -> made \cap {1} [] format = "y_uv" -> made [] OTHER -> {}
           wanted == CASE format = "rgba" -> {1} [] format = "y_uv" -> Planes [] OTHER -> {}
           count == CASE format = "rgba" /\ planes # {} -> 1 [] format = "y_uv" -> 2
                      [] OTHER -> c.textureCount
           full == WithImages(bare, planes, p)
           next == [full EXCEPT !.textureCount = count, !.fromPixmap = FALSE]
           kind == IF planes = wanted THEN "egl" ELSE "mixed"
           e == IF wanted = {} THEN next ELSE Committed(next, kind, p)
<1>1. CommitWaylandEGL(c, format, p, made) = e
  BY Zenon DEF CommitWaylandEGL
<1>2. /\ planes \in SUBSET Planes
      /\ count \in Planes
      /\ wanted = {} <=> format = "other"
      /\ wanted = {} => planes = {} /\ count = c.textureCount
      /\ wanted # {} /\ planes = wanted => \A i \in 1..count : i \in planes /\ i \in Planes
  <2>1. Planes = {1, 2} /\ 1..1 = {1} /\ 1..2 = {1, 2} /\ c.textureCount \in Planes
    BY DEF Planes, CountsOK, ContentType
  <2>2. CASE format = "rgba"
    BY <2>1, <2>2
  <2>3. CASE format = "y_uv"
    BY <2>1, <2>3
  <2>4. CASE format = "other"
    BY <2>1, <2>4
  <2> QED BY <2>2, <2>3, <2>4 DEF Formats
<1>3. /\ CountsOK(bare)
      /\ \A i \in Planes : bare.eglImage[i] = None
      /\ bare.textureCount = c.textureCount
      /\ SameTextures(c, bare) /\ SamePixmap(c, bare) /\ SameMemory(c, bare) /\ SameHistory(c, bare)
  BY DroppedImages
<1> HIDE DEF bare
<1>4. /\ CountsOK(full)
      /\ \A i \in Planes : /\ full.textureId[i] = IF i \in planes THEN None ELSE c.textureId[i]
                           /\ full.eglImage[i] = IF i \in planes THEN p ELSE None
      /\ SameMemory(c, full) /\ SameHistory(c, full)
  <2> HIDE DEF planes, full
  <2>1. /\ CountsOK(full)
        /\ \A i \in Planes : /\ full.textureId[i] = IF i \in planes THEN None ELSE bare.textureId[i]
                             /\ full.eglImage[i] = IF i \in planes THEN p ELSE bare.eglImage[i]
        /\ SameMemory(bare, full) /\ SameHistory(bare, full)
    <3>1. \A i \in planes : bare.eglImage[i] = None
      BY <1>2, <1>3
    <3> QED BY <1>2, <1>3, <3>1, NewImages DEF full
  <2> QED BY <1>3, <2>1 DEF SameTextures, SameMemory, SameHistory
<1> HIDE DEF full, count, planes, wanted
<1>5. /\ CountsOK(next) /\ next.textureCount = count
      /\ \A i \in Planes : /\ next.textureId[i] = IF i \in planes THEN None ELSE c.textureId[i]
                           /\ next.eglImage[i] = IF i \in planes THEN p ELSE None
      /\ SameMemory(c, next) /\ SameHistory(c, next)
  <2>1. next \in ContentType
    BY <1>2, <1>4 DEF CountsOK, ContentType
  <2>2. /\ next.textureCount = count
        /\ SameTextures(full, next) /\ SameImages(full, next)
        /\ SameMemory(full, next) /\ SameHistory(full, next)
    BY <1>4 DEF CountsOK, ContentType, SameTextures, SameImages, SameMemory, SameHistory
  <2> HIDE DEF next
  <2>3. CountsOK(next)
    BY <1>4, <2>1, <2>2, SameCounts
  <2> QED BY <1>4, <2>2, <2>3 DEF SameTextures, SameImages, SameMemory, SameHistory
<1> HIDE DEF next
<1>6. CASE wanted = {}
  <2>1. e = next
    BY <1>6
  <2>2. 1 \in Planes
    BY DEF Planes
  <2>3. ContentOK(next)
    <3>1. next.textureCount = c.textureCount /\ \A i \in 1..c.textureCount : i \in Planes
      BY <1>2, <1>5, <1>6 DEF Planes
    <3>2. \A i \in Planes : next.textureId[i] = c.textureId[i] /\ next.eglImage[i] = None
      BY <1>2, <1>5, <1>6
    <3>3. \A i \in 1..c.textureCount : next.textureId[i] = c.textureId[i]
      BY <3>1, <3>2
    <3> QED BY <1>5, <2>2, <3>1, <3>2, <3>3 DEF ContentOK, SameMemory, SameHistory
  <2> QED BY <1>1, <1>5, <2>1, <2>3 DEF SameMemory
<1>7. CASE wanted # {}
  <2> DEFINE f == Committed(next, kind, p)
  <2>1. kind \in {"mem", "egl", "sb", "mixed"}
    OBVIOUS
  <2>2. /\ CountsOK(f)
        /\ f.kind = IF next.kind \in {"none", kind} THEN kind ELSE "mixed"
        /\ f.last = IF f.kind = "mixed" THEN None ELSE p
        /\ f.textureCount = next.textureCount
        /\ SameTextures(next, f) /\ SameImages(next, f) /\ SameMemory(next, f)
    <3>1. CASE planes = wanted
      <4>1. f = Committed(next, "egl", p) /\ kind = "egl"
        BY <3>1
      <4> HIDE DEF f, kind
      <4> QED BY <1>5, <4>1, CommitRemembered, SMTT(120)
    <3>2. CASE planes # wanted
      <4>1. f = Committed(next, "mixed", p) /\ kind = "mixed"
        BY <3>2
      <4> HIDE DEF f, kind
      <4> QED BY <1>5, <4>1, CommitRemembered, ZenonT(60)
    <3> QED BY <3>1, <3>2
  <2>3. e = f
    BY <1>7
  <2> HIDE DEF f
  <2>4. f.kind \in {"mixed", "egl"}
    BY <2>2
  <2>5. ASSUME f.kind = "egl" PROVE ContentOK(f)
    <3>1. planes = wanted /\ c.kind \in {"none", "egl"}
      BY <1>5, <2>2, <2>5 DEF SameHistory
    <3>2. f.mem = None /\ ~f.memDirty
      BY <1>5, <2>2, <3>1 DEF SameMemory, ContentOK
    <3>3. \A i \in 1..f.textureCount : i \in planes /\ i \in Planes
      BY <1>2, <1>5, <1>7, <2>2, <3>1
    <3>4. 1 \in planes /\ 1 \in Planes
      BY <1>2, <1>5, <2>2, <3>3 DEF Planes
    <3>5. /\ \A i \in 1..f.textureCount : f.eglImage[i] = f.last
          /\ f.textureId[1] = None
      BY <1>5, <2>2, <2>5, <3>3, <3>4 DEF SameImages, SameTextures
    <3> QED BY <2>5, <3>2, <3>5 DEF ContentOK
  <2>6. ASSUME f.kind = "mixed" PROVE ContentOK(f)
    BY <2>6 DEF ContentOK
  <2> QED BY <1>1, <1>5, <2>2, <2>3, <2>4, <2>5, <2>6 DEF SameMemory
<1> QED BY <1>6, <1>7

LEMMA SBCommitted ==
  ASSUME NEW c, CountsOK(c), ContentOK(c), NEW p \in Pictures, NEW got \in BOOLEAN,
         NEW same \in BOOLEAN, NEW made \in BOOLEAN
  PROVE  LET e == CommitSB(c, p, got, same, made) IN
         CountsOK(e) /\ ContentOK(e) /\ e.mem = c.mem
<1> DEFINE kept == c.nativePixmap /\ same
           base == IF kept THEN c ELSE DropImages(c, {1})
           bare == [base EXCEPT !.nativePixmap = TRUE]
           shown == IF bare.textureId[1] = None THEN None ELSE p
           seen == [bare EXCEPT !.eglImage[1] = p, !.textureId[1] = shown]
           full == WithImages(bare, {1}, p)
           fresh == [full EXCEPT !.fromPixmap = TRUE]
           next == IF bare.eglImage[1] # None THEN IF bare.fromPixmap THEN seen ELSE bare
                   ELSE IF made THEN fresh ELSE bare
           kind == IF next.eglImage[1] # None THEN "sb" ELSE "mixed"
<1>1. CommitSB(c, p, got, same, made) = IF ~got THEN c ELSE Committed(next, kind, p)
  BY DEF CommitSB
<1>2. 1 \in Planes /\ {1} \in SUBSET Planes /\ p # None /\ p \in Held
  BY ContentAssumption DEF Planes, Held
<1>3. /\ CountsOK(base)
      /\ \A i \in Planes : base.eglImage[i] = c.eglImage[i] \/ base.eglImage[i] = None
      /\ base.textureCount = c.textureCount /\ base.fromPixmap = c.fromPixmap
      /\ SameTextures(c, base) /\ SameMemory(c, base) /\ SameHistory(c, base)
  <2>1. CASE kept
    BY <2>1 DEF SameTextures, SameMemory, SameHistory
  <2>2. CASE ~kept
    <3>1. base = DropImages(c, {1})
      BY <2>2
    <3> HIDE DEF base, kept
    <3> QED BY <1>2, <3>1, DroppedImages DEF SamePixmap
  <2> QED BY <2>1, <2>2
<1> HIDE DEF base
<1>4. /\ CountsOK(bare)
      /\ \A i \in Planes : bare.eglImage[i] = c.eglImage[i] \/ bare.eglImage[i] = None
      /\ bare.textureCount = c.textureCount /\ bare.fromPixmap = c.fromPixmap
      /\ SameTextures(c, bare) /\ SameMemory(c, bare) /\ SameHistory(c, bare)
  <2>1. bare \in ContentType
    BY <1>3 DEF CountsOK, ContentType
  <2>2. /\ bare.textureCount = base.textureCount /\ bare.fromPixmap = base.fromPixmap
        /\ SameTextures(base, bare) /\ SameImages(base, bare)
        /\ SameMemory(base, bare) /\ SameHistory(base, bare)
    BY <1>3 DEF CountsOK, ContentType, SameTextures, SameImages, SameMemory, SameHistory
  <2> HIDE DEF bare
  <2>3. CountsOK(bare)
    BY <1>3, <2>1, <2>2, SameCounts
  <2> QED BY <1>3, <2>2, <2>3 DEF SameTextures, SameImages, SameMemory, SameHistory
<1> HIDE DEF bare
<1>5. ASSUME bare.eglImage[1] # None
      PROVE  /\ CountsOK(seen) /\ seen.eglImage[1] = p /\ seen.textureId[1] \in {None, p}
             /\ seen.textureCount = bare.textureCount /\ seen.fromPixmap = bare.fromPixmap
             /\ SameMemory(bare, seen) /\ SameHistory(bare, seen)
  <2> DEFINE imgs == [bare.eglImage EXCEPT ![1] = p]  named == [bare.textureId EXCEPT ![1] = shown]
  <2>1. bare \in ContentType
    BY <1>4 DEF CountsOK
  <2>2. /\ imgs \in [Planes -> Pictures \cup {None}] /\ imgs[1] = p
        /\ \A i \in Planes : imgs[i] # None <=> bare.eglImage[i] # None
    BY <1>2, <1>5, <2>1 DEF ContentType
  <2>3. /\ named \in [Planes -> Held] /\ named[1] \in {None, p}
        /\ \A i \in Planes : named[i] # None <=> bare.textureId[i] # None
    BY <1>2, <2>1 DEF ContentType, Held
  <2>4. seen = [bare EXCEPT !.eglImage = imgs, !.textureId = named]
    BY <2>1 DEF ContentType
  <2> HIDE DEF imgs, named, seen
  <2>5. seen \in ContentType
    BY <2>1, <2>2, <2>3, <2>4 DEF ContentType
  <2>6. /\ seen.eglImage = imgs /\ seen.textureId = named
        /\ seen.textures = bare.textures /\ seen.images = bare.images
        /\ seen.textureCount = bare.textureCount /\ seen.fromPixmap = bare.fromPixmap
        /\ SameMemory(bare, seen) /\ SameHistory(bare, seen)
    BY <2>1, <2>4 DEF ContentType, SameMemory, SameHistory
  <2>7. TexturePlanes(seen) = TexturePlanes(bare) /\ ImagePlanes(seen) = ImagePlanes(bare)
    BY <2>2, <2>3, <2>6 DEF TexturePlanes, ImagePlanes
  <2> QED BY <1>4, <2>2, <2>3, <2>5, <2>6, <2>7 DEF CountsOK
<1>6. ASSUME bare.eglImage[1] = None
      PROVE  /\ CountsOK(fresh) /\ fresh.eglImage[1] = p /\ fresh.textureId[1] = None
             /\ fresh.textureCount = bare.textureCount /\ fresh.fromPixmap = TRUE
             /\ SameMemory(bare, fresh) /\ SameHistory(bare, fresh)
  <2>1. /\ CountsOK(full) /\ full.eglImage[1] = p /\ full.textureId[1] = None
        /\ full.textureCount = bare.textureCount
        /\ SameMemory(bare, full) /\ SameHistory(bare, full)
    BY <1>2, <1>4, <1>6, NewImages
  <2> HIDE DEF full
  <2>2. fresh \in ContentType
    BY <2>1 DEF CountsOK, ContentType
  <2>3. /\ fresh.textureCount = full.textureCount /\ fresh.fromPixmap = TRUE
        /\ SameTextures(full, fresh) /\ SameImages(full, fresh)
        /\ SameMemory(full, fresh) /\ SameHistory(full, fresh)
    BY <2>1 DEF CountsOK, ContentType, SameTextures, SameImages, SameMemory, SameHistory
  <2> HIDE DEF fresh
  <2>4. CountsOK(fresh)
    BY <2>1, <2>2, <2>3, SameCounts
  <2> QED BY <2>1, <2>3, <2>4 DEF SameTextures, SameImages, SameMemory, SameHistory
<1> HIDE DEF seen, full, fresh
<1>7. /\ CountsOK(next) /\ next.textureCount = c.textureCount
      /\ SameMemory(c, next) /\ SameHistory(c, next)
      /\ next.eglImage[1] # None /\ c.kind \in {"none", "sb"} =>
           next.eglImage[1] = p /\ next.textureId[1] \in {None, p} /\ next.fromPixmap
  <2>1. CASE bare.eglImage[1] # None /\ bare.fromPixmap
    BY <1>4, <1>5, <2>1 DEF SameMemory, SameHistory
  <2>2. CASE bare.eglImage[1] # None /\ ~bare.fromPixmap
    <3>1. c.eglImage[1] # None /\ ~c.fromPixmap
      BY <1>2, <1>4, <2>2
    <3>2. c.kind \notin {"none", "sb"}
      BY <1>2, <3>1 DEF ContentOK
    <3> QED BY <1>4, <2>2, <3>2
  <2>3. CASE bare.eglImage[1] = None /\ made
    BY <1>4, <1>6, <2>3 DEF SameMemory, SameHistory
  <2>4. CASE bare.eglImage[1] = None /\ ~made
    BY <1>4, <2>4
  <2> QED BY <2>1, <2>2, <2>3, <2>4
<1> HIDE DEF next
<1>8. CASE got
  <2> DEFINE f == Committed(next, kind, p)
  <2>2. /\ CountsOK(f)
        /\ f.kind = IF next.kind \in {"none", kind} THEN kind ELSE "mixed"
        /\ f.last = IF f.kind = "mixed" THEN None ELSE p
        /\ f.textureCount = next.textureCount
        /\ SameTextures(next, f) /\ SameImages(next, f) /\ SamePixmap(next, f) /\ SameMemory(next, f)
    <3>1. CASE next.eglImage[1] # None
      <4>1. f = Committed(next, "sb", p) /\ kind = "sb"
        BY <3>1
      <4> HIDE DEF f, kind
      <4> QED BY <1>7, <4>1, CommitRemembered, SMTT(60)
    <3>2. CASE next.eglImage[1] = None
      <4>1. f = Committed(next, "mixed", p) /\ kind = "mixed"
        BY <3>2
      <4> HIDE DEF f, kind
      <4> QED BY <1>7, <4>1, CommitRemembered, SMTT(60)
    <3> QED BY <3>1, <3>2
  <2>3. CommitSB(c, p, got, same, made) = f
    BY <1>1, <1>8
  <2> HIDE DEF f
  <2>4. f.kind \in {"mixed", "sb"}
    BY <2>2
  <2>5. ASSUME f.kind = "sb" PROVE ContentOK(f)
    <3>1. next.eglImage[1] # None /\ c.kind \in {"none", "sb"}
      BY <1>7, <2>2, <2>5 DEF SameHistory
    <3>2. f.mem = None /\ ~f.memDirty /\ f.textureCount = 1
      BY <1>7, <2>2, <3>1 DEF SameMemory, ContentOK
    <3>3. f.eglImage[1] = f.last /\ f.textureId[1] \in {None, f.last} /\ f.fromPixmap
      BY <1>7, <2>2, <2>5, <3>1 DEF SameImages, SameTextures, SamePixmap
    <3>4. \A i \in 1..f.textureCount : i = 1
      BY <3>2
    <3> QED BY <2>5, <3>2, <3>3, <3>4 DEF ContentOK
  <2>6. ASSUME f.kind = "mixed" PROVE ContentOK(f)
    BY <2>6 DEF ContentOK
  <2> QED BY <1>7, <2>2, <2>3, <2>4, <2>5, <2>6 DEF SameMemory
<1>9. CASE ~got
  BY <1>1, <1>9
<1> QED BY <1>8, <1>9

LEMMA FlushedOK ==
  ASSUME NEW c, CountsOK(c), NEW left \in {None, Freed}
  PROVE  LET e == Flushed(c, left) IN
         /\ CountsOK(e) /\ e.textures = 0 /\ e.images = 0
         /\ ContentOK(c) => ContentOK(e)
         /\ e.mem = IF c.mem = None THEN None ELSE left
<1> DEFINE bare == DropTextures(c, Planes)  d == DropImages(bare, Planes)
           m == IF c.mem = None THEN None ELSE left
           e == [d EXCEPT !.nativePixmap = FALSE, !.mem = m, !.last = None]
<1>1. /\ CountsOK(bare)
      /\ \A i \in Planes : bare.textureId[i] = IF i \in Planes THEN None ELSE c.textureId[i]
      /\ bare.textureCount = c.textureCount
      /\ SameMemory(c, bare) /\ SameHistory(c, bare)
  BY DroppedTextures
<1> HIDE DEF bare
<1>2. /\ CountsOK(d)
      /\ \A i \in Planes : d.eglImage[i] = IF i \in Planes THEN None ELSE bare.eglImage[i]
      /\ d.textureCount = bare.textureCount
      /\ SameTextures(bare, d) /\ SameMemory(bare, d) /\ SameHistory(bare, d)
  BY <1>1, DroppedImages
<1> HIDE DEF d
<1>3. /\ \A i \in Planes : d.textureId[i] = None /\ d.eglImage[i] = None
      /\ d.textureCount = c.textureCount /\ SameMemory(c, d) /\ SameHistory(c, d)
  BY <1>1, <1>2 DEF SameTextures, SameMemory, SameHistory
<1>4. d.textures = 0 /\ d.images = 0
  <2>1. TexturePlanes(d) = {} /\ ImagePlanes(d) = {}
    BY <1>3 DEF TexturePlanes, ImagePlanes
  <2>2. Cardinality({}) = 0
    BY FS_EmptySet
  <2> QED BY <1>2, <2>1, <2>2 DEF CountsOK
<1>5. Flushed(c, left) = e
  <2>1. d.mem = c.mem
    BY <1>3 DEF SameMemory
  <2>2. Flushed(c, left) = [d EXCEPT !.nativePixmap = FALSE,
                                     !.mem = IF d.mem = None THEN None ELSE left, !.last = None]
    BY DEF Flushed, d, bare
  <2> QED BY <2>1, <2>2
<1>6. m \in {None, Freed} /\ m \in Held /\ (c.mem = None => m = None)
  BY DEF Held
<1> HIDE DEF m
<1>7. e \in ContentType
  BY <1>2, <1>6 DEF CountsOK, ContentType
<1>8. /\ e.mem = m /\ e.memDirty = d.memDirty /\ e.kind = d.kind /\ e.last = None
      /\ e.textureCount = d.textureCount
      /\ SameTextures(d, e) /\ SameImages(d, e)
  BY <1>2 DEF CountsOK, ContentType, SameTextures, SameImages
<1> HIDE DEF e
<1>9. CountsOK(e)
  BY <1>2, <1>7, <1>8, SameCounts
<1>10. ASSUME ContentOK(c) PROVE ContentOK(e)
  <2>1. /\ \A i \in Planes : e.textureId[i] = None /\ e.eglImage[i] = None
        /\ 1 \in Planes
    BY <1>3, <1>8 DEF SameTextures, SameImages, Planes
  <2>2. e.kind = c.kind /\ e.textureCount = c.textureCount /\ e.memDirty = c.memDirty
    BY <1>3, <1>8 DEF SameMemory, SameHistory
  <2> QED BY <1>6, <1>8, <1>10, <2>1, <2>2 DEF ContentOK
<1> QED BY <1>4, <1>5, <1>8, <1>9, <1>10 DEF m, SameTextures, SameImages

\* What drawing makes of the textures.
LEMMA DrawnFields ==
  ASSUME NEW c, CountsOK(c), ~(c.textureId[1] # None /\ ~c.memDirty)
  PROVE  LET e == RenderSurface(c)  used == 1 .. c.textureCount IN
         /\ CountsOK(e)
         /\ \A i \in Planes : e.textureId[i] = IF i \in used THEN Source(c, i) ELSE c.textureId[i]
         /\ e.memDirty = (c.memDirty /\ (c.eglImage[1] # None \/ c.mem = None))
         /\ e.mem = c.mem /\ e.textureCount = c.textureCount
         /\ SameImages(c, e) /\ SamePixmap(c, e) /\ SameHistory(c, e)
<1> DEFINE used == 1 .. c.textureCount
           named == [i \in Planes |-> IF i \in used THEN Source(c, i) ELSE c.textureId[i]]
           new == {i \in used : c.textureId[i] = None}
           n == c.textures + Cardinality(new)
           dirty == c.memDirty /\ (c.eglImage[1] # None \/ c.mem = None)
           e == [c EXCEPT !.textureId = named, !.textures = n, !.memDirty = dirty]
<1>0. c \in ContentType /\ c.textures = Cardinality(TexturePlanes(c))
  BY DEF CountsOK
<1>1. used \in SUBSET Planes
  BY <1>0 DEF ContentType, Planes
<1>2. RenderSurface(c) = e
  <2>1. RenderSurface(c)
        = [c EXCEPT !.textureId = [i \in Planes |-> IF i \in used THEN Source(c, i) ELSE @[i]],
                    !.textures = @ + Cardinality({i \in used : c.textureId[i] = None}),
                    !.memDirty = @ /\ (c.eglImage[1] # None \/ c.mem = None)]
    BY DEF RenderSurface
  <2> QED BY <1>0, <2>1 DEF ContentType
<1>3. \A i \in Planes : Source(c, i) \in Held /\ Source(c, i) # None
  <2> TAKE i \in Planes
  <2>1. c.eglImage[i] \in Held /\ c.textureId[i] \in Held /\ c.mem \in Held /\ Blank \in Held
    BY <1>0 DEF ContentType, Held
  <2> QED BY <2>1, ContentAssumption DEF Source
<1>4. named \in [Planes -> Held]
  BY <1>0, <1>3 DEF ContentType
<1>5. n = Cardinality(TexturePlanes(c) \cup new) /\ n \in Nat
  <2>1. TexturePlanes(c) \in SUBSET Planes /\ new \in SUBSET Planes
        /\ TexturePlanes(c) \cup new \in SUBSET Planes
    BY <1>1 DEF TexturePlanes
  <2>2. /\ IsFiniteSet(TexturePlanes(c)) /\ IsFiniteSet(new)
        /\ Cardinality(TexturePlanes(c) \cup new) \in Nat
        /\ Cardinality(TexturePlanes(c)) \in Nat /\ Cardinality(new) \in Nat
    BY <2>1, PlanesFinite
  <2>3. TexturePlanes(c) \cap new = {}
    BY DEF TexturePlanes
  <2>4. Cardinality({}) = 0
    BY FS_EmptySet
  <2> HIDE DEF new
  <2>5. Cardinality(TexturePlanes(c) \cup new)
        = Cardinality(TexturePlanes(c)) + Cardinality(new) - Cardinality(TexturePlanes(c) \cap new)
    BY <2>2, FS_Union
  <2>6. c.textures = Cardinality(TexturePlanes(c)) /\ n = c.textures + Cardinality(new)
    BY <1>0
  <2> HIDE DEF n, e, named, dirty, used
  <2> QED BY <2>2, <2>3, <2>4, <2>5, <2>6
<1>6. dirty \in BOOLEAN
  BY <1>0 DEF ContentType
<1> HIDE DEF dirty, n
<1>7. e \in ContentType
  <2> HIDE DEF named
  <2> QED BY <1>0, <1>4, <1>5, <1>6 DEF ContentType
<1>8. /\ e.textureId = named /\ e.textures = n /\ e.memDirty = dirty /\ e.mem = c.mem
      /\ e.textureCount = c.textureCount
      /\ SameImages(c, e) /\ SamePixmap(c, e) /\ SameHistory(c, e)
  <2> HIDE DEF named
  <2> QED BY <1>0 DEF ContentType, SameImages, SamePixmap, SameHistory
<1> HIDE DEF e
<1>9. \A i \in Planes : e.textureId[i] = IF i \in used THEN Source(c, i) ELSE c.textureId[i]
  BY <1>8
<1>10. TexturePlanes(e) = TexturePlanes(c) \cup new /\ ImagePlanes(e) = ImagePlanes(c)
  <2> HIDE DEF named, used
  <2> QED BY <1>1, <1>3, <1>8, <1>9 DEF TexturePlanes, ImagePlanes, SameImages
<1>11. CountsOK(e)
  BY <1>5, <1>7, <1>8, <1>10 DEF CountsOK, SameImages
<1> QED BY <1>2, <1>8, <1>9, <1>11 DEF dirty

LEMMA DrawnOK ==
  ASSUME NEW c, CountsOK(c)
  PROVE  LET e == RenderSurface(c) IN
         /\ CountsOK(e) /\ e.mem = c.mem
         /\ /\ ContentOK(c) /\ HasContent(c)
            /\ c.mem = Freed /\ c.eglImage[1] = None => c.textureId[1] # None /\ ~c.memDirty
            => ContentOK(e)
<1> DEFINE e == RenderSurface(c)
<1>1. CASE c.textureId[1] # None /\ ~c.memDirty
  BY <1>1 DEF RenderSurface
<1>2. CASE ~(c.textureId[1] # None /\ ~c.memDirty)
  <2> DEFINE used == 1 .. c.textureCount
  <2>1. /\ CountsOK(e)
        /\ \A i \in Planes : e.textureId[i] = IF i \in used THEN Source(c, i) ELSE c.textureId[i]
        /\ e.memDirty = (c.memDirty /\ (c.eglImage[1] # None \/ c.mem = None))
        /\ e.mem = c.mem /\ e.textureCount = c.textureCount
        /\ SameImages(c, e) /\ SamePixmap(c, e) /\ SameHistory(c, e)
    BY <1>2, DrawnFields
  <2> HIDE DEF e
  <2>2. ASSUME ContentOK(c), HasContent(c), c.mem = Freed => c.eglImage[1] # None PROVE ContentOK(e)
    <3>1. c \in ContentType /\ used \subseteq Planes /\ 1 \in used /\ 1 \in Planes
      BY DEF CountsOK, ContentType, Planes
    <3>2. ASSUME c.kind \in {"egl", "sb"} PROVE ContentOK(e)
      <4>1. c.mem = None /\ ~c.memDirty /\ c.textureId[1] = None /\ c.eglImage[1] # None
        BY <1>2, <2>2, <3>2 DEF ContentOK, HasContent
      <4>2. \A i \in used : c.eglImage[i] = c.last /\ c.last # None
        BY <2>2, <3>1, <3>2, <4>1 DEF ContentOK
      <4>3. \A i \in used : e.textureId[i] = c.last /\ e.eglImage[i] = c.last
        BY <2>1, <3>1, <4>2 DEF Source, SameImages
      <4> QED BY <2>1, <2>2, <3>2, <4>1, <4>3 DEF ContentOK, SameImages, SamePixmap, SameHistory
    <3>3. ASSUME c.kind = "mem" PROVE ContentOK(e)
      <4>1. c.eglImage[1] = None
        BY <2>2, <3>1, <3>3 DEF ContentOK
      <4>2. CASE c.mem = None
        BY <1>2, <2>1, <2>2, <3>3, <4>1, <4>2 DEF ContentOK, HasContent, SameImages, SameHistory
      <4>3. CASE c.mem # None
        <5>1. c.mem = c.last /\ e.textureId[1] = c.mem
          BY <2>1, <2>2, <3>1, <3>3, <4>1, <4>3 DEF ContentOK, Source
        <5> QED BY <2>1, <2>2, <3>3, <5>1 DEF ContentOK, SameImages, SameHistory
      <4> QED BY <4>2, <4>3
    <3>4. c.kind # "none"
      BY <2>2, <3>1 DEF ContentOK, HasContent
    <3>5. ASSUME c.kind = "mixed" PROVE ContentOK(e)
      BY <2>1, <3>5 DEF ContentOK, SameHistory
    <3>6. c.kind \in {"none", "mem", "egl", "sb", "mixed"}
      BY <3>1 DEF ContentType
    <3> QED BY <3>2, <3>3, <3>4, <3>5, <3>6
  <2> QED BY <1>2, <2>1, <2>2 DEF e
<1> QED BY <1>1, <1>2

\* A surface that has been made holds nothing.
LEMMA NewContentOK == CountsOK(NewContent) /\ ContentOK(NewContent)
<1>1. TexturePlanes(NewContent) = {} /\ ImagePlanes(NewContent) = {}
  BY DEF TexturePlanes, ImagePlanes, NewContent
<1>2. Cardinality({}) = 0
  BY FS_EmptySet
<1>3. NewContent \in ContentType
  BY DEF NewContent, ContentType, Planes, Held
<1>4. NewContent.textures = 0 /\ NewContent.images = 0
  BY DEF NewContent
<1>5. ContentOK(NewContent)
  BY DEF ContentOK, NewContent
<1> QED BY <1>1, <1>2, <1>3, <1>4, <1>5 DEF CountsOK

\* What the handles name is what there is.
LEMMA NamedIsAll ==
  ASSUME NEW c, CountsOK(c)
  PROVE  Accounted(c)
BY DEF CountsOK, Accounted, TexturePlanes, ImagePlanes

\* What is drawn of a surface with buffers of one kind is the last picture.
LEMMA ShownIsLatest ==
  ASSUME NEW c, CountsOK(c), ContentOK(c), c.textureId[1] # None, ~c.memDirty, c.kind # "mixed"
  PROVE  UpToDate(c)
<1>1. c.kind \in {"none", "mem", "egl", "sb", "mixed"} /\ 1 \in Planes
  BY DEF CountsOK, ContentType, Planes
<1>2. CASE c.kind \in {"none", "mem"}
  <2>1. c.textureCount = 1 /\ c.textureId[1] = c.last
    BY <1>1, <1>2 DEF ContentOK
  <2> QED BY <2>1 DEF UpToDate
<1>3. CASE c.kind \in {"egl", "sb"}
  BY <1>3 DEF ContentOK, UpToDate
<1> QED BY <1>1, <1>2, <1>3

--------------------------------------------------------------------------------
(* What a surface of the Dispmanx renderer shows and keeps. *)

DmxResource == [resource : Images \cup {Nothing}, owned : BOOLEAN]
DmxType ==
  [buffer : [Buffers2 -> DmxResource], front : Buffers2, flip : BOOLEAN, dirty : BOOLEAN,
   visible : BOOLEAN, element : BOOLEAN, resources : Nat, elements : Nat,
   last : Images \cup {Nothing}, dropped : BOOLEAN]

OwnedSlots(d) == {i \in Buffers2 : Owned(d, i)}
NextShown(d) == IF d.flip THEN Back(d) ELSE d.front

DmxOK(d) ==
  /\ d \in DmxType
  /\ d.resources = Cardinality(OwnedSlots(d))
  /\ d.elements = IF d.element THEN 1 ELSE 0
  /\ ~d.dropped => d.buffer[NextShown(d)].resource = d.last

DmxInv ==
  /\ dmxUp \in BOOLEAN /\ updateInProgress \in BOOLEAN /\ dmxLeft = 0
  /\ dmxSurfaces = [s \in DmxLive |-> dmxSurfaces[s]]
  /\ \A s \in DmxLive : DmxOK(dmxSurfaces[s])

\* How many of two.
LEMMA CountOfTwo ==
  ASSUME NEW a, NEW b, a # b, NEW S \in SUBSET {a, b}
  PROVE  /\ IsFiniteSet(S)
         /\ Cardinality(S) = (IF a \in S THEN 1 ELSE 0) + (IF b \in S THEN 1 ELSE 0)
<1>1. IsFiniteSet({}) /\ Cardinality({}) = 0
  BY FS_EmptySet
<1>2. IsFiniteSet({a}) /\ Cardinality({a}) = 1 /\ IsFiniteSet({b}) /\ Cardinality({b}) = 1
  BY FS_Singleton
<1>3. IsFiniteSet({a} \cup {b}) /\ Cardinality({a} \cup {b}) = 2
  BY <1>2, FS_AddElement
<1>4. CASE a \in S /\ b \in S
  <2>1. S = {a} \cup {b}
    BY <1>4
  <2> QED BY <1>3, <1>4, <2>1
<1>5. CASE a \in S /\ b \notin S
  <2>1. S = {a}
    BY <1>5
  <2> QED BY <1>2, <1>5, <2>1
<1>6. CASE a \notin S /\ b \in S
  <2>1. S = {b}
    BY <1>6
  <2> QED BY <1>2, <1>6, <2>1
<1>7. CASE a \notin S /\ b \notin S
  <2>1. S = {}
    BY <1>7
  <2> QED BY <1>1, <1>7, <2>1
<1> QED BY <1>4, <1>5, <1>6, <1>7

LEMMA LessOfTwo ==
  ASSUME NEW S \in SUBSET {0, 1}, NEW T
  PROVE  Cardinality(S) - Cardinality(S \cap T) = Cardinality(S \ T) /\ Cardinality(S \ T) \in Nat
<1>1. /\ Cardinality(S) = (IF 0 \in S THEN 1 ELSE 0) + (IF 1 \in S THEN 1 ELSE 0)
      /\ Cardinality(S \cap T) = (IF 0 \in S \cap T THEN 1 ELSE 0) + (IF 1 \in S \cap T THEN 1 ELSE 0)
      /\ Cardinality(S \ T) = (IF 0 \in S \ T THEN 1 ELSE 0) + (IF 1 \in S \ T THEN 1 ELSE 0)
  <2>1. 0 # 1
    OBVIOUS
  <2>2. \A X \in SUBSET {0, 1} :
          Cardinality(X) = (IF 0 \in X THEN 1 ELSE 0) + (IF 1 \in X THEN 1 ELSE 0)
    <3> TAKE X \in SUBSET {0, 1}
    <3> DEFINE zero == 0  one == 1
    <3>1. zero # one /\ X \in SUBSET {zero, one}
      BY <2>1
    <3> HIDE DEF zero, one
    <3>2. Cardinality(X) = (IF zero \in X THEN 1 ELSE 0) + (IF one \in X THEN 1 ELSE 0)
      BY <3>1, CountOfTwo
    <3> QED BY <3>2 DEF zero, one
  <2>3. S \cap T \in SUBSET {0, 1} /\ S \ T \in SUBSET {0, 1}
    OBVIOUS
  <2> QED BY <2>2, <2>3
<1>2. /\ 0 \in S \cap T <=> 0 \in S /\ 0 \in T
      /\ 1 \in S \cap T <=> 1 \in S /\ 1 \in T
      /\ 0 \in S \ T <=> 0 \in S /\ 0 \notin T
      /\ 1 \in S \ T <=> 1 \in S /\ 1 \notin T
  OBVIOUS
<1> QED BY <1>1, <1>2

LEMMA BackIsOther ==
  ASSUME NEW d \in DmxType
  PROVE  Back(d) \in Buffers2 /\ Back(d) # d.front /\ \A i \in Buffers2 : i = Back(d) \/ i = d.front
<1>1. d.front \in {0, 1}
  BY DEF DmxType, Buffers2
<1>2. CASE d.front = 0
  BY <1>2 DEF Back, Buffers2
<1>3. CASE d.front = 1
  BY <1>3 DEF Back, Buffers2
<1> QED BY <1>1, <1>2, <1>3

\* What DropOwned leaves of the resources.
LEMMA DroppedOwned ==
  ASSUME NEW d \in DmxType, d.resources = Cardinality(OwnedSlots(d)), NEW slots \in SUBSET Buffers2
  PROVE  LET e == DropOwned(d, slots) IN
         /\ e \in DmxType
         /\ e.resources = Cardinality(OwnedSlots(e))
         /\ OwnedSlots(e) = OwnedSlots(d) \ slots
         /\ \A i \in Buffers2 :
              e.buffer[i].resource = IF i \in slots /\ Owned(d, i) THEN Nothing ELSE d.buffer[i].resource
         /\ e = [d EXCEPT !.buffer = e.buffer, !.resources = e.resources]
<1> DEFINE e == DropOwned(d, slots)
           mine == {i \in slots : Owned(d, i)}
           buffer == [i \in Buffers2 |-> IF i \in mine THEN [d.buffer[i] EXCEPT !.resource = Nothing]
                                         ELSE d.buffer[i]]
<1>1. e = [d EXCEPT !.buffer = buffer, !.resources = d.resources - Cardinality(mine)]
  BY DEF DropOwned
<1>2. buffer \in [Buffers2 -> DmxResource]
  <2> SUFFICES ASSUME NEW i \in Buffers2
               PROVE  (IF i \in mine THEN [d.buffer[i] EXCEPT !.resource = Nothing] ELSE d.buffer[i])
                        \in DmxResource
    OBVIOUS
  <2>1. d.buffer[i] \in DmxResource
    BY DEF DmxType
  <2> QED BY <2>1 DEF DmxResource
<1>3. \A i \in Buffers2 :
        /\ buffer[i].resource = IF i \in mine THEN Nothing ELSE d.buffer[i].resource
        /\ buffer[i].owned = d.buffer[i].owned
  <2> TAKE i \in Buffers2
  <2>1. d.buffer[i] \in DmxResource
    BY DEF DmxType
  <2> QED BY <2>1 DEF DmxResource
<1>4. /\ e.buffer = buffer
      /\ e.resources = d.resources - Cardinality(mine)
  BY <1>1 DEF DmxType
<1>5. OwnedSlots(e) = OwnedSlots(d) \ slots
  BY <1>3, <1>4 DEF OwnedSlots, Owned
<1>6. /\ Cardinality(OwnedSlots(d)) - Cardinality(mine) = Cardinality(OwnedSlots(d) \ slots)
      /\ Cardinality(OwnedSlots(d) \ slots) \in Nat
  <2>1. mine = OwnedSlots(d) \cap slots
    BY DEF OwnedSlots
  <2>2. OwnedSlots(d) \in SUBSET {0, 1}
    BY DEF OwnedSlots, Buffers2
  <2> HIDE DEF mine
  <2> QED BY <2>1, <2>2, LessOfTwo
<1>8. e.resources = Cardinality(OwnedSlots(e)) /\ e.resources \in Nat
  BY <1>4, <1>5, <1>6
<1>9. e \in DmxType
  BY <1>1, <1>2, <1>4, <1>8 DEF DmxType
<1>10. e = [d EXCEPT !.buffer = e.buffer, !.resources = e.resources]
  BY <1>1, <1>4
<1>11. \A i \in Buffers2 :
        e.buffer[i].resource = IF i \in slots /\ Owned(d, i) THEN Nothing ELSE d.buffer[i].resource
  BY <1>3, <1>4
<1>12. /\ e \in DmxType
       /\ e.resources = Cardinality(OwnedSlots(e))
       /\ OwnedSlots(e) = OwnedSlots(d) \ slots
       /\ \A i \in Buffers2 :
            e.buffer[i].resource = IF i \in slots /\ Owned(d, i) THEN Nothing ELSE d.buffer[i].resource
       /\ e = [d EXCEPT !.buffer = e.buffer, !.resources = e.resources]
  <2> HIDE DEF e
  <2> QED BY <1>5, <1>8, <1>9, <1>10, <1>11
<1> QED BY <1>12, Zenon

LEMMA DroppedElement ==
  ASSUME NEW d \in DmxType, d.elements = IF d.element THEN 1 ELSE 0
  PROVE  LET e == DropElement(d) IN
         /\ e \in DmxType /\ e.element = FALSE /\ e.elements = 0
         /\ e.buffer = d.buffer /\ e.resources = d.resources /\ e.front = d.front
         /\ e.flip = d.flip /\ e.last = d.last /\ e.dropped = d.dropped
<1>1. DropElement(d) = [d EXCEPT !.element = FALSE,
                                 !.elements = IF d.element THEN d.elements - 1 ELSE d.elements]
  BY DEF DropElement
<1>2. (IF d.element THEN d.elements - 1 ELSE d.elements) = 0
  OBVIOUS
<1>3. DropElement(d) = [d EXCEPT !.element = FALSE, !.elements = 0]
  BY <1>1, <1>2
<1> DEFINE e == [d EXCEPT !.element = FALSE, !.elements = 0]
<1>4. e \in DmxType
  BY DEF DmxType
<1>5. /\ e.element = FALSE /\ e.elements = 0
      /\ e.buffer = d.buffer /\ e.resources = d.resources /\ e.front = d.front
      /\ e.flip = d.flip /\ e.last = d.last /\ e.dropped = d.dropped
  BY DEF DmxType
<1> QED BY <1>3, <1>4, <1>5

LEMMA AddedElement ==
  ASSUME NEW d \in DmxType, d.elements = 0
  PROVE  LET e == [d EXCEPT !.element = TRUE, !.elements = @ + 1] IN
         /\ e \in DmxType /\ e.element = TRUE /\ e.elements = 1
         /\ e.buffer = d.buffer /\ e.resources = d.resources /\ e.front = d.front
         /\ e.flip = d.flip /\ e.last = d.last /\ e.dropped = d.dropped
<1> DEFINE e == [d EXCEPT !.element = TRUE, !.elements = 1]
<1>3. [d EXCEPT !.element = TRUE, !.elements = @ + 1] = e
  OBVIOUS
<1>4. e \in DmxType
  BY DEF DmxType
<1>5. /\ e.element = TRUE /\ e.elements = 1
      /\ e.buffer = d.buffer /\ e.resources = d.resources /\ e.front = d.front
      /\ e.flip = d.flip /\ e.last = d.last /\ e.dropped = d.dropped
  BY DEF DmxType
<1> QED BY <1>3, <1>4, <1>5

LEMMA NewIsOK == DmxOK(NewDmxSurface)
<1>1. OwnedSlots(NewDmxSurface) = {}
  BY DEF OwnedSlots, Owned, NewDmxSurface, NoResource
<1>2. Cardinality({}) = 0
  BY FS_EmptySet
<1>3. NewDmxSurface \in DmxType
  BY DEF NewDmxSurface, DmxType, DmxResource, NoResource, Buffers2
<1>4. /\ NewDmxSurface.resources = 0 /\ NewDmxSurface.elements = 0
      /\ NewDmxSurface.element = FALSE /\ NewDmxSurface.last = Nothing
      /\ NextShown(NewDmxSurface) = 0
      /\ NewDmxSurface.buffer[0].resource = Nothing
  BY DEF NewDmxSurface, NextShown, NoResource, Buffers2
<1> QED BY <1>1, <1>2, <1>3, <1>4 DEF DmxOK

LEMMA FlushOK ==
  ASSUME NEW d, DmxOK(d)
  PROVE  DmxOK(DmxFlush(d)) /\ DmxFlush(d).resources = 0 /\ DmxFlush(d).elements = 0
<1> DEFINE e == DropOwned(d, Buffers2)  f == DropElement(e)
           kept == \E i \in Buffers2 : ~Owned(d, i) /\ d.buffer[i].resource # Nothing
           g == DmxFlush(d)
<1>0. d \in DmxType /\ d.resources = Cardinality(OwnedSlots(d)) /\ OwnedSlots(d) \subseteq Buffers2
  BY DEF DmxOK, OwnedSlots
<1>1. /\ e \in DmxType
      /\ e.resources = Cardinality(OwnedSlots(e))
      /\ OwnedSlots(e) = OwnedSlots(d) \ Buffers2
      /\ \A i \in Buffers2 :
           e.buffer[i].resource = IF i \in Buffers2 /\ Owned(d, i) THEN Nothing ELSE d.buffer[i].resource
      /\ e = [d EXCEPT !.buffer = e.buffer, !.resources = e.resources]
  BY <1>0, DroppedOwned
<1>2. OwnedSlots(e) = {} /\ e.resources = 0
  BY <1>0, <1>1, FS_EmptySet
<1>3. /\ e.element = d.element /\ e.elements = d.elements /\ e.dropped = d.dropped
      /\ d.elements = IF d.element THEN 1 ELSE 0
  <2> HIDE DEF e
  <2> QED BY <1>0, <1>1 DEF DmxOK, DmxType
<1>4. /\ f \in DmxType /\ f.element = FALSE /\ f.elements = 0 /\ f.buffer = e.buffer
      /\ f.resources = e.resources /\ f.dropped = d.dropped
  <2> HIDE DEF e
  <2> QED BY <1>1, <1>3, DroppedElement
<1>5. g = [f EXCEPT !.last = Nothing, !.dropped = d.dropped \/ kept]
  <2>1. g = [f EXCEPT !.last = Nothing, !.dropped = f.dropped \/ kept]
    BY DEF DmxFlush
  <2> QED BY <2>1, <1>4
<1>6. /\ g \in DmxType /\ g.buffer = e.buffer /\ g.resources = 0 /\ g.elements = 0
      /\ g.element = FALSE /\ g.last = Nothing /\ g.dropped = (d.dropped \/ kept)
  <2> HIDE DEF e, f, g, kept
  <2>1. (d.dropped \/ kept) \in BOOLEAN
    OBVIOUS
  <2> QED BY <1>2, <1>4, <1>5, <2>1 DEF DmxType
<1> HIDE DEF e, f, g
<1>7. OwnedSlots(g) = {}
  BY <1>2, <1>6 DEF OwnedSlots, Owned
<1>8. ~g.dropped => \A i \in Buffers2 : g.buffer[i].resource = Nothing
  BY <1>1, <1>6
<1>9. NextShown(g) \in Buffers2
  BY <1>6, BackIsOther DEF NextShown, DmxType
<1>10. DmxOK(g)
  BY <1>6, <1>7, <1>8, <1>9, FS_EmptySet DEF DmxOK
<1> QED BY <1>6, <1>10 DEF g

LEMMA FlippedOK ==
  ASSUME NEW d, DmxOK(d)
  PROVE  DmxOK(Flipped(d))
<1> DEFINE e == [d EXCEPT !.flip = FALSE, !.front = Back(d)]
<1>0. d \in DmxType
  BY DEF DmxOK
<1>1. CASE d.flip
  <2>1. /\ e \in DmxType /\ e.buffer = d.buffer /\ e.resources = d.resources
        /\ e.elements = d.elements /\ e.element = d.element /\ e.last = d.last
        /\ e.dropped = d.dropped /\ e.flip = FALSE /\ e.front = Back(d)
    BY <1>0, BackIsOther DEF DmxType
  <2>2. Flipped(d) = e
    BY <1>1 DEF Flipped
  <2>3. OwnedSlots(e) = OwnedSlots(d)
    BY <2>1 DEF OwnedSlots, Owned
  <2>4. NextShown(e) = NextShown(d)
    BY <1>1, <2>1 DEF NextShown
  <2> HIDE DEF e
  <2> QED BY <2>1, <2>2, <2>3, <2>4 DEF DmxOK
<1>2. CASE ~d.flip
  BY <1>2 DEF Flipped
<1> QED BY <1>1, <1>2

\* Changes that leave the resources alone.
LEMMA OtherFieldsOK ==
  ASSUME NEW d, DmxOK(d), NEW e \in DmxType,
         e.buffer = d.buffer, e.resources = d.resources, e.front = d.front, e.flip = d.flip,
         e.last = d.last, e.dropped = d.dropped, e.elements = IF e.element THEN 1 ELSE 0
  PROVE  DmxOK(e)
<1>1. OwnedSlots(e) = OwnedSlots(d)
  BY DEF OwnedSlots, Owned
<1>2. NextShown(e) = NextShown(d)
  BY DEF NextShown, Back
<1> QED BY <1>1, <1>2 DEF DmxOK

LEMMA ShownOK ==
  ASSUME NEW d, DmxOK(d), NEW added \in BOOLEAN
  PROVE  DmxOK(Shown(d, added))
<1> DEFINE bare == DropElement(d)
           clean == IF d.dirty THEN [bare EXCEPT !.dirty = FALSE] ELSE d
           more == [clean EXCEPT !.element = TRUE, !.elements = @ + 1]
<1>1. d \in DmxType /\ d.elements = IF d.element THEN 1 ELSE 0
  BY DEF DmxOK
<1>3. DmxOK(bare) /\ bare \in DmxType /\ bare.element = FALSE /\ bare.elements = 0
  <2>1. /\ bare \in DmxType /\ bare.element = FALSE /\ bare.elements = 0
        /\ bare.buffer = d.buffer /\ bare.resources = d.resources /\ bare.front = d.front
        /\ bare.flip = d.flip /\ bare.last = d.last /\ bare.dropped = d.dropped
    BY <1>1, DroppedElement
  <2> HIDE DEF bare
  <2> QED BY <2>1, OtherFieldsOK
<1>4. DmxOK(clean) /\ clean \in DmxType
  <2> HIDE DEF bare
  <2>1. CASE d.dirty
    <3> DEFINE c == [bare EXCEPT !.dirty = FALSE]
    <3>1. /\ c \in DmxType /\ c.element = FALSE /\ c.elements = 0
          /\ c.buffer = bare.buffer /\ c.resources = bare.resources /\ c.front = bare.front
          /\ c.flip = bare.flip /\ c.last = bare.last /\ c.dropped = bare.dropped
      BY <1>3 DEF DmxType
    <3> HIDE DEF c
    <3>2. DmxOK(c)
      BY <1>3, <3>1, OtherFieldsOK
    <3> QED BY <2>1, <3>1, <3>2 DEF c
  <2>2. CASE ~d.dirty
    BY <1>1, <2>2
  <2> QED BY <2>1, <2>2
<1>5. ASSUME ~clean.element PROVE DmxOK(more)
  <2> HIDE DEF clean
  <2>1. clean.elements = 0
    BY <1>4, <1>5 DEF DmxOK
  <2>2. /\ more \in DmxType /\ more.element = TRUE /\ more.elements = 1
        /\ more.buffer = clean.buffer /\ more.resources = clean.resources
        /\ more.front = clean.front /\ more.flip = clean.flip /\ more.last = clean.last
        /\ more.dropped = clean.dropped
    BY <1>4, <2>1, AddedElement
  <2> HIDE DEF more
  <2> QED BY <1>4, <2>2, OtherFieldsOK
<1>6. Shown(d, added) \in {bare, clean} \/ (~clean.element /\ Shown(d, added) = more)
  BY DEF Shown
<1> HIDE DEF bare, clean, more
<1> QED BY <1>3, <1>4, <1>5, <1>6

\* What a commit leaves in the back slot of d, whose slot may have been emptied before.
LEMMA PutOK ==
  ASSUME NEW d \in DmxType, d.resources = Cardinality(OwnedSlots(d)), NEW r \in DmxResource,
         NEW e \in DmxType,
         e.buffer = [d.buffer EXCEPT ![Back(d)] = r], e.front = d.front,
         e.elements = IF e.element THEN 1 ELSE 0,
         e.resources = IF r.owned /\ r.resource # Nothing /\ ~Owned(d, Back(d))
                       THEN d.resources + 1 ELSE d.resources,
         Owned(d, Back(d)) => r.owned /\ r.resource # Nothing,
         e.dropped \/ (e.flip /\ e.last = r.resource)
  PROVE  DmxOK(e)
<1> DEFINE b == Back(d)
<1>1. b \in Buffers2 /\ Back(e) = b
  BY BackIsOther DEF Back
<1>2. /\ e.buffer[b] = r
      /\ \A i \in Buffers2 : i # b => e.buffer[i] = d.buffer[i]
  BY <1>1 DEF DmxType
<1>3. OwnedSlots(e) = IF r.owned /\ r.resource # Nothing THEN OwnedSlots(d) \cup {b} ELSE OwnedSlots(d)
  BY <1>1, <1>2 DEF OwnedSlots, Owned
<1>4. IsFiniteSet(OwnedSlots(d))
  <2>1. 0 # 1 /\ OwnedSlots(d) \in SUBSET {0, 1}
    BY DEF OwnedSlots, Buffers2
  <2>2. IsFiniteSet({0}) /\ IsFiniteSet({0} \cup {1})
    BY FS_Singleton, FS_AddElement
  <2>3. OwnedSlots(d) \in SUBSET ({0} \cup {1})
    BY <2>1
  <2> QED BY <2>2, <2>3, FS_Subset
<1>5. Cardinality(OwnedSlots(d) \cup {b})
        = IF b \in OwnedSlots(d) THEN Cardinality(OwnedSlots(d)) ELSE Cardinality(OwnedSlots(d)) + 1
  BY <1>4, FS_AddElement
<1>6. b \in OwnedSlots(d) <=> Owned(d, b)
  BY <1>1 DEF OwnedSlots
<1>7. e.resources = Cardinality(OwnedSlots(e))
  BY <1>3, <1>5, <1>6
<1>8. ~e.dropped => NextShown(e) = b
  BY <1>1 DEF NextShown
<1>9. ~e.dropped => e.buffer[NextShown(e)].resource = e.last
  BY <1>2, <1>8
<1> QED BY <1>7, <1>9 DEF DmxOK

\* What a commit finds when it has emptied the back slot.
LEMMA BackEmptied ==
  ASSUME NEW d, DmxOK(d)
  PROVE  LET e == DropOwned(d, {Back(d)}) IN
         /\ e \in DmxType /\ e.resources = Cardinality(OwnedSlots(e)) /\ ~Owned(e, Back(e))
         /\ e.front = d.front /\ Back(e) = Back(d) /\ e.elements = IF e.element THEN 1 ELSE 0
<1> DEFINE e == DropOwned(d, {Back(d)})
<1>1. /\ d \in DmxType /\ d.resources = Cardinality(OwnedSlots(d)) /\ Back(d) \in Buffers2
      /\ d.elements = IF d.element THEN 1 ELSE 0
  BY BackIsOther DEF DmxOK
<1>2. /\ e \in DmxType
      /\ e.resources = Cardinality(OwnedSlots(e))
      /\ OwnedSlots(e) = OwnedSlots(d) \ {Back(d)}
      /\ e = [d EXCEPT !.buffer = e.buffer, !.resources = e.resources]
  <2>1. {Back(d)} \in SUBSET Buffers2
    BY <1>1
  <2> QED BY <1>1, <2>1, DroppedOwned
<1>3. e.front = d.front /\ e.element = d.element /\ e.elements = d.elements
  <2> HIDE DEF e
  <2> QED BY <1>1, <1>2 DEF DmxType
<1>4. Back(e) = Back(d)
  BY <1>3 DEF Back
<1>5. ~Owned(e, Back(e))
  BY <1>1, <1>2, <1>4 DEF OwnedSlots
<1> QED BY <1>1, <1>2, <1>3, <1>4, <1>5

LEMMA CommitClientOK ==
  ASSUME NEW d, DmxOK(d), NEW p \in Images \cup {Nothing}, NEW resized \in BOOLEAN
  PROVE  DmxOK(DmxCommitClient(d, p, resized))
<1> DEFINE e == DropOwned(d, {Back(d)})  b == Back(d)
           r == [resource |-> p, owned |-> FALSE]  n == e.resources  dirty == e.dirty \/ resized
           g == [e EXCEPT !.buffer = [e.buffer EXCEPT ![b] = r], !.resources = n,
                          !.dirty = dirty, !.flip = TRUE, !.last = p, !.dropped = FALSE]
<1>1. /\ e \in DmxType /\ e.resources = Cardinality(OwnedSlots(e)) /\ ~Owned(e, Back(e))
      /\ Back(e) = b /\ e.elements = IF e.element THEN 1 ELSE 0
  BY BackEmptied
<1>2. /\ b \in Buffers2 /\ r \in DmxResource /\ ~r.owned /\ r.resource = p
  BY BackIsOther DEF DmxOK, DmxResource
<1>3. DmxCommitClient(d, p, resized) = g
  <2> HIDE DEF e
  <2>1. e.buffer[b] = e.buffer[b]
    OBVIOUS
  <2>2. DmxCommitClient(d, p, resized)
        = [e EXCEPT !.buffer[b] = r, !.dirty = e.dirty \/ resized, !.flip = TRUE, !.last = p,
                    !.dropped = FALSE]
    BY DEF DmxCommitClient, e
  <2> QED BY <1>1, <2>2 DEF DmxType
<1>4. n \in Nat /\ dirty \in BOOLEAN
  <2> HIDE DEF e
  <2> QED BY <1>1 DEF DmxType
<1>5. n = e.resources
  OBVIOUS
<1> DEFINE buffer == [e.buffer EXCEPT ![b] = r]
<1>6. buffer \in [Buffers2 -> DmxResource]
  <2> HIDE DEF e, b, r
  <2> QED BY <1>1, <1>2 DEF DmxType
<1>7. g = [e EXCEPT !.buffer = buffer, !.resources = n, !.dirty = dirty, !.flip = TRUE,
                    !.last = p, !.dropped = FALSE]
  OBVIOUS
<1>8. /\ g \in DmxType /\ g.buffer = buffer /\ g.front = e.front
      /\ g.element = e.element /\ g.elements = e.elements /\ g.resources = n
      /\ g.flip = TRUE /\ g.last = p
  <2> HIDE DEF e, b, r, n, dirty, buffer, g
  <2>1. g \in DmxType
    BY <1>1, <1>4, <1>6, <1>7 DEF DmxType
  <2>2. /\ g.buffer = buffer /\ g.front = e.front
        /\ g.element = e.element /\ g.elements = e.elements /\ g.resources = n
        /\ g.flip = TRUE /\ g.last = p
    BY <1>1, <1>7 DEF DmxType
  <2> QED BY <2>1, <2>2
<1>9. DmxOK(g)
  <2> HIDE DEF e, b, r, n, dirty, g
  <2> QED BY <1>1, <1>2, <1>5, <1>8, PutOK
<1> QED BY <1>3, <1>9

LEMMA CommitShmOK ==
  ASSUME NEW d, DmxOK(d), NEW p \in Images, NEW resized \in BOOLEAN, NEW fits \in BOOLEAN,
         NEW made \in BOOLEAN
  PROVE  DmxOK(DmxCommitShm(d, p, resized, fits, made))
<1> DEFINE b == Back(d)  kept == Owned(d, b) /\ fits  e == IF kept THEN d ELSE DropOwned(d, {b})
           r == [resource |-> IF kept \/ made THEN p ELSE Nothing, owned |-> TRUE]
           n == IF ~kept /\ made THEN e.resources + 1 ELSE e.resources
           dirty == e.dirty \/ resized
           buffer == [e.buffer EXCEPT ![b] = r]
           new == [e EXCEPT !.buffer = buffer, !.resources = n, !.dirty = dirty]
           good == [new EXCEPT !.flip = TRUE, !.last = p, !.dropped = FALSE]
           bad == [new EXCEPT !.dropped = TRUE]
<1>1. /\ e \in DmxType /\ e.resources = Cardinality(OwnedSlots(e)) /\ Back(e) = b
      /\ e.elements = IF e.element THEN 1 ELSE 0
      /\ Owned(e, Back(e)) <=> kept
  <2>1. CASE kept
    BY <2>1 DEF DmxOK
  <2>2. CASE ~kept
    <3>1. e = DropOwned(d, {Back(d)})
      BY <2>2
    <3> QED BY <2>2, <3>1, BackEmptied
  <2> QED BY <2>1, <2>2
<1>2. b \in Buffers2
  BY BackIsOther DEF DmxOK
<1>3. /\ r \in DmxResource /\ r.owned /\ r.resource = IF kept \/ made THEN p ELSE Nothing
  <2> HIDE DEF kept
  <2> QED BY DEF DmxResource
<1>4. DmxCommitShm(d, p, resized, fits, made) = IF kept \/ made THEN good ELSE bad
  <2>1. new = [e EXCEPT !.buffer[b] = r, !.resources = IF ~kept /\ made THEN @ + 1 ELSE @,
                        !.dirty = @ \/ resized]
    OBVIOUS
  <2> QED BY <2>1 DEF DmxCommitShm
<1>5. n \in Nat /\ dirty \in BOOLEAN
  <2> HIDE DEF e, kept
  <2> QED BY <1>1 DEF DmxType
<1>6. buffer \in [Buffers2 -> DmxResource]
  <2> HIDE DEF e, b, r
  <2> QED BY <1>1, <1>2, <1>3 DEF DmxType
<1>7. /\ new \in DmxType /\ new.buffer = buffer /\ new.front = e.front
      /\ new.element = e.element /\ new.elements = e.elements /\ new.resources = n
  <2> HIDE DEF e, n, dirty, buffer
  <2> QED BY <1>1, <1>5, <1>6 DEF DmxType
<1>8. /\ good \in DmxType /\ good.buffer = buffer /\ good.front = e.front
      /\ good.element = e.element /\ good.elements = e.elements /\ good.resources = n
      /\ good.flip = TRUE /\ good.last = p
  <2> HIDE DEF e, n, buffer, new
  <2> QED BY <1>7 DEF DmxType
<1>9. /\ bad \in DmxType /\ bad.buffer = buffer /\ bad.front = e.front
      /\ bad.element = e.element /\ bad.elements = e.elements /\ bad.resources = n
      /\ bad.dropped = TRUE
  <2> HIDE DEF e, n, buffer, new
  <2> QED BY <1>7 DEF DmxType
<1>10. p # Nothing
  BY NothingAssumption
<1>11. n = IF r.owned /\ r.resource # Nothing /\ ~Owned(e, Back(e)) THEN e.resources + 1 ELSE e.resources
  <2> HIDE DEF e, r, kept
  <2> QED BY <1>1, <1>3, <1>10
<1>12. CASE kept \/ made
  <2>1. DmxOK(good)
    <3> HIDE DEF e, b, r, n, kept, good
    <3> QED BY <1>1, <1>3, <1>8, <1>10, <1>11, <1>12, PutOK
  <2> HIDE DEF good, bad, kept
  <2> QED BY <1>4, <1>12, <2>1
<1>13. CASE ~(kept \/ made)
  <2>1. DmxOK(bad)
    <3> HIDE DEF e, b, r, n, kept, bad
    <3> QED BY <1>1, <1>3, <1>9, <1>11, <1>13, PutOK
  <2> HIDE DEF good, bad, kept
  <2> QED BY <1>4, <1>13, <2>1
<1> QED BY <1>12, <1>13

--------------------------------------------------------------------------------
(* The Dispmanx renderer. *)

LEMMA DmxInitInv ==
  ASSUME DmxInit
  PROVE  DmxInv
BY DEF DmxInit, DmxInv, DmxLive

\* A surface is changed.
LEMMA DmxOneChanged ==
  ASSUME DmxInv, NEW s \in DmxLive, NEW e, DmxOK(e),
         dmxSurfaces' = [dmxSurfaces EXCEPT ![s] = e],
         UNCHANGED <<dmxUp, updateInProgress, dmxLeft>>
  PROVE  DmxInv'
<1>1. /\ dmxSurfaces' = [t \in DOMAIN dmxSurfaces |-> IF t = s THEN e ELSE dmxSurfaces[t]]
      /\ \A t \in DOMAIN dmxSurfaces : DmxOK(dmxSurfaces[t])
  BY DEF DmxInv, DmxLive
<1>2. /\ DOMAIN dmxSurfaces' = DOMAIN dmxSurfaces
      /\ \A t \in DOMAIN dmxSurfaces' : DmxOK(dmxSurfaces'[t])
      /\ dmxSurfaces' = [t \in DOMAIN dmxSurfaces' |-> dmxSurfaces'[t]]
  BY <1>1
<1> QED BY <1>2 DEF DmxInv, DmxLive

LEMMA DmxStep ==
  ASSUME DmxInv, [DmxNext]_dmxVars
  PROVE  DmxInv'
<1>1. ASSUME DmxCreate \/ DmxTerm \/ UpdateComplete PROVE DmxInv'
  BY <1>1 DEF DmxInv, DmxLive, DmxCreate, DmxTerm, UpdateComplete
<1>2. ASSUME DmxUpdateScene PROVE DmxInv'
  <2>1. PICK added \in SUBSET DmxLive :
          dmxSurfaces' = [s \in DmxLive |-> Shown(Flipped(dmxSurfaces[s]), s \in added)]
    BY <1>2 DEF DmxUpdateScene
  <2>2. \A s \in DmxLive : DmxOK(Shown(Flipped(dmxSurfaces[s]), s \in added))
    <3> TAKE s \in DmxLive
    <3>1. DmxOK(Flipped(dmxSurfaces[s]))
      BY FlippedOK DEF DmxInv
    <3>2. (s \in added) \in BOOLEAN
      OBVIOUS
    <3> QED BY <3>1, <3>2, ShownOK
  <2> QED BY <1>2, <2>1, <2>2 DEF DmxInv, DmxLive, DmxUpdateScene
<1>3. ASSUME NEW s, DmxSurfaceCreate(s) PROVE DmxInv'
  <2>1. DmxOK(NewDmxSurface)
    BY NewIsOK
  <2>2. /\ dmxSurfaces' = [t \in DmxLive \cup {s} |-> IF t = s THEN NewDmxSurface ELSE dmxSurfaces[t]]
        /\ \A t \in DmxLive : DmxOK(dmxSurfaces[t])
    BY <1>3 DEF DmxSurfaceCreate, DmxInv
  <2> QED BY <1>3, <2>1, <2>2 DEF DmxInv, DmxLive, DmxSurfaceCreate
<1>4. ASSUME NEW s, DmxSurfaceDestroy(s) PROVE DmxInv'
  <2>1. /\ DmxFlush(dmxSurfaces[s]).resources = 0 /\ DmxFlush(dmxSurfaces[s]).elements = 0
    BY <1>4, FlushOK DEF DmxSurfaceDestroy, DmxInv
  <2>2. dmxLeft' = 0
    BY <1>4, <2>1 DEF DmxSurfaceDestroy, DmxInv
  <2> QED BY <1>4, <2>2 DEF DmxInv, DmxLive, DmxSurfaceDestroy
<1>5. ASSUME NEW s, DmxSurfaceCommitNull(s) PROVE DmxInv'
  <2>1. /\ s \in DmxLive /\ DmxOK(DmxFlush(dmxSurfaces[s]))
        /\ dmxSurfaces' = [dmxSurfaces EXCEPT ![s] = DmxFlush(dmxSurfaces[s])]
        /\ UNCHANGED <<dmxUp, updateInProgress, dmxLeft>>
    BY <1>5, FlushOK DEF DmxSurfaceCommitNull, DmxInv
  <2> QED BY <2>1, DmxOneChanged
<1>6. ASSUME NEW s, NEW p \in Images, DmxSurfaceCommit(s, p) PROVE DmxInv'
  <2>1. PICK resized, fits, made \in BOOLEAN :
        \E next \in {DmxCommitShm(dmxSurfaces[s], p, resized, fits, made),
                     DmxCommitClient(dmxSurfaces[s], p, resized)}
                    \cup DmxCommitWaylandEGL(dmxSurfaces[s], p, resized) :
          dmxSurfaces' = [dmxSurfaces EXCEPT ![s] = next]
    BY <1>6 DEF DmxSurfaceCommit
  <2>2. s \in DmxLive /\ DmxOK(dmxSurfaces[s]) /\ UNCHANGED <<dmxUp, updateInProgress, dmxLeft>>
    BY <1>6 DEF DmxSurfaceCommit, DmxInv
  <2>3. /\ DmxOK(DmxCommitShm(dmxSurfaces[s], p, resized, fits, made))
        /\ DmxOK(DmxCommitClient(dmxSurfaces[s], p, resized))
        /\ DmxOK(DmxCommitClient(dmxSurfaces[s], Nothing, resized))
    BY <2>2, CommitShmOK, CommitClientOK
  <2>4. PICK next : DmxOK(next) /\ dmxSurfaces' = [dmxSurfaces EXCEPT ![s] = next]
    BY <2>1, <2>3 DEF DmxCommitWaylandEGL
  <2> QED BY <2>2, <2>4, DmxOneChanged
<1>7. ASSUME NEW s, NEW e \in DmxType, s \in DmxLive,
             \/ \E v \in BOOLEAN : e = [dmxSurfaces[s] EXCEPT !.visible = v]
             \/ e = [dmxSurfaces[s] EXCEPT !.dirty = TRUE]
      PROVE  DmxOK(e)
  <2> DEFINE d == dmxSurfaces[s]
  <2>1. DmxOK(d)
    BY <1>7 DEF DmxInv
  <2>2. d \in DmxType /\ d.elements = IF d.element THEN 1 ELSE 0
    BY <2>1 DEF DmxOK
  <2>3. /\ e.buffer = d.buffer /\ e.resources = d.resources /\ e.front = d.front
        /\ e.flip = d.flip /\ e.last = d.last /\ e.dropped = d.dropped
        /\ e.element = d.element /\ e.elements = d.elements
    <3> HIDE DEF d
    <3>1. CASE \E v \in BOOLEAN : e = [d EXCEPT !.visible = v]
      BY <2>2, <3>1 DEF DmxType
    <3>2. CASE e = [d EXCEPT !.dirty = TRUE]
      BY <2>2, <3>2 DEF DmxType
    <3> QED BY <1>7, <3>1, <3>2 DEF d
  <2> HIDE DEF d
  <2> QED BY <2>1, <2>2, <2>3, OtherFieldsOK
<1>8. ASSUME NEW s, NEW v \in BOOLEAN, DmxSetVisible(s, v) PROVE DmxInv'
  <2> DEFINE e == [dmxSurfaces[s] EXCEPT !.visible = v]
  <2>1. s \in DmxLive /\ dmxSurfaces[s] \in DmxType
    BY <1>8 DEF DmxSetVisible, DmxInv, DmxOK
  <2>2. e \in DmxType
    BY <2>1 DEF DmxType
  <2>3. DmxOK(e)
    BY <1>7, <2>1, <2>2
  <2>4. dmxSurfaces' = [dmxSurfaces EXCEPT ![s] = e]
    BY <1>8 DEF DmxSetVisible
  <2> QED BY <1>8, <2>1, <2>3, <2>4, DmxOneChanged DEF DmxSetVisible
<1>9. ASSUME NEW s, DmxSetDirty(s) PROVE DmxInv'
  <2> DEFINE e == [dmxSurfaces[s] EXCEPT !.dirty = TRUE]
  <2>1. s \in DmxLive /\ dmxSurfaces[s] \in DmxType
    BY <1>9 DEF DmxSetDirty, DmxInv, DmxOK
  <2>2. e \in DmxType
    BY <2>1 DEF DmxType
  <2>3. DmxOK(e)
    BY <1>7, <2>1, <2>2
  <2>4. dmxSurfaces' = [dmxSurfaces EXCEPT ![s] = e]
    BY <1>9 DEF DmxSetDirty
  <2> QED BY <1>9, <2>1, <2>3, <2>4, DmxOneChanged DEF DmxSetDirty
<1>10. ASSUME UNCHANGED dmxVars PROVE DmxInv'
  BY <1>10 DEF dmxVars, DmxInv, DmxLive
<1> QED
  BY <1>1, <1>2, <1>3, <1>4, <1>5, <1>6, <1>8, <1>9, <1>10 DEF DmxNext

\* A surface shows the picture that was committed last, and the display keeps nothing of a
\* surface that is gone: for any number of surfaces and pictures.
THEOREM DmxKept == DmxSpec => []DmxContentKept
<1>1. DmxInv => DmxContentKept
  <2> SUFFICES ASSUME DmxInv PROVE DmxContentKept
    OBVIOUS
  <2>1. \A s \in DmxLive : DmxOK(dmxSurfaces[s])
    BY DEF DmxInv
  <2> QED BY <2>1 DEF DmxInv, DmxContentKept, DmxShowsLatest, DmxNothingLeft, DmxOK, OwnedSlots, NextShown
<1> QED BY <1>1, DmxInitInv, DmxStep, PTL DEF DmxSpec

--------------------------------------------------------------------------------
(* The GL renderer. *)

GlTypeOK ==
  /\ glBuild \in {"rpi", "images"} /\ glUp \in BOOLEAN
  /\ eglSurface \in BOOLEAN /\ glCurrent \in BOOLEAN
  /\ glSurfaces = [s \in GlLive |-> glSurfaces[s]]
  /\ glVisible \in [GlSurfaces -> BOOLEAN] /\ glBlind \in BOOLEAN /\ glBroken \in BOOLEAN

GlInv ==
  /\ GlTypeOK /\ glLeft = 0
  /\ glBroken => glUp
  /\ \A s \in GlLive : CountsOK(glSurfaces[s]) /\ (~glBroken => ContentOK(glSurfaces[s]))

LEMMA GlInitInv ==
  ASSUME GlInit
  PROVE  GlInv
BY DEF GlInit, GlInv, GlTypeOK, GlLive

\* A surface is changed, by a call that may use freed memory.
LEMMA GlOneChanged ==
  ASSUME GlInv, NEW s \in GlLive, NEW e, glSurfaces' = [glSurfaces EXCEPT ![s] = e],
         CountsOK(e), ~glBroken, ContentOK(e), glUp, glBroken' \in BOOLEAN, glBlind' \in BOOLEAN,
         UNCHANGED <<glBuild, glUp, eglSurface, glCurrent, glVisible, glLeft>>
  PROVE  GlInv'
<1>1. /\ glSurfaces' = [t \in DOMAIN glSurfaces |-> IF t = s THEN e ELSE glSurfaces[t]]
      /\ \A t \in DOMAIN glSurfaces : CountsOK(glSurfaces[t]) /\ ContentOK(glSurfaces[t])
  BY DEF GlInv, GlTypeOK, GlLive
<1>2. /\ \A t \in DOMAIN glSurfaces' : CountsOK(glSurfaces'[t]) /\ ContentOK(glSurfaces'[t])
      /\ glSurfaces' = [t \in DOMAIN glSurfaces' |-> glSurfaces'[t]]
  BY <1>1
<1> QED BY <1>2 DEF GlInv, GlTypeOK, GlLive

LEMMA GlStep ==
  ASSUME GlInv, [GlNext]_glVars
  PROVE  GlInv'
<1> USE DEF GlRuns
<1>1. ASSUME GlCreate PROVE GlInv'
  BY <1>1 DEF GlCreate, SetupEGL, GlInv, GlTypeOK, GlLive
<1>2. ASSUME GlTerm PROVE GlInv'
  BY <1>2 DEF GlTerm, GlInv, GlTypeOK, GlLive
<1>3. ASSUME ResolutionChangeBegin \/ ResolutionChangeEnd PROVE GlInv'
  BY <1>3 DEF ResolutionChangeBegin, ResolutionChangeEnd, GlInv, GlTypeOK, GlLive
<1>4. ASSUME GlUpdateScene PROVE GlInv'
  <2> DEFINE after(s) == IF GlDrawn(s) THEN RenderSurface(glSurfaces[s]) ELSE glSurfaces[s]
  <2>1. /\ GlRuns /\ glSurfaces' = [s \in GlLive |-> after(s)]
        /\ glBroken' = \E s \in GlLive : GlDrawn(s) /\ Misuses(glSurfaces[s]) /\ Uploads(glSurfaces[s])
        /\ glCurrent' = TRUE
        /\ UNCHANGED <<glBuild, glUp, eglSurface, glVisible, glLeft, glBlind>>
    BY <1>4 DEF GlUpdateScene
  <2>2. \A s \in GlLive : CountsOK(after(s)) /\ (~glBroken' => ContentOK(after(s)))
    <3> TAKE s \in GlLive
    <3>1. CountsOK(glSurfaces[s]) /\ ContentOK(glSurfaces[s])
      BY <2>1 DEF GlInv
    <3>2. CASE GlDrawn(s)
      <4>1. CountsOK(RenderSurface(glSurfaces[s]))
        BY <3>1, DrawnOK
      <4>2. ASSUME ~glBroken' PROVE ContentOK(RenderSurface(glSurfaces[s]))
        <5>1. /\ HasContent(glSurfaces[s])
              /\ ~(Misuses(glSurfaces[s]) /\ Uploads(glSurfaces[s]))
          BY <2>1, <3>2, <4>2 DEF GlDrawn
        <5>2. glSurfaces[s].mem = Freed /\ glSurfaces[s].eglImage[1] = None
                => glSurfaces[s].textureId[1] # None /\ ~glSurfaces[s].memDirty
          BY <5>1, ContentAssumption DEF Misuses, Uploads
        <5> QED BY <3>1, <5>1, <5>2, DrawnOK
      <4> QED BY <3>2, <4>1, <4>2
    <3>3. CASE ~GlDrawn(s)
      BY <3>1, <3>3
    <3> QED BY <3>2, <3>3
  <2> HIDE DEF after
  <2>3. glBroken' \in BOOLEAN
    BY <2>1
  <2> QED BY <2>1, <2>2, <2>3 DEF GlInv, GlTypeOK, GlLive
<1>5. ASSUME NEW s \in GlSurfaces, GlSurfaceCreate(s) PROVE GlInv'
  <2>1. CountsOK(NewContent) /\ ContentOK(NewContent)
    BY NewContentOK
  <2>2. /\ glSurfaces' = [t \in GlLive \cup {s} |-> IF t = s THEN NewContent ELSE glSurfaces[t]]
        /\ \A t \in GlLive : CountsOK(glSurfaces[t]) /\ ContentOK(glSurfaces[t])
    BY <1>5 DEF GlSurfaceCreate, GlInv
  <2> QED BY <1>5, <2>1, <2>2 DEF GlInv, GlTypeOK, GlLive, GlSurfaceCreate
<1>6. ASSUME NEW s \in GlSurfaces, s \in GlLive
      PROVE  /\ CountsOK(GlFlushSurface(s)) /\ GlFlushSurface(s).textures = 0
             /\ GlFlushSurface(s).images = 0
             /\ ContentOK(glSurfaces[s]) => ContentOK(GlFlushSurface(s))
  <2>1. CountsOK(glSurfaces[s]) /\ Freed \in {None, Freed}
    BY <1>6 DEF GlInv
  <2> QED BY <2>1, FlushedOK DEF GlFlushSurface
<1>7. ASSUME NEW s \in GlSurfaces, GlSurfaceDestroy(s) PROVE GlInv'
  <2>1. /\ GlFlushSurface(s).textures = 0 /\ GlFlushSurface(s).images = 0
    BY <1>6, <1>7 DEF GlSurfaceDestroy
  <2>2. glLeft' = 0 /\ glBlind' \in BOOLEAN /\ glBroken' \in BOOLEAN
    BY <1>7, <2>1 DEF GlSurfaceDestroy, GlInv, GlTypeOK, Misuses
  <2>3. /\ glSurfaces' = [t \in GlLive \ {s} |-> glSurfaces[t]]
        /\ \A t \in GlLive : CountsOK(glSurfaces[t]) /\ ContentOK(glSurfaces[t])
    BY <1>7 DEF GlSurfaceDestroy, GlInv
  <2> QED BY <1>7, <2>2, <2>3 DEF GlInv, GlTypeOK, GlLive, GlSurfaceDestroy
<1>8. ASSUME NEW s \in GlSurfaces, GlSurfaceCommitNull(s) PROVE GlInv'
  <2>1. /\ s \in GlLive /\ glUp /\ ~glBroken
        /\ glSurfaces' = [glSurfaces EXCEPT ![s] = GlFlushSurface(s)]
        /\ glBlind' \in BOOLEAN /\ glBroken' \in BOOLEAN
        /\ UNCHANGED <<glBuild, glUp, eglSurface, glCurrent, glVisible, glLeft>>
    BY <1>8 DEF GlSurfaceCommitNull, GlInv, GlTypeOK, Misuses
  <2>2. CountsOK(GlFlushSurface(s)) /\ ContentOK(GlFlushSurface(s))
    BY <1>6, <2>1 DEF GlInv
  <2> QED BY <2>1, <2>2, GlOneChanged
<1>9. ASSUME NEW s \in GlSurfaces, NEW p \in Pictures, GlSurfaceCommit(s, p) PROVE GlInv'
  <2> DEFINE c == glSurfaces[s]
  <2>1. PICK next \in GlCommits(c, p) :
          /\ glSurfaces' = [glSurfaces EXCEPT ![s] = next]
          /\ glBlind' = (glBlind \/ DeletesBlindly(s, next))
          /\ glBroken' = GlMisuses(c, next)
    BY <1>9 DEF GlSurfaceCommit
  <2>2. /\ s \in GlLive /\ glUp /\ ~glBroken
        /\ UNCHANGED <<glBuild, glUp, eglSurface, glCurrent, glVisible, glLeft>>
        /\ CountsOK(c) /\ ContentOK(c)
    BY <1>9 DEF GlSurfaceCommit, GlInv
  <2>3. CountsOK(next) /\ ContentOK(next)
    <3> HIDE DEF c
    <3>1. \/ next = CommitShm(c, p)
          \/ \E read \in BOOLEAN : next = CommitDispmanx(c, p, read)
          \/ \E f \in Formats, made \in SUBSET Planes : next = CommitWaylandEGL(c, f, p, made)
          \/ \E got, same, made \in BOOLEAN : next = CommitSB(c, p, got, same, made)
      BY <2>1 DEF GlCommits
    <3> QED BY <2>2, <3>1, ShmCommitted, DispmanxCommitted, WaylandEGLCommitted, SBCommitted
  <2>4. glBlind' \in BOOLEAN /\ glBroken' \in BOOLEAN
    BY <2>1 DEF DeletesBlindly, GlMisuses, Misuses, GlInv, GlTypeOK
  <2> QED BY <2>1, <2>2, <2>3, <2>4, GlOneChanged
<1>10. ASSUME NEW s \in GlSurfaces, NEW v \in BOOLEAN, GlSetVisible(s, v) PROVE GlInv'
  BY <1>10 DEF GlSetVisible, GlInv, GlTypeOK, GlLive
<1>11. ASSUME UNCHANGED glVars PROVE GlInv'
  BY <1>11 DEF glVars, GlInv, GlTypeOK, GlLive
<1> QED
  BY <1>1, <1>2, <1>3, <1>4, <1>5, <1>7, <1>8, <1>9, <1>10, <1>11 DEF GlNext

\* What the GL renderer draws of a surface is what was committed last, and no texture and
\* no image outlives its handle: for any number of surfaces and pictures.
THEOREM GlKept == GlSpec => []GlContentKept
<1>1. GlInv => GlContentKept
  <2> SUFFICES ASSUME GlInv PROVE GlContentKept
    OBVIOUS
  <2>1. GlNothingLeft
    BY NamedIsAll DEF GlInv, GlNothingLeft
  <2>2. GlShowsLatest
    BY ShownIsLatest DEF GlShowsLatest, GlInv, GlRuns
  <2> QED BY <2>1, <2>2 DEF GlContentKept
<1> QED BY <1>1, GlInitInv, GlStep, PTL DEF GlSpec

--------------------------------------------------------------------------------
(* Lists made step by step. *)

\* g is what a recursion of N steps in X makes.
MadeBy(g, X, start, step, N) ==
  /\ g \in [0 .. N -> X] /\ g[0] = start
  /\ \A n \in 1 .. N : g[n] = step[n][g[n - 1]]

\* A definition by recursion along a list defines something.
LEMMA RecursionAlong ==
  ASSUME NEW X, NEW start \in X, NEW N \in Nat, NEW step \in [1 .. N -> [X -> X]]
  PROVE  \E g : MadeBy(g, X, start, step, N)
<1> DEFINE Made(g, k) == /\ g \in [0 .. k -> X] /\ g[0] = start
                         /\ \A n \in 1 .. k : g[n] = step[n][g[n - 1]]
           Bad == {k \in 0 .. N : ~ \E g : Made(g, k)}
<1>1. ASSUME Bad # {} PROVE FALSE
  <2> DEFINE k == Min(Bad)
  <2>0. Bad \in SUBSET Nat
    OBVIOUS
  <2>1. k \in Bad /\ \A j \in Bad : k <= j
    <3> HIDE DEF Bad
    <3> QED BY <1>1, <2>0, MinInSet
  <2>2. k \in 0 .. N /\ ~ \E g : Made(g, k)
    BY <2>1
  <2>3. k # 0
    <3> DEFINE g == [n \in 0 .. 0 |-> start]
    <3>1. Made(g, 0)
      OBVIOUS
    <3> HIDE DEF Made, g
    <3> QED BY <2>2, <3>1
  <2>4. k - 1 \in 0 .. N /\ k - 1 \notin Bad
    <3> HIDE DEF k, Bad
    <3> QED BY <2>1, <2>2, <2>3
  <2> HIDE DEF k
  <2>5. PICK g : Made(g, k - 1)
    BY <2>4
  <2> DEFINE h == [n \in 0 .. k |-> IF n = k THEN step[k][g[k - 1]] ELSE g[n]]
  <2>6. k - 1 \in 0 .. (k - 1) /\ k \in 1 .. N /\ g[k - 1] \in X
    BY <2>2, <2>3, <2>5
  <2>7. step[k][g[k - 1]] \in X
    BY <2>6
  <2>8. h \in [0 .. k -> X] /\ h[0] = start
    BY <2>2, <2>3, <2>5, <2>7
  <2>9. \A n \in 1 .. k : h[n] = step[n][h[n - 1]]
    <3> TAKE n \in 1 .. k
    <3>1. n \in 0 .. k /\ n - 1 \in 0 .. k /\ n - 1 # k
      BY <2>2
    <3>2. h[n - 1] = g[n - 1]
      BY <3>1
    <3>3. CASE n = k
      BY <3>1, <3>2, <3>3
    <3>4. CASE n # k
      <4>1. n \in 1 .. (k - 1)
        BY <2>2, <3>4
      <4>2. g[n] = step[n][g[n - 1]]
        BY <2>5, <4>1
      <4> QED BY <3>1, <3>2, <3>4, <4>2
    <3> QED BY <3>3, <3>4
  <2> QED BY <2>2, <2>8, <2>9
<1>2. N \in 0 .. N /\ N \notin Bad
  <2>1. N \in 0 .. N
    OBVIOUS
  <2> HIDE DEF Bad
  <2> QED BY <1>1, <2>1
<1>3. \E g : Made(g, N)
  <2> HIDE DEF Made
  <2> QED BY <1>2
<1> QED BY <1>3 DEF MadeBy

\* An element at the end of a list that does not have it.
LEMMA AppendedBelow ==
  ASSUME NEW S, NEW list \in Seq(S), Once(list), NEW e \in S, e \notin ToSet(list)
  PROVE  LET r == Append(list, e) IN
         /\ r \in Seq(S) /\ Once(r)
         /\ \A t : t \in ToSet(r) <=> t \in ToSet(list) \/ t = e
         /\ \A t, u : Below(r, t, u) => Below(list, t, u) \/ (u = e /\ t \in ToSet(list))
<1> DEFINE r == Append(list, e)  n == Len(list)
<1>1. /\ n \in Nat
      /\ \A t : t \in ToSet(list) <=> \E i \in 1 .. n : list[i] = t
      /\ \A t, u : Below(list, t, u) <=> \E i, j \in 1 .. n : i < j /\ list[i] = t /\ list[j] = u
  BY ListFacts
<1>2. /\ r \in Seq(S) /\ Len(r) = n + 1 /\ r[n + 1] = e
      /\ \A i \in 1 .. n : r[i] = list[i]
  BY AppendProperties
<1> HIDE DEF r
<1>3. /\ \A t : t \in ToSet(r) <=> \E i \in 1 .. Len(r) : r[i] = t
      /\ \A t, u : Below(r, t, u) <=> \E i, j \in 1 .. Len(r) : i < j /\ r[i] = t /\ r[j] = u
  BY <1>2, ListFacts
<1> HIDE DEF n
<1>4. \A i \in 1 .. (n + 1) : i \in 1 .. n \/ i = n + 1
  BY <1>1
<1>5. Once(r)
  <2> SUFFICES ASSUME NEW i \in 1 .. (n + 1), NEW j \in 1 .. (n + 1), r[i] = r[j] PROVE i = j
    BY <1>2 DEF Once
  <2>1. CASE i \in 1 .. n /\ j \in 1 .. n
    BY <1>2, <2>1 DEF Once, n
  <2>2. CASE i \in 1 .. n /\ j = n + 1
    BY <1>1, <1>2, <2>2
  <2>3. CASE i = n + 1 /\ j \in 1 .. n
    BY <1>1, <1>2, <2>3
  <2> QED BY <1>4, <2>1, <2>2, <2>3
<1>6. \A t : t \in ToSet(r) <=> t \in ToSet(list) \/ t = e
  <2> TAKE t
  <2>1. ASSUME t \in ToSet(r) PROVE t \in ToSet(list) \/ t = e
    BY <1>1, <1>2, <1>3, <1>4, <2>1
  <2>2. ASSUME t \in ToSet(list) PROVE t \in ToSet(r)
    <3>1. \A i \in 1 .. n : i \in 1 .. (n + 1)
      BY <1>1
    <3> QED BY <1>1, <1>2, <1>3, <2>2, <3>1
  <2>3. e \in ToSet(r)
    <3>1. n + 1 \in 1 .. (n + 1)
      BY <1>1
    <3> QED BY <1>2, <1>3, <3>1
  <2> QED BY <2>1, <2>2, <2>3
<1>7. \A t, u : Below(r, t, u) => Below(list, t, u) \/ (u = e /\ t \in ToSet(list))
  <2> SUFFICES ASSUME NEW t, NEW u, Below(r, t, u)
               PROVE  Below(list, t, u) \/ (u = e /\ t \in ToSet(list))
    OBVIOUS
  <2>1. PICK i \in 1 .. (n + 1), j \in 1 .. (n + 1) : i < j /\ r[i] = t /\ r[j] = u
    BY <1>2, <1>3
  <2>2. i \in 1 .. n /\ list[i] = t
    BY <1>1, <1>2, <2>1
  <2>3. CASE j \in 1 .. n
    BY <1>1, <1>2, <2>1, <2>2, <2>3
  <2>4. CASE j = n + 1
    BY <1>1, <1>2, <2>1, <2>2, <2>4
  <2> QED BY <1>4, <2>3, <2>4
<1> QED BY <1>2, <1>5, <1>6, <1>7 DEF r

\* Only keeps what it is to keep, in its order.
LEMMA OnlyKeeps ==
  ASSUME NEW S, NEW list \in Seq(S), Once(list), NEW kept
  PROVE  LET r == Only(list, kept) IN
         /\ r \in Seq(S) /\ Once(r)
         /\ \A t : t \in ToSet(r) <=> t \in ToSet(list) /\ t \in kept
         /\ \A t, u : Below(r, t, u) => Below(list, t, u)
<1> DEFINE N == Len(list)
           step == [n \in 1 .. N |-> [l \in Seq(S) |->
                      IF list[n] \in kept THEN Append(l, list[n]) ELSE l]]
           G == CHOOSE h : h = [n \in 0 .. N |-> IF n = 0 THEN << >>
                  ELSE IF list[n] \in kept THEN Append(h[n - 1], list[n]) ELSE h[n - 1]]
<1>1. /\ N \in Nat /\ \A i \in 1 .. N : list[i] \in S
      /\ \A t : t \in ToSet(list) <=> \E i \in 1 .. N : list[i] = t
      /\ \A t, u : Below(list, t, u) <=> \E i, j \in 1 .. N : i < j /\ list[i] = t /\ list[j] = u
  BY ListFacts
<1>2. Only(list, kept) = G[N]
  BY DEF Only
<1>3. step \in [1 .. N -> [Seq(S) -> Seq(S)]] /\ << >> \in Seq(S)
  <2> SUFFICES ASSUME NEW n \in 1 .. N, NEW l \in Seq(S)
               PROVE  (IF list[n] \in kept THEN Append(l, list[n]) ELSE l) \in Seq(S)
    OBVIOUS
  <2> QED BY <1>1, AppendProperties
<1>4. \E g : g = [n \in 0 .. N |-> IF n = 0 THEN << >>
                    ELSE IF list[n] \in kept THEN Append(g[n - 1], list[n]) ELSE g[n - 1]]
  <2> HIDE DEF step
  <2>1. PICK g : MadeBy(g, Seq(S), << >>, step, N)
    <3> DEFINE start == << >>  X == Seq(S)
    <3>1. start \in X /\ N \in Nat /\ step \in [1 .. N -> [X -> X]]
      BY <1>1, <1>3
    <3> HIDE DEF start, X, N
    <3>2. \E g : MadeBy(g, X, start, step, N)
      BY <3>1, RecursionAlong
    <3> QED BY <3>2 DEF start, X
  <2>2. \A n \in 0 .. N : g[n] = IF n = 0 THEN << >>
                    ELSE IF list[n] \in kept THEN Append(g[n - 1], list[n]) ELSE g[n - 1]
    <3> TAKE n \in 0 .. N
    <3>1. CASE n = 0
      BY <2>1, <3>1 DEF MadeBy
    <3>2. CASE n # 0
      <4>1. n \in 1 .. N /\ n - 1 \in 0 .. N
        BY <1>1, <3>2
      <4>2. g[n - 1] \in Seq(S) /\ g[n] = step[n][g[n - 1]]
        BY <2>1, <3>2, <4>1 DEF MadeBy
      <4>3. step[n][g[n - 1]]
            = IF list[n] \in kept THEN Append(g[n - 1], list[n]) ELSE g[n - 1]
        BY <4>1, <4>2 DEF step
      <4> QED BY <3>2, <4>2, <4>3
    <3> QED BY <3>1, <3>2
  <2>3. g = [n \in 0 .. N |-> IF n = 0 THEN << >>
                    ELSE IF list[n] \in kept THEN Append(g[n - 1], list[n]) ELSE g[n - 1]]
    BY <2>1, <2>2 DEF MadeBy
  <2> QED BY <2>3
<1>5. G = [n \in 0 .. N |-> IF n = 0 THEN << >>
             ELSE IF list[n] \in kept THEN Append(G[n - 1], list[n]) ELSE G[n - 1]]
  BY <1>4, Zenon
<1> HIDE DEF G, step, N
<1> DEFINE Good(n) == /\ G[n] \in Seq(S) /\ Once(G[n])
                      /\ \A t : t \in ToSet(G[n]) <=> t \in kept /\ \E i \in 1 .. n : list[i] = t
                      /\ \A t, u : Below(G[n], t, u) =>
                           \E i, j \in 1 .. n : i < j /\ list[i] = t /\ list[j] = u
           Bad == {n \in 0 .. N : ~Good(n)}
<1>6. Good(0)
  <2>1. G[0] = << >>
    BY <1>1, <1>5
  <2>2. << >> \in Seq(S) /\ Once(<< >>) /\ \A t : t \notin ToSet(<< >>)
    BY DEF Once, ToSet
  <2>3. \A t, u : ~Below(<< >>, t, u)
    BY DEF Below
  <2> QED BY <2>1, <2>2, <2>3
<1>7. ASSUME NEW n \in 1 .. N, Good(n - 1) PROVE Good(n)
  <2> DEFINE l == G[n - 1]  e == list[n]
  <2>1. G[n] = IF e \in kept THEN Append(l, e) ELSE l
    <3>1. n \in 0 .. N /\ n # 0
      BY <1>1
    <3> HIDE DEF Good
    <3> QED BY <1>5, <3>1
  <2>2. /\ l \in Seq(S) /\ Once(l)
        /\ \A t : t \in ToSet(l) <=> t \in kept /\ \E i \in 1 .. (n - 1) : list[i] = t
        /\ \A t, u : Below(l, t, u) =>
             \E i, j \in 1 .. (n - 1) : i < j /\ list[i] = t /\ list[j] = u
    BY <1>7
  <2> HIDE DEF l
  <2>3. /\ \A i \in 1 .. (n - 1) : i \in 1 .. n /\ i < n /\ i \in 1 .. N
        /\ \A i \in 1 .. n : i \in 1 .. (n - 1) \/ i = n
        /\ n \in 1 .. n
    BY <1>1, <1>7
  <2>4. CASE e \in kept
    <3>1. e \in S /\ e \notin ToSet(l)
      BY <1>1, <1>7, <2>2, <2>3 DEF Once, N
    <3>2. /\ G[n] \in Seq(S) /\ Once(G[n])
          /\ \A t : t \in ToSet(G[n]) <=> t \in ToSet(l) \/ t = e
          /\ \A t, u : Below(G[n], t, u) => Below(l, t, u) \/ (u = e /\ t \in ToSet(l))
      BY <2>1, <2>2, <2>4, <3>1, AppendedBelow
    <3>3. \A t : t \in ToSet(G[n]) <=> t \in kept /\ \E i \in 1 .. n : list[i] = t
      BY <2>2, <2>3, <2>4, <3>2
    <3>4. \A t, u : Below(G[n], t, u) =>
            \E i, j \in 1 .. n : i < j /\ list[i] = t /\ list[j] = u
      BY <2>2, <2>3, <3>2
    <3> QED BY <3>2, <3>3, <3>4
  <2>5. CASE e \notin kept
    <3>1. G[n] = l
      BY <2>1, <2>5
    <3>2. \A t : t \in ToSet(l) <=> t \in kept /\ \E i \in 1 .. n : list[i] = t
      BY <2>2, <2>3, <2>5
    <3>3. \A t, u : Below(l, t, u) =>
            \E i, j \in 1 .. n : i < j /\ list[i] = t /\ list[j] = u
      BY <2>2, <2>3
    <3> QED BY <2>2, <3>1, <3>2, <3>3
  <2> QED BY <2>4, <2>5
<1>8. Good(N)
  <2> HIDE DEF Good
  <2> SUFFICES ASSUME Bad # {} PROVE FALSE
    BY <1>1
  <2>1. Min(Bad) \in Bad /\ \A j \in Bad : Min(Bad) <= j
    <3>1. Bad \in SUBSET Nat
      BY <1>1
    <3> HIDE DEF Bad
    <3> QED BY <3>1, MinInSet
  <2> DEFINE n == Min(Bad)
  <2>2. n \in 1 .. N /\ ~Good(n)
    BY <1>1, <1>6, <2>1
  <2>3. n - 1 \in 0 .. N /\ n - 1 \notin Bad
    BY <1>1, <2>1, <2>2
  <2> QED BY <1>7, <2>2, <2>3
<1> HIDE DEF Good
<1>9. /\ G[N] \in Seq(S) /\ Once(G[N])
      /\ \A t : t \in ToSet(G[N]) <=> t \in kept /\ \E i \in 1 .. N : list[i] = t
      /\ \A t, u : Below(G[N], t, u) => \E i, j \in 1 .. N : i < j /\ list[i] = t /\ list[j] = u
  BY <1>8 DEF Good
<1> QED BY <1>1, <1>2, <1>9

\* What the embedded renderer does to put a surface into a list.
LEMMA SameInto ==
  ASSUME NEW list, NEW e, NEW z
  PROVE  Into(list, e, z) = InsertSurface(list, e, z)
  BY DEF Into, InsertSurface

\* Lists of the surfaces, each once, in their order.
Stacks(z) == {list \in Seq(EmbSurfaces) : Once(list) /\ Ascending(list, z)}

LEMMA IntoPlaces ==
  ASSUME NEW z \in [EmbSurfaces -> Nat], NEW list \in Seq(EmbSurfaces), Once(list),
         NEW e \in EmbSurfaces, AscendingBut(list, z, e)
  PROVE  LET r == Into(list, e, z) IN
         r \in Stacks(z) /\ \A t : t \in ToSet(r) <=> t \in ToSet(list) \/ t = e
<1>1. LET r == InsertSurface(list, e, z) IN
        /\ r \in Seq(EmbSurfaces) /\ Once(r) /\ Ascending(r, z)
        /\ \A t : t \in ToSet(r) <=> t \in ToSet(list) \/ t = e
  BY Placed
<1>2. Into(list, e, z) = InsertSurface(list, e, z)
  BY SameInto
<1> DEFINE r == InsertSurface(list, e, z)
<1> HIDE DEF r
<1> QED BY <1>1, <1>2 DEF Stacks, r

\* FastCreated adds what it is to add.
LEMMA FastCreatedAdds ==
  ASSUME embZ \in [EmbSurfaces -> Nat], NEW list \in Stacks(embZ), NEW made \in Seq(EmbSurfaces)
  PROVE  LET r == FastCreated(list, made) IN
         r \in Stacks(embZ) /\ \A t : t \in ToSet(r) <=> t \in ToSet(list) \/ t \in ToSet(made)
<1> DEFINE N == Len(made)  X == Stacks(embZ)
           step == [n \in 1 .. N |-> [l \in X |-> Into(l, made[n], embZ)]]
           G == CHOOSE h : h = [n \in 0 .. N |-> IF n = 0 THEN list
                                                 ELSE Into(h[n - 1], made[n], embZ)]
<1>1. /\ N \in Nat /\ \A i \in 1 .. N : made[i] \in EmbSurfaces
      /\ \A t : t \in ToSet(made) <=> \E i \in 1 .. N : made[i] = t
  BY ListFacts
<1>2. FastCreated(list, made) = G[N]
  BY DEF FastCreated
<1>3. \A n \in 1 .. N, l \in X :
        /\ Into(l, made[n], embZ) \in X
        /\ \A t : t \in ToSet(Into(l, made[n], embZ)) <=> t \in ToSet(l) \/ t = made[n]
  <2> SUFFICES ASSUME NEW n \in 1 .. N, NEW l \in X
               PROVE  LET r == Into(l, made[n], embZ) IN
                      r \in X /\ \A t : t \in ToSet(r) <=> t \in ToSet(l) \/ t = made[n]
    OBVIOUS
  <2>1. /\ l \in Seq(EmbSurfaces) /\ Once(l) /\ made[n] \in EmbSurfaces
        /\ AscendingBut(l, embZ, made[n])
    BY <1>1 DEF Stacks, AscendingBut, Ascending
  <2> QED BY <2>1, IntoPlaces
<1>4. step \in [1 .. N -> [X -> X]] /\ list \in X
  BY <1>3
<1> HIDE DEF X
<1>5. \E g : /\ g = [n \in 0 .. N |-> IF n = 0 THEN list ELSE Into(g[n - 1], made[n], embZ)]
             /\ \A n \in 0 .. N : g[n] \in X
  <2> HIDE DEF step
  <2>1. PICK g : MadeBy(g, X, list, step, N)
    <3> HIDE DEF N
    <3> QED BY <1>1, <1>4, RecursionAlong
  <2>2. \A n \in 0 .. N : g[n] = IF n = 0 THEN list ELSE Into(g[n - 1], made[n], embZ)
    <3> TAKE n \in 0 .. N
    <3>1. CASE n = 0
      BY <2>1, <3>1 DEF MadeBy
    <3>2. CASE n # 0
      <4>1. n \in 1 .. N /\ n - 1 \in 0 .. N
        BY <1>1, <3>2
      <4>2. g[n - 1] \in X /\ g[n] = step[n][g[n - 1]]
        BY <2>1, <3>2, <4>1 DEF MadeBy
      <4>3. step[n][g[n - 1]] = Into(g[n - 1], made[n], embZ)
        BY <4>1, <4>2 DEF step
      <4> QED BY <3>2, <4>2, <4>3
    <3> QED BY <3>1, <3>2
  <2>3. g = [n \in 0 .. N |-> IF n = 0 THEN list ELSE Into(g[n - 1], made[n], embZ)]
    BY <2>1, <2>2 DEF MadeBy
  <2>4. \A n \in 0 .. N : g[n] \in X
    BY <2>1 DEF MadeBy
  <2> QED BY <2>3, <2>4
<1>6. G = [n \in 0 .. N |-> IF n = 0 THEN list ELSE Into(G[n - 1], made[n], embZ)]
  BY <1>5, Zenon
<1> HIDE DEF G, step
<1> DEFINE Good(n) == G[n] \in X /\ \A t : t \in ToSet(G[n]) <=>
                        t \in ToSet(list) \/ \E i \in 1 .. n : made[i] = t
           Bad == {n \in 0 .. N : ~Good(n)}
<1>7. Good(0)
  <2>1. G[0] = list /\ 0 \in 0 .. N
    BY <1>1, <1>6
  <2> QED BY <1>4, <2>1
<1>8. ASSUME NEW n \in 1 .. N, Good(n - 1) PROVE Good(n)
  <2>1. n \in 0 .. N /\ n # 0 /\ G[n] = Into(G[n - 1], made[n], embZ)
    <3>1. n \in 0 .. N /\ n # 0
      BY <1>1
    <3> HIDE DEF Good
    <3> QED BY <1>6, <3>1
  <2>2. \A i : i \in 1 .. n <=> i \in 1 .. (n - 1) \/ i = n
    BY <1>1
  <2> DEFINE l == G[n - 1]
  <2>3. l \in X /\ \A t : t \in ToSet(l) <=> t \in ToSet(list) \/ \E i \in 1 .. (n - 1) : made[i] = t
    BY <1>8
  <2> HIDE DEF l
  <2>4. G[n] \in X /\ \A t : t \in ToSet(G[n]) <=> t \in ToSet(l) \/ t = made[n]
    BY <1>3, <2>1, <2>3 DEF l
  <2> QED BY <2>2, <2>3, <2>4
<1>9. Good(N)
  <2> HIDE DEF Good
  <2> SUFFICES ASSUME Bad # {} PROVE FALSE
    BY <1>1
  <2>1. Min(Bad) \in Bad /\ \A j \in Bad : Min(Bad) <= j
    <3>1. Bad \in SUBSET Nat
      BY <1>1
    <3> HIDE DEF Bad
    <3> QED BY <3>1, MinInSet
  <2> DEFINE n == Min(Bad)
  <2>2. n \in 1 .. N /\ ~Good(n)
    BY <1>1, <1>7, <2>1
  <2>3. n - 1 \in 0 .. N /\ n - 1 \notin Bad
    BY <1>1, <2>1, <2>2
  <2> QED BY <1>8, <2>2, <2>3
<1> HIDE DEF Good
<1>10. G[N] \in X /\ \A t : t \in ToSet(G[N]) <=> t \in ToSet(list) \/ t \in ToSet(made)
  BY <1>1, <1>9 DEF Good
<1> QED BY <1>2, <1>10 DEF X

\* The beginning of a list.
LEMMA FirstOf ==
  ASSUME NEW S, NEW list \in Seq(S), NEW n \in 0 .. Len(list)
  PROVE  LET r == SubSeq(list, 1, n) IN
         /\ r \in Seq(S) /\ \A t : t \in ToSet(r) => t \in ToSet(list)
         /\ n = Len(list) => r = list
<1> DEFINE r == SubSeq(list, 1, n)
<1>1. /\ Len(list) \in Nat /\ \A i \in 1 .. Len(list) : list[i] \in S
      /\ \A t : t \in ToSet(list) <=> \E i \in 1 .. Len(list) : list[i] = t
  BY ListFacts
<1>2. r \in Seq(S) /\ Len(r) = n /\ \A i \in 1 .. n : r[i] = list[i]
  <2>1. /\ r \in Seq(S) /\ Len(r) = IF 1 <= n THEN n - 1 + 1 ELSE 0
        /\ \A i \in 1 .. (n - 1 + 1) : r[i] = list[1 + i - 1]
    BY <1>1, SubSeqProperties
  <2> QED BY <1>1, <2>1
<1> HIDE DEF r
<1>3. \A t : t \in ToSet(r) <=> \E i \in 1 .. Len(r) : r[i] = t
  BY <1>2, ListFacts
<1>4. n = Len(list) => r = list
  BY <1>1, <1>2, SeqEqual
<1> QED BY <1>1, <1>2, <1>3, <1>4 DEF r

--------------------------------------------------------------------------------
(* The embedded renderer. *)

PathType == [active : BOOLEAN, list : Seq(EmbSurfaces), visible : [EmbSurfaces -> BOOLEAN],
             failed : BOOLEAN]

EmbTypeOK ==
  /\ embFollows \in {"dispmanx", "images", "order"} /\ embUp \in BOOLEAN /\ rendererFast \in BOOLEAN
  /\ embList \in Seq(EmbSurfaces) /\ embZ \in [EmbSurfaces -> ZLevels]
  /\ embVisible \in [EmbSurfaces -> BOOLEAN] /\ embSurface \in [EmbSurfaces -> ContentType]
  /\ deadTextures \in BOOLEAN /\ fastHint \in BOOLEAN /\ fast \in PathType
  /\ embLeft \in Nat /\ embBroken \in BOOLEAN

\* Of a fast path, beside a list of surfaces with levels z.
FastPathOK(path, list, z) ==
  /\ path \in PathType /\ path.list \in Stacks(z)
  /\ ToSet(path.list) \subseteq ToSet(list)
  /\ path.active /\ ~path.failed => ToSet(list) \subseteq ToSet(path.list)

\* Of the contents of the surfaces, which in this renderer name no freed memory.
FilledOK(content) ==
  /\ content \in [EmbSurfaces -> ContentType]
  /\ \A s \in EmbSurfaces :
       CountsOK(content[s]) /\ ContentOK(content[s]) /\ content[s].mem # Freed

EmbInv ==
  /\ EmbTypeOK
  /\ embList \in Stacks(embZ) /\ FastPathOK(fast, embList, embZ)
  /\ FilledOK(embSurface) /\ embLeft = 0
  /\ fast.active /\ ~fast.failed => ~embBroken

LEMMA RangeIsSet ==
  ASSUME NEW list
  PROVE  Range(list) = ToSet(list)
BY DEF Range, ToSet

LEMMA LevelsAreNumbers ==
  ASSUME NEW z \in [EmbSurfaces -> ZLevels]
  PROVE  z \in [EmbSurfaces -> Nat]
BY ZAssumption

\* The level of a surface that a list does not have.
LEMMA LevelElsewhere ==
  ASSUME NEW z \in [EmbSurfaces -> ZLevels], NEW list \in Stacks(z), NEW e, e \notin ToSet(list),
         NEW level
  PROVE  list \in Stacks([z EXCEPT ![e] = level])
<1>1. list \in Seq(EmbSurfaces) /\ Once(list) /\ Ascending(list, z)
  BY DEF Stacks
<1>2. \A t, u : Below(list, t, u) => /\ t \in EmbSurfaces /\ u \in EmbSurfaces
                                     /\ t \in ToSet(list) /\ u \in ToSet(list)
  BY <1>1, ListFacts
<1>3. Ascending(list, [z EXCEPT ![e] = level])
  BY <1>1, <1>2 DEF Ascending
<1> QED BY <1>1, <1>3 DEF Stacks

\* Some of the surfaces of a list.
LEMMA OnlyStacks ==
  ASSUME NEW z, NEW list \in Stacks(z), NEW kept
  PROVE  /\ Only(list, kept) \in Stacks(z)
         /\ \A t : t \in ToSet(Only(list, kept)) <=> t \in ToSet(list) /\ t \in kept
<1> DEFINE r == Only(list, kept)
<1>1. list \in Seq(EmbSurfaces) /\ Once(list) /\ Ascending(list, z)
  BY DEF Stacks
<1>2. /\ r \in Seq(EmbSurfaces) /\ Once(r)
      /\ \A t : t \in ToSet(r) <=> t \in ToSet(list) /\ t \in kept
      /\ \A t, u : Below(r, t, u) => Below(list, t, u)
  BY <1>1, OnlyKeeps
<1> HIDE DEF r
<1>3. Ascending(r, z)
  BY <1>1, <1>2 DEF Ascending
<1>4. r \in Stacks(z) /\ \A t : t \in ToSet(r) <=> t \in ToSet(list) /\ t \in kept
  BY <1>2, <1>3 DEF Stacks
<1> QED BY <1>4 DEF r

\* All but one of the surfaces of a list.
LEMMA RemovedStacks ==
  ASSUME NEW z, NEW list \in Stacks(z), NEW s
  PROVE  /\ RemoveFirst(list, s) \in Stacks(z)
         /\ \A t : t \in ToSet(RemoveFirst(list, s)) <=> t \in ToSet(list) /\ t # s
<1> DEFINE r == RemoveFirst(list, s)
<1>1. list \in Seq(EmbSurfaces) /\ Once(list) /\ Ascending(list, z)
  BY DEF Stacks
<1>2. /\ r \in Seq(EmbSurfaces) /\ Once(r)
      /\ \A t : t \in ToSet(r) <=> t \in ToSet(list) /\ t # s
      /\ \A t, u : Below(r, t, u) <=> Below(list, t, u) /\ t # s /\ u # s
  BY <1>1, TakenOut
<1> HIDE DEF r
<1>3. Ascending(r, z)
  BY <1>1, <1>2 DEF Ascending
<1>4. r \in Stacks(z) /\ \A t : t \in ToSet(r) <=> t \in ToSet(list) /\ t # s
  BY <1>2, <1>3 DEF Stacks
<1> QED BY <1>4 DEF r

\* y are levels z but for that of e.
Relevelled(y, z, e) == y \in [EmbSurfaces -> ZLevels] /\ \A t \in EmbSurfaces : t # e => y[t] = z[t]

\* One surface of a list at a new level.
LEMMA MovedStacks ==
  ASSUME NEW z \in [EmbSurfaces -> ZLevels], NEW list \in Stacks(z), NEW e \in EmbSurfaces,
         NEW y, Relevelled(y, z, e)
  PROVE  /\ Into(list, e, y) \in Stacks(y)
         /\ \A t : t \in ToSet(Into(list, e, y)) <=> t \in ToSet(list) \/ t = e
<1>1. y \in [EmbSurfaces -> Nat]
  BY LevelsAreNumbers DEF Relevelled
<1>2. list \in Seq(EmbSurfaces) /\ Once(list) /\ Ascending(list, z)
  BY DEF Stacks
<1>3. \A t, u : Below(list, t, u) => t \in EmbSurfaces /\ u \in EmbSurfaces
  BY <1>2, ListFacts
<1>4. AscendingBut(list, y, e)
  BY <1>2, <1>3 DEF Ascending, AscendingBut, Relevelled
<1> QED BY <1>1, <1>2, <1>4, IntoPlaces

LEMMA EmbInitInv ==
  ASSUME EmbInit
  PROVE  EmbInv
<1> DEFINE nil == << >>
<1>0. nil \in Seq(EmbSurfaces)
  OBVIOUS
<1>1. nil \in Seq(EmbSurfaces) /\ Len(nil) = 0
  OBVIOUS
<1> HIDE DEF nil
<1>2. (\A t : t \notin ToSet(nil)) /\ (\A t, u : ~Below(nil, t, u)) /\ Once(nil)
  <2>1. /\ \A t : t \in ToSet(nil) <=> \E i \in 1 .. Len(nil) : nil[i] = t
        /\ \A t, u : Below(nil, t, u)
                       <=> \E i, j \in 1 .. Len(nil) : i < j /\ nil[i] = t /\ nil[j] = u
    BY <1>0, ListFacts
  <2>2. \A i : i \notin 1 .. 0
    OBVIOUS
  <2>3. Once(nil)
    BY <1>1, <2>2 DEF Once
  <2> QED BY <1>1, <2>1, <2>2, <2>3
<1>3. nil \in Stacks(embZ)
  BY <1>1, <1>2 DEF Stacks, Ascending
<1>4. /\ fast = [active |-> FALSE, list |-> nil, visible |-> [s \in EmbSurfaces |-> TRUE],
                 failed |-> FALSE]
      /\ embList = nil
  BY DEF EmbInit, NoFastPath, nil
<1>5. fast \in PathType /\ fast.list = nil /\ ~fast.active
  BY <1>1, <1>4 DEF PathType
<1>6. FastPathOK(fast, embList, embZ)
  BY <1>2, <1>3, <1>4, <1>5 DEF FastPathOK
<1>7. CountsOK(NewContent) /\ ContentOK(NewContent) /\ NewContent \in ContentType
  BY NewContentOK DEF CountsOK
<1>8. NewContent.mem # Freed
  BY ContentAssumption DEF NewContent
<1>9. embSurface = [s \in EmbSurfaces |-> NewContent]
  BY DEF EmbInit
<1>10. FilledOK(embSurface)
  BY <1>7, <1>8, <1>9 DEF FilledOK
<1>11. EmbTypeOK
  BY <1>1, <1>4, <1>5, <1>7, ZAssumption DEF EmbInit, EmbTypeOK
<1> QED BY <1>3, <1>4, <1>5, <1>6, <1>10, <1>11 DEF EmbInv, EmbInit

\* A surface of the contents is given another content.
LEMMA OneFilled ==
  ASSUME NEW content, FilledOK(content), NEW s \in EmbSurfaces, NEW e, CountsOK(e), ContentOK(e),
         e.mem # Freed
  PROVE  FilledOK([content EXCEPT ![s] = e])
<1>1. e \in ContentType
  BY DEF CountsOK
<1> QED BY <1>1 DEF FilledOK

\* A path with another list and another visibility.
LEMMA PathChanged ==
  ASSUME NEW path \in PathType, NEW list \in Seq(EmbSurfaces),
         NEW shown \in [EmbSurfaces -> BOOLEAN], NEW active \in BOOLEAN, NEW failed \in BOOLEAN,
         NEW e, e = [path EXCEPT !.list = list, !.visible = shown, !.active = active,
                                 !.failed = failed]
  PROVE  /\ e \in PathType /\ e.list = list /\ e.active = active /\ e.failed = failed
BY DEF PathType

\* The fast surfaces of all but cursors go.
LEMMA DeactivatedOK ==
  ASSUME NEW path \in PathType, path.list \in Stacks(embZ)
  PROVE  LET e == Deactivated(path) IN
         /\ e \in PathType /\ e.list \in Stacks(embZ) /\ ToSet(e.list) \subseteq ToSet(path.list)
         /\ e.active = path.active /\ e.failed = path.failed
<1> DEFINE kept == {s \in EmbSurfaces : embZ[s] = ZCursor}
           list == Only(path.list, kept)
           shown == [s \in EmbSurfaces |-> embZ[s] = ZCursor => path.visible[s]]
           e == [path EXCEPT !.list = list, !.visible = shown]
<1>1. list \in Stacks(embZ) /\ ToSet(list) \subseteq ToSet(path.list)
  BY OnlyStacks
<1>2. list \in Seq(EmbSurfaces)
  BY <1>1 DEF Stacks
<1>3. shown \in [EmbSurfaces -> BOOLEAN]
  OBVIOUS
<1>4. Deactivated(path) = e
  BY DEF Deactivated, PathType
<1> HIDE DEF list, shown
<1>5. e \in PathType /\ e.list = list /\ e.active = path.active /\ e.failed = path.failed
  BY <1>2, <1>3 DEF PathType
<1> HIDE DEF e
<1>6. /\ e \in PathType /\ e.list \in Stacks(embZ) /\ ToSet(e.list) \subseteq ToSet(path.list)
      /\ e.active = path.active /\ e.failed = path.failed
  BY <1>1, <1>5
<1> QED BY <1>4, <1>6

\* A scene that a handler may go on with.
SceneOK(scene) ==
  FastPathOK(scene.path, embList, embZ) /\ FilledOK(scene.content) /\ scene.dead \in BOOLEAN

\* All surfaces flushed.
LEMMA AllFlushed ==
  ASSUME NEW content, FilledOK(content)
  PROVE  FilledOK([s \in EmbSurfaces |-> EmbFlush(content[s])])
<1>1. \A s \in EmbSurfaces : LET e == EmbFlush(content[s]) IN
        CountsOK(e) /\ ContentOK(e) /\ e.mem # Freed
  <2> SUFFICES ASSUME NEW s \in EmbSurfaces
               PROVE  LET e == EmbFlush(content[s]) IN
                      CountsOK(e) /\ ContentOK(e) /\ e.mem # Freed
    OBVIOUS
  <2> DEFINE left == None
  <2>1. CountsOK(content[s]) /\ ContentOK(content[s]) /\ left \in {None, Freed} /\ left = None
    BY DEF FilledOK
  <2> HIDE DEF left
  <2>2. LET e == Flushed(content[s], left) IN
        CountsOK(e) /\ ContentOK(e) /\ e.mem = IF content[s].mem = None THEN None ELSE left
    BY <2>1, FlushedOK
  <2> QED BY <2>1, <2>2, ContentAssumption DEF EmbFlush
<1>2. \A s \in EmbSurfaces : EmbFlush(content[s]) \in ContentType
  BY <1>1 DEF CountsOK
<1> QED BY <1>1, <1>2 DEF FilledOK

\* Fast surfaces for the first n surfaces that have none.
LEMMA ActivatedOK ==
  ASSUME EmbInv, NEW scene, SceneOK(scene), NEW n \in 0 .. Len(Lacking(scene.path))
  PROVE  SceneOK(ActivateFastPath(scene, n))
<1> DEFINE old == scene.path.list
           lacking == Lacking(scene.path)
           made == SubSeq(lacking, 1, n)
           all == n = Len(lacking)
           list == FastCreated(old, made)
           shown == [s \in EmbSurfaces |-> s \in Range(made) \/ scene.path.visible[s]]
           path == [active |-> all, list |-> list, visible |-> shown,
                    failed |-> scene.path.failed \/ ~all]
           content == IF all THEN [s \in EmbSurfaces |-> EmbFlush(scene.content[s])]
                      ELSE scene.content
           dead == scene.dead \/ (all /\ \E s \in Listed : scene.content[s].textures > 0)
<1>1. /\ scene.path \in PathType /\ old \in Stacks(embZ) /\ ToSet(old) \subseteq ToSet(embList)
      /\ FilledOK(scene.content) /\ scene.dead \in BOOLEAN
      /\ embList \in Stacks(embZ) /\ embZ \in [EmbSurfaces -> Nat]
  BY LevelsAreNumbers DEF SceneOK, FastPathOK, EmbInv, EmbTypeOK
<1>2. /\ lacking \in Stacks(embZ)
      /\ \A t : t \in ToSet(lacking) <=> t \in ToSet(embList) /\ t \in EmbSurfaces \ ToSet(old)
  <2> DEFINE kept == EmbSurfaces \ ToSet(old)
  <2>1. lacking = Only(embList, kept)
    BY RangeIsSet DEF Lacking
  <2> HIDE DEF kept, lacking
  <2>2. lacking \in Stacks(embZ) /\ \A t : t \in ToSet(lacking) <=> t \in ToSet(embList) /\ t \in kept
    BY <1>1, <2>1, OnlyStacks
  <2> QED BY <2>2 DEF kept
<1> HIDE DEF lacking
<1>3. /\ lacking \in Seq(EmbSurfaces) /\ n \in 0 .. Len(lacking)
  BY <1>2 DEF Stacks, lacking
<1>4. /\ made \in Seq(EmbSurfaces) /\ \A t : t \in ToSet(made) => t \in ToSet(lacking)
      /\ all => made = lacking
  <2> HIDE DEF made
  <2> QED BY <1>3, FirstOf DEF made
<1> HIDE DEF made
<1>5. list \in Stacks(embZ) /\ \A t : t \in ToSet(list) <=> t \in ToSet(old) \/ t \in ToSet(made)
  BY <1>1, <1>4, FastCreatedAdds
<1>6. shown \in [EmbSurfaces -> BOOLEAN] /\ list \in Seq(EmbSurfaces)
      /\ scene.path.failed \in BOOLEAN
  BY <1>1, <1>5 DEF PathType, Stacks
<1> HIDE DEF shown, list, old
<1>7. /\ path \in PathType /\ path.list = list /\ path.active = all
      /\ path.failed = (scene.path.failed \/ ~all)
  BY <1>6 DEF PathType
<1>8. ToSet(embList) \subseteq EmbSurfaces
  <2>1. embList \in Seq(EmbSurfaces)
    BY <1>1 DEF Stacks
  <2> QED BY <2>1, ListFacts
<1> HIDE DEF path, all
<1>9. FastPathOK(path, embList, embZ)
  <2>1. path.list \in Stacks(embZ) /\ ToSet(path.list) \subseteq ToSet(embList)
    BY <1>1, <1>2, <1>4, <1>5, <1>7
  <2>2. ASSUME path.active PROVE ToSet(embList) \subseteq ToSet(path.list)
    BY <1>2, <1>4, <1>5, <1>7, <1>8, <2>2
  <2> QED BY <1>7, <2>1, <2>2 DEF FastPathOK
<1>10. FilledOK(content)
  BY <1>1, AllFlushed
<1>11. dead \in BOOLEAN
  BY <1>1
<1>12. ActivateFastPath(scene, n) = [path |-> path, content |-> content, dead |-> dead]
  BY DEF ActivateFastPath, path, all, list, made, lacking, shown, old
<1> HIDE DEF content, dead
<1> QED BY <1>9, <1>10, <1>11, <1>12 DEF SceneOK

LEMMA SwitchedOK ==
  ASSUME EmbInv, NEW dead \in BOOLEAN, NEW hint, NEW scene \in Switched(Scene(dead), hint)
  PROVE  SceneOK(scene)
<1> DEFINE now == Scene(dead)
<1>1. now.path = fast /\ now.content = embSurface /\ now.dead = dead
  BY DEF Scene
<1>2. SceneOK(now) /\ fast \in PathType
  <2> HIDE DEF now
  <2> QED BY <1>1 DEF SceneOK, EmbInv, FastPathOK
<1>3. \/ \E n \in 0 .. Len(Lacking(now.path)) : scene = ActivateFastPath(now, n)
      \/ scene = [now EXCEPT !.path = [Deactivated(@) EXCEPT !.active = FALSE]]
      \/ scene = now
  BY DEF Switched
<1>4. CASE \E n \in 0 .. Len(Lacking(now.path)) : scene = ActivateFastPath(now, n)
  <2> HIDE DEF now
  <2> QED BY <1>2, <1>4, ActivatedOK
<1>5. CASE scene = [now EXCEPT !.path = [Deactivated(@) EXCEPT !.active = FALSE]]
  <2> DEFINE d == Deactivated(fast)  e == [d EXCEPT !.active = FALSE]
  <2>1. d \in PathType /\ d.list \in Stacks(embZ) /\ ToSet(d.list) \subseteq ToSet(fast.list)
    BY <1>2, DeactivatedOK DEF EmbInv, FastPathOK
  <2> HIDE DEF d
  <2>2. e \in PathType /\ e.list = d.list /\ ~e.active
    BY <2>1 DEF PathType
  <2>3. scene.path = e /\ scene.content = embSurface /\ scene.dead = dead
    BY <1>5 DEF Scene, d
  <2> HIDE DEF e, now
  <2>4. FastPathOK(e, embList, embZ)
    BY <2>1, <2>2 DEF FastPathOK, EmbInv
  <2> QED BY <2>3, <2>4 DEF SceneOK, EmbInv
<1> HIDE DEF now
<1> QED BY <1>2, <1>3, <1>4, <1>5

\* What a frame makes of the contents.
LEMMA AllDrawn ==
  ASSUME NEW content, FilledOK(content)
  PROVE  FilledOK(Rendered(content))
<1> DEFINE after(s) == IF s \in Listed /\ embVisible[s] /\ HasContent(content[s])
                       THEN RenderSurface(content[s]) ELSE content[s]
<1>1. Rendered(content) = [s \in EmbSurfaces |-> after(s)]
  BY DEF Rendered
<1>2. \A s \in EmbSurfaces : CountsOK(after(s)) /\ ContentOK(after(s)) /\ after(s).mem # Freed
  <2> TAKE s \in EmbSurfaces
  <2>1. CountsOK(content[s]) /\ ContentOK(content[s]) /\ content[s].mem # Freed
    BY DEF FilledOK
  <2>2. CASE HasContent(content[s])
    <3>1. LET e == RenderSurface(content[s]) IN
          CountsOK(e) /\ ContentOK(e) /\ e.mem = content[s].mem
      BY <2>1, <2>2, DrawnOK
    <3> QED BY <2>1, <3>1
  <2>3. CASE ~HasContent(content[s])
    BY <2>1, <2>3
  <2> QED BY <2>2, <2>3
<1> HIDE DEF after
<1>3. \A s \in EmbSurfaces : after(s) \in ContentType
  BY <1>2 DEF CountsOK
<1> QED BY <1>1, <1>2, <1>3 DEF FilledOK

\* A commit to a surface.
LEMMA EmbCommitted ==
  ASSUME NEW c, CountsOK(c), ContentOK(c), c.mem # Freed, NEW p \in Pictures \cup {None},
         NEW next \in (IF p = None THEN {EmbFlush(c)} ELSE EmbCommits(c, p)), EmbTypeOK
  PROVE  CountsOK(next) /\ ContentOK(next) /\ next.mem # Freed
<1>1. CASE p = None
  <2> DEFINE left == None
  <2>1. left \in {None, Freed} /\ left = None
    OBVIOUS
  <2> HIDE DEF left
  <2>2. LET e == Flushed(c, left) IN
        CountsOK(e) /\ ContentOK(e) /\ e.mem = IF c.mem = None THEN None ELSE left
    BY <2>1, FlushedOK
  <2> QED BY <1>1, <2>1, <2>2, ContentAssumption DEF EmbFlush
<1>2. CASE p # None
  <2>1. p \in Pictures /\ p # Freed /\ next \in EmbCommits(c, p)
    BY <1>2, ContentAssumption
  <2>2. \/ next = c \/ next = CommitShm(c, p)
        \/ \E read \in BOOLEAN : next = CommitDispmanx(c, p, read)
        \/ \E f \in Formats, made \in SUBSET Planes : next = CommitWaylandEGL(c, f, p, made)
        \/ \E got, same, made \in BOOLEAN : next = CommitSB(c, p, got, same, made)
    BY <2>1 DEF EmbTypeOK, EmbCommits, EmbCommitShm, EmbCommitDispmanx, EmbCommitWaylandEGL,
                EmbCommitSB
  <2>3. CASE next = c
    BY <2>3
  <2>4. CASE next = CommitShm(c, p)
    <3>1. LET e == CommitShm(c, p) IN CountsOK(e) /\ ContentOK(e) /\ e.mem = p
      BY <2>1, ShmCommitted
    <3> QED BY <2>1, <2>4, <3>1
  <2>5. CASE \E read \in BOOLEAN : next = CommitDispmanx(c, p, read)
    BY <2>1, <2>5, DispmanxCommitted
  <2>6. CASE \E f \in Formats, made \in SUBSET Planes : next = CommitWaylandEGL(c, f, p, made)
    <3>1. PICK f \in Formats, made \in SUBSET Planes : next = CommitWaylandEGL(c, f, p, made)
      BY <2>6
    <3>2. LET e == CommitWaylandEGL(c, f, p, made) IN CountsOK(e) /\ ContentOK(e) /\ e.mem = c.mem
      BY <2>1, WaylandEGLCommitted
    <3> QED BY <3>1, <3>2
  <2>7. CASE \E got, same, made \in BOOLEAN : next = CommitSB(c, p, got, same, made)
    <3>1. PICK got \in BOOLEAN, same \in BOOLEAN, made \in BOOLEAN :
            next = CommitSB(c, p, got, same, made)
      BY <2>7
    <3>2. LET e == CommitSB(c, p, got, same, made) IN
          CountsOK(e) /\ ContentOK(e) /\ e.mem = c.mem
      BY <2>1, SBCommitted
    <3> QED BY <3>1, <3>2
  <2> QED BY <2>2, <2>3, <2>4, <2>5, <2>6, <2>7
<1> QED BY <1>1, <1>2

LEMMA ListedAre ==
  ASSUME EmbInv
  PROVE  /\ Listed = ToSet(embList) /\ Listed \subseteq EmbSurfaces
         /\ ToSet(fast.list) \subseteq ToSet(embList) /\ SurfaceFast = ToSet(fast.list)
<1>1. embList \in Seq(EmbSurfaces) /\ FastPathOK(fast, embList, embZ)
  BY DEF EmbInv, EmbTypeOK
<1>2. ToSet(embList) \subseteq EmbSurfaces
  BY <1>1, ListFacts
<1> QED BY <1>1, <1>2, RangeIsSet DEF Listed, SurfaceFast, FastPathOK

LEMMA EmbSurfaceCreateInv ==
  ASSUME EmbInv, NEW s \in EmbSurfaces, EmbSurfaceCreate(s)
  PROVE  EmbInv'
<1>1. /\ s \notin ToSet(embList) /\ s \notin ToSet(fast.list)
      /\ embList \in Stacks(embZ) /\ FastPathOK(fast, embList, embZ)
      /\ embZ \in [EmbSurfaces -> ZLevels] /\ ZDefault \in ZLevels /\ ~embBroken
  BY ListedAre, ZAssumption DEF EmbSurfaceCreate, EmbRuns, EmbInv, EmbTypeOK
<1>2. /\ embZ' = [embZ EXCEPT ![s] = ZDefault] /\ embList' = Into(embList, s, embZ')
      /\ embVisible' = [embVisible EXCEPT ![s] = TRUE]
      /\ embSurface' = [embSurface EXCEPT ![s] = NewContent]
      /\ fast' \in IF fast.active
                  THEN {[fast EXCEPT !.list = Into(@, s, embZ'), !.visible[s] = TRUE],
                        [Deactivated(fast) EXCEPT !.failed = TRUE]}
                  ELSE {fast}
      /\ UNCHANGED <<embFollows, embUp, rendererFast, deadTextures, fastHint, embLeft, embBroken>>
  BY DEF EmbSurfaceCreate
<1>3. embZ' \in [EmbSurfaces -> ZLevels] /\ Relevelled(embZ', embZ, s)
  BY <1>1, <1>2 DEF Relevelled
<1>4. /\ embList' \in Stacks(embZ')
      /\ \A t : t \in ToSet(embList') <=> t \in ToSet(embList) \/ t = s
  <2>1. embList' = Into(embList, s, embZ')
    BY <1>2
  <2> QED BY <1>1, <1>3, <2>1, MovedStacks
<1>5. FastPathOK(fast', embList', embZ')
  <2>0. /\ fast \in PathType /\ fast.list \in Stacks(embZ) /\ ToSet(fast.list) \subseteq ToSet(embList)
        /\ fast.active /\ ~fast.failed => ToSet(embList) \subseteq ToSet(fast.list)
    BY <1>1 DEF FastPathOK
  <2>1. CASE ~fast.active
    <3>1. fast' = fast /\ fast.list \in Stacks(embZ')
      BY <1>1, <1>2, <2>0, <2>1, LevelElsewhere
    <3> QED BY <1>4, <2>0, <2>1, <3>1 DEF FastPathOK
  <2>2. CASE fast' = [fast EXCEPT !.list = Into(@, s, embZ'), !.visible[s] = TRUE]
    <3> DEFINE list == Into(fast.list, s, embZ')  shown == [fast.visible EXCEPT ![s] = TRUE]
    <3>1. list \in Stacks(embZ') /\ \A t : t \in ToSet(list) <=> t \in ToSet(fast.list) \/ t = s
      BY <1>1, <1>3, <2>0, MovedStacks
    <3>2. shown \in [EmbSurfaces -> BOOLEAN] /\ list \in Seq(EmbSurfaces)
      BY <2>0, <3>1 DEF PathType, Stacks
    <3>3. fast' = [fast EXCEPT !.list = list, !.visible = shown]
      BY <2>0, <2>2 DEF PathType
    <3> HIDE DEF list, shown
    <3>4. /\ fast' \in PathType /\ fast'.list = list
          /\ fast'.active = fast.active /\ fast'.failed = fast.failed
      BY <2>0, <3>2, <3>3 DEF PathType
    <3> QED BY <1>4, <2>0, <3>1, <3>4 DEF FastPathOK
  <2>3. CASE fast' = [Deactivated(fast) EXCEPT !.failed = TRUE]
    <3> DEFINE d == Deactivated(fast)
    <3>1. d \in PathType /\ d.list \in Stacks(embZ) /\ ToSet(d.list) \subseteq ToSet(fast.list)
      BY <2>0, DeactivatedOK
    <3> HIDE DEF d
    <3>2. fast' \in PathType /\ fast'.list = d.list /\ fast'.failed
      BY <2>3, <3>1 DEF PathType, d
    <3>3. d.list \in Stacks(embZ')
      BY <1>1, <1>2, <2>0, <3>1, LevelElsewhere
    <3> QED BY <1>4, <2>0, <3>1, <3>2, <3>3 DEF FastPathOK
  <2> QED BY <1>2, <2>1, <2>2, <2>3
<1>6. FilledOK(embSurface')
  <2>1. CountsOK(NewContent) /\ ContentOK(NewContent)
    BY NewContentOK
  <2>2. NewContent.mem # Freed
    BY ContentAssumption DEF NewContent
  <2>3. FilledOK(embSurface)
    BY DEF EmbInv
  <2> QED BY <1>2, <2>1, <2>2, <2>3, OneFilled
<1>7. EmbTypeOK'
  <2>1. embList' \in Seq(EmbSurfaces) /\ fast' \in PathType /\ embSurface' \in [EmbSurfaces -> ContentType]
    BY <1>4, <1>5, <1>6 DEF Stacks, FastPathOK, FilledOK
  <2>2. EmbTypeOK
    BY DEF EmbInv
  <2> QED BY <1>2, <1>3, <2>1, <2>2 DEF EmbTypeOK
<1> QED BY <1>1, <1>2, <1>4, <1>5, <1>6, <1>7 DEF EmbInv

LEMMA EmbSurfaceDestroyInv ==
  ASSUME EmbInv, NEW s \in EmbSurfaces, EmbSurfaceDestroy(s)
  PROVE  EmbInv'
<1>1. /\ embList \in Stacks(embZ) /\ FilledOK(embSurface)
      /\ embZ \in [EmbSurfaces -> ZLevels] /\ ZDefault \in ZLevels /\ ~embBroken
      /\ fast \in PathType /\ fast.list \in Stacks(embZ) /\ ToSet(fast.list) \subseteq ToSet(embList)
      /\ fast.active /\ ~fast.failed => ToSet(embList) \subseteq ToSet(fast.list)
  BY ZAssumption DEF EmbSurfaceDestroy, EmbRuns, EmbInv, EmbTypeOK, FastPathOK
<1> DEFINE next == EmbFlush(embSurface[s])
<1>2. /\ embLeft' = embLeft + next.textures + next.images
      /\ deadTextures' = Dead(deadTextures, embSurface[s], next)
      /\ embList' = RemoveFirst(embList, s)
      /\ fast' = [fast EXCEPT !.list = RemoveFirst(@, s), !.visible[s] = TRUE]
      /\ embSurface' = [embSurface EXCEPT ![s] = NewContent]
      /\ embZ' = [embZ EXCEPT ![s] = ZDefault] /\ embVisible' = [embVisible EXCEPT ![s] = TRUE]
      /\ UNCHANGED <<embFollows, embUp, rendererFast, fastHint, embBroken>>
  BY DEF EmbSurfaceDestroy
<1>3. next.textures = 0 /\ next.images = 0
  <2> DEFINE left == None
  <2>1. CountsOK(embSurface[s]) /\ left \in {None, Freed}
    BY <1>1 DEF FilledOK
  <2> HIDE DEF left
  <2>2. LET e == Flushed(embSurface[s], left) IN e.textures = 0 /\ e.images = 0
    BY <2>1, FlushedOK
  <2> QED BY <2>2 DEF EmbFlush, left
<1> HIDE DEF next
<1>4. embLeft' = 0 /\ deadTextures' \in BOOLEAN
  BY <1>2, <1>3 DEF EmbInv, EmbTypeOK, Dead
<1>5. embZ' \in [EmbSurfaces -> ZLevels]
  BY <1>1, <1>2
<1>6. /\ embList' \in Stacks(embZ')
      /\ \A t : t \in ToSet(embList') <=> t \in ToSet(embList) /\ t # s
  <2>1. /\ embList' \in Stacks(embZ)
        /\ \A t : t \in ToSet(embList') <=> t \in ToSet(embList) /\ t # s
    BY <1>1, <1>2, RemovedStacks
  <2>2. s \notin ToSet(embList')
    BY <2>1
  <2> QED BY <1>1, <1>2, <2>1, <2>2, LevelElsewhere
<1>7. FastPathOK(fast', embList', embZ')
  <2> DEFINE list == RemoveFirst(fast.list, s)  shown == [fast.visible EXCEPT ![s] = TRUE]
  <2>1. list \in Stacks(embZ) /\ \A t : t \in ToSet(list) <=> t \in ToSet(fast.list) /\ t # s
    BY <1>1, RemovedStacks
  <2>2. shown \in [EmbSurfaces -> BOOLEAN] /\ list \in Seq(EmbSurfaces)
    BY <1>1, <2>1 DEF PathType, Stacks
  <2>3. fast' = [fast EXCEPT !.list = list, !.visible = shown]
    BY <1>1, <1>2 DEF PathType
  <2> HIDE DEF list, shown
  <2>4. s \notin ToSet(list)
    BY <2>1
  <2>5. list \in Stacks(embZ')
    BY <1>1, <1>2, <2>1, <2>4, LevelElsewhere
  <2>6. /\ fast' \in PathType /\ fast'.list = list
        /\ fast'.active = fast.active /\ fast'.failed = fast.failed
    BY <1>1, <2>2, <2>3 DEF PathType
  <2> QED BY <1>1, <1>6, <2>1, <2>5, <2>6 DEF FastPathOK
<1>8. FilledOK(embSurface')
  <2>1. CountsOK(NewContent) /\ ContentOK(NewContent)
    BY NewContentOK
  <2>2. NewContent.mem # Freed
    BY ContentAssumption DEF NewContent
  <2> QED BY <1>1, <1>2, <2>1, <2>2, OneFilled
<1>9. EmbTypeOK'
  <2>1. embList' \in Seq(EmbSurfaces) /\ fast' \in PathType /\ embSurface' \in [EmbSurfaces -> ContentType]
    BY <1>6, <1>7, <1>8 DEF Stacks, FastPathOK, FilledOK
  <2>2. EmbTypeOK
    BY DEF EmbInv
  <2> QED BY <1>2, <1>4, <1>5, <2>1, <2>2 DEF EmbTypeOK
<1> QED BY <1>1, <1>2, <1>4, <1>6, <1>7, <1>8, <1>9 DEF EmbInv

LEMMA EmbSetZOrderInv ==
  ASSUME EmbInv, NEW s \in EmbSurfaces, NEW z \in ZLevels, EmbSetZOrder(s, z)
  PROVE  EmbInv'
<1>1. /\ embList \in Stacks(embZ) /\ FilledOK(embSurface) /\ s \in ToSet(embList)
      /\ embZ \in [EmbSurfaces -> ZLevels] /\ ~embBroken
      /\ fast \in PathType /\ fast.list \in Stacks(embZ) /\ ToSet(fast.list) \subseteq ToSet(embList)
      /\ fast.active /\ ~fast.failed => ToSet(embList) \subseteq ToSet(fast.list)
      /\ SurfaceFast = ToSet(fast.list)
  BY ListedAre DEF EmbSetZOrder, EmbRuns, EmbInv, EmbTypeOK, FastPathOK
<1>2. /\ embZ' = [embZ EXCEPT ![s] = z] /\ embList' = Into(embList, s, embZ')
      /\ fast' = [fast EXCEPT !.list = IF s \in SurfaceFast THEN Into(@, s, embZ') ELSE @]
      /\ UNCHANGED <<embFollows, embUp, rendererFast, embVisible, embSurface, deadTextures,
                     fastHint, embLeft, embBroken>>
  BY DEF EmbSetZOrder
<1>3. embZ' \in [EmbSurfaces -> ZLevels] /\ Relevelled(embZ', embZ, s)
  BY <1>1, <1>2 DEF Relevelled
<1>4. embList' \in Stacks(embZ') /\ \A t : t \in ToSet(embList') <=> t \in ToSet(embList)
  <2>1. /\ embList' \in Stacks(embZ')
        /\ \A t : t \in ToSet(embList') <=> t \in ToSet(embList) \/ t = s
    <3>1. embList' = Into(embList, s, embZ')
      BY <1>2
    <3> QED BY <1>1, <1>3, <3>1, MovedStacks
  <2> QED BY <1>1, <2>1
<1>5. FastPathOK(fast', embList', embZ')
  <2> DEFINE list == IF s \in SurfaceFast THEN Into(fast.list, s, embZ') ELSE fast.list
  <2>1. list \in Stacks(embZ') /\ \A t : t \in ToSet(list) <=> t \in ToSet(fast.list)
    <3>1. CASE s \in ToSet(fast.list)
      <4>1. /\ Into(fast.list, s, embZ') \in Stacks(embZ')
            /\ \A t : t \in ToSet(Into(fast.list, s, embZ')) <=> t \in ToSet(fast.list) \/ t = s
        BY <1>1, <1>3, MovedStacks
      <4> QED BY <1>1, <3>1, <4>1
    <3>2. CASE s \notin ToSet(fast.list)
      BY <1>1, <1>2, <3>2, LevelElsewhere
    <3> QED BY <3>1, <3>2
  <2>2. list \in Seq(EmbSurfaces) /\ fast' = [fast EXCEPT !.list = list]
    BY <1>1, <1>2, <2>1 DEF PathType, Stacks
  <2> HIDE DEF list
  <2>3. /\ fast' \in PathType /\ fast'.list = list
        /\ fast'.active = fast.active /\ fast'.failed = fast.failed
    BY <1>1, <2>2 DEF PathType
  <2> QED BY <1>1, <1>4, <2>1, <2>3 DEF FastPathOK
<1>6. EmbTypeOK'
  <2>1. embList' \in Seq(EmbSurfaces) /\ fast' \in PathType
    BY <1>4, <1>5 DEF Stacks, FastPathOK
  <2>2. EmbTypeOK
    BY DEF EmbInv
  <2> QED BY <1>2, <1>3, <2>1, <2>2 DEF EmbTypeOK
<1> QED BY <1>1, <1>2, <1>4, <1>5, <1>6 DEF EmbInv

LEMMA EmbSurfaceCommitInv ==
  ASSUME EmbInv, NEW s \in EmbSurfaces, NEW p \in Pictures \cup {None}, EmbSurfaceCommit(s, p)
  PROVE  EmbInv'
<1>1. /\ EmbTypeOK /\ embList \in Stacks(embZ) /\ embLeft = 0 /\ s \in ToSet(embList)
      /\ deadTextures \in BOOLEAN
      /\ UNCHANGED <<embFollows, embUp, rendererFast, embList, embZ, embVisible, fastHint, embLeft>>
  BY ListedAre DEF EmbSurfaceCommit, EmbInv, EmbTypeOK
<1>2. PICK scene \in Switched(Scene(deadTextures), fastHint) :
      \E next \in (IF scene.path.active THEN {scene.content[s]}
                   ELSE IF p = None THEN {EmbFlush(scene.content[s])}
                   ELSE EmbCommits(scene.content[s], p)) :
        /\ fast' = scene.path
        /\ embSurface' = [scene.content EXCEPT ![s] = next]
        /\ deadTextures' = Dead(scene.dead, scene.content[s], next)
        /\ embBroken' = (scene.path.active /\ s \notin Range(scene.path.list))
  BY DEF EmbSurfaceCommit
<1>3. PICK next \in (IF scene.path.active THEN {scene.content[s]}
                     ELSE IF p = None THEN {EmbFlush(scene.content[s])}
                     ELSE EmbCommits(scene.content[s], p)) :
        /\ fast' = scene.path
        /\ embSurface' = [scene.content EXCEPT ![s] = next]
        /\ deadTextures' = Dead(scene.dead, scene.content[s], next)
        /\ embBroken' = (scene.path.active /\ s \notin Range(scene.path.list))
  BY <1>2
<1>4. SceneOK(scene)
  BY <1>1, SwitchedOK
<1>5. FastPathOK(scene.path, embList, embZ) /\ FilledOK(scene.content) /\ scene.dead \in BOOLEAN
  BY <1>4 DEF SceneOK
<1>6. CountsOK(next) /\ ContentOK(next) /\ next.mem # Freed
  <2> DEFINE c == scene.content[s]
  <2>1. CountsOK(c) /\ ContentOK(c) /\ c.mem # Freed
    BY <1>5 DEF FilledOK
  <2> HIDE DEF c
  <2>2. next = c \/ next \in (IF p = None THEN {EmbFlush(c)} ELSE EmbCommits(c, p))
    BY <1>3 DEF c
  <2> QED BY <1>1, <2>1, <2>2, EmbCommitted
<1>7. FilledOK(embSurface')
  <2>1. FilledOK([scene.content EXCEPT ![s] = next])
    BY <1>5, <1>6, OneFilled
  <2> QED BY <1>3, <2>1
<1>8. FastPathOK(fast', embList', embZ') /\ embList' \in Stacks(embZ') /\ embLeft' = 0
  BY <1>1, <1>3, <1>5
<1>9. fast'.active /\ ~fast'.failed => ~embBroken'
  BY <1>1, <1>3, <1>5, RangeIsSet DEF FastPathOK
<1>10. deadTextures' \in BOOLEAN /\ embBroken' \in BOOLEAN
  BY <1>3, <1>5 DEF Dead
<1>11. EmbTypeOK'
  <2>1. fast' \in PathType /\ embSurface' \in [EmbSurfaces -> ContentType]
    BY <1>7, <1>8 DEF FastPathOK, FilledOK
  <2> QED BY <1>1, <1>10, <2>1 DEF EmbTypeOK
<1> QED BY <1>7, <1>8, <1>9, <1>11 DEF EmbInv

LEMMA EmbUpdateSceneInv ==
  ASSUME EmbInv, NEW hint \in BOOLEAN, EmbUpdateScene(hint)
  PROVE  EmbInv'
<1>1. /\ EmbTypeOK /\ embList \in Stacks(embZ) /\ embLeft = 0 /\ ~embBroken
      /\ fastHint' = hint
      /\ UNCHANGED <<embFollows, embUp, rendererFast, embList, embZ, embVisible, embLeft, embBroken>>
  BY DEF EmbUpdateScene, EmbRuns, EmbInv
<1> DEFINE dead == FALSE
<1>2. dead \in BOOLEAN
  OBVIOUS
<1>3. PICK scene \in Switched(Scene(dead), hint) :
        /\ fast' = scene.path
        /\ deadTextures' = scene.dead
        /\ embSurface' = IF scene.path.active THEN scene.content ELSE Rendered(scene.content)
  BY DEF EmbUpdateScene
<1> HIDE DEF dead
<1>4. SceneOK(scene)
  BY <1>2, SwitchedOK
<1>5. FastPathOK(scene.path, embList, embZ) /\ FilledOK(scene.content) /\ scene.dead \in BOOLEAN
  BY <1>4 DEF SceneOK
<1>6. FilledOK(embSurface')
  <2>1. FilledOK(Rendered(scene.content))
    BY <1>5, AllDrawn
  <2> QED BY <1>3, <1>5, <2>1
<1>7. FastPathOK(fast', embList', embZ') /\ embList' \in Stacks(embZ') /\ embLeft' = 0
  BY <1>1, <1>3, <1>5
<1>8. EmbTypeOK'
  <2>1. fast' \in PathType /\ embSurface' \in [EmbSurfaces -> ContentType]
        /\ deadTextures' \in BOOLEAN
    BY <1>3, <1>5, <1>6, <1>7 DEF FastPathOK, FilledOK
  <2> QED BY <1>1, <2>1 DEF EmbTypeOK
<1> QED BY <1>1, <1>6, <1>7, <1>8 DEF EmbInv

\* The visibility in the fast path is another.
LEMMA ShownInPath ==
  ASSUME NEW path \in PathType, NEW list, NEW z, FastPathOK(path, list, z),
         NEW s \in EmbSurfaces, NEW v \in BOOLEAN, NEW e, e = [path EXCEPT !.visible[s] = v]
  PROVE  FastPathOK(e, list, z) /\ e.active = path.active /\ e.failed = path.failed
<1> DEFINE shown == [path.visible EXCEPT ![s] = v]
<1>1. shown \in [EmbSurfaces -> BOOLEAN]
  BY DEF PathType
<1>2. e = [path EXCEPT !.visible = shown]
  BY DEF PathType
<1> HIDE DEF shown
<1>3. e \in PathType /\ e.list = path.list /\ e.active = path.active /\ e.failed = path.failed
  BY <1>1, <1>2 DEF PathType
<1> QED BY <1>3 DEF FastPathOK

LEMMA EmbOthersInv ==
  ASSUME EmbInv
  PROVE  /\ EmbCreate \/ EmbTerm => EmbInv'
         /\ \A s \in EmbSurfaces : EmbGetVisible(s) => EmbInv'
         /\ \A s \in EmbSurfaces, v \in BOOLEAN : EmbSetVisible(s, v) => EmbInv'
<1>1. ASSUME EmbCreate PROVE EmbInv'
  BY <1>1 DEF EmbCreate, InitFastPath, EmbInv, EmbTypeOK
<1>2. ASSUME EmbTerm PROVE EmbInv'
  <2>1. /\ embUp' = FALSE /\ rendererFast' = FALSE /\ deadTextures' = FALSE /\ fastHint' = FALSE
        /\ fast' = [fast EXCEPT !.active = FALSE, !.failed = FALSE]
        /\ UNCHANGED <<embFollows, embList, embZ, embVisible, embSurface, embLeft, embBroken>>
    BY <1>2 DEF EmbTerm
  <2>2. fast \in PathType /\ FastPathOK(fast, embList, embZ)
    BY DEF EmbInv, FastPathOK
  <2>3. fast' \in PathType /\ fast'.list = fast.list /\ ~fast'.active
    BY <2>1, <2>2 DEF PathType
  <2>4. FastPathOK(fast', embList', embZ')
    BY <2>1, <2>2, <2>3 DEF FastPathOK
  <2> QED BY <2>1, <2>3, <2>4 DEF EmbInv, EmbTypeOK
<1>3. ASSUME NEW s \in EmbSurfaces, EmbGetVisible(s) PROVE EmbInv'
  <2>1. /\ embVisible' = [embVisible EXCEPT ![s] = fast.visible[s]]
        /\ UNCHANGED <<embFollows, embUp, rendererFast, embList, embZ, embSurface, deadTextures,
                       fastHint, fast, embLeft, embBroken>>
    BY <1>3 DEF EmbGetVisible
  <2>2. fast.visible[s] \in BOOLEAN
    BY DEF EmbInv, EmbTypeOK, PathType
  <2>3. EmbTypeOK'
    BY <2>1, <2>2 DEF EmbInv, EmbTypeOK
  <2> QED BY <2>1, <2>3 DEF EmbInv
<1>4. ASSUME NEW s \in EmbSurfaces, NEW v \in BOOLEAN, EmbSetVisible(s, v) PROVE EmbInv'
  <2> DEFINE seen == IF s \in SurfaceFast THEN v ELSE fast.visible[s]
  <2>1. /\ embVisible' = [embVisible EXCEPT ![s] = v]
        /\ fast' = [fast EXCEPT !.visible[s] = IF s \in SurfaceFast THEN v ELSE @]
        /\ UNCHANGED <<embFollows, embUp, rendererFast, embList, embZ, embSurface, deadTextures,
                       fastHint, embLeft, embBroken>>
    BY <1>4 DEF EmbSetVisible
  <2>2. fast \in PathType /\ FastPathOK(fast, embList, embZ) /\ EmbTypeOK
    BY DEF EmbInv, FastPathOK
  <2>3. seen \in BOOLEAN /\ fast' = [fast EXCEPT !.visible[s] = seen]
    BY <2>1, <2>2 DEF PathType
  <2> HIDE DEF seen
  <2>4. /\ FastPathOK(fast', embList, embZ)
        /\ fast'.active = fast.active /\ fast'.failed = fast.failed
    BY <2>2, <2>3, ShownInPath
  <2>5. FastPathOK(fast', embList', embZ')
    BY <2>1, <2>4
  <2>6. EmbTypeOK'
    BY <2>1, <2>2, <2>4 DEF EmbTypeOK, FastPathOK
  <2> QED BY <2>1, <2>4, <2>5, <2>6 DEF EmbInv
<1> QED BY <1>1, <1>2, <1>3, <1>4

LEMMA EmbStep ==
  ASSUME EmbInv, [EmbNext]_embVars
  PROVE  EmbInv'
<1>1. CASE EmbCreate \/ EmbTerm
  BY <1>1, EmbOthersInv
<1>2. ASSUME NEW hint \in BOOLEAN, EmbUpdateScene(hint) PROVE EmbInv'
  BY <1>2, EmbUpdateSceneInv
<1>3. ASSUME NEW s \in EmbSurfaces, EmbSurfaceCreate(s) PROVE EmbInv'
  BY <1>3, EmbSurfaceCreateInv
<1>4. ASSUME NEW s \in EmbSurfaces, EmbSurfaceDestroy(s) PROVE EmbInv'
  BY <1>4, EmbSurfaceDestroyInv
<1>5. ASSUME NEW s \in EmbSurfaces, NEW p \in Pictures \cup {None}, EmbSurfaceCommit(s, p)
      PROVE  EmbInv'
  BY <1>5, EmbSurfaceCommitInv
<1>6. ASSUME NEW s \in EmbSurfaces, NEW v \in BOOLEAN, EmbSetVisible(s, v) PROVE EmbInv'
  BY <1>6, EmbOthersInv
<1>7. ASSUME NEW s \in EmbSurfaces, EmbGetVisible(s) PROVE EmbInv'
  BY <1>7, EmbOthersInv
<1>8. ASSUME NEW s \in EmbSurfaces, NEW z \in ZLevels, EmbSetZOrder(s, z) PROVE EmbInv'
  BY <1>8, EmbSetZOrderInv
<1>9. CASE UNCHANGED embVars
  BY <1>9 DEF embVars, EmbInv, EmbTypeOK
<1> QED BY <1>1, <1>2, <1>3, <1>4, <1>5, <1>6, <1>7, <1>8, <1>9 DEF EmbNext

\* The fast renderer's surfaces are those of surfaces that exist, in the compositor's
\* order, and none is missing while the path is active: for any number of surfaces, levels
\* and switches of the path.
THEOREM FastPathMirrored == EmbSpec => []FastPathMirrors
<1>1. EmbInv => FastPathMirrors
  <2> SUFFICES ASSUME EmbInv PROVE FastPathMirrors
    OBVIOUS
  <2> DEFINE list == fast.list
  <2>1. /\ list \in Seq(EmbSurfaces) /\ Once(list) /\ Ascending(list, embZ)
        /\ embZ \in [EmbSurfaces -> Nat]
    BY LevelsAreNumbers DEF EmbInv, EmbTypeOK, FastPathOK, Stacks
  <2>2. /\ SurfaceFast \subseteq Listed
        /\ fast.active /\ ~fast.failed => Listed \subseteq SurfaceFast /\ ~embBroken
    BY ListedAre DEF EmbInv, FastPathOK
  <2> HIDE DEF list
  <2>3. DOMAIN list = 1 .. Len(list) /\ Len(list) \in Nat /\ \A i \in 1 .. Len(list) : list[i] \in EmbSurfaces
    BY <2>1, ListFacts
  <2>4. IsInjective(list)
    BY <2>1, <2>3 DEF IsInjective, Once
  <2>5. \A i, j \in DOMAIN list : embZ[list[i]] < embZ[list[j]] => i < j
    <3> SUFFICES ASSUME NEW i \in 1 .. Len(list), NEW j \in 1 .. Len(list),
                        embZ[list[i]] < embZ[list[j]], j <= i
                 PROVE  FALSE
      BY <2>3
    <3>1. embZ[list[i]] \in Nat /\ embZ[list[j]] \in Nat
      BY <2>1, <2>3
    <3>2. CASE i = j
      BY <3>1, <3>2
    <3>3. CASE j < i
      <4>1. Below(list, list[j], list[i])
        BY <2>1, <3>3, ListFacts
      <4> QED BY <2>1, <3>1, <4>1 DEF Ascending
    <3> QED BY <2>3, <3>2, <3>3
  <2> QED BY <2>2, <2>4, <2>5 DEF FastPathMirrors, list
<1> QED BY <1>1, EmbInitInv, EmbStep, PTL DEF EmbSpec

\* What the embedded renderer draws of a surface is what was committed last, and no
\* texture and no image outlives its handle, whenever the fast path discards what surfaces
\* hold: for any number of surfaces and pictures.
THEOREM EmbKept == EmbSpec => []EmbContentKept
<1>1. EmbInv => EmbContentKept
  <2> SUFFICES ASSUME EmbInv PROVE EmbContentKept
    OBVIOUS
  <2>1. \A s \in Listed : CountsOK(embSurface[s]) /\ ContentOK(embSurface[s])
    BY ListedAre DEF EmbInv, FilledOK
  <2>2. embLeft = 0
    BY DEF EmbInv
  <2> QED BY <2>1, <2>2, NamedIsAll, ShownIsLatest DEF EmbContentKept
<1> QED BY <1>1, EmbInitInv, EmbStep, PTL DEF EmbSpec
=================================================================================

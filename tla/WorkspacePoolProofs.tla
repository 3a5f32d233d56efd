-------------------------- MODULE WorkspacePoolProofs --------------------------
(***************************************************************************)
(* Proofs about WorkspacePool: no buffer is lost, given twice or too small, *)
(* for any requests, devices and threads.                                   *)
(*                                                                          *)
(* The two lists of a device are sequences that start with a guard and hold *)
(* no buffer twice; what the searches of Alloc and Free find in such lists, *)
(* and what taking an entry out or putting one in does to the set of their  *)
(* buffers, are lemmas about sequences.  The invariant is then about sets:  *)
(* the buffers of the lists are apart, those in use are the program's, and  *)
(* together they are all that the devices have handed out.                  *)
(***************************************************************************)
EXTENDS WorkspacePool, FiniteSetTheorems, SequenceTheorems, WellFoundedInduction, TLAPS

Entries == [data : Nat, size : Nat]
Request == [dev : Devices, nbytes : Requests, scale : Scales]

(* A list of a pool: the guard, then buffers, none twice.                  *)
Listed(list) ==
    /\ list \in Seq(Entries) /\ Len(list) >= 1 /\ list[1] = Guard
    /\ \A i \in 2 .. Len(list) : list[i].data >= 1 /\ list[i].size >= 1
    /\ \A i, j \in 1 .. Len(list) : list[i].data = list[j].data => i = j

Sorted(list) == \A i, j \in 1 .. Len(list) : i < j => list[i].size <= list[j].size

------------------------------------------------------------------------------
(* Numbers.                                                                *)

LEMMA MaxFacts ==
    ASSUME NEW n \in Nat, NEW S, S \subseteq 1 .. n, S # {}
    PROVE  Max(S) \in S /\ \A x \in S : Max(S) >= x
<1> DEFINE T == {m \in Nat : \A x \in S : m >= x}
           R == OpToRel(<, Nat)
<1>1. n \in T /\ T \subseteq Nat /\ T # {}
  OBVIOUS
<1>2. PICK m \in T : \A k \in T : ~(<<k, m>> \in R)
  <2> HIDE DEF T
  <2> QED BY <1>1, NatLessThanWellFounded, WFMin
<1>3. \A k \in T : ~(k < m)
  BY <1>2 DEF OpToRel
<1> HIDE DEF R
<1>4. m \in S
  <2>1. ASSUME m \notin S PROVE FALSE
    <3>1. PICK y \in S : TRUE
      OBVIOUS
    <3>2. m \in Nat /\ m >= 1
      BY <1>2, <3>1
    <3>3. m - 1 \in T
      BY <1>2, <2>1, <3>2
    <3> QED BY <1>3, <3>2, <3>3
  <2> QED BY <2>1
<1>5. \E x \in S : \A y \in S : x >= y
  BY <1>2, <1>4
<1> QED BY <1>5 DEF Max

LEMMA Monotone ==
    ASSUME NEW b \in Nat, NEW u \in Nat, NEW v \in Nat, u <= v
    PROVE  b * u <= b * v /\ b * u \in Nat /\ b * v \in Nat
OBVIOUS

(* Scaling by a rate between one and two.                                  *)
LEMMA Quotient ==
    ASSUME NEW n \in Nat, NEW a \in Nat, NEW b \in Nat \ {0}, b <= a, a <= 2 * b
    PROVE  (n * a) \div b \in Nat /\ n <= (n * a) \div b /\ (n * a) \div b <= 2 * n
<1> DEFINE x == n * a
           q == x \div b
           r == x % b
           bq == b * q
           bn == b * n
<1>1. x \in Nat /\ bn \in Nat /\ bn <= x /\ x <= 2 * bn
  <2>1. n * b <= n * a /\ n * a <= n * (2 * b)
    BY Monotone
  <2>2. n * b = bn /\ n * (2 * b) = 2 * bn /\ bn \in Nat
    OBVIOUS
  <2> QED BY <2>1, <2>2
<1> HIDE DEF x
<1>2. q \in Nat /\ r \in Nat /\ r < b /\ x = bq + r /\ bq \in Nat
  BY <1>1
<1>3. ASSUME q < n PROVE FALSE
  <2>1. b * (q + 1) <= bn
    <3>0. q \in Nat
      BY <1>2
    <3> HIDE DEF q
    <3>1. q + 1 \in Nat /\ q + 1 <= n
      BY <1>3, <3>0
    <3> QED BY <3>1, Monotone
  <2>2. b * (q + 1) = bq + b
    BY <1>2
  <2> HIDE DEF q, r, bq, bn
  <2> QED BY <1>1, <1>2, <2>1, <2>2
<1>4. ASSUME q > 2 * n PROVE FALSE
  <2>1. b * (2 * n + 1) <= bq
    <3>0. q \in Nat
      BY <1>2
    <3> HIDE DEF q
    <3>1. 2 * n + 1 \in Nat /\ 2 * n + 1 <= q
      BY <1>4, <3>0
    <3> QED BY <3>0, <3>1, Monotone
  <2>2. b * (2 * n + 1) = 2 * bn + b
    OBVIOUS
  <2> HIDE DEF q, r, bq, bn
  <2> QED BY <1>1, <1>2, <2>1, <2>2
<1>5. ~(q < n) /\ ~(q > 2 * n)
  BY <1>3, <1>4
<1> HIDE DEF q
<1>6. n <= q /\ q <= 2 * n /\ q \in Nat
  BY <1>2, <1>5
<1> QED BY <1>6 DEF q, x

LEMMA RoundedUp ==
    ASSUME NEW n \in Nat
    PROVE  Rounded(n) \in Nat \ {0} /\ Rounded(n) >= n
<1>1. PageSize \in Nat \ {0}
  BY PageAssumption
<1>2. CASE n = 0
  BY <1>1, <1>2 DEF Rounded
<1>3. CASE n # 0
  <2> DEFINE x == n + PageSize - 1
             q == x \div PageSize
             r == x % PageSize
             Pq == PageSize * q
  <2>1. q \in Nat /\ r \in Nat /\ r < PageSize /\ x = Pq + r /\ Pq \in Nat
    BY <1>1
  <2>2. Rounded(n) = q * PageSize
    BY <1>3 DEF Rounded
  <2>3. q * PageSize = Pq
    BY <1>1, <2>1
  <2> HIDE DEF q, r, Pq
  <2> QED BY <1>1, <1>3, <2>1, <2>2, <2>3
<1> QED BY <1>2, <1>3

LEMMA ScaledUp ==
    ASSUME NEW n \in Nat, NEW s \in Scales
    PROVE  Scaled(n, s) \in Nat /\ n <= Scaled(n, s) /\ Scaled(n, s) <= 2 * n
BY ScaleAssumption, Quotient DEF Scaled

------------------------------------------------------------------------------
(* Sequences.                                                              *)

LEMMA Removed ==
    ASSUME NEW E, NEW s \in Seq(E), NEW i \in 1 .. Len(s)
    PROVE  /\ RemoveAt(s, i) \in Seq(E) /\ Len(RemoveAt(s, i)) = Len(s) - 1
           /\ \A k \in 1 .. Len(s) - 1 : RemoveAt(s, i)[k] = IF k < i THEN s[k] ELSE s[k + 1]
<1>1. Len(s) \in Nat /\ i \in Nat /\ \A k \in 1 .. Len(s) : s[k] \in E
  OBVIOUS
<1> DEFINE L == SubSeq(s, 1, i - 1)
           R == SubSeq(s, i + 1, Len(s))
<1>2. L \in Seq(E) /\ Len(L) = i - 1 /\ \A k \in 1 .. i - 1 : L[k] = s[k]
  BY <1>1, SubSeqProperties
<1>3. R \in Seq(E) /\ Len(R) = Len(s) - i /\ \A k \in 1 .. Len(s) - i : R[k] = s[i + k]
  BY <1>1, SubSeqProperties
<1> HIDE DEF L, R
<1>4. RemoveAt(s, i) = L \o R
  BY DEF RemoveAt, L, R
<1>5. L \o R \in Seq(E) /\ Len(L \o R) = Len(s) - 1
  <2>1. L \o R \in Seq(E) /\ Len(L \o R) = Len(L) + Len(R)
    BY <1>2, <1>3, ConcatProperties
  <2> QED BY <1>1, <1>2, <1>3, <2>1
<1>6. ASSUME NEW k \in 1 .. Len(s) - 1
      PROVE  (L \o R)[k] = IF k < i THEN s[k] ELSE s[k + 1]
  <2>1. (L \o R)[k] = IF k <= i - 1 THEN L[k] ELSE R[k - (i - 1)]
    BY <1>1, <1>2, <1>3, ConcatProperties
  <2> QED BY <1>1, <1>2, <1>3, <2>1
<1> QED BY <1>4, <1>5, <1>6

(* new is list with e put in at place i.                                   *)
IsPutIn(new, list, i, e) ==
    /\ new \in Seq(Entries) /\ Len(new) = Len(list) + 1
    /\ \A k \in 1 .. Len(list) + 1 :
         new[k] = IF k < i THEN list[k] ELSE IF k = i THEN e ELSE list[k - 1]

LEMMA Inserted ==
    ASSUME NEW s \in Seq(Entries), NEW i \in 1 .. Len(s) + 1, NEW e \in Entries
    PROVE  IsPutIn(InsertAt(s, i, e), s, i, e)
<1> DEFINE E == Entries
<1> HIDE DEF E
<1>0. s \in Seq(E) /\ e \in E
  BY DEF E
<1>1. Len(s) \in Nat /\ i \in Nat /\ \A k \in 1 .. Len(s) : s[k] \in E
  BY <1>0
<1> DEFINE L == SubSeq(s, 1, i - 1)
           R == SubSeq(s, i, Len(s))
           M == L \o <<e>>
<1>2. L \in Seq(E) /\ Len(L) = i - 1 /\ \A k \in 1 .. i - 1 : L[k] = s[k]
  BY <1>1, SubSeqProperties
<1>3. R \in Seq(E) /\ Len(R) = Len(s) - i + 1 /\ \A k \in 1 .. Len(s) - i + 1 : R[k] = s[i + k - 1]
  BY <1>1, SubSeqProperties
<1> HIDE DEF L, R
<1>4. M \in Seq(E) /\ Len(M) = i /\ \A k \in 1 .. i : M[k] = IF k < i THEN s[k] ELSE e
  <2>1. <<e>> \in Seq(E) /\ Len(<<e>>) = 1 /\ <<e>>[1] = e
    BY <1>0
  <2>2. M \in Seq(E) /\ Len(M) = i
    BY <1>1, <1>2, <2>1
  <2>3. ASSUME NEW k \in 1 .. i PROVE M[k] = IF k < i THEN s[k] ELSE e
    <3>1. M[k] = IF k <= i - 1 THEN L[k] ELSE <<e>>[k - (i - 1)]
      BY <1>1, <1>2, <2>1, ConcatProperties
    <3> QED BY <1>1, <1>2, <2>1, <3>1
  <2> QED BY <2>2, <2>3
<1> HIDE DEF M
<1>5. InsertAt(s, i, e) = M \o R
  BY DEF InsertAt, L, R, M
<1>6. M \o R \in Seq(E) /\ Len(M \o R) = Len(s) + 1
  <2>1. M \o R \in Seq(E) /\ Len(M \o R) = Len(M) + Len(R)
    BY <1>3, <1>4, ConcatProperties
  <2> QED BY <1>1, <1>3, <1>4, <2>1
<1>7. ASSUME NEW k \in 1 .. Len(s) + 1
      PROVE  (M \o R)[k] = IF k < i THEN s[k] ELSE IF k = i THEN e ELSE s[k - 1]
  <2>1. (M \o R)[k] = IF k <= i THEN M[k] ELSE R[k - i]
    BY <1>1, <1>3, <1>4, ConcatProperties
  <2> QED BY <1>1, <1>3, <1>4, <2>1
<1> QED BY <1>5, <1>6, <1>7 DEF IsPutIn, E

------------------------------------------------------------------------------
(* Lists.                                                                  *)

(* Every buffer of one list is an entry of the other.                      *)
Within(new, list) == \A k \in 2 .. Len(new) : \E j \in 2 .. Len(list) : new[k] = list[j]

LEMMA ListFacts ==
    ASSUME NEW list, Listed(list)
    PROVE  /\ Len(list) \in Nat /\ list \in Seq(Entries)
           /\ \A i \in 1 .. Len(list) : /\ list[i] \in Entries /\ list[i].data \in Nat
                                        /\ list[i].size \in Nat
           /\ list[1].data = 0 /\ list[1].size = 0
           /\ \A b : b \in Data(list) <=> \E i \in 2 .. Len(list) : list[i].data = b
<1>1. /\ list \in Seq(Entries) /\ Len(list) \in Nat /\ list[1] = Guard /\ Len(list) >= 1
  BY DEF Listed
<1>2. \A i \in 1 .. Len(list) : list[i] \in Entries
  BY <1>1
<1>3. \A e \in Entries : e.data \in Nat /\ e.size \in Nat
  BY DEF Entries
<1>4. list[1].data = 0 /\ list[1].size = 0
  BY <1>1 DEF Guard, Entry
<1>5. \A b : b \in Data(list) <=> \E i \in 2 .. Len(list) : list[i].data = b
  BY DEF Data
<1> QED BY <1>1, <1>2, <1>3, <1>4, <1>5

(* What is left of a list when a buffer is taken out.                      *)
LEMMA TakenOut ==
    ASSUME NEW list, Listed(list), NEW i \in 2 .. Len(list)
    PROVE  /\ Listed(RemoveAt(list, i)) /\ Within(RemoveAt(list, i), list)
           /\ Data(RemoveAt(list, i)) = Data(list) \ {list[i].data}
           /\ Sorted(list) => Sorted(RemoveAt(list, i))
<1> DEFINE new == RemoveAt(list, i)
           n == Len(list)
           at(k) == IF k < i THEN k ELSE k + 1
<1>1. n \in Nat /\ n >= 2 /\ i \in Nat /\ i >= 2 /\ i <= n /\ list \in Seq(Entries)
  BY ListFacts
<1>2. /\ new \in Seq(Entries) /\ Len(new) = n - 1
      /\ \A k \in 1 .. n - 1 : new[k] = IF k < i THEN list[k] ELSE list[k + 1]
  BY <1>1, Removed
<1> HIDE DEF new
<1>3. \A k \in 1 .. n - 1 : /\ new[k] = list[at(k)] /\ at(k) \in 1 .. n /\ at(k) # i
                            /\ k >= 2 => at(k) >= 2
  BY <1>1, <1>2
<1>4. \A k, m \in 1 .. n - 1 : (at(k) = at(m) => k = m) /\ (k < m => at(k) < at(m))
  BY <1>1
<1> HIDE DEF at
<1>5. Within(new, list)
  BY <1>1, <1>2, <1>3 DEF Within
<1>6. Listed(new)
  <2>1. Len(new) >= 1 /\ new[1] = Guard
    <3>1. new[1] = list[1]
      BY <1>1, <1>2
    <3> QED BY <1>1, <1>2, <3>1 DEF Listed
  <2>2. \A k \in 2 .. Len(new) : new[k].data >= 1 /\ new[k].size >= 1
    BY <1>5 DEF Within, Listed
  <2>3. ASSUME NEW k \in 1 .. Len(new), NEW m \in 1 .. Len(new), new[k].data = new[m].data
        PROVE  k = m
    BY <1>2, <1>3, <1>4, <2>3 DEF Listed
  <2> QED BY <1>2, <2>1, <2>2, <2>3 DEF Listed
<1>7. Data(new) = Data(list) \ {list[i].data}
  <2>1. ASSUME NEW b \in Data(new) PROVE b \in Data(list) /\ b # list[i].data
    <3>1. PICK k \in 2 .. n - 1 : new[k].data = b
      BY <1>2 DEF Data
    <3>2. list[at(k)].data = b /\ at(k) \in 2 .. n /\ at(k) # i
      BY <1>1, <1>3, <3>1
    <3>3. b \in Data(list)
      BY <1>1, <3>2 DEF Data
    <3>4. at(k) \in 1 .. n /\ i \in 1 .. n
      BY <1>1, <3>2
    <3>5. list[at(k)].data # list[i].data
      BY <3>2, <3>4 DEF Listed
    <3> QED BY <3>2, <3>3, <3>5
  <2>2. ASSUME NEW b \in Data(list), b # list[i].data PROVE b \in Data(new)
    <3>1. PICK j \in 2 .. n : list[j].data = b
      BY DEF Data
    <3>2. j # i
      BY <2>2, <3>1
    <3>3. CASE j < i
      BY <1>1, <1>2, <3>1, <3>3 DEF Data
    <3>4. CASE j > i
      <4>1. new[j - 1] = list[j] /\ j - 1 \in 2 .. n - 1
        BY <1>1, <1>2, <3>4
      <4> QED BY <1>2, <3>1, <4>1 DEF Data
    <3> QED BY <1>1, <3>2, <3>3, <3>4
  <2> QED BY <2>1, <2>2
<1>8. ASSUME Sorted(list) PROVE Sorted(new)
  BY <1>2, <1>3, <1>4, <1>8 DEF Sorted
<1> QED BY <1>5, <1>6, <1>7, <1>8 DEF new

(* What a list is with one buffer more, wherever that is put.              *)
LEMMA PutIn ==
    ASSUME NEW list, Listed(list), NEW e \in Entries, e.data >= 1, e.size >= 1,
           e.data \notin Data(list), NEW i \in 2 .. Len(list) + 1, NEW new,
           IsPutIn(new, list, i, e)
    PROVE  /\ Listed(new) /\ Data(new) = Data(list) \cup {e.data}
           /\ \A k \in 2 .. Len(new) : new[k] = e \/ \E j \in 2 .. Len(list) : new[k] = list[j]
<1> DEFINE n == Len(list)
           at(k) == IF k < i THEN k ELSE k - 1
<1>1. n \in Nat /\ i \in Nat /\ i >= 2 /\ i <= n + 1 /\ n >= 1 /\ list \in Seq(Entries)
  BY ListFacts DEF Listed
<1>2. /\ new \in Seq(Entries) /\ Len(new) = n + 1
      /\ \A k \in 1 .. n + 1 :
           new[k] = IF k < i THEN list[k] ELSE IF k = i THEN e ELSE list[k - 1]
  BY DEF IsPutIn
<1>3. ASSUME NEW k \in 1 .. n + 1, k # i
      PROVE  /\ new[k] = list[at(k)] /\ at(k) \in 1 .. n
             /\ k >= 2 => at(k) >= 2
  <2>1. CASE k < i
    BY <1>1, <1>2, <2>1
  <2>2. CASE k > i
    BY <1>1, <1>2, <2>2
  <2> QED BY <1>1, <1>3, <2>1, <2>2
<1>4. new[i] = e
  BY <1>1, <1>2
<1>5. \A k, m \in 1 .. n + 1 : k # i /\ m # i /\ at(k) = at(m) => k = m
  BY <1>1
<1> HIDE DEF at
<1>6. ASSUME NEW k \in 2 .. Len(new), new[k] # e PROVE \E j \in 2 .. n : new[k] = list[j]
  <2>1. k \in 1 .. n + 1 /\ k >= 2 /\ k # i
    BY <1>1, <1>2, <1>4, <1>6
  <2>2. new[k] = list[at(k)] /\ at(k) \in 1 .. n /\ at(k) >= 2
    BY <1>3, <2>1
  <2> QED BY <1>1, <2>2
<1>7. \A j \in 1 .. n : list[j].data # e.data
  <2>1. list[1].data = 0 /\ \A j \in 2 .. n : list[j].data \in Data(list)
    BY ListFacts
  <2> QED BY <1>1, <2>1
<1>8. Listed(new)
  <2>1. new[1] = Guard
    BY <1>1, <1>2 DEF Listed
  <2>2. \A k \in 2 .. Len(new) : new[k].data >= 1 /\ new[k].size >= 1
    BY <1>6 DEF Listed
  <2>3. ASSUME NEW k \in 1 .. Len(new), NEW m \in 1 .. Len(new), new[k].data = new[m].data
        PROVE  k = m
    <3>1. CASE k # i /\ m # i
      <4>1. /\ k \in 1 .. n + 1 /\ new[k] = list[at(k)] /\ at(k) \in 1 .. n
            /\ m \in 1 .. n + 1 /\ new[m] = list[at(m)] /\ at(m) \in 1 .. n
        BY <1>2, <1>3, <3>1
      <4>2. at(k) = at(m)
        BY <2>3, <4>1 DEF Listed
      <4> QED BY <1>5, <3>1, <4>1, <4>2
    <3>2. CASE k = i \/ m = i
      BY <1>2, <1>3, <1>4, <1>7, <2>3, <3>2
    <3> QED BY <3>1, <3>2
  <2> QED BY <1>1, <1>2, <2>1, <2>2, <2>3 DEF Listed
<1>9. Data(new) = Data(list) \cup {e.data}
  <2>1. ASSUME NEW b \in Data(new) PROVE b \in Data(list) \cup {e.data}
    BY <1>6 DEF Data
  <2>2. e.data \in Data(new)
    BY <1>1, <1>2, <1>4 DEF Data
  <2>3. ASSUME NEW b \in Data(list) PROVE b \in Data(new)
    <3>1. PICK j \in 2 .. n : list[j].data = b
      BY DEF Data
    <3>2. CASE j < i
      BY <1>1, <1>2, <3>1, <3>2 DEF Data
    <3>3. CASE j >= i
      <4>1. new[j + 1] = list[j] /\ j + 1 \in 2 .. n + 1
        BY <1>1, <1>2, <3>3
      <4> QED BY <1>2, <3>1, <4>1 DEF Data
    <3> QED BY <1>1, <3>2, <3>3
  <2> QED BY <2>1, <2>2, <2>3
<1> QED BY <1>6, <1>8, <1>9

(* Behind the last buffer that is not larger a sorted list stays sorted.   *)
LEMMA FreedInto ==
    ASSUME NEW list, Listed(list), Sorted(list), NEW e \in Entries, e.data >= 1, e.size >= 1,
           e.data \notin Data(list)
    PROVE  /\ Listed(Insert(list, e)) /\ Sorted(Insert(list, e))
           /\ Data(Insert(list, e)) = Data(list) \cup {e.data}
<1> DEFINE n == Len(list)
           S == {j \in 1 .. n : list[j].size <= e.size}
           m == Max(S)
           i == 1 + m
           new == Insert(list, e)
<1>1. n \in Nat /\ n >= 1 /\ list \in Seq(Entries) /\ list[1].size = 0 /\ e.size \in Nat
      /\ \A j \in 1 .. n : list[j].size \in Nat
  BY ListFacts DEF Listed, Entries
<1>2. m \in S /\ \A x \in S : m >= x
  <2>1. S \subseteq 1 .. n /\ 1 \in S
    BY <1>1
  <2> HIDE DEF S
  <2> QED BY <1>1, <2>1, MaxFacts
<1>3. new = InsertAt(list, i, e)
  BY DEF Insert
<1> HIDE DEF m, new
<1>4. m \in 1 .. n /\ i \in 2 .. n + 1 /\ list[m].size <= e.size
      /\ \A j \in 1 .. n : list[j].size <= e.size => j <= m
  BY <1>1, <1>2
<1> HIDE DEF i, S
<1>5. IsPutIn(new, list, i, e)
  <2>1. i \in 1 .. Len(list) + 1
    BY <1>1, <1>4
  <2> QED BY <1>1, <1>3, <2>1, Inserted
<1>6. Listed(new) /\ Data(new) = Data(list) \cup {e.data}
  BY <1>4, <1>5, PutIn
<1>7. /\ new \in Seq(Entries) /\ Len(new) = n + 1
      /\ \A k \in 1 .. n + 1 :
            new[k] = IF k < i THEN list[k] ELSE IF k = i THEN e ELSE list[k - 1]
  BY <1>5 DEF IsPutIn
<1>8. Sorted(new)
  <2> SUFFICES ASSUME NEW k \in 1 .. n + 1, NEW l \in 1 .. n + 1, k < l
               PROVE  new[k].size <= new[l].size
    BY <1>7 DEF Sorted
  <2>1. i = 1 + m
    BY DEF i
  <2>2. CASE l < i
    <3>1. new[k] = list[k] /\ new[l] = list[l] /\ k \in 1 .. n /\ l \in 1 .. n
      BY <1>1, <1>4, <1>7, <2>1, <2>2
    <3> QED BY <3>1 DEF Sorted
  <2>3. CASE k < i /\ l = i
    <3>1. new[k] = list[k] /\ new[l] = e /\ k \in 1 .. n /\ k <= m
      BY <1>1, <1>4, <1>7, <2>1, <2>3
    <3>2. list[k].size <= list[m].size
      BY <1>1, <1>4, <3>1 DEF Sorted
    <3> QED BY <1>1, <1>4, <3>1, <3>2
  <2>4. CASE k < i /\ l > i
    <3>1. k \in 1 .. n /\ l - 1 \in 1 .. n /\ k < l - 1 /\ ~(l < i) /\ l # i
      BY <1>1, <1>4, <2>1, <2>4
    <3>2. new[k] = list[k] /\ new[l] = list[l - 1]
      BY <1>7, <2>4, <3>1
    <3> QED BY <3>1, <3>2 DEF Sorted
  <2>5. CASE k = i
    <3>1. l - 1 \in 1 .. n /\ ~(l - 1 <= m) /\ new[l] = list[l - 1] /\ new[k] = e
      BY <1>1, <1>4, <1>7, <2>1, <2>5
    <3>2. list[l - 1].size > e.size
      BY <1>1, <1>4, <3>1
    <3> QED BY <1>1, <3>1, <3>2
  <2>6. CASE k > i
    <3>1. new[k] = list[k - 1] /\ new[l] = list[l - 1] /\ k - 1 \in 1 .. n /\ l - 1 \in 1 .. n
          /\ k - 1 < l - 1
      BY <1>1, <1>4, <1>7, <2>1, <2>6
    <3> QED BY <3>1 DEF Sorted
  <2> QED BY <1>4, <2>2, <2>3, <2>4, <2>5, <2>6
<1> QED BY <1>6, <1>8 DEF new

LEMMA AddedTo ==
    ASSUME NEW list, Listed(list), NEW e \in Entries, e.data >= 1, e.size >= 1,
           e.data \notin Data(list)
    PROVE  /\ Listed(Append(list, e)) /\ Data(Append(list, e)) = Data(list) \cup {e.data}
           /\ \A k \in 2 .. Len(Append(list, e)) :
                Append(list, e)[k] = e \/ \E j \in 2 .. Len(list) : Append(list, e)[k] = list[j]
<1> DEFINE n == Len(list)
           new == Append(list, e)
<1>1. n \in Nat /\ n >= 1 /\ list \in Seq(Entries)
  BY ListFacts DEF Listed
<1>2. IsPutIn(new, list, n + 1, e) /\ n + 1 \in 2 .. n + 1
  BY <1>1 DEF IsPutIn
<1> HIDE DEF new
<1>3. /\ Listed(new) /\ Data(new) = Data(list) \cup {e.data}
      /\ \A k \in 2 .. Len(new) : new[k] = e \/ \E j \in 2 .. Len(list) : new[k] = list[j]
  BY <1>2, PutIn
<1> QED BY <1>3 DEF new

(* Free finds the buffer.                                                  *)
LEMMA PositionFound ==
    ASSUME NEW list, Listed(list), NEW b \in Data(list)
    PROVE  Position(list, b) \in 2 .. Len(list) /\ list[Position(list, b)].data = b
<1> DEFINE S == {j \in 1 .. Len(list) : list[j].data = b}
<1>1. Len(list) \in Nat /\ S \subseteq 1 .. Len(list) /\ list[1].data = 0
  BY ListFacts
<1>2. \E j \in 2 .. Len(list) : list[j].data = b
  BY ListFacts
<1>3. S # {}
  BY <1>1, <1>2
<1>4. Max(S) \in S
  <2> HIDE DEF S
  <2> QED BY <1>1, <1>3, MaxFacts
<1>5. Position(list, b) = Max(S)
  BY DEF Position
<1>6. 1 \notin S
  BY <1>1, <1>2 DEF Listed
<1> HIDE DEF S
<1>7. Position(list, b) \in S /\ Position(list, b) # 1
  BY <1>4, <1>5, <1>6
<1> QED BY <1>1, <1>7 DEF S

(* The search of Alloc finds the smallest buffer that fits.                *)
LEMMA FitFound ==
    ASSUME NEW list, Listed(list), Sorted(list), NEW n \in Nat \ {0}, HasFit(list, n)
    PROVE  /\ SmallestFit(list, n) \in 2 .. Len(list)
           /\ list[SmallestFit(list, n)].size >= n
           /\ \A j \in 1 .. Len(list) : j < SmallestFit(list, n) => list[j].size < n
<1> DEFINE L == Len(list)
           S == {j \in 1 .. (L - 1) : list[j].size < n}
           m == Max(S)
<1>1. L \in Nat /\ L > 1 /\ list[1].size = 0 /\ list[L].size >= n
      /\ \A j \in 1 .. L : list[j].size \in Nat
  BY ListFacts DEF HasFit
<1>2. m \in S /\ \A x \in S : m >= x
  <2>1. S \subseteq 1 .. (L - 1) /\ 1 \in S /\ L - 1 \in Nat
    BY <1>1
  <2> HIDE DEF S
  <2> QED BY <2>1, MaxFacts
<1>3. SmallestFit(list, n) = 1 + m
  BY DEF SmallestFit
<1> HIDE DEF m
<1>4. m \in 1 .. (L - 1) /\ list[m].size < n /\ \A j \in 1 .. (L - 1) : list[j].size < n => j <= m
  BY <1>1, <1>2
<1> HIDE DEF S
<1>5. list[1 + m].size >= n
  <2>1. CASE 1 + m = L
    BY <1>1, <2>1
  <2>2. CASE 1 + m # L
    <3>1. 1 + m \in 1 .. (L - 1) /\ ~(1 + m <= m)
      BY <1>1, <1>4, <2>2
    <3> QED BY <1>1, <1>4, <3>1
  <2> QED BY <2>1, <2>2
<1>6. ASSUME NEW j \in 1 .. L, j < 1 + m PROVE list[j].size < n
  <2>1. list[j].size <= list[m].size
    BY <1>1, <1>4, <1>6 DEF Sorted
  <2> QED BY <1>1, <1>4, <2>1
<1> QED BY <1>1, <1>3, <1>4, <1>5, <1>6

------------------------------------------------------------------------------
(* The inductive invariant.                                                *)

Unused(d) == Data(array[d].free)
Used(d) == Data(array[d].allocated)
Owned(d) == Unused(d) \cup Used(d)

PoolRecord == [made : BOOLEAN, free : Seq(Entries), allocated : Seq(Entries)]

(* What there is, and which threads are past the look at the array.        *)
PoolTypes ==
    /\ fresh \in Nat /\ fresh <= MaxBuffers
    /\ array \in [Devices -> PoolRecord]
    /\ \A b \in DOMAIN held : held[b].dev \in Devices /\ held[b].nbytes \in Requests

ThreadTypes ==
    /\ pc \in [Threads -> {"idle", "create", "alloc"}]
    /\ req \in [Threads -> Request \cup {NoRequest}]
    /\ \A t \in Threads : /\ pc[t] # "idle" => req[t] \in Request
                          /\ pc[t] = "alloc" => array[req[t].dev].made

(* A pool that is there has its lists, one that is not has no buffer.      *)
PoolLists ==
    \A d \in Devices :
      /\ array[d].made => /\ Listed(array[d].free) /\ Sorted(array[d].free)
                          /\ Listed(array[d].allocated)
      /\ ~array[d].made => array[d].free = <<>> /\ array[d].allocated = <<>>

(* The lists share no buffer, their buffers are those handed out, and the   *)
(* ones in use are the program's.                                          *)
BufferSets ==
    /\ \A d \in Devices : Unused(d) \cap Used(d) = {}
    /\ \A d, e \in Devices : d # e => Owned(d) \cap Owned(e) = {}
    /\ \A b : b \in 1 .. fresh <=> \E d \in Devices : b \in Owned(d)
    /\ \A d \in Devices : Used(d) = {b \in DOMAIN held : held[b].dev = d}

PoolInv == PoolTypes /\ PoolLists /\ BufferSets /\ FitsRequest

IInv == PoolInv /\ ThreadTypes

LEMMA InitInv == Init => IInv
<1> SUFFICES ASSUME Init PROVE IInv
  OBVIOUS
<1>1. /\ array = [d \in Devices |-> NoPool] /\ fresh = 0 /\ held = <<>>
      /\ pc = [t \in Threads |-> "idle"] /\ req = [t \in Threads |-> NoRequest]
  BY DEF Init
<1>2. /\ NoPool.made = FALSE /\ NoPool.free = <<>> /\ NoPool.allocated = <<>>
      /\ NoPool \in PoolRecord
  BY DEF NoPool, PoolRecord
<1>3. DOMAIN held = {}
  BY <1>1
<1>4. PoolTypes
  BY <1>1, <1>2, <1>3, BufferAssumption DEF PoolTypes
<1>5. PoolLists
  BY <1>1, <1>2 DEF PoolLists
<1>6. \A d \in Devices : /\ array[d].allocated = <<>>
                         /\ Unused(d) = {} /\ Used(d) = {} /\ Owned(d) = {}
  BY <1>1, <1>2 DEF Unused, Used, Owned, Data
<1>7. BufferSets
  BY <1>1, <1>3, <1>6 DEF BufferSets
<1>8. FitsRequest
  BY <1>6 DEF FitsRequest
<1>9. ThreadTypes
  BY <1>1 DEF ThreadTypes
<1> QED BY <1>4, <1>5, <1>7, <1>8, <1>9 DEF IInv, PoolInv

------------------------------------------------------------------------------
(* What the invariant says of one buffer and one list.                     *)

(* An entry of a list in use fits, with its request.                       *)
Fits(e) == /\ e.data \in DOMAIN held
           /\ e.size >= held[e.data].nbytes /\ e.size <= 2 * Rounded(held[e.data].nbytes)

LEMMA EntriesFit ==
    ASSUME BufferSets, FitsRequest, NEW d \in Devices, NEW i \in 2 .. Len(array[d].allocated)
    PROVE  Fits(array[d].allocated[i]) /\ array[d].allocated[i].data \in Used(d)
<1>1. array[d].allocated[i].data \in Used(d)
  BY DEF Used, Data
<1>2. Used(d) \subseteq DOMAIN held
  BY DEF BufferSets
<1> QED BY <1>1, <1>2 DEF FitsRequest, Fits

(* The sets of buffers after buffer x, unused or from the device, is handed *)
(* out by the pool of d.                                                   *)
LEMMA HandedOut ==
    ASSUME PoolTypes, BufferSets, NEW r \in Request, NEW x,
           \/ x \in Unused(r.dev) /\ fresh' = fresh
           \/ x = fresh + 1 /\ fresh' = fresh + 1,
           \A c \in Devices : c # r.dev => Unused(c)' = Unused(c) /\ Used(c)' = Used(c),
           Unused(r.dev)' = Unused(r.dev) \ {x}, Used(r.dev)' = Used(r.dev) \cup {x},
           held' = Handed(x, r)
    PROVE  /\ BufferSets' /\ x \notin DOMAIN held
           /\ \A c \in Devices : x \notin Used(c)
           /\ DOMAIN held' = DOMAIN held \cup {x}
           /\ held'[x] = [dev |-> r.dev, nbytes |-> r.nbytes]
           /\ \A b \in DOMAIN held : b # x /\ held'[b] = held[b]
<1> DEFINE d == r.dev
<1>1. d \in Devices /\ r.nbytes \in Requests /\ fresh \in Nat
  BY DEF Request, PoolTypes
<1>2. /\ \A c \in Devices : Unused(c) \cap Used(c) = {}
      /\ \A c, e \in Devices : c # e => Owned(c) \cap Owned(e) = {}
      /\ \A b : b \in 1 .. fresh <=> \E c \in Devices : b \in Owned(c)
      /\ \A c \in Devices : Used(c) = {b \in DOMAIN held : held[b].dev = c}
  BY DEF BufferSets
<1>3. fresh + 1 \notin 1 .. fresh
  BY <1>1
<1>4. \A c \in Devices : x \notin Used(c) /\ (c # d => x \notin Unused(c))
  <2>1. CASE x \in Unused(d)
    BY <1>1, <1>2, <2>1 DEF Owned
  <2>2. CASE x = fresh + 1
    BY <1>2, <1>3, <2>2 DEF Owned
  <2> QED BY <2>1, <2>2
<1>5. \A b \in DOMAIN held : b \in Used(held[b].dev) /\ held[b].dev \in Devices
  BY <1>2 DEF PoolTypes
<1>6. x \notin DOMAIN held
  BY <1>4, <1>5
<1>7. /\ DOMAIN held' = DOMAIN held \cup {x} /\ held'[x] = [dev |-> d, nbytes |-> r.nbytes]
      /\ \A b \in DOMAIN held : b # x /\ held'[b] = held[b]
  BY <1>6 DEF Handed
<1>8. Owned(d)' = Owned(d) \cup {x} /\ \A c \in Devices : c # d => Owned(c)' = Owned(c)
  BY DEF Owned
<1>9. \A b : b \in (1 .. fresh)' <=> b \in 1 .. fresh \/ b = x
  <2>1. CASE x \in Unused(d) /\ fresh' = fresh
    BY <1>1, <1>2, <2>1 DEF Owned
  <2>2. CASE x = fresh + 1 /\ fresh' = fresh + 1
    BY <1>1, <2>2
  <2> QED BY <2>1, <2>2
<1>10. \A c \in Devices : (Unused(c) \cap Used(c))' = {}
  BY <1>2, <1>4
<1>11. \A c, e \in Devices : c # e => (Owned(c) \cap Owned(e))' = {}
  <2>1. \A c \in Devices : c # d => x \notin Owned(c)
    BY <1>4 DEF Owned
  <2> QED BY <1>2, <1>8, <2>1
<1>12. \A b : b \in (1 .. fresh)' <=> \E c \in Devices : b \in Owned(c)'
  BY <1>1, <1>2, <1>8, <1>9
<1>13. \A c \in Devices : Used(c)' = {b \in DOMAIN held' : held'[b].dev = c}
  <2>1. ASSUME NEW c \in Devices, c # d PROVE Used(c)' = {b \in DOMAIN held' : held'[b].dev = c}
    BY <1>2, <1>7, <2>1
  <2>2. Used(d)' = {b \in DOMAIN held' : held'[b].dev = d}
    BY <1>1, <1>2, <1>7
  <2> QED BY <2>1, <2>2
<1>14. BufferSets'
  BY <1>10, <1>11, <1>12, <1>13 DEF BufferSets
<1> QED BY <1>4, <1>6, <1>7, <1>14

(* The same when buffer x is given back.                                   *)
LEMMA GivenBack ==
    ASSUME PoolTypes, BufferSets, NEW d \in Devices, NEW x \in Used(d), fresh' = fresh,
           \A c \in Devices : c # d => Unused(c)' = Unused(c) /\ Used(c)' = Used(c),
           Unused(d)' = Unused(d) \cup {x}, Used(d)' = Used(d) \ {x},
           held' = [b \in DOMAIN held \ {x} |-> held[b]]
    PROVE  BufferSets'
<1>2. /\ \A c \in Devices : Unused(c) \cap Used(c) = {}
      /\ \A c, e \in Devices : c # e => Owned(c) \cap Owned(e) = {}
      /\ \A b : b \in 1 .. fresh <=> \E c \in Devices : b \in Owned(c)
      /\ \A c \in Devices : Used(c) = {b \in DOMAIN held : held[b].dev = c}
  BY DEF BufferSets
<1>3. \A c \in Devices : Owned(c)' = Owned(c)
  BY DEF Owned
<1>4. \A c \in Devices : (Unused(c) \cap Used(c))' = {}
  BY <1>2
<1>5. \A c, e \in Devices : c # e => (Owned(c) \cap Owned(e))' = {}
  BY <1>2, <1>3
<1>6. \A b : b \in (1 .. fresh)' <=> \E c \in Devices : b \in Owned(c)'
  BY <1>2, <1>3
<1>7. /\ DOMAIN held' = DOMAIN held \ {x} /\ held[x].dev = d
      /\ \A b \in DOMAIN held' : held'[b] = held[b]
  BY <1>2
<1>8. \A c \in Devices : Used(c)' = {b \in DOMAIN held' : held'[b].dev = c}
  <2>1. ASSUME NEW c \in Devices, c # d PROVE Used(c)' = {b \in DOMAIN held' : held'[b].dev = c}
    BY <1>2, <1>7, <2>1
  <2>2. Used(d)' = {b \in DOMAIN held' : held'[b].dev = d}
    BY <1>2, <1>7
  <2> QED BY <2>1, <2>2
<1> QED BY <1>4, <1>5, <1>6, <1>8 DEF BufferSets

------------------------------------------------------------------------------
(* Pool::Alloc.                                                            *)

(* The entry that Alloc hands out: a free one, or a new one of the device.  *)
Given(list, n, r) ==
    IF Reuses(list, n) THEN list[SmallestFit(list, n)] ELSE Entry(fresh + 1, Scaled(n, r.scale))

LEMMA GivenFits ==
    ASSUME PoolInv, NEW r \in Request, array[r.dev].made, NEW n, n = Rounded(r.nbytes),
           NEW list, list = array[r.dev].free, NEW e, e = Given(list, n, r)
    PROVE  /\ e \in Entries /\ e.data >= 1 /\ e.size >= 1
           /\ e.size >= r.nbytes /\ e.size <= 2 * n
           /\ Reuses(list, n) => /\ SmallestFit(list, n) \in 2 .. Len(list)
                                 /\ e = list[SmallestFit(list, n)]
                                 /\ e.data \in Unused(r.dev)
           /\ ~Reuses(list, n) => e.data = fresh + 1
<1>1. /\ r.dev \in Devices /\ r.nbytes \in Nat /\ r.scale \in Scales /\ fresh \in Nat
      /\ Listed(list) /\ Sorted(list)
  BY RequestAssumption DEF Request, PoolInv, PoolTypes, PoolLists
<1>2. n \in Nat \ {0} /\ n >= r.nbytes
  BY <1>1, RoundedUp
<1>3. CASE Reuses(list, n)
  <2>1. HasFit(list, n) /\ list[SmallestFit(list, n)].size <= 2 * n
    BY <1>3 DEF Reuses
  <2>2. SmallestFit(list, n) \in 2 .. Len(list) /\ list[SmallestFit(list, n)].size >= n
    BY <1>1, <1>2, <2>1, FitFound
  <2>3. e = list[SmallestFit(list, n)]
    BY <1>3 DEF Given
  <2>4. e \in Entries /\ e.data >= 1 /\ e.size >= 1
    <3>1. \A i \in 1 .. Len(list) : list[i] \in Entries
      BY <1>1 DEF Listed
    <3> QED BY <1>1, <2>2, <2>3, <3>1 DEF Listed
  <2>5. e.data \in Unused(r.dev)
    BY <2>2, <2>3 DEF Unused, Data
  <2>6. e.size \in Nat
    BY <2>4 DEF Entries
  <2> QED BY <1>2, <1>1, <1>3, <2>1, <2>2, <2>3, <2>4, <2>5, <2>6
<1>4. CASE ~Reuses(list, n)
  <2>1. e = [data |-> fresh + 1, size |-> Scaled(n, r.scale)]
    BY <1>4 DEF Given, Entry
  <2>2. Scaled(n, r.scale) \in Nat /\ n <= Scaled(n, r.scale) /\ Scaled(n, r.scale) <= 2 * n
    BY <1>1, <1>2, ScaledUp
  <2> QED BY <1>1, <1>2, <1>4, <2>1, <2>2 DEF Entries
<1> QED BY <1>3, <1>4

(* What Alloc does with the entry it hands out.                            *)
AllocStep(r, n, list, e) ==
    /\ Reuses(list, n) => fresh' = fresh
    /\ ~Reuses(list, n) => fresh < MaxBuffers /\ fresh' = fresh + 1
    /\ array'[r.dev].allocated = Append(array[r.dev].allocated, e)
    /\ Reuses(list, n) => array'[r.dev].free = RemoveAt(list, SmallestFit(list, n))
    /\ ~Reuses(list, n) => array'[r.dev].free = list
    /\ \A c \in Devices : c # r.dev => array'[c] = array[c]
    /\ array' = [c \in Devices |-> array'[c]]
    /\ array'[r.dev] = [made |-> TRUE, free |-> array'[r.dev].free,
                         allocated |-> array'[r.dev].allocated]
    /\ held' = Handed(e.data, r)

LEMMA AllocEffect ==
    ASSUME PoolInv, NEW r \in Request, array[r.dev].made, Alloc(r)
    PROVE  AllocStep(r, Rounded(r.nbytes), array[r.dev].free,
                     Given(array[r.dev].free, Rounded(r.nbytes), r))
<1> DEFINE n == Rounded(r.nbytes)
           list == array[r.dev].free
           e == Given(list, n, r)
<1>1. r.dev \in Devices
  BY DEF Request
<1>2. /\ array \in [Devices -> PoolRecord]
      /\ array[r.dev].made = TRUE
  BY <1>1 DEF PoolInv, PoolTypes
<1>3. e = IF ~Reuses(list, n) THEN Entry(fresh + 1, Scaled(n, r.scale))
          ELSE list[SmallestFit(list, n)]
  BY DEF Given
<1> HIDE DEF n, e
<1>4. AllocStep(r, n, list, e)
  BY <1>1, <1>2, <1>3 DEF Alloc, AllocStep, PoolRecord, n
<1> QED BY <1>4 DEF n, e

LEMMA AllocInv ==
    ASSUME PoolInv, NEW r \in Request, array[r.dev].made, Alloc(r)
    PROVE  /\ PoolInv' /\ \A c \in Devices : array[c].made => array'[c].made
           /\ \E x \in Buffers : x \notin DOMAIN held /\ held' = Handed(x, r)
<1> DEFINE d == r.dev
           n == Rounded(r.nbytes)
           list == array[d].free
           used == array[d].allocated
           e == Given(list, n, r)
           again == Reuses(list, n)
           x == e.data
<1>1. /\ d \in Devices /\ r.nbytes \in Requests /\ fresh \in Nat /\ fresh <= MaxBuffers
      /\ Listed(list) /\ Sorted(list) /\ Listed(used)
      /\ PoolTypes /\ PoolLists /\ BufferSets /\ FitsRequest
  BY DEF Request, PoolInv, PoolTypes, PoolLists
<1>2. /\ e \in Entries /\ x >= 1 /\ e.size >= 1 /\ e.size >= r.nbytes /\ e.size <= 2 * n
      /\ again => /\ SmallestFit(list, n) \in 2 .. Len(list) /\ e = list[SmallestFit(list, n)]
                   /\ x \in Unused(d)
      /\ ~again => x = fresh + 1
  BY GivenFits
<1>3. /\ again => fresh' = fresh
      /\ ~again => fresh < MaxBuffers /\ fresh' = fresh + 1
      /\ array'[d].allocated = Append(used, e)
      /\ again => array'[d].free = RemoveAt(list, SmallestFit(list, n))
      /\ ~again => array'[d].free = list
      /\ \A c \in Devices : c # d => array'[c] = array[c]
      /\ array' = [c \in Devices |-> array'[c]]
      /\ array'[d] = [made |-> TRUE, free |-> array'[d].free, allocated |-> array'[d].allocated]
      /\ held' = Handed(x, r)
  BY AllocEffect DEF AllocStep
<1> HIDE DEF e, again, x
<1>4. x \notin Unused(d) => ~again
  BY <1>2
<1>5. /\ Listed(array'[d].free) /\ Sorted(array'[d].free) /\ Unused(d)' = Unused(d) \ {x}
  <2>1. CASE again
    <3>1. x = list[SmallestFit(list, n)].data
      BY <1>2, <2>1 DEF x
    <3>2. /\ SmallestFit(list, n) \in 2 .. Len(list)
          /\ array'[d].free = RemoveAt(list, SmallestFit(list, n))
      BY <1>2, <1>3, <2>1
    <3>3. ASSUME NEW i \in 2 .. Len(list), i = SmallestFit(list, n)
          PROVE  /\ Listed(RemoveAt(list, i)) /\ Sorted(RemoveAt(list, i))
                 /\ Data(RemoveAt(list, i)) = Data(list) \ {list[i].data}
      BY <1>1, TakenOut
    <3> QED BY <3>1, <3>2, <3>3 DEF Unused
  <2>2. CASE ~again
    <3>1. \A b \in Unused(d) : b \in 1 .. fresh
      BY <1>1 DEF BufferSets, Owned
    <3>2. x \notin Unused(d)
      BY <1>1, <1>2, <2>2, <3>1
    <3> QED BY <1>1, <1>3, <2>2, <3>2 DEF Unused
  <2> QED BY <2>1, <2>2
<1>6. \A c \in Devices : c # d => Unused(c)' = Unused(c) /\ Used(c)' = Used(c)
  BY <1>3 DEF Unused, Used
<1>7. x \notin Used(d)
  <2>1. CASE again
    BY <1>1, <1>2, <2>1 DEF BufferSets
  <2>2. CASE ~again
    <3>1. \A b \in Used(d) : b \in 1 .. fresh
      BY <1>1 DEF BufferSets, Owned
    <3> QED BY <1>1, <1>2, <2>2, <3>1
  <2> QED BY <2>1, <2>2
<1>8. /\ Listed(array'[d].allocated) /\ Used(d)' = Used(d) \cup {x}
      /\ \A k \in 2 .. Len(array'[d].allocated) :
           array'[d].allocated[k] = e \/ \E j \in 2 .. Len(used) : array'[d].allocated[k] = used[j]
  BY <1>1, <1>2, <1>3, <1>7, AddedTo DEF Used, x
<1>9. /\ BufferSets' /\ x \notin DOMAIN held
      /\ \A c \in Devices : x \notin Used(c)
      /\ DOMAIN held' = DOMAIN held \cup {x}
      /\ held'[x] = [dev |-> d, nbytes |-> r.nbytes]
      /\ \A b \in DOMAIN held : b # x /\ held'[b] = held[b]
  <2>1. \/ x \in Unused(d) /\ fresh' = fresh
        \/ x = fresh + 1 /\ fresh' = fresh + 1
    BY <1>2, <1>3
  <2> QED BY <1>1, <1>3, <1>5, <1>6, <1>8, <2>1, HandedOut
<1>10. PoolTypes'
  <2>1. (fresh \in Nat /\ fresh <= MaxBuffers)'
    BY <1>1, <1>3, BufferAssumption
  <2>2. array'[d] \in PoolRecord
    <3>1. array'[d].free \in Seq(Entries) /\ array'[d].allocated \in Seq(Entries)
      BY <1>5, <1>8 DEF Listed
    <3>2. ASSUME NEW F \in Seq(Entries), NEW G \in Seq(Entries)
          PROVE  [made |-> TRUE, free |-> F, allocated |-> G]
                   \in PoolRecord
      BY DEF PoolRecord
    <3> QED BY <1>3, <3>1, <3>2
  <2>3. array' \in [Devices -> PoolRecord]
    <3>1. \A c \in Devices : array'[c] \in PoolRecord
      <4>1. \A c \in Devices : c # d => array'[c] = array[c]
        BY <1>3
      <4> QED BY <1>1, <2>2, <4>1 DEF PoolTypes
    <3> QED BY <1>3, <3>1
  <2>4. (\A b \in DOMAIN held : held[b].dev \in Devices /\ held[b].nbytes \in Requests)'
    BY <1>1, <1>9 DEF PoolTypes
  <2> QED BY <2>1, <2>3, <2>4 DEF PoolTypes
<1>11. PoolLists'
  <2>1. array'[d].made = TRUE
    BY <1>3
  <2>2. \A c \in Devices : c # d => array'[c] = array[c]
    BY <1>3
  <2> QED BY <1>1, <1>5, <1>8, <2>1, <2>2 DEF PoolLists
<1>12. FitsRequest'
  <2> SUFFICES ASSUME NEW c \in Devices, NEW k \in 2 .. Len(array'[c].allocated),
                      NEW f, f = array'[c].allocated[k]
               PROVE  Fits(f)'
    BY DEF FitsRequest, Fits
  <2>1. ASSUME NEW j \in 2 .. Len(array[c].allocated), f = array[c].allocated[j] PROVE Fits(f)'
    <3>1. Fits(f)
      BY <1>1, <2>1, EntriesFit
    <3> QED BY <1>9, <3>1 DEF Fits
  <2>2. CASE c # d
    BY <1>3, <2>1, <2>2
  <2>3. CASE c = d
    <3>1. CASE f = e
      BY <1>2, <1>9, <3>1 DEF Fits, x
    <3>2. CASE \E j \in 2 .. Len(used) : f = used[j]
      BY <2>1, <2>3, <3>2
    <3> QED BY <1>8, <2>3, <3>1, <3>2
  <2> QED BY <2>2, <2>3
<1>13. \A c \in Devices : array[c].made => array'[c].made
  BY <1>3
<1>14. x \in Buffers
  <2>1. x \in (1 .. fresh)'
    <3>1. x \in Used(d)'
      BY <1>8
    <3> QED BY <1>1, <1>9, <3>1 DEF BufferSets, Owned
  <2> QED BY <1>10, <2>1, BufferAssumption DEF Buffers, PoolTypes
<1> QED BY <1>3, <1>9, <1>10, <1>11, <1>12, <1>13, <1>14 DEF PoolInv

------------------------------------------------------------------------------
(* FreeWorkspace and the creation of a pool.                               *)

LEMMA FreeInv ==
    ASSUME PoolInv, NEW b \in DOMAIN held, NEW d, d = held[b].dev, Free(d, b), fresh' = fresh,
           held' = [c \in DOMAIN held \ {b} |-> held[c]]
    PROVE  PoolInv' /\ \A c \in Devices : array[c].made => array'[c].made
<1> DEFINE list == array[d].free
           used == array[d].allocated
           index == Position(used, b)
           e == used[index]
<1>1. /\ d \in Devices /\ PoolTypes /\ PoolLists /\ BufferSets /\ FitsRequest /\ b \in Used(d)
  BY DEF PoolInv, PoolTypes, BufferSets
<1>2. array[d].made /\ Listed(list) /\ Sorted(list) /\ Listed(used)
  <2>1. Data(<<>>) = {}
    BY DEF Data
  <2>2. used # <<>>
    BY <1>1, <2>1 DEF Used
  <2> QED BY <1>1, <2>2 DEF PoolLists
<1>3. index \in 2 .. Len(used) /\ e.data = b
  BY <1>1, <1>2, PositionFound DEF Used
<1>4. e \in Entries /\ e.data >= 1 /\ e.size >= 1 /\ b \notin Data(list)
  <2>1. \A i \in 1 .. Len(used) : used[i] \in Entries
    BY <1>2 DEF Listed
  <2>2. b \notin Unused(d)
    BY <1>1 DEF BufferSets
  <2> QED BY <1>2, <1>3, <2>1, <2>2 DEF Listed, Unused
<1>5. /\ array'[d].made = array[d].made
      /\ array'[d].free = Insert(list, e) /\ array'[d].allocated = RemoveAt(used, index)
      /\ \A c \in Devices : c # d => array'[c] = array[c]
      /\ array' = [c \in Devices |-> array'[c]]
      /\ array'[d] = [made |-> array[d].made, free |-> array'[d].free,
                      allocated |-> array'[d].allocated]
  <2>1. array \in [Devices -> PoolRecord]
    BY <1>1 DEF PoolTypes
  <2> QED BY <1>1, <2>1 DEF Free, PoolRecord
<1> HIDE DEF e, index
<1>6. Listed(array'[d].free) /\ Sorted(array'[d].free) /\ Unused(d)' = Unused(d) \cup {b}
  BY <1>2, <1>3, <1>4, <1>5, FreedInto DEF Unused
<1>7. /\ Listed(array'[d].allocated) /\ Within(array'[d].allocated, used)
      /\ Used(d)' = Used(d) \ {b}
  <2>1. used[index].data = b
    BY <1>3 DEF e
  <2> QED BY <1>2, <1>3, <1>5, <2>1, TakenOut DEF Used
<1>8. \A c \in Devices : c # d => Unused(c)' = Unused(c) /\ Used(c)' = Used(c)
  BY <1>5 DEF Unused, Used
<1>9. BufferSets'
  BY <1>1, <1>6, <1>7, <1>8, GivenBack
<1>10. DOMAIN held' = DOMAIN held \ {b} /\ \A c \in DOMAIN held' : held'[c] = held[c]
  OBVIOUS
<1>11. PoolTypes'
  <2>1. array'[d] \in PoolRecord
    <3>1. array'[d].free \in Seq(Entries) /\ array'[d].allocated \in Seq(Entries)
      BY <1>6, <1>7 DEF Listed
    <3>2. ASSUME NEW F \in Seq(Entries), NEW G \in Seq(Entries), NEW M \in BOOLEAN
          PROVE  [made |-> M, free |-> F, allocated |-> G]
                   \in PoolRecord
      BY DEF PoolRecord
    <3>3. array[d].made \in BOOLEAN
      BY <1>1 DEF PoolTypes, PoolRecord
    <3> QED BY <1>5, <3>1, <3>2, <3>3
  <2>2. array' \in [Devices -> PoolRecord]
    <3>1. \A c \in Devices : array'[c] \in PoolRecord
      BY <1>1, <1>5, <2>1 DEF PoolTypes
    <3> QED BY <1>5, <3>1
  <2> QED BY <1>1, <1>10, <2>2 DEF PoolTypes
<1>12. PoolLists'
  <2>1. \A c \in Devices : c # d => array'[c] = array[c]
    BY <1>5
  <2>2. array'[d].made = array[d].made
    BY <1>5
  <2> QED BY <1>1, <1>2, <1>6, <1>7, <2>1, <2>2 DEF PoolLists
<1>13. FitsRequest'
  <2> SUFFICES ASSUME NEW c \in Devices, NEW k \in 2 .. Len(array'[c].allocated),
                      NEW f, f = array'[c].allocated[k], f.data \in DOMAIN held'
               PROVE  Fits(f)'
    BY DEF FitsRequest, Fits
  <2>1. \E j \in 2 .. Len(array[c].allocated) : f = array[c].allocated[j]
    BY <1>5, <1>7 DEF Within
  <2>2. Fits(f)
    BY <1>1, <2>1, EntriesFit
  <2> QED BY <1>10, <2>2 DEF Fits
<1> QED BY <1>5, <1>9, <1>11, <1>12, <1>13 DEF PoolInv

LEMMA CreateInv ==
    ASSUME IInv, NEW t \in Threads, CreatePool(t)
    PROVE  PoolInv' /\ array'[req[t].dev].made /\ \A c \in Devices : array[c].made => array'[c].made
<1> DEFINE d == req[t].dev
<1>1. req[t] \in Request
  BY DEF IInv, ThreadTypes, CreatePool
<1>2. /\ d \in Devices /\ fresh' = fresh /\ held' = held
      /\ PoolTypes /\ PoolLists /\ BufferSets /\ FitsRequest
  BY <1>1 DEF Request, CreatePool, IInv, PoolInv
<1>3. /\ array' = [array EXCEPT ![d] = IF @.made THEN @ ELSE EmptyPool]
      /\ array \in [Devices -> PoolRecord]
  BY <1>2 DEF CreatePool, PoolTypes
<1> HIDE DEF d
<1>4. CASE array[d].made
  <2>1. array' = array
    BY <1>2, <1>3, <1>4
  <2>2. PoolTypes' /\ PoolLists' /\ BufferSets' /\ FitsRequest'
    BY <1>2, <2>1
       DEF PoolTypes, PoolLists, BufferSets, Unused, Used, Owned, FitsRequest
  <2> QED BY <1>4, <2>1, <2>2 DEF PoolInv, d
<1>5. CASE ~array[d].made
  <2>1. Guard \in Entries /\ Guard.data = 0 /\ Guard.size = 0
    BY DEF Guard, Entry, Entries
  <2>2. /\ Listed(<<Guard>>) /\ Sorted(<<Guard>>) /\ Data(<<Guard>>) = {}
        /\ <<Guard>> \in Seq(Entries)
    BY <2>1 DEF Listed, Sorted, Data
  <2>3. array[d].free = <<>> /\ array[d].allocated = <<>> /\ Data(<<>>) = {}
    BY <1>2, <1>5 DEF PoolLists, Data
  <2>4. /\ array'[d] = EmptyPool /\ \A c \in Devices : c # d => array'[c] = array[c]
        /\ array' = [c \in Devices |-> array'[c]]
    BY <1>2, <1>3, <1>5
  <2>5. /\ array'[d].made = TRUE /\ array'[d].free = <<Guard>> /\ array'[d].allocated = <<Guard>>
        /\ array'[d] \in PoolRecord
    BY <2>2, <2>4 DEF EmptyPool, PoolRecord
  <2>6. \A c \in Devices : Unused(c)' = Unused(c) /\ Used(c)' = Used(c) /\ Owned(c)' = Owned(c)
    BY <2>2, <2>3, <2>4, <2>5 DEF Unused, Used, Owned
  <2>7. PoolTypes'
    <3>1. \A c \in Devices : array'[c] \in PoolRecord
      BY <1>3, <2>4, <2>5
    <3>2. array' \in [Devices -> PoolRecord]
      BY <2>4, <3>1
    <3> QED BY <1>2, <3>2 DEF PoolTypes
  <2>8. PoolLists'
    BY <1>2, <2>2, <2>4, <2>5 DEF PoolLists
  <2>9. BufferSets'
    BY <1>2, <2>6 DEF BufferSets
  <2>10. FitsRequest'
    <3> SUFFICES ASSUME NEW c \in Devices, NEW k \in 2 .. Len(array'[c].allocated),
                        NEW f, f = array'[c].allocated[k], f.data \in DOMAIN held'
                 PROVE  Fits(f)'
      BY DEF FitsRequest, Fits
    <3>1. c # d
      BY <2>5
    <3>2. Fits(f)
      BY <1>2, <2>4, <3>1, EntriesFit
    <3> QED BY <1>2, <3>2 DEF Fits
  <2> QED BY <2>4, <2>5, <2>7, <2>8, <2>9, <2>10 DEF PoolInv, d
<1> QED BY <1>4, <1>5

------------------------------------------------------------------------------
(* Every step.                                                             *)

(* What a step is to the pools: a buffer handed out, one freed, or neither. *)
Gives == \E r \in Request : array[r.dev].made /\ Alloc(r)
Takes == \E b \in Buffers : /\ b \in DOMAIN held /\ Free(held[b].dev, b) /\ fresh' = fresh
                            /\ held' = [c \in DOMAIN held \ {b} |-> held[c]]
Makes == fresh' = fresh /\ held' = held

LEMMA PoolSteps == IInv /\ [Next]_vars => Gives \/ Takes \/ Makes
<1> SUFFICES ASSUME IInv, [Next]_vars PROVE Gives \/ Takes \/ Makes
  OBVIOUS
<1>1. ASSUME NEW t \in Threads, AllocWorkspace(t) PROVE Gives \/ Makes
  <2>1. PICK d \in Devices, n \in Requests, s \in Scales :
           IF array[d].made
           THEN Alloc([dev |-> d, nbytes |-> n, scale |-> s]) /\ UNCHANGED <<pc, req>>
           ELSE UNCHANGED <<array, fresh, held>>
    BY <1>1 DEF AllocWorkspace
  <2> DEFINE r == [dev |-> d, nbytes |-> n, scale |-> s]
  <2>2. r \in Request /\ r.dev = d
    BY DEF Request
  <2>3. CASE array[d].made
    BY <2>1, <2>2, <2>3 DEF Gives
  <2>4. CASE ~array[d].made
    BY <2>1, <2>4 DEF Makes
  <2> QED BY <2>3, <2>4
<1>2. ASSUME NEW t \in Threads, CreatePool(t) PROVE Makes
  BY <1>2 DEF CreatePool, Makes
<1>3. ASSUME NEW t \in Threads, AllocCreated(t) PROVE Gives
  <2>1. req[t] \in Request /\ array[req[t].dev].made /\ Alloc(req[t])
    BY <1>3 DEF AllocCreated, IInv, ThreadTypes
  <2> QED BY <2>1 DEF Gives
<1>4. ASSUME NEW t \in Threads, NEW b \in Buffers, FreeWorkspace(t, b) PROVE Takes
  BY <1>4 DEF FreeWorkspace, Takes
<1>5. CASE UNCHANGED vars
  BY <1>5 DEF vars, Makes
<1> QED BY <1>1, <1>2, <1>3, <1>4, <1>5 DEF Next

LEMMA Inductive == IInv /\ [Next]_vars => IInv'
<1> SUFFICES ASSUME IInv, [Next]_vars PROVE IInv'
  OBVIOUS
<1>1. PoolInv /\ ThreadTypes
  BY DEF IInv
(* A pool once made stays, so the threads' requests keep their pools.       *)
<1>2. ASSUME \A c \in Devices : array[c].made => array'[c].made, UNCHANGED <<pc, req>>
      PROVE  ThreadTypes'
  <2>1. \A t \in Threads : pc[t] = "alloc" => req[t].dev \in Devices
    BY <1>1 DEF ThreadTypes, Request
  <2> QED BY <1>1, <1>2, <2>1 DEF ThreadTypes
<1>3. ASSUME NEW t \in Threads, AllocWorkspace(t) PROVE IInv'
  <2>1. PICK d \in Devices, n \in Requests, s \in Scales :
           IF array[d].made
           THEN Alloc([dev |-> d, nbytes |-> n, scale |-> s]) /\ UNCHANGED <<pc, req>>
           ELSE /\ pc' = [pc EXCEPT ![t] = "create"]
                /\ req' = [req EXCEPT ![t] = [dev |-> d, nbytes |-> n, scale |-> s]]
                /\ UNCHANGED <<array, fresh, held>>
    BY <1>3 DEF AllocWorkspace
  <2> DEFINE r == [dev |-> d, nbytes |-> n, scale |-> s]
  <2>2. r \in Request /\ r.dev = d
    BY DEF Request
  <2> HIDE DEF r
  <2>3. CASE array[d].made
    <3>1. Alloc(r) /\ UNCHANGED <<pc, req>> /\ array[r.dev].made
      BY <2>1, <2>2, <2>3 DEF r
    <3>2. PoolInv' /\ \A c \in Devices : array[c].made => array'[c].made
      BY <1>1, <2>2, <3>1, AllocInv
    <3> QED BY <1>2, <3>1, <3>2 DEF IInv
  <2>4. CASE ~array[d].made
    <3>1. /\ pc' = [pc EXCEPT ![t] = "create"] /\ req' = [req EXCEPT ![t] = r]
          /\ UNCHANGED <<array, fresh, held>>
      BY <2>1, <2>4 DEF r
    <3>2. PoolInv'
      BY <1>1, <3>1
         DEF PoolInv, PoolTypes, PoolLists, BufferSets, Unused, Used, Owned, FitsRequest
    <3>3. ThreadTypes'
      BY <1>1, <2>2, <3>1 DEF ThreadTypes
    <3> QED BY <3>2, <3>3 DEF IInv
  <2> QED BY <2>3, <2>4
<1>4. ASSUME NEW t \in Threads, CreatePool(t) PROVE IInv'
  <2>1. PoolInv' /\ array'[req[t].dev].made /\ \A c \in Devices : array[c].made => array'[c].made
    BY <1>4, CreateInv
  <2>2. pc' = [pc EXCEPT ![t] = "alloc"] /\ req' = req /\ pc[t] = "create"
    BY <1>4 DEF CreatePool
  <2>3. \A u \in Threads : pc[u] = "alloc" => req[u].dev \in Devices
    BY <1>1 DEF ThreadTypes, Request
  <2>4. ThreadTypes'
    BY <1>1, <2>1, <2>2, <2>3 DEF ThreadTypes
  <2> QED BY <2>1, <2>4 DEF IInv
<1>5. ASSUME NEW t \in Threads, AllocCreated(t) PROVE IInv'
  <2>1. req[t] \in Request /\ array[req[t].dev].made /\ Alloc(req[t])
    BY <1>1, <1>5 DEF AllocCreated, ThreadTypes
  <2>2. PoolInv' /\ \A c \in Devices : array[c].made => array'[c].made
    <3>1. ASSUME NEW r \in Request, r = req[t]
          PROVE  PoolInv' /\ \A c \in Devices : array[c].made => array'[c].made
      BY <1>1, <2>1, <3>1, AllocInv
    <3> QED BY <2>1, <3>1
  <2>3. pc' = [pc EXCEPT ![t] = "idle"] /\ req' = [req EXCEPT ![t] = NoRequest]
    BY <1>5 DEF AllocCreated
  <2>4. \A u \in Threads : pc[u] = "alloc" => req[u].dev \in Devices
    BY <1>1 DEF ThreadTypes, Request
  <2>5. ThreadTypes'
    BY <1>1, <2>2, <2>3, <2>4 DEF ThreadTypes
  <2> QED BY <2>2, <2>5 DEF IInv
<1>6. ASSUME NEW t \in Threads, NEW b \in Buffers, FreeWorkspace(t, b) PROVE IInv'
  <2>1. /\ b \in DOMAIN held /\ Free(held[b].dev, b) /\ fresh' = fresh /\ UNCHANGED <<pc, req>>
        /\ held' = [c \in DOMAIN held \ {b} |-> held[c]]
    BY <1>6 DEF FreeWorkspace
  <2>2. PoolInv' /\ \A c \in Devices : array[c].made => array'[c].made
    <3>1. ASSUME NEW d, d = held[b].dev
          PROVE  PoolInv' /\ \A c \in Devices : array[c].made => array'[c].made
      BY <1>1, <2>1, <3>1, FreeInv
    <3> QED BY <3>1
  <2> QED BY <1>2, <2>1, <2>2 DEF IInv
<1>7. CASE UNCHANGED vars
  BY <1>1, <1>7 DEF vars, IInv, PoolInv, PoolTypes, PoolLists, BufferSets, Unused, Used, Owned,
     FitsRequest, ThreadTypes
<1> QED BY <1>3, <1>4, <1>5, <1>6, <1>7 DEF Next

LEMMA Invariant == Spec => []IInv
BY InitInv, Inductive, PTL DEF Spec

------------------------------------------------------------------------------
(* The theorems.                                                           *)

LEMMA OnePlace ==
    ASSUME IInv, NEW b \in 1 .. fresh
    PROVE  Cardinality(Places(b)) = 1
<1>1. PoolTypes /\ PoolLists /\ BufferSets /\ b \in Nat /\ b >= 1
  BY DEF IInv, PoolInv, PoolTypes
<1>2. PICK d \in Devices : b \in Owned(d)
  BY <1>1 DEF BufferSets
<1>3. \A c \in Devices : c # d => b \notin Unused(c) /\ b \notin Used(c)
  BY <1>1, <1>2 DEF BufferSets, Owned
(* A buffer is at one place of a list that has it, and at none of another.  *)
<1>4. ASSUME NEW list, b \notin Data(list), list = <<>> \/ Listed(list) PROVE At(list, b) = {}
  <2>1. CASE list = <<>>
    BY <2>1 DEF At
  <2>2. CASE Listed(list)
    BY <1>1, <1>4, <2>2, ListFacts DEF At
  <2> QED BY <1>4, <2>1, <2>2
<1>5. ASSUME NEW list, b \in Data(list), Listed(list) PROVE \E i : At(list, b) = {i}
  <2>1. PICK i \in 2 .. Len(list) : list[i].data = b
    BY <1>5 DEF Data
  <2>2. Len(list) \in Nat
    BY <1>5, ListFacts
  <2>3. At(list, b) = {i}
    BY <1>5, <2>1, <2>2 DEF At, Listed
  <2> QED BY <2>3
<1>6. Data(<<>>) = {}
  BY DEF Data
<1>7. \A c \in Devices : /\ array[c].free = <<>> \/ Listed(array[c].free)
                         /\ array[c].allocated = <<>> \/ Listed(array[c].allocated)
  BY <1>1 DEF PoolLists
<1>8. \A c \in Devices : c # d => At(array[c].free, b) = {} /\ At(array[c].allocated, b) = {}
  BY <1>3, <1>4, <1>7 DEF Unused, Used
<1>9. \E p : Places(b) = {p}
  <2>1. CASE b \in Unused(d)
    <3>1. b \notin Used(d)
      BY <1>1, <2>1 DEF BufferSets
    <3>2. At(array[d].allocated, b) = {}
      BY <1>4, <1>7, <3>1 DEF Used
    <3>3. PICK i : At(array[d].free, b) = {i}
      BY <1>5, <1>6, <1>7, <2>1 DEF Unused
    <3>4. Places(b) = {<<d, "free", i>>}
      BY <1>8, <3>2, <3>3 DEF Places
    <3> QED BY <3>4
  <2>2. CASE b \in Used(d)
    <3>1. b \notin Unused(d)
      BY <1>1, <2>2 DEF BufferSets
    <3>2. At(array[d].free, b) = {}
      BY <1>4, <1>7, <3>1 DEF Unused
    <3>3. PICK i : At(array[d].allocated, b) = {i}
      BY <1>5, <1>6, <1>7, <2>2 DEF Used
    <3>4. Places(b) = {<<d, "allocated", i>>}
      BY <1>8, <3>2, <3>3 DEF Places
    <3> QED BY <3>4
  <2> QED BY <1>2, <2>1, <2>2 DEF Owned
<1> QED BY <1>9, FS_Singleton

LEMMA ListsFollow == IInv => ListsExact
<1> SUFFICES ASSUME IInv PROVE ListsExact
  OBVIOUS
<1>1. PoolLists /\ BufferSets
  BY DEF IInv, PoolInv
<1>2. ASSUME NEW d \in Devices, array[d].made
      PROVE  /\ array[d].free[1] = Guard /\ array[d].allocated[1] = Guard
             /\ \A i, j \in 1 .. Len(array[d].free) :
                  i < j => array[d].free[i].size <= array[d].free[j].size
             /\ Data(array[d].allocated) = {b \in DOMAIN held : held[b].dev = d}
  <2>1. Listed(array[d].free) /\ Sorted(array[d].free) /\ Listed(array[d].allocated)
    BY <1>1, <1>2 DEF PoolLists
  <2>2. Used(d) = {b \in DOMAIN held : held[b].dev = d}
    BY <1>1 DEF BufferSets
  <2> QED BY <2>1, <2>2 DEF Listed, Sorted, Used
<1> QED BY <1>2, OnePlace DEF ListsExact

(* The free list of a pool is sorted behind its guard, and every buffer a   *)
(* device ever handed out is at exactly one place of one list: Free always   *)
(* finds its buffer (CHECK_GT) and none is lost or listed twice.            *)
THEOREM ListsAreExact == Spec => []ListsExact
BY Invariant, ListsFollow, PTL

(* A buffer in use is at least as large as what was asked for, and at most  *)
(* twice that in whole pages: Pool::Alloc's rounding, scaling and reuse.     *)
THEOREM RequestsFit == Spec => []FitsRequest
<1>1. IInv => FitsRequest
  BY DEF IInv, PoolInv
<1> QED BY Invariant, <1>1, PTL

(* Alloc asks for a new buffer only if none of n to 2n bytes is free.       *)
LEMMA NothingSuitable ==
    ASSUME NEW list, Listed(list), Sorted(list), NEW n \in Nat \ {0}, ~Reuses(list, n),
           NEW i \in 1 .. Len(list)
    PROVE  ~(list[i].size \in n .. (2 * n))
<1>1. /\ Len(list) \in Nat /\ list[1].size = 0
      /\ \A j \in 1 .. Len(list) : list[j].size \in Nat
  BY ListFacts
<1>2. CASE ~HasFit(list, n)
  <2>1. CASE Len(list) > 1
    <3>1. list[Len(list)].size < n /\ Len(list) \in 1 .. Len(list)
      BY <1>1, <1>2, <2>1 DEF HasFit
    <3>2. list[i].size <= list[Len(list)].size
      BY <1>1, <3>1 DEF Sorted
    <3> QED BY <1>1, <3>1, <3>2
  <2>2. CASE ~(Len(list) > 1)
    <3>1. i = 1
      BY <1>1, <2>2
    <3> QED BY <1>1, <3>1
  <2> QED BY <2>1, <2>2
<1>3. CASE HasFit(list, n)
  <2> DEFINE f == SmallestFit(list, n)
  <2>1. /\ f \in 2 .. Len(list) /\ \A j \in 1 .. Len(list) : j < f => list[j].size < n
    BY <1>3, FitFound
  <2>2. list[f].size > 2 * n
    BY <1>1, <1>3, <2>1 DEF Reuses
  <2> HIDE DEF f
  <2>3. CASE i < f
    BY <1>1, <2>1, <2>3
  <2>4. CASE i >= f
    <3>1. list[f].size <= list[i].size
      BY <1>1, <2>1, <2>4 DEF Sorted
    <3> QED BY <1>1, <2>1, <2>2, <3>1
  <2> QED BY <1>1, <2>1, <2>3, <2>4
<1> QED BY <1>2, <1>3

LEMMA GrowthStep ==
    ASSUME IInv, [Next]_vars, fresh' > fresh,
           NEW n, n = Rounded(held'[fresh'].nbytes),
           NEW list, list = array[held'[fresh'].dev].free, NEW i \in 1 .. Len(list)
    PROVE  ~(list[i].size \in n .. (2 * n))
<1>1. PoolInv /\ fresh \in Nat
  BY DEF IInv, PoolInv, PoolTypes
<1>2. Gives
  <2>1. fresh' # fresh
    BY <1>1
  <2> QED BY <2>1, PoolSteps DEF Takes, Makes
<1>3. PICK r \in Request : array[r.dev].made /\ Alloc(r)
  BY <1>2 DEF Gives
<1> DEFINE m == Rounded(r.nbytes)
           l == array[r.dev].free
           e == Given(l, m, r)
<1>4. r.dev \in Devices /\ r.nbytes \in Nat /\ Listed(l) /\ Sorted(l)
  BY <1>1, <1>3, RequestAssumption DEF Request, PoolInv, PoolLists
<1>5. m \in Nat \ {0}
  BY <1>4, RoundedUp
<1>6. /\ Reuses(l, m) => fresh' = fresh
      /\ ~Reuses(l, m) => fresh' = fresh + 1
      /\ held' = Handed(e.data, r)
  <2>1. AllocStep(r, m, l, e)
    BY <1>1, <1>3, AllocEffect
  <2> QED BY <2>1 DEF AllocStep
<1>7. ~Reuses(l, m)
  <2>1. fresh' # fresh
    BY <1>1
  <2> QED BY <1>6, <2>1
<1>8. e.data = fresh'
  BY <1>1, <1>3, <1>6, <1>7, GivenFits
<1> HIDE DEF e
<1>9. held'[fresh'] = [dev |-> r.dev, nbytes |-> r.nbytes]
  BY <1>6, <1>8 DEF Handed
<1>10. n = m /\ list = l
  BY <1>9
<1> QED BY <1>4, <1>5, <1>7, <1>10, NothingSuitable

(* The device is asked for memory only when no free buffer of its pool has   *)
(* the size: the backward search of Pool::Alloc misses none.                *)
THEOREM GrowsWhenNeeded == Spec => GrowsOnlyWhenNeeded
<1> DEFINE Need == fresh' > fresh =>
                     LET n == Rounded(held'[fresh'].nbytes)
                         list == array[held'[fresh'].dev].free
                     IN  \A i \in 1 .. Len(list) : ~(list[i].size \in n .. (2 * n))
<1>1. IInv /\ [Next]_vars => Need
  BY GrowthStep
<1>2. IInv /\ [Next]_vars => [Need]_vars
  BY <1>1
<1> HIDE DEF Need
<1>3. Spec => [][Need]_vars
  BY Invariant, <1>2, PTL DEF Spec
<1> QED BY <1>3 DEF Need, GrowsOnlyWhenNeeded

LEMMA InitRefines == Init => A!AInit
BY DEF Init, A!AInit

LEMMA StepRefines == IInv /\ [Next]_vars => [A!ANext]_held
<1> SUFFICES ASSUME IInv, [Next]_vars PROVE [A!ANext]_held
  OBVIOUS
<1>1. CASE Gives
  <2>1. PICK r \in Request : array[r.dev].made /\ Alloc(r)
    BY <1>1 DEF Gives
  <2>2. r.dev \in Devices /\ r.nbytes \in Requests
    BY DEF Request
  <2>3. PICK x \in Buffers : x \notin DOMAIN held /\ held' = Handed(x, r)
    BY <2>1, AllocInv DEF IInv
  <2>4. A!Alloc(x, r.dev, r.nbytes)
    BY <2>3 DEF A!Alloc, Handed
  <2> QED BY <2>2, <2>3, <2>4 DEF A!ANext
<1>2. CASE Takes
  <2>1. PICK b \in Buffers : A!Free(b)
    BY <1>2 DEF Takes, A!Free
  <2> QED BY <2>1 DEF A!ANext
<1>3. CASE Makes
  BY <1>3 DEF Makes
<1> QED BY <1>1, <1>2, <1>3, PoolSteps

(* Every run of the pools is one of Allocator: no buffer is given to a       *)
(* second user before FreeWorkspace took it from the first.                 *)
THEOREM RefinesAllocator == Spec => ImplementsAllocator
<1>1. Spec => A!ASpec
  BY Invariant, InitRefines, StepRefines, PTL DEF Spec, A!ASpec
<1> QED BY <1>1 DEF ImplementsAllocator
==============================================================================

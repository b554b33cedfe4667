---------------------------- MODULE ConfigProofs ----------------------------
(***************************************************************************)
(* What ParseConfig makes of the sections, and IpcSet of a request, for    *)
(* every file.  Both go through lists, so the proofs are inductions on the *)
(* length: a set of numbers that has 0, and each successor, has them all   *)
(* (UpTo), since otherwise there were a least one that is missing.         *)
(***************************************************************************)
EXTENDS Config, WellFoundedInduction, TLAPS

(* Lemma: a set of numbers has a least one, from which inductions over the  *)
(* length of a list are made.                                               *)
LEMMA Smallest ==
    ASSUME NEW S \in SUBSET Nat, S # {}
    PROVE  \E n \in S : \A m \in S : n <= m
<1> DEFINE R == OpToRel(<, Nat)
<1>1. \A x, y \in Nat : <<x, y>> \in R <=> x < y
    BY DEF OpToRel
<1>2. IsWellFoundedOn(R, Nat)
    BY Zenon, NatLessThanWellFounded
<1> HIDE DEF R
<1>3. PICK x \in S : \A y \in S : ~ (<<y, x>> \in R)
    BY Zenon, <1>2, WFMin
<1>4. ASSUME NEW m \in S PROVE x <= m
  <2>1. x \in Nat /\ m \in Nat
      OBVIOUS
  <2>2. ~ (m < x)
      BY Zenon, <1>1, <1>3, <2>1
  <2> QED BY <2>1, <2>2
<1> QED BY <1>4

(* Lemma: a set that has 0, and the successor of each of its members up to  *)
(* a bound, has every number up to the bound.                               *)
LEMMA UpTo ==
    ASSUME NEW N \in Nat, NEW S, 0 \in S, \A n \in 1 .. N : n - 1 \in S => n \in S
    PROVE  \A n \in 0 .. N : n \in S
<1> DEFINE Bad == {n \in 0 .. N : n \notin S}
<1>1. SUFFICES ASSUME Bad # {} PROVE FALSE
    OBVIOUS
<1>2. PICK n \in Bad : \A m \in Bad : n <= m
  <2>1. Bad \in SUBSET Nat
      OBVIOUS
  <2> QED BY Zenon, <1>1, <2>1, Smallest
<1>3. n \in 1 .. N
    BY <1>2
<1>4. n - 1 \in 0 .. N /\ n - 1 \notin Bad
    BY <1>2, <1>3
<1> QED BY <1>2, <1>3, <1>4

(* Lemma: the parts of a list. *)
LEMMA ListParts ==
    ASSUME NEW X, NEW s \in Seq(X)
    PROVE  Len(s) \in Nat /\ DOMAIN s = 1 .. Len(s) /\ \A i \in 1 .. Len(s) : s[i] \in X
OBVIOUS

(* Lemma: the empty list. *)
LEMMA NoList == ASSUME NEW X PROVE <<>> \in Seq(X) /\ Len(<<>>) = 0
OBVIOUS

(* Lemma: a list over a set is one over a larger set. *)
LEMMA ListOver ==
    ASSUME NEW X, NEW Y, X \subseteq Y, NEW s \in Seq(X)
    PROVE  s \in Seq(Y)
OBVIOUS

(* Lemma: a list is a list over its members. *)
LEMMA ListOfMembers ==
    ASSUME NEW X, NEW s \in Seq(X)
    PROVE  s \in Seq(Range(s))
BY DEF Range

(* Lemma: two lists joined are a list. *)
LEMMA JoinedList ==
    ASSUME NEW X, NEW a \in Seq(X), NEW b \in Seq(X)
    PROVE  /\ a \o b \in Seq(X) /\ Len(a \o b) = Len(a) + Len(b)
           /\ \A k \in 1 .. Len(a) + Len(b) : (a \o b)[k] = IF k <= Len(a) THEN a[k] ELSE b[k - Len(a)]
OBVIOUS

(* Lemma: where the members of two lists are in the joined one. *)
LEMMA Joined ==
    ASSUME NEW X, NEW a \in Seq(X), NEW b \in Seq(X)
    PROVE  /\ a \o b \in Seq(X) /\ Len(a) \in Nat /\ Len(b) \in Nat /\ Len(a \o b) = Len(a) + Len(b)
           /\ \A m \in 1 .. Len(a) : (a \o b)[m] = a[m]
           /\ \A r \in 1 .. Len(b) : (a \o b)[Len(a) + r] = b[r]
<1> DEFINE ab == a \o b
<1>1. Len(a) \in Nat /\ Len(b) \in Nat
    BY ListParts
<1>2. /\ ab \in Seq(X) /\ Len(ab) = Len(a) + Len(b)
      /\ \A k \in 1 .. Len(a) + Len(b) : ab[k] = IF k <= Len(a) THEN a[k] ELSE b[k - Len(a)]
    BY JoinedList
<1> HIDE DEF ab
<1>3. \A m \in 1 .. Len(a) : ab[m] = a[m]
    BY <1>1, <1>2
<1>4. ASSUME NEW r \in 1 .. Len(b) PROVE ab[Len(a) + r] = b[r]
  <2>1. Len(a) + r \in 1 .. Len(a) + Len(b) /\ ~ (Len(a) + r <= Len(a)) /\ Len(a) + r - Len(a) = r
      BY <1>1
  <2> QED BY <1>2, <2>1
<1> QED BY <1>1, <1>2, <1>3, <1>4 DEF ab

(* Lemma: the partial results of Flatten. *)
LEMMA FlattenParts ==
    ASSUME NEW lists, Len(lists) \in Nat
    PROVE  \E f : /\ f[0] = <<>>
                  /\ \A i \in 1 .. Len(lists) : f[i] = f[i - 1] \o lists[i]
                  /\ Flatten(lists) = f[Len(lists)]
<1> DEFINE N == Len(lists)
           G(f, n) == f = [i \in 0 .. n |-> IF i = 0 THEN <<>> ELSE f[i - 1] \o lists[i]]
           S == {n \in 0 .. N : \E f : G(f, n)}
<1>1. \A n \in 0 .. N : n \in S
  <2>1. 0 \in S
    <3>1. G([i \in {0} |-> <<>>], 0)
        OBVIOUS
    <3> HIDE DEF G
    <3> QED BY <3>1
  <2>2. ASSUME NEW n \in 1 .. N, n - 1 \in S PROVE n \in S
    <3>1. PICK f : G(f, n - 1)
        BY Zenon, <2>2
    <3> DEFINE g == [i \in 0 .. n |-> IF i = n THEN f[n - 1] \o lists[n] ELSE f[i]]
    <3>2. G(g, n)
      <4>1. ASSUME NEW i \in 0 .. n PROVE g[i] = IF i = 0 THEN <<>> ELSE g[i - 1] \o lists[i]
        <5>1. CASE i = n
          <6>1. n - 1 \in 0 .. n /\ n \in 0 .. n /\ n - 1 # n /\ n # 0
              OBVIOUS
          <6>2. g[n] = f[n - 1] \o lists[n] /\ g[n - 1] = f[n - 1]
              BY <6>1, Zenon
          <6> HIDE DEF g
          <6> QED BY Zenon, <5>1, <6>1, <6>2
        <5>2. CASE i # n
          <6>1. i \in 0 .. n - 1 /\ g[i] = f[i]
              BY <5>2
          <6>2. f[i] = IF i = 0 THEN <<>> ELSE f[i - 1] \o lists[i]
              BY <3>1, <6>1
          <6>3. i # 0 => g[i - 1] = f[i - 1]
              BY <6>1
          <6> QED BY <6>1, <6>2, <6>3
        <5> QED BY <5>1, <5>2
      <4> HIDE DEF g
      <4>2. g = [i \in 0 .. n |-> g[i]]
          BY DEF g
      <4> QED BY Zenon, <4>1, <4>2
    <3> HIDE DEF g, G
    <3> QED BY <3>2
  <2> HIDE DEF S
  <2> QED BY Zenon, <2>1, <2>2, UpTo
<1> DEFINE h == CHOOSE f : G(f, N)
<1>2. G(h, N)
  <2> HIDE DEF G
  <2>1. N \in S
      BY <1>1
  <2>2. \E f : G(f, N)
      BY <2>1
  <2> HIDE DEF S
  <2> QED BY <2>2, Zenon
<1>3. Flatten(lists) = h[N]
    BY DEF Flatten
<1> HIDE DEF h
<1>4. h[0] = <<>> /\ \A i \in 1 .. N : h[i] = h[i - 1] \o lists[i]
    BY SMTT(30), <1>2
<1> QED BY Zenon, <1>3, <1>4

(* The partial results of Flatten for lists of members of X: each is a      *)
(* beginning of the later ones, which go on with the next list.             *)
IsFlattening(f, lists, X) ==
    /\ f[0] = <<>> /\ Flatten(lists) = f[Len(lists)]
    /\ \A i \in 0 .. Len(lists) : f[i] \in Seq(X)
    /\ \A i \in 1 .. Len(lists) :
          /\ lists[i] \in Seq(X)
          /\ Len(f[i]) = Len(f[i - 1]) + Len(lists[i])
          /\ \A m \in 1 .. Len(f[i - 1]) : f[i][m] = f[i - 1][m]
          /\ \A r \in 1 .. Len(lists[i]) : f[i][Len(f[i - 1]) + r] = lists[i][r]

(* Lemma: what Flatten of a list of lists is made from. *)
LEMMA Flattening ==
    ASSUME NEW X, NEW lists, Len(lists) \in Nat, \A i \in 1 .. Len(lists) : lists[i] \in Seq(X)
    PROVE  \E f : IsFlattening(f, lists, X)
<1> DEFINE N == Len(lists)
<1>1. PICK f : /\ f[0] = <<>> /\ Flatten(lists) = f[Len(lists)]
               /\ \A i \in 1 .. Len(lists) : f[i] = f[i - 1] \o lists[i]
    BY Zenon, FlattenParts
<1>2. \A i \in 0 .. N : f[i] \in Seq(X)
  <2> DEFINE S == {i \in 0 .. N : f[i] \in Seq(X)}
  <2>1. 0 \in S
    <3>1. f[0] \in Seq(X)
        BY <1>1, NoList, Zenon
    <3> QED BY <3>1
  <2>2. ASSUME NEW n \in 1 .. N, n - 1 \in S PROVE n \in S
    <3>1. f[n - 1] \in Seq(X) /\ lists[n] \in Seq(X) /\ f[n] = f[n - 1] \o lists[n]
        BY Zenon, <1>1, <2>2
    <3>2. f[n] \in Seq(X)
        BY <3>1, JoinedList
    <3> QED BY <3>2
  <2> HIDE DEF S
  <2>3. \A n \in 0 .. N : n \in S
      BY Zenon, <2>1, <2>2, UpTo
  <2> QED BY <2>3 DEF S
<1>3. ASSUME NEW i \in 1 .. N
      PROVE  /\ Len(f[i]) = Len(f[i - 1]) + Len(lists[i])
             /\ \A m \in 1 .. Len(f[i - 1]) : f[i][m] = f[i - 1][m]
             /\ \A r \in 1 .. Len(lists[i]) : f[i][Len(f[i - 1]) + r] = lists[i][r]
  <2>1. i - 1 \in 0 .. N
      OBVIOUS
  <2>2. f[i - 1] \in Seq(X) /\ lists[i] \in Seq(X) /\ f[i] = f[i - 1] \o lists[i]
      BY Zenon, <1>1, <1>2, <2>1
  <2> DEFINE a == f[i - 1]
             b == lists[i]
  <2>3. a \in Seq(X) /\ b \in Seq(X) /\ f[i] = a \o b
      BY <2>2
  <2> HIDE DEF a, b
  <2>4. /\ Len(a \o b) = Len(a) + Len(b)
        /\ \A m \in 1 .. Len(a) : (a \o b)[m] = a[m]
        /\ \A r \in 1 .. Len(b) : (a \o b)[Len(a) + r] = b[r]
      BY <2>3, Joined
  <2> QED BY Zenon, <2>3, <2>4 DEF a, b
<1> HIDE DEF N
<1>4. \A i \in 0 .. Len(lists) : f[i] \in Seq(X)
    BY <1>2 DEF N
<1>5. \A i \in 1 .. Len(lists) :
          /\ lists[i] \in Seq(X)
          /\ Len(f[i]) = Len(f[i - 1]) + Len(lists[i])
          /\ \A m \in 1 .. Len(f[i - 1]) : f[i][m] = f[i - 1][m]
          /\ \A r \in 1 .. Len(lists[i]) : f[i][Len(f[i - 1]) + r] = lists[i][r]
    BY <1>3, Zenon DEF N
<1>6. f[0] = <<>> /\ Flatten(lists) = f[Len(lists)]
    BY <1>1
<1>7. IsFlattening(f, lists, X)
    BY <1>4, <1>5, <1>6, Zenon DEF IsFlattening
<1> QED BY <1>7

(* Lemma: every partial result is a beginning of the whole. *)
LEMMA FlattenPrefix ==
    ASSUME NEW X, NEW lists, Len(lists) \in Nat, NEW f, IsFlattening(f, lists, X),
           NEW i \in 0 .. Len(lists), NEW j \in 0 .. Len(lists), i <= j
    PROVE  /\ Len(f[i]) \in Nat /\ Len(f[j]) \in Nat /\ Len(f[i]) <= Len(f[j])
           /\ \A m \in 1 .. Len(f[i]) : f[j][m] = f[i][m]
<1> DEFINE N == Len(lists)
           P(n) == Len(f[i]) <= Len(f[n]) /\ \A m \in 1 .. Len(f[i]) : f[n][m] = f[i][m]
           S == {n \in 0 .. N : n < i \/ P(n)}
<1>0. \A n \in 0 .. N : Len(f[n]) \in Nat
    BY DEF IsFlattening
<1>1. P(i)
    BY <1>0
<1>2. 0 \in S
    BY <1>1
<1>3. ASSUME NEW n \in 1 .. N, n - 1 \in S PROVE n \in S
  <2>1. CASE n <= i
      BY <1>1, <2>1
  <2>2. CASE n > i
    <3>1. P(n - 1)
        BY <1>3, <2>2
    <3>2. Len(f[n]) = Len(f[n - 1]) + Len(lists[n]) /\ \A m \in 1 .. Len(f[n - 1]) : f[n][m] = f[n - 1][m]
        BY Zenon DEF IsFlattening
    <3>3. Len(f[n]) \in Nat /\ Len(f[n - 1]) \in Nat /\ Len(f[i]) \in Nat
        BY <1>0
    <3>4. Len(lists[n]) \in Nat
      <4>1. lists[n] \in Seq(X)
          BY Zenon DEF IsFlattening
      <4> QED BY <4>1, ListParts
    <3>5. Len(f[i]) <= Len(f[n])
      <4>1. Len(f[i]) <= Len(f[n - 1]) /\ Len(f[n]) = Len(f[n - 1]) + Len(lists[n])
          BY <3>1, <3>2
      <4>2. \A a, b, c \in Nat : a <= b => a <= b + c
          OBVIOUS
      <4> QED BY <3>3, <3>4, <4>1, <4>2, Zenon
    <3>6. ASSUME NEW m \in 1 .. Len(f[i]) PROVE f[n][m] = f[i][m]
      <4>1. m \in 1 .. Len(f[n - 1])
          BY <3>1, <3>3
      <4> QED BY <3>1, <3>2, <4>1
    <3> QED BY <3>5, <3>6
  <2> QED BY <2>1, <2>2
<1> HIDE DEF S, P
<1>4. j \in S
    BY Zenon, <1>2, <1>3, UpTo
<1> QED BY <1>0, <1>4 DEF S, P

(* Lemma: every partial result is a beginning of what Flatten returns. *)
LEMMA FlattenWhole ==
    ASSUME NEW X, NEW lists, Len(lists) \in Nat, NEW f, IsFlattening(f, lists, X), NEW i \in 0 .. Len(lists)
    PROVE  /\ Len(f[i]) \in Nat /\ Len(Flatten(lists)) \in Nat /\ Len(f[i]) <= Len(Flatten(lists))
           /\ \A m \in 1 .. Len(f[i]) : Flatten(lists)[m] = f[i][m]
<1> DEFINE j == Len(lists)
<1>1. j \in 0 .. Len(lists) /\ i <= j
    OBVIOUS
<1>2. Flatten(lists) = f[j]
    BY DEF IsFlattening
<1> HIDE DEF j
<1>3. /\ Len(f[i]) \in Nat /\ Len(f[j]) \in Nat /\ Len(f[i]) <= Len(f[j])
      /\ \A m \in 1 .. Len(f[i]) : f[j][m] = f[i][m]
    BY <1>1, FlattenPrefix
<1> QED BY <1>2, <1>3

(* Lemma: a member of the whole comes from one of the lists. *)
LEMMA FlattenPlace ==
    ASSUME NEW X, NEW lists, Len(lists) \in Nat, NEW f, IsFlattening(f, lists, X),
           NEW m \in 1 .. Len(Flatten(lists))
    PROVE  \E i \in 1 .. Len(lists) : \E r \in 1 .. Len(lists[i]) :
               m = Len(f[i - 1]) + r /\ Flatten(lists)[m] = lists[i][r]
<1> DEFINE N == Len(lists)
           S == {i \in 0 .. N : m <= Len(f[i])}
<1>1. Flatten(lists) = f[N] /\ Len(f[0]) = 0 /\ N \in 0 .. N
    BY NoList DEF IsFlattening
<1>2. \A i \in 0 .. N : Len(f[i]) \in Nat
    BY ListParts DEF IsFlattening
<1>3. m \in Nat /\ m >= 1 /\ m <= Len(f[N])
    BY <1>1, <1>2
<1>4. PICK i \in S : \A j \in S : i <= j
  <2>1. S \in SUBSET Nat /\ N \in S
      BY <1>1, <1>3
  <2> HIDE DEF S
  <2> QED BY <2>1, Smallest
<1>5. i \in 1 .. N /\ i - 1 \in 0 .. N /\ m <= Len(f[i])
    BY <1>1, <1>3, <1>4
<1>6. Len(f[i - 1]) < m
  <2>1. i - 1 \notin S
      BY <1>4, <1>5
  <2> QED BY <1>2, <1>3, <1>5, <2>1
<1>7. /\ lists[i] \in Seq(X) /\ Len(f[i]) = Len(f[i - 1]) + Len(lists[i])
      /\ \A r \in 1 .. Len(lists[i]) : f[i][Len(f[i - 1]) + r] = lists[i][r]
    BY Zenon, <1>5 DEF IsFlattening
<1> DEFINE a == Len(f[i - 1])
           r == m - a
<1>8. r \in 1 .. Len(lists[i]) /\ m = a + r
  <2>1. a \in Nat /\ Len(lists[i]) \in Nat /\ a < m /\ m <= a + Len(lists[i])
      BY Zenon, <1>2, <1>5, <1>6, <1>7, ListParts
  <2> HIDE DEF a
  <2> QED BY <1>3, <2>1
<1>9. f[N][m] = f[i][m]
  <2>1. i \in 0 .. Len(lists) /\ m \in 1 .. Len(f[i])
      BY <1>2, <1>3, <1>5
  <2> HIDE DEF N
  <2>2. \A n \in 1 .. Len(f[i]) : Flatten(lists)[n] = f[i][n]
      BY <2>1, FlattenWhole
  <2> QED BY <1>1, <2>1, <2>2
<1>10. f[i][m] = lists[i][r]
  <2> HIDE DEF r
  <2> QED BY <1>7, <1>8 DEF a
<1> QED BY <1>1, <1>5, <1>8, <1>9, <1>10
-----------------------------------------------------------------------------
(* Lemma: if all results are values, Each has the list of them. *)
LEMMA EachMember ==
    ASSUME NEW results, NEW v \in Each(results)
    PROVE  /\ v = [i \in DOMAIN results |-> v[i]]
           /\ \A i \in DOMAIN results : v[i] \in results[i]
<1>1. \A i \in DOMAIN results : results[i] # {}
    BY DEF Each
<1>2. v = [i \in DOMAIN results |-> CHOOSE value \in results[i] : TRUE]
    BY DEF Each
<1>3. ASSUME NEW i \in DOMAIN results PROVE v[i] \in results[i]
  <2>1. \E value \in results[i] : TRUE
      BY <1>1
  <2>2. v[i] = CHOOSE value \in results[i] : TRUE
      BY <1>2
  <2> QED BY <2>1, <2>2, Zenon
<1>4. v = [i \in DOMAIN results |-> v[i]]
    BY <1>2
<1> QED BY <1>3, <1>4

(* Lemma: a function on the numbers up to n is a list of length n. *)
LEMMA IsList ==
    ASSUME NEW n \in Nat, NEW v, v = [i \in 1 .. n |-> v[i]]
    PROVE  Len(v) = n /\ DOMAIN v = 1 .. n /\ v \in Seq(Range(v))
<1>1. \A i \in 1 .. n : v[i] \in Range(v)
    BY DEF Range
<1>2. v \in Seq(Range(v))
    BY <1>1
<1> QED BY <1>2

(* Lemma: what is kept of a list is a list. *)
LEMMA KeptIsList ==
    ASSUME NEW X, NEW list \in Seq(X), NEW indices
    PROVE  Kept(list, indices) \in Seq(X)
<1> DEFINE lists == [i \in DOMAIN list |-> IF i \in indices THEN <<list[i]>> ELSE <<>>]
<1>1. DOMAIN list = 1 .. Len(list) /\ Len(list) \in Nat
    BY ListParts
<1>2. Len(lists) = Len(list)
    BY <1>1
<1>3. ASSUME NEW i \in 1 .. Len(lists) PROVE lists[i] \in Seq(X)
  <2>1. list[i] \in X /\ i \in DOMAIN list
      BY <1>1, <1>2, ListParts
  <2>2. <<list[i]>> \in Seq(X) /\ <<>> \in Seq(X)
      BY <2>1, NoList
  <2> QED BY <2>1, <2>2
<1>4. Kept(list, indices) = Flatten(lists)
    BY DEF Kept
<1> HIDE DEF lists
<1>5. PICK f : IsFlattening(f, lists, X)
    BY <1>1, <1>2, <1>3, Flattening
<1> QED BY <1>1, <1>2, <1>4, <1>5 DEF IsFlattening

(* Lemma: the sections of a name are a list. *)
LEMMA SectionsAreList ==
    ASSUME NEW path \in DOMAIN Disk, NEW name
    PROVE  LET s == SectionsByName(Disk[path], name) IN Len(s) \in Nat /\ DOMAIN s = 1 .. Len(s)
<1> DEFINE all == Disk[path].sections
           found == Kept(all, {i \in DOMAIN all : all[i].name = name})
           s == SectionsByName(Disk[path], name)
<1>1. found \in Seq(Range(all))
  <2>1. all \in Seq(Range(all))
      BY ListAssumption
  <2> HIDE DEF all
  <2> QED BY <2>1, KeptIsList
<1>2. s = [i \in DOMAIN found |-> found[i].keys]
    BY DEF SectionsByName
<1> HIDE DEF found, s
<1>3. DOMAIN found = 1 .. Len(found) /\ Len(found) \in Nat
    BY <1>1, ListParts
<1>4. DOMAIN s = 1 .. Len(found) /\ s = [i \in 1 .. Len(found) |-> s[i]]
    BY <1>2, <1>3
<1>5. Len(s) = Len(found)
    BY <1>3, <1>4, IsList
<1> QED BY <1>3, <1>4, <1>5 DEF s

(* Lemma: the section of a kind becomes a routine of that kind. *)
LEMMA RoutineKind ==
    ASSUME NEW k \in DOMAIN RoutineKinds, NEW s, NEW w \in ParseRoutine(RoutineKinds[k], s)
    PROVE  w.kind = RoutineKinds[k]
<1>1. DOMAIN RoutineKinds = 1 .. 6
    BY DEF RoutineKinds
<1>2. CASE k = 1
    BY <1>2 DEF RoutineKinds, ParseRoutine, ParseTCPClientTunnel
<1>3. CASE k = 2
    BY <1>3 DEF RoutineKinds, ParseRoutine, ParseSTDIOTunnel
<1>4. CASE k = 3
    BY <1>4 DEF RoutineKinds, ParseRoutine, ParseTCPServerTunnel
<1>5. CASE k = 4
    BY <1>5 DEF RoutineKinds, ParseRoutine, ParseSocks5
<1>6. CASE k = 5
    BY <1>6 DEF RoutineKinds, ParseRoutine, ParseHTTP
<1>7. CASE k = 6
    BY <1>7 DEF RoutineKinds, ParseRoutine, ParseUDPProxyTunnel
<1> QED BY <1>1, <1>2, <1>3, <1>4, <1>5, <1>6, <1>7

(* Lemma: the parts of a configuration, and where they come from. *)
LEMMA ConfigParts ==
    ASSUME NEW path, NEW c \in ParseConfig(path)
    PROVE  /\ path \in DOMAIN Disk
           /\ \E file \in DOMAIN Disk : c.Device \in ParseInterface(Disk[file]) /\ c.Peers \in ParsePeers(Disk[file])
           /\ \E lists \in Each([k \in DOMAIN RoutineKinds |-> ParseRoutines(Disk[path], RoutineKinds[k])]) :
                  c.Routines = Flatten(lists)
<1> DEFINE file == IF Disk[path].WGConfig = Nil THEN path ELSE Disk[path].WGConfig
           routines == Each([k \in DOMAIN RoutineKinds |-> ParseRoutines(Disk[path], RoutineKinds[k])])
           resolve == SectionsByName(Disk[path], "Resolve")
           strategy == IF resolve = <<>> THEN Plain("auto") ELSE Ignoring(resolve[1], "resolvestrategy")
           all == {[Device |-> iface, Peers |-> peers, Routines |-> Flatten(lists), Resolve |-> strategy] :
                     iface \in ParseInterface(Disk[file]), peers \in ParsePeers(Disk[file]), lists \in routines}
<1>0. ParseConfig(path) = IF path \in DOMAIN Disk /\ file \in DOMAIN Disk THEN all ELSE {}
    BY DEF ParseConfig
<1>1. path \in DOMAIN Disk /\ file \in DOMAIN Disk /\ c \in all
  <2> HIDE DEF all, file
  <2> QED BY <1>0
<1> HIDE DEF file, routines, strategy
<1>2. PICK iface \in ParseInterface(Disk[file]), peers \in ParsePeers(Disk[file]), lists \in routines :
          c = [Device |-> iface, Peers |-> peers, Routines |-> Flatten(lists), Resolve |-> strategy]
    BY <1>1
<1>3. c.Device = iface /\ c.Peers = peers /\ c.Routines = Flatten(lists)
    BY <1>2
<1> QED BY <1>1, <1>3 DEF routines

(* Lemma: one list of routines per kind, one routine per section. *)
LEMMA RoutineLists ==
    ASSUME NEW path \in DOMAIN Disk,
           NEW lists \in Each([k \in DOMAIN RoutineKinds |-> ParseRoutines(Disk[path], RoutineKinds[k])])
    PROVE  /\ Len(lists) = 6
           /\ \A k \in 1 .. 6 :
                 /\ Len(lists[k]) = Len(SectionsByName(Disk[path], RoutineKinds[k])) /\ Len(lists[k]) \in Nat
                 /\ lists[k] \in Seq(Range(lists[k]))
                 /\ \A r \in 1 .. Len(lists[k]) : lists[k][r].kind = RoutineKinds[k]
<1> DEFINE results == [k \in DOMAIN RoutineKinds |-> ParseRoutines(Disk[path], RoutineKinds[k])]
<1>1. DOMAIN RoutineKinds = 1 .. 6
    BY DEF RoutineKinds
<1>2. lists = [k \in DOMAIN results |-> lists[k]] /\ \A k \in DOMAIN results : lists[k] \in results[k]
    BY EachMember
<1>3. DOMAIN results = 1 .. 6
    BY <1>1
<1>4. Len(lists) = 6
  <2> HIDE DEF results
  <2>1. lists = [k \in 1 .. 6 |-> lists[k]] /\ 6 \in Nat
      BY <1>2, <1>3
  <2> QED BY <2>1, IsList
<1>5. ASSUME NEW k \in 1 .. 6
      PROVE  /\ Len(lists[k]) = Len(SectionsByName(Disk[path], RoutineKinds[k])) /\ Len(lists[k]) \in Nat
             /\ lists[k] \in Seq(Range(lists[k]))
             /\ \A r \in 1 .. Len(lists[k]) : lists[k][r].kind = RoutineKinds[k]
  <2> DEFINE kind == RoutineKinds[k]
             s == SectionsByName(Disk[path], kind)
             one == [i \in DOMAIN s |-> ParseRoutine(kind, s[i])]
             v == lists[k]
  <2>1. v \in Each(one)
      BY Zenon, <1>1, <1>2, <1>3 DEF ParseRoutines
  <2>2. v = [i \in DOMAIN one |-> v[i]] /\ \A i \in DOMAIN one : v[i] \in one[i]
    <3> HIDE DEF one, v
    <3> QED BY <2>1, EachMember
  <2>3. Len(s) \in Nat /\ DOMAIN s = 1 .. Len(s)
    <3> HIDE DEF kind
    <3> QED BY SectionsAreList
  <2> HIDE DEF v, s, kind
  <2>4. v = [i \in 1 .. Len(s) |-> v[i]] /\ \A i \in 1 .. Len(s) : v[i] \in ParseRoutine(kind, s[i])
      BY <2>2, <2>3
  <2>5. Len(v) = Len(s) /\ v \in Seq(Range(v))
      BY <2>3, <2>4, IsList
  <2>6. ASSUME NEW r \in 1 .. Len(v) PROVE v[r].kind = kind
      BY <1>1, <2>4, <2>5, RoutineKind DEF kind
  <2> QED BY <2>3, <2>5, <2>6 DEF v, s, kind
<1> QED BY <1>4, <1>5

(* For every file that ParseConfig accepts, the routines of a kind follow   *)
(* each other, and there are as many as the file has sections of that name  *)
(* (config.go:520).                                                         *)
THEOREM RoutinesOfSections ==
    ASSUME NEW path, NEW c \in ParseConfig(path)
    PROVE  /\ c.Routines \in Seq(Range(c.Routines))
           /\ \A i \in DOMAIN c.Routines : c.Routines[i].kind \in Range(RoutineKinds)
           /\ \A k \in DOMAIN RoutineKinds :
                 \E a \in Nat : {i \in DOMAIN c.Routines : c.Routines[i].kind = RoutineKinds[k]}
                                    = a + 1 .. a + Len(SectionsByName(Disk[path], RoutineKinds[k]))
<1>0. DOMAIN RoutineKinds = 1 .. 6 /\ \A j, k \in 1 .. 6 : RoutineKinds[j] = RoutineKinds[k] => j = k
    BY DEF RoutineKinds
<1>1. path \in DOMAIN Disk
    BY ConfigParts
<1>2. PICK lists \in Each([k \in DOMAIN RoutineKinds |-> ParseRoutines(Disk[path], RoutineKinds[k])]) :
          c.Routines = Flatten(lists)
    BY ConfigParts
<1>3. /\ Len(lists) = 6
      /\ \A k \in 1 .. 6 :
            /\ Len(lists[k]) = Len(SectionsByName(Disk[path], RoutineKinds[k])) /\ Len(lists[k]) \in Nat
            /\ lists[k] \in Seq(Range(lists[k]))
            /\ \A r \in 1 .. Len(lists[k]) : lists[k][r].kind = RoutineKinds[k]
    BY Zenon, <1>1, RoutineLists
<1> DEFINE X == UNION {Range(lists[k]) : k \in 1 .. 6}
           whole == Flatten(lists)
<1>4. PICK f : IsFlattening(f, lists, X)
  <2>1. ASSUME NEW k \in 1 .. 6 PROVE lists[k] \in Seq(X)
    <3>1. Range(lists[k]) \subseteq X
        OBVIOUS
    <3> HIDE DEF X
    <3> QED BY <1>3, <3>1, ListOver
  <2> HIDE DEF X
  <2>2. Len(lists) \in Nat /\ \A k \in 1 .. Len(lists) : lists[k] \in Seq(X)
      BY <1>3, <2>1
  <2> QED BY <2>2, Flattening
<1> HIDE DEF X
<1>5. whole \in Seq(X) /\ Len(whole) \in Nat /\ DOMAIN whole = 1 .. Len(whole)
  <2>1. whole = f[6] /\ f[6] \in Seq(X)
      BY <1>3, <1>4 DEF IsFlattening
  <2> HIDE DEF whole
  <2> QED BY <2>1, ListParts
<1>6. ASSUME NEW m \in 1 .. Len(whole)
      PROVE  \E i \in 1 .. 6 : \E r \in 1 .. Len(lists[i]) : m = Len(f[i - 1]) + r /\ whole[m].kind = RoutineKinds[i]
  <2>0. PICK i \in 1 .. 6 : \E r \in 1 .. Len(lists[i]) : m = Len(f[i - 1]) + r /\ whole[m] = lists[i][r]
    <3>1. Len(lists) \in Nat /\ m \in 1 .. Len(Flatten(lists))
        BY <1>3
    <3>2. \E i \in 1 .. Len(lists) : \E r \in 1 .. Len(lists[i]) : m = Len(f[i - 1]) + r /\ Flatten(lists)[m] = lists[i][r]
        BY <1>4, <3>1, FlattenPlace
    <3> QED BY Zenon, <1>3, <3>2
  <2>1. PICK r \in 1 .. Len(lists[i]) : m = Len(f[i - 1]) + r /\ whole[m] = lists[i][r]
      BY <2>0
  <2>2. whole[m].kind = RoutineKinds[i]
      BY Zenon, <1>3, <2>1
  <2> QED BY Zenon, <2>1, <2>2
<1> HIDE DEF whole
<1>7. ASSUME NEW k \in 1 .. 6
      PROVE  \E a \in Nat : {m \in 1 .. Len(whole) : whole[m].kind = RoutineKinds[k]}
                                = a + 1 .. a + Len(SectionsByName(Disk[path], RoutineKinds[k]))
  <2> DEFINE a == Len(f[k - 1])
             n == Len(lists[k])
  <2>1. a \in Nat /\ n \in Nat /\ Len(f[k]) = a + n
    <3>1. k \in 1 .. Len(lists) /\ k - 1 \in 0 .. Len(lists)
        BY <1>3
    <3>2. f[k - 1] \in Seq(X) /\ lists[k] \in Seq(X) /\ Len(f[k]) = Len(f[k - 1]) + Len(lists[k])
        BY Zenon, <1>4, <3>1 DEF IsFlattening
    <3> QED BY <3>2, ListParts
  <2>2. {m \in 1 .. Len(whole) : whole[m].kind = RoutineKinds[k]} = a + 1 .. a + n
    <3>1. ASSUME NEW m \in 1 .. Len(whole), whole[m].kind = RoutineKinds[k] PROVE m \in a + 1 .. a + n
      <4>0. PICK i \in 1 .. 6 : \E r \in 1 .. Len(lists[i]) : m = Len(f[i - 1]) + r /\ whole[m].kind = RoutineKinds[i]
          BY Zenon, <1>6
      <4>1. PICK r \in 1 .. Len(lists[k]) : m = Len(f[k - 1]) + r
          BY Zenon, <1>0, <3>1, <4>0
      <4>2. r \in 1 .. n /\ m = a + r
          BY <4>1
      <4> HIDE DEF a, n
      <4> QED BY <2>1, <4>2
    <3>2. ASSUME NEW m \in a + 1 .. a + n PROVE m \in 1 .. Len(whole) /\ whole[m].kind = RoutineKinds[k]
      <4> DEFINE r == m - a
      <4>1. r \in 1 .. n /\ m = a + r /\ m \in 1 .. Len(f[k])
        <5> HIDE DEF a, n
        <5> QED BY <2>1
      <4>2. f[k][m] = lists[k][r]
        <5> HIDE DEF r
        <5> QED BY Zenon, <1>3, <1>4, <4>1 DEF IsFlattening
      <4>3. k \in 0 .. Len(lists) /\ Len(lists) \in Nat
          BY <1>3
      <4>4. /\ Len(f[k]) \in Nat /\ Len(whole) \in Nat /\ Len(f[k]) <= Len(whole)
            /\ \A j \in 1 .. Len(f[k]) : whole[j] = f[k][j]
          BY <1>4, <4>3, FlattenWhole DEF whole
      <4>6. m \in 1 .. Len(whole)
          BY <4>1, <4>4
      <4>7. whole[m] = lists[k][r]
          BY <4>1, <4>2, <4>4
      <4> HIDE DEF r
      <4> QED BY Zenon, <1>3, <4>1, <4>6, <4>7
    <3> HIDE DEF a, n
    <3> QED BY <3>1, <3>2
  <2>3. n = Len(SectionsByName(Disk[path], RoutineKinds[k]))
      BY SMTT(30), <1>3
  <2> HIDE DEF a, n
  <2> QED BY <2>1, <2>2, <2>3
<1>8. \A i \in DOMAIN whole : whole[i].kind \in Range(RoutineKinds)
    BY <1>0, <1>5, <1>6 DEF Range
<1>9. c.Routines = whole
    BY <1>2 DEF whole
<1> HIDE DEF whole, X
<1>10. whole \in Seq(Range(whole))
    BY Zenon, <1>5, ListOfMembers
<1> QED BY Zenon, <1>0, <1>5, <1>7, <1>8, <1>9, <1>10
-----------------------------------------------------------------------------
(* The device has its four fields. *)
IsDevice(dev) == dev = [key |-> dev.key, peer |-> dev.peer, psk |-> dev.psk, route |-> dev.route]

(* Lemma: what a line does to each of them. *)
LEMMA LineEffect ==
    ASSUME NEW dev, IsDevice(dev), NEW line
    PROVE  /\ IsDevice(IpcLine(dev, line))
           /\ IpcLine(dev, line).key = IF line[1] = "private_key" THEN line[2] ELSE dev.key
           /\ IpcLine(dev, line).peer = IF line[1] = "public_key" THEN line[2] ELSE dev.peer
           /\ IpcLine(dev, line).psk =
                 IF line[1] = "preshared_key" THEN Put(dev.psk, dev.peer, line[2]) ELSE dev.psk
           /\ IpcLine(dev, line).route =
                 IF line[1] = "allowed_ip" THEN Put(dev.route, line[2], dev.peer) ELSE dev.route
<1>1. CASE line[1] = "private_key"
  <2>1. IpcLine(dev, line) = [key |-> line[2], peer |-> dev.peer, psk |-> dev.psk, route |-> dev.route]
      BY <1>1 DEF IpcLine, IsDevice
  <2> QED BY <1>1, <2>1 DEF IsDevice
<1>2. CASE line[1] = "public_key"
  <2>1. IpcLine(dev, line) = [key |-> dev.key, peer |-> line[2], psk |-> dev.psk, route |-> dev.route]
      BY <1>2 DEF IpcLine, IsDevice
  <2> QED BY <1>2, <2>1 DEF IsDevice
<1>3. CASE line[1] = "preshared_key"
  <2>1. IpcLine(dev, line) = [key |-> dev.key, peer |-> dev.peer, psk |-> Put(dev.psk, dev.peer, line[2]),
                              route |-> dev.route]
      BY <1>3 DEF IpcLine, IsDevice
  <2> QED BY <1>3, <2>1 DEF IsDevice
<1>4. CASE line[1] = "allowed_ip"
  <2>1. IpcLine(dev, line) = [key |-> dev.key, peer |-> dev.peer, psk |-> dev.psk,
                              route |-> Put(dev.route, line[2], dev.peer)]
      BY <1>4 DEF IpcLine, IsDevice
  <2> QED BY <1>4, <2>1 DEF IsDevice
<1>5. CASE line[1] \notin {"private_key", "public_key", "preshared_key", "allowed_ip"}
  <2>1. IpcLine(dev, line) = dev
      BY <1>5 DEF IpcLine
  <2> QED BY <1>5, <2>1
<1> QED BY <1>1, <1>2, <1>3, <1>4, <1>5

(* Lemma: the device after each line. *)
LEMMA IpcParts ==
    ASSUME NEW lines, Len(lines) \in Nat
    PROVE  \E after : /\ after[0] = NoDevice
                      /\ \A i \in 1 .. Len(lines) : after[i] = IpcLine(after[i - 1], lines[i])
                      /\ IpcSet(lines) = after[Len(lines)]
<1> DEFINE N == Len(lines)
           G(f, n) == f = [i \in 0 .. n |-> IF i = 0 THEN NoDevice ELSE IpcLine(f[i - 1], lines[i])]
           S == {n \in 0 .. N : \E f : G(f, n)}
<1>1. \A n \in 0 .. N : n \in S
  <2>1. 0 \in S
    <3>1. G([i \in {0} |-> NoDevice], 0)
        OBVIOUS
    <3> HIDE DEF G
    <3> QED BY <3>1
  <2>2. ASSUME NEW n \in 1 .. N, n - 1 \in S PROVE n \in S
    <3>1. PICK f : G(f, n - 1)
        BY <2>2
    <3> DEFINE g == [i \in 0 .. n |-> IF i = n THEN IpcLine(f[n - 1], lines[n]) ELSE f[i]]
    <3>2. G(g, n)
      <4>1. ASSUME NEW i \in 0 .. n PROVE g[i] = IF i = 0 THEN NoDevice ELSE IpcLine(g[i - 1], lines[i])
        <5>1. CASE i = n
          <6>1. n - 1 \in 0 .. n /\ n \in 0 .. n /\ n - 1 # n /\ n # 0
              OBVIOUS
          <6>2. g[n] = IpcLine(f[n - 1], lines[n]) /\ g[n - 1] = f[n - 1]
              BY <6>1, Zenon
          <6> HIDE DEF g
          <6> QED BY <5>1, <6>1, <6>2
        <5>2. CASE i # n
          <6>1. i \in 0 .. n - 1 /\ g[i] = f[i]
              BY <5>2
          <6>2. f[i] = IF i = 0 THEN NoDevice ELSE IpcLine(f[i - 1], lines[i])
              BY <3>1, <6>1
          <6>3. i # 0 => g[i - 1] = f[i - 1]
              BY <6>1
          <6> QED BY <6>1, <6>2, <6>3
        <5> QED BY <5>1, <5>2
      <4> HIDE DEF g
      <4>2. g = [i \in 0 .. n |-> g[i]]
          BY DEF g
      <4> QED BY <4>1, <4>2
    <3> HIDE DEF g, G
    <3> QED BY <3>2
  <2> HIDE DEF S
  <2> QED BY Zenon, <2>1, <2>2, UpTo
<1> DEFINE h == CHOOSE f : G(f, N)
<1>2. G(h, N)
  <2> HIDE DEF G
  <2>1. N \in S
      BY <1>1
  <2>2. \E f : G(f, N)
      BY <2>1
  <2> HIDE DEF S
  <2> QED BY <2>2, Zenon
<1>3. IpcSet(lines) = h[N]
    BY DEF IpcSet
<1> HIDE DEF h
<1>4. h[0] = NoDevice /\ \A i \in 1 .. N : h[i] = IpcLine(h[i - 1], lines[i])
    BY <1>2
<1> QED BY <1>3, <1>4

(* A table in which each of the first n peers has entered its value for     *)
(* what it claims, one after the other.                                     *)
Follows(table, n, claims, values) ==
    /\ DOMAIN table = UNION {claims[i] : i \in 1 .. n}
    /\ \A x \in DOMAIN table : \E i \in 1 .. n :
          x \in claims[i] /\ (\A j \in i + 1 .. n : x \notin claims[j]) /\ table[x] = values[i]

(* The entries for these names have this value, the others are as before. *)
Enters(old, new, names, value) ==
    /\ DOMAIN new = DOMAIN old \cup names
    /\ \A x \in names : new[x] = value
    /\ \A x \in DOMAIN old \ names : new[x] = old[x]

(* Lemma: one peer more. *)
LEMMA FollowsStep ==
    ASSUME NEW n \in Nat \ {0}, NEW claims, NEW values, NEW old, Follows(old, n - 1, claims, values),
           NEW new, Enters(old, new, claims[n], values[n])
    PROVE  Follows(new, n, claims, values)
<1>1. DOMAIN new = UNION {claims[i] : i \in 1 .. n}
  <2>1. 1 .. n = (1 .. n - 1) \cup {n}
      OBVIOUS
  <2> QED BY <2>1 DEF Follows, Enters
<1>2. ASSUME NEW x \in DOMAIN new
      PROVE  \E i \in 1 .. n : x \in claims[i] /\ (\A j \in i + 1 .. n : x \notin claims[j]) /\ new[x] = values[i]
  <2>1. CASE x \in claims[n]
    <3>1. n \in 1 .. n /\ new[x] = values[n] /\ \A j \in n + 1 .. n : x \notin claims[j]
        BY <2>1 DEF Enters
    <3> QED BY <2>1, <3>1
  <2>2. CASE x \notin claims[n]
    <3>1. x \in DOMAIN old /\ new[x] = old[x]
        BY <2>2 DEF Enters
    <3>2. PICK i \in 1 .. n - 1 :
              x \in claims[i] /\ (\A j \in i + 1 .. n - 1 : x \notin claims[j]) /\ old[x] = values[i]
        BY <3>1 DEF Follows
    <3>3. i \in 1 .. n /\ \A j \in i + 1 .. n : j = n \/ j \in i + 1 .. n - 1
        OBVIOUS
    <3>4. \A j \in i + 1 .. n : x \notin claims[j]
        BY <2>2, <3>2, <3>3
    <3> QED BY <3>1, <3>2, <3>3, <3>4
  <2> QED BY <2>1, <2>2
<1> QED BY <1>1, <1>2 DEF Follows

(* The routes of the device after the first r of a peer's prefixes. *)
Routed(old, dev, ips, r) ==
    /\ IsDevice(dev) /\ dev.key = old.key /\ dev.peer = old.peer /\ dev.psk = old.psk
    /\ Enters(old.route, dev.route, {ips[j] : j \in 1 .. r}, old.peer)

(* Lemma: one prefix more (device.IpcSet, the line allowed_ip). *)
LEMMA RoutedStep ==
    ASSUME NEW old, NEW dev, NEW ips, NEW r \in Nat \ {0}, Routed(old, dev, ips, r - 1)
    PROVE  Routed(old, IpcLine(dev, <<"allowed_ip", ips[r]>>), ips, r)
<1> DEFINE new == IpcLine(dev, <<"allowed_ip", ips[r]>>)
           line == <<"allowed_ip", ips[r]>>
<1>1. /\ IsDevice(new) /\ new.key = dev.key /\ new.peer = dev.peer /\ new.psk = dev.psk
      /\ new.route = Put(dev.route, ips[r], dev.peer)
  <2>1. /\ line[1] = "allowed_ip" /\ line[2] = ips[r]
        /\ line[1] # "private_key" /\ line[1] # "public_key" /\ line[1] # "preshared_key"
      OBVIOUS
  <2>2. IsDevice(dev) /\ new = IpcLine(dev, line)
      BY DEF Routed
  <2> HIDE DEF line, new
  <2>3. /\ IsDevice(new)
        /\ new.key = IF line[1] = "private_key" THEN line[2] ELSE dev.key
        /\ new.peer = IF line[1] = "public_key" THEN line[2] ELSE dev.peer
        /\ new.psk = IF line[1] = "preshared_key" THEN Put(dev.psk, dev.peer, line[2]) ELSE dev.psk
        /\ new.route = IF line[1] = "allowed_ip" THEN Put(dev.route, line[2], dev.peer) ELSE dev.route
      BY Zenon, <2>2, LineEffect
  <2> QED BY <2>1, <2>3
<1> HIDE DEF new
<1>2. {ips[j] : j \in 1 .. r} = {ips[j] : j \in 1 .. r - 1} \cup {ips[r]}
  <2>1. 1 .. r = (1 .. r - 1) \cup {r}
      OBVIOUS
  <2> QED BY <2>1
<1>3. Enters(old.route, new.route, {ips[j] : j \in 1 .. r}, old.peer)
  <2> DEFINE had == {ips[j] : j \in 1 .. r - 1}
             has == {ips[j] : j \in 1 .. r}
  <2>1. Enters(old.route, dev.route, had, old.peer) /\ dev.peer = old.peer
      BY DEF Routed
  <2>2. has = had \cup {ips[r]}
      BY <1>2
  <2> HIDE DEF had, has
  <2>3. Enters(old.route, new.route, has, old.peer)
      BY <1>1, <2>1, <2>2 DEF Enters, Put
  <2> QED BY <2>3 DEF has
<1>4. Routed(old, new, ips, r)
    BY <1>1, <1>3 DEF Routed
<1> QED BY <1>4 DEF new

(* Lemma: what the prefixes of a peer do, from line e on. *)
LEMMA RoutesEntered ==
    ASSUME NEW ips, Len(ips) \in Nat, NEW e \in Nat, NEW after, IsDevice(after[e]),
           \A r \in 1 .. Len(ips) : after[e + r] = IpcLine(after[e + r - 1], <<"allowed_ip", ips[r]>>)
    PROVE  Routed(after[e], after[e + Len(ips)], ips, Len(ips))
<1> DEFINE N == Len(ips)
           S == {r \in 0 .. N : Routed(after[e], after[e + r], ips, r)}
<1>1. 0 \in S
  <2>1. {ips[j] : j \in 1 .. 0} = {}
      OBVIOUS
  <2>2. Routed(after[e], after[e], ips, 0)
      BY <2>1 DEF Routed, Enters
  <2>3. e + 0 = e
      OBVIOUS
  <2> QED BY <2>2, <2>3
<1>2. ASSUME NEW r \in 1 .. N, r - 1 \in S PROVE r \in S
  <2>1. Routed(after[e], after[e + (r - 1)], ips, r - 1) /\ r \in Nat \ {0}
      BY <1>2
  <2>2. e + (r - 1) = e + r - 1
      OBVIOUS
  <2>3. Routed(after[e], after[e + r], ips, r)
      BY Zenon, <2>1, <2>2, RoutedStep
  <2> QED BY <2>3
<1> HIDE DEF S
<1>3. \A r \in 0 .. N : r \in S
    BY Zenon, <1>1, <1>2, UpTo
<1> QED BY <1>3 DEF S

(* The prefixes that are offered for a peer. *)
Offered(peer) == IF peer.AllowedIPs = <<>> THEN Defaults ELSE peer.AllowedIPs

(* The lines that are about the peer itself, b of them. *)
Selects(lines, peer, b) ==
    /\ lines[1] = <<"public_key", peer.PublicKey>>
    /\ lines[2] = <<"persistent_keepalive_interval", peer.KeepAlive>>
    /\ lines[3] = <<"preshared_key", peer.PreSharedKey>>
    /\ b = 4 => lines[4] = <<"endpoint", peer.Endpoint>>

(* Lemma: the lines about a peer: three, perhaps an endpoint, its prefixes. *)
LEMMA PeerLinesAre ==
    ASSUME NEW peer, peer.AllowedIPs \in Seq(Range(peer.AllowedIPs))
    PROVE  \E b \in {3, 4} :
               /\ Len(Offered(peer)) \in Nat
               /\ PeerLines(peer) \in Seq(Range(PeerLines(peer)))
               /\ Len(PeerLines(peer)) = b + Len(Offered(peer))
               /\ Selects(PeerLines(peer), peer, b)
               /\ \A r \in 1 .. Len(Offered(peer)) : PeerLines(peer)[b + r] = <<"allowed_ip", Offered(peer)[r]>>
<1> DEFINE ips == Offered(peer)
           first == <<<<"public_key", peer.PublicKey>>, <<"persistent_keepalive_interval", peer.KeepAlive>>,
                      <<"preshared_key", peer.PreSharedKey>>>>
           second == OptionalLine("endpoint", peer.Endpoint)
           third == AllowedLines(peer)
           X == Range(first) \cup Range(second) \cup Range(third)
<1>1. ips \in Seq(Range(ips))
    BY ListAssumption DEF Offered
<1>2. Len(ips) \in Nat /\ DOMAIN ips = 1 .. Len(ips)
  <2> HIDE DEF ips
  <2> QED BY <1>1, ListParts
<1>3. third = [i \in 1 .. Len(ips) |-> <<"allowed_ip", ips[i]>>]
    BY <1>2 DEF AllowedLines, Offered
<1>4. Len(third) = Len(ips) /\ third \in Seq(Range(third))
  <2> HIDE DEF third, ips
  <2>1. third = [i \in 1 .. Len(ips) |-> third[i]]
      BY <1>3
  <2> QED BY <1>2, <2>1, IsList
<1>5. first \in Seq(Range(first)) /\ Len(first) = 3
  <2>1. first = [i \in 1 .. 3 |-> first[i]] /\ 3 \in Nat
      OBVIOUS
  <2> HIDE DEF first
  <2> QED BY Zenon, <2>1, IsList
<1>6. \/ second = <<>>
      \/ second = <<<<"endpoint", peer.Endpoint>>>>
    BY DEF OptionalLine
<1>7. second \in Seq(Range(second)) /\ Len(second) \in {0, 1} /\ (Len(second) = 1 => second[1] = <<"endpoint", peer.Endpoint>>)
  <2>1. CASE second = <<>>
    <3>1. second = [i \in 1 .. 0 |-> second[i]] /\ 0 \in Nat
        BY <2>1
    <3> HIDE DEF second
    <3> QED BY <3>1, IsList
  <2>2. CASE second = <<<<"endpoint", peer.Endpoint>>>>
    <3>1. second = [i \in 1 .. 1 |-> second[i]] /\ 1 \in Nat /\ second[1] = <<"endpoint", peer.Endpoint>>
        BY <2>2
    <3> HIDE DEF second
    <3> QED BY Zenon, <3>1, IsList
  <2> QED BY <1>6, <2>1, <2>2
<1>8. PeerLines(peer) = first \o second \o third
    BY DEF PeerLines
<1>9. first[1] = <<"public_key", peer.PublicKey>> /\ first[2] = <<"persistent_keepalive_interval", peer.KeepAlive>>
      /\ first[3] = <<"preshared_key", peer.PreSharedKey>>
    OBVIOUS
<1>10. \A i \in 1 .. Len(ips) : third[i] = <<"allowed_ip", ips[i]>>
    BY <1>3
<1> HIDE DEF first, second, third, ips
<1>11. first \in Seq(X) /\ second \in Seq(X) /\ third \in Seq(X)
  <2>1. Range(first) \subseteq X /\ Range(second) \subseteq X /\ Range(third) \subseteq X
      OBVIOUS
  <2> HIDE DEF X
  <2> QED BY <1>4, <1>5, <1>7, <2>1, ListOver
<1> HIDE DEF X
<1> DEFINE b == 3 + Len(second)
           all == first \o second \o third
<1> DEFINE two == first \o second
<1>12. /\ two \in Seq(X) /\ Len(two) = b /\ b \in {3, 4}
       /\ two[1] = first[1] /\ two[2] = first[2] /\ two[3] = first[3] /\ (b = 4 => two[4] = second[1])
  <2>1. /\ two \in Seq(X) /\ Len(two) = 3 + Len(second)
        /\ \A m \in 1 .. 3 : two[m] = first[m]
        /\ \A r \in 1 .. Len(second) : two[3 + r] = second[r]
    <3>1. /\ two \in Seq(X) /\ Len(two) = Len(first) + Len(second)
          /\ \A m \in 1 .. Len(first) : two[m] = first[m]
          /\ \A r \in 1 .. Len(second) : two[Len(first) + r] = second[r]
        BY <1>11, Joined
    <3> HIDE DEF two
    <3> QED BY <1>5, <3>1
  <2> HIDE DEF two
  <2> QED BY SMTT(30), <1>7, <2>1
<1> HIDE DEF two, b
<1>13. /\ all \in Seq(X) /\ Len(all) = b + Len(ips)
       /\ \A m \in 1 .. b : all[m] = two[m]
       /\ \A r \in 1 .. Len(ips) : all[b + r] = third[r]
  <2>1. all = two \o third
      BY DEF two
  <2>2. /\ two \o third \in Seq(X) /\ Len(two \o third) = Len(two) + Len(third)
        /\ \A m \in 1 .. Len(two) : (two \o third)[m] = two[m]
        /\ \A r \in 1 .. Len(third) : (two \o third)[Len(two) + r] = third[r]
      BY SMTT(30), <1>11, <1>12, Joined
  <2> HIDE DEF all
  <2> QED BY <1>4, <1>12, <2>1, <2>2
<1>14. all \in Seq(Range(all))
    BY Zenon, <1>13, ListOfMembers
<1> HIDE DEF all
<1>15. all[1] = first[1] /\ all[2] = first[2] /\ all[3] = first[3] /\ (b = 4 => all[4] = second[1])
    BY <1>12, <1>13
<1>17. b = 4 => Len(second) = 1
    BY <1>7 DEF b
<1>18. /\ Len(ips) \in Nat /\ all \in Seq(Range(all)) /\ Len(all) = b + Len(ips)
       /\ Selects(all, peer, b)
       /\ \A r \in 1 .. Len(ips) : all[b + r] = <<"allowed_ip", ips[r]>>
    BY Zenon, <1>2, <1>7, <1>9, <1>10, <1>13, <1>14, <1>15, <1>17 DEF Selects
<1>19. PeerLines(peer) = all /\ ips = Offered(peer)
    BY <1>8 DEF all, ips
<1> HIDE DEF ips
<1> QED BY <1>12, <1>18, <1>19

(* What the device knows after the first n peers. *)
Claims(peers) == [i \in DOMAIN peers |-> Range(Offered(peers[i]))]
PublicKeys(peers) == [i \in DOMAIN peers |-> peers[i].PublicKey]
Named(peers) == [i \in DOMAIN peers |-> {peers[i].PublicKey}]
PreSharedKeys(peers) == [i \in DOMAIN peers |-> peers[i].PreSharedKey]

Told(dev, key, peers, n) ==
    /\ IsDevice(dev) /\ dev.key = key
    /\ Follows(dev.route, n, Claims(peers), PublicKeys(peers))
    /\ Follows(dev.psk, n, Named(peers), PreSharedKeys(peers))

(* Lemma: the line private_key sets the key of the device. *)
LEMMA PrivateKeyLine ==
    ASSUME NEW old, IsDevice(old), NEW value
    PROVE  LET new == IpcLine(old, <<"private_key", value>>)
           IN /\ IsDevice(new) /\ new.key = value /\ new.peer = old.peer
              /\ new.psk = old.psk /\ new.route = old.route
<1> DEFINE line == <<"private_key", value>>
           new == IpcLine(old, line)
<1>1. /\ line[1] = "private_key" /\ line[2] = value
      /\ line[1] # "public_key" /\ line[1] # "preshared_key" /\ line[1] # "allowed_ip"
    OBVIOUS
<1> HIDE DEF line
<1>2. /\ IsDevice(new)
      /\ new.key = IF line[1] = "private_key" THEN line[2] ELSE old.key
      /\ new.peer = IF line[1] = "public_key" THEN line[2] ELSE old.peer
      /\ new.psk = IF line[1] = "preshared_key" THEN Put(old.psk, old.peer, line[2]) ELSE old.psk
      /\ new.route = IF line[1] = "allowed_ip" THEN Put(old.route, line[2], old.peer) ELSE old.route
    BY LineEffect, Zenon
<1> HIDE DEF new
<1>3. /\ IsDevice(new) /\ new.key = value /\ new.peer = old.peer
      /\ new.psk = old.psk /\ new.route = old.route
    BY <1>1, <1>2
<1> QED BY <1>3 DEF new, line

(* Lemma: the line public_key selects the peer of the lines that follow. *)
LEMMA PublicKeyLine ==
    ASSUME NEW old, IsDevice(old), NEW value
    PROVE  LET new == IpcLine(old, <<"public_key", value>>)
           IN /\ IsDevice(new) /\ new.key = old.key /\ new.peer = value
              /\ new.psk = old.psk /\ new.route = old.route
<1> DEFINE line == <<"public_key", value>>
           new == IpcLine(old, line)
<1>1. /\ line[1] = "public_key" /\ line[2] = value
      /\ line[1] # "private_key" /\ line[1] # "preshared_key" /\ line[1] # "allowed_ip"
    OBVIOUS
<1> HIDE DEF line
<1>2. /\ IsDevice(new)
      /\ new.key = IF line[1] = "private_key" THEN line[2] ELSE old.key
      /\ new.peer = IF line[1] = "public_key" THEN line[2] ELSE old.peer
      /\ new.psk = IF line[1] = "preshared_key" THEN Put(old.psk, old.peer, line[2]) ELSE old.psk
      /\ new.route = IF line[1] = "allowed_ip" THEN Put(old.route, line[2], old.peer) ELSE old.route
    BY LineEffect, Zenon
<1> HIDE DEF new
<1>3. /\ IsDevice(new) /\ new.key = old.key /\ new.peer = value
      /\ new.psk = old.psk /\ new.route = old.route
    BY <1>1, <1>2
<1> QED BY <1>3 DEF new, line

(* Lemma: the line preshared_key enters the key of the selected peer. *)
LEMMA PreSharedKeyLine ==
    ASSUME NEW old, IsDevice(old), NEW value
    PROVE  LET new == IpcLine(old, <<"preshared_key", value>>)
           IN /\ IsDevice(new) /\ new.key = old.key /\ new.peer = old.peer
              /\ new.psk = Put(old.psk, old.peer, value) /\ new.route = old.route
<1> DEFINE line == <<"preshared_key", value>>
           new == IpcLine(old, line)
<1>1. /\ line[1] = "preshared_key" /\ line[2] = value
      /\ line[1] # "private_key" /\ line[1] # "public_key" /\ line[1] # "allowed_ip"
    OBVIOUS
<1> HIDE DEF line
<1>2. /\ IsDevice(new)
      /\ new.key = IF line[1] = "private_key" THEN line[2] ELSE old.key
      /\ new.peer = IF line[1] = "public_key" THEN line[2] ELSE old.peer
      /\ new.psk = IF line[1] = "preshared_key" THEN Put(old.psk, old.peer, line[2]) ELSE old.psk
      /\ new.route = IF line[1] = "allowed_ip" THEN Put(old.route, line[2], old.peer) ELSE old.route
    BY LineEffect, Zenon
<1> HIDE DEF new
<1>3. /\ IsDevice(new) /\ new.key = old.key /\ new.peer = old.peer
      /\ new.psk = Put(old.psk, old.peer, value) /\ new.route = old.route
    BY <1>1, <1>2
<1> QED BY <1>3 DEF new, line

(* Lemma: the other lines leave the four fields alone. *)
LEMMA OtherLine ==
    ASSUME NEW old, NEW line,
           line[1] \notin {"private_key", "public_key", "preshared_key", "allowed_ip"}
    PROVE  IpcLine(old, line) = old
BY DEF IpcLine

(* k lines are read from line e on. *)
Applied(after, e, lines, k) == \A r \in 1 .. k : after[e + r] = IpcLine(after[e + r - 1], lines[r])

Selected(old, new, peer) ==
    /\ IsDevice(new) /\ new.key = old.key /\ new.peer = peer.PublicKey
    /\ new.psk = Put(old.psk, peer.PublicKey, peer.PreSharedKey) /\ new.route = old.route

(* Lemma: the first lines about a peer select it and set its preshared key. *)
LEMMA PeerSelected ==
    ASSUME NEW peer, NEW b \in {3, 4}, NEW e \in Nat, NEW after, IsDevice(after[e]), NEW lines,
           Applied(after, e, lines, b), Selects(lines, peer, b)
    PROVE  Selected(after[e], after[e + b], peer)
<1> DEFINE d0 == after[e]
           d1 == after[e + 1]
           d2 == after[e + 2]
           d3 == after[e + 3]
           d4 == after[e + 4]
<1>1. /\ d1 = IpcLine(d0, lines[1]) /\ d2 = IpcLine(d1, lines[2]) /\ d3 = IpcLine(d2, lines[3])
      /\ b = 4 => d4 = IpcLine(d3, lines[4])
  <2>1. e + 1 - 1 = e /\ e + 2 - 1 = e + 1 /\ e + 3 - 1 = e + 2 /\ e + 4 - 1 = e + 3
      OBVIOUS
  <2>2. 1 \in 1 .. b /\ 2 \in 1 .. b /\ 3 \in 1 .. b /\ (b = 4 => 4 \in 1 .. b)
      OBVIOUS
  <2> QED BY <2>1, <2>2 DEF Applied
<1>2. /\ d1 = IpcLine(d0, <<"public_key", peer.PublicKey>>) /\ d3 = IpcLine(d2, <<"preshared_key", peer.PreSharedKey>>)
      /\ lines[2][1] = "persistent_keepalive_interval" /\ (b = 4 => lines[4][1] = "endpoint")
    BY <1>1 DEF Selects
<1>3. IsDevice(d0)
    OBVIOUS
<1>4. d0 = after[e] /\ (b = 3 => d3 = after[e + b]) /\ (b = 4 => d4 = after[e + b])
    OBVIOUS
<1> HIDE DEF d0, d1, d2, d3, d4
<1>5. /\ IsDevice(d1) /\ d1.key = d0.key /\ d1.peer = peer.PublicKey
      /\ d1.psk = d0.psk /\ d1.route = d0.route
  <2> DEFINE new == IpcLine(d0, <<"public_key", peer.PublicKey>>)
  <2>1. /\ IsDevice(new) /\ new.key = d0.key /\ new.peer = peer.PublicKey
        /\ new.psk = d0.psk /\ new.route = d0.route
      BY <1>3, PublicKeyLine, Zenon
  <2>2. d1 = new
      BY <1>2
  <2> HIDE DEF new
  <2> QED BY <2>1, <2>2, Zenon
<1>6. d2 = d1
    BY <1>1, <1>2, OtherLine
<1>7. /\ IsDevice(d3) /\ d3.key = d1.key /\ d3.peer = d1.peer
      /\ d3.psk = Put(d1.psk, d1.peer, peer.PreSharedKey) /\ d3.route = d1.route
  <2> DEFINE new == IpcLine(d1, <<"preshared_key", peer.PreSharedKey>>)
  <2>1. /\ IsDevice(new) /\ new.key = d1.key /\ new.peer = d1.peer
        /\ new.psk = Put(d1.psk, d1.peer, peer.PreSharedKey) /\ new.route = d1.route
      BY <1>5, PreSharedKeyLine, Zenon
  <2>2. d3 = new
      BY <1>2, <1>6
  <2> HIDE DEF new
  <2> QED BY <2>1, <2>2, Zenon
<1>8. /\ IsDevice(d3) /\ d3.key = d0.key /\ d3.peer = peer.PublicKey
      /\ d3.psk = Put(d0.psk, peer.PublicKey, peer.PreSharedKey) /\ d3.route = d0.route
    BY <1>5, <1>7, Zenon
<1>9. b = 4 => d4 = d3
    BY <1>1, <1>2, OtherLine
<1>10. after[e + b] = d3
    BY <1>4, <1>9
<1> QED BY <1>4, <1>8, <1>10, Zenon DEF Selected

(* Lemma: the lines about a peer, from line e on, make the device follow    *)
(* one peer more.                                                           *)
LEMMA PeerTold ==
    ASSUME NEW peers, Len(peers) \in Nat, DOMAIN peers = 1 .. Len(peers), NEW n \in 1 .. Len(peers),
           peers[n].AllowedIPs \in Seq(Range(peers[n].AllowedIPs)),
           NEW key, NEW e \in Nat, NEW after, Told(after[e], key, peers, n - 1),
           Applied(after, e, PeerLines(peers[n]), Len(PeerLines(peers[n])))
    PROVE  Told(after[e + Len(PeerLines(peers[n]))], key, peers, n)
<1> DEFINE peer == peers[n]
           lines == PeerLines(peer)
           ips == Offered(peer)
           old == after[e]
<1>1. PICK b \in {3, 4} :
          /\ Len(ips) \in Nat /\ lines \in Seq(Range(lines)) /\ Len(lines) = b + Len(ips)
          /\ Selects(lines, peer, b)
          /\ \A r \in 1 .. Len(ips) : lines[b + r] = <<"allowed_ip", ips[r]>>
  <2>1. peer.AllowedIPs \in Seq(Range(peer.AllowedIPs))
      OBVIOUS
  <2> HIDE DEF peer
  <2> QED BY Zenon, <2>1, PeerLinesAre
<1>2. \A r \in 1 .. Len(lines) : after[e + r] = IpcLine(after[e + r - 1], lines[r])
    BY DEF Applied
<1>3. IsDevice(old) /\ old.key = key
    BY DEF Told
<1> HIDE DEF peer, lines, ips
<1> DEFINE mid == after[e + b]
           new == after[e + b + Len(ips)]
<1>4. /\ IsDevice(mid) /\ mid.key = key /\ mid.peer = peer.PublicKey
      /\ mid.psk = Put(old.psk, peer.PublicKey, peer.PreSharedKey) /\ mid.route = old.route
  <2>1. Applied(after, e, lines, b)
      BY SMTT(30), <1>1, <1>2 DEF Applied
  <2>2. Selects(lines, peer, b) /\ IsDevice(after[e])
      BY <1>1, <1>3
  <2>3. Selected(after[e], after[e + b], peer)
      BY Zenon, <2>1, <2>2, PeerSelected
  <2> QED BY <1>3, <2>3 DEF Selected
<1>5. Routed(mid, new, ips, Len(ips))
  <2> DEFINE g == e + b
  <2>1. g \in Nat
      OBVIOUS
  <2>2. ASSUME NEW r \in 1 .. Len(ips) PROVE after[g + r] = IpcLine(after[g + r - 1], <<"allowed_ip", ips[r]>>)
    <3>1. b + r \in 1 .. Len(lines) /\ e + (b + r) = g + r /\ e + (b + r) - 1 = g + r - 1
        BY SMTT(30), <1>1
    <3> QED BY Zenon, <1>1, <1>2, <3>1
  <2> HIDE DEF g
  <2>3. Routed(after[g], after[g + Len(ips)], ips, Len(ips))
      BY <1>1, <1>4, <2>1, <2>2, RoutesEntered DEF g
  <2> QED BY <2>3 DEF g
<1> HIDE DEF mid, new, old
<1>6. Enters(old.route, new.route, Range(ips), peer.PublicKey)
  <2>1. {ips[j] : j \in 1 .. Len(ips)} = Range(ips)
    <3>1. ips \in Seq(Range(ips))
        BY ListAssumption DEF ips, Offered, peer
    <3>2. DOMAIN ips = 1 .. Len(ips)
        BY <3>1, ListParts
    <3> QED BY <3>2 DEF Range
  <2> QED BY Zenon, <1>4, <1>5, <2>1 DEF Routed
<1>7. Enters(old.psk, new.psk, {peer.PublicKey}, peer.PreSharedKey)
  <2>1. new.psk = Put(old.psk, peer.PublicKey, peer.PreSharedKey)
      BY Zenon, <1>4, <1>5 DEF Routed
  <2> QED BY SMTT(30), <2>1 DEF Put, Enters
<1>8. IsDevice(new) /\ new.key = key
    BY <1>4, <1>5 DEF Routed
<1>9. /\ Claims(peers)[n] = Range(ips) /\ PublicKeys(peers)[n] = peer.PublicKey
      /\ Named(peers)[n] = {peer.PublicKey} /\ PreSharedKeys(peers)[n] = peer.PreSharedKey
    BY DEF Claims, PublicKeys, Named, PreSharedKeys, ips, peer
<1>10. n \in Nat \ {0}
    OBVIOUS
<1>11. Follows(new.route, n, Claims(peers), PublicKeys(peers))
  <2>1. Follows(old.route, n - 1, Claims(peers), PublicKeys(peers))
      BY DEF Told, old
  <2> QED BY Zenon, <1>6, <1>9, <1>10, <2>1, FollowsStep
<1>12. Follows(new.psk, n, Named(peers), PreSharedKeys(peers))
  <2>1. Follows(old.psk, n - 1, Named(peers), PreSharedKeys(peers))
      BY Zenon DEF Told, old
  <2> QED BY Zenon, <1>7, <1>9, <1>10, <2>1, FollowsStep
<1>13. Told(new, key, peers, n)
    BY Zenon, <1>8, <1>11, <1>12 DEF Told
<1>14. e + b + Len(ips) = e + Len(lines)
    BY SMTT(30), <1>1
<1> QED BY <1>13, <1>14 DEF new, lines, peer

(* Lemma: ParseItems gives a list. *)
LEMMA ItemsAreList ==
    ASSUME NEW table, NEW s, NEW k, NEW v \in ParseItems(table, s, k)
    PROVE  v \in Seq(Range(v))
<1>1. PICK items \in ParseWith(Items, s, k) :
          v \in Each([i \in DOMAIN Kept(items, {j \in DOMAIN items : items[j] # ""}) |->
                         Lookup(table, Plain(Kept(items, {j \in DOMAIN items : items[j] # ""})[i]))])
    BY Zenon DEF ParseItems
<1> DEFINE words == Kept(items, {j \in DOMAIN items : items[j] # ""})
           results == [i \in DOMAIN words |-> Lookup(table, Plain(words[i]))]
<1>2. items \in Seq(Range(items))
  <2>1. PICK text : items \in Lookup(Items, text)
      BY DEF ParseWith
  <2> QED BY <2>1, ListAssumption DEF Lookup
<1>3. words \in Seq(Range(items))
    BY Zenon, <1>2, KeptIsList
<1>4. v \in Each(results)
    BY Zenon, <1>1
<1> HIDE DEF words
<1>5. DOMAIN words = 1 .. Len(words) /\ Len(words) \in Nat
    BY <1>3, ListParts
<1>6. DOMAIN results = 1 .. Len(words)
    BY <1>5
<1> HIDE DEF results
<1>7. v = [i \in DOMAIN results |-> v[i]]
    BY <1>4, EachMember
<1>8. v = [i \in 1 .. Len(words) |-> v[i]]
    BY <1>6, <1>7
<1> QED BY <1>5, <1>8, IsList

(* Lemma: the peers are a list, and so are the prefixes of each. *)
LEMMA PeersAreList ==
    ASSUME NEW file \in DOMAIN Disk, NEW peers \in ParsePeers(Disk[file])
    PROVE  /\ Len(peers) \in Nat /\ DOMAIN peers = 1 .. Len(peers)
           /\ \A i \in 1 .. Len(peers) : peers[i].AllowedIPs \in Seq(Range(peers[i].AllowedIPs))
<1> DEFINE name == "Peer"
           s == SectionsByName(Disk[file], name)
           results == [i \in DOMAIN s |-> ParsePeer(s[i])]
<1>1. peers \in Each(results)
    BY DEF ParsePeers
<1>2. Len(s) \in Nat /\ DOMAIN s = 1 .. Len(s)
  <2> HIDE DEF name
  <2> QED BY SectionsAreList
<1> HIDE DEF s
<1>3. DOMAIN results = 1 .. Len(s) /\ \A i \in 1 .. Len(s) : results[i] = ParsePeer(s[i])
    BY <1>2
<1> HIDE DEF results
<1>4. peers = [i \in DOMAIN results |-> peers[i]] /\ \A i \in DOMAIN results : peers[i] \in results[i]
    BY <1>1, EachMember
<1>5. peers = [i \in 1 .. Len(s) |-> peers[i]]
    BY <1>3, <1>4
<1>6. Len(peers) = Len(s) /\ DOMAIN peers = 1 .. Len(s)
    BY <1>2, <1>5, IsList
<1>7. ASSUME NEW i \in 1 .. Len(peers) PROVE peers[i].AllowedIPs \in Seq(Range(peers[i].AllowedIPs))
  <2>1. peers[i] \in ParsePeer(s[i])
      BY <1>3, <1>4, <1>6
  <2>2. PICK ips \in ParseAllowedIPs(s[i]) : peers[i].AllowedIPs = ips
      BY SMTT(30), <2>1 DEF ParsePeer
  <2>3. ips \in Seq(Range(ips))
      BY ItemsAreList DEF ParseAllowedIPs
  <2> QED BY <2>2, <2>3
<1> QED BY <1>2, <1>6, <1>7

(* The lines about the interface: the private key, and some that the device *)
(* does not remember here.                                                  *)
Greets(head, key) ==
    /\ head \in Seq(Range(head)) /\ Len(head) \in 1 .. 3 /\ head[1] = <<"private_key", key>>
    /\ \A i \in 2 .. Len(head) : head[i][1] \in {"listen_port", "asec"}

(* Lemma: an optional line. *)
LEMMA OptionalLineIs ==
    ASSUME NEW k, NEW value
    PROVE  LET l == OptionalLine(k, value)
           IN l \in Seq(Range(l)) /\ Len(l) \in {0, 1} /\ (Len(l) = 1 => l[1][1] = k)
<1> DEFINE l == OptionalLine(k, value)
<1>1. CASE value = Nil
  <2>1. l = [i \in 1 .. 0 |-> l[i]] /\ 0 \in Nat
      BY <1>1 DEF OptionalLine
  <2> HIDE DEF l
  <2>2. Len(l) = 0 /\ l \in Seq(Range(l))
      BY <2>1, IsList
  <2> QED BY <2>2 DEF l
<1>2. CASE value # Nil
  <2>1. l = [i \in 1 .. 1 |-> l[i]] /\ 1 \in Nat /\ l[1][1] = k
      BY <1>2 DEF OptionalLine
  <2> HIDE DEF l
  <2>2. Len(l) = 1 /\ l \in Seq(Range(l))
      BY Zenon, <2>1, IsList
  <2> QED BY <2>1, <2>2 DEF l
<1> QED BY <1>1, <1>2

(* Lemma: a request is the lines about the interface and those about each   *)
(* peer.                                                                    *)
LEMMA RequestParts ==
    ASSUME NEW c
    PROVE  \E head : /\ Greets(head, c.Device.SecretKey)
                     /\ CreateIPCRequest(c) = head \o Flatten([i \in DOMAIN c.Peers |-> PeerLines(c.Peers[i])])
<1> DEFINE a == <<<<"private_key", c.Device.SecretKey>>>>
           p == OptionalLine("listen_port", c.Device.ListenPort)
           q == OptionalLine("asec", c.Device.ASecConfig)
           X == Range(a) \cup Range(p) \cup Range(q)
           ap == a \o p
           head == a \o p \o q
<1>1. a \in Seq(Range(a)) /\ Len(a) = 1 /\ a[1] = <<"private_key", c.Device.SecretKey>>
  <2>1. a = [i \in 1 .. 1 |-> a[i]] /\ 1 \in Nat /\ a[1] = <<"private_key", c.Device.SecretKey>>
      OBVIOUS
  <2> HIDE DEF a
  <2> QED BY Zenon, <2>1, IsList
<1>2. p \in Seq(Range(p)) /\ Len(p) \in {0, 1} /\ (Len(p) = 1 => p[1][1] = "listen_port")
    BY OptionalLineIs
<1>3. q \in Seq(Range(q)) /\ Len(q) \in {0, 1} /\ (Len(q) = 1 => q[1][1] = "asec")
    BY OptionalLineIs
<1>4. CreateIPCRequest(c) = head \o Flatten([i \in DOMAIN c.Peers |-> PeerLines(c.Peers[i])])
    BY DEF CreateIPCRequest
<1> HIDE DEF a, p, q
<1>5. a \in Seq(X) /\ p \in Seq(X) /\ q \in Seq(X)
  <2>1. Range(a) \subseteq X /\ Range(p) \subseteq X /\ Range(q) \subseteq X
      OBVIOUS
  <2> HIDE DEF X
  <2> QED BY <1>1, <1>2, <1>3, <2>1, ListOver
<1> HIDE DEF X
<1>6. /\ ap \in Seq(X) /\ Len(ap) = 1 + Len(p) /\ ap[1] = a[1]
      /\ (Len(p) = 1 => ap[2] = p[1])
  <2>1. /\ ap \in Seq(X) /\ Len(ap) = Len(a) + Len(p)
        /\ \A m \in 1 .. Len(a) : ap[m] = a[m]
        /\ \A r \in 1 .. Len(p) : ap[Len(a) + r] = p[r]
      BY <1>5, Joined
  <2> HIDE DEF ap
  <2> QED BY <1>1, <1>2, <2>1
<1>7. /\ head \in Seq(X) /\ Len(head) = Len(ap) + Len(q)
      /\ \A m \in 1 .. Len(ap) : head[m] = ap[m]
      /\ \A r \in 1 .. Len(q) : head[Len(ap) + r] = q[r]
  <2>1. head = ap \o q
      OBVIOUS
  <2> HIDE DEF ap, head
  <2>2. ap \in Seq(X) /\ q \in Seq(X)
      BY <1>5, <1>6
  <2>3. /\ ap \o q \in Seq(X) /\ Len(ap \o q) = Len(ap) + Len(q)
        /\ \A m \in 1 .. Len(ap) : (ap \o q)[m] = ap[m]
        /\ \A r \in 1 .. Len(q) : (ap \o q)[Len(ap) + r] = q[r]
      BY <2>2, Joined
  <2> QED BY <2>1, <2>3
<1>8. head \in Seq(Range(head))
    BY Zenon, <1>7, ListOfMembers
<1> HIDE DEF ap, head
<1>9. Len(head) \in 1 .. 3 /\ head[1] = a[1] /\ Len(ap) \in 1 .. 2
  <2>1. Len(ap) \in 1 .. 2
    <3>1. \A n \in {0, 1} : 1 + n \in 1 .. 2
        OBVIOUS
    <3> QED BY <1>2, <1>6, <3>1, Zenon
  <2>2. Len(head) \in 1 .. 3
    <3>1. \A m \in 1 .. 2, n \in {0, 1} : m + n \in 1 .. 3
        OBVIOUS
    <3>2. Len(head) = Len(ap) + Len(q) /\ Len(q) \in {0, 1}
        BY <1>3, <1>7
    <3> QED BY <2>1, <3>1, <3>2, Zenon
  <2>3. head[1] = ap[1]
    <3>1. 1 \in 1 .. Len(ap)
        BY <2>1
    <3> QED BY <1>7, <3>1, Zenon
  <2> QED BY <1>6, <2>1, <2>2, <2>3
<1>10. ASSUME NEW i \in 2 .. Len(head) PROVE head[i][1] \in {"listen_port", "asec"}
  <2>1. CASE i <= Len(ap)
    <3>1. i = 2 /\ Len(p) = 1
        BY <1>2, <1>6, <2>1
    <3>2. head[i] = p[1]
        BY <1>6, <1>7, <2>1, <3>1
    <3> QED BY <1>2, <3>1, <3>2
  <2>2. CASE ~ (i <= Len(ap))
    <3>1. i = Len(ap) + 1 /\ Len(q) = 1
      <4>1. \A l \in 1 .. 2, m \in {0, 1} : \A n \in 2 .. l + m : ~ (n <= l) => n = l + 1 /\ m = 1
          OBVIOUS
      <4>2. i \in 2 .. Len(ap) + Len(q) /\ Len(q) \in {0, 1} /\ Len(ap) \in 1 .. 2
          BY <1>3, <1>7, <1>9, Zenon
      <4> QED BY <2>2, <4>1, <4>2, Zenon
    <3>2. head[i] = q[1]
        BY SMTT(30), <1>7, <3>1
    <3> QED BY <1>3, <3>1, <3>2
  <2> QED BY <2>1, <2>2
<1> QED BY Zenon, <1>1, <1>4, <1>8, <1>9, <1>10 DEF Greets

(* Lemma: after the lines about the interface the device has the key and no *)
(* peer.                                                                    *)
LEMMA HeadTold ==
    ASSUME NEW key, NEW head, Greets(head, key), NEW after, after[0] = NoDevice,
           \A i \in 1 .. Len(head) : after[i] = IpcLine(after[i - 1], head[i]), NEW peers
    PROVE  Told(after[Len(head)], key, peers, 0)
<1>1. after[1] = IpcLine(NoDevice, <<"private_key", key>>)
  <2>1. 1 \in 1 .. Len(head) /\ 1 - 1 = 0 /\ head[1] = <<"private_key", key>>
      BY DEF Greets
  <2> QED BY <2>1
<1>2. IsDevice(NoDevice) /\ NoDevice.psk = <<>> /\ NoDevice.route = <<>>
    BY DEF IsDevice, NoDevice
<1>3. /\ IsDevice(after[1]) /\ after[1].key = key /\ after[1].psk = <<>> /\ after[1].route = <<>>
  <2> DEFINE new == IpcLine(NoDevice, <<"private_key", key>>)
  <2>1. IsDevice(new) /\ new.key = key /\ new.psk = NoDevice.psk /\ new.route = NoDevice.route
      BY <1>2, PrivateKeyLine, SMTT(30)
  <2> HIDE DEF new
  <2>2. after[1] = new
      BY <1>1 DEF new
  <2> QED BY <1>2, <2>1, <2>2, Zenon
<1>4. ASSUME NEW i \in 2 .. Len(head) PROVE after[i] = after[i - 1]
  <2>1. i \in 1 .. Len(head) /\ head[i][1] \in {"listen_port", "asec"}
      BY DEF Greets
  <2>2. head[i][1] \notin {"private_key", "public_key", "preshared_key", "allowed_ip"}
      BY <2>1
  <2> QED BY <2>1, <2>2, OtherLine
<1>5. after[Len(head)] = after[1]
  <2>1. CASE Len(head) = 1
      BY <2>1
  <2>2. CASE Len(head) = 2
      BY <1>4, <2>2
  <2>3. CASE Len(head) = 3
    <3>1. 2 \in 2 .. Len(head) /\ 3 \in 2 .. Len(head) /\ 2 - 1 = 1 /\ 3 - 1 = 2
        BY <2>3
    <3>2. after[2] = after[1] /\ after[3] = after[2]
        BY <1>4, <3>1
    <3> QED BY <2>3, <3>2
  <2>4. Len(head) = 1 \/ Len(head) = 2 \/ Len(head) = 3
      BY DEF Greets
  <2> QED BY <2>1, <2>2, <2>3, <2>4
<1>6. \A claims, values : Follows(<<>>, 0, claims, values)
  <2>1. 1 .. 0 = {}
      BY SMTT(30)
  <2> QED BY <2>1 DEF Follows
<1> QED BY <1>3, <1>5, <1>6 DEF Told

(* Lemma: what the device knows when it has read the whole request.         *)
LEMMA DeviceTold ==
    ASSUME NEW c, NEW peers, peers = c.Peers, Len(peers) \in Nat, DOMAIN peers = 1 .. Len(peers),
           \A i \in 1 .. Len(peers) : peers[i].AllowedIPs \in Seq(Range(peers[i].AllowedIPs))
    PROVE  Told(IpcSet(CreateIPCRequest(c)), c.Device.SecretKey, peers, Len(peers))
<1> DEFINE key == c.Device.SecretKey
           N == Len(peers)
           lists == [i \in DOMAIN peers |-> PeerLines(peers[i])]
           lines == CreateIPCRequest(c)
           body == Flatten(lists)
<1>1. PICK head : Greets(head, key) /\ lines = head \o body
    BY Zenon, RequestParts
<1> HIDE DEF lines
<1> DEFINE X == Range(head) \cup UNION {Range(lists[i]) : i \in 1 .. N}
           h == Len(head)
<1>2. Len(lists) = N
    OBVIOUS
<1>3. ASSUME NEW i \in 1 .. N PROVE lists[i] = PeerLines(peers[i]) /\ lists[i] \in Seq(Range(lists[i])) /\ Len(lists[i]) \in Nat
  <2>1. lists[i] = PeerLines(peers[i])
      OBVIOUS
  <2>2. PeerLines(peers[i]) \in Seq(Range(PeerLines(peers[i])))
      BY PeerLinesAre
  <2>3. Len(PeerLines(peers[i])) \in Nat
      BY <2>2, ListParts
  <2> QED BY <2>1, <2>2, <2>3
<1> HIDE DEF lists
<1>4. ASSUME NEW i \in 1 .. N PROVE lists[i] \in Seq(X)
  <2>1. Range(lists[i]) \subseteq X
      OBVIOUS
  <2> HIDE DEF X
  <2> QED BY <1>3, <2>1, ListOver
<1>5. head \in Seq(X)
  <2>1. Range(head) \subseteq X
      OBVIOUS
  <2> HIDE DEF X
  <2> QED BY <1>1, <2>1, ListOver DEF Greets
<1> HIDE DEF X
<1>6. PICK f : IsFlattening(f, lists, X)
    BY Zenon, <1>2, <1>4, Flattening
<1>7. body \in Seq(X) /\ body = f[N] /\ f[0] = <<>>
    BY <1>2, <1>6 DEF IsFlattening
<1> HIDE DEF body
<1>8. /\ lines \in Seq(X) /\ h \in Nat /\ Len(body) \in Nat /\ Len(lines) = h + Len(body)
      /\ \A m \in 1 .. h : lines[m] = head[m]
      /\ \A r \in 1 .. Len(body) : lines[h + r] = body[r]
    BY <1>1, <1>5, <1>7, Joined
<1> HIDE DEF h
<1>9. PICK after : /\ after[0] = NoDevice
                   /\ \A i \in 1 .. Len(lines) : after[i] = IpcLine(after[i - 1], lines[i])
                   /\ IpcSet(lines) = after[Len(lines)]
  <2>1. Len(lines) \in Nat
      BY <1>8
  <2> QED BY <2>1, IpcParts
<1> DEFINE S == {n \in 0 .. N : Told(after[h + Len(f[n])], key, peers, n)}
<1>10. 0 \in S
  <2>1. \A i \in 1 .. Len(head) : after[i] = IpcLine(after[i - 1], head[i])
    <3>1. ASSUME NEW i \in 1 .. h PROVE after[i] = IpcLine(after[i - 1], head[i])
      <4>1. i \in 1 .. Len(lines) /\ lines[i] = head[i]
          BY <1>8
      <4> QED BY <1>9, <4>1
    <3> QED BY <3>1 DEF h
  <2>2. Told(after[h], key, peers, 0)
    <3> HIDE DEF key
    <3> QED BY Zenon, <1>1, <1>9, <2>1, HeadTold DEF h
  <2>3. h + Len(f[0]) = h
      BY <1>7, <1>8
  <2> QED BY <2>2, <2>3
<1>11. ASSUME NEW n \in 1 .. N, n - 1 \in S PROVE n \in S
  <2> DEFINE e == h + Len(f[n - 1])
             part == PeerLines(peers[n])
  <2>1. /\ Len(f[n - 1]) \in Nat /\ Len(f[n]) = Len(f[n - 1]) + Len(part)
        /\ \A r \in 1 .. Len(part) : f[n][Len(f[n - 1]) + r] = part[r]
    <3>1. n - 1 \in 0 .. Len(lists) /\ n \in 1 .. Len(lists)
        BY <1>2
    <3>2. Len(f[n - 1]) \in Nat
        BY <1>2, <1>6, <3>1, FlattenWhole
    <3>3. /\ Len(f[n]) = Len(f[n - 1]) + Len(lists[n])
          /\ \A r \in 1 .. Len(lists[n]) : f[n][Len(f[n - 1]) + r] = lists[n][r]
        BY <1>6, <3>1, Zenon DEF IsFlattening
    <3>4. lists[n] = part
        BY <1>3
    <3> QED BY <3>2, <3>3, <3>4, Zenon
  <2>2. Len(part) \in Nat
      BY <1>3
  <2>3. /\ Len(f[n]) <= Len(body)
        /\ \A m \in 1 .. Len(f[n]) : body[m] = f[n][m]
    <3>1. n \in 0 .. Len(lists)
        BY <1>2
    <3> QED BY <1>2, <1>6, <3>1, FlattenWhole DEF body
  <2> HIDE DEF part
  <2> HIDE DEF e
  <2>4. ASSUME NEW r \in 1 .. Len(part) PROVE after[e + r] = IpcLine(after[e + r - 1], part[r])
    <3> DEFINE m == Len(f[n - 1]) + r
               k == e + r
    <3>1. m \in 1 .. Len(f[n]) /\ m \in 1 .. Len(body) /\ k = h + m
      <4>1. /\ Len(f[n - 1]) \in Nat /\ Len(part) \in Nat /\ h \in Nat /\ Len(body) \in Nat
            /\ Len(f[n - 1]) + Len(part) <= Len(body) /\ Len(f[n]) = Len(f[n - 1]) + Len(part)
          BY <1>8, <2>1, <2>2, <2>3, Zenon
      <4>2. /\ m \in 1 .. Len(f[n - 1]) + Len(part) /\ m \in 1 .. Len(body)
            /\ h + Len(f[n - 1]) + r = h + m
          BY <4>1
      <4>3. k = h + Len(f[n - 1]) + r
          BY DEF e
      <4> QED BY <4>1, <4>2, <4>3, Zenon
    <3>2. f[n][m] = part[r]
        BY <2>1
    <3> HIDE DEF m
    <3>3. h + m \in 1 .. Len(lines)
        BY <1>8, <3>1
    <3>4. body[m] = f[n][m]
        BY <2>3, <3>1, Zenon
    <3>5. lines[h + m] = body[m]
        BY <1>8, <3>1, Zenon
    <3>6. k = h + m
        BY <3>1
    <3> HIDE DEF k
    <3>7. k \in 1 .. Len(lines) /\ lines[k] = part[r]
        BY <3>2, <3>3, <3>4, <3>5, <3>6
    <3>8. after[k] = IpcLine(after[k - 1], lines[k])
        BY <1>9, <3>7
    <3>9. after[k] = IpcLine(after[k - 1], part[r])
        BY <3>7, <3>8
    <3>10. k - 1 = e + r - 1
      <4>1. e \in Nat /\ r \in Nat
          BY <1>8, <2>1, <2>2 DEF e
      <4> QED BY <4>1 DEF k
    <3>11. k = e + r
        BY DEF k
    <3> QED BY <3>9, <3>10, <3>11, Zenon
  <2>5. Applied(after, e, part, Len(part))
      BY <2>4 DEF Applied
  <2>6. e \in Nat /\ e + Len(part) = h + Len(f[n])
      BY <1>8, <2>1, <2>2 DEF e
  <2>7. Told(after[e], key, peers, n - 1)
      BY <1>11 DEF e
  <2> HIDE DEF key
  <2>8. Told(after[e + Len(part)], key, peers, n)
      BY Zenon, <2>5, <2>6, <2>7, PeerTold DEF part
  <2>9. Told(after[h + Len(f[n])], key, peers, n)
      BY <2>6, <2>8
  <2> QED BY <2>9
<1>12. N \in S
  <2> HIDE DEF S
  <2>1. \A n \in 0 .. N : n \in S
      BY Zenon, <1>10, <1>11, UpTo
  <2> QED BY <2>1
<1> QED BY <1>7, <1>8, <1>9, <1>12 DEF lines

(* Lemma: the last index in a set is the only one with none after it. *)
LEMMA OnlyLast ==
    ASSUME NEW n \in Nat, NEW S, NEW i \in 1 .. n, i \in S, \A j \in i + 1 .. n : j \notin S,
           NEW m \in 1 .. n, m \in S, \A j \in m + 1 .. n : j \notin S
    PROVE  m = i
<1>1. ~ (m \in i + 1 .. n) /\ ~ (i \in m + 1 .. n)
    OBVIOUS
<1> QED BY <1>1

(* The device that is told of a configuration reflects it: every private    *)
(* key, prefix and preshared key of the file gets there, and where sections *)
(* disagree the last one wins (wireguard.go:26).                            *)
THEOREM DeviceOfConfig ==
    ASSUME NEW path, NEW c \in ParseConfig(path)
    PROVE  Reflects(IpcSet(CreateIPCRequest(c)), c)
<1> DEFINE dev == IpcSet(CreateIPCRequest(c))
           peers == c.Peers
           N == Len(peers)
           claims(peer) == IF peer.AllowedIPs = <<>> THEN Range(Defaults) ELSE Range(peer.AllowedIPs)
<1>1. /\ N \in Nat /\ DOMAIN peers = 1 .. N
      /\ \A i \in 1 .. N : peers[i].AllowedIPs \in Seq(Range(peers[i].AllowedIPs))
  <2>1. PICK file \in DOMAIN Disk : peers \in ParsePeers(Disk[file])
      BY SMTT(30), ConfigParts
  <2> HIDE DEF peers
  <2> QED BY <2>1, PeersAreList
<1>2. Told(dev, c.Device.SecretKey, peers, N)
  <2>1. peers = c.Peers
      OBVIOUS
  <2> HIDE DEF peers
  <2> QED BY <1>1, <2>1, DeviceTold
<1>3. \A i \in 1 .. N : Claims(peers)[i] = claims(peers[i])
    BY <1>1 DEF Claims, Offered
<1> HIDE DEF claims
<1>4. /\ \A i \in 1 .. N : PublicKeys(peers)[i] = peers[i].PublicKey
      /\ \A i \in 1 .. N : Named(peers)[i] = {peers[i].PublicKey}
      /\ \A i \in 1 .. N : PreSharedKeys(peers)[i] = peers[i].PreSharedKey
    BY <1>1 DEF PublicKeys, Named, PreSharedKeys
<1> HIDE DEF dev
<1>5. DOMAIN dev.route = UNION {claims(peers[i]) : i \in DOMAIN peers}
  <2>1. DOMAIN dev.route = UNION {Claims(peers)[i] : i \in 1 .. N}
      BY <1>2 DEF Told, Follows
  <2> QED BY SMTT(30), <1>1, <1>3, <2>1
<1>6. ASSUME NEW prefix \in DOMAIN dev.route
      PROVE  dev.route[prefix] = peers[CHOOSE i \in DOMAIN peers : prefix \in claims(peers[i]) /\
                                           \A j \in i + 1 .. Len(peers) : ~ (prefix \in claims(peers[j]))].PublicKey
  <2> DEFINE S == {i \in 1 .. N : prefix \in claims(peers[i])}
             L(i) == prefix \in claims(peers[i]) /\ \A j \in i + 1 .. Len(peers) : ~ (prefix \in claims(peers[j]))
  <2>1. PICK i \in 1 .. N : /\ prefix \in Claims(peers)[i]
                            /\ \A j \in i + 1 .. N : prefix \notin Claims(peers)[j]
                            /\ dev.route[prefix] = PublicKeys(peers)[i]
      BY <1>2 DEF Told, Follows
  <2>2. \A j \in i + 1 .. N : j \in 1 .. N
      BY SMTT(30), <1>1
  <2>3. i \in S /\ (\A j \in i + 1 .. N : j \notin S) /\ L(i)
      BY <1>3, <2>1, <2>2
  <2>4. ASSUME NEW m \in DOMAIN peers, L(m) PROVE m = i
    <3>1. m \in 1 .. N /\ m \in S /\ \A j \in m + 1 .. N : j \notin S
        BY SMTT(30), <1>1, <2>4
    <3> HIDE DEF S, L, N
    <3> QED BY <1>1, <2>3, <3>1, OnlyLast
  <2>5. i \in DOMAIN peers /\ dev.route[prefix] = peers[i].PublicKey
      BY <1>1, <1>4, <2>1
  <2> HIDE DEF L
  <2>6. (CHOOSE m \in DOMAIN peers : L(m)) = i
      BY <2>3, <2>4, <2>5, Zenon
  <2>7. dev.route[prefix] = peers[CHOOSE m \in DOMAIN peers : L(m)].PublicKey
      BY <2>5, <2>6, Zenon
  <2> QED BY SMTT(30), <2>7 DEF L
<1>7. ASSUME NEW k \in DOMAIN peers
      PROVE  dev.psk[peers[k].PublicKey] =
                 peers[CHOOSE i \in DOMAIN peers : peers[i].PublicKey = peers[k].PublicKey /\
                          \A j \in i + 1 .. Len(peers) : ~ (peers[j].PublicKey = peers[k].PublicKey)].PreSharedKey
  <2> DEFINE key == peers[k].PublicKey
             S == {i \in 1 .. N : peers[i].PublicKey = key}
             L(i) == peers[i].PublicKey = key /\ \A j \in i + 1 .. Len(peers) : ~ (peers[j].PublicKey = key)
  <2>1. key \in DOMAIN dev.psk
    <3>1. k \in 1 .. N /\ key \in Named(peers)[k]
        BY Zenon, <1>1, <1>4
    <3>2. DOMAIN dev.psk = UNION {Named(peers)[i] : i \in 1 .. N}
        BY Zenon, <1>2 DEF Told, Follows
    <3> HIDE DEF key, N
    <3> QED BY <3>1, <3>2
  <2> HIDE DEF key
  <2>2. PICK i \in 1 .. N : /\ key \in Named(peers)[i]
                            /\ \A j \in i + 1 .. N : key \notin Named(peers)[j]
                            /\ dev.psk[key] = PreSharedKeys(peers)[i]
      BY <1>2, <2>1 DEF Told, Follows
  <2>3. \A j \in i + 1 .. N : j \in 1 .. N
      BY SMTT(30), <1>1
  <2>4. i \in S /\ (\A j \in i + 1 .. N : j \notin S) /\ L(i)
      BY ZenonT(40), <1>4, <2>2, <2>3
  <2>5. ASSUME NEW m \in DOMAIN peers, L(m) PROVE m = i
    <3>1. m \in 1 .. N /\ m \in S /\ \A j \in m + 1 .. N : j \notin S
        BY SMTT(30), <1>1, <2>5
    <3> HIDE DEF S, L, N
    <3> QED BY <1>1, <2>4, <3>1, OnlyLast
  <2>6. i \in DOMAIN peers /\ dev.psk[key] = peers[i].PreSharedKey
      BY <1>1, <1>4, <2>2
  <2> HIDE DEF L
  <2>7. (CHOOSE m \in DOMAIN peers : L(m)) = i
      BY <2>4, <2>5, <2>6, Zenon
  <2>8. dev.psk[key] = peers[CHOOSE m \in DOMAIN peers : L(m)].PreSharedKey
      BY <2>6, <2>7, Zenon
  <2> QED BY <2>8, Zenon DEF L, key
<1>8. dev.key = c.Device.SecretKey
    BY <1>2 DEF Told
<1> QED BY <1>5, <1>6, <1>7, <1>8, Zenon DEF Reflects, dev, claims
=============================================================================

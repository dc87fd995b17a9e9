-------------------------- MODULE WebClientProofs --------------------------
(***************************************************************************)
(* Proofs about module WebClient: the types; that a logout stays a logout  *)
(* in every tab; that access tokens may expire without signing the user    *)
(* out; and that nobody is held back behind a refresh that is gone.        *)
(***************************************************************************)
EXTENDS WebClient, SequenceTheorems, WellFoundedInduction, TLAPS

USE WebClientAssumption

----------------------------------------------------------------------------
(* Lists of requests.                                                      *)

\* A set of numbers has a smallest one; every induction below is its use.
LEMMA Smallest ==
  ASSUME NEW T, T \subseteq Nat, T # {}
  PROVE  \E m \in T : \A n \in T : ~(n < m)
<1>1. PICK m \in T : \A n \in T : <<n, m>> \notin OpToRel(<, Nat)
  BY WFMin, NatLessThanWellFounded, Zenon
<1>2. \A n \in T : ~(n < m)
  BY <1>1 DEF OpToRel
<1> QED BY <1>2

\* One step of the recursion in Only.
Kept(s, R, n, g) ==
  IF n = 0 THEN <<>> ELSE IF s[n] \in R THEN Append(g[n - 1], s[n]) ELSE g[n - 1]
\* g is that recursion up to n.
Recursion(s, R, n, g) ==
  g = [k \in 0..n |-> Kept(s, R, k, g)]

LEMMA RecursionExists ==
  ASSUME NEW s, NEW R, NEW n \in Nat
  PROVE  \E g : Recursion(s, R, n, g)
<1> DEFINE T == {k \in Nat : ~\E g : Recursion(s, R, k, g)}
<1>1. SUFFICES ASSUME T # {} PROVE FALSE
  OBVIOUS
<1>2. PICK m \in T : \A k \in T : ~(k < m)
  BY <1>1, Smallest
<1>3. m \in Nat /\ ~\E g : Recursion(s, R, m, g)
  OBVIOUS
<1>4. CASE m = 0
  <2> DEFINE g == [k \in 0..0 |-> <<>>]
  <2>1. g = [k \in 0..0 |-> Kept(s, R, k, g)]
    BY DEF Kept
  <2> QED BY <1>3, <1>4, <2>1 DEF Recursion
<1>5. CASE m # 0
  <2>1. m - 1 \in Nat /\ m - 1 \notin T
    BY <1>2, <1>3, <1>5
  <2>2. PICK g : Recursion(s, R, m - 1, g)
    BY <2>1
  <2> DEFINE x == IF s[m] \in R THEN Append(g[m - 1], s[m]) ELSE g[m - 1]
             h == [k \in 0..m |-> IF k = m THEN x ELSE g[k]]
  <2>3. \A k \in 0..(m - 1) : g[k] = Kept(s, R, k, g)
    BY <2>1, <2>2 DEF Recursion
  <2>4. \A k \in 0..m : h[k] = Kept(s, R, k, h)
    <3> SUFFICES ASSUME NEW k \in 0..m PROVE h[k] = Kept(s, R, k, h)
      OBVIOUS
    <3>1. CASE k = m
      <4>1. h[k] = x /\ h[k - 1] = g[m - 1]
        BY <1>3, <1>5, <3>1
      <4> QED BY <1>5, <3>1, <4>1 DEF Kept
    <3>2. CASE k # m
      <4>1. k \in 0..(m - 1) /\ h[k] = g[k]
        BY <1>3, <3>2
      <4>2. k # 0 => h[k - 1] = g[k - 1]
        BY <1>3, <3>2
      <4> HIDE DEF h
      <4> QED BY <2>3, <4>1, <4>2 DEF Kept
    <3> QED BY <3>1, <3>2
  <2>5. h = [k \in 0..m |-> Kept(s, R, k, h)]
    <3>1. \A f : f = [k \in 0..m |-> f[k]] /\ (\A k \in 0..m : f[k] = Kept(s, R, k, f))
                   => f = [k \in 0..m |-> Kept(s, R, k, f)]
      OBVIOUS
    <3>2. h = [k \in 0..m |-> h[k]]
      OBVIOUS
    <3> HIDE DEF h
    <3> QED BY <2>4, <3>1, <3>2
  <2> QED BY <1>3, <2>5 DEF Recursion
<1> QED BY <1>4, <1>5

\* The list is some of the requests of s: h says where each of them was.
Picks(s, R, n, out, h) ==
  /\ h \in [DOMAIN out -> 1..n]
  /\ \A j \in DOMAIN out : out[j] = s[h[j]] /\ s[h[j]] \in R
  /\ \A j, k \in DOMAIN out : h[j] = h[k] => j = k
  /\ \A k \in 1..n : s[k] \in R => \E j \in DOMAIN out : h[j] = k

\* What Only returns.
LEMMA OnlyFacts ==
  ASSUME NEW S, NEW s \in Seq(S), NEW R
  PROVE  /\ Only(s, R) \in Seq(S)
         /\ \E h : Picks(s, R, Len(s), Only(s, R), h)
<1> DEFINE f == CHOOSE g : g = [n \in 0..Len(s) |->
                   IF n = 0 THEN <<>>
                   ELSE IF s[n] \in R THEN Append(g[n - 1], s[n]) ELSE g[n - 1]]
<1>0. Len(s) \in Nat /\ DOMAIN s = 1..Len(s)
  OBVIOUS
<1>1. Recursion(s, R, Len(s), f)
  <2>1. \E g : Recursion(s, R, Len(s), g)
    BY <1>0, RecursionExists
  <2> QED BY <2>1 DEF Recursion, Kept
<1>2. \A n \in 0..Len(s) : f[n] = Kept(s, R, n, f)
  <2> HIDE DEF f
  <2> QED BY <1>1 DEF Recursion
<1>3. Only(s, R) = f[Len(s)]
  BY DEF Only
<1> HIDE DEF f
<1> DEFINE Good(n) == f[n] \in Seq(S) /\ \E h : Picks(s, R, n, f[n], h)
           T == {n \in Nat : n <= Len(s) /\ ~Good(n)}
<1>4. SUFFICES ASSUME T # {} PROVE FALSE
  BY <1>0, <1>3
<1>5. PICK m \in T : \A k \in T : ~(k < m)
  BY <1>4, Smallest
<1>6. m \in 0..Len(s) /\ ~Good(m)
  BY <1>0
<1>7. CASE m = 0
  <2>1. f[m] = <<>>
    BY <1>2, <1>6, <1>7 DEF Kept
  <2>2. Picks(s, R, m, f[m], <<>>)
    BY <1>7, <2>1 DEF Picks
  <2> QED BY <1>6, <2>1, <2>2
<1>8. CASE m # 0
  <2>1. m - 1 \in 0..Len(s) /\ m \in 1..Len(s) /\ m - 1 \notin T
    BY <1>0, <1>5, <1>6, <1>8
  <2>2. Good(m - 1)
    BY <1>0, <2>1
  <2>3. PICK g : g = f[m - 1]
    OBVIOUS
  <2>4. PICK h : Picks(s, R, m - 1, g, h)
    BY <2>2, <2>3
  <2>5. g \in Seq(S) /\ s[m] \in S /\ m \in Nat \ {0}
    BY <1>0, <2>1, <2>2, <2>3
  <2>6. CASE s[m] \in R
    <3>1. f[m] = Append(g, s[m])
      BY <1>2, <1>6, <1>8, <2>3, <2>6 DEF Kept
    <3> DEFINE n == Len(g)
               e == [j \in 1..(n + 1) |-> IF j = n + 1 THEN m ELSE h[j]]
               out == Append(g, s[m])
    <3>2. n \in Nat /\ DOMAIN g = 1..n /\ DOMAIN out = 1..(n + 1) /\ out \in Seq(S)
      BY <2>5
    <3>3. \A j \in 1..n : out[j] = g[j]
      BY <2>5
    <3>3a. out[n + 1] = s[m]
      BY <2>5
    <3> HIDE DEF out, n
    <3>4. \A j \in 1..n : e[j] = h[j] /\ h[j] \in 1..(m - 1)
      BY <2>4, <2>5, <3>2 DEF Picks
    <3>4a. \A j \in 1..(n + 1) : j = n + 1 \/ j \in 1..n
      BY <3>2
    <3>4b. n + 1 \in 1..(n + 1) /\ e[n + 1] = m
      BY <3>2
    <3>4c. \A j \in 1..(n + 1) : e[j] \in 1..m
      <4>1. \A x \in 1..(m - 1) : x \in 1..m
        BY <2>5
      <4>2. m \in 1..m
        BY <2>5
      <4> HIDE DEF e
      <4> QED BY <3>4, <3>4a, <3>4b, <4>1, <4>2
    <3>4d. e = [j \in 1..(n + 1) |-> e[j]]
      OBVIOUS
    <3>5. e \in [1..(n + 1) -> 1..m] /\ e[n + 1] = m
      <4> HIDE DEF e
      <4> QED BY <3>4b, <3>4c, <3>4d
    <3> HIDE DEF e
    <3>6. \A j \in 1..(n + 1) : out[j] = s[e[j]] /\ s[e[j]] \in R
      <4> SUFFICES ASSUME NEW j \in 1..(n + 1) PROVE out[j] = s[e[j]] /\ s[e[j]] \in R
        OBVIOUS
      <4>1. CASE j = n + 1
        BY <2>6, <3>3a, <3>5, <4>1
      <4>2. CASE j \in 1..n
        <5>1. g[j] = s[h[j]] /\ s[h[j]] \in R
          BY <2>4, <3>2, <4>2 DEF Picks
        <5> QED BY <3>3, <3>4, <4>2, <5>1
      <4> QED BY <3>4a, <4>1, <4>2
    <3>7. \A j, k \in 1..(n + 1) : e[j] = e[k] => j = k
      <4> SUFFICES ASSUME NEW j \in 1..(n + 1), NEW k \in 1..(n + 1), e[j] = e[k] PROVE j = k
        OBVIOUS
      <4>1. CASE j \in 1..n /\ k \in 1..n
        BY <2>4, <3>2, <3>4, <4>1 DEF Picks
      <4>2. CASE j = n + 1 \/ k = n + 1
        BY <2>5, <3>2, <3>4, <3>5, <4>2
      <4> QED BY <3>2, <4>1, <4>2
    <3>8. \A k \in 1..m : s[k] \in R => \E j \in 1..(n + 1) : e[j] = k
      <4> SUFFICES ASSUME NEW k \in 1..m, s[k] \in R PROVE \E j \in 1..(n + 1) : e[j] = k
        OBVIOUS
      <4>1. CASE k = m
        BY <3>2, <3>5, <4>1
      <4>2. CASE k # m
        <5>1. k \in 1..(m - 1)
          BY <2>5, <4>2
        <5>2. PICK j \in 1..n : h[j] = k
          BY <2>4, <3>2, <5>1 DEF Picks
        <5>3. j \in 1..(n + 1) /\ e[j] = k
          BY <3>2, <3>4, <5>2
        <5> QED BY <5>3
      <4> QED BY <4>1, <4>2
    <3>9. Picks(s, R, m, out, e)
      BY <3>2, <3>5, <3>6, <3>7, <3>8 DEF Picks
    <3>10. f[m] = out
      BY <3>1 DEF out
    <3> QED BY <1>6, <3>2, <3>9, <3>10
  <2>7. CASE s[m] \notin R
    <3>1. f[m] = g
      BY <1>2, <1>6, <1>8, <2>3, <2>7 DEF Kept
    <3>2. Picks(s, R, m, g, h)
      <4>1. 1..(m - 1) \subseteq 1..m /\ \A k \in 1..m : k = m \/ k \in 1..(m - 1)
        BY <2>5
      <4> QED BY <2>4, <2>7, <4>1 DEF Picks
    <3> QED BY <1>6, <2>5, <3>1, <3>2
  <2> QED BY <2>6, <2>7
<1> QED BY <1>7, <1>8

\* The place, before request k was removed, of the request now at j.
Old(k, j) == IF j < k THEN j ELSE j + 1

\* What RemoveAt leaves.
LEMMA RemoveAtFacts ==
  ASSUME NEW S, NEW s \in Seq(S), NEW i \in DOMAIN s
  PROVE  /\ RemoveAt(s, i) \in Seq(S) /\ Len(RemoveAt(s, i)) = Len(s) - 1
         /\ \A j \in 1..(Len(s) - 1) : RemoveAt(s, i)[j] = s[Old(i, j)]
<1>1. i \in 1..Len(s) /\ Len(s) \in Nat
  OBVIOUS
<1>2. SubSeq(s, 1, i - 1) \in Seq(S) /\ Len(SubSeq(s, 1, i - 1)) = i - 1
      /\ \A j \in 1..(i - 1) : SubSeq(s, 1, i - 1)[j] = s[j]
  BY <1>1
<1>3. SubSeq(s, i + 1, Len(s)) \in Seq(S) /\ Len(SubSeq(s, i + 1, Len(s))) = Len(s) - i
      /\ \A j \in 1..(Len(s) - i) : SubSeq(s, i + 1, Len(s))[j] = s[i + j]
  BY <1>1
<1> DEFINE a == SubSeq(s, 1, i - 1)
           b == SubSeq(s, i + 1, Len(s))
<1>4. PICK n \in Nat : n = Len(s)
  BY <1>1
<1> HIDE DEF a, b
<1>5. a \in Seq(S) /\ Len(a) = i - 1 /\ \A j \in 1..(i - 1) : a[j] = s[j]
  BY <1>2 DEF a
<1>6. b \in Seq(S) /\ Len(b) = n - i /\ \A j \in 1..(n - i) : b[j] = s[i + j]
  BY <1>3, <1>4 DEF b
<1>7. RemoveAt(s, i) = a \o b
  BY DEF RemoveAt, a, b
<1>8. a \o b \in Seq(S) /\ Len(a \o b) = n - 1
  <2>1. a \o b \in Seq(S) /\ Len(a \o b) = Len(a) + Len(b)
    BY <1>5, <1>6, ConcatProperties
  <2>2. (i - 1) + (n - i) = n - 1
    BY <1>1, <1>4
  <2> QED BY <2>1, <2>2, <1>5, <1>6
<1>9. ASSUME NEW j \in 1..(n - 1) PROVE (a \o b)[j] = s[Old(i, j)]
  <2>1. CASE j < i
    <3>1. (a \o b)[j] = a[j]
      BY <1>1, <1>4, <1>5, <1>6, <2>1
    <3> QED BY <3>1, <1>1, <1>4, <1>5, <2>1 DEF Old
  <2>2. CASE ~(j < i)
    <3>1. (a \o b)[j] = b[j - (i - 1)]
      BY <1>1, <1>4, <1>5, <1>6, <2>2
    <3>2. j - (i - 1) \in 1..(n - i) /\ i + (j - (i - 1)) = j + 1
      BY <1>1, <1>4, <2>2
    <3>3. b[j - (i - 1)] = s[i + (j - (i - 1))]
      BY <3>2, <1>6
    <3> QED BY <3>1, <3>2, <3>3, <2>2 DEF Old
  <2> QED BY <2>1, <2>2
<1> QED BY <1>4, <1>7, <1>8, <1>9

\* Where each request of out was in s, 0 for a new one; those outside of gone are left.
Places(s, out, gone, h) ==
  /\ h \in [DOMAIN out -> (DOMAIN s \ gone) \cup {0}]
  /\ \A j, k \in DOMAIN out : h[j] = h[k] => j = k
  /\ \A k \in DOMAIN s \ gone : \E j \in DOMAIN out : h[j] = k

\* Nothing is new; or x is.
Left(S, s, out, gone) ==
  /\ out \in Seq(S)
  /\ \E h : /\ Places(s, out, gone, h)
            /\ \A j \in DOMAIN out : h[j] # 0 /\ out[j] = s[h[j]]
Added(S, s, out, gone, x) ==
  /\ out \in Seq(S)
  /\ \E h : /\ Places(s, out, gone, h)
            /\ \A j \in DOMAIN out : \/ h[j] # 0 /\ out[j] = s[h[j]]
                                     \/ h[j] = 0 /\ out[j] = x

LEMMA RemovePlaces ==
  ASSUME NEW S, NEW s \in Seq(S), NEW i \in DOMAIN s
  PROVE  Left(S, s, RemoveAt(s, i), {i})
<1> DEFINE out == RemoveAt(s, i)
           n == Len(s)
           h == [j \in 1..(n - 1) |-> Old(i, j)]
<1>1. n \in Nat \ {0} /\ i \in 1..n /\ DOMAIN s = 1..n
  OBVIOUS
<1>2. out \in Seq(S) /\ DOMAIN out = 1..(n - 1) /\ \A j \in 1..(n - 1) : out[j] = s[Old(i, j)]
  <2>1. out \in Seq(S) /\ Len(out) = n - 1 /\ \A j \in 1..(n - 1) : out[j] = s[Old(i, j)]
    BY RemoveAtFacts
  <2> HIDE DEF out, n
  <2> QED BY <2>1
<1> HIDE DEF out, n
<1>3. \A j \in 1..(n - 1) : h[j] = Old(i, j) /\ Old(i, j) \in 1..n /\ Old(i, j) # i
  BY <1>1 DEF Old
<1>4. \A j, k \in 1..(n - 1) : Old(i, j) = Old(i, k) => j = k
  BY <1>1 DEF Old
<1>5. ASSUME NEW k \in 1..n, k # i PROVE \E j \in 1..(n - 1) : Old(i, j) = k
  <2>1. CASE k < i
    BY <1>1, <2>1 DEF Old
  <2>2. CASE k > i
    <3>1. k - 1 \in 1..(n - 1) /\ Old(i, k - 1) = k
      BY <1>1, <2>2 DEF Old
    <3> QED BY <3>1
  <2> QED BY <1>1, <1>5, <2>1, <2>2
<1>6. DOMAIN h = 1..(n - 1) /\ h = [j \in 1..(n - 1) |-> h[j]]
  OBVIOUS
<1> HIDE DEF h
<1>7. Places(s, out, {i}, h)
  BY <1>1, <1>2, <1>3, <1>4, <1>5, <1>6 DEF Places
<1>8. \A j \in DOMAIN out : h[j] # 0 /\ out[j] = s[h[j]]
  BY <1>1, <1>2, <1>3
<1> QED BY <1>2, <1>7, <1>8 DEF out, Left

LEMMA AppendPlaces ==
  ASSUME NEW S, NEW s \in Seq(S), NEW x \in S
  PROVE  Added(S, s, Append(s, x), {}, x)
<1> DEFINE n == Len(s)
           out == Append(s, x)
           h == [j \in 1..(n + 1) |-> IF j = n + 1 THEN 0 ELSE j]
<1>1. n \in Nat /\ DOMAIN s = 1..n
  OBVIOUS
<1>2. out \in Seq(S) /\ DOMAIN out = 1..(n + 1) /\ out[n + 1] = x /\ \A j \in 1..n : out[j] = s[j]
  OBVIOUS
<1> HIDE DEF n, out
<1>3. \A j \in 1..(n + 1) : j = n + 1 \/ j \in 1..n
  BY <1>1
<1>4. h[n + 1] = 0 /\ \A j \in 1..n : h[j] = j /\ j # 0
  BY <1>1
<1>5. h = [j \in 1..(n + 1) |-> h[j]]
  OBVIOUS
<1> HIDE DEF h
<1>6. \A j \in 1..n : j \in 1..(n + 1)
  BY <1>1
<1>7. Places(s, out, {}, h)
  <2>1. \A j \in 1..(n + 1) : h[j] \in 1..n \cup {0}
    BY <1>3, <1>4
  <2>2. h \in [DOMAIN out -> (DOMAIN s \ {}) \cup {0}]
    BY <1>1, <1>2, <1>5, <2>1
  <2>3. \A j, k \in 1..(n + 1) : h[j] = h[k] => j = k
    BY <1>3, <1>4
  <2>4. \A k \in 1..n : \E j \in 1..(n + 1) : h[j] = k
    BY <1>4, <1>6
  <2> QED BY <1>1, <1>2, <2>2, <2>3, <2>4 DEF Places
<1>8. \A j \in DOMAIN out : \/ h[j] # 0 /\ out[j] = s[h[j]]
                            \/ h[j] = 0 /\ out[j] = x
  BY <1>2, <1>3, <1>4
<1> QED BY <1>2, <1>7, <1>8 DEF out, Added

LEMMA OnlyPlaces ==
  ASSUME NEW S, NEW s \in Seq(S), NEW R
  PROVE  Left(S, s, Only(s, R), {k \in DOMAIN s : s[k] \notin R})
<1>1. PICK h : Picks(s, R, Len(s), Only(s, R), h)
  BY OnlyFacts
<1>2. Only(s, R) \in Seq(S) /\ DOMAIN s = 1..Len(s) /\ Len(s) \in Nat
  BY OnlyFacts
<1> DEFINE out == Only(s, R)
<1> HIDE DEF out
<1>3. Picks(s, R, Len(s), out, h)
  BY <1>1 DEF out
<1>4. Places(s, out, {k \in DOMAIN s : s[k] \notin R}, h)
  BY <1>2, <1>3 DEF Picks, Places
<1>5. \A j \in DOMAIN out : h[j] # 0 /\ out[j] = s[h[j]]
  BY <1>2, <1>3 DEF Picks
<1> QED BY <1>2, <1>4, <1>5 DEF out, Left

\* What is left of a list, with x added.
LEMMA LeftAndAdded ==
  ASSUME NEW S, NEW s \in Seq(S), NEW o, NEW gone, Left(S, s, o, gone), NEW x \in S
  PROVE  Added(S, s, Append(o, x), gone, x)
<1>1. o \in Seq(S)
  BY DEF Left
<1>2. PICK f : Places(s, o, gone, f) /\ \A j \in DOMAIN o : f[j] # 0 /\ o[j] = s[f[j]]
  BY DEF Left
<1> DEFINE out == Append(o, x)
<1>3. Added(S, o, out, {}, x)
  BY <1>1, AppendPlaces
<1> HIDE DEF out
<1>4. PICK g : /\ Places(o, out, {}, g)
               /\ \A j \in DOMAIN out : \/ g[j] # 0 /\ out[j] = o[g[j]]
                                        \/ g[j] = 0 /\ out[j] = x
  BY <1>3 DEF Added
<1> DEFINE h == [j \in DOMAIN out |-> IF g[j] = 0 THEN 0 ELSE f[g[j]]]
<1>5. \A j \in DOMAIN out : g[j] = 0 \/ g[j] \in DOMAIN o
  BY <1>4 DEF Places
<1>6. \A j \in DOMAIN out : /\ g[j] = 0 => h[j] = 0
                            /\ g[j] # 0 => h[j] = f[g[j]] /\ h[j] # 0 /\ h[j] \in DOMAIN s \ gone
  BY <1>2, <1>5 DEF Places
<1>7. h = [j \in DOMAIN out |-> h[j]]
  OBVIOUS
<1> HIDE DEF h
<1>8. Places(s, out, gone, h)
  <2>1. h \in [DOMAIN out -> (DOMAIN s \ gone) \cup {0}]
    BY <1>6, <1>7
  <2>2. \A j, k \in DOMAIN out : h[j] = h[k] => j = k
    BY <1>2, <1>4, <1>5, <1>6 DEF Places
  <2>3. ASSUME NEW k \in DOMAIN s \ gone PROVE \E j \in DOMAIN out : h[j] = k
    <3>1. PICK l \in DOMAIN o : f[l] = k
      BY <1>2 DEF Places
    <3>2. PICK j \in DOMAIN out : g[j] = l
      BY <1>4 DEF Places
    <3>3. l # 0
      BY <1>1
    <3> QED BY <1>6, <3>1, <3>2, <3>3
  <2> QED BY <2>1, <2>2, <2>3 DEF Places
<1>9. ASSUME NEW j \in DOMAIN out
      PROVE  \/ h[j] # 0 /\ out[j] = s[h[j]]
             \/ h[j] = 0 /\ out[j] = x
  <2>1. CASE g[j] = 0
    <3>1. 0 \notin DOMAIN o
      BY <1>1
    <3> QED BY <1>4, <1>6, <2>1, <3>1
  <2>2. CASE g[j] # 0
    <3>1. g[j] \in DOMAIN o /\ out[j] = o[g[j]]
      BY <1>4, <1>5, <2>2
    <3>2. f[g[j]] # 0 /\ o[g[j]] = s[f[g[j]]]
      BY <1>2, <3>1
    <3> QED BY <1>6, <2>2, <3>1, <3>2
  <2> QED BY <2>1, <2>2
<1>10. out \in Seq(S)
  BY <1>3 DEF Added
<1> QED BY <1>8, <1>9, <1>10 DEF out, Added

----------------------------------------------------------------------------
(* The type invariant.                                                     *)

TabRecords == [path : Paths \cup {None}, going : {"login", None}, refreshing : BOOLEAN]
\* A pair that was issued, or none.
Known(n, p) == p \in 1..n \cup {None}
\* A request of a tab that shows a page, with pairs that were issued; those that
\* carry the refresh token are not held back.
Sound(tb, n, r) ==
  /\ tb[r.tab].path # None
  /\ Known(n, r.pair) /\ Known(n, r.reply)
  /\ r.kind \in {"refresh", "logout"} => r.pair # None /\ r.step \notin {"queued", "waiting"}

ServerTyped ==
  /\ issued \in Pairs /\ expired \subseteq 1..issued /\ revoked \subseteq 1..issued
  /\ Known(issued, tokens) /\ cookie \in BOOLEAN
ReqsTyped ==
  /\ reqs \in Seq(Request)
  /\ \A i \in DOMAIN reqs : Sound(tabs, issued, reqs[i])
MarksTyped ==
  /\ plan \in Plans /\ spent \in 0..plan.budget /\ signedOut \in BOOLEAN
  /\ marks \subseteq {"ended", "lost", "failed", "twice", "wrong", "logout"}
TypeInv == ServerTyped /\ tabs \in [Tabs -> TabRecords] /\ ReqsTyped /\ MarksTyped

LEMMA NoneFacts == None \notin Nat /\ None \notin Paths
  OBVIOUS

LEMMA MiddlewareIn ==
  ASSUME NEW path \in Paths, NEW c
  PROVE  Middleware(path, c) \in Paths
  BY DEF Middleware, Paths, AuthRoutes

LEMMA PageFacts ==
  ASSUME NEW p \in Paths
  PROVE  Pages[p].leads \in Paths /\ Pages[p].links \subseteq Paths
<1>1. p \in {"login", "signup", "forgot", "reset", "mfa", "verify", "app"}
  BY DEF Paths, AuthRoutes
<1>2. CASE p = "login"
  BY <1>2 DEF Pages, LoginPage, Paths, AuthRoutes
<1>3. CASE p = "signup"
  BY <1>3 DEF Pages, SignupPage, Paths, AuthRoutes
<1>4. CASE p = "forgot"
  BY <1>4 DEF Pages, ForgotPasswordPage, Paths, AuthRoutes
<1>5. CASE p = "reset"
  BY <1>5 DEF Pages, ResetPasswordPage, Paths, AuthRoutes
<1>6. CASE p = "mfa"
  BY <1>6 DEF Pages, MfaChallengePage, Paths, AuthRoutes
<1>7. CASE p = "verify"
  BY <1>7 DEF Pages, VerifyEmailPage, Paths, AuthRoutes
<1>8. CASE p = "app"
  BY <1>8 DEF Pages, ProfilePage, Paths, AuthRoutes
<1> QED BY <1>1, <1>2, <1>3, <1>4, <1>5, <1>6, <1>7, <1>8

\* A request is one of its tab's, and that shows a page.
LEMMA RequestFacts ==
  ASSUME TypeInv, NEW i \in DOMAIN reqs
  PROVE  /\ reqs[i] \in Request /\ reqs[i].tab \in Tabs
         /\ tabs[reqs[i].tab] \in TabRecords /\ tabs[reqs[i].tab].path \in Paths
         /\ Sound(tabs, issued, reqs[i])
<1>1. reqs[i] \in Request /\ Sound(tabs, issued, reqs[i])
  BY DEF TypeInv, ReqsTyped
<1>2. reqs[i].tab \in Tabs
  BY <1>1 DEF Request
<1>3. tabs[reqs[i].tab] \in TabRecords
  BY <1>2 DEF TypeInv
<1>4. tabs[reqs[i].tab].path \in Paths
  BY <1>1, <1>3 DEF Sound, TabRecords
<1> QED BY <1>1, <1>2, <1>3, <1>4

\* What the request interceptor makes of a request.
LEMMA PostFacts ==
  ASSUME TypeInv, NEW t \in Tabs, NEW kind \in Kinds \cup {"refresh"}
  PROVE  /\ Post(t, kind) \in Request
         /\ Post(t, kind).tab = t /\ Post(t, kind).kind = kind
         /\ Post(t, kind).step = "sent" /\ Post(t, kind).reply = None
         /\ Post(t, kind).retry = FALSE /\ Known(issued, Post(t, kind).pair)
         /\ kind \in {"refresh", "logout"} => Post(t, kind).pair = tokens
<1>1. issued \in Nat /\ issued <= MaxPairs /\ Known(issued, tokens)
  BY DEF TypeInv, ServerTyped, Pairs
<1>2. tokens \in MaybePair
  BY <1>1 DEF Known, MaybePair, Pairs
<1>3. Known(issued, None)
  BY DEF Known
<1> DEFINE p == IF Bearer(kind) THEN tokens ELSE None
<1>4. p \in MaybePair /\ Known(issued, p)
      /\ (kind \in {"refresh", "logout"} => p = tokens)
  BY <1>1, <1>2, <1>3 DEF Bearer, MaybePair
<1> HIDE DEF p
<1>5. Post(t, kind) = [tab |-> t, kind |-> kind, pair |-> p,
                       retry |-> FALSE, step |-> "sent", reply |-> None]
  BY DEF Post, p
<1>6. None \in MaybePair /\ "sent" \in Steps
  BY DEF MaybePair, Steps
<1> QED BY <1>4, <1>5, <1>6 DEF Request

----------------------------------------------------------------------------
(* What a step does to the tabs.                                           *)

\* Tabs keep showing a page, and their refreshes.
Tidy == /\ tabs' \in [Tabs -> TabRecords]
        /\ \A t \in Tabs : tabs[t].path # None => tabs'[t].path # None
SameRefreshes == \A t \in Tabs : tabs'[t].refreshing = tabs[t].refreshing

LEMMA SameTabs ==
  ASSUME TypeInv, UNCHANGED tabs PROVE Tidy /\ SameRefreshes
  BY DEF TypeInv, Tidy, SameRefreshes

\* One field of one tab.
LEMMA PathMoves ==
  ASSUME TypeInv, NEW t \in Tabs, NEW p \in Paths, tabs' = [tabs EXCEPT ![t].path = p]
  PROVE  Tidy /\ SameRefreshes
<1>1. tabs \in [Tabs -> TabRecords] /\ tabs[t] \in TabRecords
  BY DEF TypeInv
<1>2. tabs'[t] = [tabs[t] EXCEPT !.path = p] /\ \A u \in Tabs \ {t} : tabs'[u] = tabs[u]
  BY <1>1
<1>3. [tabs[t] EXCEPT !.path = p] \in TabRecords
  BY <1>1 DEF TabRecords
<1>4. tabs' \in [Tabs -> TabRecords]
  BY <1>1, <1>3
<1>5. tabs'[t].path = p /\ tabs'[t].refreshing = tabs[t].refreshing
  BY <1>1, <1>2 DEF TabRecords
<1> QED BY <1>2, <1>4, <1>5, NoneFacts DEF Tidy, SameRefreshes

LEMMA GoingMoves ==
  ASSUME TypeInv, NEW t \in Tabs, tabs' = [tabs EXCEPT ![t].going = "login"]
  PROVE  Tidy /\ SameRefreshes
<1>1. tabs \in [Tabs -> TabRecords] /\ tabs[t] \in TabRecords
  BY DEF TypeInv
<1>2. tabs'[t] = [tabs[t] EXCEPT !.going = "login"] /\ \A u \in Tabs \ {t} : tabs'[u] = tabs[u]
  BY <1>1
<1>3. [tabs[t] EXCEPT !.going = "login"] \in TabRecords
  BY <1>1 DEF TabRecords
<1>4. tabs' \in [Tabs -> TabRecords]
  BY <1>1, <1>3
<1>5. tabs'[t].path = tabs[t].path /\ tabs'[t].refreshing = tabs[t].refreshing
  BY <1>1, <1>2 DEF TabRecords
<1> QED BY <1>2, <1>4, <1>5 DEF Tidy, SameRefreshes

LEMMA RefreshingMoves ==
  ASSUME TypeInv, NEW t \in Tabs, NEW b \in BOOLEAN, tabs' = [tabs EXCEPT ![t].refreshing = b]
  PROVE  /\ Tidy /\ tabs'[t].refreshing = b
         /\ \A u \in Tabs \ {t} : tabs'[u].refreshing = tabs[u].refreshing
<1>1. tabs \in [Tabs -> TabRecords] /\ tabs[t] \in TabRecords
  BY DEF TypeInv
<1>2. tabs'[t] = [tabs[t] EXCEPT !.refreshing = b] /\ \A u \in Tabs \ {t} : tabs'[u] = tabs[u]
  BY <1>1
<1>3. [tabs[t] EXCEPT !.refreshing = b] \in TabRecords
  BY <1>1 DEF TabRecords
<1>4. tabs' \in [Tabs -> TabRecords]
  BY <1>1, <1>3
<1>5. tabs'[t].path = tabs[t].path /\ tabs'[t].refreshing = b
  BY <1>1, <1>2 DEF TabRecords
<1> QED BY <1>2, <1>4, <1>5 DEF Tidy

LEMMA FailMoves ==
  ASSUME TypeInv, NEW t \in Tabs, tabs' = [Redirected(t) EXCEPT ![t].refreshing = FALSE]
  PROVE  /\ Tidy /\ tabs'[t].refreshing = FALSE
         /\ \A u \in Tabs \ {t} : tabs'[u].refreshing = tabs[u].refreshing
<1>1. tabs \in [Tabs -> TabRecords] /\ tabs[t] \in TabRecords
  BY DEF TypeInv
<1>2. CASE tabs[t].path \in PublicPaths
  BY <1>2, RefreshingMoves DEF Redirected
<1>3. CASE tabs[t].path \notin PublicPaths
  <2> DEFINE x == [tabs EXCEPT ![t].going = "login"]
  <2>1. x \in [Tabs -> TabRecords] /\ x[t] = [tabs[t] EXCEPT !.going = "login"]
        /\ \A u \in Tabs \ {t} : x[u] = tabs[u]
    BY <1>1 DEF TabRecords
  <2>2. tabs' = [x EXCEPT ![t].refreshing = FALSE]
    BY <1>3 DEF Redirected
  <2> HIDE DEF x
  <2>3. tabs'[t] = [x[t] EXCEPT !.refreshing = FALSE] /\ \A u \in Tabs \ {t} : tabs'[u] = x[u]
    BY <2>1, <2>2
  <2>4. x[t] \in TabRecords /\ x[t].path = tabs[t].path
    BY <1>1, <2>1 DEF TabRecords
  <2>5. [x[t] EXCEPT !.refreshing = FALSE] \in TabRecords
    BY <2>4 DEF TabRecords
  <2>6. tabs' \in [Tabs -> TabRecords]
    BY <2>1, <2>2, <2>5
  <2>7. tabs'[t].path = tabs[t].path /\ tabs'[t].refreshing = FALSE
    BY <2>3, <2>4 DEF TabRecords
  <2> QED BY <2>1, <2>3, <2>6, <2>7 DEF Tidy
<1> QED BY <1>2, <1>3

LEMMA LoadMoves ==
  ASSUME TypeInv, NEW t \in Tabs, NEW p \in Paths,
         tabs' = [tabs EXCEPT ![t] = [path |-> p, going |-> None, refreshing |-> FALSE]]
  PROVE  /\ Tidy /\ tabs'[t].path # None
         /\ \A u \in Tabs \ {t} : tabs'[u].refreshing = tabs[u].refreshing
<1>1. tabs \in [Tabs -> TabRecords]
  BY DEF TypeInv
<1>2. tabs'[t].path = p /\ \A u \in Tabs \ {t} : tabs'[u] = tabs[u]
  BY <1>1
<1>3. [path |-> p, going |-> None, refreshing |-> FALSE] \in TabRecords
  BY DEF TabRecords
<1>4. tabs' \in [Tabs -> TabRecords]
  BY <1>1, <1>3
<1> QED BY <1>2, <1>4, NoneFacts DEF Tidy

LEMMA PushedMoves ==
  ASSUME TypeInv, NEW t \in Tabs, NEW kind, NEW to \in Paths, NEW c, tabs' = Pushed(t, kind, to, c)
  PROVE  Tidy /\ SameRefreshes
<1>1. Middleware(to, c) \in Paths
  BY MiddlewareIn
<1>2. CASE kind \in Pages[tabs[t].path].form
  <2>1. tabs' = [tabs EXCEPT ![t].path = Middleware(to, c)]
    BY <1>2 DEF Pushed
  <2> QED BY <1>1, <2>1, PathMoves
<1>3. CASE kind \notin Pages[tabs[t].path].form
  <2>1. UNCHANGED tabs
    BY <1>3 DEF Pushed
  <2> QED BY <2>1, SameTabs
<1> QED BY <1>2, <1>3

LEMMA RedirectedMoves ==
  ASSUME TypeInv, NEW t \in Tabs, tabs' = Redirected(t)
  PROVE  Tidy /\ SameRefreshes
<1>1. CASE tabs[t].path \in PublicPaths
  <2>1. UNCHANGED tabs
    BY <1>1 DEF Redirected
  <2> QED BY <2>1, SameTabs
<1>2. CASE tabs[t].path \notin PublicPaths
  <2>1. tabs' = [tabs EXCEPT ![t].going = "login"]
    BY <1>2 DEF Redirected
  <2> QED BY <2>1, GoingMoves
<1> QED BY <1>1, <1>2

----------------------------------------------------------------------------
(* What a step does to the requests.                                       *)

\* Request i is answered and gone.
Dropped(i) == Left(Request, reqs, reqs', {i})
\* r is new, those of the tabs in T are gone.
Posted(r, T) == Added(Request, reqs, reqs', {k \in DOMAIN reqs : reqs[k].tab \in T}, r)
\* Request i has become r.
Became(i, r) ==
  /\ reqs' \in Seq(Request) /\ DOMAIN reqs' = DOMAIN reqs
  /\ reqs'[i] = r /\ \A j \in DOMAIN reqs \ {i} : reqs'[j] = reqs[j]

LEMMA RequestSet == ASSUME TypeInv PROVE reqs \in Seq(Request) /\ 0 \notin DOMAIN reqs
  BY DEF TypeInv, ReqsTyped

LEMMA DropFacts ==
  ASSUME TypeInv, NEW i \in DOMAIN reqs, Drop(i)
  PROVE  Dropped(i)
<1>1. Left(Request, reqs, RemoveAt(reqs, i), {i})
  BY RequestSet, RemovePlaces
<1> QED BY <1>1 DEF Drop, Dropped

LEMMA SendFacts ==
  ASSUME TypeInv, NEW r \in Request, reqs' = Append(reqs, r)
  PROVE  Posted(r, {})
<1>1. {k \in DOMAIN reqs : reqs[k].tab \in {}} = {}
  OBVIOUS
<1>2. Added(Request, reqs, Append(reqs, r), {}, r)
  BY RequestSet, AppendPlaces
<1> QED BY <1>1, <1>2 DEF Posted

LEMMA LoadFacts ==
  ASSUME TypeInv, NEW t \in Tabs, NEW path \in Paths, Load(t, path)
  PROVE  /\ Tidy /\ tabs'[t].path # None
         /\ \A u \in Tabs \ {t} : tabs'[u].refreshing = tabs[u].refreshing
         /\ \/ Left(Request, reqs, reqs', {k \in DOMAIN reqs : reqs[k].tab \in {t}})
            \/ Posted(Post(t, "api"), {t})
<1> DEFINE p == Middleware(path, cookie)
           R == {r \in Requests : r.tab # t}
           gone == {k \in DOMAIN reqs : reqs[k].tab \in {t}}
<1>1. p \in Paths
  BY MiddlewareIn
<1>2. tabs' = [tabs EXCEPT ![t] = [path |-> p, going |-> None, refreshing |-> FALSE]]
  BY DEF Load
<1>3. Post(t, "api") \in Request
  BY PostFacts DEF Kinds
<1>4. {k \in DOMAIN reqs : reqs[k] \notin R} = gone
  BY DEF Requests, Range
<1>5. reqs' = Only(reqs, R) \o (IF p = "app" THEN <<Post(t, "api")>> ELSE <<>>)
  BY DEF Load
<1>6. Left(Request, reqs, Only(reqs, R), gone)
  BY <1>4, RequestSet, OnlyPlaces
<1> HIDE DEF p, R, gone
<1>7. Only(reqs, R) \in Seq(Request)
  BY <1>6 DEF Left
<1>8. CASE p = "app"
  <2>1. reqs' = Append(Only(reqs, R), Post(t, "api"))
    BY <1>3, <1>5, <1>7, <1>8
  <2>2. Added(Request, reqs, Append(Only(reqs, R), Post(t, "api")), gone, Post(t, "api"))
    BY <1>3, <1>6, RequestSet, LeftAndAdded
  <2> QED BY <1>1, <1>2, <2>1, <2>2, LoadMoves DEF Posted, gone
<1>9. CASE p # "app"
  <2>1. reqs' = Only(reqs, R)
    BY <1>5, <1>7, <1>9
  <2> QED BY <1>1, <1>2, <1>6, <2>1, LoadMoves DEF gone
<1> QED BY <1>8, <1>9

\* One request is set.
LEMMA SetFacts ==
  ASSUME TypeInv, NEW i \in DOMAIN reqs, NEW r \in Request, reqs' = [reqs EXCEPT ![i] = r]
  PROVE  Became(i, r)
<1>1. reqs \in Seq(Request)
  BY RequestSet
<1> QED BY <1>1 DEF Became

LEMMA StepFacts ==
  ASSUME TypeInv, NEW i \in DOMAIN reqs, NEW st \in Steps
  PROVE  /\ [reqs EXCEPT ![i].step = st] = [reqs EXCEPT ![i] = [reqs[i] EXCEPT !.step = st]]
         /\ [reqs[i] EXCEPT !.step = st] \in Request
<1>1. reqs \in Seq(Request) /\ reqs[i] \in Request
  BY RequestSet, RequestFacts
<1> QED BY <1>1 DEF Request

LEMMA ReplyFacts ==
  ASSUME TypeInv, NEW i \in DOMAIN reqs, NEW st \in Steps, NEW p \in MaybePair
  PROVE  /\ [reqs EXCEPT ![i].step = st, ![i].reply = p]
              = [reqs EXCEPT ![i] = [reqs[i] EXCEPT !.step = st, !.reply = p]]
         /\ [reqs[i] EXCEPT !.step = st, !.reply = p] \in Request
<1>1. reqs \in Seq(Request) /\ reqs[i] \in Request
  BY RequestSet, RequestFacts
<1> QED BY <1>1 DEF Request

\* The request that asks for a refresh.
Waiting(r) == [r EXCEPT !.step = "waiting", !.retry = TRUE]
LEMMA StartFacts ==
  ASSUME TypeInv, NEW i \in DOMAIN reqs, StartRefresh(i)
  PROVE  LET t == reqs[i].tab IN
           /\ Tidy /\ tabs'[t].refreshing
           /\ \A u \in Tabs \ {t} : tabs'[u].refreshing = tabs[u].refreshing
           /\ reqs' \in Seq(Request) /\ Waiting(reqs[i]) \in Request
           /\ \E h : /\ Places(reqs, reqs', {}, h)
                     /\ \A j \in DOMAIN reqs' :
                          \/ h[j] # 0 /\ h[j] # i /\ reqs'[j] = reqs[h[j]]
                          \/ h[j] = i /\ i # 0 /\ reqs'[j] = Waiting(reqs[i])
                          \/ h[j] = 0 /\ reqs'[j] = Post(t, "refresh")
<1>1. reqs \in Seq(Request) /\ reqs[i] \in Request /\ reqs[i].tab \in Tabs /\ i # 0
  BY RequestSet, RequestFacts
<1> DEFINE m == [reqs EXCEPT ![i] = Waiting(reqs[i])]
           x == Post(reqs[i].tab, "refresh")
<1>2. [reqs EXCEPT ![i].step = "waiting", ![i].retry = TRUE] = m
  BY <1>1 DEF Waiting, Request
<1>3. Waiting(reqs[i]) \in Request
  BY <1>1 DEF Waiting, Request, Steps
<1>4. x \in Request
  BY <1>1, PostFacts
<1>5. m \in Seq(Request) /\ DOMAIN m = DOMAIN reqs /\ m[i] = Waiting(reqs[i])
      /\ \A j \in DOMAIN reqs \ {i} : m[j] = reqs[j]
  BY <1>1, <1>3
<1>6. reqs' = Append(m, x)
  BY <1>2 DEF StartRefresh
<1> HIDE DEF m, x
<1>7. reqs' \in Seq(Request) /\ \E h : /\ Places(m, reqs', {}, h)
                                       /\ \A j \in DOMAIN reqs' : \/ h[j] # 0 /\ reqs'[j] = m[h[j]]
                                                                  \/ h[j] = 0 /\ reqs'[j] = x
  <2>1. Added(Request, m, Append(m, x), {}, x)
    BY <1>4, <1>5, AppendPlaces
  <2> QED BY <1>6, <2>1 DEF Added
<1>8. PICK h : /\ Places(m, reqs', {}, h)
               /\ \A j \in DOMAIN reqs' : \/ h[j] # 0 /\ reqs'[j] = m[h[j]]
                                          \/ h[j] = 0 /\ reqs'[j] = x
  BY <1>7
<1>9. Places(reqs, reqs', {}, h)
  BY <1>5, <1>8 DEF Places
<1>10. \A j \in DOMAIN reqs' :
         \/ h[j] # 0 /\ h[j] # i /\ reqs'[j] = reqs[h[j]]
         \/ h[j] = i /\ i # 0 /\ reqs'[j] = Waiting(reqs[i])
         \/ h[j] = 0 /\ reqs'[j] = x
  BY <1>1, <1>5, <1>8 DEF Places
<1>11. tabs' = [tabs EXCEPT ![reqs[i].tab].refreshing = TRUE]
  BY DEF StartRefresh, Refreshing
<1>12. /\ Tidy /\ tabs'[reqs[i].tab].refreshing
       /\ \A u \in Tabs \ {reqs[i].tab} : tabs'[u].refreshing = tabs[u].refreshing
  BY <1>1, <1>11, RefreshingMoves
<1> QED BY <1>3, <1>7, <1>9, <1>10, <1>12 DEF x

\* What becomes of a request of tab t when its refresh brings p.
Again(t, p, r) == IF r.tab = t THEN Resent(r, p) ELSE r
LEMMA ArrivesFacts ==
  ASSUME TypeInv, NEW i \in DOMAIN reqs, RefreshArrives(i)
  PROVE  LET t == reqs[i].tab IN
           /\ Tidy /\ ~tabs'[t].refreshing
           /\ \A u \in Tabs \ {t} : tabs'[u].refreshing = tabs[u].refreshing
           /\ reqs' \in Seq(Request)
           /\ \E h : /\ Places(reqs, reqs', {i}, h)
                     /\ \A j \in DOMAIN reqs' :
                          h[j] # 0 /\ reqs'[j] = Again(t, reqs[i].reply, reqs[h[j]])
<1>1. reqs \in Seq(Request) /\ reqs[i] \in Request /\ reqs[i].tab \in Tabs
  BY RequestSet, RequestFacts
<1> DEFINE t == reqs[i].tab
           p == reqs[i].reply
           m == [j \in DOMAIN reqs |-> Again(t, p, reqs[j])]
<1>2. p \in MaybePair
  BY <1>1 DEF Request
<1>3. \A j \in DOMAIN reqs : Again(t, p, reqs[j]) \in Request
  <2> SUFFICES ASSUME NEW j \in DOMAIN reqs PROVE Again(t, p, reqs[j]) \in Request
    OBVIOUS
  <2>1. reqs[j] \in Request
    BY RequestFacts
  <2>2. \A q \in MaybePair : [reqs[j] EXCEPT !.step = "sent", !.pair = q] \in Request
    BY <2>1 DEF Request, Steps
  <2>3. None \in MaybePair
    BY DEF MaybePair
  <2> QED BY <1>2, <2>1, <2>2, <2>3 DEF Again, Resent
<1>4. m \in Seq(Request) /\ DOMAIN m = DOMAIN reqs /\ \A j \in DOMAIN reqs : m[j] = Again(t, p, reqs[j])
  <2>1. DOMAIN reqs = 1..Len(reqs) /\ Len(reqs) \in Nat
    BY <1>1
  <2>2. m \in [1..Len(reqs) -> Request]
    BY <1>3, <2>1
  <2> HIDE DEF p, t
  <2> QED BY <2>1, <2>2
<1>5. reqs' = RemoveAt(m, i)
  BY DEF RefreshArrives, Again
<1>6. tabs' = [tabs EXCEPT ![t].refreshing = FALSE]
  BY DEF RefreshArrives
<1> HIDE DEF m
<1>7. reqs' \in Seq(Request) /\ \E h : /\ Places(m, reqs', {i}, h)
                                       /\ \A j \in DOMAIN reqs' : h[j] # 0 /\ reqs'[j] = m[h[j]]
  <2>1. Left(Request, m, RemoveAt(m, i), {i})
    BY <1>4, RemovePlaces
  <2> QED BY <1>5, <2>1 DEF Left
<1>8. PICK h : /\ Places(m, reqs', {i}, h)
               /\ \A j \in DOMAIN reqs' : h[j] # 0 /\ reqs'[j] = m[h[j]]
  BY <1>7
<1>9. Places(reqs, reqs', {i}, h) /\ \A j \in DOMAIN reqs' : h[j] # 0 /\ reqs'[j] = Again(t, p, reqs[h[j]])
  BY <1>4, <1>8 DEF Places
<1>10. Tidy /\ tabs'[t].refreshing = FALSE
       /\ \A u \in Tabs \ {t} : tabs'[u].refreshing = tabs[u].refreshing
  BY <1>1, <1>6, RefreshingMoves
<1> QED BY <1>7, <1>9, <1>10

LEMMA FailsFacts ==
  ASSUME TypeInv, NEW i \in DOMAIN reqs, RefreshFails(i)
  PROVE  LET t == reqs[i].tab IN
           /\ Tidy /\ ~tabs'[t].refreshing
           /\ \A u \in Tabs \ {t} : tabs'[u].refreshing = tabs[u].refreshing
           /\ Left(Request, reqs, reqs', {k \in DOMAIN reqs : Reject(t, reqs[k])})
<1> DEFINE t == reqs[i].tab
           R == {r \in Requests : ~Reject(t, r)}
<1>1. reqs[i].tab \in Tabs
  BY RequestFacts
<1>2. {k \in DOMAIN reqs : reqs[k] \notin R} = {k \in DOMAIN reqs : Reject(t, reqs[k])}
  BY DEF Requests, Range
<1>3. reqs' = Only(reqs, R) /\ tabs' = [Redirected(t) EXCEPT ![t].refreshing = FALSE]
  BY DEF RefreshFails
<1>4. Left(Request, reqs, Only(reqs, R), {k \in DOMAIN reqs : reqs[k] \notin R})
  BY RequestSet, OnlyPlaces
<1>5. Tidy /\ tabs'[t].refreshing = FALSE
      /\ \A u \in Tabs \ {t} : tabs'[u].refreshing = tabs[u].refreshing
  BY <1>1, <1>3, FailMoves
<1> QED BY <1>2, <1>3, <1>4, <1>5

----------------------------------------------------------------------------
(* Every step keeps the types.                                             *)

\* No pair is taken back.
IssuesOn == issued' \in Nat /\ issued <= issued'

LEMMA SoundStays ==
  ASSUME TypeInv, Tidy, IssuesOn, NEW i \in DOMAIN reqs
  PROVE  Sound(tabs', issued', reqs[i])
<1>1. reqs[i].tab \in Tabs /\ Sound(tabs, issued, reqs[i]) /\ issued \in Nat
  BY RequestFacts DEF TypeInv, ServerTyped, Pairs
<1>2. \A p : Known(issued, p) => Known(issued', p)
  BY <1>1 DEF IssuesOn, Known
<1> QED BY <1>1, <1>2 DEF Tidy, Sound

LEMMA ReqsSame ==
  ASSUME TypeInv, Tidy, IssuesOn, UNCHANGED reqs
  PROVE  ReqsTyped'
<1>1. \A i \in DOMAIN reqs : Sound(tabs', issued', reqs[i])
  BY SoundStays
<1> QED BY <1>1, RequestSet DEF ReqsTyped

LEMMA ReqsLeft ==
  ASSUME TypeInv, Tidy, IssuesOn, NEW gone, Left(Request, reqs, reqs', gone)
  PROVE  ReqsTyped'
<1>1. PICK h : /\ Places(reqs, reqs', gone, h)
               /\ \A j \in DOMAIN reqs' : h[j] # 0 /\ reqs'[j] = reqs[h[j]]
  BY DEF Left
<1>2. ASSUME NEW j \in DOMAIN reqs' PROVE Sound(tabs', issued', reqs'[j])
  <2>1. h[j] \in DOMAIN reqs /\ reqs'[j] = reqs[h[j]]
    BY <1>1 DEF Places
  <2> QED BY <2>1, SoundStays
<1> QED BY <1>2 DEF Left, ReqsTyped

LEMMA ReqsAdded ==
  ASSUME TypeInv, Tidy, IssuesOn, NEW gone, NEW x,
         Added(Request, reqs, reqs', gone, x), Sound(tabs', issued', x)
  PROVE  ReqsTyped'
<1>1. PICK h : /\ Places(reqs, reqs', gone, h)
               /\ \A j \in DOMAIN reqs' : \/ h[j] # 0 /\ reqs'[j] = reqs[h[j]]
                                          \/ h[j] = 0 /\ reqs'[j] = x
  BY DEF Added
<1>2. ASSUME NEW j \in DOMAIN reqs' PROVE Sound(tabs', issued', reqs'[j])
  <2>1. CASE h[j] # 0
    <3>1. h[j] \in DOMAIN reqs /\ reqs'[j] = reqs[h[j]]
      BY <1>1, <2>1 DEF Places
    <3> QED BY <3>1, SoundStays
  <2>2. CASE h[j] = 0
    BY <1>1, <2>2
  <2> QED BY <2>1, <2>2
<1> QED BY <1>2 DEF Added, ReqsTyped

LEMMA ReqsSet ==
  ASSUME TypeInv, Tidy, IssuesOn, NEW i \in DOMAIN reqs, NEW r,
         Became(i, r), Sound(tabs', issued', r)
  PROVE  ReqsTyped'
<1>1. \A j \in DOMAIN reqs : Sound(tabs', issued', reqs[j])
  BY SoundStays
<1>2. \A j \in DOMAIN reqs' : Sound(tabs', issued', reqs'[j])
  BY <1>1 DEF Became
<1> QED BY <1>2 DEF Became, ReqsTyped

\* A request that only goes a step further stays sound.
LEMMA SoundStep ==
  ASSUME TypeInv, Tidy, IssuesOn, NEW i \in DOMAIN reqs, NEW r,
         r.tab = reqs[i].tab, r.kind = reqs[i].kind, r.pair = reqs[i].pair,
         r.reply = reqs[i].reply \/ Known(issued', r.reply),
         r.step \notin {"queued", "waiting"} \/ r.kind \notin {"refresh", "logout"}
  PROVE  Sound(tabs', issued', r)
<1>1. Sound(tabs', issued', reqs[i])
  BY SoundStays
<1> QED BY <1>1 DEF Sound

\* A request is posted by a tab that shows a page.
LEMMA PostSound ==
  ASSUME TypeInv, Tidy, IssuesOn, NEW t \in Tabs, NEW kind \in Kinds \cup {"refresh"},
         tabs'[t].path # None, kind \in {"refresh", "logout"} => tokens # None
  PROVE  Sound(tabs', issued', Post(t, kind))
<1>1. issued \in Nat
  BY DEF TypeInv, ServerTyped, Pairs
<1>2. \A p : Known(issued, p) => Known(issued', p)
  BY <1>1 DEF IssuesOn, Known
<1>3. Known(issued, Post(t, kind).pair) /\ Post(t, kind).reply = None
  BY PostFacts
<1>5. Post(t, kind).tab = t /\ Post(t, kind).kind = kind
  BY PostFacts
<1>6. /\ kind \in {"refresh", "logout"} => Post(t, kind).pair = tokens
      /\ Post(t, kind).step = "sent"
  BY DEF Post, Bearer
<1>4. Known(issued', None)
  BY DEF Known
<1> QED BY <1>2, <1>3, <1>4, <1>5, <1>6 DEF Sound

\* A sign-in or a refresh issues the next pair.
LEMMA IssueFacts ==
  ASSUME TypeInv, issued < plan.pairs, issued' = issued + 1
  PROVE  /\ IssuesOn /\ issued' \in Pairs /\ Known(issued', issued + 1)
         /\ issued + 1 \in MaybePair
         /\ 1..issued \subseteq 1..issued' /\ \A p : Known(issued, p) => Known(issued', p)
<1>1. issued \in 1..MaxPairs /\ plan.pairs \in 1..MaxPairs /\ MaxPairs \in Nat
  BY DEF TypeInv, ServerTyped, Pairs, MarksTyped
<1>2. issued + 1 \in 1..MaxPairs
  BY <1>1
<1> QED BY <1>1, <1>2 DEF IssuesOn, Pairs, Known, MaybePair

LEMMA SameIssues ==
  ASSUME TypeInv, UNCHANGED issued PROVE IssuesOn
  BY DEF TypeInv, ServerTyped, Pairs, IssuesOn

\* What may be done to the tokens, with the server left alone.
LEMMA SameServer ==
  ASSUME TypeInv, UNCHANGED server,
         \/ UNCHANGED store
         \/ tokens' = None /\ cookie' = FALSE
         \/ Known(issued, tokens') /\ cookie' = TRUE
  PROVE  ServerTyped' /\ IssuesOn
  BY SameIssues DEF TypeInv, ServerTyped, server, store, Known

Marked(m) == m \subseteq {"ended", "lost", "failed", "twice", "wrong", "logout"}
LEMMA SameMarks ==
  ASSUME TypeInv, UNCHANGED plan, UNCHANGED spent \/ Disturb, signedOut' \in BOOLEAN,
         NEW m, Marked(m), marks' = marks \cup m \/ marks' = m \/ UNCHANGED marks
  PROVE  MarksTyped'
<1>1. plan \in Plans /\ plan.budget \in Nat /\ spent \in 0..plan.budget /\ marks \subseteq {"ended", "lost", "failed", "twice", "wrong", "logout"}
  BY DEF TypeInv, MarksTyped
<1>2. spent' \in 0..plan.budget
  BY <1>1 DEF Disturb
<1> QED BY <1>1, <1>2 DEF MarksTyped, Marked

LEMMA Typed ==
  ASSUME ServerTyped', Tidy, ReqsTyped', MarksTyped'
  PROVE  TypeInv'
  BY DEF TypeInv, Tidy

\* Steps that leave the requests alone.
LEMMA FollowLinkTyped ==
  ASSUME TypeInv, NEW t \in Tabs, NEW path \in Paths, FollowLink(t, path)
  PROVE  TypeInv' /\ SameRefreshes
<1>1. Middleware(path, cookie) \in Paths
  BY MiddlewareIn
<1>2. Tidy /\ SameRefreshes
  BY <1>1, PathMoves DEF FollowLink
<1>3. ServerTyped' /\ IssuesOn
  BY SameServer DEF FollowLink
<1>4. MarksTyped'
  BY SameMarks DEF FollowLink, history, TypeInv, MarksTyped, Marked
<1>5. ReqsTyped'
  BY <1>2, <1>3, ReqsSame DEF FollowLink
<1> QED BY <1>2, <1>3, <1>4, <1>5, Typed

LEMMA LoggedOutFacts ==
  ASSUME TypeInv, NEW t \in Tabs, LoggedOut(t)
  PROVE  /\ Tidy /\ SameRefreshes /\ tokens' = None /\ cookie' = FALSE
         /\ signedOut' = ~TokensUnderWay /\ signedOut' \in BOOLEAN
         /\ marks' = marks \cup {"logout"}
  BY GoingMoves DEF LoggedOut, ClearTokens, TokensUnderWay

LEMMA LogoutLocallyTyped ==
  ASSUME TypeInv, NEW t \in Tabs, LogoutLocally(t)
  PROVE  TypeInv' /\ SameRefreshes
<1>1. LoggedOut(t) /\ UNCHANGED <<plan, server, reqs, spent>>
  BY DEF LogoutLocally
<1>2. ServerTyped' /\ IssuesOn
  BY <1>1, LoggedOutFacts, SameServer
<1>3. Marked({"logout"})
  BY DEF Marked
<1>4. MarksTyped'
  BY <1>1, <1>3, LoggedOutFacts, SameMarks
<1>5. ReqsTyped'
  BY <1>1, <1>2, LoggedOutFacts, ReqsSame
<1> QED BY <1>1, <1>2, <1>4, <1>5, LoggedOutFacts, Typed

LEMMA ExpiresTyped ==
  ASSUME TypeInv, Expires
  PROVE  TypeInv' /\ SameRefreshes
<1>1. UNCHANGED <<plan, issued, tokens, tabs, reqs, signedOut>> /\ Disturb
  BY DEF Expires
<1>2. Tidy /\ SameRefreshes /\ IssuesOn
  BY <1>1, SameTabs, SameIssues
<1>3. ReqsTyped'
  BY <1>1, <1>2, ReqsSame
<1>4. ASSUME NEW p \in Pairs, InUse(p) PROVE p \in 1..issued
  <2>1. CASE p = tokens
    BY <2>1 DEF TypeInv, ServerTyped, Known, Pairs
  <2>2. CASE \E r \in Requests : p \in {r.pair, r.reply}
    <3>1. PICK i \in DOMAIN reqs : p \in {reqs[i].pair, reqs[i].reply}
      BY <2>2 DEF Requests, Range
    <3>2. Known(issued, p)
      BY <3>1, RequestFacts DEF Sound
    <3> QED BY <3>2 DEF Known, Pairs
  <2> QED BY <1>4, <2>1, <2>2 DEF InUse
<1>5. /\ expired' \subseteq 1..issued /\ revoked' \subseteq 1..issued /\ cookie' \in BOOLEAN
      /\ \E m : Marked(m) /\ marks' = marks \cup m
  <2>0. expired \subseteq 1..issued /\ revoked \subseteq 1..issued /\ cookie \in BOOLEAN
    BY DEF TypeInv, ServerTyped
  <2>1. CASE CookieEnds
    <3>1. Marked({}) /\ marks' = marks \cup {}
      BY <2>1 DEF Marked, CookieEnds
    <3> QED BY <2>0, <2>1, <3>1 DEF CookieEnds
  <2>2. ASSUME NEW p \in Pairs, AccessEnds(p)
        PROVE  /\ expired' \subseteq 1..issued /\ revoked' \subseteq 1..issued /\ cookie' \in BOOLEAN
               /\ \E m : Marked(m) /\ marks' = marks \cup m
    <3>1. Marked(MarkIf(\E r \in Requests : r.retry, "twice"))
      BY DEF Marked, MarkIf
    <3> QED BY <1>4, <2>0, <2>2, <3>1 DEF AccessEnds
  <2>3. ASSUME NEW p \in Pairs, RefreshEnds(p)
        PROVE  /\ expired' \subseteq 1..issued /\ revoked' \subseteq 1..issued /\ cookie' \in BOOLEAN
               /\ \E m : Marked(m) /\ marks' = marks \cup m
    <3>1. Marked({"ended"})
      BY DEF Marked
    <3> QED BY <1>4, <2>0, <2>3, <3>1 DEF RefreshEnds
  <2> QED BY <2>1, <2>2, <2>3 DEF Expires
<1>6. ServerTyped'
  BY <1>1, <1>5 DEF TypeInv, ServerTyped
<1>7. MarksTyped'
  BY <1>1, <1>5, SameMarks DEF TypeInv, MarksTyped
<1> QED BY <1>2, <1>3, <1>6, <1>7, Typed

\* A page is loaded.
LEMMA LoadTyped ==
  ASSUME TypeInv, NEW t \in Tabs, NEW path \in Paths, Load(t, path),
         UNCHANGED <<plan, server, store, history>>, UNCHANGED spent \/ Disturb
  PROVE  TypeInv'
<1>1. ServerTyped' /\ IssuesOn
  BY SameServer
<1>2. MarksTyped'
  <2>1. Marked({}) /\ signedOut' \in BOOLEAN
    BY DEF Marked, history, TypeInv, MarksTyped
  <2> QED BY <2>1, SameMarks DEF history
<1>3. Tidy /\ tabs'[t].path # None
      /\ \/ Left(Request, reqs, reqs', {k \in DOMAIN reqs : reqs[k].tab \in {t}})
         \/ Posted(Post(t, "api"), {t})
  BY LoadFacts
<1>4. Sound(tabs', issued', Post(t, "api"))
  BY <1>1, <1>3, PostSound DEF Kinds
<1>5. ReqsTyped'
  BY <1>1, <1>3, <1>4, ReqsLeft, ReqsAdded DEF Posted
<1> QED BY <1>1, <1>2, <1>3, <1>5, Typed

LEMMA NavTyped ==
  ASSUME TypeInv, NEW t \in Tabs, NavCommit(t)
  PROVE  TypeInv'
<1>1. tabs[t] \in TabRecords /\ tabs[t].going = "login"
  BY DEF NavCommit, TypeInv, TabRecords
<1>2. "login" \in Paths
  BY DEF Paths, AuthRoutes
<1>3. Load(t, "login") /\ UNCHANGED <<plan, server, store, history>> /\ UNCHANGED spent
  BY <1>1 DEF NavCommit
<1> QED BY <1>2, <1>3, LoadTyped

LEMMA VisitTyped ==
  ASSUME TypeInv, NEW t \in Tabs, NEW path \in Paths, Visit(t, path)
  PROVE  TypeInv'
<1>1. Load(t, path) /\ UNCHANGED <<plan, server, store, history>> /\ (UNCHANGED spent \/ Disturb)
  BY DEF Visit
<1> QED BY <1>1, LoadTyped

LEMMA SendTyped ==
  ASSUME TypeInv, NEW t \in Tabs, NEW kind \in Kinds, Send(t, kind)
  PROVE  TypeInv' /\ Posted(Post(t, kind), {})
<1>1. /\ reqs' = Append(reqs, Post(t, kind)) /\ tabs[t].path # None
      /\ signedOut' = (signedOut /\ kind \notin SignIns)
      /\ marks' = marks \cup MarkIf(kind = "logout", "logout")
      /\ kind = "logout" => tokens # None
      /\ UNCHANGED plan /\ UNCHANGED server /\ UNCHANGED store /\ UNCHANGED tabs /\ UNCHANGED spent
  BY DEF Send, Clickable
<1>2. ServerTyped' /\ IssuesOn /\ Tidy
  BY <1>1, SameServer, SameTabs
<1>3. MarksTyped'
  <2>1. Marked(MarkIf(kind = "logout", "logout")) /\ signedOut' \in BOOLEAN
    BY <1>1 DEF Marked, MarkIf, TypeInv, MarksTyped
  <2> QED BY <1>1, <2>1, SameMarks
<1>4. kind \in Kinds \cup {"refresh"} /\ kind # "refresh"
  BY DEF Kinds
<1>5. Post(t, kind) \in Request
  BY <1>4, PostFacts
<1>6. Posted(Post(t, kind), {})
  BY <1>1, <1>5, SendFacts
<1>7. Sound(tabs', issued', Post(t, kind))
  BY <1>1, <1>2, <1>4, PostSound
<1>8. ReqsTyped'
  BY <1>2, <1>6, <1>7, ReqsAdded DEF Posted
<1> QED BY <1>2, <1>3, <1>6, <1>8, Typed

\* A request is answered and gone.
LEMMA DropTyped ==
  ASSUME TypeInv, NEW i \in DOMAIN reqs, Drop(i), Tidy, IssuesOn, ServerTyped', MarksTyped'
  PROVE  TypeInv' /\ Dropped(i)
<1>1. Dropped(i)
  BY DropFacts
<1>2. ReqsTyped'
  BY <1>1, ReqsLeft DEF Dropped
<1> QED BY <1>1, <1>2, Typed

\* Only marks are added.
LEMMA MarksGrow ==
  ASSUME TypeInv, UNCHANGED plan, UNCHANGED spent \/ Disturb, UNCHANGED signedOut,
         NEW m, Marked(m), marks' = marks \cup m
  PROVE  MarksTyped'
<1>1. signedOut' \in BOOLEAN
  BY DEF TypeInv, MarksTyped
<1> QED BY <1>1, SameMarks

LEMMA SameHistory ==
  ASSUME TypeInv, UNCHANGED plan, UNCHANGED spent \/ Disturb, UNCHANGED history
  PROVE  MarksTyped'
<1>1. signedOut' \in BOOLEAN /\ UNCHANGED marks /\ Marked({})
  BY DEF TypeInv, MarksTyped, history, Marked
<1> QED BY <1>1, SameMarks

LEMMA DoneTyped ==
  ASSUME TypeInv, NEW i \in DOMAIN reqs, Done(i), UNCHANGED <<plan, spent>>
  PROVE  TypeInv' /\ Dropped(i) /\ SameRefreshes
<1>1. Drop(i) /\ UNCHANGED server /\ UNCHANGED store /\ UNCHANGED history
  BY DEF Done
<1>2. Tidy /\ SameRefreshes
  <2>1. CASE UNCHANGED tabs
    BY <2>1, SameTabs
  <2>2. CASE tabs' = Pushed(reqs[i].tab, reqs[i].kind, Leads(reqs[i].tab), cookie)
    <3>1. reqs[i].tab \in Tabs /\ Leads(reqs[i].tab) \in Paths
      BY RequestFacts, PageFacts DEF Leads
    <3> QED BY <2>2, <3>1, PushedMoves
  <2> QED BY <2>1, <2>2 DEF Done
<1>3. ServerTyped' /\ IssuesOn
  BY <1>1, SameServer
<1>4. MarksTyped'
  BY <1>1, SameHistory
<1> QED BY <1>1, <1>2, <1>3, <1>4, DropTyped

LEMMA SignedInTyped ==
  ASSUME TypeInv, NEW i \in DOMAIN reqs, SignedIn(i), UNCHANGED <<plan, spent>>
  PROVE  TypeInv' /\ Dropped(i) /\ SameRefreshes
<1>1. /\ Drop(i) /\ UNCHANGED expired /\ UNCHANGED revoked /\ UNCHANGED signedOut
      /\ issued < plan.pairs /\ issued' = issued + 1 /\ tokens' = issued + 1 /\ cookie' = TRUE
      /\ tabs' = Pushed(reqs[i].tab, reqs[i].kind, Leads(reqs[i].tab), TRUE)
      /\ marks' = {} \/ UNCHANGED marks
  BY DEF SignedIn, SetTokens
<1>2. Tidy /\ SameRefreshes
  <2>1. reqs[i].tab \in Tabs /\ Leads(reqs[i].tab) \in Paths
    BY RequestFacts, PageFacts DEF Leads
  <2> QED BY <1>1, <2>1, PushedMoves
<1>3. IssuesOn /\ issued' \in Pairs /\ Known(issued', issued + 1) /\ 1..issued \subseteq 1..issued'
  BY <1>1, IssueFacts
<1>4. ServerTyped'
  BY <1>1, <1>3 DEF TypeInv, ServerTyped
<1>5. MarksTyped'
  <2>1. Marked({}) /\ signedOut' \in BOOLEAN
    BY <1>1 DEF Marked, TypeInv, MarksTyped
  <2> QED BY <1>1, <2>1, SameMarks
<1> QED BY <1>1, <1>2, <1>3, <1>4, <1>5, DropTyped

LEMMA MfaAskedTyped ==
  ASSUME TypeInv, NEW i \in DOMAIN reqs, MfaAsked(i), UNCHANGED <<plan, spent>>
  PROVE  TypeInv' /\ Dropped(i) /\ SameRefreshes
<1>1. Drop(i) /\ UNCHANGED server /\ UNCHANGED store /\ UNCHANGED history
  BY DEF MfaAsked
<1>2. Tidy /\ SameRefreshes
  <2>1. reqs[i].tab \in Tabs /\ "mfa" \in Paths /\ tabs' = Pushed(reqs[i].tab, "login", "mfa", cookie)
    BY RequestFacts DEF MfaAsked, Paths, AuthRoutes
  <2> QED BY <2>1, PushedMoves
<1>3. ServerTyped' /\ IssuesOn
  BY <1>1, SameServer
<1>4. MarksTyped'
  BY <1>1, SameHistory
<1> QED BY <1>1, <1>2, <1>3, <1>4, DropTyped

\* The three answers of the response interceptor to a 401.
WrongMark(r) == MarkIf(r.kind # "api" /\ (Works(r.pair) \/ ~Bearer(r.kind)), "wrong")
Ended(i) ==
  GivesUp(reqs[i]) /\ ClearTokens /\ tabs' = Redirected(reqs[i].tab) /\ Drop(i)
Queued(r) == [r EXCEPT !.step = "queued"]
Queues(i) ==
  /\ ~GivesUp(reqs[i]) /\ tabs[reqs[i].tab].refreshing
  /\ reqs' = [reqs EXCEPT ![i].step = "queued"] /\ UNCHANGED <<store, tabs>>
Starts(i) ==
  ~GivesUp(reqs[i]) /\ ~tabs[reqs[i].tab].refreshing /\ StartRefresh(i) /\ UNCHANGED store

LEMMA InterceptCases ==
  ASSUME NEW i, Intercept(i)
  PROVE  /\ Unauthorized(reqs[i]) /\ (Ended(i) \/ Queues(i) \/ Starts(i))
         /\ marks' = marks \cup WrongMark(reqs[i])
         /\ UNCHANGED server /\ UNCHANGED signedOut
  BY DEF Intercept, Ended, Queues, Starts, WrongMark

LEMMA InterceptMarks ==
  ASSUME TypeInv, NEW i, Intercept(i), UNCHANGED <<plan, spent>>
  PROVE  MarksTyped'
<1>1. Marked(WrongMark(reqs[i]))
  BY DEF WrongMark, MarkIf, Marked
<1> QED BY <1>1, InterceptCases, MarksGrow

LEMMA EndedTyped ==
  ASSUME TypeInv, NEW i \in DOMAIN reqs, Intercept(i), Ended(i), UNCHANGED <<plan, spent>>
  PROVE  TypeInv' /\ Dropped(i) /\ SameRefreshes
<1>1. Tidy /\ SameRefreshes
  BY RequestFacts, RedirectedMoves DEF Ended
<1>2. ServerTyped' /\ IssuesOn
  BY InterceptCases, SameServer DEF Ended, ClearTokens
<1> QED BY <1>1, <1>2, InterceptMarks, DropTyped DEF Ended

LEMMA QueuesTyped ==
  ASSUME TypeInv, NEW i \in DOMAIN reqs, Intercept(i), Queues(i), UNCHANGED <<plan, spent>>
  PROVE  TypeInv' /\ SameRefreshes /\ Became(i, Queued(reqs[i]))
<1>1. Tidy /\ SameRefreshes
  BY SameTabs DEF Queues
<1>2. ServerTyped' /\ IssuesOn
  BY InterceptCases, SameServer DEF Queues
<1>3. Queued(reqs[i]) \in Request /\ reqs' = [reqs EXCEPT ![i] = Queued(reqs[i])]
  <2>1. "queued" \in Steps
    BY DEF Steps
  <2> QED BY <2>1, StepFacts DEF Queues, Queued
<1>4. Became(i, Queued(reqs[i]))
  BY <1>3, SetFacts
<1>5. Sound(tabs', issued', Queued(reqs[i]))
  <2>1. reqs[i] \in Request
    BY RequestFacts
  <2>2. /\ Queued(reqs[i]).tab = reqs[i].tab /\ Queued(reqs[i]).kind = reqs[i].kind
        /\ Queued(reqs[i]).pair = reqs[i].pair /\ Queued(reqs[i]).reply = reqs[i].reply
        /\ reqs[i].kind \notin {"refresh", "logout"}
    BY <2>1, InterceptCases DEF Queued, Request, Unauthorized
  <2> QED BY <1>1, <1>2, <2>2, SoundStep
<1>6. ReqsTyped'
  BY <1>1, <1>2, <1>4, <1>5, ReqsSet
<1> QED BY <1>1, <1>2, <1>4, <1>6, InterceptMarks, Typed

LEMMA WaitingFields ==
  ASSUME NEW r \in Request
  PROVE  /\ Waiting(r).tab = r.tab /\ Waiting(r).kind = r.kind /\ Waiting(r).pair = r.pair
         /\ Waiting(r).reply = r.reply /\ Waiting(r).step = "waiting" /\ Waiting(r).retry = TRUE
  BY DEF Waiting, Request

LEMMA StartsTyped ==
  ASSUME TypeInv, NEW i \in DOMAIN reqs, Intercept(i), Starts(i), UNCHANGED <<plan, spent>>
  PROVE  TypeInv'
<1> DEFINE t == reqs[i].tab
<1>1. PICK h : /\ Places(reqs, reqs', {}, h)
               /\ \A j \in DOMAIN reqs' :
                    \/ h[j] # 0 /\ h[j] # i /\ reqs'[j] = reqs[h[j]]
                    \/ h[j] = i /\ i # 0 /\ reqs'[j] = Waiting(reqs[i])
                    \/ h[j] = 0 /\ reqs'[j] = Post(t, "refresh")
  BY StartFacts DEF Starts
<1>2. Tidy /\ reqs' \in Seq(Request)
  BY StartFacts DEF Starts
<1>3. ServerTyped' /\ IssuesOn
  BY InterceptCases, SameServer DEF Starts
<1>4. reqs[i] \in Request /\ t \in Tabs /\ tabs[t].path # None /\ tokens # None
  BY RequestFacts DEF Sound, Starts, GivesUp
<1>5. Sound(tabs', issued', Waiting(reqs[i]))
  <2>1. reqs[i].kind \notin {"refresh", "logout"}
    BY InterceptCases DEF Unauthorized
  <2> QED BY <1>2, <1>3, <1>4, <2>1, WaitingFields, SoundStep
<1>6. Sound(tabs', issued', Post(t, "refresh"))
  BY <1>2, <1>3, <1>4, PostSound DEF Tidy
<1>7. ASSUME NEW j \in DOMAIN reqs' PROVE Sound(tabs', issued', reqs'[j])
  <2>1. CASE h[j] # 0 /\ h[j] # i
    <3>1. h[j] \in DOMAIN reqs /\ reqs'[j] = reqs[h[j]]
      BY <1>1, <2>1 DEF Places
    <3> QED BY <1>2, <1>3, <3>1, SoundStays
  <2>2. CASE reqs'[j] = Waiting(reqs[i])
    BY <1>5, <2>2
  <2>3. CASE reqs'[j] = Post(t, "refresh")
    BY <1>6, <2>3
  <2> QED BY <1>1, <2>1, <2>2, <2>3
<1>8. ReqsTyped'
  BY <1>2, <1>7 DEF ReqsTyped
<1> QED BY <1>2, <1>3, <1>8, InterceptMarks, Typed

LEMMA FailedFacts ==
  ASSUME TypeInv, NEW i \in DOMAIN reqs, Failed(i), UNCHANGED plan, UNCHANGED spent \/ Disturb
  PROVE  TypeInv' /\ Dropped(i) /\ SameRefreshes
<1>1. /\ Drop(i) /\ UNCHANGED server /\ UNCHANGED store /\ UNCHANGED tabs /\ UNCHANGED signedOut
      /\ marks' = marks \cup {"failed"}
  BY DEF Failed
<1>2. Tidy /\ SameRefreshes /\ ServerTyped' /\ IssuesOn
  BY <1>1, SameTabs, SameServer
<1>3. MarksTyped'
  BY <1>1, MarksGrow DEF Marked
<1> QED BY <1>1, <1>2, <1>3, DropTyped

LEMMA LogoutEndsTyped ==
  ASSUME TypeInv, NEW i \in DOMAIN reqs, LogoutEnds(i), UNCHANGED <<plan, spent>>
  PROVE  TypeInv' /\ Dropped(i) /\ SameRefreshes /\ LoggedOut(reqs[i].tab)
<1>1. LoggedOut(reqs[i].tab) /\ Drop(i) /\ UNCHANGED server /\ reqs[i].tab \in Tabs
  BY RequestFacts DEF LogoutEnds
<1>2. /\ Tidy /\ SameRefreshes /\ tokens' = None /\ cookie' = FALSE
      /\ signedOut' \in BOOLEAN /\ marks' = marks \cup {"logout"}
  BY <1>1, LoggedOutFacts
<1>3. ServerTyped' /\ IssuesOn
  BY <1>1, <1>2, SameServer
<1>4. MarksTyped'
  BY <1>2, SameMarks DEF Marked
<1> QED BY <1>1, <1>2, <1>3, <1>4, DropTyped

\* A request that goes a step further; fields of the records it becomes.
Stepped(r, st) == [r EXCEPT !.step = st]
Replied(r, st, p) == [r EXCEPT !.step = st, !.reply = p]
LEMMA SteppedFields ==
  ASSUME NEW r \in Request, NEW st
  PROVE  /\ Stepped(r, st).tab = r.tab /\ Stepped(r, st).kind = r.kind
         /\ Stepped(r, st).pair = r.pair /\ Stepped(r, st).retry = r.retry
         /\ Stepped(r, st).reply = r.reply /\ Stepped(r, st).step = st
  BY DEF Stepped, Request
LEMMA RepliedFields ==
  ASSUME NEW r \in Request, NEW st, NEW p
  PROVE  /\ Replied(r, st, p).tab = r.tab /\ Replied(r, st, p).kind = r.kind
         /\ Replied(r, st, p).pair = r.pair /\ Replied(r, st, p).retry = r.retry
         /\ Replied(r, st, p).reply = p /\ Replied(r, st, p).step = st
  BY DEF Replied, Request

LEMMA SteppedTyped ==
  ASSUME TypeInv, NEW i \in DOMAIN reqs, NEW st \in Steps, reqs' = [reqs EXCEPT ![i].step = st],
         st \notin {"queued", "waiting"}, UNCHANGED tabs, ServerTyped', IssuesOn, MarksTyped'
  PROVE  TypeInv' /\ SameRefreshes /\ Became(i, Stepped(reqs[i], st))
<1>1. Tidy /\ SameRefreshes
  BY SameTabs
<1>2. Stepped(reqs[i], st) \in Request /\ reqs' = [reqs EXCEPT ![i] = Stepped(reqs[i], st)]
  BY StepFacts DEF Stepped
<1>3. Became(i, Stepped(reqs[i], st))
  BY <1>2, SetFacts
<1>4. Sound(tabs', issued', Stepped(reqs[i], st))
  BY <1>1, RequestFacts, SteppedFields, SoundStep
<1>5. ReqsTyped'
  BY <1>1, <1>3, <1>4, ReqsSet
<1> QED BY <1>1, <1>3, <1>5, Typed

LEMMA RepliedTyped ==
  ASSUME TypeInv, NEW i \in DOMAIN reqs, NEW st \in Steps, NEW p \in MaybePair, Known(issued', p),
         reqs' = [reqs EXCEPT ![i].step = st, ![i].reply = p],
         st \notin {"queued", "waiting"}, UNCHANGED tabs, ServerTyped', IssuesOn, MarksTyped'
  PROVE  TypeInv' /\ SameRefreshes /\ Became(i, Replied(reqs[i], st, p))
<1>1. Tidy /\ SameRefreshes
  BY SameTabs
<1>2. Replied(reqs[i], st, p) \in Request /\ reqs' = [reqs EXCEPT ![i] = Replied(reqs[i], st, p)]
  BY ReplyFacts DEF Replied
<1>3. Became(i, Replied(reqs[i], st, p))
  BY <1>2, SetFacts
<1>4. Sound(tabs', issued', Replied(reqs[i], st, p))
  BY <1>1, RequestFacts, RepliedFields, SoundStep
<1>5. ReqsTyped'
  BY <1>1, <1>3, <1>4, ReqsSet
<1> QED BY <1>1, <1>3, <1>5, Typed

\* The API grants the refresh or denies it.
Grants(i) ==
  /\ reqs[i].pair \notin revoked /\ issued < plan.pairs /\ issued' = issued + 1
  /\ reqs' = [reqs EXCEPT ![i].step = "served", ![i].reply = issued + 1] /\ UNCHANGED marks
Denies(i) ==
  /\ reqs[i].pair \in revoked \/ issued = plan.pairs
  /\ reqs' = [reqs EXCEPT ![i].step = "denied"]
  /\ marks' = marks \cup MarkIf(reqs[i].pair \notin revoked, "lost") /\ UNCHANGED issued
LEMMA ServedCases ==
  ASSUME NEW i, RefreshServed(i)
  PROVE  /\ reqs[i].kind = "refresh" /\ reqs[i].step = "sent" /\ (Grants(i) \/ Denies(i))
         /\ UNCHANGED expired /\ UNCHANGED revoked /\ UNCHANGED store
         /\ UNCHANGED tabs /\ UNCHANGED signedOut
  BY DEF RefreshServed, Grants, Denies

LEMMA GrantsTyped ==
  ASSUME TypeInv, NEW i \in DOMAIN reqs, RefreshServed(i), Grants(i), UNCHANGED <<plan, spent>>
  PROVE  TypeInv' /\ SameRefreshes /\ Became(i, Replied(reqs[i], "served", issued + 1))
<1>1. /\ IssuesOn /\ issued' \in Pairs /\ Known(issued', issued + 1) /\ issued + 1 \in MaybePair
      /\ 1..issued \subseteq 1..issued' /\ \A p : Known(issued, p) => Known(issued', p)
  BY IssueFacts DEF Grants
<1>2. ServerTyped'
  BY <1>1, ServedCases DEF TypeInv, ServerTyped, store
<1>3. MarksTyped'
  BY ServedCases, SameHistory DEF Grants, history
<1>4. "served" \in Steps /\ UNCHANGED tabs
  BY ServedCases DEF Steps
<1>5. reqs' = [reqs EXCEPT ![i].step = "served", ![i].reply = issued + 1]
  BY DEF Grants
<1> QED BY <1>1, <1>2, <1>3, <1>4, <1>5, RepliedTyped

LEMMA DeniesTyped ==
  ASSUME TypeInv, NEW i \in DOMAIN reqs, RefreshServed(i), Denies(i), UNCHANGED <<plan, spent>>
  PROVE  TypeInv' /\ SameRefreshes /\ Became(i, Stepped(reqs[i], "denied"))
<1>1. UNCHANGED server /\ UNCHANGED store /\ UNCHANGED tabs
  BY ServedCases DEF Denies, server
<1>2. ServerTyped' /\ IssuesOn
  BY <1>1, SameServer
<1>3. MarksTyped'
  <2>1. Marked(MarkIf(reqs[i].pair \notin revoked, "lost"))
    BY DEF Marked, MarkIf
  <2>2. marks' = marks \cup MarkIf(reqs[i].pair \notin revoked, "lost") /\ UNCHANGED signedOut
    BY ServedCases DEF Denies
  <2> QED BY <2>1, <2>2, MarksGrow
<1>4. "denied" \in Steps /\ reqs' = [reqs EXCEPT ![i].step = "denied"]
  BY DEF Steps, Denies
<1> QED BY <1>1, <1>2, <1>3, <1>4, SteppedTyped

LEMMA RefreshLostTyped ==
  ASSUME TypeInv, NEW i \in DOMAIN reqs, RefreshLost(i), Disturb, UNCHANGED plan
  PROVE  TypeInv' /\ SameRefreshes /\ Became(i, Replied(reqs[i], "denied", None))
<1>1. /\ UNCHANGED server /\ UNCHANGED store /\ UNCHANGED tabs /\ UNCHANGED signedOut
      /\ reqs' = [reqs EXCEPT ![i].step = "denied", ![i].reply = None]
      /\ marks' = marks \cup {"lost"}
  BY DEF RefreshLost
<1>2. ServerTyped' /\ IssuesOn
  BY <1>1, SameServer
<1>3. MarksTyped'
  BY <1>1, MarksGrow DEF Marked
<1>4. "denied" \in Steps /\ None \in MaybePair /\ Known(issued', None)
  BY DEF Steps, MaybePair, Known
<1> QED BY <1>1, <1>2, <1>3, <1>4, RepliedTyped

LEMMA LogoutServedTyped ==
  ASSUME TypeInv, NEW i \in DOMAIN reqs, LogoutServed(i), UNCHANGED <<plan, spent>>
  PROVE  TypeInv' /\ SameRefreshes /\ Became(i, Stepped(reqs[i], "served"))
<1>1. /\ UNCHANGED issued /\ UNCHANGED expired /\ UNCHANGED store /\ UNCHANGED tabs
      /\ UNCHANGED history /\ reqs' = [reqs EXCEPT ![i].step = "served"]
      /\ revoked' = revoked \cup {reqs[i].pair}
  BY DEF LogoutServed
<1>2. reqs[i].pair \in 1..issued
  BY RequestFacts DEF Sound, Known, LogoutServed
<1>3. ServerTyped' /\ IssuesOn
  BY <1>1, <1>2, SameIssues DEF TypeInv, ServerTyped, store
<1>4. MarksTyped'
  BY <1>1, SameHistory
<1>5. "served" \in Steps
  BY DEF Steps
<1> QED BY <1>1, <1>3, <1>4, <1>5, SteppedTyped

LEMMA LogoutLostTyped ==
  ASSUME TypeInv, NEW i \in DOMAIN reqs, LogoutLost(i), Disturb, UNCHANGED plan
  PROVE  TypeInv' /\ SameRefreshes /\ Became(i, Stepped(reqs[i], "denied"))
<1>1. /\ UNCHANGED server /\ UNCHANGED store /\ UNCHANGED tabs
      /\ UNCHANGED history /\ reqs' = [reqs EXCEPT ![i].step = "denied"]
  BY DEF LogoutLost
<1>3. ServerTyped' /\ IssuesOn
  BY <1>1, SameServer
<1>4. MarksTyped'
  BY <1>1, SameHistory
<1>5. "denied" \in Steps
  BY DEF Steps
<1> QED BY <1>1, <1>3, <1>4, <1>5, SteppedTyped

LEMMA AgainFields ==
  ASSUME NEW t, NEW p, NEW r \in Request
  PROVE  /\ Again(t, p, r).tab = r.tab /\ Again(t, p, r).kind = r.kind
         /\ Again(t, p, r).reply = r.reply /\ Again(t, p, r).retry = r.retry
         /\ \/ Again(t, p, r) = r /\ (r.tab = t => r.step \notin {"queued", "waiting"})
            \/ /\ r.tab = t /\ r.step \in {"queued", "waiting"} /\ Again(t, p, r).step = "sent"
               /\ Again(t, p, r).pair = IF Bearer(r.kind) THEN p ELSE None
  BY DEF Again, Resent, Request

LEMMA ArrivesTyped ==
  ASSUME TypeInv, NEW i \in DOMAIN reqs, RefreshArrives(i), UNCHANGED <<plan, spent>>
  PROVE  TypeInv'
<1> DEFINE t == reqs[i].tab
           p == reqs[i].reply
<1>1. PICK h : /\ Places(reqs, reqs', {i}, h)
               /\ \A j \in DOMAIN reqs' : h[j] # 0 /\ reqs'[j] = Again(t, p, reqs[h[j]])
  BY ArrivesFacts
<1>2. Tidy /\ reqs' \in Seq(Request)
  BY ArrivesFacts
<1>3. Known(issued, p) /\ tokens' = p /\ cookie' = TRUE /\ UNCHANGED server /\ UNCHANGED history
  BY RequestFacts DEF RefreshArrives, SetTokens, Sound
<1>4. ServerTyped' /\ IssuesOn /\ UNCHANGED issued
  BY <1>3, SameServer DEF server
<1>5. MarksTyped'
  BY <1>3, SameHistory
<1> HIDE DEF t, p
<1>6. ASSUME NEW j \in DOMAIN reqs' PROVE Sound(tabs', issued', reqs'[j])
  <2>1. h[j] \in DOMAIN reqs /\ reqs'[j] = Again(t, p, reqs[h[j]])
    BY <1>1 DEF Places
  <2>2. Sound(tabs', issued', reqs[h[j]]) /\ reqs[h[j]] \in Request
    BY <1>2, <1>4, <2>1, SoundStays, RequestFacts
  <2>3. Known(issued', None) /\ Known(issued', p)
    BY <1>3, <1>4 DEF Known
  <2>4. /\ reqs'[j].tab = reqs[h[j]].tab /\ reqs'[j].kind = reqs[h[j]].kind
        /\ reqs'[j].reply = reqs[h[j]].reply
        /\ \/ reqs'[j] = reqs[h[j]]
           \/ reqs[h[j]].step \in {"queued", "waiting"} /\ reqs'[j].pair \in {p, None}
    BY <2>1, <2>2, AgainFields
  <2> QED BY <2>2, <2>3, <2>4 DEF Sound
<1>7. ReqsTyped'
  BY <1>2, <1>6 DEF ReqsTyped
<1> QED BY <1>2, <1>4, <1>5, <1>7, Typed

LEMMA FailsTyped ==
  ASSUME TypeInv, NEW i \in DOMAIN reqs, RefreshFails(i), UNCHANGED <<plan, spent>>
  PROVE  TypeInv'
<1>1. Tidy /\ Left(Request, reqs, reqs', {k \in DOMAIN reqs : Reject(reqs[i].tab, reqs[k])})
  BY FailsFacts
<1>2. tokens' = None /\ cookie' = FALSE /\ UNCHANGED server /\ UNCHANGED history
  BY DEF RefreshFails, ClearTokens
<1>3. ServerTyped' /\ IssuesOn
  BY <1>2, SameServer
<1>4. MarksTyped'
  BY <1>2, SameHistory
<1>5. ReqsTyped'
  BY <1>1, <1>3, ReqsLeft
<1> QED BY <1>1, <1>3, <1>4, <1>5, Typed

LEMMA AnswerTyped ==
  ASSUME TypeInv, NEW i \in DOMAIN reqs, Progress(i) \/ Lost(i)
  PROVE  TypeInv'
<1>1. CASE Answer(i)
  <2>0. UNCHANGED <<plan, spent>>
    BY <1>1 DEF Answer
  <2>1. CASE Intercept(i)
    <3>1. Ended(i) \/ Queues(i) \/ Starts(i)
      BY <2>1, InterceptCases
    <3> QED BY <2>0, <2>1, <3>1, EndedTyped, QueuesTyped, StartsTyped
  <2>2. CASE RefreshServed(i)
    <3>1. Grants(i) \/ Denies(i)
      BY <2>2, ServedCases
    <3> QED BY <2>0, <2>2, <3>1, GrantsTyped, DeniesTyped
  <2> QED BY <1>1, <2>0, <2>1, <2>2, DoneTyped, SignedInTyped, MfaAskedTyped, ArrivesTyped,
             FailsTyped, LogoutServedTyped, LogoutEndsTyped DEF Answer
<1>2. CASE Lost(i)
  BY <1>2, FailedFacts, RefreshLostTyped, LogoutLostTyped DEF Lost
<1>3. CASE SignInRefused(i)
  BY <1>3, FailedFacts DEF SignInRefused
<1> QED BY <1>1, <1>2, <1>3 DEF Progress

LEMMA TypeStep ==
  ASSUME TypeInv, Next
  PROVE  TypeInv'
<1>1. CASE Expires
  BY <1>1, ExpiresTyped
<1>2. ASSUME NEW i \in DOMAIN reqs, Progress(i) \/ Lost(i) PROVE TypeInv'
  BY <1>2, AnswerTyped
<1>3. ASSUME NEW t \in Tabs, NavCommit(t) \/ LogoutLocally(t) PROVE TypeInv'
  BY <1>3, NavTyped, LogoutLocallyTyped
<1>4. ASSUME NEW t \in Tabs, NEW p \in Paths, Visit(t, p) \/ FollowLink(t, p) PROVE TypeInv'
  BY <1>4, VisitTyped, FollowLinkTyped
<1>5. ASSUME NEW t \in Tabs, NEW k \in Kinds, Send(t, k) PROVE TypeInv'
  BY <1>5, SendTyped
<1> QED BY <1>1, <1>2, <1>3, <1>4, <1>5 DEF Next

LEMMA TypeInit == Init => TypeInv
<1> SUFFICES ASSUME Init PROVE TypeInv
  OBVIOUS
<1>1. 1 \in Pairs
  BY WebClientAssumption DEF Pairs
<1>2. ServerTyped
  <2>1. cookie \in BOOLEAN /\ tokens \in {1, None}
    BY DEF Init
  <2>2. issued = 1 /\ expired = {} /\ revoked = {} /\ 1 \in 1..1
    BY DEF Init
  <2> QED BY <1>1, <2>1, <2>2 DEF ServerTyped, Known
<1>3. tabs \in [Tabs -> TabRecords]
  BY DEF Init, TabRecords
<1>4. ReqsTyped
  BY DEF Init, ReqsTyped
<1>5. plan \in [tabs : SUBSET Tabs, kinds : SUBSET Kinds, pairs : 1..MaxPairs,
                reqs : Nat, budget : Nat]
  BY WebClientAssumption DEF Init
<1>6. MarksTyped
  <2>1. plan.budget \in Nat
    BY <1>5
  <2>2. plan \in Plans /\ spent = 0 /\ signedOut = FALSE /\ marks = {}
    BY DEF Init
  <2>3. spent \in 0..plan.budget
    BY <2>1, <2>2
  <2> QED BY <2>2, <2>3 DEF MarksTyped
<1> QED BY <1>2, <1>3, <1>4, <1>6 DEF TypeInv

LEMMA TypeStutters == TypeInv /\ UNCHANGED vars => TypeInv'
  BY DEF TypeInv, vars, server, store, history, ServerTyped, ReqsTyped, MarksTyped, Sound, Known

LEMMA TypeAlways == Spec => []TypeInv
<1>1. TypeInv /\ [Next]_vars => TypeInv'
  BY TypeStep, TypeStutters
<1> QED BY <1>1, TypeInit, PTL DEF Spec

\* Every variable of the web client has its type, whatever the tabs, the plans of
\* the user and the pairs the API issues (api-client.ts, token-store.ts).
THEOREM WebClientTyped == Spec => []TypeOK
<1>1. ASSUME TypeInv PROVE TypeOK
  <2>1. issued \in Pairs /\ issued \in Nat /\ issued <= MaxPairs
    BY <1>1 DEF TypeInv, ServerTyped, Pairs
  <2>2. expired \subseteq Pairs /\ revoked \subseteq Pairs /\ tokens \in MaybePair /\ cookie \in BOOLEAN
    BY <1>1, <2>1 DEF TypeInv, ServerTyped, Known, Pairs, MaybePair
  <2>3. \A r \in Requests : r.kind = "refresh" => r.pair \in Pairs
    <3> SUFFICES ASSUME NEW i \in DOMAIN reqs, reqs[i].kind = "refresh" PROVE reqs[i].pair \in Pairs
      BY DEF Requests, Range
    <3> QED BY <1>1, <2>1, RequestFacts DEF Sound, Known, Pairs
  <2>4. tabs \in [Tabs -> [path : Paths \cup {None}, going : {"login", None}, refreshing : BOOLEAN]]
    BY <1>1 DEF TypeInv, TabRecords
  <2> QED BY <1>1, <2>1, <2>2, <2>3, <2>4 DEF TypeOK, TypeInv, ReqsTyped, MarksTyped
<1> QED BY <1>1, TypeAlways, PTL

----------------------------------------------------------------------------
(* Signed out, the browser gets no tokens.                                 *)

\* No request of the browser can bring tokens.
Quiet == \A i \in DOMAIN reqs : reqs[i].kind \notin SignIns \cup {"refresh"}
OutInv == signedOut => tokens = None /\ ~cookie /\ Quiet

LEMMA PostKind == \A t, kind : Post(t, kind).kind = kind /\ Post(t, kind).tab = t
  BY DEF Post

LEMMA QuietIsNot == TokensUnderWay <=> ~Quiet
  BY DEF TokensUnderWay, Quiet, Requests, Range

LEMMA QuietLeft ==
  ASSUME Quiet, NEW gone, Left(Request, reqs, reqs', gone) PROVE Quiet'
  BY DEF Left, Places, Quiet

LEMMA QuietAdded ==
  ASSUME Quiet, NEW gone, NEW x, Added(Request, reqs, reqs', gone, x),
         x.kind \notin SignIns \cup {"refresh"}
  PROVE  Quiet'
<1>1. PICK h : /\ Places(reqs, reqs', gone, h)
               /\ \A j \in DOMAIN reqs' : \/ h[j] # 0 /\ reqs'[j] = reqs[h[j]]
                                          \/ h[j] = 0 /\ reqs'[j] = x
  BY DEF Added
<1>2. ASSUME NEW j \in DOMAIN reqs' PROVE reqs'[j].kind \notin SignIns \cup {"refresh"}
  BY <1>1, <1>2 DEF Places, Quiet
<1> QED BY <1>2 DEF Quiet

LEMMA QuietSet ==
  ASSUME Quiet, NEW i \in DOMAIN reqs, NEW r, Became(i, r), r.kind = reqs[i].kind PROVE Quiet'
  BY DEF Became, Quiet

\* Whatever leaves the store alone and brings no request for tokens.
LEMMA OutStays ==
  ASSUME OutInv, signedOut' => signedOut, UNCHANGED store, Quiet => Quiet' PROVE OutInv'
  BY DEF OutInv, store

LEMMA OutLoad ==
  ASSUME TypeInv, OutInv, NEW t \in Tabs, NEW path \in Paths, Load(t, path), UNCHANGED store, UNCHANGED history
  PROVE  OutInv'
<1>1. \/ Left(Request, reqs, reqs', {k \in DOMAIN reqs : reqs[k].tab \in {t}})
      \/ Posted(Post(t, "api"), {t})
  BY LoadFacts
<1>2. Post(t, "api").kind \notin SignIns \cup {"refresh"}
  BY PostKind DEF SignIns
<1>3. Quiet => Quiet'
  BY <1>1, <1>2, QuietLeft, QuietAdded DEF Posted
<1>4. signedOut' => signedOut
  BY DEF history
<1> QED BY <1>3, <1>4, OutStays

LEMMA OutNav ==
  ASSUME TypeInv, OutInv, NEW t \in Tabs, NavCommit(t) PROVE OutInv'
<1>1. "login" \in Paths /\ Load(t, "login") /\ UNCHANGED store /\ UNCHANGED history
  BY DEF NavCommit, TypeInv, TabRecords, Paths, AuthRoutes
<1> QED BY <1>1, OutLoad

LEMMA OutVisit ==
  ASSUME TypeInv, OutInv, NEW t \in Tabs, NEW path \in Paths, Visit(t, path) PROVE OutInv'
<1>1. Load(t, path) /\ UNCHANGED store /\ UNCHANGED history
  BY DEF Visit
<1> QED BY <1>1, OutLoad

LEMMA OutSend ==
  ASSUME TypeInv, OutInv, NEW t \in Tabs, NEW kind \in Kinds, Send(t, kind) PROVE OutInv'
<1>1. UNCHANGED store /\ signedOut' = (signedOut /\ kind \notin SignIns)
  BY DEF Send
<1>2. CASE kind \in SignIns
  BY <1>1, <1>2 DEF OutInv
<1>3. CASE kind \notin SignIns
  <2>1. Posted(Post(t, kind), {})
    BY SendTyped
  <2>2. Post(t, kind).kind \notin SignIns \cup {"refresh"}
    BY <1>3, PostKind DEF Kinds
  <2>3. Quiet => Quiet'
    BY <2>1, <2>2, QuietAdded DEF Posted
  <2> QED BY <1>1, <2>3, OutStays
<1> QED BY <1>2, <1>3

\* The steps at which the store is cleared because the user logs out.
LEMMA OutLogoutLocally ==
  ASSUME TypeInv, NEW t \in Tabs, LogoutLocally(t) PROVE OutInv'
<1>1. UNCHANGED reqs /\ LoggedOut(t)
  BY DEF LogoutLocally
<1>2. tokens' = None /\ cookie' = FALSE /\ (signedOut' => Quiet)
  BY <1>1, LoggedOutFacts, QuietIsNot
<1>3. Quiet => Quiet'
  BY <1>1 DEF Quiet
<1> QED BY <1>2, <1>3 DEF OutInv

LEMMA OutLogoutEnds ==
  ASSUME TypeInv, NEW i \in DOMAIN reqs, LogoutEnds(i), UNCHANGED <<plan, spent>> PROVE OutInv'
<1>1. Dropped(i) /\ LoggedOut(reqs[i].tab) /\ reqs[i].tab \in Tabs
  BY LogoutEndsTyped, RequestFacts
<1>2. tokens' = None /\ cookie' = FALSE /\ (signedOut' => Quiet)
  BY <1>1, LoggedOutFacts, QuietIsNot
<1>3. Quiet => Quiet'
  BY <1>1, QuietLeft DEF Dropped
<1> QED BY <1>2, <1>3 DEF OutInv

LEMMA OutExpires ==
  ASSUME OutInv, Expires PROVE OutInv'
<1>1. UNCHANGED tokens /\ UNCHANGED reqs /\ UNCHANGED signedOut
  BY DEF Expires
<1>3. cookie' = FALSE \/ cookie' = cookie
  BY DEF Expires, CookieEnds, AccessEnds, RefreshEnds
<1>2. Quiet => Quiet'
  BY <1>1 DEF Quiet
<1> QED BY <1>1, <1>2, <1>3 DEF OutInv

\* A request that can bring tokens ends the case: the user is not signed out.
LEMMA OutTokens ==
  ASSUME OutInv, NEW i \in DOMAIN reqs, reqs[i].kind \in SignIns \cup {"refresh"}, UNCHANGED signedOut
  PROVE  OutInv'
  BY DEF OutInv, Quiet

LEMMA OutDropped ==
  ASSUME OutInv, NEW i, Dropped(i), UNCHANGED signedOut,
         UNCHANGED store \/ (tokens' = None /\ cookie' = FALSE)
  PROVE  OutInv'
<1>1. Quiet => Quiet'
  BY QuietLeft DEF Dropped
<1> QED BY <1>1 DEF OutInv, store

LEMMA OutIntercept ==
  ASSUME TypeInv, OutInv, NEW i \in DOMAIN reqs, Intercept(i), UNCHANGED <<plan, spent>> PROVE OutInv'
<1>1. UNCHANGED signedOut
  BY InterceptCases
<1>2. CASE Ended(i)
  BY <1>1, <1>2, EndedTyped, OutDropped DEF Ended, ClearTokens
<1>3. CASE Queues(i)
  <2>1. Became(i, Queued(reqs[i])) /\ Queued(reqs[i]).kind = reqs[i].kind
    BY <1>3, QueuesTyped, RequestFacts DEF Queued, Request
  <2>2. Quiet => Quiet'
    BY <2>1, QuietSet
  <2> QED BY <1>1, <1>3, <2>2, OutStays DEF Queues
<1>4. CASE Starts(i)
  <2>1. tokens # None
    BY <1>4 DEF Starts, GivesUp
  <2> QED BY <1>1, <2>1 DEF OutInv
<1> QED BY <1>2, <1>3, <1>4, InterceptCases

LEMMA OutLogout ==
  ASSUME TypeInv, OutInv, NEW i \in DOMAIN reqs,
         \/ LogoutServed(i) /\ UNCHANGED <<plan, spent>>
         \/ LogoutLost(i) /\ Disturb /\ UNCHANGED plan
  PROVE  OutInv'
<1>1. UNCHANGED store /\ UNCHANGED signedOut
  BY DEF LogoutServed, LogoutLost, history
<1>2. Became(i, Stepped(reqs[i], "served")) \/ Became(i, Stepped(reqs[i], "denied"))
  BY LogoutServedTyped, LogoutLostTyped
<1>3. \A st : Stepped(reqs[i], st).kind = reqs[i].kind
  BY RequestFacts, SteppedFields
<1>4. Quiet => Quiet'
  BY <1>2, <1>3, QuietSet
<1> QED BY <1>1, <1>4, OutStays

LEMMA OutAnswer ==
  ASSUME TypeInv, OutInv, NEW i \in DOMAIN reqs, Progress(i) \/ Lost(i)
  PROVE  OutInv'
<1>1. CASE Answer(i)
  <2>0. UNCHANGED <<plan, spent>>
    BY <1>1 DEF Answer
  <2>1. CASE Done(i) \/ MfaAsked(i)
    <3>1. UNCHANGED store /\ UNCHANGED signedOut
      BY <2>1 DEF Done, MfaAsked, history
    <3> QED BY <2>0, <2>1, <3>1, DoneTyped, MfaAskedTyped, OutDropped
  <2>2. CASE SignedIn(i) \/ RefreshServed(i) \/ RefreshArrives(i) \/ RefreshFails(i)
    <3>1. reqs[i].kind \in SignIns \cup {"refresh"} /\ UNCHANGED signedOut
      BY <2>2 DEF SignedIn, RefreshServed, RefreshArrives, RefreshFails, history
    <3> QED BY <3>1, OutTokens
  <2> QED BY <1>1, <2>0, <2>1, <2>2, OutIntercept, OutLogout, OutLogoutEnds DEF Answer
<1>2. CASE Lost(i)
  <2>0. Disturb /\ UNCHANGED plan
    BY <1>2 DEF Lost
  <2>1. CASE Failed(i)
    <3>1. UNCHANGED store /\ UNCHANGED signedOut /\ Dropped(i)
      BY <2>0, <2>1, FailedFacts DEF Failed
    <3> QED BY <3>1, OutDropped
  <2>2. CASE RefreshLost(i)
    BY <2>2, OutTokens DEF RefreshLost
  <2> QED BY <1>2, <2>0, <2>1, <2>2, OutLogout DEF Lost
<1>3. CASE SignInRefused(i)
  <2>1. UNCHANGED store /\ UNCHANGED signedOut /\ Dropped(i)
    BY <1>3, FailedFacts DEF SignInRefused, Failed
  <2> QED BY <2>1, OutDropped
<1> QED BY <1>1, <1>2, <1>3 DEF Progress

LEMMA OutStep ==
  ASSUME TypeInv, OutInv, Next
  PROVE  OutInv'
<1>1. CASE Expires
  BY <1>1, OutExpires
<1>2. ASSUME NEW i \in DOMAIN reqs, Progress(i) \/ Lost(i) PROVE OutInv'
  BY <1>2, OutAnswer
<1>3. ASSUME NEW t \in Tabs, NavCommit(t) \/ LogoutLocally(t) PROVE OutInv'
  BY <1>3, OutNav, OutLogoutLocally
<1>4. ASSUME NEW t \in Tabs, NEW p \in Paths, Visit(t, p) \/ FollowLink(t, p) PROVE OutInv'
  <2>1. CASE Visit(t, p)
    BY <2>1, OutVisit
  <2>2. CASE FollowLink(t, p)
    <3>1. UNCHANGED store /\ UNCHANGED signedOut /\ (Quiet => Quiet')
      BY <2>2 DEF FollowLink, history, Quiet
    <3> QED BY <3>1, OutStays
  <2> QED BY <1>4, <2>1, <2>2
<1>5. ASSUME NEW t \in Tabs, NEW k \in Kinds, Send(t, k) PROVE OutInv'
  BY <1>5, OutSend
<1> QED BY <1>1, <1>2, <1>3, <1>4, <1>5 DEF Next

\* After a logout during which no refresh and no sign-in was under way no tab
\* of the browser gets tokens, and the middleware lets none into the dashboard
\* (AuthService.logout, tokenStore.clear, middleware.ts).
THEOREM SignedOutHolds == Spec => []SignedOutStays
<1>1. Init => OutInv
  BY DEF Init, OutInv
<1>2. OutInv /\ UNCHANGED vars => OutInv'
  BY DEF OutInv, Quiet, vars, store, history
<1>3. TypeInv /\ OutInv /\ [Next]_vars => OutInv'
  BY <1>2, OutStep
<1>4. OutInv => SignedOutStays
  BY DEF OutInv, SignedOutStays
<1> QED BY <1>1, <1>3, <1>4, TypeAlways, PTL DEF Spec

----------------------------------------------------------------------------
(* One refresh per tab, and the request that asked for it waits.           *)

IsRefresh(r) == r.kind = "refresh"
Asks(r) == r.step = "waiting" /\ r.retry = TRUE /\ ~IsRefresh(r)
Shaped(r) == IsRefresh(r) => /\ r.step \in {"sent", "served", "denied"} /\ r.retry = FALSE
                             /\ r.step = "served" <=> r.reply # None
RefreshInv ==
  \A i \in DOMAIN reqs : IsRefresh(reqs[i]) =>
    /\ Shaped(reqs[i]) /\ tabs[reqs[i].tab].refreshing
    /\ \A j \in DOMAIN reqs : IsRefresh(reqs[j]) /\ reqs[j].tab = reqs[i].tab => j = i
    /\ \E j \in DOMAIN reqs : reqs[j].tab = reqs[i].tab /\ Asks(reqs[j])

\* Refreshes come neither new nor changed, and only tabs in T, which have none left,
\* change their flag and lose those that asked.
LEMMA RefreshesFollow ==
  ASSUME TypeInv, RefreshInv, NEW gone, NEW h, NEW T, Places(reqs, reqs', gone, h),
         \A j \in DOMAIN reqs' :
           \/ h[j] # 0 /\ reqs'[j] = reqs[h[j]]
           \/ ~IsRefresh(reqs'[j]) /\ (h[j] # 0 => reqs[h[j]].tab \in T),
         \A u \in Tabs \ T : tabs'[u].refreshing = tabs[u].refreshing,
         \A k \in gone : Asks(reqs[k]) => reqs[k].tab \in T,
         \A k \in DOMAIN reqs \ gone : IsRefresh(reqs[k]) => reqs[k].tab \notin T
  PROVE  RefreshInv'
<1>1. ASSUME NEW i \in DOMAIN reqs', IsRefresh(reqs'[i])
      PROVE  h[i] \in DOMAIN reqs \ gone /\ reqs'[i] = reqs[h[i]] /\ reqs[h[i]].tab \notin T
  BY <1>1 DEF Places
<1>2. ASSUME NEW i \in DOMAIN reqs', IsRefresh(reqs'[i])
      PROVE  /\ Shaped(reqs'[i]) /\ tabs'[reqs'[i].tab].refreshing
             /\ \A j \in DOMAIN reqs' : IsRefresh(reqs'[j]) /\ reqs'[j].tab = reqs'[i].tab => j = i
             /\ \E j \in DOMAIN reqs' : reqs'[j].tab = reqs'[i].tab /\ Asks(reqs'[j])
  <2>1. h[i] \in DOMAIN reqs \ gone /\ reqs'[i] = reqs[h[i]] /\ reqs[h[i]].tab \in Tabs \ T
    BY <1>1, <1>2, RequestFacts
  <2>2. Shaped(reqs[h[i]]) /\ tabs[reqs[h[i]].tab].refreshing
    BY <1>2, <2>1 DEF RefreshInv
  <2>3. ASSUME NEW j \in DOMAIN reqs', IsRefresh(reqs'[j]), reqs'[j].tab = reqs'[i].tab PROVE j = i
    <3>1. h[j] \in DOMAIN reqs /\ reqs'[j] = reqs[h[j]]
      BY <1>1, <2>3
    <3>2. h[j] = h[i]
      BY <1>2, <2>1, <2>3, <3>1 DEF RefreshInv
    <3> QED BY <3>2 DEF Places
  <2>4. \E j \in DOMAIN reqs' : reqs'[j].tab = reqs'[i].tab /\ Asks(reqs'[j])
    <3>1. PICK k \in DOMAIN reqs : reqs[k].tab = reqs[h[i]].tab /\ Asks(reqs[k])
      BY <1>2, <2>1 DEF RefreshInv
    <3>2. k \notin gone
      BY <2>1, <3>1
    <3>3. PICK j \in DOMAIN reqs' : h[j] = k
      BY <3>2 DEF Places
    <3>4. h[j] # 0
      BY <3>3, RequestSet
    <3>5. reqs'[j] = reqs[k]
      BY <2>1, <3>1, <3>3, <3>4
    <3> QED BY <2>1, <3>1, <3>5
  <2> QED BY <2>1, <2>2, <2>3, <2>4
<1> QED BY <1>2 DEF RefreshInv

LEMMA RefreshesLeft ==
  ASSUME TypeInv, RefreshInv, NEW gone, NEW T, Left(Request, reqs, reqs', gone),
         \A u \in Tabs \ T : tabs'[u].refreshing = tabs[u].refreshing,
         \A k \in gone : Asks(reqs[k]) => reqs[k].tab \in T,
         \A k \in DOMAIN reqs \ gone : IsRefresh(reqs[k]) => reqs[k].tab \notin T
  PROVE  RefreshInv'
<1>1. PICK h : /\ Places(reqs, reqs', gone, h)
               /\ \A j \in DOMAIN reqs' : h[j] # 0 /\ reqs'[j] = reqs[h[j]]
  BY DEF Left
<1> QED BY <1>1, RefreshesFollow, SMTT(20)

LEMMA RefreshesPosted ==
  ASSUME TypeInv, RefreshInv, NEW x, NEW T, Posted(x, T), ~IsRefresh(x),
         \A u \in Tabs \ T : tabs'[u].refreshing = tabs[u].refreshing
  PROVE  RefreshInv'
<1> DEFINE gone == {k \in DOMAIN reqs : reqs[k].tab \in T}
<1>1. PICK h : /\ Places(reqs, reqs', gone, h)
               /\ \A j \in DOMAIN reqs' : \/ h[j] # 0 /\ reqs'[j] = reqs[h[j]]
                                          \/ h[j] = 0 /\ reqs'[j] = x
  BY DEF Posted, Added
<1>2. \A k \in DOMAIN reqs : k \in gone <=> reqs[k].tab \in T
  OBVIOUS
<1>3. gone \subseteq DOMAIN reqs
  OBVIOUS
<1> HIDE DEF gone
<1>4. \A j \in DOMAIN reqs' :
        \/ h[j] # 0 /\ reqs'[j] = reqs[h[j]]
        \/ ~IsRefresh(reqs'[j]) /\ (h[j] # 0 => reqs[h[j]].tab \in T)
  BY <1>1
<1> QED BY <1>1, <1>2, <1>3, <1>4, RefreshesFollow

LEMMA RefreshesSame ==
  ASSUME RefreshInv, UNCHANGED reqs, TypeInv, SameRefreshes
  PROVE  RefreshInv'
<1>1. \A i \in DOMAIN reqs : tabs'[reqs[i].tab].refreshing = tabs[reqs[i].tab].refreshing
  BY RequestFacts DEF SameRefreshes
<1> QED BY <1>1 DEF RefreshInv

\* Request i, which does not ask for a refresh, is gone.
LEMMA RefreshesDropped ==
  ASSUME TypeInv, RefreshInv, NEW i, Dropped(i), SameRefreshes, ~Asks(reqs[i])
  PROVE  RefreshInv'
<1>1. PICK T : T = {}
  OBVIOUS
<1>2. PICK gone : gone = {i}
  OBVIOUS
<1>3. \A u \in Tabs \ T : tabs'[u].refreshing = tabs[u].refreshing
  BY DEF SameRefreshes
<1>4. \A k \in gone : Asks(reqs[k]) => reqs[k].tab \in T
  BY <1>2
<1>5. \A k \in DOMAIN reqs \ gone : IsRefresh(reqs[k]) => reqs[k].tab \notin T
  BY <1>1
<1>6. Left(Request, reqs, reqs', gone)
  BY <1>2 DEF Dropped
<1> QED BY <1>3, <1>4, <1>5, <1>6, RefreshesLeft

\* Request i, which does not ask for a refresh, goes a step further.
LEMMA RefreshesSet ==
  ASSUME TypeInv, RefreshInv, NEW i \in DOMAIN reqs, NEW r, Became(i, r), SameRefreshes,
         ~Asks(reqs[i]), r.tab = reqs[i].tab, r.kind = reqs[i].kind, Shaped(r)
  PROVE  RefreshInv'
<1>1. \A j \in DOMAIN reqs : tabs'[reqs[j].tab].refreshing = tabs[reqs[j].tab].refreshing
  BY RequestFacts DEF SameRefreshes
<1>2. /\ DOMAIN reqs' = DOMAIN reqs /\ reqs'[i] = r
      /\ \A j \in DOMAIN reqs \ {i} : reqs'[j] = reqs[j]
  BY DEF Became
<1>3. \A j \in DOMAIN reqs : /\ reqs'[j].tab = reqs[j].tab
                             /\ IsRefresh(reqs'[j]) <=> IsRefresh(reqs[j])
                             /\ Asks(reqs[j]) => Asks(reqs'[j])
                             /\ Shaped(reqs[j]) => Shaped(reqs'[j])
  BY <1>2 DEF IsRefresh
<1> QED BY <1>1, <1>2, <1>3 DEF RefreshInv

LEMMA RefreshesLoad ==
  ASSUME TypeInv, RefreshInv, NEW t \in Tabs, NEW path \in Paths, Load(t, path)
  PROVE  RefreshInv'
<1>1. \A u \in Tabs \ {t} : tabs'[u].refreshing = tabs[u].refreshing
  BY LoadFacts
<1>2. CASE Posted(Post(t, "api"), {t})
  <2>1. ~IsRefresh(Post(t, "api"))
    BY PostKind DEF IsRefresh
  <2> QED BY <1>1, <1>2, <2>1, RefreshesPosted
<1>3. CASE Left(Request, reqs, reqs', {k \in DOMAIN reqs : reqs[k].tab \in {t}})
  <2> DEFINE gone == {k \in DOMAIN reqs : reqs[k].tab \in {t}}
  <2>1. /\ \A k \in gone : Asks(reqs[k]) => reqs[k].tab \in {t}
        /\ \A k \in DOMAIN reqs \ gone : IsRefresh(reqs[k]) => reqs[k].tab \notin {t}
    OBVIOUS
  <2> HIDE DEF gone
  <2>2. Left(Request, reqs, reqs', gone)
    BY <1>3 DEF gone
  <2> QED BY <1>1, <2>1, <2>2, RefreshesLeft
<1> QED BY <1>2, <1>3, LoadFacts

LEMMA RefreshesStart ==
  ASSUME TypeInv, RefreshInv, NEW i \in DOMAIN reqs, Intercept(i), Starts(i)
  PROVE  RefreshInv'
<1> DEFINE t == reqs[i].tab
           x == Post(t, "refresh")
           w == Waiting(reqs[i])
<1>1. PICK h : /\ Places(reqs, reqs', {}, h)
               /\ \A j \in DOMAIN reqs' :
                    \/ h[j] # 0 /\ h[j] # i /\ reqs'[j] = reqs[h[j]]
                    \/ h[j] = i /\ i # 0 /\ reqs'[j] = w
                    \/ h[j] = 0 /\ reqs'[j] = x
  BY StartFacts DEF Starts
<1>2. tabs'[t].refreshing /\ \A u \in Tabs \ {t} : tabs'[u].refreshing = tabs[u].refreshing
  BY StartFacts DEF Starts
<1>3. ~tabs[t].refreshing
  BY DEF Starts
<1>4. x.tab = t /\ IsRefresh(x) /\ Shaped(x)
  BY DEF Post, IsRefresh, Shaped
<1>5. w.tab = t /\ Asks(w) /\ ~IsRefresh(w)
  <2>1. reqs[i] \in Request /\ reqs[i].kind # "refresh"
    BY RequestFacts, InterceptCases DEF Unauthorized
  <2> QED BY <2>1, WaitingFields DEF Asks, IsRefresh
<1>6. ~Asks(reqs[i])
  BY InterceptCases DEF Unauthorized, Asks
<1>7. \A k \in DOMAIN reqs : IsRefresh(reqs[k]) => reqs[k].tab # t
  BY <1>3 DEF RefreshInv
<1>8. \A j \in DOMAIN reqs' : IsRefresh(reqs'[j]) =>
        \/ h[j] # 0 /\ h[j] \in DOMAIN reqs /\ reqs'[j] = reqs[h[j]]
        \/ h[j] = 0 /\ reqs'[j] = x
  BY <1>1, <1>5 DEF Places
<1>9. PICK n \in DOMAIN reqs' : h[n] = i /\ reqs'[n] = w
  <2>1. PICK n \in DOMAIN reqs' : h[n] = i
    BY <1>1 DEF Places
  <2>2. i # 0
    BY RequestSet
  <2> QED BY <1>1, <2>1, <2>2
<1> HIDE DEF t, x, w
<1>10. ASSUME NEW k \in DOMAIN reqs', IsRefresh(reqs'[k])
       PROVE  /\ Shaped(reqs'[k]) /\ tabs'[reqs'[k].tab].refreshing
              /\ \A j \in DOMAIN reqs' : IsRefresh(reqs'[j]) /\ reqs'[j].tab = reqs'[k].tab => j = k
              /\ \E j \in DOMAIN reqs' : reqs'[j].tab = reqs'[k].tab /\ Asks(reqs'[j])
  <2>1. CASE h[k] = 0 /\ reqs'[k] = x
    <3>1. ASSUME NEW j \in DOMAIN reqs', IsRefresh(reqs'[j]), reqs'[j].tab = t PROVE j = k
      <4>1. h[j] = 0
        BY <1>7, <1>8, <3>1
      <4> QED BY <1>1, <2>1, <4>1 DEF Places
    <3> QED BY <1>2, <1>4, <1>5, <1>9, <2>1, <3>1
  <2>2. CASE h[k] # 0 /\ h[k] \in DOMAIN reqs /\ reqs'[k] = reqs[h[k]]
    <3>1. IsRefresh(reqs[h[k]]) /\ reqs[h[k]].tab \in Tabs \ {t}
      BY <1>7, <1>10, <2>2, RequestFacts
    <3>2. Shaped(reqs[h[k]]) /\ tabs'[reqs[h[k]].tab].refreshing
      BY <1>2, <2>2, <3>1 DEF RefreshInv
    <3>3. ASSUME NEW j \in DOMAIN reqs', IsRefresh(reqs'[j]), reqs'[j].tab = reqs'[k].tab PROVE j = k
      <4>1. h[j] \in DOMAIN reqs /\ reqs'[j] = reqs[h[j]]
        BY <1>4, <1>8, <2>2, <3>1, <3>3
      <4>2. h[j] = h[k]
        BY <2>2, <3>1, <3>3, <4>1 DEF RefreshInv
      <4> QED BY <1>1, <4>2 DEF Places
    <3>4. \E j \in DOMAIN reqs' : reqs'[j].tab = reqs'[k].tab /\ Asks(reqs'[j])
      <4>1. PICK a \in DOMAIN reqs : reqs[a].tab = reqs[h[k]].tab /\ Asks(reqs[a])
        BY <2>2, <3>1 DEF RefreshInv
      <4>2. PICK j \in DOMAIN reqs' : h[j] = a
        BY <1>1 DEF Places
      <4>3. h[j] # 0 /\ h[j] # i
        BY <1>6, <4>1, <4>2, RequestSet
      <4>4. reqs'[j] = reqs[a]
        BY <1>1, <4>2, <4>3
      <4> QED BY <2>2, <4>1, <4>4
    <3> QED BY <2>2, <3>2, <3>3, <3>4
  <2> QED BY <1>8, <1>10, <2>1, <2>2
<1> QED BY <1>10 DEF RefreshInv

LEMMA RefreshesArrive ==
  ASSUME TypeInv, RefreshInv, NEW i \in DOMAIN reqs, RefreshArrives(i)
  PROVE  RefreshInv'
<1> DEFINE t == reqs[i].tab
           p == reqs[i].reply
<1>1. PICK h : /\ Places(reqs, reqs', {i}, h)
               /\ \A j \in DOMAIN reqs' : h[j] # 0 /\ reqs'[j] = Again(t, p, reqs[h[j]])
  BY ArrivesFacts
<1>2. \A u \in Tabs \ {t} : tabs'[u].refreshing = tabs[u].refreshing
  BY ArrivesFacts
<1>3. IsRefresh(reqs[i]) /\ reqs[i].step = "served"
  BY DEF RefreshArrives, IsRefresh
<1>4. \A k \in DOMAIN reqs \ {i} : IsRefresh(reqs[k]) => reqs[k].tab # t
  BY <1>3 DEF RefreshInv
<1>5. ~Asks(reqs[i])
  BY <1>3 DEF Asks
<1> HIDE DEF t, p
<1>6. ASSUME NEW j \in DOMAIN reqs'
      PROVE  \/ h[j] # 0 /\ reqs'[j] = reqs[h[j]]
             \/ ~IsRefresh(reqs'[j]) /\ (h[j] # 0 => reqs[h[j]].tab \in {t})
  <2>1. h[j] # 0 /\ h[j] \in DOMAIN reqs \ {i} /\ reqs'[j] = Again(t, p, reqs[h[j]])
    BY <1>1 DEF Places
  <2>2. CASE reqs[h[j]].tab = t
    <3>1. reqs'[j].kind = reqs[h[j]].kind
      BY <2>1, RequestFacts, AgainFields
    <3> QED BY <1>4, <2>1, <2>2, <3>1 DEF IsRefresh
  <2>3. CASE reqs[h[j]].tab # t
    BY <2>1, <2>3 DEF Again
  <2> QED BY <2>2, <2>3
<1>7. PICK gone : gone = {i}
  OBVIOUS
<1>8. PICK T : T = {t}
  OBVIOUS
<1>9. \A k \in gone : Asks(reqs[k]) => reqs[k].tab \in T
  BY <1>5, <1>7
<1>10. \A k \in DOMAIN reqs \ gone : IsRefresh(reqs[k]) => reqs[k].tab \notin T
  BY <1>4, <1>7, <1>8
<1>11. Places(reqs, reqs', gone, h)
  BY <1>1, <1>7
<1>12. \A j \in DOMAIN reqs' :
         \/ h[j] # 0 /\ reqs'[j] = reqs[h[j]]
         \/ ~IsRefresh(reqs'[j]) /\ (h[j] # 0 => reqs[h[j]].tab \in T)
  BY <1>6, <1>8
<1>13. \A u \in Tabs \ T : tabs'[u].refreshing = tabs[u].refreshing
  BY <1>2, <1>8
<1> QED BY <1>9, <1>10, <1>11, <1>12, <1>13, RefreshesFollow

LEMMA RefreshesFail ==
  ASSUME TypeInv, RefreshInv, NEW i \in DOMAIN reqs, RefreshFails(i)
  PROVE  RefreshInv'
<1> DEFINE t == reqs[i].tab
           gone == {k \in DOMAIN reqs : Reject(t, reqs[k])}
<1>1. /\ \A u \in Tabs \ {t} : tabs'[u].refreshing = tabs[u].refreshing
      /\ Left(Request, reqs, reqs', gone)
  BY FailsFacts
<1>2. IsRefresh(reqs[i]) /\ reqs[i].step = "denied"
  BY DEF RefreshFails, IsRefresh
<1>3. i \in gone
  BY <1>2 DEF Reject, IsRefresh
<1>4. \A k \in DOMAIN reqs \ gone : IsRefresh(reqs[k]) => reqs[k].tab \notin {t}
  BY <1>2, <1>3 DEF RefreshInv
<1>5. \A k \in gone : Asks(reqs[k]) => reqs[k].tab \in {t}
  BY DEF Reject
<1> HIDE DEF t, gone
<1> QED BY <1>1, <1>4, <1>5, RefreshesLeft

LEMMA RefreshesIntercept ==
  ASSUME TypeInv, RefreshInv, NEW i \in DOMAIN reqs, Intercept(i), UNCHANGED <<plan, spent>>
  PROVE  RefreshInv'
<1>1. ~Asks(reqs[i]) /\ reqs[i].kind # "refresh"
  BY InterceptCases DEF Unauthorized, Asks
<1>2. CASE Ended(i)
  BY <1>1, <1>2, EndedTyped, RefreshesDropped
<1>3. CASE Queues(i)
  <2>1. Queued(reqs[i]).tab = reqs[i].tab /\ Queued(reqs[i]).kind = reqs[i].kind
    BY RequestFacts DEF Queued, Request
  <2>2. Shaped(Queued(reqs[i]))
    BY <1>1, <2>1 DEF Shaped, IsRefresh
  <2> QED BY <1>1, <1>3, <2>1, <2>2, QueuesTyped, RefreshesSet
<1> QED BY <1>2, <1>3, RefreshesStart, InterceptCases

\* A refresh gets an answer, a logout gets one.
LEMMA RefreshesServed ==
  ASSUME TypeInv, RefreshInv, NEW i \in DOMAIN reqs, RefreshServed(i), UNCHANGED <<plan, spent>>
  PROVE  RefreshInv'
<1>1. IsRefresh(reqs[i]) /\ reqs[i].step = "sent" /\ ~Asks(reqs[i]) /\ reqs[i] \in Request
  BY ServedCases, RequestFacts DEF IsRefresh, Asks
<1>2. reqs[i].retry = FALSE /\ reqs[i].reply = None
  BY <1>1 DEF RefreshInv, Shaped
<1>3. CASE Grants(i)
  <2> DEFINE r == Replied(reqs[i], "served", issued + 1)
  <2>1. Became(i, r) /\ SameRefreshes
    BY <1>3, GrantsTyped
  <2>2. issued + 1 # None
    BY NoneFacts DEF TypeInv, ServerTyped, Pairs
  <2>3. /\ r.tab = reqs[i].tab /\ r.kind = reqs[i].kind /\ r.step = "served"
        /\ r.retry = reqs[i].retry /\ r.reply = issued + 1
    BY <1>1, RepliedFields
  <2> HIDE DEF r
  <2>4. Shaped(r)
    BY <1>2, <2>2, <2>3 DEF Shaped
  <2> QED BY <1>1, <2>1, <2>3, <2>4, RefreshesSet
<1>4. CASE Denies(i)
  <2> DEFINE r == Stepped(reqs[i], "denied")
  <2>1. Became(i, r) /\ SameRefreshes
    BY <1>4, DeniesTyped
  <2>2. /\ r.tab = reqs[i].tab /\ r.kind = reqs[i].kind /\ r.step = "denied"
        /\ r.retry = reqs[i].retry /\ r.reply = reqs[i].reply
    BY <1>1, SteppedFields
  <2> HIDE DEF r
  <2>3. Shaped(r)
    BY <1>2, <2>2 DEF Shaped
  <2> QED BY <1>1, <2>1, <2>2, <2>3, RefreshesSet
<1> QED BY <1>3, <1>4, ServedCases

LEMMA RefreshesLost ==
  ASSUME TypeInv, RefreshInv, NEW i \in DOMAIN reqs, RefreshLost(i), Disturb, UNCHANGED plan
  PROVE  RefreshInv'
<1>1. IsRefresh(reqs[i]) /\ ~Asks(reqs[i]) /\ reqs[i] \in Request
  BY RequestFacts DEF RefreshLost, IsRefresh, Asks
<1>2. reqs[i].retry = FALSE
  BY <1>1 DEF RefreshInv, Shaped
<1> DEFINE r == Replied(reqs[i], "denied", None)
<1>3. Became(i, r) /\ SameRefreshes
  BY RefreshLostTyped
<1>4. /\ r.tab = reqs[i].tab /\ r.kind = reqs[i].kind /\ r.step = "denied"
      /\ r.retry = reqs[i].retry /\ r.reply = None
  BY <1>1, RepliedFields
<1> HIDE DEF r
<1>5. Shaped(r)
  BY <1>2, <1>4 DEF Shaped
<1> QED BY <1>1, <1>3, <1>4, <1>5, RefreshesSet

LEMMA RefreshesLogout ==
  ASSUME TypeInv, RefreshInv, NEW i \in DOMAIN reqs,
         \/ LogoutServed(i) /\ UNCHANGED <<plan, spent>>
         \/ LogoutLost(i) /\ Disturb /\ UNCHANGED plan
  PROVE  RefreshInv'
<1>1. reqs[i].kind = "logout" /\ ~Asks(reqs[i]) /\ reqs[i] \in Request
  BY RequestFacts DEF LogoutServed, LogoutLost, Asks
<1>2. PICK st : Became(i, Stepped(reqs[i], st))
  BY LogoutServedTyped, LogoutLostTyped
<1>3. SameRefreshes
  BY LogoutServedTyped, LogoutLostTyped
<1>4. Stepped(reqs[i], st).tab = reqs[i].tab /\ Stepped(reqs[i], st).kind = reqs[i].kind
  BY <1>1, SteppedFields
<1>5. Shaped(Stepped(reqs[i], st))
  BY <1>1, <1>4 DEF Shaped, IsRefresh
<1> QED BY <1>1, <1>2, <1>3, <1>4, <1>5, RefreshesSet

LEMMA RefreshesAnswer ==
  ASSUME TypeInv, RefreshInv, NEW i \in DOMAIN reqs, Progress(i) \/ Lost(i)
  PROVE  RefreshInv'
<1>1. CASE Answer(i)
  <2>0. UNCHANGED <<plan, spent>>
    BY <1>1 DEF Answer
  <2>1. CASE Done(i) \/ SignedIn(i) \/ MfaAsked(i) \/ LogoutEnds(i)
    <3>1. Dropped(i) /\ SameRefreshes
      BY <2>0, <2>1, DoneTyped, SignedInTyped, MfaAskedTyped, LogoutEndsTyped
    <3>2. ~Asks(reqs[i])
      BY <2>1 DEF Done, SignedIn, MfaAsked, LogoutEnds, Asks
    <3> QED BY <3>1, <3>2, RefreshesDropped
  <2> QED BY <1>1, <2>0, <2>1, RefreshesIntercept, RefreshesServed, RefreshesArrive,
             RefreshesFail, RefreshesLogout DEF Answer
<1>2. ASSUME Failed(i), UNCHANGED plan, UNCHANGED spent \/ Disturb PROVE RefreshInv'
  <2>1. Dropped(i) /\ SameRefreshes
    BY <1>2, FailedFacts
  <2>2. ~Asks(reqs[i])
    BY <1>2 DEF Failed, Asks
  <2> QED BY <2>1, <2>2, RefreshesDropped
<1>3. CASE Lost(i)
  BY <1>2, <1>3, RefreshesLost, RefreshesLogout DEF Lost
<1>4. CASE SignInRefused(i)
  BY <1>2, <1>4 DEF SignInRefused
<1> QED BY <1>1, <1>3, <1>4 DEF Progress

LEMMA RefreshStep ==
  ASSUME TypeInv, RefreshInv, Next
  PROVE  RefreshInv'
<1>1. CASE Expires
  <2>1. UNCHANGED reqs
    BY <1>1 DEF Expires
  <2> QED BY <1>1, <2>1, ExpiresTyped, RefreshesSame
<1>2. ASSUME NEW i \in DOMAIN reqs, Progress(i) \/ Lost(i) PROVE RefreshInv'
  BY <1>2, RefreshesAnswer
<1>3. ASSUME NEW t \in Tabs, NavCommit(t) PROVE RefreshInv'
  <2>1. "login" \in Paths /\ Load(t, "login")
    BY <1>3 DEF NavCommit, TypeInv, TabRecords, Paths, AuthRoutes
  <2> QED BY <2>1, RefreshesLoad
<1>4. ASSUME NEW t \in Tabs, LogoutLocally(t) PROVE RefreshInv'
  <2>1. UNCHANGED reqs
    BY <1>4 DEF LogoutLocally
  <2> QED BY <1>4, <2>1, LogoutLocallyTyped, RefreshesSame
<1>5. ASSUME NEW t \in Tabs, NEW p \in Paths, Visit(t, p) PROVE RefreshInv'
  BY <1>5, RefreshesLoad DEF Visit
<1>6. ASSUME NEW t \in Tabs, NEW p \in Paths, FollowLink(t, p) PROVE RefreshInv'
  <2>1. UNCHANGED reqs
    BY <1>6 DEF FollowLink
  <2> QED BY <1>6, <2>1, FollowLinkTyped, RefreshesSame
<1>7. ASSUME NEW t \in Tabs, NEW k \in Kinds, Send(t, k) PROVE RefreshInv'
  <2>1. Posted(Post(t, k), {}) /\ UNCHANGED tabs
    BY <1>7, SendTyped DEF Send
  <2>2. ~IsRefresh(Post(t, k))
    BY PostKind DEF IsRefresh, Kinds
  <2>3. PICK T : T = {}
    OBVIOUS
  <2>4. Posted(Post(t, k), T) /\ \A u \in Tabs \ T : tabs'[u].refreshing = tabs[u].refreshing
    BY <2>1, <2>3
  <2> QED BY <2>2, <2>4, RefreshesPosted
<1> QED BY <1>1, <1>2, <1>3, <1>4, <1>5, <1>6, <1>7 DEF Next

----------------------------------------------------------------------------
(* Expiry of access tokens alone signs nobody out.                         *)

Clean == marks \ {"failed"} = {}
\* Nothing is wrong with the refreshes and with what was sent again.
Fine(ex, rv, r) ==
  /\ r.kind # "logout"
  /\ IsRefresh(r) => r.pair \notin rv /\ r.step # "denied" /\ r.reply \notin ex /\ r.reply \notin rv
  /\ r.retry = TRUE => /\ r.kind \in {"api", "secret"}
                       /\ r.step = "waiting" \/ (r.pair # None /\ r.pair \notin ex)
AllFine == \A i \in DOMAIN reqs : Fine(expired, revoked, reqs[i])
MarkInv == Clean => tokens \notin revoked /\ AllFine

\* What is new is fine, the rest was; nothing ended.
LEMMA FineLeft ==
  ASSUME AllFine, NEW gone, Left(Request, reqs, reqs', gone), UNCHANGED expired, UNCHANGED revoked
  PROVE  AllFine'
  BY DEF AllFine, Left, Places

LEMMA FineAdded ==
  ASSUME AllFine, NEW gone, NEW x, Added(Request, reqs, reqs', gone, x),
         Fine(expired, revoked, x), UNCHANGED expired, UNCHANGED revoked
  PROVE  AllFine'
<1>1. PICK h : /\ Places(reqs, reqs', gone, h)
               /\ \A j \in DOMAIN reqs' : \/ h[j] # 0 /\ reqs'[j] = reqs[h[j]]
                                          \/ h[j] = 0 /\ reqs'[j] = x
  BY DEF Added
<1>2. ASSUME NEW j \in DOMAIN reqs' PROVE Fine(expired, revoked, reqs'[j])
  BY <1>1, <1>2 DEF Places, AllFine
<1> QED BY <1>2 DEF AllFine

LEMMA FineSet ==
  ASSUME AllFine, NEW i \in DOMAIN reqs, NEW r, Became(i, r), Fine(expired, revoked, r),
         UNCHANGED expired, UNCHANGED revoked
  PROVE  AllFine'
  BY DEF AllFine, Became

\* A new request of the user, but for a logout.
LEMMA FinePost ==
  ASSUME NEW t, NEW kind, kind \notin {"refresh", "logout"}
  PROVE  Fine(expired, revoked, Post(t, kind))
  BY DEF Post, Fine, IsRefresh

LEMMA NoneGood == ASSUME TypeInv PROVE None \notin expired /\ None \notin revoked
<1>1. expired \subseteq 1..issued /\ revoked \subseteq 1..issued /\ issued \in Nat
  BY DEF TypeInv, ServerTyped, Pairs
<1>2. \A n \in 1..issued : n \in Nat
  BY <1>1
<1> QED BY <1>1, <1>2, NoneFacts

LEMMA NextGood == ASSUME TypeInv PROVE issued + 1 \notin expired /\ issued + 1 \notin revoked
<1>1. expired \subseteq 1..issued /\ revoked \subseteq 1..issued /\ issued \in Nat
  BY DEF TypeInv, ServerTyped, Pairs
<1>2. issued + 1 \notin 1..issued
  BY <1>1
<1> QED BY <1>1, <1>2

\* A step that leaves server and store alone, and only adds marks.
LEMMA MarksStay ==
  ASSUME MarkInv, marks \subseteq marks', UNCHANGED tokens, UNCHANGED revoked,
         Clean' /\ AllFine => AllFine'
  PROVE  MarkInv'
  BY DEF MarkInv, Clean

\* A step that marks more than a failure.
LEMMA MarksEnd ==
  ASSUME NEW m \in marks', m # "failed" PROVE MarkInv' /\ ~Clean'
  BY DEF MarkInv, Clean

LEMMA MarkLoad ==
  ASSUME TypeInv, MarkInv, NEW t \in Tabs, NEW path \in Paths, Load(t, path),
         UNCHANGED server, UNCHANGED store, UNCHANGED history
  PROVE  MarkInv'
<1>1. \/ Left(Request, reqs, reqs', {k \in DOMAIN reqs : reqs[k].tab \in {t}})
      \/ Posted(Post(t, "api"), {t})
  BY LoadFacts
<1>2. UNCHANGED expired /\ UNCHANGED revoked /\ UNCHANGED tokens /\ marks \subseteq marks'
  BY DEF server, store, history
<1>3. Fine(expired, revoked, Post(t, "api"))
  BY FinePost
<1>4. AllFine => AllFine'
  BY <1>1, <1>2, <1>3, FineLeft, FineAdded DEF Posted
<1> QED BY <1>2, <1>4, MarksStay

LEMMA MarkSend ==
  ASSUME TypeInv, MarkInv, NEW t \in Tabs, NEW kind \in Kinds, Send(t, kind)
  PROVE  MarkInv'
<1>1. /\ UNCHANGED expired /\ UNCHANGED revoked /\ UNCHANGED tokens
      /\ marks' = marks \cup MarkIf(kind = "logout", "logout")
  BY DEF Send, server, store
<1>2. CASE kind = "logout"
  <2>1. "logout" \in marks'
    BY <1>1, <1>2 DEF MarkIf
  <2> QED BY <2>1, MarksEnd
<1>3. CASE kind # "logout"
  <2>1. Posted(Post(t, kind), {})
    BY SendTyped
  <2>2. kind \notin {"refresh", "logout"}
    BY <1>3 DEF Kinds
  <2>3. Fine(expired, revoked, Post(t, kind))
    BY <2>2, FinePost
  <2>4. AllFine => AllFine'
    BY <1>1, <2>1, <2>3, FineAdded DEF Posted
  <2> QED BY <1>1, <2>4, MarksStay
<1> QED BY <1>2, <1>3

LEMMA MarkExpires ==
  ASSUME TypeInv, RefreshInv, MarkInv, Expires
  PROVE  MarkInv'
<1>1. UNCHANGED tokens /\ UNCHANGED reqs
  BY DEF Expires
<1>2. CASE CookieEnds
  BY <1>1, <1>2, MarksStay DEF CookieEnds, AllFine
<1>3. ASSUME NEW p \in Pairs, RefreshEnds(p) PROVE MarkInv'
  <2>1. "ended" \in marks'
    BY <1>3 DEF RefreshEnds
  <2> QED BY <2>1, MarksEnd
<1>4. ASSUME NEW p \in Pairs, AccessEnds(p) PROVE MarkInv'
  <2>1. /\ UNCHANGED revoked /\ expired' = expired \cup {p}
        /\ marks' = marks \cup MarkIf(\E r \in Requests : r.retry, "twice")
    BY <1>4 DEF AccessEnds
  <2>2. CASE \E r \in Requests : r.retry
    <3>1. "twice" \in marks'
      BY <2>1, <2>2 DEF MarkIf
    <3> QED BY <3>1, MarksEnd
  <2>3. CASE ~\E r \in Requests : r.retry
    <3>1. \A i \in DOMAIN reqs : ~reqs[i].retry
      BY <2>3 DEF Requests, Range
    <3>2. \A i \in DOMAIN reqs : ~IsRefresh(reqs[i])
      BY <3>1 DEF RefreshInv, Asks
    <3>3. AllFine => AllFine'
      BY <1>1, <3>1, <3>2 DEF AllFine, Fine
    <3> QED BY <1>1, <2>1, <3>3, MarksStay
  <2> QED BY <2>2, <2>3
<1> QED BY <1>2, <1>3, <1>4 DEF Expires

\* Request i is answered and gone, and the tokens stay.
LEMMA MarkDropped ==
  ASSUME MarkInv, NEW i, Dropped(i), marks \subseteq marks',
         UNCHANGED expired, UNCHANGED revoked, UNCHANGED tokens
  PROVE  MarkInv'
<1>1. AllFine => AllFine'
  BY FineLeft DEF Dropped
<1> QED BY <1>1, MarksStay

LEMMA MarkSignedIn ==
  ASSUME TypeInv, MarkInv, NEW i \in DOMAIN reqs, SignedIn(i), UNCHANGED <<plan, spent>>
  PROVE  MarkInv'
<1>1. /\ UNCHANGED expired /\ UNCHANGED revoked /\ tokens' = issued + 1
      /\ marks' = IF Len(reqs) = 1 THEN {} ELSE marks
  BY DEF SignedIn, SetTokens
<1>2. tokens' \notin revoked'
  BY <1>1, NextGood
<1>3. PICK gone : gone = {i} /\ Left(Request, reqs, reqs', gone)
  BY SignedInTyped DEF Dropped
<1>4. CASE Len(reqs) = 1
  <2>1. DOMAIN reqs = {1}
    BY <1>4, RequestSet
  <2>2. DOMAIN reqs' = {}
    BY <1>3, <2>1 DEF Left, Places
  <2>3. AllFine'
    BY <2>2 DEF AllFine
  <2> QED BY <1>2, <2>3 DEF MarkInv
<1>5. CASE Len(reqs) # 1
  <2>1. UNCHANGED marks
    BY <1>1, <1>5
  <2>2. AllFine => AllFine'
    BY <1>1, <1>3, FineLeft
  <2> QED BY <1>2, <2>1, <2>2 DEF MarkInv, Clean
<1> QED BY <1>4, <1>5

\* What a 401 says of a request while nothing is marked: its access token expired.
LEMMA OnlyExpired ==
  ASSUME MarkInv, NEW i \in DOMAIN reqs, Intercept(i), Clean'
  PROVE  /\ Clean /\ AllFine /\ reqs[i].kind \in {"api", "secret"} /\ ~Works(reqs[i].pair)
         /\ reqs[i].step = "sent" /\ reqs[i].retry # TRUE
<1>1. Unauthorized(reqs[i]) /\ marks' = marks \cup WrongMark(reqs[i])
  BY InterceptCases
<1>2. Clean /\ WrongMark(reqs[i]) \subseteq {"failed"}
  BY <1>1 DEF Clean
<1>3. AllFine /\ Fine(expired, revoked, reqs[i])
  BY <1>2 DEF MarkInv, AllFine
<1>4. ~(reqs[i].kind # "api" /\ (Works(reqs[i].pair) \/ ~Bearer(reqs[i].kind)))
  BY <1>2 DEF WrongMark, MarkIf
<1>5. reqs[i].kind \in {"api", "secret"} /\ ~Works(reqs[i].pair) /\ reqs[i].step = "sent"
  BY <1>1, <1>4 DEF Unauthorized, Bearer
<1>6. reqs[i].retry # TRUE
  BY <1>3, <1>5 DEF Fine, Works
<1> QED BY <1>2, <1>3, <1>5, <1>6

LEMMA MarkIntercept ==
  ASSUME TypeInv, RefreshInv, MarkInv, NEW i \in DOMAIN reqs, Intercept(i), UNCHANGED <<plan, spent>>
  PROVE  MarkInv'
<1> SUFFICES ASSUME Clean' PROVE tokens' \notin revoked' /\ AllFine'
  BY DEF MarkInv
<1>1. /\ Clean /\ AllFine /\ reqs[i].kind \in {"api", "secret"}
      /\ reqs[i].step = "sent" /\ reqs[i].retry # TRUE
  BY OnlyExpired
<1>2. UNCHANGED expired /\ UNCHANGED revoked /\ reqs[i] \in Request
  BY InterceptCases, RequestFacts DEF server
<1>3. tokens \notin revoked
  BY <1>1 DEF MarkInv
<1>4. CASE Ended(i)
  <2>1. Dropped(i) /\ tokens' = None
    BY <1>4, EndedTyped DEF Ended, ClearTokens
  <2>2. AllFine'
    BY <1>1, <1>2, <2>1, FineLeft DEF Dropped
  <2> QED BY <1>2, <2>1, <2>2, NoneGood
<1>5. CASE Queues(i)
  <2>1. Became(i, Queued(reqs[i])) /\ UNCHANGED tokens
    BY <1>5, QueuesTyped DEF Queues, store
  <2>2. /\ Queued(reqs[i]).kind = reqs[i].kind /\ Queued(reqs[i]).retry = reqs[i].retry
    BY <1>2 DEF Queued, Request
  <2>3. Fine(expired, revoked, Queued(reqs[i]))
    BY <1>1, <2>2 DEF Fine, IsRefresh
  <2>4. AllFine'
    BY <1>1, <1>2, <2>1, <2>3, FineSet
  <2> QED BY <1>2, <1>3, <2>1, <2>4
<1>6. CASE Starts(i)
  <2> DEFINE x == Post(reqs[i].tab, "refresh")
             w == Waiting(reqs[i])
  <2>1. PICK h : /\ Places(reqs, reqs', {}, h)
                 /\ \A j \in DOMAIN reqs' :
                      \/ h[j] # 0 /\ h[j] # i /\ reqs'[j] = reqs[h[j]]
                      \/ h[j] = i /\ i # 0 /\ reqs'[j] = w
                      \/ h[j] = 0 /\ reqs'[j] = x
    BY <1>6, StartFacts DEF Starts
  <2>2. UNCHANGED tokens
    BY <1>6 DEF Starts, store
  <2>3. Fine(expired, revoked, w)
    BY <1>1, <1>2, WaitingFields DEF Fine, IsRefresh
  <2>4. /\ x.kind = "refresh" /\ x.pair = tokens /\ x.step = "sent"
        /\ x.reply = None /\ x.retry = FALSE
    BY DEF Post, Bearer
  <2> HIDE DEF x, w
  <2>5. Fine(expired, revoked, x)
    BY <1>3, <2>4, NoneGood DEF Fine
  <2>6. ASSUME NEW j \in DOMAIN reqs' PROVE Fine(expired, revoked, reqs'[j])
    BY <1>1, <2>1, <2>3, <2>5, <2>6 DEF Places, AllFine
  <2>7. AllFine'
    BY <1>2, <2>6 DEF AllFine
  <2> QED BY <1>2, <1>3, <2>2, <2>7
<1> QED BY <1>4, <1>5, <1>6, InterceptCases

LEMMA MarkServed ==
  ASSUME TypeInv, RefreshInv, MarkInv, NEW i \in DOMAIN reqs, RefreshServed(i), UNCHANGED <<plan, spent>>
  PROVE  MarkInv'
<1>1. /\ UNCHANGED expired /\ UNCHANGED revoked /\ UNCHANGED tokens /\ reqs[i] \in Request
      /\ reqs[i].kind = "refresh"
  BY ServedCases, RequestFacts DEF store
<1>2. CASE Grants(i)
  <2> DEFINE r == Replied(reqs[i], "served", issued + 1)
  <2>1. Became(i, r) /\ UNCHANGED marks
    BY <1>2, GrantsTyped DEF Grants
  <2>2. /\ r.kind = reqs[i].kind /\ r.pair = reqs[i].pair /\ r.step = "served"
        /\ r.retry = reqs[i].retry /\ r.reply = issued + 1
    BY <1>1, RepliedFields
  <2> HIDE DEF r
  <2>3. ASSUME AllFine PROVE Fine(expired, revoked, r)
    <3>1. Fine(expired, revoked, reqs[i]) /\ reqs[i].retry = FALSE
      BY <1>1, <2>3 DEF AllFine, RefreshInv, Shaped, IsRefresh
    <3> QED BY <1>1, <2>2, <3>1, NextGood DEF Fine, IsRefresh
  <2>4. AllFine => AllFine'
    BY <1>1, <2>1, <2>3, FineSet
  <2> QED BY <1>1, <2>1, <2>4, MarksStay
<1>3. CASE Denies(i)
  <2>1. CASE reqs[i].pair \notin revoked
    <3>1. "lost" \in marks'
      BY <1>3, <2>1 DEF Denies, MarkIf
    <3> QED BY <3>1, MarksEnd
  <2>2. CASE reqs[i].pair \in revoked
    <3>1. ~AllFine
      BY <1>1, <2>2 DEF AllFine, Fine, IsRefresh
    <3>2. marks \subseteq marks'
      BY <1>3 DEF Denies
    <3> QED BY <1>1, <3>1, <3>2, MarksStay
  <2> QED BY <2>1, <2>2
<1> QED BY <1>2, <1>3, ServedCases

LEMMA MarkArrives ==
  ASSUME TypeInv, RefreshInv, MarkInv, NEW i \in DOMAIN reqs, RefreshArrives(i)
  PROVE  MarkInv'
<1> SUFFICES ASSUME Clean' PROVE tokens' \notin revoked' /\ AllFine'
  BY DEF MarkInv
<1> DEFINE t == reqs[i].tab
           p == reqs[i].reply
<1>1. /\ UNCHANGED expired /\ UNCHANGED revoked /\ UNCHANGED marks /\ tokens' = p
      /\ IsRefresh(reqs[i]) /\ reqs[i].step = "served"
  BY DEF RefreshArrives, SetTokens, server, history, IsRefresh
<1>2. AllFine
  BY <1>1 DEF MarkInv, Clean
<1>3. p \notin expired /\ p \notin revoked
  BY <1>1, <1>2 DEF AllFine, Fine
<1>4. p # None
  BY <1>1 DEF RefreshInv, Shaped
<1>5. PICK h : /\ Places(reqs, reqs', {i}, h)
               /\ \A j \in DOMAIN reqs' : h[j] # 0 /\ reqs'[j] = Again(t, p, reqs[h[j]])
  BY ArrivesFacts
<1>6. \A k \in DOMAIN reqs \ {i} : IsRefresh(reqs[k]) => reqs[k].tab # t
  BY <1>1 DEF RefreshInv
<1> HIDE DEF t, p
<1>7. ASSUME NEW j \in DOMAIN reqs' PROVE Fine(expired, revoked, reqs'[j])
  <2>1. PICK k \in DOMAIN reqs \ {i} : k = h[j] /\ reqs'[j] = Again(t, p, reqs[k])
    BY <1>5 DEF Places
  <2>2. Fine(expired, revoked, reqs[k]) /\ reqs[k] \in Request
    BY <1>2, RequestFacts DEF AllFine
  <2>3. CASE reqs'[j] = reqs[k]
    BY <2>2, <2>3
  <2>4. CASE /\ reqs[k].tab = t /\ reqs'[j].kind = reqs[k].kind /\ reqs'[j].retry = reqs[k].retry
             /\ reqs'[j].pair = IF Bearer(reqs[k].kind) THEN p ELSE None
    <3>1. ~IsRefresh(reqs'[j])
      BY <1>6, <2>4 DEF IsRefresh
    <3>2. reqs[k].kind \in {"api", "secret"} => reqs'[j].pair = p
      BY <2>4 DEF Bearer
    <3> QED BY <1>3, <1>4, <2>2, <2>4, <3>1, <3>2 DEF Fine
  <2> QED BY <2>1, <2>2, <2>3, <2>4, AgainFields
<1>8. AllFine'
  BY <1>1, <1>7 DEF AllFine
<1> QED BY <1>1, <1>3, <1>8

\* A refresh is denied only if something is marked.
LEMMA MarkFails ==
  ASSUME MarkInv, NEW i \in DOMAIN reqs, RefreshFails(i)
  PROVE  MarkInv' /\ ~Clean'
<1>1. UNCHANGED marks /\ IsRefresh(reqs[i]) /\ reqs[i].step = "denied"
  BY DEF RefreshFails, history, IsRefresh
<1>2. ~AllFine
  BY <1>1 DEF AllFine, Fine
<1> QED BY <1>1, <1>2 DEF MarkInv, Clean

\* So it is with a logout.
LEMMA MarkLogout ==
  ASSUME MarkInv, NEW i \in DOMAIN reqs, reqs[i].kind = "logout", marks \subseteq marks'
  PROVE  MarkInv' /\ ~Clean'
<1>1. ~AllFine
  BY DEF AllFine, Fine
<1> QED BY <1>1 DEF MarkInv, Clean

LEMMA MarkAnswer ==
  ASSUME TypeInv, RefreshInv, MarkInv, NEW i \in DOMAIN reqs, Progress(i) \/ Lost(i)
  PROVE  MarkInv'
<1>1. CASE Answer(i)
  <2>0. UNCHANGED <<plan, spent>>
    BY <1>1 DEF Answer
  <2>1. CASE Done(i) \/ MfaAsked(i)
    <3>1. UNCHANGED expired /\ UNCHANGED revoked /\ UNCHANGED tokens /\ marks \subseteq marks'
      BY <2>1 DEF Done, MfaAsked, server, store, history
    <3> QED BY <2>0, <2>1, <3>1, DoneTyped, MfaAskedTyped, MarkDropped
  <2>2. CASE LogoutServed(i) \/ LogoutEnds(i)
    <3>1. reqs[i].kind = "logout" /\ marks \subseteq marks'
      BY <2>2 DEF LogoutServed, LogoutEnds, LoggedOut, history
    <3> QED BY <3>1, MarkLogout
  <2> QED BY <1>1, <2>0, <2>1, <2>2, MarkSignedIn, MarkIntercept, MarkServed, MarkArrives,
             MarkFails DEF Answer
<1>2. ASSUME Failed(i), UNCHANGED plan, UNCHANGED spent \/ Disturb PROVE MarkInv'
  <2>1. UNCHANGED expired /\ UNCHANGED revoked /\ UNCHANGED tokens /\ marks \subseteq marks'
    BY <1>2 DEF Failed, server, store
  <2> QED BY <1>2, <2>1, FailedFacts, MarkDropped
<1>3. CASE Lost(i)
  <2>1. CASE RefreshLost(i)
    <3>1. "lost" \in marks'
      BY <2>1 DEF RefreshLost
    <3> QED BY <3>1, MarksEnd
  <2>2. CASE LogoutLost(i)
    <3>1. reqs[i].kind = "logout" /\ marks \subseteq marks'
      BY <2>2 DEF LogoutLost, history
    <3> QED BY <3>1, MarkLogout
  <2> QED BY <1>2, <1>3, <2>1, <2>2 DEF Lost
<1>4. CASE SignInRefused(i)
  BY <1>2, <1>4 DEF SignInRefused
<1> QED BY <1>1, <1>3, <1>4 DEF Progress

LEMMA MarkStep ==
  ASSUME TypeInv, RefreshInv, MarkInv, Next
  PROVE  MarkInv'
<1>1. CASE Expires
  BY <1>1, MarkExpires
<1>2. ASSUME NEW i \in DOMAIN reqs, Progress(i) \/ Lost(i) PROVE MarkInv'
  BY <1>2, MarkAnswer
<1>3. ASSUME NEW t \in Tabs, NavCommit(t) PROVE MarkInv'
  <2>1. /\ "login" \in Paths /\ Load(t, "login")
        /\ UNCHANGED server /\ UNCHANGED store /\ UNCHANGED history
    BY <1>3 DEF NavCommit, TypeInv, TabRecords, Paths, AuthRoutes
  <2> QED BY <2>1, MarkLoad
<1>4. ASSUME NEW t \in Tabs, LogoutLocally(t) PROVE MarkInv'
  <2>1. "logout" \in marks'
    BY <1>4 DEF LogoutLocally, LoggedOut
  <2> QED BY <2>1, MarksEnd
<1>5. ASSUME NEW t \in Tabs, NEW p \in Paths, Visit(t, p) PROVE MarkInv'
  BY <1>5, MarkLoad DEF Visit
<1>6. ASSUME NEW t \in Tabs, NEW p \in Paths, FollowLink(t, p) PROVE MarkInv'
  <2>1. UNCHANGED server /\ UNCHANGED store /\ UNCHANGED reqs /\ UNCHANGED history
    BY <1>6 DEF FollowLink
  <2> QED BY <2>1 DEF MarkInv, Clean, AllFine, server, store, history
<1>7. ASSUME NEW t \in Tabs, NEW k \in Kinds, Send(t, k) PROVE MarkInv'
  BY <1>7, MarkSend
<1> QED BY <1>1, <1>2, <1>3, <1>4, <1>5, <1>6, <1>7 DEF Next

\* Tokens go with a logout, a failed refresh, or a request that gives up.
LEMMA TokensGo ==
  ASSUME TypeInv, RefreshInv, MarkInv, Next, tokens # None, tokens' = None
  PROVE  ~Clean'
<1> SUFFICES ASSUME Clean' PROVE FALSE
  OBVIOUS
<1>1. CASE Expires
  BY <1>1 DEF Expires
<1>2. ASSUME NEW t \in Tabs, LogoutLocally(t) PROVE FALSE
  <2>1. "logout" \in marks'
    BY <1>2 DEF LogoutLocally, LoggedOut
  <2> QED BY <2>1, MarksEnd
<1>3. ASSUME NEW t \in Tabs, NavCommit(t) PROVE FALSE
  BY <1>3 DEF NavCommit, store
<1>4. ASSUME NEW t \in Tabs, NEW p \in Paths, Visit(t, p) \/ FollowLink(t, p) PROVE FALSE
  BY <1>4 DEF Visit, FollowLink, store
<1>5. ASSUME NEW t \in Tabs, NEW k \in Kinds, Send(t, k) PROVE FALSE
  BY <1>5 DEF Send, store
<1>6. ASSUME NEW i \in DOMAIN reqs, Progress(i) \/ Lost(i) PROVE FALSE
  <2>1. CASE Intercept(i)
    <3>1. reqs[i].retry # TRUE
      BY <2>1, OnlyExpired
    <3>2. Ended(i)
      BY <2>1, InterceptCases DEF Queues, Starts, store
    <3>3. reqs[i].retry = TRUE
      BY <3>2, RequestFacts DEF Ended, GivesUp, Request
    <3> QED BY <3>1, <3>3
  <2>2. CASE RefreshFails(i)
    BY <2>2, MarkFails
  <2>3. CASE RefreshArrives(i)
    <3>1. tokens' # None
      BY <2>3 DEF RefreshArrives, SetTokens, RefreshInv, Shaped, IsRefresh
    <3> QED BY <3>1
  <2>4. CASE SignedIn(i)
    <3>1. issued + 1 # None
      BY NoneFacts DEF TypeInv, ServerTyped, Pairs
    <3> QED BY <2>4, <3>1 DEF SignedIn, SetTokens
  <2>5. CASE LogoutEnds(i)
    <3>1. "logout" \in marks'
      BY <2>5 DEF LogoutEnds, LoggedOut
    <3> QED BY <3>1, MarksEnd
  <2>6. CASE Done(i) \/ MfaAsked(i) \/ RefreshServed(i) \/ LogoutServed(i)
    BY <2>6 DEF Done, MfaAsked, RefreshServed, LogoutServed, store
  <2>7. CASE Failed(i) \/ RefreshLost(i) \/ LogoutLost(i)
    BY <2>7 DEF Failed, RefreshLost, LogoutLost, store
  <2> QED BY <1>6, <2>1, <2>2, <2>3, <2>4, <2>5, <2>6, <2>7 DEF Progress, Lost, Answer, SignInRefused
<1> QED BY <1>1, <1>2, <1>3, <1>4, <1>5, <1>6 DEF Next

\* However many access tokens expire under the requests of however many tabs, the
\* user stays signed in, unless a refresh token ended, a refresh got no answer, a
\* token expired again under one request, or a request was refused for what it
\* said (the response interceptor and its queue, api-client.ts).
THEOREM StaysSignedInHolds == Spec => StaysSignedIn
<1>1. Init => RefreshInv /\ MarkInv
  BY DEF Init, RefreshInv, MarkInv, AllFine
<1>2. TypeInv /\ RefreshInv /\ MarkInv /\ [Next]_vars => (RefreshInv /\ MarkInv)'
  <2>1. CASE UNCHANGED vars
    BY <2>1 DEF RefreshInv, MarkInv, AllFine, Clean, vars, server, store, history
  <2> QED BY <2>1, RefreshStep, MarkStep
<1>3. TypeInv /\ RefreshInv /\ MarkInv /\ [Next]_vars
        => [tokens # None /\ tokens' = None => marks' \ {"failed"} # {}]_vars
  BY TokensGo DEF Clean
<1> QED BY <1>1, <1>2, <1>3, TypeAlways, PTL DEF Spec, StaysSignedIn

----------------------------------------------------------------------------
(* What HeldSettle rests on: nobody is held back for nothing.              *)

IsHeld(r) == r.step \in {"queued", "waiting"}
RefreshOf(t) == \E i \in DOMAIN reqs : reqs[i].tab = t /\ IsRefresh(reqs[i])
HeldInv ==
  /\ \A t \in Tabs : tabs[t].refreshing => RefreshOf(t)
  /\ \A i \in DOMAIN reqs : IsHeld(reqs[i]) => tabs[reqs[i].tab].refreshing

\* A tab that refreshes did so and keeps its refresh, or has a new one; who is
\* held was held in a tab that goes on refreshing, or is held in one that refreshes.
LEMMA HeldFollow ==
  ASSUME TypeInv, HeldInv, NEW gone, NEW h, Places(reqs, reqs', gone, h),
         \A j \in DOMAIN reqs' : h[j] # 0 =>
           /\ reqs'[j].tab = reqs[h[j]].tab
           /\ IsRefresh(reqs[h[j]]) => IsRefresh(reqs'[j]),
         \A u \in Tabs : tabs'[u].refreshing =>
           \/ tabs[u].refreshing /\ \A k \in gone : IsRefresh(reqs[k]) => reqs[k].tab # u
           \/ \E j \in DOMAIN reqs' : reqs'[j].tab = u /\ IsRefresh(reqs'[j]),
         \A j \in DOMAIN reqs' : IsHeld(reqs'[j]) =>
           \/ /\ h[j] # 0 /\ IsHeld(reqs[h[j]])
              /\ tabs[reqs[h[j]].tab].refreshing => tabs'[reqs[h[j]].tab].refreshing
           \/ tabs'[reqs'[j].tab].refreshing
  PROVE  HeldInv'
<1>1. ASSUME NEW u \in Tabs, tabs'[u].refreshing
      PROVE  \E j \in DOMAIN reqs' : reqs'[j].tab = u /\ IsRefresh(reqs'[j])
  <2>1. CASE tabs[u].refreshing /\ \A k \in gone : IsRefresh(reqs[k]) => reqs[k].tab # u
    <3>1. PICK k \in DOMAIN reqs : reqs[k].tab = u /\ IsRefresh(reqs[k])
      BY <2>1 DEF HeldInv, RefreshOf
    <3>2. PICK j \in DOMAIN reqs' : h[j] = k
      BY <2>1, <3>1 DEF Places
    <3>3. h[j] # 0
      BY <3>2, RequestSet
    <3> QED BY <3>1, <3>2, <3>3
  <2> QED BY <1>1, <2>1
<1>2. ASSUME NEW j \in DOMAIN reqs', IsHeld(reqs'[j])
      PROVE  tabs'[reqs'[j].tab].refreshing
  <2>1. CASE /\ h[j] # 0 /\ IsHeld(reqs[h[j]])
             /\ tabs[reqs[h[j]].tab].refreshing => tabs'[reqs[h[j]].tab].refreshing
    <3>1. h[j] \in DOMAIN reqs /\ reqs'[j].tab = reqs[h[j]].tab
      BY <2>1 DEF Places
    <3> QED BY <2>1, <3>1 DEF HeldInv
  <2> QED BY <1>2, <2>1
<1> QED BY <1>1, <1>2 DEF HeldInv, RefreshOf

\* Nothing is new but x, which nobody holds; tabs in T stop refreshing and have
\* nothing held left.
LEMMA HeldAdded ==
  ASSUME TypeInv, HeldInv, NEW gone, NEW x, NEW T, Added(Request, reqs, reqs', gone, x),
         ~IsHeld(x),
         \A u \in Tabs \ T : tabs'[u].refreshing = tabs[u].refreshing,
         \A u \in T : ~tabs'[u].refreshing,
         \A k \in gone : IsRefresh(reqs[k]) => reqs[k].tab \in T,
         \A k \in DOMAIN reqs \ gone : IsHeld(reqs[k]) => reqs[k].tab \notin T
  PROVE  HeldInv'
<1>1. PICK h : /\ Places(reqs, reqs', gone, h)
               /\ \A j \in DOMAIN reqs' : \/ h[j] # 0 /\ reqs'[j] = reqs[h[j]]
                                          \/ h[j] = 0 /\ reqs'[j] = x
  BY DEF Added
<1>2. \A j \in DOMAIN reqs' : h[j] # 0 =>
        /\ reqs'[j].tab = reqs[h[j]].tab
        /\ IsRefresh(reqs[h[j]]) => IsRefresh(reqs'[j])
  BY <1>1
<1>3. \A u \in Tabs : tabs'[u].refreshing =>
        tabs[u].refreshing /\ \A k \in gone : IsRefresh(reqs[k]) => reqs[k].tab # u
  OBVIOUS
<1>4. ASSUME NEW j \in DOMAIN reqs', IsHeld(reqs'[j])
      PROVE  /\ h[j] # 0 /\ IsHeld(reqs[h[j]])
             /\ tabs[reqs[h[j]].tab].refreshing => tabs'[reqs[h[j]].tab].refreshing
  <2>1. h[j] # 0 /\ reqs'[j] = reqs[h[j]] /\ h[j] \in DOMAIN reqs \ gone
    BY <1>1, <1>4 DEF Places
  <2>2. reqs[h[j]].tab \in Tabs \ T
    BY <1>4, <2>1, RequestFacts
  <2> QED BY <1>4, <2>1, <2>2
<1> QED BY <1>1, <1>2, <1>3, <1>4, HeldFollow

LEMMA HeldLeft ==
  ASSUME TypeInv, HeldInv, NEW gone, NEW T, Left(Request, reqs, reqs', gone),
         \A u \in Tabs \ T : tabs'[u].refreshing = tabs[u].refreshing,
         \A u \in T : ~tabs'[u].refreshing,
         \A k \in gone : IsRefresh(reqs[k]) => reqs[k].tab \in T,
         \A k \in DOMAIN reqs \ gone : IsHeld(reqs[k]) => reqs[k].tab \notin T
  PROVE  HeldInv'
<1>1. PICK x : x = [step |-> "sent"]
  OBVIOUS
<1>2. ~IsHeld(x)
  BY <1>1 DEF IsHeld
<1>3. Added(Request, reqs, reqs', gone, x)
  BY DEF Left, Added
<1> QED BY <1>2, <1>3, HeldAdded

LEMMA PostIsNotHeld == \A t, kind : ~IsHeld(Post(t, kind))
  BY DEF Post, IsHeld

LEMMA HeldSame ==
  ASSUME TypeInv, HeldInv, UNCHANGED reqs, SameRefreshes
  PROVE  HeldInv'
<1>1. \A i \in DOMAIN reqs : reqs[i].tab \in Tabs
  BY RequestFacts
<1> QED BY <1>1 DEF HeldInv, RefreshOf, SameRefreshes

LEMMA HeldDropped ==
  ASSUME TypeInv, HeldInv, NEW i \in DOMAIN reqs, Dropped(i), SameRefreshes, ~IsRefresh(reqs[i])
  PROVE  HeldInv'
<1>1. PICK T : T = {}
  OBVIOUS
<1>2. PICK gone : gone = {i}
  OBVIOUS
<1>3. /\ \A u \in Tabs \ T : tabs'[u].refreshing = tabs[u].refreshing
      /\ \A u \in T : ~tabs'[u].refreshing
  BY <1>1 DEF SameRefreshes
<1>4. /\ \A k \in gone : IsRefresh(reqs[k]) => reqs[k].tab \in T
      /\ \A k \in DOMAIN reqs \ gone : IsHeld(reqs[k]) => reqs[k].tab \notin T
  BY <1>1, <1>2
<1>5. Left(Request, reqs, reqs', gone)
  BY <1>2 DEF Dropped
<1> QED BY <1>3, <1>4, <1>5, HeldLeft

\* Request i goes a step further, or is held because its tab refreshes.
LEMMA HeldSet ==
  ASSUME TypeInv, HeldInv, NEW i \in DOMAIN reqs, NEW r, Became(i, r), SameRefreshes,
         r.tab = reqs[i].tab, r.kind = reqs[i].kind,
         IsHeld(r) => tabs[r.tab].refreshing
  PROVE  HeldInv'
<1>1. \A j \in DOMAIN reqs : reqs[j].tab \in Tabs
  BY RequestFacts
<1>2. /\ DOMAIN reqs' = DOMAIN reqs /\ reqs'[i] = r
      /\ \A j \in DOMAIN reqs \ {i} : reqs'[j] = reqs[j]
  BY DEF Became
<1>3. \A j \in DOMAIN reqs : /\ reqs'[j].tab = reqs[j].tab
                             /\ IsRefresh(reqs'[j]) <=> IsRefresh(reqs[j])
                             /\ IsHeld(reqs'[j]) => tabs[reqs[j].tab].refreshing
  BY <1>2 DEF IsRefresh, HeldInv
<1> QED BY <1>1, <1>2, <1>3 DEF HeldInv, RefreshOf, SameRefreshes

LEMMA HeldLoad ==
  ASSUME TypeInv, HeldInv, NEW t \in Tabs, NEW path \in Paths, Load(t, path)
  PROVE  HeldInv'
<1> DEFINE gone == {k \in DOMAIN reqs : reqs[k].tab \in {t}}
<1>1. \A u \in Tabs \ {t} : tabs'[u].refreshing = tabs[u].refreshing
  BY LoadFacts
<1>2. \A u \in {t} : ~tabs'[u].refreshing
  <2>1. tabs \in [Tabs -> TabRecords]
    BY DEF TypeInv
  <2> QED BY <2>1 DEF Load
<1>3. /\ \A k \in gone : IsRefresh(reqs[k]) => reqs[k].tab \in {t}
      /\ \A k \in DOMAIN reqs \ gone : IsHeld(reqs[k]) => reqs[k].tab \notin {t}
  OBVIOUS
<1>4. CASE Posted(Post(t, "api"), {t})
  <2>1. Added(Request, reqs, reqs', gone, Post(t, "api"))
    BY <1>4 DEF Posted
  <2> HIDE DEF gone
  <2> QED BY <1>1, <1>2, <1>3, <2>1, PostIsNotHeld, HeldAdded
<1>5. CASE Left(Request, reqs, reqs', gone)
  <2> HIDE DEF gone
  <2> QED BY <1>1, <1>2, <1>3, <1>5, HeldLeft
<1> QED BY <1>4, <1>5, LoadFacts

LEMMA HeldStart ==
  ASSUME TypeInv, HeldInv, NEW i \in DOMAIN reqs, Intercept(i), Starts(i)
  PROVE  HeldInv'
<1> DEFINE t == reqs[i].tab
           x == Post(t, "refresh")
           w == Waiting(reqs[i])
<1>1. PICK h : /\ Places(reqs, reqs', {}, h)
               /\ \A j \in DOMAIN reqs' :
                    \/ h[j] # 0 /\ h[j] # i /\ reqs'[j] = reqs[h[j]]
                    \/ h[j] = i /\ i # 0 /\ reqs'[j] = w
                    \/ h[j] = 0 /\ reqs'[j] = x
  BY StartFacts DEF Starts
<1>2. tabs'[t].refreshing /\ \A u \in Tabs \ {t} : tabs'[u].refreshing = tabs[u].refreshing
  BY StartFacts DEF Starts
<1>3. x.tab = t /\ IsRefresh(x) /\ ~IsHeld(x)
  BY DEF Post, IsRefresh, IsHeld
<1>4. w.tab = t /\ w.kind = reqs[i].kind
  BY RequestFacts, WaitingFields
<1>5. \E j \in DOMAIN reqs' : reqs'[j].tab = t /\ IsRefresh(reqs'[j])
  <2>1. PICK j \in DOMAIN reqs' : reqs'[j] = x
    BY DEF Starts, StartRefresh
  <2> QED BY <1>3, <2>1
<1>6. \A j \in DOMAIN reqs : reqs[j].tab \in Tabs
  BY RequestFacts
<1> HIDE DEF t, x, w
<1>7. \A j \in DOMAIN reqs' : h[j] # 0 =>
        /\ reqs'[j].tab = reqs[h[j]].tab
        /\ IsRefresh(reqs[h[j]]) => IsRefresh(reqs'[j])
  BY <1>1, <1>4 DEF t, IsRefresh
<1>8. ASSUME NEW j \in DOMAIN reqs', IsHeld(reqs'[j])
      PROVE  \/ /\ h[j] # 0 /\ IsHeld(reqs[h[j]])
                /\ tabs[reqs[h[j]].tab].refreshing => tabs'[reqs[h[j]].tab].refreshing
             \/ tabs'[reqs'[j].tab].refreshing
  <2>1. CASE h[j] # 0 /\ h[j] # i /\ reqs'[j] = reqs[h[j]]
    <3>1. h[j] \in DOMAIN reqs
      BY <1>1, <2>1 DEF Places
    <3> QED BY <1>2, <1>6, <1>8, <2>1, <3>1
  <2>2. CASE reqs'[j] = w
    BY <1>2, <1>4, <2>2
  <2>3. CASE reqs'[j] = x
    BY <1>3, <1>8, <2>3
  <2> QED BY <1>1, <2>1, <2>2, <2>3
<1>9. \A u \in Tabs : tabs'[u].refreshing =>
        \/ tabs[u].refreshing /\ \A k \in {} : IsRefresh(reqs[k]) => reqs[k].tab # u
        \/ \E j \in DOMAIN reqs' : reqs'[j].tab = u /\ IsRefresh(reqs'[j])
  BY <1>2, <1>5
<1> QED BY <1>1, <1>7, <1>8, <1>9, HeldFollow

LEMMA HeldArrive ==
  ASSUME TypeInv, RefreshInv, HeldInv, NEW i \in DOMAIN reqs, RefreshArrives(i)
  PROVE  HeldInv'
<1> DEFINE t == reqs[i].tab
           p == reqs[i].reply
<1>1. PICK h : /\ Places(reqs, reqs', {i}, h)
               /\ \A j \in DOMAIN reqs' : h[j] # 0 /\ reqs'[j] = Again(t, p, reqs[h[j]])
  BY ArrivesFacts
<1>2. ~tabs'[t].refreshing /\ \A u \in Tabs \ {t} : tabs'[u].refreshing = tabs[u].refreshing
  BY ArrivesFacts
<1> HIDE DEF t, p
<1>3. \A j \in DOMAIN reqs' :
        /\ h[j] # 0 /\ h[j] \in DOMAIN reqs /\ reqs[h[j]] \in Request /\ reqs[h[j]].tab \in Tabs
        /\ reqs'[j] = Again(t, p, reqs[h[j]])
  BY <1>1, RequestFacts DEF Places
<1>4. \A j \in DOMAIN reqs' :
        /\ reqs'[j].tab = reqs[h[j]].tab /\ reqs'[j].kind = reqs[h[j]].kind
        /\ IsHeld(reqs'[j]) => reqs'[j] = reqs[h[j]] /\ reqs[h[j]].tab # t
  BY <1>3, AgainFields DEF IsHeld
<1>5. \A u \in Tabs : tabs'[u].refreshing =>
        tabs[u].refreshing /\ \A k \in {i} : IsRefresh(reqs[k]) => reqs[k].tab # u
  BY <1>2 DEF t
<1>6. \A j \in DOMAIN reqs' : IsHeld(reqs'[j]) =>
        /\ h[j] # 0 /\ IsHeld(reqs[h[j]])
        /\ tabs[reqs[h[j]].tab].refreshing => tabs'[reqs[h[j]].tab].refreshing
  BY <1>2, <1>3, <1>4
<1>7. \A j \in DOMAIN reqs' : h[j] # 0 =>
        /\ reqs'[j].tab = reqs[h[j]].tab
        /\ IsRefresh(reqs[h[j]]) => IsRefresh(reqs'[j])
  BY <1>4 DEF IsRefresh
<1> QED BY <1>1, <1>5, <1>6, <1>7, HeldFollow

LEMMA HeldFail ==
  ASSUME TypeInv, RefreshInv, HeldInv, NEW i \in DOMAIN reqs, RefreshFails(i)
  PROVE  HeldInv'
<1> DEFINE t == reqs[i].tab
           gone == {k \in DOMAIN reqs : Reject(t, reqs[k])}
<1>1. /\ ~tabs'[t].refreshing /\ \A u \in Tabs \ {t} : tabs'[u].refreshing = tabs[u].refreshing
      /\ Left(Request, reqs, reqs', gone)
  BY FailsFacts
<1>2. /\ \A k \in gone : IsRefresh(reqs[k]) => reqs[k].tab \in {t}
      /\ \A k \in DOMAIN reqs \ gone : IsHeld(reqs[k]) => reqs[k].tab \notin {t}
  BY DEF Reject, IsHeld
<1> HIDE DEF t, gone
<1> QED BY <1>1, <1>2, HeldLeft

LEMMA HeldIntercept ==
  ASSUME TypeInv, HeldInv, NEW i \in DOMAIN reqs, Intercept(i), UNCHANGED <<plan, spent>>
  PROVE  HeldInv'
<1>1. ~IsRefresh(reqs[i])
  BY InterceptCases DEF Unauthorized, IsRefresh
<1>2. CASE Ended(i)
  BY <1>1, <1>2, EndedTyped, HeldDropped
<1>3. CASE Queues(i)
  <2>1. Queued(reqs[i]).tab = reqs[i].tab /\ Queued(reqs[i]).kind = reqs[i].kind
    BY RequestFacts DEF Queued, Request
  <2>2. tabs[reqs[i].tab].refreshing
    BY <1>3 DEF Queues
  <2> QED BY <1>3, <2>1, <2>2, QueuesTyped, HeldSet
<1> QED BY <1>2, <1>3, HeldStart, InterceptCases

\* A refresh or a logout gets an answer.
LEMMA HeldServed ==
  ASSUME TypeInv, HeldInv, NEW i \in DOMAIN reqs,
         \/ RefreshServed(i) /\ UNCHANGED <<plan, spent>>
         \/ RefreshLost(i) /\ Disturb /\ UNCHANGED plan
         \/ LogoutServed(i) /\ UNCHANGED <<plan, spent>>
         \/ LogoutLost(i) /\ Disturb /\ UNCHANGED plan
  PROVE  HeldInv'
<1>1. SameRefreshes
  BY GrantsTyped, DeniesTyped, RefreshLostTyped, LogoutServedTyped, LogoutLostTyped, ServedCases
<1>2. reqs[i] \in Request
  BY RequestFacts
<1>3. PICK r : /\ Became(i, r) /\ r.tab = reqs[i].tab /\ r.kind = reqs[i].kind
               /\ r.step \in {"served", "denied"}
  <2>1. CASE RefreshServed(i) /\ UNCHANGED <<plan, spent>>
    <3>1. CASE Grants(i)
      BY <1>2, <2>1, <3>1, GrantsTyped, RepliedFields
    <3>2. CASE Denies(i)
      BY <1>2, <2>1, <3>2, DeniesTyped, SteppedFields
    <3> QED BY <2>1, <3>1, <3>2, ServedCases
  <2>2. CASE RefreshLost(i) /\ Disturb /\ UNCHANGED plan
    BY <1>2, <2>2, RefreshLostTyped, RepliedFields
  <2>3. CASE LogoutServed(i) /\ UNCHANGED <<plan, spent>>
    BY <1>2, <2>3, LogoutServedTyped, SteppedFields
  <2>4. CASE LogoutLost(i) /\ Disturb /\ UNCHANGED plan
    BY <1>2, <2>4, LogoutLostTyped, SteppedFields
  <2> QED BY <2>1, <2>2, <2>3, <2>4
<1>4. ~IsHeld(r)
  BY <1>3 DEF IsHeld
<1> QED BY <1>1, <1>3, <1>4, HeldSet

LEMMA HeldAnswer ==
  ASSUME TypeInv, RefreshInv, HeldInv, NEW i \in DOMAIN reqs, Progress(i) \/ Lost(i)
  PROVE  HeldInv'
<1>1. CASE Answer(i)
  <2>0. UNCHANGED <<plan, spent>>
    BY <1>1 DEF Answer
  <2>1. CASE Done(i) \/ SignedIn(i) \/ MfaAsked(i) \/ LogoutEnds(i)
    <3>1. Dropped(i) /\ SameRefreshes
      BY <2>0, <2>1, DoneTyped, SignedInTyped, MfaAskedTyped, LogoutEndsTyped
    <3>2. ~IsRefresh(reqs[i])
      BY <2>1 DEF Done, SignedIn, SignIns, MfaAsked, LogoutEnds, IsRefresh
    <3> QED BY <3>1, <3>2, HeldDropped
  <2> QED BY <1>1, <2>0, <2>1, HeldIntercept, HeldServed, HeldArrive, HeldFail DEF Answer
<1>2. ASSUME Failed(i), UNCHANGED plan, UNCHANGED spent \/ Disturb PROVE HeldInv'
  <2>1. Dropped(i) /\ SameRefreshes
    BY <1>2, FailedFacts
  <2>2. ~IsRefresh(reqs[i])
    BY <1>2 DEF Failed, IsRefresh
  <2> QED BY <2>1, <2>2, HeldDropped
<1>3. CASE Lost(i)
  BY <1>2, <1>3, HeldServed DEF Lost
<1>4. CASE SignInRefused(i)
  BY <1>2, <1>4 DEF SignInRefused
<1> QED BY <1>1, <1>3, <1>4 DEF Progress

LEMMA HeldStep ==
  ASSUME TypeInv, RefreshInv, HeldInv, Next
  PROVE  HeldInv'
<1>1. CASE Expires
  <2>1. UNCHANGED reqs
    BY <1>1 DEF Expires
  <2> QED BY <1>1, <2>1, ExpiresTyped, HeldSame
<1>2. ASSUME NEW i \in DOMAIN reqs, Progress(i) \/ Lost(i) PROVE HeldInv'
  BY <1>2, HeldAnswer
<1>3. ASSUME NEW t \in Tabs, NavCommit(t) PROVE HeldInv'
  <2>1. "login" \in Paths /\ Load(t, "login")
    BY <1>3 DEF NavCommit, TypeInv, TabRecords, Paths, AuthRoutes
  <2> QED BY <2>1, HeldLoad
<1>4. ASSUME NEW t \in Tabs, LogoutLocally(t) PROVE HeldInv'
  <2>1. UNCHANGED reqs
    BY <1>4 DEF LogoutLocally
  <2> QED BY <1>4, <2>1, LogoutLocallyTyped, HeldSame
<1>5. ASSUME NEW t \in Tabs, NEW p \in Paths, Visit(t, p) PROVE HeldInv'
  BY <1>5, HeldLoad DEF Visit
<1>6. ASSUME NEW t \in Tabs, NEW p \in Paths, FollowLink(t, p) PROVE HeldInv'
  <2>1. UNCHANGED reqs
    BY <1>6 DEF FollowLink
  <2> QED BY <1>6, <2>1, FollowLinkTyped, HeldSame
<1>7. ASSUME NEW t \in Tabs, NEW k \in Kinds, Send(t, k) PROVE HeldInv'
  <2>1. Posted(Post(t, k), {}) /\ UNCHANGED tabs
    BY <1>7, SendTyped DEF Send
  <2>2. PICK T : T = {}
    OBVIOUS
  <2>3. PICK gone : gone = {n \in DOMAIN reqs : reqs[n].tab \in {}}
    OBVIOUS
  <2>4. Added(Request, reqs, reqs', gone, Post(t, k))
    BY <2>1, <2>3 DEF Posted
  <2>5. /\ \A u \in Tabs \ T : tabs'[u].refreshing = tabs[u].refreshing
        /\ \A u \in T : ~tabs'[u].refreshing
        /\ \A n \in gone : IsRefresh(reqs[n]) => reqs[n].tab \in T
        /\ \A n \in DOMAIN reqs \ gone : IsHeld(reqs[n]) => reqs[n].tab \notin T
    BY <2>1, <2>2, <2>3
  <2> QED BY <2>4, <2>5, PostIsNotHeld, HeldAdded
<1> QED BY <1>1, <1>2, <1>3, <1>4, <1>5, <1>6, <1>7 DEF Next

\* A tab that is refreshing or holds a request back has one refresh under way,
\* which nobody holds back and which can take its next step.
HeldBehindRefresh ==
  \A t \in Tabs : tabs[t].refreshing \/ Held(t) =>
    \E i \in DOMAIN reqs :
      /\ reqs[i].tab = t /\ reqs[i].kind = "refresh"
      /\ reqs[i].step \in {"sent", "served", "denied"}
      /\ \A j \in DOMAIN reqs : reqs[j].tab = t /\ reqs[j].kind = "refresh" => j = i

\* No tab ever waits for a refresh that nobody sent, or that is gone, whatever
\* crosses it: reloads, logouts in other tabs, sign-ins, expiries, lost answers
\* (isRefreshing, failedQueue and processQueue, api-client.ts).
THEOREM NobodyHeldForNothing == Spec => []HeldBehindRefresh
<1>1. Init => RefreshInv /\ HeldInv
  BY DEF Init, RefreshInv, HeldInv
<1>2. TypeInv /\ RefreshInv /\ HeldInv /\ [Next]_vars => (RefreshInv /\ HeldInv)'
  <2>1. CASE UNCHANGED vars
    BY <2>1 DEF RefreshInv, HeldInv, RefreshOf, vars
  <2> QED BY <2>1, RefreshStep, HeldStep
<1>3. TypeInv /\ RefreshInv /\ HeldInv => HeldBehindRefresh
  <2> SUFFICES ASSUME TypeInv, RefreshInv, HeldInv,
                      NEW t \in Tabs, tabs[t].refreshing \/ Held(t)
               PROVE  \E i \in DOMAIN reqs :
                        /\ reqs[i].tab = t /\ reqs[i].kind = "refresh"
                        /\ reqs[i].step \in {"sent", "served", "denied"}
                        /\ \A j \in DOMAIN reqs :
                             reqs[j].tab = t /\ reqs[j].kind = "refresh" => j = i
    BY DEF HeldBehindRefresh
  <2>1. Held(t) => tabs[t].refreshing
    BY DEF Held, Requests, Range, HeldInv, IsHeld
  <2>2. PICK i \in DOMAIN reqs : reqs[i].tab = t /\ IsRefresh(reqs[i])
    BY <2>1 DEF HeldInv, RefreshOf
  <2>3. /\ reqs[i].step \in {"sent", "served", "denied"}
        /\ \A j \in DOMAIN reqs : IsRefresh(reqs[j]) /\ reqs[j].tab = t => j = i
    BY <2>2 DEF RefreshInv, Shaped
  <2> QED BY <2>2, <2>3 DEF IsRefresh
<1> QED BY <1>1, <1>2, <1>3, TypeAlways, PTL DEF Spec

=============================================================================

-------------------------- MODULE UriGrammarProofs --------------------------
(***************************************************************************)
(* Proofs about the grammars: what is formatted is what is parsed, for     *)
(* every text, number and list of segments, and the constructors refuse    *)
(* what would be read back otherwise, and no more.                         *)
(* A recursive function is, as defined, some solution of its equation: for *)
(* each, a lemma named for it proves that there is one, by Recursion, and  *)
(* what the function computes follows by SeqInduction or NumberInduction.  *)
(***************************************************************************)
EXTENDS UriGrammar, WellFoundedInduction, SequenceTheorems, TLAPS

-----------------------------------------------------------------------------
(* Induction and recursion over anything that has a size.                  *)

(* Induction, by the least counterexample: a set of naturals that is not   *)
(* empty has a least element.                                              *)
LEMMA LeastNat ==
    ASSUME NEW T, T \subseteq Nat, T # {}
    PROVE  \E n \in T : \A m \in T : n <= m
<1> DEFINE R == OpToRel(<, Nat)
<1>1. IsWellFoundedOn(R, Nat)
  BY NatLessThanWellFounded
<1>2. \A x, y \in Nat : x < y => <<x, y>> \in R
  BY DEF OpToRel
<1> HIDE DEF R
<1>3. PICK x \in T : \A y \in T : ~ (<<y, x>> \in R)
  BY <1>1, WFMin
<1>4. \A y \in T : ~(y < x)
  BY <1>2, <1>3
<1>5. QED
  BY <1>4

(* The same for anything that has a size.                                  *)
LEMMA Smallest ==
    ASSUME NEW T, NEW size \in [T -> Nat], NEW B, B \subseteq T, B # {}
    PROVE  \E t \in B : \A u \in B : size[t] <= size[u]
<1> DEFINE S == {size[t] : t \in B}
<1>1. S \subseteq Nat /\ S # {}
  OBVIOUS
<1>2. PICK n \in S : \A m \in S : n <= m
  <2> HIDE DEF S
  <2>1. QED
    BY <1>1, LeastNat
<1>3. QED
  BY <1>2

(* H gives t a value in V from what f gives to smaller things.             *)
Descends(H, T, size, V) ==
    /\ V # {} /\ size \in [T -> Nat]
    /\ \A t \in T : \A f, g \in [T -> V] :
          /\ H[t][f] \in V
          /\ (\A u \in T : size[u] < size[t] => f[u] = g[u])
                => H[t][f] = H[t][g]

Solves(f, H, T, V) == f \in [T -> V] /\ \A t \in T : f[t] = H[t][f]

(* Recursion: there is a function whose values H gives.                    *)
LEMMA Recursion ==
    \A T, size, V, H : Descends(H, T, size, V) => \E f : Solves(f, H, T, V)
<1> SUFFICES ASSUME NEW T, NEW size, NEW V, NEW H, Descends(H, T, size, V)
             PROVE  \E f \in [T -> V] : \A t \in T : f[t] = H[t][f]
  BY DEF Solves
<1>v. PICK v0 : v0 \in V
  BY DEF Descends
<1>z. size \in [T -> Nat]
  BY DEF Descends
<1>a. ASSUME NEW t \in T, NEW f \in [T -> V] PROVE H[t][f] \in V
  BY DEF Descends
<1>b. ASSUME NEW t \in T, NEW f \in [T -> V], NEW g \in [T -> V],
             \A u \in T : size[u] < size[t] => f[u] = g[u]
      PROVE  H[t][f] = H[t][g]
  BY <1>b DEF Descends
<1>c. ASSUME NEW t \in T PROVE size[t] \in Nat
  BY <1>z
<1> DEFINE Good(f, n) == \A t \in T : size[t] < n => f[t] = H[t][f]
           Bad == {n \in Nat : ~\E f \in [T -> V] : Good(f, n)}
<1> HIDE DEF Bad
<1>1. Bad = {}
  <2> SUFFICES ASSUME Bad # {} PROVE FALSE
    OBVIOUS
  <2>1. PICK m \in Bad : \A n \in Bad : m <= n
    <3>1. Bad \subseteq Nat
      BY DEF Bad
    <3>2. QED
      BY <3>1, LeastNat
  <2>2. m # 0
    <3> DEFINE f == [t \in T |-> v0]
    <3>1. f \in [T -> V]
      BY <1>v
    <3>2. \A t \in T : ~(size[t] < 0)
      BY <1>c
    <3> HIDE DEF f
    <3>3. Good(f, 0)
      BY <3>2
    <3>4. QED
      BY <2>1, <3>1, <3>3 DEF Bad
  <2>3. PICK k \in Nat : m = k + 1 /\ k \notin Bad
    <3>1. m \in Nat
      BY DEF Bad
    <3>2. m - 1 \in Nat /\ m = (m - 1) + 1 /\ ~(m <= m - 1)
      BY <2>2, <3>1
    <3>3. m - 1 \notin Bad
      BY <2>1, <3>2
    <3>4. QED
      BY <3>2, <3>3
  <2>4. PICK f \in [T -> V] : Good(f, k)
    BY <2>3 DEF Bad
  <2> DEFINE g == [t \in T |-> IF size[t] < k THEN f[t] ELSE H[t][f]]
  <2>5. g \in [T -> V]
    BY <1>a
  <2>6. ASSUME NEW t \in T, size[t] < m
        PROVE  g[t] = H[t][g]
    <3>1. size[t] \in Nat /\ size[t] <= k
      BY <1>c, <2>3, <2>6
    <3>2. ASSUME NEW u \in T, size[u] < size[t] PROVE f[u] = g[u]
      <4>1. size[u] < k
        BY <1>c, <3>1, <3>2
      <4>2. QED
        BY <4>1
    <3>3. H[t][f] = H[t][g]
      BY <1>b, <2>5, <3>2
    <3>4. g[t] = H[t][f]
      BY <2>4
    <3>5. QED
      BY <3>3, <3>4
  <2>7. QED
    BY <2>1, <2>5, <2>6 DEF Bad
<1>2. ASSUME NEW f \in [T -> V], NEW g \in [T -> V], NEW n \in Nat,
             Good(f, n), Good(g, n)
      PROVE  \A t \in T : size[t] < n => f[t] = g[t]
  <2> DEFINE B == {t \in T : size[t] < n /\ f[t] # g[t]}
  <2> SUFFICES ASSUME B # {} PROVE FALSE
    OBVIOUS
  <2>1. PICK t \in B : \A u \in B : size[t] <= size[u]
    <3>1. B \subseteq T
      OBVIOUS
    <3> HIDE DEF B
    <3>2. QED
      BY <1>z, <3>1, Smallest
  <2>2. ASSUME NEW u \in T, size[u] < size[t] PROVE f[u] = g[u]
    <3>1. size[u] < n /\ ~(size[t] <= size[u])
      BY <1>c, <2>1, <2>2
    <3>2. QED
      BY <2>1, <3>1
  <2>3. H[t][f] = H[t][g]
    BY <1>b, <2>1, <2>2
  <2>4. QED
    BY <1>2, <2>1, <2>3
<1> DEFINE F == [n \in Nat |-> CHOOSE f \in [T -> V] : Good(f, n)]
           h == [t \in T |-> F[size[t] + 1][t]]
<1>3. ASSUME NEW n \in Nat
      PROVE  F[n] \in [T -> V] /\ Good(F[n], n)
  BY <1>1 DEF Bad
<1> HIDE DEF F
<1>4. h \in [T -> V]
  <2>1. ASSUME NEW t \in T PROVE F[size[t] + 1][t] \in V
    <3>1. size[t] + 1 \in Nat
      BY <1>c
    <3>2. F[size[t] + 1] \in [T -> V]
      BY <1>3, <3>1
    <3>3. QED
      BY <3>2
  <2>2. QED
    BY <2>1
<1>5. ASSUME NEW t \in T
      PROVE  h[t] = H[t][h]
  <2>1. size[t] + 1 \in Nat /\ size[t] < size[t] + 1
    BY <1>c
  <2>2. F[size[t] + 1] \in [T -> V] /\ Good(F[size[t] + 1], size[t] + 1)
    BY <1>3, <2>1
  <2>3. ASSUME NEW u \in T, size[u] < size[t]
        PROVE  h[u] = F[size[t] + 1][u]
    <3>1. size[u] + 1 \in Nat /\ size[u] < size[u] + 1
      BY <1>c
    <3>2. F[size[u] + 1] \in [T -> V] /\ Good(F[size[u] + 1], size[u] + 1)
      BY <1>3, <3>1
    <3>3. Good(F[size[t] + 1], size[u] + 1)
      <4>1. \A w \in T : size[w] < size[u] + 1 => size[w] < size[t] + 1
        BY <1>c, <2>3
      <4>2. QED
        BY <2>2, <4>1
    <3>4. F[size[u] + 1][u] = F[size[t] + 1][u]
      BY <1>2, <2>2, <3>1, <3>2, <3>3
    <3>5. QED
      BY <3>4
  <2>4. H[t][h] = H[t][F[size[t] + 1]]
    BY <1>b, <1>4, <2>2, <2>3
  <2>5. h[t] = H[t][F[size[t] + 1]]
    BY <2>1, <2>2
  <2>6. QED
    BY <2>4, <2>5
<1>6. QED
  BY <1>4, <1>5

(* The same for sequences, by their length.                                *)
Shrinks(H, S, V) ==
    /\ V # {}
    /\ \A s \in Seq(S) : \A f, g \in [Seq(S) -> V] :
          /\ H[s][f] \in V
          /\ (\A u \in Seq(S) : Len(u) < Len(s) => f[u] = g[u])
                => H[s][f] = H[s][g]

(* A function on sequences is given by its values at shorter ones.         *)
LEMMA SeqRecursion ==
    \A S, V, H : Shrinks(H, S, V) => \E f : Solves(f, H, Seq(S), V)
<1> SUFFICES ASSUME NEW S, NEW V, NEW H, Shrinks(H, S, V)
             PROVE  \E f : Solves(f, H, Seq(S), V)
  OBVIOUS
<1>1. PICK size : size = [s \in Seq(S) |-> Len(s)]
  OBVIOUS
<1>2. size \in [Seq(S) -> Nat] /\ \A s \in Seq(S) : size[s] = Len(s)
  BY <1>1
<1>3. PICK T : T = Seq(S)
  OBVIOUS
<1>4. \A t, u \in T : size[u] < size[t] <=> Len(u) < Len(t)
  BY <1>2, <1>3
<1>5. ASSUME NEW t \in T, NEW f \in [T -> V], NEW g \in [T -> V]
      PROVE  /\ H[t][f] \in V
             /\ (\A u \in T : size[u] < size[t] => f[u] = g[u]) => H[t][f] = H[t][g]
  <2>1. /\ H[t][f] \in V
        /\ (\A u \in T : Len(u) < Len(t) => f[u] = g[u]) => H[t][f] = H[t][g]
    BY <1>3 DEF Shrinks
  <2>2. QED
    BY <1>4, <2>1
<1>6. V # {} /\ size \in [T -> Nat]
  BY <1>2, <1>3 DEF Shrinks
<1>7. Descends(H, T, size, V)
  BY <1>5, <1>6 DEF Descends
<1>8. QED
  BY <1>3, <1>7, Recursion

(* P holds of s if it holds of everything shorter.                         *)
Hereditary(P, S) ==
    \A s \in Seq(S) : (\A u \in Seq(S) : Len(u) < Len(s) => u \in P) => s \in P

(* What is inherited from shorter sequences holds of all.                  *)
LEMMA SeqInduction ==
    \A P, S : Hereditary(P, S) => Seq(S) \subseteq P
<1> SUFFICES ASSUME NEW P, NEW S, Hereditary(P, S), Seq(S) \ P # {}
             PROVE  FALSE
  OBVIOUS
<1>1. PICK size : size = [s \in Seq(S) |-> Len(s)]
  OBVIOUS
<1>2. size \in [Seq(S) -> Nat] /\ \A s \in Seq(S) : size[s] = Len(s)
  BY <1>1
<1>3. PICK s \in Seq(S) \ P : \A u \in Seq(S) \ P : size[s] <= size[u]
  BY <1>2, Smallest
<1>4. ASSUME NEW u \in Seq(S), Len(u) < Len(s)
      PROVE  u \in P
  <2>1. Len(u) \in Nat /\ Len(s) \in Nat /\ size[s] = Len(s) /\ size[u] = Len(u)
    BY <1>2
  <2>2. ~(size[s] <= size[u])
    BY <1>4, <2>1
  <2>3. QED
    BY <1>3, <2>2
<1>5. QED
  BY <1>3, <1>4 DEF Hereditary

-----------------------------------------------------------------------------
(* Sequences.                                                              *)

(* What After leaves.                                                      *)
LEMMA AfterFacts ==
    ASSUME NEW S, NEW s \in Seq(S), NEW k \in 0 .. Len(s)
    PROVE  /\ After(s, k) \in Seq(S)
           /\ Len(After(s, k)) = Len(s) - k
           /\ \A i \in 1 .. Len(s) - k : After(s, k)[i] = s[k + i]
<1>1. k + 1 \in Int /\ Len(s) \in Int /\ k \in Int
  OBVIOUS
<1>2. \A i \in k + 1 .. Len(s) : s[i] \in S
  BY ElementOfSeq
<1>3. /\ SubSeq(s, k + 1, Len(s)) \in Seq(S)
      /\ Len(SubSeq(s, k + 1, Len(s))) =
            IF k + 1 <= Len(s) THEN Len(s) - (k + 1) + 1 ELSE 0
      /\ \A i \in 1 .. Len(s) - (k + 1) + 1 :
            SubSeq(s, k + 1, Len(s))[i] = s[k + 1 + i - 1]
  BY <1>1, <1>2, SubSeqProperties
<1>4. QED
  BY <1>1, <1>3 DEF After

(* What Before leaves.                                                     *)
LEMMA BeforeFacts ==
    ASSUME NEW S, NEW s \in Seq(S), NEW k \in 1 .. Len(s) + 1
    PROVE  /\ Before(s, k) \in Seq(S)
           /\ Len(Before(s, k)) = k - 1
           /\ \A i \in 1 .. k - 1 : Before(s, k)[i] = s[i]
<1>1. k - 1 \in Int /\ Len(s) \in Int /\ k \in Int /\ 1 \in Int
  OBVIOUS
<1>2. \A i \in 1 .. k - 1 : s[i] \in S
  BY ElementOfSeq
<1>3. /\ SubSeq(s, 1, k - 1) \in Seq(S)
      /\ Len(SubSeq(s, 1, k - 1)) = IF 1 <= k - 1 THEN k - 1 - 1 + 1 ELSE 0
      /\ \A i \in 1 .. k - 1 - 1 + 1 : SubSeq(s, 1, k - 1)[i] = s[1 + i - 1]
  BY <1>1, <1>2, SubSeqProperties
<1>4. QED
  BY <1>1, <1>3 DEF Before

(* What is put in front or behind can be taken off again.                  *)
LEMMA ConcatApart ==
    ASSUME NEW S, NEW s \in Seq(S), NEW t \in Seq(S)
    PROVE  /\ After(s \o t, Len(s)) = t
           /\ Before(s \o t, Len(s) + 1) = s
<1> DEFINE u == s \o t
<1>1. /\ u \in Seq(S) /\ Len(u) = Len(s) + Len(t)
      /\ \A i \in 1 .. Len(s) + Len(t) :
            u[i] = IF i <= Len(s) THEN s[i] ELSE t[i - Len(s)]
  BY ConcatProperties
<1>2. Len(s) \in Nat /\ Len(t) \in Nat
  OBVIOUS
<1> HIDE DEF u
<1>3. After(u, Len(s)) = t
  <2>1. Len(s) \in 0 .. Len(u)
    BY <1>1, <1>2
  <2>2. /\ After(u, Len(s)) \in Seq(S) /\ Len(After(u, Len(s))) = Len(u) - Len(s)
        /\ \A i \in 1 .. Len(u) - Len(s) : After(u, Len(s))[i] = u[Len(s) + i]
    BY <1>1, <2>1, AfterFacts
  <2>3. Len(After(u, Len(s))) = Len(t)
    BY <1>1, <1>2, <2>2
  <2>4. ASSUME NEW i \in 1 .. Len(t) PROVE After(u, Len(s))[i] = t[i]
    <3>1. /\ i \in 1 .. Len(u) - Len(s) /\ Len(s) + i \in 1 .. Len(s) + Len(t)
          /\ ~(Len(s) + i <= Len(s)) /\ Len(s) + i - Len(s) = i
      BY <1>1, <1>2
    <3>2. u[Len(s) + i] = t[i]
      BY <1>1, <3>1
    <3>3. After(u, Len(s))[i] = u[Len(s) + i]
      BY <2>2, <3>1
    <3>4. QED
      BY <3>2, <3>3
  <2>5. QED
    BY <2>2, <2>3, <2>4, SeqEqual
<1>4. Before(u, Len(s) + 1) = s
  <2>1. PICK k : k = Len(s) + 1
    OBVIOUS
  <2>2. k \in 1 .. Len(u) + 1 /\ k - 1 = Len(s)
    BY <1>1, <1>2, <2>1
  <2>3. /\ Before(u, k) \in Seq(S) /\ Len(Before(u, k)) = k - 1
        /\ \A i \in 1 .. k - 1 : Before(u, k)[i] = u[i]
    BY <1>1, <2>2, BeforeFacts
  <2>4. \A i \in 1 .. Len(s) : Before(u, k)[i] = s[i]
    BY <1>1, <1>2, <2>2, <2>3
  <2>5. QED
    BY <2>1, <2>2, <2>3, <2>4, SeqEqual
<1>5. QED
  BY <1>3, <1>4 DEF u

(* A sequence of one element.                                              *)
LEMMA OneFacts ==
    ASSUME NEW S, NEW c \in S
    PROVE  <<c>> \in Seq(S) /\ Len(<<c>>) = 1 /\ <<c>>[1] = c
OBVIOUS

(* Around one of its elements a sequence falls in two.                     *)
LEMMA Parted ==
    ASSUME NEW S, NEW s \in Seq(S), NEW k \in 1 .. Len(s)
    PROVE  s = Before(s, k) \o (<<s[k]>> \o After(s, k))
<1> DEFINE b == Before(s, k)
           a == After(s, k)
           u == b \o (<<s[k]>> \o a)
<1>1. Len(s) \in Nat /\ k \in Nat /\ k \in 0 .. Len(s) /\ k \in 1 .. Len(s) + 1
  OBVIOUS
<1>2. a \in Seq(S) /\ Len(a) = Len(s) - k /\ \A i \in 1 .. Len(s) - k : a[i] = s[k + i]
  BY <1>1, AfterFacts
<1>3. b \in Seq(S) /\ Len(b) = k - 1 /\ \A i \in 1 .. k - 1 : b[i] = s[i]
  BY <1>1, BeforeFacts
<1>4. s[k] \in S
  BY ElementOfSeq
<1>5. <<s[k]>> \in Seq(S) /\ Len(<<s[k]>>) = 1 /\ <<s[k]>>[1] = s[k]
  BY <1>4, OneFacts
<1> HIDE DEF a, b
<1> DEFINE c == <<s[k]>> \o a
<1>6. c \in Seq(S) /\ Len(c) = 1 + Len(a)
      /\ \A i \in 1 .. 1 + Len(a) : c[i] = IF i <= 1 THEN <<s[k]>>[i] ELSE a[i - 1]
  BY <1>2, <1>5, ConcatProperties
<1> HIDE DEF c
<1>7. b \o c \in Seq(S) /\ Len(b \o c) = Len(b) + Len(c)
      /\ \A i \in 1 .. Len(b) + Len(c) :
            (b \o c)[i] = IF i <= Len(b) THEN b[i] ELSE c[i - Len(b)]
  BY <1>3, <1>6, ConcatProperties
<1>8. Len(b \o c) = Len(s)
  BY <1>1, <1>2, <1>3, <1>6, <1>7
<1>9. ASSUME NEW i \in 1 .. Len(s) PROVE s[i] = (b \o c)[i]
  <2>1. CASE i < k
    BY <1>1, <1>2, <1>3, <1>6, <1>7, <2>1
  <2>2. CASE i = k
    <3>1. i - Len(b) = 1 /\ ~(i <= Len(b)) /\ i \in 1 .. Len(b) + Len(c)
      BY <1>1, <1>2, <1>3, <1>6, <2>2
    <3>2. c[1] = s[k]
      BY <1>1, <1>2, <1>5, <1>6
    <3>3. QED
      BY <1>7, <2>2, <3>1, <3>2
  <2>3. CASE i > k
    <3>1. i - Len(b) \in 1 .. 1 + Len(a) /\ ~(i - Len(b) <= 1)
          /\ i - Len(b) - 1 = i - k /\ i - k \in 1 .. Len(s) - k /\ ~(i <= Len(b))
          /\ i \in 1 .. Len(b) + Len(c)
      BY <1>1, <1>2, <1>3, <1>6, <2>3
    <3>2. c[i - Len(b)] = a[i - k] /\ a[i - k] = s[k + (i - k)]
      BY <1>2, <1>6, <3>1
    <3>3. k + (i - k) = i
      BY <1>1
    <3>4. QED
      BY <1>7, <3>1, <3>2, <3>3
  <2>4. i \in Int /\ k \in Int
    OBVIOUS
  <2>5. i < k \/ i = k \/ i > k
    BY <2>4
  <2>6. QED
    BY <2>1, <2>2, <2>3, <2>5
<1>10. s = b \o c
  BY <1>7, <1>8, <1>9, SeqEqual
<1>11. QED
  BY <1>10 DEF a, b, c

(* Find is the first place, or 0 where there is none.                      *)
LEMMA FindFacts ==
    ASSUME NEW S, NEW s \in Seq(S), NEW c
    PROVE  /\ Has(s, c) => /\ Find(s, c) \in 1 .. Len(s) /\ s[Find(s, c)] = c
                           /\ \A j \in 1 .. Find(s, c) - 1 : s[j] # c
           /\ ~Has(s, c) <=> Find(s, c) = 0
<1>1. DOMAIN s = 1 .. Len(s) /\ Len(s) \in Nat
  BY LenProperties
<1>2. ASSUME Has(s, c)
      PROVE  \E i \in DOMAIN s : s[i] = c /\ \A j \in 1 .. i - 1 : s[j] # c
  <2> DEFINE B == {i \in 1 .. Len(s) : s[i] = c}
  <2>1. B \subseteq Nat /\ B # {}
    BY <1>1, <1>2 DEF Has
  <2>2. PICK i \in B : \A j \in B : i <= j
    <3> HIDE DEF B
    <3>1. QED
      BY <2>1, LeastNat
  <2>3. ASSUME NEW j \in 1 .. i - 1 PROVE s[j] # c
    <3>1. j \in 1 .. Len(s) /\ ~(i <= j)
      BY <1>1, <2>2
    <3>2. QED
      BY <2>2, <3>1
  <2>4. QED
    BY <1>1, <2>2, <2>3
<1>3. ASSUME Has(s, c)
      PROVE  /\ Find(s, c) \in 1 .. Len(s) /\ s[Find(s, c)] = c
             /\ \A j \in 1 .. Find(s, c) - 1 : s[j] # c
  <2>1. Find(s, c) =
          CHOOSE i \in DOMAIN s : s[i] = c /\ \A j \in 1 .. i - 1 : s[j] # c
    BY <1>3 DEF Find
  <2>2. QED
    BY <1>1, <1>2, <1>3, <2>1
<1>4. ASSUME ~Has(s, c) PROVE Find(s, c) = 0
  BY <1>4 DEF Find
<1>5. QED
  BY <1>1, <1>3, <1>4

(* What is in the whole is in one of its parts.                            *)
LEMMA HasConcat ==
    ASSUME NEW S, NEW s \in Seq(S), NEW t \in Seq(S), NEW c
    PROVE  Has(s \o t, c) <=> Has(s, c) \/ Has(t, c)
<1> DEFINE u == s \o t
<1>1. /\ u \in Seq(S) /\ Len(u) = Len(s) + Len(t)
      /\ \A i \in 1 .. Len(s) + Len(t) :
            u[i] = IF i <= Len(s) THEN s[i] ELSE t[i - Len(s)]
  BY ConcatProperties
<1> HIDE DEF u
<1>2. /\ DOMAIN s = 1 .. Len(s) /\ DOMAIN t = 1 .. Len(t) /\ DOMAIN u = 1 .. Len(u)
      /\ Len(s) \in Nat /\ Len(t) \in Nat
  BY <1>1, LenProperties
<1>3. ASSUME Has(u, c) PROVE Has(s, c) \/ Has(t, c)
  <2>1. PICK i \in 1 .. Len(s) + Len(t) : u[i] = c
    BY <1>1, <1>2, <1>3 DEF Has
  <2>2. CASE i <= Len(s)
    BY <1>1, <1>2, <2>1, <2>2 DEF Has
  <2>3. CASE ~(i <= Len(s))
    <3>1. i - Len(s) \in 1 .. Len(t)
      BY <1>2, <2>3
    <3>2. t[i - Len(s)] = c
      BY <1>1, <2>1, <2>3
    <3>3. QED
      BY <1>2, <3>1, <3>2 DEF Has
  <2>4. QED
    BY <2>2, <2>3
<1>4. ASSUME Has(s, c) PROVE Has(u, c)
  <2>1. PICK i \in 1 .. Len(s) : s[i] = c
    BY <1>2, <1>4 DEF Has
  <2>2. i \in 1 .. Len(s) + Len(t) /\ i <= Len(s)
    BY <1>2
  <2>3. QED
    BY <1>1, <1>2, <2>1, <2>2 DEF Has
<1>5. ASSUME Has(t, c) PROVE Has(u, c)
  <2>1. PICK i \in 1 .. Len(t) : t[i] = c
    BY <1>2, <1>5 DEF Has
  <2>2. PICK j : j = Len(s) + i
    OBVIOUS
  <2>3. /\ j \in 1 .. Len(s) + Len(t) /\ ~(j <= Len(s)) /\ j - Len(s) = i
    BY <1>2, <2>2
  <2>4. u[j] = c
    BY <1>1, <2>1, <2>3
  <2>5. QED
    BY <1>1, <1>2, <2>3, <2>4 DEF Has
<1>6. QED
  BY <1>3, <1>4, <1>5 DEF u

(* The first c behind a text without one.                                  *)
LEMMA FindBehind ==
    ASSUME NEW S, NEW s \in Seq(S), NEW c \in S, NEW t \in Seq(S), ~Has(s, c)
    PROVE  LET u == s \o (<<c>> \o t)
           IN  /\ u \in Seq(S) /\ Has(u, c)
               /\ Find(u, c) = Len(s) + 1 /\ Find(u, c) \in 1 .. Len(u)
               /\ Before(u, Find(u, c)) = s /\ After(u, Find(u, c)) = t
<1> DEFINE v == <<c>> \o t
           u == s \o v
           k == Find(u, c)
<1>1. <<c>> \in Seq(S) /\ Len(<<c>>) = 1 /\ <<c>>[1] = c
  BY OneFacts
<1>2. v \in Seq(S) /\ Len(v) = 1 + Len(t) /\ v[1] = c
  <2>1. v \in Seq(S) /\ Len(v) = 1 + Len(t)
        /\ \A i \in 1 .. 1 + Len(t) : v[i] = IF i <= 1 THEN <<c>>[i] ELSE t[i - 1]
    BY <1>1, ConcatProperties
  <2> HIDE DEF v
  <2>2. 1 \in 1 .. 1 + Len(t)
    OBVIOUS
  <2>3. QED
    BY <1>1, <2>1, <2>2
<1>3. After(v, 1) = t
  <2>1. After(<<c>> \o t, Len(<<c>>)) = t
    BY <1>1, ConcatApart
  <2>2. QED
    BY <1>1, <2>1
<1>4. s \o <<c>> \in Seq(S) /\ Len(s \o <<c>>) = Len(s) + 1
  BY <1>1, ConcatProperties
<1>5. u = (s \o <<c>>) \o t
  BY <1>1, ConcatAssociative
<1>6. After(u, Len(s) + 1) = t
  <2>1. After((s \o <<c>>) \o t, Len(s \o <<c>>)) = t
    BY <1>4, ConcatApart
  <2>2. QED
    BY <1>4, <1>5, <2>1
<1> HIDE DEF v
<1>7. Before(u, Len(s) + 1) = s
  BY <1>2, ConcatApart
<1>8. /\ u \in Seq(S) /\ Len(u) = Len(s) + Len(v)
      /\ \A i \in 1 .. Len(s) + Len(v) :
            u[i] = IF i <= Len(s) THEN s[i] ELSE v[i - Len(s)]
  <2>1. v \in Seq(S)
    BY <1>2
  <2>2. QED
    BY <2>1, ConcatProperties
<1>9. Len(s) \in Nat /\ Len(t) \in Nat /\ DOMAIN s = 1 .. Len(s)
  BY LenProperties
<1> HIDE DEF u
<1>10. Has(u, c)
  <2>1. Has(v, c)
    <3>1. DOMAIN v = 1 .. Len(v) /\ 1 \in 1 .. Len(v)
      BY <1>2, <1>9, LenProperties
    <3>2. QED
      BY <1>2, <3>1 DEF Has
  <2>2. QED
    BY <1>2, <2>1, HasConcat DEF u
<1>11. k = Len(s) + 1
  <2>1. /\ k \in 1 .. Len(u) /\ u[k] = c /\ \A j \in 1 .. k - 1 : u[j] # c
    BY <1>8, <1>10, FindFacts
  <2> HIDE DEF k
  <2>2. ~(k <= Len(s))
    <3> SUFFICES ASSUME k <= Len(s) PROVE FALSE
      OBVIOUS
    <3>1. k \in 1 .. Len(s) /\ k \in 1 .. Len(s) + Len(v)
      BY <1>8, <1>9, <2>1
    <3>2. s[k] = c
      BY <1>8, <2>1, <3>1
    <3>3. QED
      BY <1>9, <3>1, <3>2 DEF Has
  <2>3. ~(k > Len(s) + 1)
    <3> SUFFICES ASSUME k > Len(s) + 1 PROVE FALSE
      OBVIOUS
    <3>1. PICK j : j = Len(s) + 1
      OBVIOUS
    <3>2. /\ j \in 1 .. k - 1 /\ j \in 1 .. Len(s) + Len(v)
          /\ ~(j <= Len(s)) /\ j - Len(s) = 1
      BY <1>2, <1>9, <2>1, <3>1
    <3>3. u[j] = c
      BY <1>2, <1>8, <3>2
    <3>4. QED
      BY <2>1, <3>2, <3>3
  <2>4. QED
    BY <1>9, <2>1, <2>2, <2>3
<1>12. k \in 1 .. Len(u)
  BY <1>8, <1>10, FindFacts
<1>13. QED
  BY <1>6, <1>7, <1>8, <1>10, <1>11, <1>12 DEF u, v

(* The same for numbers.                                                   *)
Inherited(P) == \A n \in Nat : (\A m \in Nat : m < n => m \in P) => n \in P
HoldsOfNat(P) == \A n \in Nat : n \in P

(* What is inherited from smaller numbers holds of all.                    *)
LEMMA NumberInduction ==
    ASSUME NEW P, Inherited(P) PROVE HoldsOfNat(P)
<1> SUFFICES ASSUME NEW k \in Nat \ P PROVE FALSE
  BY DEF HoldsOfNat
<1>1. PICK n \in Nat \ P : \A m \in Nat \ P : n <= m
  BY LeastNat
<1>2. ASSUME NEW m \in Nat, m < n PROVE m \in P
  BY <1>1, <1>2
<1>3. n \in P
  BY <1>2 DEF Inherited
<1>4. QED
  BY <1>3

(* All but the last element, and the last.                                 *)
LEMMA FrontFacts ==
    ASSUME NEW S, NEW s \in Seq(S), s # <<>>
    PROVE  /\ Front(s) \in Seq(S) /\ Last(s) \in S
           /\ Len(Front(s)) = Len(s) - 1 /\ Len(s) \in Nat \ {0}
           /\ s = Append(Front(s), Last(s))
           /\ \A i \in 1 .. Len(s) - 1 : Front(s)[i] = s[i]
<1>1. Len(s) \in Nat \ {0} /\ Len(s) \in 1 .. Len(s)
  BY EmptySeq
<1>2. PICK k : k = Len(s)
  OBVIOUS
<1>3. k \in 1 .. Len(s) + 1 /\ k \in 1 .. Len(s)
  BY <1>1, <1>2
<1>4. /\ Before(s, k) \in Seq(S) /\ Len(Before(s, k)) = k - 1
      /\ \A i \in 1 .. k - 1 : Before(s, k)[i] = s[i]
  BY <1>3, BeforeFacts
<1>5. Front(s) = Before(s, k) /\ Last(s) = s[k]
  BY <1>2 DEF Front, Before, Last
<1>6. s[k] \in S
  BY <1>3, ElementOfSeq
<1> DEFINE t == Append(Front(s), Last(s))
<1>7. /\ t \in Seq(S) /\ Len(t) = Len(Front(s)) + 1
      /\ \A i \in 1 .. Len(Front(s)) : t[i] = Front(s)[i]
      /\ t[Len(Front(s)) + 1] = Last(s)
  BY <1>4, <1>5, <1>6, AppendProperties
<1> HIDE DEF t
<1>8. Len(Front(s)) = Len(s) - 1 /\ Len(t) = Len(s)
  BY <1>1, <1>2, <1>4, <1>5, <1>7
<1>9. ASSUME NEW i \in 1 .. Len(s) PROVE s[i] = t[i]
  <2>1. CASE i = Len(s)
    BY <1>1, <1>2, <1>5, <1>7, <1>8, <2>1
  <2>2. CASE i # Len(s)
    <3>1. i \in 1 .. k - 1 /\ i \in 1 .. Len(Front(s))
      BY <1>1, <1>2, <1>8, <2>2
    <3>2. QED
      BY <1>4, <1>5, <1>7, <3>1
  <2>3. QED
    BY <2>1, <2>2
<1>10. s = t
  BY <1>7, <1>8, <1>9, SeqEqual
<1>11. QED
  BY <1>1, <1>2, <1>4, <1>5, <1>6, <1>8, <1>10 DEF t

(* One more element at the end, and off again.                             *)
LEMMA AppendFacts ==
    ASSUME NEW S, NEW s \in Seq(S), NEW c \in S
    PROVE  /\ Append(s, c) \in Seq(S) /\ Append(s, c) # <<>>
           /\ Len(Append(s, c)) = Len(s) + 1
           /\ Front(Append(s, c)) = s /\ Last(Append(s, c)) = c
           /\ \A i \in 1 .. Len(s) : Append(s, c)[i] = s[i]
<1> DEFINE t == Append(s, c)
<1>1. /\ t \in Seq(S) /\ t # <<>> /\ Len(t) = Len(s) + 1
      /\ \A i \in 1 .. Len(s) : t[i] = s[i]
  BY AppendProperties
<1>2. /\ Front(t) \in Seq(S) /\ Last(t) \in S
      /\ t = Append(Front(t), Last(t))
  BY <1>1, FrontFacts
<1>3. Front(t) = s /\ Last(t) = c
  BY <1>2, AppendInjective
<1>4. QED
  BY <1>1, <1>3

-----------------------------------------------------------------------------
(* Numbers.                                                                *)

(* What a number is written as, by f for the number before its last digit. *)
DigitsOf(n, f) ==
    IF n < 10 THEN <<Zero + n>> ELSE Append(f[n \div 10], Zero + (n % 10))

(* A number is its last digit and the number before it.                    *)
LEMMA DigitsApart ==
    ASSUME NEW n \in Nat, ~(n < 10)
    PROVE  /\ n \div 10 \in Nat /\ n \div 10 < n /\ n \div 10 > 0
           /\ Zero + (n % 10) \in Digit
           /\ 10 * (n \div 10) + (Zero + (n % 10) - Zero) = n
BY DEF Zero, Digit

(* Numeral is what its definition says.                                    *)
LEMMA NumeralEquation ==
    \A n \in Nat : Numeral[n] = DigitsOf(n, Numeral)
<1>1. ASSUME NEW n \in Nat, NEW f \in [Nat -> Seq(Digit)]
      PROVE  DigitsOf(n, f) \in Seq(Digit)
  <2>1. CASE n < 10
    <3>1. Zero + n \in Digit
      BY <2>1 DEF Zero, Digit
    <3>2. QED
      BY <2>1, <3>1 DEF DigitsOf
  <2>2. CASE ~(n < 10)
    <3>1. n \div 10 \in Nat /\ Zero + (n % 10) \in Digit
      BY <2>2, DigitsApart
    <3>2. f[n \div 10] \in Seq(Digit)
      BY <3>1
    <3>3. QED
      BY <2>2, <3>1, <3>2 DEF DigitsOf
  <2>3. QED
    BY <2>1, <2>2
<1>2. ASSUME NEW n \in Nat, NEW f \in [Nat -> Seq(Digit)], NEW g \in [Nat -> Seq(Digit)],
             \A m \in Nat : m < n => f[m] = g[m]
      PROVE  DigitsOf(n, f) = DigitsOf(n, g)
  BY <1>2, DigitsApart DEF DigitsOf
<1>3. PICK V : V = Seq(Digit)
  OBVIOUS
<1>4. PICK size : size = [n \in Nat |-> n]
  OBVIOUS
<1>5. PICK H : H = [n \in Nat |-> [f \in [Nat -> V] |-> DigitsOf(n, f)]]
  OBVIOUS
<1>6. ASSUME NEW n \in Nat, NEW f \in [Nat -> V] PROVE H[n][f] = DigitsOf(n, f)
  BY <1>5
<1>7. ASSUME NEW n \in Nat PROVE size[n] = n
  BY <1>4
<1>8. Descends(H, Nat, size, V)
  <2>1. size \in [Nat -> Nat]
    BY <1>4
  <2>2. V # {}
    <3>1. <<>> \in V
      BY <1>3
    <3>2. QED
      BY <3>1
  <2>3. ASSUME NEW t \in Nat, NEW f \in [Nat -> V], NEW g \in [Nat -> V]
        PROVE  /\ H[t][f] \in V
               /\ (\A u \in Nat : size[u] < size[t] => f[u] = g[u])
                     => H[t][f] = H[t][g]
    <3>1. H[t][f] \in V
      BY <1>1, <1>3, <1>6
    <3>2. ASSUME \A u \in Nat : size[u] < size[t] => f[u] = g[u]
          PROVE H[t][f] = H[t][g]
      <4>1. \A u \in Nat : u < t => f[u] = g[u]
        BY <1>7, <3>2
      <4>2. DigitsOf(t, f) = DigitsOf(t, g)
        BY <1>2, <1>3, <4>1
      <4>3. QED
        BY <1>6, <4>2
    <3>3. QED
      BY <3>1, <3>2
  <2>4. QED
    BY <2>1, <2>2, <2>3 DEF Descends
<1>9. PICK f : Solves(f, H, Nat, V)
  BY <1>8, Recursion
<1>10. f = [n \in Nat |-> DigitsOf(n, f)]
  BY <1>6, <1>9 DEF Solves
<1>11. Numeral = [n \in Nat |-> DigitsOf(n, Numeral)]
  BY <1>10 DEF Numeral, DigitsOf
<1>12. QED
  BY <1>11

ValueOf(s, f) == IF s = <<>> THEN 0 ELSE 10 * f[Front(s)] + (Last(s) - Zero)

(* NumeralValue is what its definition says.                               *)
LEMMA NumeralValueEquation ==
    \A s \in Seq(Digit) : NumeralValue[s] = ValueOf(s, NumeralValue)
<1>1. ASSUME NEW s \in Seq(Digit), NEW f \in [Seq(Digit) -> Nat]
      PROVE  ValueOf(s, f) \in Nat
  <2>1. CASE s = <<>>
    BY <2>1 DEF ValueOf
  <2>2. CASE s # <<>>
    <3>1. Front(s) \in Seq(Digit) /\ Last(s) \in Digit
      BY <2>2, FrontFacts
    <3>2. f[Front(s)] \in Nat /\ Last(s) - Zero \in Nat
      BY <3>1 DEF Digit, Zero
    <3>3. QED
      BY <2>2, <3>2 DEF ValueOf
  <2>3. QED
    BY <2>1, <2>2
<1>2. ASSUME NEW s \in Seq(Digit),
             NEW f \in [Seq(Digit) -> Nat], NEW g \in [Seq(Digit) -> Nat],
             \A u \in Seq(Digit) : Len(u) < Len(s) => f[u] = g[u]
      PROVE  ValueOf(s, f) = ValueOf(s, g)
  <2>1. CASE s = <<>>
    BY <2>1 DEF ValueOf
  <2>2. CASE s # <<>>
    <3>1. Front(s) \in Seq(Digit) /\ Len(Front(s)) = Len(s) - 1 /\ Len(s) \in Nat
      BY <2>2, FrontFacts
    <3>2. f[Front(s)] = g[Front(s)]
      BY <1>2, <3>1
    <3>3. QED
      BY <2>2, <3>2 DEF ValueOf
  <2>3. QED
    BY <2>1, <2>2
<1>3. PICK S : S = Digit
  OBVIOUS
<1>4. PICK V : V = Nat
  OBVIOUS
<1>5. PICK H : H = [s \in Seq(S) |-> [f \in [Seq(S) -> V] |-> ValueOf(s, f)]]
  OBVIOUS
<1>6. ASSUME NEW s \in Seq(S), NEW f \in [Seq(S) -> V] PROVE H[s][f] = ValueOf(s, f)
  BY <1>5
<1>7. Shrinks(H, S, V)
  <2>1. V # {}
    BY <1>4
  <2>2. ASSUME NEW s \in Seq(S), NEW f \in [Seq(S) -> V], NEW g \in [Seq(S) -> V]
        PROVE  /\ H[s][f] \in V
               /\ (\A u \in Seq(S) : Len(u) < Len(s) => f[u] = g[u])
                     => H[s][f] = H[s][g]
    <3>1. H[s][f] \in V
      BY <1>1, <1>3, <1>4, <1>6
    <3>2. ASSUME \A u \in Seq(S) : Len(u) < Len(s) => f[u] = g[u]
          PROVE H[s][f] = H[s][g]
      <4>1. ValueOf(s, f) = ValueOf(s, g)
        BY <1>2, <1>3, <1>4, <3>2
      <4>2. QED
        BY <1>6, <4>1
    <3>3. QED
      BY <3>1, <3>2
  <2>3. QED
    BY <2>1, <2>2 DEF Shrinks
<1>8. PICK f : Solves(f, H, Seq(S), V)
  BY <1>7, SeqRecursion
<1>9. f = [s \in Seq(Digit) |-> ValueOf(s, f)]
  BY <1>3, <1>6, <1>8 DEF Solves
<1>10. NumeralValue = [s \in Seq(Digit) |-> ValueOf(s, NumeralValue)]
  BY <1>9 DEF NumeralValue, ValueOf
<1>11. QED
  BY <1>10

(* What Display writes of a number: digits, the first not a zero unless it *)
(* is all there is, and the number again when they are read.               *)
Written(n) ==
    /\ Numeral[n] \in Seq(Digit) /\ Numeral[n] # <<>>
    /\ n > 0 => Numeral[n][1] # Zero
    /\ Len(Numeral[n]) > 1 => n > 0
    /\ NumeralValue[Numeral[n]] = n

(* Every number is written so: by induction on the number.                 *)
LEMMA NumeralsWritten == \A n \in Nat : Written(n)
<1> DEFINE P == {n \in Nat : Written(n)}
<1>1. ASSUME NEW n \in Nat, \A m \in Nat : m < n => Written(m)
      PROVE  Written(n)
  <2>1. Numeral[n] = DigitsOf(n, Numeral)
    BY NumeralEquation
  <2>2. <<>> \in Seq(Digit) /\ NumeralValue[<<>>] = 0
    <3>1. <<>> \in Seq(Digit)
      OBVIOUS
    <3>2. QED
      BY <3>1, NumeralValueEquation DEF ValueOf
  <2>3. ASSUME NEW s \in Seq(Digit), NEW c \in Digit
        PROVE  /\ Append(s, c) \in Seq(Digit)
               /\ NumeralValue[Append(s, c)] = 10 * NumeralValue[s] + (c - Zero)
    <3>1. /\ Append(s, c) \in Seq(Digit) /\ Append(s, c) # <<>>
          /\ Front(Append(s, c)) = s /\ Last(Append(s, c)) = c
      BY AppendFacts
    <3>2. QED
      BY <3>1, NumeralValueEquation DEF ValueOf
  <2>4. CASE n < 10
    <3>1. PICK c : c = Zero + n
      OBVIOUS
    <3>2. c \in Digit /\ c - Zero = n /\ (n > 0 => c # Zero)
      BY <2>4, <3>1 DEF Zero, Digit
    <3>3. Numeral[n] = <<c>>
      BY <2>1, <2>4, <3>1 DEF DigitsOf
    <3>4. <<c>> = Append(<<>>, c)
      OBVIOUS
    <3>5. NumeralValue[<<c>>] = 10 * 0 + (c - Zero)
      BY <2>2, <2>3, <3>2, <3>4
    <3>6. <<c>> \in Seq(Digit) /\ Len(<<c>>) = 1 /\ <<c>>[1] = c
      BY <3>2, OneFacts
    <3>7. Numeral[n] # <<>> /\ ~(Len(Numeral[n]) > 1)
      BY <3>3, <3>6
    <3>8. NumeralValue[Numeral[n]] = n
      BY <3>2, <3>3, <3>5
    <3>9. QED
      BY <3>2, <3>3, <3>6, <3>7, <3>8 DEF Written
  <2>5. CASE ~(n < 10)
    <3>1. /\ n \div 10 \in Nat /\ n \div 10 < n /\ n \div 10 > 0
          /\ Zero + (n % 10) \in Digit
          /\ 10 * (n \div 10) + (Zero + (n % 10) - Zero) = n
      BY <2>5, DigitsApart
    <3>2. PICK c : c = Zero + (n % 10)
      OBVIOUS
    <3>3. PICK s : s = Numeral[n \div 10]
      OBVIOUS
    <3>4. /\ s \in Seq(Digit) /\ s # <<>> /\ s[1] # Zero
          /\ NumeralValue[s] = n \div 10
      BY <1>1, <3>1, <3>3 DEF Written
    <3>5. Numeral[n] = Append(s, c)
      BY <2>1, <2>5, <3>2, <3>3 DEF DigitsOf
    <3>6. /\ Append(s, c) \in Seq(Digit) /\ Append(s, c) # <<>>
          /\ \A i \in 1 .. Len(s) : Append(s, c)[i] = s[i]
      BY <3>1, <3>2, <3>4, AppendFacts
    <3>7. 1 \in 1 .. Len(s)
      BY <3>4, EmptySeq
    <3>8. NumeralValue[Append(s, c)] = 10 * (n \div 10) + (c - Zero)
      BY <2>3, <3>1, <3>2, <3>4
    <3>9. NumeralValue[Append(s, c)] = n
      <4>1. 10 * (n \div 10) + (c - Zero) = n
        <5>1. PICK q : q = n \div 10
          OBVIOUS
        <5>2. q \in Nat /\ 10 * q + (c - Zero) = n
          BY <3>1, <3>2, <5>1 DEF Zero
        <5>3. QED
          BY <5>1, <5>2
      <4>2. QED
        BY <3>8, <4>1
    <3>10. n > 0
      BY <2>5
    <3>11. QED
      BY <3>4, <3>5, <3>6, <3>7, <3>9, <3>10 DEF Written
  <2>6. QED
    BY <2>4, <2>5
<1>2. Inherited(P)
  BY <1>1 DEF Inherited
<1>3. HoldsOfNat(P)
  <2> HIDE DEF P
  <2>1. QED
    BY <1>2, NumberInduction
<1>4. QED
  BY <1>3 DEF HoldsOfNat

(* Digits that are canonical are the only ones for their number.           *)
Read(s) ==
    /\ NumeralValue[s] \in Nat
    /\ IsCanonical(s) => Numeral[NumeralValue[s]] = s

(* Digits are canonical but for a leading zero.                            *)
LEMMA CanonicalIn ==
    ASSUME NEW s \in Seq(Digit)
    PROVE  IsCanonical(s) <=> s # <<>> /\ (Len(s) > 1 => s[1] # Zero)
<1>1. ToSet(s) \subseteq Digit
  <2>1. \A i \in 1 .. Len(s) : s[i] \in Digit
    BY ElementOfSeq
  <2>2. DOMAIN s = 1 .. Len(s)
    BY LenProperties
  <2>3. QED
    BY <2>1, <2>2 DEF ToSet
<1>2. QED
  BY <1>1 DEF IsCanonical

(* Every sequence of digits is read so: by induction on its length.        *)
LEMMA NumeralsRead == \A s \in Seq(Digit) : Read(s)
<1> DEFINE P == {s \in Seq(Digit) : Read(s)}
<1>1. ASSUME NEW s \in Seq(Digit), \A u \in Seq(Digit) : Len(u) < Len(s) => Read(u)
      PROVE  Read(s)
  <2>1. NumeralValue[s] = ValueOf(s, NumeralValue)
    BY NumeralValueEquation
  <2>2. CASE s = <<>>
    BY <2>1, <2>2 DEF ValueOf, Read, IsCanonical
  <2>3. CASE s # <<>>
    <3>1. PICK t : t = Front(s)
      OBVIOUS
    <3>2. PICK c : c = Last(s)
      OBVIOUS
    <3>3. /\ t \in Seq(Digit) /\ c \in Digit /\ Len(t) = Len(s) - 1
          /\ Len(s) \in Nat \ {0} /\ s = Append(t, c)
          /\ \A i \in 1 .. Len(s) - 1 : t[i] = s[i]
      BY <2>3, <3>1, <3>2, FrontFacts
    <3>4. PICK v : v = NumeralValue[t]
      OBVIOUS
    <3>5. PICK n : n = NumeralValue[s]
      OBVIOUS
    <3>6. n = 10 * v + (c - Zero)
      BY <2>1, <2>3, <3>1, <3>2, <3>4, <3>5 DEF ValueOf
    <3>7. Len(t) < Len(s)
      BY <3>3
    <3>8. v \in Nat /\ (IsCanonical(t) => Numeral[v] = t)
      BY <1>1, <3>3, <3>4, <3>7 DEF Read
    <3>9. c - Zero \in 0 .. 9 /\ Zero + (c - Zero) = c
      BY <3>3 DEF Digit, Zero
    <3>10. n \in Nat
      BY <3>6, <3>8, <3>9
    <3>11. ASSUME IsCanonical(s) PROVE Numeral[n] = s
      <4>1. CASE t = <<>>
        <5>1. v = 0
          BY <3>3, <3>4, <4>1, NumeralValueEquation DEF ValueOf
        <5>2. n = c - Zero
          BY <3>6, <3>9, <5>1
        <5>3. Numeral[n] = <<Zero + n>>
          <6>1. n < 10
            BY <3>9, <5>2
          <6>2. Numeral[n] = DigitsOf(n, Numeral)
            BY <3>10, NumeralEquation
          <6>3. QED
            BY <6>1, <6>2 DEF DigitsOf
        <5>4. Append(t, c) = <<c>>
          BY <4>1
        <5>5. QED
          BY <3>3, <3>9, <5>2, <5>3, <5>4
      <4>2. CASE t # <<>>
        <5>1. Len(t) \in Nat \ {0} /\ 1 \in 1 .. Len(s) - 1 /\ Len(s) > 1
          BY <3>3, <4>2, EmptySeq
        <5>2. t[1] # Zero
          BY <3>3, <3>11, <5>1 DEF IsCanonical
        <5>3. IsCanonical(t)
          BY <3>3, <4>2, <5>2, CanonicalIn
        <5>4. Numeral[v] = t
          BY <3>8, <5>3
        <5>5. v # 0
          <6>1. SUFFICES ASSUME v = 0 PROVE FALSE
            OBVIOUS
          <6>2. Numeral[v] = <<Zero + 0>>
            <7>1. Numeral[0] = DigitsOf(0, Numeral)
              BY NumeralEquation
            <7>2. 0 < 10
              OBVIOUS
            <7>3. QED
              BY <6>1, <7>1, <7>2 DEF DigitsOf
          <6>3. t[1] = Zero
            BY <5>4, <6>2 DEF Zero
          <6>4. QED
            BY <5>2, <6>3
        <5>6. ~(n < 10) /\ n \div 10 = v /\ n % 10 = c - Zero
          <6>1. PICK d : d = c - Zero
            OBVIOUS
          <6>2. d \in 0 .. 9 /\ n = 10 * v + d /\ v \in Nat /\ v # 0
            BY <3>6, <3>8, <3>9, <5>5, <6>1
          <6>3. ~(n < 10) /\ n \div 10 = v /\ n % 10 = d
            BY <6>2
          <6>4. QED
            BY <6>1, <6>3
        <5>7. Numeral[n] = Append(Numeral[v], c)
          BY <3>9, <3>10, <5>6, NumeralEquation DEF DigitsOf
        <5>8. QED
          BY <3>3, <5>4, <5>7
      <4>3. QED
        BY <4>1, <4>2
    <3>12. QED
      BY <3>5, <3>10, <3>11 DEF Read
  <2>4. QED
    BY <2>2, <2>3
<1>2. Hereditary(P, Digit)
  BY <1>1 DEF Hereditary
<1>3. Seq(Digit) \subseteq P
  <2> HIDE DEF P
  <2>1. QED
    BY <1>2, SeqInduction
<1>4. QED
  BY <1>3

-----------------------------------------------------------------------------
(* What the split and the guards see of a text.                            *)

(* What starts like an authority, and what is left of it.                  *)
LEMMA SlashesFacts ==
    ASSUME NEW s \in Text
    PROVE  /\ IsPrefix(TwoSlashes, s) <=>
                 Len(s) >= 2 /\ s[1] = Slash /\ s[2] = Slash
           /\ StripSlashes(s) \in Text /\ Len(StripSlashes(s)) <= Len(s)
           /\ ~IsPrefix(TwoSlashes, s) => StripSlashes(s) = s
<1>1. /\ TwoSlashes \in Text /\ Len(TwoSlashes) = 2 /\ Len(s) \in Nat
      /\ TwoSlashes[1] = Slash /\ TwoSlashes[2] = Slash
      /\ SubSeq(TwoSlashes, 1, 2) = TwoSlashes
  <2>1. /\ TwoSlashes \in Seq(Byte) /\ Len(TwoSlashes) = 2
        /\ TwoSlashes[1] = Slash /\ TwoSlashes[2] = Slash
    BY DEF TwoSlashes, Slash, Byte
  <2>2. SubSeq(TwoSlashes, 1, Len(TwoSlashes)) = TwoSlashes
    BY <2>1, SubSeqFull
  <2>3. Len(s) \in Nat
    BY DEF Text
  <2>4. QED
    BY <2>1, <2>2, <2>3 DEF Text
<1>2. ASSUME Len(s) >= 2
      PROVE  SubSeq(s, 1, 2) = TwoSlashes <=> s[1] = Slash /\ s[2] = Slash
  <2>1. 3 \in 1 .. Len(s) + 1
    BY <1>1, <1>2
  <2>2. /\ Before(s, 3) \in Text /\ Len(Before(s, 3)) = 2
        /\ Before(s, 3)[1] = s[1] /\ Before(s, 3)[2] = s[2]
    <3>1. /\ Before(s, 3) \in Seq(Byte) /\ Len(Before(s, 3)) = 3 - 1
          /\ \A i \in 1 .. 3 - 1 : Before(s, 3)[i] = s[i]
      BY <2>1, BeforeFacts DEF Text
    <3>2. QED
      BY <3>1 DEF Text
  <2>3. SubSeq(s, 1, 2) = Before(s, 3)
    BY DEF Before
  <2>4. ASSUME s[1] = Slash, s[2] = Slash PROVE Before(s, 3) = TwoSlashes
    <3>1. Before(s, 3) \in Seq(Byte) /\ TwoSlashes \in Seq(Byte)
          /\ Len(Before(s, 3)) = Len(TwoSlashes)
          /\ \A i \in 1 .. Len(Before(s, 3)) : Before(s, 3)[i] = TwoSlashes[i]
      BY <1>1, <2>2, <2>4 DEF Text
    <3>2. QED
      BY <3>1, SeqEqual
  <2>5. QED
    BY <1>1, <2>2, <2>3, <2>4
<1>3. IsPrefix(TwoSlashes, s) <=> Len(s) >= 2 /\ s[1] = Slash /\ s[2] = Slash
  BY <1>1, <1>2 DEF IsPrefix
<1>4. ASSUME IsPrefix(TwoSlashes, s)
      PROVE  After(s, 2) \in Text /\ Len(After(s, 2)) <= Len(s)
  <2>1. 2 \in 0 .. Len(s)
    BY <1>1, <1>3, <1>4
  <2>2. After(s, 2) \in Seq(Byte) /\ Len(After(s, 2)) = Len(s) - 2
    BY <2>1, AfterFacts DEF Text
  <2>3. QED
    BY <1>1, <2>2 DEF Text
<1>5. StripSlashes(s) \in Text /\ Len(StripSlashes(s)) <= Len(s)
      /\ (~IsPrefix(TwoSlashes, s) => StripSlashes(s) = s)
  BY <1>1, <1>4 DEF StripSlashes
<1>6. QED
  BY <1>3, <1>5

(* The names of the schemes.                                               *)
IsName(w) == w \in Seq(97 .. 122) /\ Len(w) >= 2

(* The five schemes have such names.                                       *)
LEMMA NamesOfSchemes ==
    IsName(FILE) /\ IsName(MEM) /\ IsName(DATA) /\ IsName(SLICE) /\ IsName(CONCAT)
BY DEF IsName, FILE, MEM, DATA, SLICE, CONCAT

(* Such a name is a scheme in any case it is written, and no drive letter. *)
LEMMA NameFacts ==
    ASSUME NEW w, IsName(w)
    PROVE  /\ w \in Text /\ w # <<>> /\ ~Has(w, Colon)
           /\ LowerCase(w) = w /\ IsScheme(w) /\ ~IsDriveLetter(w)
<1>1. /\ w \in Seq(97 .. 122) /\ Len(w) \in Nat /\ Len(w) >= 2
      /\ DOMAIN w = 1 .. Len(w) /\ w \in [1 .. Len(w) -> 97 .. 122]
  BY LenProperties DEF IsName
<1>2. \A i \in DOMAIN w : w[i] \in 97 .. 122
  BY <1>1
<1>3. w \in Text
  <2>1. 97 .. 122 \subseteq Byte
    BY DEF Byte
  <2>2. QED
    BY <1>1, <2>1, SeqMonotonic DEF Text
<1>4. w # <<>>
  BY <1>1
<1>5. ~Has(w, Colon)
  BY <1>2 DEF Has, Colon
<1>6. LowerCase(w) = w
  <2>1. \A i \in DOMAIN w : Lower(w[i]) = w[i]
    BY <1>2 DEF Lower, Upper
  <2>2. LowerCase(w) = [i \in DOMAIN w |-> w[i]]
    BY <2>1 DEF LowerCase
  <2>3. w = [i \in DOMAIN w |-> w[i]]
    BY <1>1
  <2>4. QED
    BY <2>2, <2>3
<1>7. IsScheme(w)
  <2>1. ToSet(w) \subseteq Letter
    BY <1>2 DEF ToSet, Letter
  <2>2. w[1] \in Letter
    <3>1. 1 \in DOMAIN w
      BY <1>1
    <3>2. QED
      BY <1>2, <3>1 DEF Letter
  <2>3. QED
    BY <1>4, <2>1, <2>2 DEF IsScheme
<1>8. ~IsDriveLetter(w)
  BY <1>1 DEF IsDriveLetter
<1>9. QED
  BY <1>3, <1>4, <1>5, <1>6, <1>7, <1>8

(* What is written behind a scheme is split off again.                     *)
LEMMA SplitBehind ==
    ASSUME NEW w, IsName(w), NEW r \in Text
    PROVE  LET uri == (w \o <<Colon>>) \o r
           IN  /\ uri \in Text
               /\ split(uri) = [scheme |-> w, rest |-> StripSlashes(r)]
               /\ scheme_is(split(uri).scheme, w)
<1>1. /\ w \in Seq(Byte) /\ w # <<>> /\ ~Has(w, Colon) /\ LowerCase(w) = w
      /\ IsScheme(w) /\ ~IsDriveLetter(w)
  BY NameFacts DEF Text
<1>2. r \in Seq(Byte) /\ Colon \in Byte
  BY DEF Text, Byte, Colon
<1>3. PICK uri : uri = w \o (<<Colon>> \o r)
  OBVIOUS
<1>4. (w \o <<Colon>>) \o r = uri
  <2>1. <<Colon>> \in Seq(Byte)
    BY <1>2, OneFacts
  <2>2. QED
    BY <1>1, <1>2, <1>3, <2>1, ConcatAssociative
<1>5. /\ uri \in Seq(Byte) /\ Find(uri, Colon) = Len(w) + 1
      /\ Before(uri, Find(uri, Colon)) = w /\ After(uri, Find(uri, Colon)) = r
  BY <1>1, <1>2, <1>3, FindBehind
<1>6. Find(uri, Colon) # 0
  <2>1. Len(w) \in Nat
    BY <1>1
  <2>2. QED
    BY <1>5, <2>1
<1>7. split(uri) = [scheme |-> w, rest |-> StripSlashes(r)]
  BY <1>1, <1>5, <1>6 DEF split
<1>8. split(uri).scheme = w
  BY <1>7
<1>9. scheme_is(split(uri).scheme, w)
  BY <1>1, <1>8 DEF scheme_is
<1>10. QED
  BY <1>4, <1>5, <1>7, <1>9 DEF Text

(* Whatever is split, the rest is no longer.                               *)
LEMMA SplitFacts ==
    ASSUME NEW uri \in Text
    PROVE  /\ split(uri).rest \in Text /\ Len(split(uri).rest) <= Len(uri)
           /\ split(uri).scheme \in Text
<1>1. Len(uri) \in Nat /\ uri \in Seq(Byte)
  BY DEF Text
<1>2. PICK k : k = Find(uri, Colon)
  OBVIOUS
<1>3. k # 0 => k \in 1 .. Len(uri)
  BY <1>1, <1>2, FindFacts
<1>4. ASSUME k # 0
      PROVE  /\ After(uri, k) \in Text /\ Len(After(uri, k)) <= Len(uri)
             /\ Before(uri, k) \in Text
  <2>1. k \in 0 .. Len(uri) /\ k \in 1 .. Len(uri) + 1
    BY <1>1, <1>3, <1>4
  <2>2. /\ After(uri, k) \in Seq(Byte) /\ Len(After(uri, k)) = Len(uri) - k
        /\ Before(uri, k) \in Seq(Byte)
    BY <1>1, <2>1, AfterFacts, BeforeFacts
  <2>3. QED
    BY <1>1, <2>1, <2>2 DEF Text
<1>5. ASSUME k # 0
      PROVE  /\ StripSlashes(After(uri, k)) \in Text
             /\ Len(StripSlashes(After(uri, k))) <= Len(uri)
  <2>1. /\ After(uri, k) \in Text /\ Len(After(uri, k)) <= Len(uri)
    BY <1>4, <1>5
  <2>2. /\ StripSlashes(After(uri, k)) \in Text
        /\ Len(StripSlashes(After(uri, k))) <= Len(After(uri, k))
    BY <2>1, SlashesFacts
  <2>3. Len(After(uri, k)) \in Nat /\ Len(StripSlashes(After(uri, k))) \in Nat
    BY <2>1, <2>2 DEF Text
  <2>4. QED
    BY <1>1, <2>1, <2>2, <2>3
<1>6. FILE \in Text
  BY NamesOfSchemes, NameFacts
<1>7. split(uri) = [scheme |-> FILE, rest |-> uri]
      \/ (/\ k # 0
          /\ split(uri) = [scheme |-> Before(uri, k),
                           rest   |-> StripSlashes(After(uri, k))])
  BY <1>2 DEF split
<1>8. QED
  BY <1>1, <1>4, <1>5, <1>6, <1>7

-----------------------------------------------------------------------------
(* slice.rs                                                                *)

(* A numeral is canonical, is read as its number, and holds no separator.  *)
LEMMA NumeralFacts ==
    ASSUME NEW n \in Nat
    PROVE  /\ Numeral[n] \in Seq(Byte) /\ Numeral[n] # <<>>
           /\ IsCanonical(Numeral[n]) /\ NumeralValue[Numeral[n]] = n
           /\ ~Has(Numeral[n], Plus) /\ ~Has(Numeral[n], Bang)
           /\ Numeral[n][1] \in Digit
<1>1. Written(n)
  BY NumeralsWritten
<1>2. PICK s : s = Numeral[n]
  OBVIOUS
<1>3. s \in Seq(Digit) /\ s # <<>> /\ NumeralValue[s] = n
      /\ (Len(s) > 1 => s[1] # Zero)
  BY <1>1, <1>2 DEF Written
<1>4. IsCanonical(s)
  BY <1>3, CanonicalIn
<1>5. \A i \in DOMAIN s : s[i] \in Digit
  BY <1>3, LenProperties
<1>6. ~Has(s, Plus) /\ ~Has(s, Bang)
  BY <1>5 DEF Has, Digit, Plus, Bang
<1>7. s \in Seq(Byte)
  <2>1. Digit \subseteq Byte
    BY DEF Digit, Byte
  <2>2. QED
    BY <1>3, <2>1, SeqMonotonic
<1>8. s[1] \in Digit
  <2>1. Len(s) \in Nat \ {0} /\ DOMAIN s = 1 .. Len(s)
    BY <1>3, EmptySeq, LenProperties
  <2>2. 1 \in DOMAIN s
    BY <2>1
  <2>3. QED
    BY <1>5, <2>2
<1>9. QED
  BY <1>2, <1>3, <1>4, <1>6, <1>7, <1>8

(* What parse_canonical_u64 takes is the text of its number, and no other  *)
(* text is.                                                                *)
LEMMA CanonicalNumbers ==
    /\ \A n \in Nat : n <= MaxU64 => parse_canonical_u64(Numeral[n]) = Ok(n)
    /\ \A n \in Nat : ~(n <= MaxU64) => ~IsOk(parse_canonical_u64(Numeral[n]))
    /\ \A s \in Text : IsOk(parse_canonical_u64(s)) =>
          LET n == parse_canonical_u64(s).value
          IN  n \in 0 .. MaxU64 /\ Numeral[n] = s
<1>1. ASSUME NEW n \in Nat, n <= MaxU64
      PROVE  parse_canonical_u64(Numeral[n]) = Ok(n)
  BY <1>1, NumeralFacts DEF parse_canonical_u64
<1>2. ASSUME NEW n \in Nat, ~(n <= MaxU64)
      PROVE  ~IsOk(parse_canonical_u64(Numeral[n]))
  BY <1>2, NumeralFacts DEF parse_canonical_u64, IsOk, Invalid, Err
<1>3. ASSUME NEW s \in Text, IsOk(parse_canonical_u64(s))
      PROVE  /\ parse_canonical_u64(s).value \in 0 .. MaxU64
             /\ Numeral[parse_canonical_u64(s).value] = s
  <2>1. IsCanonical(s) /\ NumeralValue[s] <= MaxU64
    BY <1>3 DEF parse_canonical_u64, IsOk, Invalid, Err
  <2>2. parse_canonical_u64(s).value = NumeralValue[s]
    BY <2>1 DEF parse_canonical_u64, Ok
  <2>3. s \in Seq(Digit)
    <3>1. s \in Seq(Byte) /\ Len(s) \in Nat /\ DOMAIN s = 1 .. Len(s)
      BY LenProperties DEF Text
    <3>2. \A i \in 1 .. Len(s) : s[i] \in Digit
      BY <2>1, <3>1 DEF IsCanonical, ToSet
    <3>3. s \in [1 .. Len(s) -> Digit]
      BY <3>1, <3>2, LenProperties
    <3>4. QED
      BY <3>1, <3>3, SeqDef
  <2>4. Read(s)
    BY <2>3, NumeralsRead
  <2>5. QED
    BY <2>1, <2>2, <2>4, MaxU64Assumption DEF Read
<1>4. QED
  BY <1>1, <1>2, <1>3

(* The text of a slice behind its scheme.                                  *)
Header(offset, length, inner) ==
    (Numeral[offset] \o (<<Plus>> \o Numeral[length])) \o (<<Bang>> \o inner)

(* The header is taken apart at its separators, whatever is inside the     *)
(* slice.                                                                  *)
LEMMA HeaderFacts ==
    ASSUME NEW offset \in Nat, NEW length \in Nat, NEW inner \in Text
    PROVE  LET rest == Header(offset, length, inner)
           IN  /\ rest \in Text /\ ~IsPrefix(TwoSlashes, rest)
               /\ SliceUri_format(SliceUri(offset, length, inner))
                    = (SLICE \o <<Colon>>) \o rest
               /\ Find(rest, Bang) # 0
               /\ After(rest, Find(rest, Bang)) = inner
               /\ LET range == Before(rest, Find(rest, Bang))
                  IN  /\ Find(range, Plus) # 0
                      /\ Before(range, Find(range, Plus)) = Numeral[offset]
                      /\ After(range, Find(range, Plus)) = Numeral[length]
<1>1. PICK a : a = Numeral[offset]
  OBVIOUS
<1>2. PICK b : b = Numeral[length]
  OBVIOUS
<1>3. /\ a \in Seq(Byte) /\ a # <<>> /\ a[1] \in Digit
      /\ ~Has(a, Plus) /\ ~Has(a, Bang)
  BY <1>1, NumeralFacts
<1>4. b \in Seq(Byte) /\ ~Has(b, Bang)
  BY <1>2, NumeralFacts
<1>5. /\ inner \in Seq(Byte) /\ Plus \in Byte /\ Bang \in Byte /\ Colon \in Byte
      /\ <<Plus>> \in Seq(Byte) /\ <<Bang>> \in Seq(Byte) /\ <<Colon>> \in Seq(Byte)
  BY DEF Text, Byte, Plus, Bang, Colon
<1>6. PICK range : range = a \o (<<Plus>> \o b)
  OBVIOUS
<1>7. PICK rest : rest = range \o (<<Bang>> \o inner)
  OBVIOUS
<1>8. /\ range \in Seq(Byte) /\ Find(range, Plus) = Len(a) + 1
      /\ Before(range, Find(range, Plus)) = a /\ After(range, Find(range, Plus)) = b
  BY <1>3, <1>4, <1>5, <1>6, FindBehind
<1>9. ~Has(range, Bang)
  <2>1. ~Has(<<Plus>>, Bang)
    BY DEF Has, Plus, Bang
  <2>2. ~Has(<<Plus>> \o b, Bang) /\ <<Plus>> \o b \in Seq(Byte)
    BY <1>4, <1>5, <2>1, HasConcat, ConcatProperties
  <2>3. QED
    BY <1>3, <1>6, <2>2, HasConcat
<1>10. /\ rest \in Seq(Byte) /\ Find(rest, Bang) = Len(range) + 1
       /\ Before(rest, Find(rest, Bang)) = range
       /\ After(rest, Find(rest, Bang)) = inner
  BY <1>5, <1>7, <1>8, <1>9, FindBehind
<1>11. Find(range, Plus) # 0 /\ Find(rest, Bang) # 0
  <2>1. Len(a) \in Nat /\ Len(range) \in Nat
    BY <1>3, <1>8
  <2>2. QED
    BY <1>8, <1>10, <2>1
<1>12. ~IsPrefix(TwoSlashes, rest)
  <2>1. PICK c : c = <<Plus>> \o b
    OBVIOUS
  <2>2. PICK d : d = <<Bang>> \o inner
    OBVIOUS
  <2>3. c \in Seq(Byte) /\ d \in Seq(Byte)
    BY <1>4, <1>5, <2>1, <2>2, ConcatProperties
  <2>4. Len(a) \in Nat \ {0} /\ Len(c) \in Nat /\ Len(d) \in Nat
    BY <1>3, <2>3, EmptySeq
  <2>5. range[1] = a[1] /\ Len(range) = Len(a) + Len(c)
    <3>1. 1 \in 1 .. Len(a) + Len(c) /\ 1 <= Len(a)
      BY <2>4
    <3>2. QED
      BY <1>3, <1>6, <2>1, <2>3, <3>1, ConcatProperties
  <2>6. rest[1] = range[1]
    <3>1. 1 \in 1 .. Len(range) + Len(d) /\ 1 <= Len(range)
      BY <2>4, <2>5
    <3>2. QED
      BY <1>7, <1>8, <2>2, <2>3, <3>1, ConcatProperties
  <2>7. rest[1] # Slash
    BY <1>3, <2>5, <2>6 DEF Digit, Slash
  <2>8. QED
    BY <1>10, <2>7, SlashesFacts DEF Text
<1>13. SliceUri_format(SliceUri(offset, length, inner)) = (SLICE \o <<Colon>>) \o rest
  <2>1. PICK h : h = SLICE \o <<Colon>>
    OBVIOUS
  <2>2. h \in Seq(Byte)
    <3>1. SLICE \in Seq(Byte)
      BY NamesOfSchemes, NameFacts DEF Text
    <3>2. QED
      BY <1>5, <2>1, <3>1, ConcatProperties
  <2>3. SliceUri_format(SliceUri(offset, length, inner))
          = ((((h \o a) \o <<Plus>>) \o b) \o <<Bang>>) \o inner
    BY <1>1, <1>2, <2>1 DEF SliceUri_format, SliceUri
  <2>4. (h \o a) \o <<Plus>> \in Seq(Byte) /\ h \o a \in Seq(Byte)
        /\ <<Plus>> \o b \in Seq(Byte)
    BY <1>3, <1>4, <1>5, <2>2, ConcatProperties
  <2>5. ((h \o a) \o <<Plus>>) \o b = h \o range
    <3>1. ((h \o a) \o <<Plus>>) \o b = (h \o a) \o (<<Plus>> \o b)
      BY <1>4, <1>5, <2>4, ConcatAssociative
    <3>2. (h \o a) \o (<<Plus>> \o b) = h \o (a \o (<<Plus>> \o b))
      BY <1>3, <2>2, <2>4, ConcatAssociative
    <3>3. QED
      BY <1>6, <3>1, <3>2
  <2>6. ((h \o range) \o <<Bang>>) \o inner = h \o rest
    <3>1. \A q, s, t \in Seq(Byte) : (q \o s) \o t = q \o (s \o t)
      BY ConcatAssociative
    <3>2. PICK q : q = h \o range
      OBVIOUS
    <3>3. PICK t : t = <<Bang>> \o inner
      OBVIOUS
    <3>4. q \in Seq(Byte) /\ t \in Seq(Byte)
      BY <1>5, <1>8, <2>2, <3>2, <3>3, ConcatProperties
    <3>5. (q \o <<Bang>>) \o inner = q \o t
      BY <1>5, <3>1, <3>3, <3>4
    <3>6. q \o t = h \o (range \o t)
      BY <1>8, <2>2, <3>1, <3>2, <3>4
    <3>7. QED
      BY <1>7, <3>2, <3>3, <3>5, <3>6
  <2>7. QED
    BY <2>1, <2>3, <2>5, <2>6
<1>14. rest = Header(offset, length, inner)
  BY <1>1, <1>2, <1>6, <1>7 DEF Header
<1>15. rest \in Text
  BY <1>10 DEF Text
<1>16. QED
  BY <1>1, <1>2, <1>8, <1>10, <1>11, <1>12, <1>13, <1>14, <1>15

(* A slice that is formatted is read as itself, and not at all when a      *)
(* number is too large or nothing is inside.                               *)
THEOREM SliceIsReadBack ==
    \A offset, length \in Nat : \A inner \in Text :
        parse_slice_uri(SliceUri_format(SliceUri(offset, length, inner)))
          = IF offset <= MaxU64 /\ length <= MaxU64 /\ inner # <<>>
              THEN Ok(SliceUri(offset, length, inner)) ELSE Invalid
<1> SUFFICES ASSUME NEW offset \in Nat, NEW length \in Nat, NEW inner \in Text
             PROVE  parse_slice_uri(SliceUri_format(SliceUri(offset, length, inner)))
                      = IF offset <= MaxU64 /\ length <= MaxU64 /\ inner # <<>>
                          THEN Ok(SliceUri(offset, length, inner)) ELSE Invalid
  OBVIOUS
<1>1. PICK rest : rest = Header(offset, length, inner)
  OBVIOUS
<1>2. PICK range : range = Before(rest, Find(rest, Bang))
  OBVIOUS
<1>3. PICK uri : uri = (SLICE \o <<Colon>>) \o rest
  OBVIOUS
<1>4. /\ rest \in Text /\ ~IsPrefix(TwoSlashes, rest)
      /\ SliceUri_format(SliceUri(offset, length, inner)) = uri
      /\ Find(rest, Bang) # 0 /\ After(rest, Find(rest, Bang)) = inner
      /\ Find(range, Plus) # 0
      /\ Before(range, Find(range, Plus)) = Numeral[offset]
      /\ After(range, Find(range, Plus)) = Numeral[length]
  BY <1>1, <1>2, <1>3, HeaderFacts
<1>5. split(uri).rest = rest /\ scheme_is(split(uri).scheme, SLICE)
  <2>1. IsName(SLICE)
    BY NamesOfSchemes
  <2>2. /\ split(uri) = [scheme |-> SLICE, rest |-> StripSlashes(rest)]
        /\ scheme_is(split(uri).scheme, SLICE)
    BY <1>3, <1>4, <2>1, SplitBehind
  <2>3. StripSlashes(rest) = rest
    BY <1>4, SlashesFacts
  <2>4. QED
    BY <2>2, <2>3
<1>6. parse_slice_uri(uri) = parse_header(rest)
  BY <1>5 DEF parse_slice_uri
<1>7. PICK o : o = parse_canonical_u64(Numeral[offset])
  OBVIOUS
<1>8. PICK l : l = parse_canonical_u64(Numeral[length])
  OBVIOUS
<1>9. parse_header(rest) =
        IF ~IsOk(o) \/ ~IsOk(l) \/ inner = <<>>
          THEN Invalid ELSE Ok(SliceUri(o.value, l.value, inner))
  BY <1>2, <1>4, <1>7, <1>8 DEF parse_header
<1>10. IF offset <= MaxU64 THEN IsOk(o) /\ o.value = offset ELSE ~IsOk(o)
  <2>1. ASSUME offset <= MaxU64 PROVE o = Ok(offset)
    BY <1>7, <2>1, CanonicalNumbers
  <2>2. ASSUME ~(offset <= MaxU64) PROVE ~IsOk(o)
    BY <1>7, <2>2, CanonicalNumbers
  <2>3. IsOk(Ok(offset)) /\ Ok(offset).value = offset
    BY DEF IsOk, Ok
  <2>4. QED
    BY <2>1, <2>2, <2>3
<1>11. IF length <= MaxU64 THEN IsOk(l) /\ l.value = length ELSE ~IsOk(l)
  <2>1. ASSUME length <= MaxU64 PROVE l = Ok(length)
    BY <1>8, <2>1, CanonicalNumbers
  <2>2. ASSUME ~(length <= MaxU64) PROVE ~IsOk(l)
    BY <1>8, <2>2, CanonicalNumbers
  <2>3. IsOk(Ok(length)) /\ Ok(length).value = length
    BY DEF IsOk, Ok
  <2>4. QED
    BY <2>1, <2>2, <2>3
<1>12. QED
  BY <1>4, <1>6, <1>9, <1>10, <1>11

(* A text parts at the first c, if there is one.                           *)
LEMMA PartsAt ==
    ASSUME NEW s \in Text, NEW c, Find(s, c) # 0
    PROVE  /\ Before(s, Find(s, c)) \in Text /\ After(s, Find(s, c)) \in Text
           /\ s = Before(s, Find(s, c)) \o (<<c>> \o After(s, Find(s, c)))
           /\ ~Has(Before(s, Find(s, c)), c)
           /\ Len(After(s, Find(s, c))) < Len(s)
           /\ Len(Before(s, Find(s, c))) < Len(s)
<1>1. PICK k : k = Find(s, c)
  OBVIOUS
<1>2. s \in Seq(Byte) /\ Len(s) \in Nat
  BY DEF Text
<1>3. k \in 1 .. Len(s) /\ s[k] = c /\ \A j \in 1 .. k - 1 : s[j] # c
  BY <1>1, <1>2, FindFacts
<1>4. k \in 0 .. Len(s) /\ k \in 1 .. Len(s) + 1 /\ k \in Nat
  BY <1>2, <1>3
<1>5. After(s, k) \in Seq(Byte) /\ Len(After(s, k)) = Len(s) - k
  BY <1>2, <1>4, AfterFacts
<1>6. PICK b : b = Before(s, k)
  OBVIOUS
<1>7. b \in Seq(Byte) /\ Len(b) = k - 1 /\ \A i \in 1 .. k - 1 : b[i] = s[i]
  BY <1>2, <1>4, <1>6, BeforeFacts
<1>8. ~Has(b, c)
  <2>1. DOMAIN b = 1 .. k - 1
    BY <1>7, LenProperties
  <2>2. QED
    BY <1>3, <1>7, <2>1 DEF Has
<1>9. s = b \o (<<c>> \o After(s, k))
  BY <1>2, <1>3, <1>6, Parted
<1>10. Len(After(s, k)) < Len(s) /\ Len(b) < Len(s)
  BY <1>2, <1>3, <1>5, <1>7
<1>11. QED
  BY <1>1, <1>5, <1>6, <1>7, <1>8, <1>9, <1>10 DEF Text

(* What is parsed was written behind the scheme, and is shorter.           *)
LEMMA SliceParsed ==
    ASSUME NEW uri \in Text, IsOk(parse_slice_uri(uri))
    PROVE  \E offset, length \in 0 .. MaxU64 : \E inner \in Text \ {<<>>} :
              /\ parse_slice_uri(uri) = Ok(SliceUri(offset, length, inner))
              /\ split(uri).rest = Header(offset, length, inner)
              /\ Len(inner) < Len(uri)
<1>1. PICK rest : rest = split(uri).rest
  OBVIOUS
<1>2. rest \in Text /\ Len(rest) <= Len(uri) /\ Len(uri) \in Nat /\ Len(rest) \in Nat
  <2>1. rest \in Text /\ Len(rest) <= Len(uri)
    BY <1>1, SplitFacts
  <2>2. QED
    BY <2>1 DEF Text
<1>3. ~IsOk(Invalid)
  BY DEF IsOk, Invalid, Err
<1>4. parse_slice_uri(uri) = parse_header(rest)
  BY <1>1, <1>3 DEF parse_slice_uri
<1>5. PICK range : range = Before(rest, Find(rest, Bang))
  OBVIOUS
<1>6. PICK inner : inner = After(rest, Find(rest, Bang))
  OBVIOUS
<1>7. PICK a : a = Before(range, Find(range, Plus))
  OBVIOUS
<1>8. PICK b : b = After(range, Find(range, Plus))
  OBVIOUS
<1>9. PICK offset : offset = parse_canonical_u64(a)
  OBVIOUS
<1>10. PICK length : length = parse_canonical_u64(b)
  OBVIOUS
<1>11. parse_header(rest) =
         IF \/ Find(rest, Bang) = 0 \/ Find(range, Plus) = 0
            \/ ~IsOk(offset) \/ ~IsOk(length) \/ inner = <<>>
           THEN Invalid ELSE Ok(SliceUri(offset.value, length.value, inner))
  BY <1>5, <1>6, <1>7, <1>8, <1>9, <1>10 DEF parse_header
<1>12. /\ Find(rest, Bang) # 0 /\ Find(range, Plus) # 0
       /\ IsOk(offset) /\ IsOk(length) /\ inner # <<>>
       /\ parse_slice_uri(uri) = Ok(SliceUri(offset.value, length.value, inner))
  BY <1>3, <1>4, <1>11
<1>13. /\ range \in Text /\ inner \in Text /\ Len(inner) < Len(rest)
       /\ rest = range \o (<<Bang>> \o inner)
  BY <1>2, <1>5, <1>6, <1>12, PartsAt
<1>14. a \in Text /\ b \in Text /\ range = a \o (<<Plus>> \o b)
  BY <1>7, <1>8, <1>12, <1>13, PartsAt
<1>15. /\ offset.value \in 0 .. MaxU64 /\ Numeral[offset.value] = a
       /\ length.value \in 0 .. MaxU64 /\ Numeral[length.value] = b
  BY <1>9, <1>10, <1>12, <1>14, CanonicalNumbers
<1>16. rest = Header(offset.value, length.value, inner)
  BY <1>13, <1>14, <1>15 DEF Header
<1>17. Len(inner) < Len(uri)
  <2>1. Len(inner) \in Nat
    BY <1>13 DEF Text
  <2>2. QED
    BY <1>2, <1>13, <2>1
<1>18. QED
  BY <1>1, <1>12, <1>13, <1>15, <1>16, <1>17

(* A prefix, and what is behind it.                                        *)
LEMMA BehindPrefix ==
    ASSUME NEW p \in Text, NEW s \in Text, IsPrefix(p, s)
    PROVE  s = p \o After(s, Len(p)) /\ After(s, Len(p)) \in Text
<1>1. /\ p \in Seq(Byte) /\ s \in Seq(Byte) /\ Len(p) \in Nat /\ Len(s) \in Nat
      /\ Len(p) <= Len(s) /\ SubSeq(p, 1, Len(p)) = SubSeq(s, 1, Len(p))
  BY DEF Text, IsPrefix
<1>2. SubSeq(p, 1, Len(p)) = p
  BY <1>1, SubSeqFull
<1>3. SubSeq(s, 1, Len(s)) = s
  BY <1>1, SubSeqFull
<1>4. SubSeq(s, 1, Len(p)) \o SubSeq(s, Len(p) + 1, Len(s)) = SubSeq(s, 1, Len(s))
  <2>1. 1 \in 1 .. Len(s) + 1 /\ Len(p) \in 1 - 1 .. Len(s) /\ Len(s) \in Len(p) .. Len(s)
    BY <1>1
  <2>2. QED
    BY <1>1, <2>1, ConcatAdjacentSubSeq
<1>5. Len(p) \in 0 .. Len(s)
  BY <1>1
<1>6. After(s, Len(p)) \in Seq(Byte)
  BY <1>1, <1>5, AfterFacts
<1>7. QED
  BY <1>1, <1>2, <1>3, <1>4, <1>6 DEF After, Text

(* A text is a prefix of whatever follows it.                              *)
LEMMA IsPrefixOf ==
    ASSUME NEW p \in Text, NEW r \in Text
    PROVE  IsPrefix(p, p \o r)
<1>1. p \in Seq(Byte) /\ r \in Seq(Byte) /\ Len(p) \in Nat /\ Len(r) \in Nat
  BY DEF Text
<1>2. PICK s : s = p \o r
  OBVIOUS
<1>3. Len(s) = Len(p) + Len(r)
  BY <1>1, <1>2, ConcatProperties
<1>4. Before(s, Len(p) + 1) = p
  BY <1>1, <1>2, ConcatApart
<1>5. SubSeq(p, 1, Len(p)) = p
  BY <1>1, SubSeqFull
<1>6. SubSeq(s, 1, Len(p)) = p
  <2>1. Len(p) + 1 - 1 = Len(p)
    BY <1>1
  <2>2. QED
    BY <1>4, <2>1 DEF Before
<1>7. Len(p) <= Len(s)
  BY <1>1, <1>3
<1>8. QED
  BY <1>2, <1>5, <1>6, <1>7 DEF IsPrefix

(* A text in the spelling the formatters use.                              *)
CanonicalText(scheme, uri) ==
    /\ IsPrefix(scheme \o <<Colon>>, uri)
    /\ ~IsPrefix((scheme \o <<Colon>>) \o TwoSlashes, uri)

(* A text in that spelling is its scheme, a colon and the rest of the      *)
(* split.                                                                  *)
LEMMA CanonicalTexts ==
    ASSUME NEW w, IsName(w), NEW uri \in Text, CanonicalText(w, uri)
    PROVE  uri = (w \o <<Colon>>) \o split(uri).rest
<1>1. PICK h : h = w \o <<Colon>>
  OBVIOUS
<1>2. h \in Text
  <2>1. w \in Seq(Byte)
    BY NameFacts DEF Text
  <2>2. <<Colon>> \in Seq(Byte)
    BY DEF Colon, Byte
  <2>3. QED
    BY <1>1, <2>1, <2>2, ConcatProperties DEF Text
<1>3. PICK r : r = After(uri, Len(h))
  OBVIOUS
<1>4. uri = h \o r /\ r \in Text
  BY <1>1, <1>2, <1>3, BehindPrefix DEF CanonicalText
<1>5. ~IsPrefix(TwoSlashes, r)
  <2>1. SUFFICES ASSUME IsPrefix(TwoSlashes, r) PROVE FALSE
    OBVIOUS
  <2>2. TwoSlashes \in Text
    BY DEF TwoSlashes, Slash, Text, Byte
  <2>3. PICK t \in Text : r = TwoSlashes \o t
    BY <1>4, <2>1, <2>2, BehindPrefix
  <2>4. uri = (h \o TwoSlashes) \o t
    <3>1. h \in Seq(Byte) /\ TwoSlashes \in Seq(Byte) /\ t \in Seq(Byte)
      BY <1>2, <2>2 DEF Text
    <3>2. (h \o TwoSlashes) \o t = h \o (TwoSlashes \o t)
      BY <3>1, ConcatAssociative
    <3>3. QED
      BY <1>4, <2>3, <3>2
  <2>5. h \o TwoSlashes \in Text
    BY <1>2, <2>2, ConcatProperties DEF Text
  <2>6. IsPrefix(h \o TwoSlashes, uri)
    BY <2>4, <2>5, IsPrefixOf
  <2>7. QED
    BY <1>1, <2>6 DEF CanonicalText
<1>6. split(uri).rest = r
  <2>1. split(uri) = [scheme |-> w, rest |-> StripSlashes(r)]
    BY <1>1, <1>4, SplitBehind
  <2>2. StripSlashes(r) = r
    BY <1>4, <1>5, SlashesFacts
  <2>3. QED
    BY <2>1, <2>2
<1>7. QED
  BY <1>1, <1>4, <1>6

(* What is parsed from a text, formatted and parsed again is the same; and *)
(* a text in the formatter's spelling is the only one for its value        *)
(* (slice.rs:80-86).                                                       *)
SliceInverts(uri) ==
    LET slice == parse_slice_uri(uri)
        again == SliceUri_format(slice.value)
    IN  IsOk(slice) => /\ parse_slice_uri(again) = slice
                       /\ CanonicalText(SLICE, uri) => again = uri

(* A slice that was parsed, formatted and parsed again is the same, and a  *)
(* text in the formatter's spelling comes back unchanged, for every text.  *)
THEOREM SliceRoundTrip == \A uri \in Text : SliceInverts(uri)
<1> SUFFICES ASSUME NEW uri \in Text, IsOk(parse_slice_uri(uri))
             PROVE  SliceInverts(uri)
  BY DEF SliceInverts
<1>1. PICK offset \in 0 .. MaxU64, length \in 0 .. MaxU64, inner \in Text \ {<<>>} :
        /\ parse_slice_uri(uri) = Ok(SliceUri(offset, length, inner))
        /\ split(uri).rest = Header(offset, length, inner)
  BY SliceParsed
<1>2. PICK x : x = SliceUri(offset, length, inner)
  OBVIOUS
<1>3. parse_slice_uri(uri).value = x
  BY <1>1, <1>2 DEF Ok
<1>4. offset \in Nat /\ length \in Nat /\ offset <= MaxU64 /\ length <= MaxU64
  BY MaxU64Assumption
<1>5. parse_slice_uri(SliceUri_format(x)) = parse_slice_uri(uri)
  BY <1>1, <1>2, <1>4, SliceIsReadBack
<1>6. ASSUME CanonicalText(SLICE, uri) PROVE SliceUri_format(x) = uri
  <2>1. uri = (SLICE \o <<Colon>>) \o split(uri).rest
    BY <1>6, CanonicalTexts, NamesOfSchemes
  <2>2. SliceUri_format(x) = (SLICE \o <<Colon>>) \o Header(offset, length, inner)
    BY <1>2, <1>4, HeaderFacts
  <2>3. QED
    BY <1>1, <2>1, <2>2
<1>7. QED
  BY <1>3, <1>5, <1>6 DEF SliceInverts

-----------------------------------------------------------------------------
(* concat.rs                                                               *)

(* One more element in front, and off again.                               *)
LEMMA ConsFacts ==
    ASSUME NEW S, NEW c \in S, NEW s \in Seq(S)
    PROVE  LET t == <<c>> \o s
           IN  /\ t \in Seq(S) /\ t # <<>> /\ Len(t) = Len(s) + 1
               /\ Head(t) = c /\ Tail(t) = s /\ t[1] = c
               /\ \A i \in 1 .. Len(s) : t[i + 1] = s[i]
<1>1. PICK t : t = <<c>> \o s
  OBVIOUS
<1>2. <<c>> \in Seq(S) /\ Len(<<c>>) = 1 /\ <<c>>[1] = c /\ Len(s) \in Nat
  BY OneFacts
<1>3. /\ t \in Seq(S) /\ Len(t) = 1 + Len(s)
      /\ \A i \in 1 .. 1 + Len(s) : t[i] = IF i <= 1 THEN <<c>>[i] ELSE s[i - 1]
  BY <1>1, <1>2, ConcatProperties
<1>4. t # <<>> /\ t[1] = c
  BY <1>2, <1>3
<1>5. ASSUME NEW i \in 1 .. Len(s) PROVE t[i + 1] = s[i]
  <2>1. PICK j : j = i + 1
    OBVIOUS
  <2>2. j \in 1 .. 1 + Len(s) /\ ~(j <= 1) /\ j - 1 = i
    BY <1>2, <2>1
  <2>3. QED
    BY <1>3, <2>1, <2>2
<1>6. /\ Tail(t) \in Seq(S) /\ Len(Tail(t)) = Len(t) - 1
      /\ \A i \in 1 .. Len(Tail(t)) : Tail(t)[i] = t[i + 1]
  BY <1>3, <1>4, HeadTailProperties
<1>7. Len(Tail(t)) = Len(s)
  BY <1>2, <1>3, <1>6
<1>8. \A i \in 1 .. Len(Tail(t)) : Tail(t)[i] = s[i]
  BY <1>5, <1>6, <1>7
<1>9. Tail(t) = s
  BY <1>6, <1>7, <1>8, SeqEqual
<1>10. Head(t) = c
  BY <1>3, <1>4
<1>11. QED
  BY <1>1, <1>2, <1>3, <1>4, <1>5, <1>9, <1>10

(* A sequence is its head and its tail.                                    *)
LEMMA UnConsFacts ==
    ASSUME NEW S, NEW s \in Seq(S), s # <<>>
    PROVE  /\ Head(s) \in S /\ Head(s) = s[1] /\ Tail(s) \in Seq(S)
           /\ s = <<Head(s)>> \o Tail(s)
           /\ Len(s) \in Nat \ {0} /\ Len(Tail(s)) = Len(s) - 1
           /\ \A i \in 1 .. Len(Tail(s)) : Tail(s)[i] = s[i + 1]
<1>1. /\ Head(s) \in S /\ Tail(s) \in Seq(S) /\ Len(Tail(s)) = Len(s) - 1
      /\ \A i \in 1 .. Len(Tail(s)) : Tail(s)[i] = s[i + 1]
  BY HeadTailProperties
<1>2. Len(s) \in Nat \ {0} /\ Head(s) = s[1]
  BY EmptySeq
<1>3. PICK t : t = <<Head(s)>> \o Tail(s)
  OBVIOUS
<1>4. /\ t \in Seq(S) /\ Len(t) = Len(Tail(s)) + 1 /\ t[1] = Head(s)
      /\ \A i \in 1 .. Len(Tail(s)) : t[i + 1] = Tail(s)[i]
  BY <1>1, <1>3, ConsFacts
<1>5. ASSUME NEW i \in 1 .. Len(s) PROVE s[i] = t[i]
  <2>1. CASE i = 1
    BY <1>2, <1>4, <2>1
  <2>2. CASE i # 1
    <3>1. PICK j : j = i - 1
      OBVIOUS
    <3>2. j \in 1 .. Len(Tail(s)) /\ i = j + 1
      BY <1>1, <1>2, <2>2, <3>1
    <3>3. QED
      BY <1>1, <1>4, <3>2
  <2>3. QED
    BY <2>1, <2>2
<1>6. Len(t) = Len(s)
  BY <1>1, <1>2, <1>4
<1>7. s = t
  BY <1>4, <1>5, <1>6, SeqEqual
<1>8. QED
  BY <1>1, <1>2, <1>3, <1>7

CutOf(s, f) ==
    LET bar == Find(s, Bar)
    IN  IF bar = 0 THEN <<s>> ELSE <<Before(s, bar)>> \o f[After(s, bar)]

(* Cut is what its definition says.                                        *)
LEMMA CutEquation == \A s \in Text : Cut[s] = CutOf(s, Cut)
<1>1. ASSUME NEW s \in Text, NEW f \in [Text -> Seq(Text)]
      PROVE  CutOf(s, f) \in Seq(Text)
  <2>1. CASE Find(s, Bar) = 0
    <3>1. <<s>> \in Seq(Text)
      BY OneFacts
    <3>2. QED
      BY <2>1, <3>1 DEF CutOf
  <2>2. CASE Find(s, Bar) # 0
    <3>1. /\ Before(s, Find(s, Bar)) \in Text /\ After(s, Find(s, Bar)) \in Text
      BY <2>2, PartsAt
    <3>2. f[After(s, Find(s, Bar))] \in Seq(Text)
      BY <3>1
    <3>3. <<Before(s, Find(s, Bar))>> \o f[After(s, Find(s, Bar))] \in Seq(Text)
      BY <3>1, <3>2, ConsFacts
    <3>4. QED
      BY <2>2, <3>3 DEF CutOf
  <2>3. QED
    BY <2>1, <2>2
<1>2. ASSUME NEW s \in Text, NEW f \in [Text -> Seq(Text)], NEW g \in [Text -> Seq(Text)],
             \A u \in Text : Len(u) < Len(s) => f[u] = g[u]
      PROVE  CutOf(s, f) = CutOf(s, g)
  BY <1>2, PartsAt DEF CutOf
<1>3. PICK S : S = Byte
  OBVIOUS
<1>4. PICK V : V = Seq(Text)
  OBVIOUS
<1>5. PICK H : H = [s \in Seq(S) |-> [f \in [Seq(S) -> V] |-> CutOf(s, f)]]
  OBVIOUS
<1>6. ASSUME NEW s \in Seq(S), NEW f \in [Seq(S) -> V] PROVE H[s][f] = CutOf(s, f)
  BY <1>5
<1>7. Seq(S) = Text
  BY <1>3 DEF Text
<1>8. Shrinks(H, S, V)
  <2>1. V # {}
    <3>1. <<>> \in V
      BY <1>4
    <3>2. QED
      BY <3>1
  <2>2. ASSUME NEW s \in Seq(S), NEW f \in [Seq(S) -> V], NEW g \in [Seq(S) -> V]
        PROVE  /\ H[s][f] \in V
               /\ (\A u \in Seq(S) : Len(u) < Len(s) => f[u] = g[u])
                     => H[s][f] = H[s][g]
    <3>1. H[s][f] \in V
      BY <1>1, <1>4, <1>6, <1>7
    <3>2. ASSUME \A u \in Seq(S) : Len(u) < Len(s) => f[u] = g[u]
          PROVE H[s][f] = H[s][g]
      <4>1. /\ s \in Text /\ f \in [Text -> Seq(Text)] /\ g \in [Text -> Seq(Text)]
            /\ \A u \in Text : Len(u) < Len(s) => f[u] = g[u]
        BY <1>4, <1>7, <3>2
      <4>2. CutOf(s, f) = CutOf(s, g)
        BY <1>2, <4>1
      <4>3. QED
        BY <1>6, <4>2
    <3>3. QED
      BY <3>1, <3>2
  <2>3. QED
    BY <2>1, <2>2 DEF Shrinks
<1>9. PICK f : Solves(f, H, Seq(S), V)
  BY <1>8, SeqRecursion
<1>10. f = [s \in Text |-> CutOf(s, f)]
  BY <1>6, <1>7, <1>9 DEF Solves
<1>11. Cut = [s \in Text |-> CutOf(s, Cut)]
  BY <1>10 DEF Cut, CutOf
<1>12. QED
  BY <1>11

JoinedOf(parts, f) ==
    IF parts = <<>>            THEN <<>>
    ELSE IF Tail(parts) = <<>> THEN Head(parts)
    ELSE Head(parts) \o <<Bar>> \o f[Tail(parts)]

(* The separator is a byte.                                                *)
LEMMA BarFacts == Bar \in Byte /\ <<Bar>> \in Seq(Byte)
BY DEF Bar, Byte

(* Joined is what its definition says.                                     *)
LEMMA JoinedEquation == \A parts \in Seq(Text) : Joined[parts] = JoinedOf(parts, Joined)
<1>1. ASSUME NEW s \in Seq(Text), NEW f \in [Seq(Text) -> Text]
      PROVE  JoinedOf(s, f) \in Text
  <2>1. CASE s = <<>>
    <3>1. <<>> \in Text
      BY DEF Text
    <3>2. QED
      BY <2>1, <3>1 DEF JoinedOf
  <2>2. CASE s # <<>>
    <3>1. Head(s) \in Text /\ Tail(s) \in Seq(Text)
      BY <2>2, UnConsFacts
    <3>2. f[Tail(s)] \in Text
      BY <3>1
    <3>3. Head(s) \o <<Bar>> \in Seq(Byte)
      BY <3>1, BarFacts, ConcatProperties DEF Text
    <3>4. Head(s) \o <<Bar>> \o f[Tail(s)] \in Seq(Byte)
      BY <3>2, <3>3, ConcatProperties DEF Text
    <3>5. QED
      BY <2>2, <3>1, <3>4 DEF JoinedOf, Text
  <2>3. QED
    BY <2>1, <2>2
<1>2. ASSUME NEW s \in Seq(Text),
             NEW f \in [Seq(Text) -> Text], NEW g \in [Seq(Text) -> Text],
             \A u \in Seq(Text) : Len(u) < Len(s) => f[u] = g[u]
      PROVE  JoinedOf(s, f) = JoinedOf(s, g)
  <2>1. CASE s = <<>>
    BY <2>1 DEF JoinedOf
  <2>2. CASE s # <<>>
    <3>1. Tail(s) \in Seq(Text) /\ Len(Tail(s)) = Len(s) - 1 /\ Len(s) \in Nat
      BY <2>2, UnConsFacts
    <3>2. Len(Tail(s)) < Len(s)
      BY <3>1
    <3>3. f[Tail(s)] = g[Tail(s)]
      BY <1>2, <3>1, <3>2
    <3>4. QED
      BY <3>3 DEF JoinedOf
  <2>3. QED
    BY <2>1, <2>2
<1>3. PICK S : S = Text
  OBVIOUS
<1>4. PICK V : V = Text
  OBVIOUS
<1>5. PICK H : H = [s \in Seq(S) |-> [f \in [Seq(S) -> V] |-> JoinedOf(s, f)]]
  OBVIOUS
<1>6. ASSUME NEW s \in Seq(S), NEW f \in [Seq(S) -> V] PROVE H[s][f] = JoinedOf(s, f)
  BY <1>5
<1>7. Shrinks(H, S, V)
  <2>1. V # {}
    <3>1. <<>> \in V
      BY <1>4 DEF Text
    <3>2. QED
      BY <3>1
  <2>2. ASSUME NEW s \in Seq(S), NEW f \in [Seq(S) -> V], NEW g \in [Seq(S) -> V]
        PROVE  /\ H[s][f] \in V
               /\ (\A u \in Seq(S) : Len(u) < Len(s) => f[u] = g[u])
                     => H[s][f] = H[s][g]
    <3>1. H[s][f] \in V
      BY <1>1, <1>3, <1>4, <1>6
    <3>2. ASSUME \A u \in Seq(S) : Len(u) < Len(s) => f[u] = g[u]
          PROVE H[s][f] = H[s][g]
      <4>1. JoinedOf(s, f) = JoinedOf(s, g)
        BY <1>2, <1>3, <1>4, <3>2
      <4>2. QED
        BY <1>6, <4>1
    <3>3. QED
      BY <3>1, <3>2
  <2>3. QED
    BY <2>1, <2>2 DEF Shrinks
<1>8. PICK f : Solves(f, H, Seq(S), V)
  BY <1>7, SeqRecursion
<1>9. f = [s \in Seq(Text) |-> JoinedOf(s, f)]
  BY <1>3, <1>6, <1>8 DEF Solves
<1>10. Joined = [s \in Seq(Text) |-> JoinedOf(s, Joined)]
  BY <1>9 DEF Joined, JoinedOf
<1>11. QED
  BY <1>10

(* What is cut is put together again.                                      *)
Barless(parts) == \A i \in 1 .. Len(parts) : ~Has(parts[i], Bar)

CutWell(s) ==
    /\ Cut[s] \in Seq(Text) /\ Cut[s] # <<>> /\ Barless(Cut[s])
    /\ \A i \in 1 .. Len(Cut[s]) : Len(Cut[s][i]) <= Len(s)
    /\ Joined[Cut[s]] = s

(* One more part in front is its text, a separator and the rest.           *)
LEMMA JoinedCons ==
    ASSUME NEW c \in Text, NEW parts \in Seq(Text)
    PROVE  /\ Joined[<<c>> \o parts] =
                 IF parts = <<>> THEN c ELSE c \o (<<Bar>> \o Joined[parts])
           /\ Joined[parts] \in Text
<1>1. ASSUME NEW s \in Seq(Text), s # <<>>
      PROVE  Joined[s] = IF Tail(s) = <<>> THEN Head(s)
                                           ELSE Head(s) \o <<Bar>> \o Joined[Tail(s)]
  BY <1>1, JoinedEquation DEF JoinedOf
<1> DEFINE P == {s \in Seq(Text) : Joined[s] \in Text}
<1>2. ASSUME NEW s \in Seq(Text), \A u \in Seq(Text) : Len(u) < Len(s) => Joined[u] \in Text
      PROVE  Joined[s] \in Text
  <2>1. CASE s = <<>>
    <3>1. Joined[s] = <<>>
      BY <2>1, JoinedEquation DEF JoinedOf
    <3>2. QED
      BY <3>1 DEF Text
  <2>2. CASE s # <<>>
    <3>1. /\ Head(s) \in Text /\ Tail(s) \in Seq(Text)
          /\ Len(Tail(s)) = Len(s) - 1 /\ Len(s) \in Nat
      BY <2>2, UnConsFacts
    <3>2. Len(Tail(s)) < Len(s)
      BY <3>1
    <3>3. Joined[Tail(s)] \in Seq(Byte)
      BY <1>2, <3>1, <3>2 DEF Text
    <3>4. Head(s) \o <<Bar>> \in Seq(Byte)
      BY <3>1, BarFacts, ConcatProperties DEF Text
    <3>5. Head(s) \o <<Bar>> \o Joined[Tail(s)] \in Seq(Byte)
      BY <3>3, <3>4, ConcatProperties
    <3>6. QED
      BY <1>1, <2>2, <3>1, <3>5 DEF Text
  <2>3. QED
    BY <2>1, <2>2
<1>3. Hereditary(P, Text)
  BY <1>2 DEF Hereditary
<1>4. Seq(Text) \subseteq P
  <2> HIDE DEF P
  <2>1. QED
    BY <1>3, SeqInduction
<1>5. Joined[parts] \in Text
  BY <1>4
<1>6. PICK t : t = <<c>> \o parts
  OBVIOUS
<1>7. t \in Seq(Text) /\ t # <<>> /\ Head(t) = c /\ Tail(t) = parts
  BY <1>6, ConsFacts
<1>8. Joined[t] = IF parts = <<>> THEN c ELSE c \o <<Bar>> \o Joined[parts]
  BY <1>1, <1>7
<1>9. c \o <<Bar>> \o Joined[parts] = c \o (<<Bar>> \o Joined[parts])
  <2>1. PICK j : j = Joined[parts]
    OBVIOUS
  <2>2. c \in Seq(Byte) /\ j \in Seq(Byte) /\ <<Bar>> \in Seq(Byte)
    BY <1>5, <2>1, BarFacts DEF Text
  <2>3. (c \o <<Bar>>) \o j = c \o (<<Bar>> \o j)
    BY <2>2, ConcatAssociative
  <2>4. QED
    BY <2>1, <2>3
<1>10. QED
  BY <1>5, <1>6, <1>8, <1>9

(* Every text is cut so: by induction on its length.                       *)
LEMMA CutsWell == \A s \in Text : CutWell(s)
<1> DEFINE P == {s \in Seq(Byte) : CutWell(s)}
<1>1. ASSUME NEW s \in Seq(Byte), \A u \in Seq(Byte) : Len(u) < Len(s) => CutWell(u)
      PROVE  CutWell(s)
  <2>0. s \in Text /\ Len(s) \in Nat
    BY DEF Text
  <2>1. Cut[s] = CutOf(s, Cut)
    BY <2>0, CutEquation
  <2>2. CASE Find(s, Bar) = 0
    <3>1. Cut[s] = <<s>>
      BY <2>1, <2>2 DEF CutOf
    <3>2. <<s>> \in Seq(Text) /\ Len(<<s>>) = 1 /\ <<s>>[1] = s /\ <<s>> # <<>>
      BY <2>0
    <3>3. ~Has(s, Bar)
      BY <2>2, FindFacts
    <3>4. Joined[<<s>>] = s
      <4>1. <<s>> = <<s>> \o <<>> /\ <<>> \in Seq(Text)
        BY <3>2, ConcatEmptySeq, EmptySeq
      <4>2. QED
        BY <2>0, <4>1, JoinedCons
    <3>5. Barless(<<s>>)
      BY <3>2, <3>3 DEF Barless
    <3>6. \A i \in 1 .. Len(<<s>>) : Len(<<s>>[i]) <= Len(s)
      BY <2>0, <3>2
    <3>7. QED
      BY <3>1, <3>2, <3>4, <3>5, <3>6 DEF CutWell
  <2>3. CASE Find(s, Bar) # 0
    <3>1. PICK b : b = Before(s, Find(s, Bar))
      OBVIOUS
    <3>2. PICK a : a = After(s, Find(s, Bar))
      OBVIOUS
    <3>3. /\ b \in Text /\ a \in Text /\ s = b \o (<<Bar>> \o a)
          /\ ~Has(b, Bar) /\ Len(a) < Len(s) /\ Len(b) < Len(s)
      BY <2>0, <2>3, <3>1, <3>2, PartsAt
    <3>4. CutWell(a)
      BY <1>1, <3>3 DEF Text
    <3>5. PICK parts : parts = Cut[a]
      OBVIOUS
    <3>6. /\ parts \in Seq(Text) /\ parts # <<>> /\ Barless(parts)
          /\ \A i \in 1 .. Len(parts) : Len(parts[i]) <= Len(a)
          /\ Joined[parts] = a
      BY <3>4, <3>5 DEF CutWell
    <3>7. PICK t : t = <<b>> \o parts
      OBVIOUS
    <3>8. Cut[s] = t
      BY <2>1, <2>3, <3>1, <3>2, <3>5, <3>7 DEF CutOf
    <3>9. /\ t \in Seq(Text) /\ t # <<>> /\ Len(t) = Len(parts) + 1 /\ t[1] = b
          /\ \A i \in 1 .. Len(parts) : t[i + 1] = parts[i]
      BY <3>3, <3>6, <3>7, ConsFacts
    <3>10. Joined[t] = s
      BY <3>3, <3>6, <3>7, JoinedCons
    <3>11. ASSUME NEW i \in 1 .. Len(t)
           PROVE  ~Has(t[i], Bar) /\ Len(t[i]) <= Len(s)
      <4>0. Len(parts) \in Nat /\ Len(a) \in Nat /\ Len(b) \in Nat
        BY <3>3, <3>6 DEF Text
      <4>1. CASE i = 1
        BY <2>0, <3>3, <3>9, <4>0, <4>1
      <4>2. CASE i # 1
        <5>1. PICK j : j = i - 1
          OBVIOUS
        <5>2. j \in 1 .. Len(parts) /\ i = j + 1
          BY <3>9, <4>0, <4>2, <5>1
        <5>3. t[i] = parts[j]
          BY <3>9, <5>2
        <5>4. ~Has(parts[j], Bar) /\ Len(parts[j]) <= Len(a)
          BY <3>6, <5>2 DEF Barless
        <5>5. parts[j] \in Text
          BY <3>6, <5>2, ElementOfSeq
        <5>6. Len(parts[j]) \in Nat
          BY <5>5 DEF Text
        <5>7. QED
          BY <2>0, <3>3, <4>0, <5>3, <5>4, <5>6
      <4>3. QED
        BY <4>1, <4>2
    <3>12. QED
      BY <3>8, <3>9, <3>10, <3>11 DEF CutWell, Barless
  <2>4. QED
    BY <2>2, <2>3
<1>2. Hereditary(P, Byte)
  BY <1>1 DEF Hereditary
<1>3. Seq(Byte) \subseteq P
  <2> HIDE DEF P
  <2>1. QED
    BY <1>2, SeqInduction
<1>4. QED
  BY <1>3 DEF Text

(* What is joined is cut again, if no part has the separator.              *)
LEMMA JoinedIsCut ==
    \A parts \in Seq(Text) : parts # <<>> /\ Barless(parts) => Cut[Joined[parts]] = parts
<1> DEFINE P == {s \in Seq(Text) : s # <<>> /\ Barless(s) => Cut[Joined[s]] = s}
<1>1. ASSUME NEW s \in Seq(Text), s # <<>>, Barless(s),
             \A u \in Seq(Text) : Len(u) < Len(s) =>
                (u # <<>> /\ Barless(u) => Cut[Joined[u]] = u)
      PROVE  Cut[Joined[s]] = s
  <2>1. PICK c : c = Head(s)
    OBVIOUS
  <2>2. PICK t : t = Tail(s)
    OBVIOUS
  <2>3. /\ c \in Text /\ c = s[1] /\ t \in Seq(Text) /\ s = <<c>> \o t
        /\ Len(s) \in Nat \ {0} /\ Len(t) = Len(s) - 1
        /\ \A i \in 1 .. Len(t) : t[i] = s[i + 1]
    BY <1>1, <2>1, <2>2, UnConsFacts
  <2>4. c \in Seq(Byte) /\ ~Has(c, Bar)
    <3>1. 1 \in 1 .. Len(s)
      BY <2>3
    <3>2. QED
      BY <1>1, <2>3, <3>1 DEF Barless, Text
  <2>5. CASE t = <<>>
    <3>1. Joined[s] = c
      BY <2>3, <2>5, JoinedCons
    <3>2. Cut[c] = <<c>>
      <4>1. Find(c, Bar) = 0
        BY <2>4, FindFacts
      <4>2. QED
        BY <2>3, <4>1, CutEquation DEF CutOf
    <3>3. s = <<c>>
      BY <2>3, <2>5
    <3>4. QED
      BY <3>1, <3>2, <3>3
  <2>6. CASE t # <<>>
    <3>1. PICK j : j = Joined[t]
      OBVIOUS
    <3>2. j \in Text /\ Joined[s] = c \o (<<Bar>> \o j)
      BY <2>3, <2>6, <3>1, JoinedCons
    <3>3. Barless(t)
      <4>1. ASSUME NEW i \in 1 .. Len(t) PROVE ~Has(t[i], Bar)
        <5>1. i + 1 \in 1 .. Len(s) /\ t[i] = s[i + 1]
          BY <2>3
        <5>2. QED
          BY <1>1, <5>1 DEF Barless
      <4>2. QED
        BY <4>1 DEF Barless
    <3>4. Cut[j] = t
      <4>1. Len(t) < Len(s)
        BY <2>3
      <4>2. QED
        BY <1>1, <2>3, <2>6, <3>1, <3>3, <4>1
    <3>5. PICK u : u = c \o (<<Bar>> \o j)
      OBVIOUS
    <3>6. /\ u \in Seq(Byte) /\ Find(u, Bar) = Len(c) + 1
          /\ Before(u, Find(u, Bar)) = c /\ After(u, Find(u, Bar)) = j
      BY <2>4, <3>2, <3>5, BarFacts, FindBehind DEF Text
    <3>7. Find(u, Bar) # 0
      <4>1. Len(c) \in Nat
        BY <2>4
      <4>2. QED
        BY <3>6, <4>1
    <3>8. Cut[u] = <<c>> \o t
      <4>1. Cut[u] = CutOf(u, Cut)
        BY <3>6, CutEquation DEF Text
      <4>2. QED
        BY <3>4, <3>6, <3>7, <4>1 DEF CutOf
    <3>9. QED
      BY <2>3, <3>2, <3>5, <3>8
  <2>7. QED
    BY <2>5, <2>6
<1>2. Hereditary(P, Text)
  BY <1>1 DEF Hereditary
<1>3. Seq(Text) \subseteq P
  <2> HIDE DEF P
  <2>1. QED
    BY <1>2, SeqInduction
<1>4. QED
  BY <1>3

(* The joined text starts like an authority only if the first part does.   *)
LEMMA JoinedStart ==
    ASSUME NEW parts \in Seq(Text), parts # <<>>, parts[1] # <<>>
    PROVE  IsPrefix(TwoSlashes, Joined[parts]) => IsPrefix(TwoSlashes, parts[1])
<1>1. PICK c : c = parts[1]
  OBVIOUS
<1>2. PICK t : t = Tail(parts)
  OBVIOUS
<1>3. c \in Text /\ t \in Seq(Text) /\ parts = <<c>> \o t
  BY <1>1, <1>2, UnConsFacts
<1>4. c \in Seq(Byte) /\ Len(c) \in Nat \ {0}
  BY <1>1, <1>3, EmptySeq DEF Text
<1>5. CASE t = <<>>
  BY <1>1, <1>3, <1>5, JoinedCons
<1>6. CASE t # <<>>
  <2>1. PICK j : j = Joined[t]
    OBVIOUS
  <2>2. PICK v : v = <<Bar>> \o j
    OBVIOUS
  <2>3. PICK u : u = c \o v
    OBVIOUS
  <2>4. j \in Seq(Byte) /\ Joined[parts] = u
    BY <1>3, <1>6, <2>1, <2>2, <2>3, JoinedCons DEF Text
  <2>5. v \in Seq(Byte) /\ Len(v) \in Nat \ {0} /\ v[1] = Bar
    <3>1. v \in Seq(Byte) /\ v # <<>> /\ v[1] = Bar
      BY <2>2, <2>4, BarFacts, ConsFacts
    <3>2. QED
      BY <3>1, EmptySeq
  <2>6. /\ u \in Seq(Byte) /\ Len(u) = Len(c) + Len(v)
        /\ \A i \in 1 .. Len(c) + Len(v) :
              u[i] = IF i <= Len(c) THEN c[i] ELSE v[i - Len(c)]
    BY <1>4, <2>3, <2>5, ConcatProperties
  <2>7. u \in Text
    BY <2>6 DEF Text
  <2>8. ASSUME IsPrefix(TwoSlashes, u) PROVE IsPrefix(TwoSlashes, c)
    <3>1. u[1] = Slash /\ u[2] = Slash
      BY <2>7, <2>8, SlashesFacts
    <3>2. u[1] = c[1]
      <4>1. 1 \in 1 .. Len(c) + Len(v) /\ 1 <= Len(c)
        BY <1>4, <2>5
      <4>2. QED
        BY <2>6, <4>1
    <3>3. 2 \in 1 .. Len(c) + Len(v)
      BY <1>4, <2>5
    <3>4. Len(c) >= 2
      <4>1. ASSUME Len(c) = 1 PROVE FALSE
        <5>1. u[2] = v[1]
          BY <2>6, <3>3, <4>1, 2 - 1 = 1, ~(2 <= 1)
        <5>2. QED
          BY <2>5, <3>1, <5>1 DEF Bar, Slash
      <4>2. PICK n : n = Len(c)
        OBVIOUS
      <4>3. n \in Nat /\ n # 0 /\ n # 1
        BY <1>4, <4>1, <4>2
      <4>4. n >= 2
        BY <4>3
      <4>5. QED
        BY <4>2, <4>4
    <3>5. u[2] = c[2]
      BY <1>4, <2>6, <3>3, <3>4
    <3>6. QED
      BY <1>3, <3>1, <3>2, <3>4, <3>5, SlashesFacts
  <2>9. QED
    BY <1>1, <2>4, <2>8
<1>7. QED
  BY <1>5, <1>6

(* Ok and Invalid are told apart, and Ok keeps its value.                  *)
LEMMA KindFacts ==
    /\ ~IsOk(Invalid)
    /\ \A v : IsOk(Ok(v)) /\ Ok(v).value = v /\ Ok(v) # Invalid
    /\ \A v, w : Ok(v) = Ok(w) => v = w
BY DEF IsOk, Invalid, Err, Ok

(* When the text behind concat: is taken, and as which segments.           *)
Acceptable(segments) ==
    /\ segments # <<>> /\ ~ReadsAsAuthority(segments)
    /\ \A i \in 1 .. Len(segments) : segments[i] # <<>>

(* When the constructor and the parser take segments.                      *)
LEMMA ConcatGuards ==
    /\ \A segments \in Seq(Text) :
          ConcatUri_new(segments) =
             IF Acceptable(segments) /\ Barless(segments) THEN Ok(segments) ELSE Invalid
    /\ \A uri \in Text :
          LET segments == Cut[split(uri).rest]
          IN  parse_concat_uri(uri) =
                 IF scheme_is(split(uri).scheme, CONCAT) /\ Acceptable(segments)
                   THEN Ok(segments) ELSE Invalid
<1>1. ASSUME NEW segments \in Seq(Text)
      PROVE  ConcatUri_new(segments) =
               IF Acceptable(segments) /\ Barless(segments) THEN Ok(segments) ELSE Invalid
  <2>1. DOMAIN segments = 1 .. Len(segments)
    BY LenProperties
  <2>2. QED
    BY <2>1 DEF ConcatUri_new, Acceptable, Barless
<1>2. ASSUME NEW uri \in Text
      PROVE  LET segments == Cut[split(uri).rest]
             IN  parse_concat_uri(uri) =
                    IF scheme_is(split(uri).scheme, CONCAT) /\ Acceptable(segments)
                      THEN Ok(segments) ELSE Invalid
  <2>1. PICK s : s = split(uri)
    OBVIOUS
  <2>2. PICK segments : segments = Cut[s.rest]
    OBVIOUS
  <2>3. segments \in Seq(Text) /\ segments # <<>>
    <3>1. s.rest \in Text
      BY <2>1, SplitFacts
    <3>2. QED
      BY <2>2, <3>1, CutsWell DEF CutWell
  <2>4. DOMAIN segments = 1 .. Len(segments)
    BY <2>3, LenProperties
  <2>5. parse_concat_uri(uri) =
          IF \/ ~scheme_is(s.scheme, CONCAT)
             \/ \E i \in DOMAIN segments : segments[i] = <<>>
             \/ ReadsAsAuthority(segments)
            THEN Invalid ELSE Ok(segments)
    BY <2>1, <2>2 DEF parse_concat_uri
  <2>6. QED
    BY <2>1, <2>2, <2>3, <2>4, <2>5 DEF Acceptable
<1>3. QED
  BY <1>1, <1>2

(* ConcatUri::new takes exactly the segments whose formatted text is read  *)
(* back as them.                                                           *)
ConcatAgrees(segments) ==
    IsOk(ConcatUri_new(segments))
      <=> parse_concat_uri(ConcatUri_format(segments)) = Ok(segments)

(* ConcatUri::new refuses what would be read back otherwise, and nothing   *)
(* else, for every list of segments.                                       *)
THEOREM ConcatConstructorAgrees == \A segments \in Seq(Text) : ConcatAgrees(segments)
<1> SUFFICES ASSUME NEW segments \in Seq(Text)
             PROVE  ConcatAgrees(segments)
  OBVIOUS
<1>1. PICK r : r = Joined[segments]
  OBVIOUS
<1>2. PICK uri : uri = (CONCAT \o <<Colon>>) \o r
  OBVIOUS
<1>3. r \in Text
  <2>1. <<>> \in Text
    BY EmptySeq DEF Text
  <2>2. QED
    BY <1>1, <2>1, JoinedCons
<1>4. /\ uri \in Text /\ split(uri).rest = StripSlashes(r)
      /\ scheme_is(split(uri).scheme, CONCAT)
  <2>1. /\ uri \in Text /\ split(uri) = [scheme |-> CONCAT, rest |-> StripSlashes(r)]
        /\ scheme_is(split(uri).scheme, CONCAT)
    BY <1>2, <1>3, SplitBehind, NamesOfSchemes
  <2>2. QED
    BY <2>1
<1>5. ConcatUri_format(segments) = uri
  BY <1>1, <1>2 DEF ConcatUri_format
<1>6. PICK cut : cut = Cut[StripSlashes(r)]
  OBVIOUS
<1>7. parse_concat_uri(uri) = IF Acceptable(cut) THEN Ok(cut) ELSE Invalid
  BY <1>4, <1>6, ConcatGuards
<1>8. ConcatUri_new(segments) =
        IF Acceptable(segments) /\ Barless(segments) THEN Ok(segments) ELSE Invalid
  BY ConcatGuards
<1>9. ASSUME Acceptable(segments), Barless(segments)
      PROVE  cut = segments
  <2>1. segments # <<>> /\ ~IsPrefix(TwoSlashes, segments[1])
    BY <1>9 DEF Acceptable, ReadsAsAuthority
  <2>2. segments[1] # <<>>
    <3>1. Len(segments) \in Nat \ {0}
      BY <2>1, EmptySeq
    <3>2. 1 \in 1 .. Len(segments)
      BY <3>1
    <3>3. QED
      BY <1>9, <3>2 DEF Acceptable
  <2>3. ~IsPrefix(TwoSlashes, r)
    BY <1>1, <2>1, <2>2, JoinedStart
  <2>4. StripSlashes(r) = r
    BY <1>3, <2>3, SlashesFacts
  <2>5. QED
    BY <1>1, <1>6, <1>9, <2>1, <2>4, JoinedIsCut
<1>10. Barless(cut)
  <2>1. StripSlashes(r) \in Text
    BY <1>3, SlashesFacts
  <2>2. QED
    BY <1>6, <2>1, CutsWell DEF CutWell
<1>11. QED
  BY <1>5, <1>7, <1>8, <1>9, <1>10, KindFacts DEF ConcatAgrees

(* As SliceInverts, for concat: (concat.rs:222-228).                       *)
ConcatInverts(uri) ==
    LET concat == parse_concat_uri(uri)
        again  == ConcatUri_format(concat.value)
    IN  IsOk(concat) => /\ parse_concat_uri(again) = concat
                        /\ CanonicalText(CONCAT, uri) => again = uri

(* What is parsed is made of the rest of the text, cut.                    *)
LEMMA ConcatParsed ==
    ASSUME NEW uri \in Text, IsOk(parse_concat_uri(uri))
    PROVE  LET segments == Cut[split(uri).rest]
           IN  /\ parse_concat_uri(uri) = Ok(segments)
               /\ segments \in Seq(Text) /\ Acceptable(segments) /\ Barless(segments)
               /\ \A i \in 1 .. Len(segments) : Len(segments[i]) <= Len(split(uri).rest)
               /\ Joined[segments] = split(uri).rest
               /\ scheme_is(split(uri).scheme, CONCAT)
<1>1. PICK segments : segments = Cut[split(uri).rest]
  OBVIOUS
<1>2. split(uri).rest \in Text
  BY SplitFacts
<1>3. CutWell(split(uri).rest)
  BY <1>2, CutsWell
<1>4. /\ scheme_is(split(uri).scheme, CONCAT) /\ Acceptable(segments)
      /\ parse_concat_uri(uri) = Ok(segments)
  BY <1>1, ConcatGuards, KindFacts
<1>5. QED
  BY <1>1, <1>3, <1>4 DEF CutWell

(* Segments that were parsed, formatted and parsed again are the same, and *)
(* a text in the formatter's spelling comes back unchanged.                *)
THEOREM ConcatRoundTrip == \A uri \in Text : ConcatInverts(uri)
<1> SUFFICES ASSUME NEW uri \in Text, IsOk(parse_concat_uri(uri))
             PROVE  ConcatInverts(uri)
  BY DEF ConcatInverts
<1>1. PICK segments : segments = Cut[split(uri).rest]
  OBVIOUS
<1>2. /\ parse_concat_uri(uri) = Ok(segments)
      /\ segments \in Seq(Text) /\ Acceptable(segments) /\ Barless(segments)
      /\ Joined[segments] = split(uri).rest
  BY <1>1, ConcatParsed
<1>3. parse_concat_uri(uri).value = segments
  BY <1>2, KindFacts
<1>4. IsOk(ConcatUri_new(segments))
  BY <1>2, ConcatGuards, KindFacts
<1>5. parse_concat_uri(ConcatUri_format(segments)) = parse_concat_uri(uri)
  BY <1>2, <1>4, ConcatConstructorAgrees DEF ConcatAgrees
<1>6. ASSUME CanonicalText(CONCAT, uri) PROVE ConcatUri_format(segments) = uri
  <2>1. uri = (CONCAT \o <<Colon>>) \o split(uri).rest
    BY <1>6, CanonicalTexts, NamesOfSchemes
  <2>2. QED
    BY <1>2, <2>1 DEF ConcatUri_format
<1>7. QED
  BY <1>3, <1>5, <1>6 DEF ConcatInverts

(* What SliceUri::new takes is read back as it is; and it takes what is    *)
(* read back, but for the inner texts with a "!".                          *)
SliceAgrees(offset, length, inner) ==
    LET x    == SliceUri(offset, length, inner)
        back == parse_slice_uri(SliceUri_format(x)) = Ok(x)
        new  == SliceUri_new(offset, length, inner)
    IN  /\ IsOk(new) => back
        /\ back /\ ~Has(inner, Bang) => IsOk(new)
        /\ back /\ Has(inner, Bang) => new = Invalid

(* SliceUri::new is sound, is complete for what has no "!", and refuses    *)
(* all the rest, though it be read back: for every range and inner text.   *)
THEOREM SliceConstructorAgrees ==
    \A offset, length \in 0 .. MaxU64 : \A inner \in Text :
        SliceAgrees(offset, length, inner)
<1> SUFFICES ASSUME NEW offset \in 0 .. MaxU64, NEW length \in 0 .. MaxU64,
                    NEW inner \in Text
             PROVE  SliceAgrees(offset, length, inner)
  OBVIOUS
<1>1. offset \in Nat /\ length \in Nat /\ offset <= MaxU64 /\ length <= MaxU64
  BY MaxU64Assumption
<1>2. PICK x : x = SliceUri(offset, length, inner)
  OBVIOUS
<1>3. parse_slice_uri(SliceUri_format(x)) = IF inner # <<>> THEN Ok(x) ELSE Invalid
  BY <1>1, <1>2, SliceIsReadBack
<1>4. SliceUri_new(offset, length, inner) =
        IF inner = <<>> \/ Has(inner, Bang) THEN Invalid ELSE Ok(x)
  BY <1>2 DEF SliceUri_new
<1>5. QED
  BY <1>2, <1>3, <1>4, KindFacts DEF SliceAgrees

-----------------------------------------------------------------------------
(* uri.rs and data.rs: escapes.                                            *)

Bytes == [kind : {"ok", "Invalid"}, value : Text]

(* Answers of the decoders stay answers behind decoded bytes.              *)
LEMMA BytesFacts ==
    /\ Invalid \in Bytes /\ \A v \in Text : Ok(v) \in Bytes
    /\ \A v \in Text : \A r \in Bytes : Then(v, r) \in Bytes
    /\ \A v, w : Then(v, Ok(w)) = Ok(v \o w)
    /\ \A r \in Bytes : r.value \in Text /\ (IsOk(r) => r = Ok(r.value))
<1>1. Invalid \in Bytes /\ \A v \in Text : Ok(v) \in Bytes
  BY DEF Invalid, Err, Ok, Bytes, Text
<1>2. ASSUME NEW v \in Text, NEW r \in Bytes PROVE Then(v, r) \in Bytes
  <2>1. r.value \in Text
    BY DEF Bytes
  <2>2. v \o r.value \in Text
    BY <2>1, ConcatProperties DEF Text
  <2>3. QED
    BY <1>1, <2>2 DEF Then
<1>3. ASSUME NEW v, NEW w PROVE Then(v, Ok(w)) = Ok(v \o w)
  BY DEF Then, IsOk, Ok
<1>4. ASSUME NEW r \in Bytes PROVE r.value \in Text /\ (IsOk(r) => r = Ok(r.value))
  BY DEF Bytes, IsOk, Ok
<1>5. QED
  BY <1>1, <1>2, <1>3, <1>4

(* A nibble is written as a hex digit, and is the value of that digit.     *)
LEMMA HexFacts ==
    /\ \A c \in HexDigit : hex_nibble[c] \in 0 .. 15
    /\ \A n \in 0 .. 15 :
          HexOf(n) \in Byte /\ HexOf(n) \in HexDigit /\ hex_nibble[HexOf(n)] = n
<1>1. HexDigit = Digit \union 65 .. 70 \union 97 .. 102
  BY DEF HexDigit, hex_nibble
<1>2. ASSUME NEW c \in HexDigit
      PROVE  hex_nibble[c] = IF c \in Digit THEN c - 48
                             ELSE IF c \in Upper THEN c - 55 ELSE c - 87
  BY <1>1 DEF hex_nibble
<1>3. ASSUME NEW c \in HexDigit PROVE hex_nibble[c] \in 0 .. 15
  BY <1>1, <1>2 DEF Digit, Upper
<1>4. ASSUME NEW n \in 0 .. 15
      PROVE  HexOf(n) \in Byte /\ HexOf(n) \in HexDigit /\ hex_nibble[HexOf(n)] = n
  <2>1. CASE n < 10
    <3>1. HexOf(n) = n + 48 /\ n + 48 \in Digit /\ n + 48 \in Byte /\ n + 48 - 48 = n
      BY <2>1 DEF HexOf, Digit, Byte
    <3>2. QED
      BY <1>1, <1>2, <3>1
  <2>2. CASE ~(n < 10)
    <3>1. /\ HexOf(n) = n + 55 /\ n + 55 \in 65 .. 70 /\ n + 55 \in Byte
          /\ n + 55 \notin Digit /\ n + 55 \in Upper /\ n + 55 - 55 = n
      BY <2>2 DEF HexOf, Digit, Byte, Upper
    <3>2. QED
      BY <1>1, <1>2, <3>1
  <2>3. QED
    BY <2>1, <2>2
<1>5. QED
  BY <1>3, <1>4

DecodedOf(s, f) ==
    IF s = <<>>               THEN Ok(<<>>)
    ELSE IF s[1] # Percent    THEN Then(<<s[1]>>, f[Tail(s)])
    ELSE IF Len(s) < 3 \/ ~({s[2], s[3]} \subseteq HexDigit) THEN Invalid
    ELSE Then(<<16 * hex_nibble[s[2]] + hex_nibble[s[3]]>>, f[After(s, 3)])

(* A text is its first byte and a shorter text.                            *)
LEMMA TailAfter ==
    ASSUME NEW s \in Text, s # <<>>
    PROVE  /\ s[1] \in Byte /\ Tail(s) \in Text /\ Len(Tail(s)) < Len(s)
           /\ Len(s) \in Nat \ {0} /\ s = <<s[1]>> \o Tail(s)
<1>1. s \in Seq(Byte)
  BY DEF Text
<1>2. /\ s[1] \in Byte /\ Tail(s) \in Seq(Byte) /\ s = <<s[1]>> \o Tail(s)
      /\ Len(s) \in Nat \ {0} /\ Len(Tail(s)) = Len(s) - 1
  BY <1>1, UnConsFacts
<1>3. QED
  BY <1>2 DEF Text

(* What is left behind some bytes is a shorter text.                       *)
LEMMA AfterText ==
    ASSUME NEW s \in Text, NEW k \in Nat \ {0}, k <= Len(s)
    PROVE  /\ After(s, k) \in Text /\ Len(After(s, k)) < Len(s)
           /\ Len(After(s, k)) = Len(s) - k /\ Len(s) \in Nat
<1>1. s \in Seq(Byte) /\ Len(s) \in Nat
  BY DEF Text
<1>2. k \in 0 .. Len(s)
  BY <1>1
<1>3. After(s, k) \in Seq(Byte) /\ Len(After(s, k)) = Len(s) - k
  BY <1>1, <1>2, AfterFacts
<1>4. QED
  BY <1>1, <1>2, <1>3 DEF Text

(* The equation of any function on texts that is given by shorter texts.   *)
Shortens(H, V) ==
    /\ V # {}
    /\ \A s \in Text : \A f, g \in [Text -> V] :
          /\ H[s][f] \in V
          /\ (\A u \in Text : Len(u) < Len(s) => f[u] = g[u]) => H[s][f] = H[s][g]

(* SeqRecursion, for texts.                                                *)
LEMMA TextRecursion ==
    \A V, H : Shortens(H, V) => \E f : Solves(f, H, Text, V)
BY SeqRecursion DEF Shortens, Shrinks, Text

(* percent_decode_bytes is what its definition says.                       *)
LEMMA DecodedEquation ==
    \A s \in Text : percent_decode_bytes[s] = DecodedOf(s, percent_decode_bytes)
<1>1. ASSUME NEW s \in Text, NEW f \in [Text -> Bytes]
      PROVE  DecodedOf(s, f) \in Bytes
  <2>1. CASE s = <<>>
    <3>1. <<>> \in Text
      BY EmptySeq DEF Text
    <3>2. QED
      BY <2>1, <3>1, BytesFacts DEF DecodedOf
  <2>2. CASE s # <<>> /\ s[1] # Percent
    <3>1. s[1] \in Byte /\ Tail(s) \in Text
      BY <2>2, TailAfter
    <3>2. <<s[1]>> \in Text /\ f[Tail(s)] \in Bytes
      BY <3>1, OneFacts DEF Text
    <3>3. QED
      BY <2>2, <3>2, BytesFacts DEF DecodedOf
  <2>3. CASE s # <<>> /\ s[1] = Percent
    <3>1. CASE Len(s) < 3 \/ ~({s[2], s[3]} \subseteq HexDigit)
      BY <2>3, <3>1, BytesFacts DEF DecodedOf
    <3>2. CASE ~(Len(s) < 3) /\ {s[2], s[3]} \subseteq HexDigit
      <4>1. Len(s) \in Nat
        BY DEF Text
      <4>2. 3 <= Len(s)
        BY <3>2, <4>1
      <4>3. After(s, 3) \in Text
        BY <4>2, AfterText
      <4>4. hex_nibble[s[2]] \in 0 .. 15 /\ hex_nibble[s[3]] \in 0 .. 15
        BY <3>2, HexFacts
      <4>5. 16 * hex_nibble[s[2]] + hex_nibble[s[3]] \in Byte
        BY <4>4 DEF Byte
      <4>6. <<16 * hex_nibble[s[2]] + hex_nibble[s[3]]>> \in Text
        BY <4>5, OneFacts DEF Text
      <4>7. f[After(s, 3)] \in Bytes
        BY <4>3
      <4>8. DecodedOf(s, f) =
              Then(<<16 * hex_nibble[s[2]] + hex_nibble[s[3]]>>, f[After(s, 3)])
        BY <2>3, <3>2 DEF DecodedOf
      <4>9. QED
        BY <4>6, <4>7, <4>8, BytesFacts
    <3>3. QED
      BY <3>1, <3>2
  <2>4. QED
    BY <2>1, <2>2, <2>3
<1>2. ASSUME NEW s \in Text, NEW f \in [Text -> Bytes], NEW g \in [Text -> Bytes],
             \A u \in Text : Len(u) < Len(s) => f[u] = g[u]
      PROVE  DecodedOf(s, f) = DecodedOf(s, g)
  <2>1. CASE s = <<>>
    BY <2>1 DEF DecodedOf
  <2>2. CASE s # <<>> /\ s[1] # Percent
    <3>1. f[Tail(s)] = g[Tail(s)]
      BY <1>2, <2>2, TailAfter
    <3>2. QED
      BY <2>2, <3>1 DEF DecodedOf
  <2>3. CASE s # <<>> /\ s[1] = Percent
    <3>1. CASE Len(s) < 3 \/ ~({s[2], s[3]} \subseteq HexDigit)
      BY <2>3, <3>1 DEF DecodedOf
    <3>2. CASE ~(Len(s) < 3)
      <4>1. Len(s) \in Nat
        BY DEF Text
      <4>2. 3 <= Len(s)
        BY <3>2, <4>1
      <4>3. f[After(s, 3)] = g[After(s, 3)]
        BY <1>2, <4>2, AfterText
      <4>4. QED
        BY <2>3, <4>3 DEF DecodedOf
    <3>3. QED
      BY <3>1, <3>2
  <2>4. QED
    BY <2>1, <2>2, <2>3
<1>3. PICK V : V = Bytes
  OBVIOUS
<1>4. PICK H : H = [s \in Text |-> [f \in [Text -> V] |-> DecodedOf(s, f)]]
  OBVIOUS
<1>5. ASSUME NEW s \in Text, NEW f \in [Text -> V] PROVE H[s][f] = DecodedOf(s, f)
  BY <1>4
<1>6. Shortens(H, V)
  <2>1. V # {}
    BY <1>3, BytesFacts
  <2>2. ASSUME NEW s \in Text, NEW f \in [Text -> V], NEW g \in [Text -> V]
        PROVE  /\ H[s][f] \in V
               /\ (\A u \in Text : Len(u) < Len(s) => f[u] = g[u]) => H[s][f] = H[s][g]
    BY <1>1, <1>2, <1>3, <1>5
  <2>3. QED
    BY <2>1, <2>2 DEF Shortens
<1>7. PICK f : Solves(f, H, Text, V)
  BY <1>6, TextRecursion
<1>8. f = [s \in Text |-> DecodedOf(s, f)]
  BY <1>5, <1>7 DEF Solves
<1>9. percent_decode_bytes = [s \in Text |-> DecodedOf(s, percent_decode_bytes)]
  BY <1>8 DEF percent_decode_bytes, DecodedOf
<1>10. QED
  BY <1>9

(* Induction on the length of a text.                                      *)
Settles(P) == \A s \in Text : (\A u \in Text : Len(u) < Len(s) => u \in P) => s \in P

(* SeqInduction, for texts.                                                *)
LEMMA TextInduction == ASSUME NEW P, Settles(P) PROVE Text \subseteq P
BY SeqInduction DEF Settles, Hereditary, Text

(* A text is decoded to bytes or refused.                                  *)
LEMMA DecodedTyped == \A s \in Text : percent_decode_bytes[s] \in Bytes
<1> DEFINE P == {s \in Text : percent_decode_bytes[s] \in Bytes}
<1>1. ASSUME NEW s \in Text,
             \A u \in Text : Len(u) < Len(s) => percent_decode_bytes[u] \in Bytes
      PROVE  percent_decode_bytes[s] \in Bytes
  <2>1. percent_decode_bytes[s] = DecodedOf(s, percent_decode_bytes)
    BY DecodedEquation
  <2>2. CASE s = <<>>
    <3>1. <<>> \in Text
      BY EmptySeq DEF Text
    <3>2. QED
      BY <2>1, <2>2, <3>1, BytesFacts DEF DecodedOf
  <2>3. CASE s # <<>> /\ s[1] # Percent
    <3>1. s[1] \in Byte /\ Tail(s) \in Text /\ Len(Tail(s)) < Len(s)
      BY <2>3, TailAfter
    <3>2. <<s[1]>> \in Text /\ percent_decode_bytes[Tail(s)] \in Bytes
      BY <1>1, <3>1, OneFacts DEF Text
    <3>3. QED
      BY <2>1, <2>3, <3>2, BytesFacts DEF DecodedOf
  <2>4. CASE s # <<>> /\ s[1] = Percent
    <3>1. CASE Len(s) < 3 \/ ~({s[2], s[3]} \subseteq HexDigit)
      BY <2>1, <2>4, <3>1, BytesFacts DEF DecodedOf
    <3>2. CASE ~(Len(s) < 3) /\ {s[2], s[3]} \subseteq HexDigit
      <4>1. Len(s) \in Nat
        BY DEF Text
      <4>2. 3 <= Len(s)
        BY <3>2, <4>1
      <4>3. After(s, 3) \in Text /\ Len(After(s, 3)) < Len(s)
        BY <4>2, AfterText
      <4>4. hex_nibble[s[2]] \in 0 .. 15 /\ hex_nibble[s[3]] \in 0 .. 15
        BY <3>2, HexFacts
      <4>5. 16 * hex_nibble[s[2]] + hex_nibble[s[3]] \in Byte
        BY <4>4 DEF Byte
      <4>6. <<16 * hex_nibble[s[2]] + hex_nibble[s[3]]>> \in Text
        BY <4>5, OneFacts DEF Text
      <4>7. percent_decode_bytes[After(s, 3)] \in Bytes
        BY <1>1, <4>3
      <4>8. percent_decode_bytes[s] =
              Then(<<16 * hex_nibble[s[2]] + hex_nibble[s[3]]>>,
                   percent_decode_bytes[After(s, 3)])
        BY <2>1, <2>4, <3>2 DEF DecodedOf
      <4>9. QED
        BY <4>6, <4>7, <4>8, BytesFacts
    <3>3. QED
      BY <3>1, <3>2
  <2>5. QED
    BY <2>2, <2>3, <2>4
<1>2. Settles(P)
  BY <1>1 DEF Settles
<1>3. Text \subseteq P
  <2> HIDE DEF P
  <2>1. QED
    BY <1>2, TextInduction
<1>4. QED
  BY <1>3

SpelledOf(s, f) ==
    IF s = <<>> THEN <<>>
    ELSE (IF s[1] \in Unreserved THEN <<s[1]>> ELSE Escaped(s[1])) \o f[Tail(s)]

(* An escaped byte is a percent sign and two digits that stand for it.     *)
LEMMA EscapedFacts ==
    ASSUME NEW b \in Byte
    PROVE  /\ Escaped(b) \in Text /\ Len(Escaped(b)) = 3
           /\ Escaped(b)[1] = Percent
           /\ {Escaped(b)[2], Escaped(b)[3]} \subseteq HexDigit
           /\ 16 * hex_nibble[Escaped(b)[2]] + hex_nibble[Escaped(b)[3]] = b
<1>1. PICK hi : hi = b \div 16
  OBVIOUS
<1>2. PICK lo : lo = b % 16
  OBVIOUS
<1>3. hi \in 0 .. 15 /\ lo \in 0 .. 15 /\ 16 * hi + lo = b
  BY <1>1, <1>2 DEF Byte
<1>4. /\ HexOf(hi) \in Byte /\ HexOf(hi) \in HexDigit /\ hex_nibble[HexOf(hi)] = hi
      /\ HexOf(lo) \in Byte /\ HexOf(lo) \in HexDigit /\ hex_nibble[HexOf(lo)] = lo
  BY <1>3, HexFacts
<1>5. PICK x : x = HexOf(hi)
  OBVIOUS
<1>6. PICK y : y = HexOf(lo)
  OBVIOUS
<1>7. Escaped(b) = <<Percent, x, y>>
  BY <1>1, <1>2, <1>5, <1>6 DEF Escaped
<1>8. Percent \in Byte
  BY DEF Percent, Byte
<1>9. x \in Byte /\ y \in Byte
  BY <1>4, <1>5, <1>6
<1>10. <<Percent, x, y>> \in Seq(Byte) /\ Len(<<Percent, x, y>>) = 3
  BY <1>8, <1>9
<1>11. Escaped(b)[1] = Percent /\ Escaped(b)[2] = x /\ Escaped(b)[3] = y
  BY <1>7
<1>12. QED
  BY <1>3, <1>4, <1>5, <1>6, <1>7, <1>10, <1>11 DEF Text

(* Spelled is what its definition says.                                    *)
LEMMA SpelledEquation == \A s \in Text : Spelled[s] = SpelledOf(s, Spelled)
<1>1. ASSUME NEW s \in Text, NEW f \in [Text -> Text]
      PROVE  SpelledOf(s, f) \in Text
  <2>1. CASE s = <<>>
    BY <2>1 DEF SpelledOf
  <2>2. CASE s # <<>>
    <3>1. s[1] \in Byte /\ Tail(s) \in Text
      BY <2>2, TailAfter
    <3>2. PICK h : h = IF s[1] \in Unreserved THEN <<s[1]>> ELSE Escaped(s[1])
      OBVIOUS
    <3>3. h \in Seq(Byte)
      BY <3>1, <3>2, OneFacts, EscapedFacts DEF Text
    <3>4. f[Tail(s)] \in Seq(Byte)
      BY <3>1 DEF Text
    <3>5. h \o f[Tail(s)] \in Text
      BY <3>3, <3>4, ConcatProperties DEF Text
    <3>6. QED
      BY <2>2, <3>2, <3>5 DEF SpelledOf
  <2>3. QED
    BY <2>1, <2>2
<1>2. ASSUME NEW s \in Text, NEW f \in [Text -> Text], NEW g \in [Text -> Text],
             \A u \in Text : Len(u) < Len(s) => f[u] = g[u]
      PROVE  SpelledOf(s, f) = SpelledOf(s, g)
  <2>1. CASE s = <<>>
    BY <2>1 DEF SpelledOf
  <2>2. CASE s # <<>>
    <3>1. f[Tail(s)] = g[Tail(s)]
      BY <1>2, <2>2, TailAfter
    <3>2. QED
      BY <2>2, <3>1 DEF SpelledOf
  <2>3. QED
    BY <2>1, <2>2
<1>3. PICK V : V = Text
  OBVIOUS
<1>4. PICK H : H = [s \in Text |-> [f \in [Text -> V] |-> SpelledOf(s, f)]]
  OBVIOUS
<1>5. ASSUME NEW s \in Text, NEW f \in [Text -> V] PROVE H[s][f] = SpelledOf(s, f)
  BY <1>4
<1>6. Shortens(H, V)
  <2>1. V # {}
    <3>1. <<>> \in V
      BY <1>3, EmptySeq DEF Text
    <3>2. QED
      BY <3>1
  <2>2. ASSUME NEW s \in Text, NEW f \in [Text -> V], NEW g \in [Text -> V]
        PROVE  /\ H[s][f] \in V
               /\ (\A u \in Text : Len(u) < Len(s) => f[u] = g[u]) => H[s][f] = H[s][g]
    <3>1. H[s][f] = SpelledOf(s, f) /\ H[s][g] = SpelledOf(s, g)
      BY <1>5
    <3>2. f \in [Text -> Text] /\ g \in [Text -> Text]
      BY <1>3
    <3>3. SpelledOf(s, f) \in V
      BY <1>1, <1>3, <3>2
    <3>4. (\A u \in Text : Len(u) < Len(s) => f[u] = g[u])
             => SpelledOf(s, f) = SpelledOf(s, g)
      BY <1>2, <3>2
    <3>5. QED
      BY <3>1, <3>3, <3>4
  <2>3. QED
    BY <2>1, <2>2 DEF Shortens
<1>7. PICK f : Solves(f, H, Text, V)
  BY <1>6, TextRecursion
<1>8. f = [s \in Text |-> SpelledOf(s, f)]
  BY <1>5, <1>7 DEF Solves
<1>9. Spelled = [s \in Text |-> SpelledOf(s, Spelled)]
  BY <1>8 DEF Spelled, SpelledOf
<1>10. QED
  BY <1>9

(* What is spelled out is decoded to what it was.                          *)
SpelledWell(s) == Spelled[s] \in Text /\ percent_decode_bytes[Spelled[s]] = Ok(s)

(* percent_decode_bytes takes back the escapes of DataUri::format, for all *)
(* bytes (data.rs:133-142, uri.rs:85-121).                                 *)
THEOREM SpelledIsDecoded == \A s \in Text : SpelledWell(s)
<1> DEFINE P == {s \in Text : SpelledWell(s)}
<1>1. ASSUME NEW s \in Text, \A u \in Text : Len(u) < Len(s) => SpelledWell(u)
      PROVE  SpelledWell(s)
  <2>1. Spelled[s] = SpelledOf(s, Spelled)
    BY SpelledEquation
  <2>2. CASE s = <<>>
    <3>1. Spelled[s] = <<>>
      BY <2>1, <2>2 DEF SpelledOf
    <3>2. percent_decode_bytes[<<>>] = Ok(<<>>)
      BY <2>2, DecodedEquation DEF DecodedOf
    <3>3. QED
      BY <2>2, <3>1, <3>2 DEF SpelledWell
  <2>3. CASE s # <<>>
    <3>1. PICK b : b = s[1]
      OBVIOUS
    <3>2. PICK t : t = Tail(s)
      OBVIOUS
    <3>3. b \in Byte /\ t \in Text /\ Len(t) < Len(s) /\ s = <<b>> \o t
      BY <2>3, <3>1, <3>2, TailAfter
    <3>4. PICK v : v = Spelled[t]
      OBVIOUS
    <3>5. v \in Text /\ percent_decode_bytes[v] = Ok(t)
      BY <1>1, <3>3, <3>4 DEF SpelledWell
    <3>6. v \in Seq(Byte)
      BY <3>5 DEF Text
    <3>7. CASE b \in Unreserved
      <4>1. PICK u : u = <<b>> \o v
        OBVIOUS
      <4>2. Spelled[s] = u
        BY <2>1, <2>3, <3>1, <3>2, <3>4, <3>7, <4>1 DEF SpelledOf
      <4>3. u \in Text /\ u # <<>> /\ u[1] = b /\ Tail(u) = v
        BY <3>3, <3>6, <4>1, ConsFacts DEF Text
      <4>4. b # Percent
        BY <3>7 DEF Unreserved, Letter, Upper, Digit, Minus, Dot, Underscore, Tilde, Percent
      <4>5. percent_decode_bytes[u] = Then(<<b>>, percent_decode_bytes[v])
        BY <4>3, <4>4, DecodedEquation DEF DecodedOf
      <4>6. percent_decode_bytes[u] = Ok(s)
        BY <3>3, <3>5, <4>5, BytesFacts
      <4>7. QED
        BY <4>2, <4>3, <4>6 DEF SpelledWell
    <3>8. CASE b \notin Unreserved
      <4>1. PICK e : e = Escaped(b)
        OBVIOUS
      <4>2. PICK u : u = e \o v
        OBVIOUS
      <4>3. Spelled[s] = u
        BY <2>1, <2>3, <3>1, <3>2, <3>4, <3>8, <4>1, <4>2 DEF SpelledOf
      <4>4. /\ e \in Seq(Byte) /\ Len(e) = 3 /\ e[1] = Percent
            /\ {e[2], e[3]} \subseteq HexDigit
            /\ 16 * hex_nibble[e[2]] + hex_nibble[e[3]] = b
        BY <3>3, <4>1, EscapedFacts DEF Text
      <4>5. /\ u \in Seq(Byte) /\ Len(u) = 3 + Len(v)
            /\ \A i \in 1 .. 3 + Len(v) : u[i] = IF i <= 3 THEN e[i] ELSE v[i - 3]
        <5>1. /\ u \in Seq(Byte) /\ Len(u) = Len(e) + Len(v)
              /\ \A i \in 1 .. Len(e) + Len(v) :
                    u[i] = IF i <= Len(e) THEN e[i] ELSE v[i - Len(e)]
          BY <3>6, <4>2, <4>4, ConcatProperties
        <5>2. QED
          BY <4>4, <5>1
      <4>6. Len(v) \in Nat
        BY <3>6
      <4>7. u[1] = e[1] /\ u[2] = e[2] /\ u[3] = e[3]
        <5>1. 1 \in 1 .. 3 + Len(v) /\ 2 \in 1 .. 3 + Len(v) /\ 3 \in 1 .. 3 + Len(v)
          BY <4>6
        <5>2. QED
          BY <4>5, <5>1
      <4>8. After(u, 3) = v
        BY <3>6, <4>2, <4>4, ConcatApart
      <4>9. u # <<>> /\ ~(Len(u) < 3)
        BY <4>5, <4>6
      <4>10. u \in Text
        BY <4>5 DEF Text
      <4>11. percent_decode_bytes[u] =
               Then(<<16 * hex_nibble[u[2]] + hex_nibble[u[3]]>>,
                    percent_decode_bytes[After(u, 3)])
        BY <4>4, <4>7, <4>9, <4>10, DecodedEquation DEF DecodedOf
      <4>12. percent_decode_bytes[u] = Then(<<b>>, Ok(t))
        BY <3>5, <4>4, <4>7, <4>8, <4>11
      <4>13. percent_decode_bytes[u] = Ok(s)
        BY <3>3, <4>12, BytesFacts
      <4>14. QED
        BY <4>3, <4>10, <4>13 DEF SpelledWell
    <3>9. QED
      BY <3>7, <3>8
  <2>4. QED
    BY <2>2, <2>3
<1>2. Settles(P)
  BY <1>1 DEF Settles
<1>3. Text \subseteq P
  <2> HIDE DEF P
  <2>1. QED
    BY <1>2, TextInduction
<1>4. QED
  BY <1>3

-----------------------------------------------------------------------------
(* data.rs: base64.                                                        *)

(* A value of six bits is written as a character of the alphabet, and is   *)
(* the value of that character.                                            *)
LEMMA SixBits ==
    ASSUME NEW v \in 0 .. 63
    PROVE  /\ ALPHA[v] \in Byte /\ ALPHA[v] \in Alphabet
           /\ ALPHA[v] # Equals /\ ALPHA[v] \notin Blank
           /\ b64_value[ALPHA[v]] = v
<1>1. ALPHA[v] = CASE v < 26 -> v + 65
                   [] v \in 26 .. 51 -> v + 71
                   [] v \in 52 .. 61 -> v - 4
                   [] v = 62 -> Plus
                   [] v = 63 -> Slash
  BY DEF ALPHA
<1>2. ASSUME NEW c \in Alphabet
      PROVE  b64_value[c] = CASE c \in Upper -> c - 65
                              [] c \in Letter \ Upper -> c - 71
                              [] c \in Digit -> c + 4
                              [] c = Plus -> 62
                              [] c = Slash -> 63
  BY DEF b64_value
<1>3. CASE v < 26
  <2>1. PICK c : c = v + 65
    OBVIOUS
  <2>2. c \in Upper /\ c - 65 = v /\ c \notin Digit /\ c # Plus /\ c # Slash
    BY <1>3, <2>1 DEF Upper, Digit, Plus, Slash
  <2>3. ALPHA[v] = c
    BY <1>1, <1>3, <2>1
  <2>4. c \in Alphabet /\ c \in Byte /\ c # Equals /\ c \notin Blank
    BY <2>2 DEF Alphabet, Letter, Upper, Byte, Equals, Blank, Space
  <2>5. b64_value[c] = c - 65
    BY <1>2, <2>2, <2>4
  <2>6. QED
    BY <2>2, <2>3, <2>4, <2>5
<1>4. CASE v \in 26 .. 51
  <2>1. PICK c : c = v + 71
    OBVIOUS
  <2>2. /\ c \in 97 .. 122 /\ c \notin Upper /\ c - 71 = v
        /\ c \notin Digit /\ c # Plus /\ c # Slash
    BY <1>4, <2>1 DEF Upper, Digit, Plus, Slash
  <2>3. ALPHA[v] = c
    BY <1>1, <1>4, <2>1
  <2>4. /\ c \in Alphabet /\ c \in Byte /\ c # Equals /\ c \notin Blank
        /\ c \in Letter \ Upper
    BY <2>2 DEF Alphabet, Letter, Byte, Equals, Blank, Space
  <2>5. b64_value[c] = c - 71
    BY <1>2, <2>2, <2>4
  <2>6. QED
    BY <2>2, <2>3, <2>4, <2>5
<1>5. CASE v \in 52 .. 61
  <2>1. PICK c : c = v - 4
    OBVIOUS
  <2>2. c \in Digit /\ c \notin Letter /\ c + 4 = v /\ c # Plus /\ c # Slash
    BY <1>5, <2>1 DEF Letter, Upper, Digit, Plus, Slash
  <2>3. ALPHA[v] = c
    BY <1>1, <1>5, <2>1
  <2>4. c \in Alphabet /\ c \in Byte /\ c # Equals /\ c \notin Blank
    BY <2>2 DEF Alphabet, Digit, Byte, Equals, Blank, Space
  <2>5. b64_value[c] = c + 4
    <3>1. c \notin Upper
      BY <2>2 DEF Letter
    <3>2. QED
      BY <1>2, <2>2, <2>4, <3>1
  <2>6. QED
    BY <2>2, <2>3, <2>4, <2>5
<1>6. CASE v = 62
  <2>1. ALPHA[v] = Plus
    BY <1>1, <1>6
  <2>2. /\ Plus \in Alphabet /\ Plus \in Byte /\ Plus # Equals /\ Plus \notin Blank
        /\ Plus \notin Upper /\ Plus \notin Letter /\ Plus \notin Digit /\ Plus # Slash
    BY DEF Alphabet, Letter, Upper, Digit, Byte, Equals, Blank, Space, Plus, Slash
  <2>3. b64_value[Plus] = 62
    BY <1>2, <2>2
  <2>4. QED
    BY <1>6, <2>1, <2>2, <2>3
<1>7. CASE v = 63
  <2>1. ALPHA[v] = Slash
    BY <1>1, <1>7
  <2>2. /\ Slash \in Alphabet /\ Slash \in Byte /\ Slash # Equals /\ Slash \notin Blank
        /\ Slash \notin Upper /\ Slash \notin Letter /\ Slash \notin Digit /\ Plus # Slash
    BY DEF Alphabet, Letter, Upper, Digit, Byte, Equals, Blank, Space, Plus, Slash
  <2>3. b64_value[Slash] = 63
    BY <1>2, <2>2
  <2>4. QED
    BY <1>7, <2>1, <2>2, <2>3
<1>8. QED
  BY <1>3, <1>4, <1>5, <1>6, <1>7

(* The four base-64 digits of a number.                                    *)
IsQuad(t, q1, q2, q3, q4) == t = q1 * 262144 + q2 * 4096 + q3 * 64 + q4
HasDigits(t, q1, q2, q3, q4) ==
    /\ t \div 262144 = q1 /\ (t \div 4096) % 64 = q2
    /\ (t \div 64) % 64 = q3 /\ t % 64 = q4

(* The digits are what division takes out, and less than 64 each.          *)
LEMMA FourDigits ==
    \A t \in Int : \A q1, q2, q3, q4 \in 0 .. 63 :
        IsQuad(t, q1, q2, q3, q4) => HasDigits(t, q1, q2, q3, q4)
<1> SUFFICES ASSUME NEW t \in Int, NEW q1 \in 0 .. 63, NEW q2 \in 0 .. 63,
                    NEW q3 \in 0 .. 63, NEW q4 \in 0 .. 63,
                    IsQuad(t, q1, q2, q3, q4)
             PROVE  HasDigits(t, q1, q2, q3, q4)
  BY Zenon
<1>0. t = q1 * 262144 + q2 * 4096 + q3 * 64 + q4
  BY SMT DEF IsQuad
<1>1. t \div 262144 = q1
  BY <1>0, SMT
<1>2. t \div 4096 = 64 * q1 + q2
  BY <1>0, SMT
<1>3. (64 * q1 + q2) % 64 = q2
  BY SMT
<1>4. t \div 64 = 4096 * q1 + 64 * q2 + q3
  BY <1>0, SMT
<1>5. (4096 * q1 + 64 * q2 + q3) % 64 = q3
  BY SMT
<1>6. t % 64 = q4
  BY <1>0, SMT
<1>7. QED
  BY <1>1, <1>2, <1>3, <1>4, <1>5, <1>6, SMT DEF HasDigits

(* Twenty-four bits are three bytes, and four characters.                  *)
IsTriple(t, a, b, c)  == t = a * 65536 + b * 256 + c
HasBytes(t, a, b, c)  ==
    t \div 65536 = a /\ (t \div 256) % 256 = b /\ t % 256 = c

(* The bytes are what division takes out.                                  *)
LEMMA ThreeBytes ==
    \A t \in Int : \A a, b, c \in 0 .. 255 :
        IsTriple(t, a, b, c) => HasBytes(t, a, b, c)
<1> SUFFICES ASSUME NEW t \in Int, NEW a \in 0 .. 255, NEW b \in 0 .. 255,
                    NEW c \in 0 .. 255, IsTriple(t, a, b, c)
             PROVE  HasBytes(t, a, b, c)
  BY Zenon
<1>0. t = a * 65536 + b * 256 + c
  BY SMT DEF IsTriple
<1>1. t \div 65536 = a
  BY <1>0, SMT
<1>2. t \div 256 = a * 256 + b
  BY <1>0, SMT
<1>3. (a * 256 + b) % 256 = b
  BY SMT
<1>4. t % 256 = c
  BY <1>0, SMT
<1>5. QED
  BY <1>1, <1>2, <1>3, <1>4, SMT DEF HasBytes

Regroups(t, b, c) ==
    \E q1, q2, q3, q4 \in 0 .. 63 :
       /\ IsQuad(t, q1, q2, q3, q4) /\ HasDigits(t, q1, q2, q3, q4)
       /\ c = 0 => q4 = 0
       /\ b = 0 /\ c = 0 => q3 = 0

(* Bytes that are not there leave zero bits, in characters that are not    *)
(* written.                                                                *)
LEMMA Regrouped ==
    \A t \in Int : \A a, b, c \in 0 .. 255 : IsTriple(t, a, b, c) => Regroups(t, b, c)
<1> SUFFICES ASSUME NEW t \in Int, NEW a \in 0 .. 255, NEW b \in 0 .. 255,
                    NEW c \in 0 .. 255, IsTriple(t, a, b, c)
             PROVE  Regroups(t, b, c)
  BY Zenon
<1>1. /\ a \div 4 \in 0 .. 63 /\ a % 4 \in 0 .. 3 /\ a = 4 * (a \div 4) + (a % 4)
      /\ b \div 16 \in 0 .. 15 /\ b % 16 \in 0 .. 15 /\ b = 16 * (b \div 16) + (b % 16)
      /\ c \div 64 \in 0 .. 3 /\ c % 64 \in 0 .. 63 /\ c = 64 * (c \div 64) + (c % 64)
  BY SMT
<1>2. PICK a1 \in 0 .. 63, a0 \in 0 .. 3 : a = 4 * a1 + a0
  BY <1>1, SMT
<1>3. PICK b1 \in 0 .. 15, b0 \in 0 .. 15 : b = 16 * b1 + b0
  BY <1>1, SMT
<1>4. PICK c1 \in 0 .. 3, c0 \in 0 .. 63 : c = 64 * c1 + c0
  BY <1>1, SMT
<1>5. PICK q2 \in 0 .. 63 : q2 = 16 * a0 + b1
  BY SMT
<1>6. PICK q3 \in 0 .. 63 : q3 = 4 * b0 + c1
  BY SMT
<1>7. IsQuad(t, a1, q2, q3, c0)
  BY <1>2, <1>3, <1>4, <1>5, <1>6, SMT DEF IsQuad, IsTriple
<1>8. HasDigits(t, a1, q2, q3, c0)
  BY <1>7, FourDigits, Zenon
<1>9. ASSUME c = 0 PROVE c0 = 0
  BY <1>4, <1>9, SMT
<1>10. ASSUME b = 0, c = 0 PROVE q3 = 0
  BY <1>3, <1>4, <1>6, <1>10, SMT
<1>11. QED
  BY <1>7, <1>8, <1>9, <1>10, Zenon DEF Regroups

(* A group of one to three bytes is four characters, and back.             *)
GroupWell(g) ==
    LET e == encode_group(g)
    IN  /\ e \in Text /\ Len(e) = 4 /\ \A i \in 1 .. 4 : e[i] \notin Blank
        /\ Pads(e) = 3 - Len(g) /\ IsGroup(e, TRUE)
        /\ Len(g) = 3 => IsGroup(e, FALSE)
        /\ decode_group(e) = g

(* The first group of a text.                                              *)
LEMMA FirstOfThree ==
    ASSUME NEW g \in Text, Len(g) \in 1 .. 3, NEW a \in Byte, NEW b \in Byte, NEW c \in Byte,
           a = g[1], Len(g) >= 2 => b = g[2], Len(g) >= 3 => c = g[3]
    PROVE  SubSeq(<<a, b, c>>, 1, Len(g)) = g
<1>1. PICK s : s = <<a, b, c>>
  OBVIOUS
<1>2. s \in Seq(Byte) /\ Len(s) = 3 /\ s[1] = a /\ s[2] = b /\ s[3] = c
  BY <1>1
<1>0. PICK n \in 1 .. 3 : n = Len(g)
  OBVIOUS
<1>3. PICK k \in 1 .. 3 + 1 : k - 1 = n
  <2>1. n + 1 \in 1 .. 3 + 1 /\ (n + 1) - 1 = n
    OBVIOUS
  <2>2. QED
    BY <2>1
<1>4. k \in 1 .. Len(s) + 1 /\ k - 1 = Len(g) /\ Len(g) \in Nat
  BY <1>0, <1>2, <1>3
<1>5. /\ Before(s, k) \in Seq(Byte) /\ Len(Before(s, k)) = k - 1
      /\ \A i \in 1 .. k - 1 : Before(s, k)[i] = s[i]
  BY <1>2, <1>4, BeforeFacts
<1>6. g \in Seq(Byte)
  BY DEF Text
<1>7. ASSUME NEW i \in 1 .. Len(g) PROVE s[i] = g[i]
  <2>1. i = 1 \/ (i = 2 /\ Len(g) >= 2) \/ (i = 3 /\ Len(g) >= 3)
    OBVIOUS
  <2>2. QED
    BY <1>2, <2>1
<1>8. Before(s, k) = g
  BY <1>4, <1>5, <1>6, <1>7, SeqEqual
<1>9. SubSeq(s, 1, Len(g)) = Before(s, k)
  BY <1>4 DEF Before
<1>10. QED
  BY <1>1, <1>8, <1>9

(* Every group is encoded so.                                              *)
LEMMA GroupsWell ==
    ASSUME NEW g \in Text, Len(g) \in 1 .. 3 PROVE GroupWell(g)
<1>1. PICK n \in 1 .. 3 : n = Len(g)
  OBVIOUS
<1>2. g \in Seq(Byte) /\ 1 \in 1 .. Len(g)
  <2>1. 1 \in 1 .. n
    OBVIOUS
  <2>2. QED
    BY <1>1, <2>1 DEF Text
<1>3. PICK a \in Byte : a = g[1]
  BY <1>2, ElementOfSeq
<1>4. PICK b \in Byte : b = IF n >= 2 THEN g[2] ELSE 0
  <2>1. ASSUME n >= 2 PROVE g[2] \in Byte
    <3>1. 2 \in 1 .. Len(g)
      BY <1>1, <2>1
    <3>2. QED
      BY <1>2, <3>1, ElementOfSeq
  <2>2. 0 \in Byte
    BY DEF Byte
  <2>3. QED
    BY <2>1, <2>2
<1>5. PICK c \in Byte : c = IF n >= 3 THEN g[3] ELSE 0
  <2>1. ASSUME n >= 3 PROVE g[3] \in Byte
    <3>1. 3 \in 1 .. Len(g)
      BY <1>1, <2>1
    <3>2. QED
      BY <1>2, <3>1, ElementOfSeq
  <2>2. 0 \in Byte
    BY DEF Byte
  <2>3. QED
    BY <2>1, <2>2
<1>6. PICK t \in Int : IsTriple(t, a, b, c)
  BY SMT DEF IsTriple, Byte
<1>7. a \in 0 .. 255 /\ b \in 0 .. 255 /\ c \in 0 .. 255
  BY DEF Byte
<1>8. PICK q1, q2, q3, q4 \in 0 .. 63 :
        /\ IsQuad(t, q1, q2, q3, q4) /\ HasDigits(t, q1, q2, q3, q4)
        /\ c = 0 => q4 = 0
        /\ b = 0 /\ c = 0 => q3 = 0
  <2>1. Regroups(t, b, c)
    BY <1>6, <1>7, Regrouped, Zenon
  <2>2. QED
    BY <2>1, Zenon DEF Regroups
<1>9. HasBytes(t, a, b, c)
  BY <1>6, <1>7, ThreeBytes, Zenon
<1>10. PICK e : e = encode_group(g)
  OBVIOUS
<1>11. e = <<ALPHA[q1], ALPHA[q2],
             IF n < 2 THEN Equals ELSE ALPHA[q3],
             IF n < 3 THEN Equals ELSE ALPHA[q4]>>
  <2>1. /\ a = IF 1 <= Len(g) THEN g[1] ELSE 0
        /\ b = IF 2 <= Len(g) THEN g[2] ELSE 0
        /\ c = IF 3 <= Len(g) THEN g[3] ELSE 0
    BY <1>1, <1>3, <1>4, <1>5
  <2>2. t = (IF 1 <= Len(g) THEN g[1] ELSE 0) * 65536
              + (IF 2 <= Len(g) THEN g[2] ELSE 0) * 256
              + (IF 3 <= Len(g) THEN g[3] ELSE 0)
    BY <1>6, <2>1, SMT DEF IsTriple
  <2>3. encode_group(g) =
          <<ALPHA[t \div 262144], ALPHA[(t \div 4096) % 64],
            IF Len(g) < 2 THEN Equals ELSE ALPHA[(t \div 64) % 64],
            IF Len(g) < 3 THEN Equals ELSE ALPHA[t % 64]>>
    BY <2>2, SMT DEF encode_group
  <2>4. /\ ALPHA[t \div 262144] = ALPHA[q1] /\ ALPHA[(t \div 4096) % 64] = ALPHA[q2]
        /\ ALPHA[(t \div 64) % 64] = ALPHA[q3] /\ ALPHA[t % 64] = ALPHA[q4]
    BY <1>8, SMT DEF HasDigits
  <2>5. QED
    BY <1>1, <1>10, <2>3, <2>4, SMT
<1>12. PICK d1 : d1 = ALPHA[q1]
  OBVIOUS
<1>13. PICK d2 : d2 = ALPHA[q2]
  OBVIOUS
<1>14. PICK d3 : d3 = IF n < 2 THEN Equals ELSE ALPHA[q3]
  OBVIOUS
<1>15. PICK d4 : d4 = IF n < 3 THEN Equals ELSE ALPHA[q4]
  OBVIOUS
<1>16. /\ d1 \in Byte /\ d1 \in Alphabet /\ d1 # Equals /\ d1 \notin Blank
       /\ b64_value[d1] = q1
  BY <1>12, SixBits
<1>17. /\ d2 \in Byte /\ d2 \in Alphabet /\ d2 # Equals /\ d2 \notin Blank
       /\ b64_value[d2] = q2
  BY <1>13, SixBits
<1>e. Equals \in Byte /\ Equals \notin Blank
  BY DEF Equals, Byte, Blank, Space
<1>18. /\ d3 \in Byte /\ d3 \notin Blank
       /\ IF n < 2 THEN d3 = Equals
                   ELSE d3 # Equals /\ d3 \in Alphabet /\ b64_value[d3] = q3
  BY <1>14, <1>e, SixBits
<1>19. /\ d4 \in Byte /\ d4 \notin Blank
       /\ IF n < 3 THEN d4 = Equals
                   ELSE d4 # Equals /\ d4 \in Alphabet /\ b64_value[d4] = q4
  BY <1>15, <1>e, SixBits
<1>20. e = <<d1, d2, d3, d4>>
  BY <1>11, <1>12, <1>13, <1>14, <1>15
<1>21. e \in Seq(Byte) /\ Len(e) = 4 /\ e[1] = d1 /\ e[2] = d2 /\ e[3] = d3 /\ e[4] = d4
  BY <1>16, <1>17, <1>18, <1>19, <1>20
<1>22. \A i \in 1 .. 4 : e[i] \notin Blank
  BY <1>16, <1>17, <1>18, <1>19, <1>21
<1>23. Pads(e) = 3 - n
  BY <1>18, <1>19, <1>21 DEF Pads
<1>24. \A i \in 1 .. 4 - Pads(e) : e[i] \in Alphabet
  <2>1. SUFFICES ASSUME NEW i \in 1 .. n + 1 PROVE e[i] \in Alphabet
    BY <1>23
  <2>2. i = 1 \/ i = 2 \/ (i = 3 /\ ~(n < 2)) \/ (i = 4 /\ ~(n < 3))
    OBVIOUS
  <2>3. QED
    BY <1>16, <1>17, <1>18, <1>19, <1>21, <2>2
<1>25. IsGroup(e, TRUE) /\ (n = 3 => IsGroup(e, FALSE))
  BY <1>23, <1>24 DEF IsGroup
<1>26. /\ q1 = IF e[1] = Equals THEN 0 ELSE b64_value[e[1]]
       /\ q2 = IF e[2] = Equals THEN 0 ELSE b64_value[e[2]]
       /\ q3 = IF e[3] = Equals THEN 0 ELSE b64_value[e[3]]
       /\ q4 = IF e[4] = Equals THEN 0 ELSE b64_value[e[4]]
  <2>1. n < 3 => c = 0
    BY <1>5
  <2>2. n < 2 => b = 0 /\ c = 0
    BY <1>4, <1>5
  <2>3. QED
    BY <1>8, <1>16, <1>17, <1>18, <1>19, <1>21, <2>1, <2>2
<1>27. decode_group(e) = SubSeq(<<t \div 65536, (t \div 256) % 256, t % 256>>, 1, 3 - Pads(e))
  BY <1>8, <1>26, SMT DEF decode_group, IsQuad
<1>28. decode_group(e) = SubSeq(<<a, b, c>>, 1, n)
  <2>1. 3 - Pads(e) = n
    BY <1>23
  <2>2. QED
    BY <1>9, <1>27, <2>1, SMT DEF HasBytes
<1>29. decode_group(e) = g
  <2>1. (Len(g) >= 2 => b = g[2]) /\ (Len(g) >= 3 => c = g[3])
    BY <1>1, <1>4, <1>5
  <2>2. QED
    BY <1>1, <1>3, <1>28, <2>1, FirstOfThree
<1>30. QED
  BY <1>1, <1>10, <1>21, <1>22, <1>23, <1>25, <1>29 DEF GroupWell, Text

(* The first k of a text, and the rest.                                    *)
LEMMA FirstOf ==
    ASSUME NEW s \in Text, NEW k \in Nat \ {0}, k <= Len(s)
    PROVE  /\ SubSeq(s, 1, k) \in Text /\ Len(SubSeq(s, 1, k)) = k
           /\ s = SubSeq(s, 1, k) \o After(s, k)
<1>1. s \in Seq(Byte) /\ Len(s) \in Nat
  BY DEF Text
<1>2. k + 1 \in 1 .. Len(s) + 1 /\ (k + 1) - 1 = k
  BY <1>1
<1>3. /\ Before(s, k + 1) \in Seq(Byte) /\ Len(Before(s, k + 1)) = (k + 1) - 1
  BY <1>1, <1>2, BeforeFacts
<1>4. Before(s, k + 1) = SubSeq(s, 1, k)
  BY <1>2 DEF Before
<1>5. SubSeq(s, 1, k) \o SubSeq(s, k + 1, Len(s)) = SubSeq(s, 1, Len(s))
  <2>1. 1 \in 1 .. Len(s) + 1 /\ k \in 1 - 1 .. Len(s) /\ Len(s) \in k .. Len(s)
    BY <1>1
  <2>2. QED
    BY <1>1, <2>1, ConcatAdjacentSubSeq
<1>6. SubSeq(s, 1, Len(s)) = s
  BY <1>1, SubSeqFull
<1>7. QED
  BY <1>2, <1>3, <1>4, <1>5, <1>6 DEF After, Text

EncodedOf(s, f) ==
    IF s = <<>> THEN <<>>
    ELSE IF Len(s) < 3 THEN encode_group(s)
    ELSE encode_group(SubSeq(s, 1, 3)) \o f[After(s, 3)]

(* Lengths as the conditions of the loops ask for them.                    *)
LEMMA LengthFacts ==
    ASSUME NEW s \in Text
    PROVE  /\ Len(s) \in Nat
           /\ s # <<>> /\ Len(s) < 3 => Len(s) \in 1 .. 3
           /\ ~(Len(s) < 3) => 3 <= Len(s)
           /\ ~(Len(s) < 4) => 4 <= Len(s)
<1>1. PICK n \in Nat : n = Len(s) /\ (s # <<>> => n # 0)
  BY EmptySeq DEF Text
<1>2. /\ n # 0 /\ n < 3 => n \in 1 .. 3
      /\ ~(n < 3) => 3 <= n
      /\ ~(n < 4) => 4 <= n
  OBVIOUS
<1>3. QED
  BY <1>1, <1>2

(* encode_base64 is what its definition says.                              *)
LEMMA EncodedEquation == \A s \in Text : encode_base64[s] = EncodedOf(s, encode_base64)
<1>1. ASSUME NEW s \in Text, NEW f \in [Text -> Text]
      PROVE  EncodedOf(s, f) \in Text
  <2>1. CASE s = <<>>
    BY <2>1 DEF EncodedOf
  <2>2. CASE s # <<>> /\ Len(s) < 3
    <3>1. Len(s) \in 1 .. 3
      BY <2>2, LengthFacts
    <3>2. encode_group(s) \in Text
      BY <3>1, GroupsWell DEF GroupWell
    <3>3. QED
      BY <2>2, <3>2 DEF EncodedOf
  <2>3. CASE s # <<>> /\ ~(Len(s) < 3)
    <3>1. PICK g : g = SubSeq(s, 1, 3)
      OBVIOUS
    <3>2. g \in Text /\ Len(g) = 3 /\ After(s, 3) \in Text
      BY <2>3, <3>1, LengthFacts, FirstOf, AfterText
    <3>3. Len(g) \in 1 .. 3
      BY <3>2
    <3>4. encode_group(g) \in Text
      BY <3>2, <3>3, GroupsWell DEF GroupWell
    <3>5. encode_group(g) \in Seq(Byte) /\ f[After(s, 3)] \in Seq(Byte)
      BY <3>2, <3>4 DEF Text
    <3>6. encode_group(g) \o f[After(s, 3)] \in Text
      BY <3>5, ConcatProperties DEF Text
    <3>7. QED
      BY <2>3, <3>1, <3>6 DEF EncodedOf
  <2>4. QED
    BY <2>1, <2>2, <2>3
<1>2. ASSUME NEW s \in Text, NEW f \in [Text -> Text], NEW g \in [Text -> Text],
             \A u \in Text : Len(u) < Len(s) => f[u] = g[u]
      PROVE  EncodedOf(s, f) = EncodedOf(s, g)
  <2>1. CASE s = <<>> \/ Len(s) < 3
    BY <2>1 DEF EncodedOf
  <2>2. CASE s # <<>> /\ ~(Len(s) < 3)
    <3>1. f[After(s, 3)] = g[After(s, 3)]
      BY <1>2, <2>2, LengthFacts, AfterText
    <3>2. QED
      BY <2>2, <3>1 DEF EncodedOf
  <2>3. QED
    BY <2>1, <2>2
<1>3. PICK V : V = Text
  OBVIOUS
<1>4. PICK H : H = [s \in Text |-> [f \in [Text -> V] |-> EncodedOf(s, f)]]
  OBVIOUS
<1>5. ASSUME NEW s \in Text, NEW f \in [Text -> V] PROVE H[s][f] = EncodedOf(s, f)
  BY <1>4
<1>6. Shortens(H, V)
  <2>1. V # {}
    <3>1. <<>> \in V
      BY <1>3, EmptySeq DEF Text
    <3>2. QED
      BY <3>1
  <2>2. ASSUME NEW s \in Text, NEW f \in [Text -> V], NEW g \in [Text -> V]
        PROVE  /\ H[s][f] \in V
               /\ (\A u \in Text : Len(u) < Len(s) => f[u] = g[u]) => H[s][f] = H[s][g]
    <3>1. H[s][f] = EncodedOf(s, f) /\ H[s][g] = EncodedOf(s, g)
      BY <1>5
    <3>2. f \in [Text -> Text] /\ g \in [Text -> Text]
      BY <1>3
    <3>3. EncodedOf(s, f) \in V
      BY <1>1, <1>3, <3>2
    <3>4. (\A u \in Text : Len(u) < Len(s) => f[u] = g[u])
             => EncodedOf(s, f) = EncodedOf(s, g)
      BY <1>2, <3>2
    <3>5. QED
      BY <3>1, <3>3, <3>4
  <2>3. QED
    BY <2>1, <2>2 DEF Shortens
<1>7. PICK f : Solves(f, H, Text, V)
  BY <1>6, TextRecursion
<1>8. f = [s \in Text |-> EncodedOf(s, f)]
  BY <1>5, <1>7 DEF Solves
<1>9. encode_base64 = [s \in Text |-> EncodedOf(s, encode_base64)]
  BY <1>8 DEF encode_base64, EncodedOf
<1>10. QED
  BY <1>9

UngroupedOf(s, f) ==
    IF s = <<>> THEN Ok(<<>>)
    ELSE IF Len(s) < 4 \/ ~IsGroup(SubSeq(s, 1, 4), Len(s) = 4) THEN Invalid
    ELSE Then(decode_group(SubSeq(s, 1, 4)), f[After(s, 4)])

(* The value of a character is six bits.                                   *)
LEMMA SixBitsBack == \A c \in Alphabet : b64_value[c] \in 0 .. 63
<1> SUFFICES ASSUME NEW c \in Alphabet PROVE b64_value[c] \in 0 .. 63
  OBVIOUS
<1>1. b64_value[c] = CASE c \in Upper -> c - 65
                       [] c \in Letter \ Upper -> c - 71
                       [] c \in Digit -> c + 4
                       [] c = Plus -> 62
                       [] c = Slash -> 63
  BY DEF b64_value
<1>2. CASE c \in Upper
  <2>1. c \notin Letter \ Upper /\ c \notin Digit /\ c # Plus /\ c # Slash
    BY <1>2 DEF Upper, Digit, Plus, Slash
  <2>2. QED
    BY <1>1, <1>2, <2>1 DEF Upper
<1>3. CASE c \in Letter \ Upper
  <2>1. c \in 97 .. 122 /\ c \notin Digit /\ c # Plus /\ c # Slash
    BY <1>3 DEF Letter, Digit, Plus, Slash
  <2>2. QED
    BY <1>1, <1>3, <2>1
<1>4. CASE c \in Digit
  <2>1. c \notin Upper /\ c \notin Letter /\ c # Plus /\ c # Slash
    BY <1>4 DEF Letter, Upper, Digit, Plus, Slash
  <2>2. QED
    BY <1>1, <1>4, <2>1 DEF Digit
<1>5. CASE c = Plus
  <2>1. c \notin Upper /\ c \notin Letter /\ c \notin Digit /\ c # Slash
    BY <1>5 DEF Letter, Upper, Digit, Plus, Slash
  <2>2. QED
    BY <1>1, <1>5, <2>1
<1>6. CASE c = Slash
  <2>1. c \notin Upper /\ c \notin Letter /\ c \notin Digit /\ c # Plus
    BY <1>6 DEF Letter, Upper, Digit, Plus, Slash
  <2>2. QED
    BY <1>1, <1>6, <2>1
<1>7. QED
  BY <1>2, <1>3, <1>4, <1>5, <1>6 DEF Alphabet

AreBytes(t) == {t \div 65536, (t \div 256) % 256, t % 256} \subseteq Byte

(* Four values of six bits are three bytes.                                *)
LEMMA QuadBytes ==
    \A q1, q2, q3, q4 \in 0 .. 63 : \A t \in Int :
        IsQuad(t, q1, q2, q3, q4) => AreBytes(t)
<1> SUFFICES ASSUME NEW q1 \in 0 .. 63, NEW q2 \in 0 .. 63, NEW q3 \in 0 .. 63,
                    NEW q4 \in 0 .. 63, NEW t \in Int, IsQuad(t, q1, q2, q3, q4)
             PROVE  AreBytes(t)
  BY Zenon
<1>1. t = q1 * 262144 + q2 * 4096 + q3 * 64 + q4
  BY SMT DEF IsQuad
<1>2. t >= 0 /\ t <= 16777215
  BY <1>1, SMT
<1>3. t \div 65536 \in 0 .. 255
  BY <1>2, SMT
<1>4. (t \div 256) % 256 \in 0 .. 255 /\ t % 256 \in 0 .. 255
  BY <1>2, SMT
<1>5. QED
  BY <1>3, <1>4, SMT DEF AreBytes, Byte

(* A group is decoded to bytes.                                            *)
LEMMA UngroupedText ==
    ASSUME NEW g \in Text, Len(g) = 4, NEW last, IsGroup(g, last)
    PROVE  decode_group(g) \in Text
<1>1. PICK n \in 1 .. 3 : n = 3 - Pads(g)
  BY DEF Pads
<1>2. \A i \in 1 .. n + 1 : g[i] \in Alphabet
  <2>1. 4 - Pads(g) = n + 1
    BY <1>1 DEF Pads
  <2>2. QED
    BY <2>1 DEF IsGroup
<1>3. PICK q1 \in 0 .. 63 : q1 = IF g[1] = Equals THEN 0 ELSE b64_value[g[1]]
  <2>1. g[1] \in Alphabet
    BY <1>2
  <2>2. QED
    BY <2>1, SixBitsBack
<1>4. PICK q2 \in 0 .. 63 : q2 = IF g[2] = Equals THEN 0 ELSE b64_value[g[2]]
  <2>1. g[2] \in Alphabet
    BY <1>2
  <2>2. QED
    BY <2>1, SixBitsBack
<1>5. PICK q3 \in 0 .. 63 : q3 = IF g[3] = Equals THEN 0 ELSE b64_value[g[3]]
  <2>1. g[3] = Equals \/ g[3] \in Alphabet
    <3>1. g[4] # Equals => n = 3
      BY <1>1 DEF Pads
    <3>2. g[4] = Equals /\ g[3] # Equals => n = 2
      BY <1>1 DEF Pads
    <3>3. g[3] = Equals \/ 3 \in 1 .. n + 1
      BY <3>1, <3>2
    <3>4. QED
      BY <1>2, <3>3
  <2>2. QED
    BY <2>1, SixBitsBack
<1>6. PICK q4 \in 0 .. 63 : q4 = IF g[4] = Equals THEN 0 ELSE b64_value[g[4]]
  <2>1. g[4] = Equals \/ g[4] \in Alphabet
    <3>1. g[4] # Equals => n = 3
      BY <1>1 DEF Pads
    <3>2. g[4] = Equals \/ 4 \in 1 .. n + 1
      BY <3>1
    <3>3. QED
      BY <1>2, <3>2
  <2>2. QED
    BY <2>1, SixBitsBack
<1>7. PICK t \in Int : IsQuad(t, q1, q2, q3, q4)
  BY SMT DEF IsQuad
<1>8. PICK x \in Byte, y \in Byte, z \in Byte :
        x = t \div 65536 /\ y = (t \div 256) % 256 /\ z = t % 256
  <2>1. AreBytes(t)
    BY <1>7, QuadBytes, Zenon
  <2>2. QED
    BY <2>1, SMT DEF AreBytes
<1>9. decode_group(g) = SubSeq(<<t \div 65536, (t \div 256) % 256, t % 256>>, 1, 3 - Pads(g))
  BY <1>3, <1>4, <1>5, <1>6, <1>7, SMT DEF decode_group, IsQuad
<1>10. decode_group(g) = SubSeq(<<x, y, z>>, 1, n)
  BY <1>1, <1>8, <1>9, SMT
<1>11. <<x, y, z>> \in Text /\ Len(<<x, y, z>>) = 3
  BY DEF Text
<1>12. SubSeq(<<x, y, z>>, 1, n) \in Text
  <2>1. PICK s : s = <<x, y, z>>
    OBVIOUS
  <2>2. s \in Text /\ n \in Nat \ {0} /\ n <= Len(s)
    BY <1>11, <2>1
  <2>3. SubSeq(s, 1, n) \in Text
    BY <2>2, FirstOf
  <2>4. QED
    BY <2>1, <2>3
<1>13. QED
  BY <1>10, <1>12

(* One step of decode_groups.                                              *)
Grouped(s) == s # <<>> /\ ~(Len(s) < 4) /\ IsGroup(SubSeq(s, 1, 4), Len(s) = 4)

(* Such a step takes bytes out of a text and leaves a shorter one.         *)
LEMMA GroupedFacts ==
    ASSUME NEW s \in Text, Grouped(s)
    PROVE  /\ decode_group(SubSeq(s, 1, 4)) \in Text
           /\ After(s, 4) \in Text /\ Len(After(s, 4)) < Len(s)
<1>1. 4 <= Len(s)
  BY LengthFacts DEF Grouped
<1>2. SubSeq(s, 1, 4) \in Text /\ Len(SubSeq(s, 1, 4)) = 4
  BY <1>1, FirstOf
<1>3. decode_group(SubSeq(s, 1, 4)) \in Text
  BY <1>2, UngroupedText DEF Grouped
<1>4. After(s, 4) \in Text /\ Len(After(s, 4)) < Len(s)
  BY <1>1, AfterText
<1>5. QED
  BY <1>3, <1>4

(* decode_groups, by its steps.                                            *)
LEMMA UngroupedSteps ==
    ASSUME NEW s, NEW f
    PROVE  UngroupedOf(s, f) =
             IF s = <<>> THEN Ok(<<>>)
             ELSE IF Grouped(s) THEN Then(decode_group(SubSeq(s, 1, 4)), f[After(s, 4)])
             ELSE Invalid
BY DEF UngroupedOf, Grouped

(* The empty text.                                                         *)
LEMMA EmptyText == <<>> \in Text
BY EmptySeq DEF Text

(* decode_groups is what its definition says.                              *)
LEMMA UngroupedEquation ==
    \A s \in Text : decode_groups[s] = UngroupedOf(s, decode_groups)
<1>1. ASSUME NEW s \in Text, NEW f \in [Text -> Bytes]
      PROVE  UngroupedOf(s, f) \in Bytes
  <2>1. CASE Grouped(s)
    <3>1. f[After(s, 4)] \in Bytes /\ decode_group(SubSeq(s, 1, 4)) \in Text
      BY <2>1, GroupedFacts
    <3>2. s # <<>>
      BY <2>1 DEF Grouped
    <3>3. QED
      BY <2>1, <3>1, <3>2, UngroupedSteps, BytesFacts
  <2>2. CASE ~Grouped(s)
    BY <2>2, UngroupedSteps, BytesFacts, EmptyText
  <2>3. QED
    BY <2>1, <2>2
<1>2. ASSUME NEW s \in Text, NEW f \in [Text -> Bytes], NEW g \in [Text -> Bytes],
             \A u \in Text : Len(u) < Len(s) => f[u] = g[u]
      PROVE  UngroupedOf(s, f) = UngroupedOf(s, g)
  <2>1. CASE Grouped(s)
    <3>1. f[After(s, 4)] = g[After(s, 4)]
      BY <1>2, <2>1, GroupedFacts
    <3>2. QED
      BY <2>1, <3>1, UngroupedSteps
  <2>2. CASE ~Grouped(s)
    BY <2>2, UngroupedSteps
  <2>3. QED
    BY <2>1, <2>2
<1>3. PICK V : V = Bytes
  OBVIOUS
<1>4. PICK H : H = [s \in Text |-> [f \in [Text -> V] |-> UngroupedOf(s, f)]]
  OBVIOUS
<1>5. ASSUME NEW s \in Text, NEW f \in [Text -> V] PROVE H[s][f] = UngroupedOf(s, f)
  BY <1>4
<1>6. Shortens(H, V)
  <2>1. V # {}
    BY <1>3, BytesFacts
  <2>2. ASSUME NEW s \in Text, NEW f \in [Text -> V], NEW g \in [Text -> V]
        PROVE  /\ H[s][f] \in V
               /\ (\A u \in Text : Len(u) < Len(s) => f[u] = g[u]) => H[s][f] = H[s][g]
    BY <1>1, <1>2, <1>3, <1>5
  <2>3. QED
    BY <2>1, <2>2 DEF Shortens
<1>7. PICK f : Solves(f, H, Text, V)
  BY <1>6, TextRecursion
<1>8. f = [s \in Text |-> UngroupedOf(s, f)]
  BY <1>5, <1>7 DEF Solves
<1>9. decode_groups = [s \in Text |-> UngroupedOf(s, decode_groups)]
  BY <1>8 DEF decode_groups, UngroupedOf
<1>10. QED
  BY <1>9

(* Groups are decoded to bytes or refused.                                 *)
LEMMA UngroupedTyped == \A s \in Text : decode_groups[s] \in Bytes
<1> DEFINE P == {s \in Text : decode_groups[s] \in Bytes}
<1>1. ASSUME NEW s \in Text,
             \A u \in Text : Len(u) < Len(s) => decode_groups[u] \in Bytes
      PROVE  decode_groups[s] \in Bytes
  <2>1. decode_groups[s] = UngroupedOf(s, decode_groups)
    BY UngroupedEquation
  <2>2. CASE Grouped(s)
    <3>1. decode_groups[After(s, 4)] \in Bytes /\ decode_group(SubSeq(s, 1, 4)) \in Text
      BY <1>1, <2>2, GroupedFacts
    <3>2. s # <<>>
      BY <2>2 DEF Grouped
    <3>3. QED
      BY <2>1, <2>2, <3>1, <3>2, UngroupedSteps, BytesFacts
  <2>3. CASE ~Grouped(s)
    BY <2>1, <2>3, UngroupedSteps, BytesFacts, EmptyText
  <2>4. QED
    BY <2>2, <2>3
<1>2. Settles(P)
  BY <1>1 DEF Settles
<1>3. Text \subseteq P
  <2> HIDE DEF P
  <2>1. QED
    BY <1>2, TextInduction
<1>4. QED
  BY <1>3

UnblankedOf(s, f) ==
    IF s = <<>> THEN <<>>
    ELSE (IF s[1] \in Blank THEN <<>> ELSE <<s[1]>>) \o f[Tail(s)]

(* WithoutBlanks is what its definition says.                              *)
LEMMA UnblankedEquation == \A s \in Text : WithoutBlanks[s] = UnblankedOf(s, WithoutBlanks)
<1>1. ASSUME NEW s \in Text, NEW f \in [Text -> Text]
      PROVE  UnblankedOf(s, f) \in Text
  <2>1. CASE s = <<>>
    BY <2>1 DEF UnblankedOf
  <2>2. CASE s # <<>>
    <3>1. s[1] \in Byte /\ Tail(s) \in Text
      BY <2>2, TailAfter
    <3>2. PICK h : h = IF s[1] \in Blank THEN <<>> ELSE <<s[1]>>
      OBVIOUS
    <3>3. h \in Seq(Byte)
      BY <3>1, <3>2, OneFacts, EmptySeq
    <3>4. f[Tail(s)] \in Seq(Byte)
      BY <3>1 DEF Text
    <3>5. h \o f[Tail(s)] \in Text
      BY <3>3, <3>4, ConcatProperties DEF Text
    <3>6. QED
      BY <2>2, <3>2, <3>5 DEF UnblankedOf
  <2>3. QED
    BY <2>1, <2>2
<1>2. ASSUME NEW s \in Text, NEW f \in [Text -> Text], NEW g \in [Text -> Text],
             \A u \in Text : Len(u) < Len(s) => f[u] = g[u]
      PROVE  UnblankedOf(s, f) = UnblankedOf(s, g)
  <2>1. CASE s = <<>>
    BY <2>1 DEF UnblankedOf
  <2>2. CASE s # <<>>
    <3>1. f[Tail(s)] = g[Tail(s)]
      BY <1>2, <2>2, TailAfter
    <3>2. QED
      BY <2>2, <3>1 DEF UnblankedOf
  <2>3. QED
    BY <2>1, <2>2
<1>3. PICK V : V = Text
  OBVIOUS
<1>4. PICK H : H = [s \in Text |-> [f \in [Text -> V] |-> UnblankedOf(s, f)]]
  OBVIOUS
<1>5. ASSUME NEW s \in Text, NEW f \in [Text -> V] PROVE H[s][f] = UnblankedOf(s, f)
  BY <1>4
<1>6. Shortens(H, V)
  <2>1. V # {}
    BY <1>3, EmptyText
  <2>2. ASSUME NEW s \in Text, NEW f \in [Text -> V], NEW g \in [Text -> V]
        PROVE  /\ H[s][f] \in V
               /\ (\A u \in Text : Len(u) < Len(s) => f[u] = g[u]) => H[s][f] = H[s][g]
    <3>1. H[s][f] = UnblankedOf(s, f) /\ H[s][g] = UnblankedOf(s, g)
      BY <1>5
    <3>2. f \in [Text -> Text] /\ g \in [Text -> Text]
      BY <1>3
    <3>3. UnblankedOf(s, f) \in V
      BY <1>1, <1>3, <3>2
    <3>4. (\A u \in Text : Len(u) < Len(s) => f[u] = g[u])
             => UnblankedOf(s, f) = UnblankedOf(s, g)
      BY <1>2, <3>2
    <3>5. QED
      BY <3>1, <3>3, <3>4
  <2>3. QED
    BY <2>1, <2>2 DEF Shortens
<1>7. PICK f : Solves(f, H, Text, V)
  BY <1>6, TextRecursion
<1>8. f = [s \in Text |-> UnblankedOf(s, f)]
  BY <1>5, <1>7 DEF Solves
<1>9. WithoutBlanks = [s \in Text |-> UnblankedOf(s, WithoutBlanks)]
  BY <1>8 DEF WithoutBlanks, UnblankedOf
<1>10. QED
  BY <1>9

Blankless(s) == \A i \in 1 .. Len(s) : s[i] \notin Blank
UnblankedWell(s) ==
    WithoutBlanks[s] \in Text /\ (Blankless(s) => WithoutBlanks[s] = s)

(* Blanks are taken out, and nothing else is: by induction on the length.  *)
LEMMA UnblanksWell == \A s \in Text : UnblankedWell(s)
<1> DEFINE P == {s \in Text : UnblankedWell(s)}
<1>1. ASSUME NEW s \in Text, \A u \in Text : Len(u) < Len(s) => UnblankedWell(u)
      PROVE  UnblankedWell(s)
  <2>1. WithoutBlanks[s] = UnblankedOf(s, WithoutBlanks)
    BY UnblankedEquation
  <2>2. CASE s = <<>>
    BY <2>1, <2>2, EmptyText DEF UnblankedOf, UnblankedWell
  <2>3. CASE s # <<>>
    <3>1. PICK b : b = s[1]
      OBVIOUS
    <3>2. PICK t : t = Tail(s)
      OBVIOUS
    <3>3. /\ b \in Byte /\ t \in Text /\ Len(t) < Len(s) /\ s = <<b>> \o t
      BY <2>3, <3>1, <3>2, TailAfter
    <3>4. PICK v : v = WithoutBlanks[t]
      OBVIOUS
    <3>5. v \in Text /\ (Blankless(t) => v = t)
      BY <1>1, <3>3, <3>4 DEF UnblankedWell
    <3>6. PICK h : h = IF b \in Blank THEN <<>> ELSE <<b>>
      OBVIOUS
    <3>7. WithoutBlanks[s] = h \o v
      BY <2>1, <2>3, <3>1, <3>2, <3>4, <3>6 DEF UnblankedOf
    <3>8. h \in Seq(Byte)
      BY <3>3, <3>6, OneFacts, EmptySeq
    <3>9. h \o v \in Text
      BY <3>5, <3>8, ConcatProperties DEF Text
    <3>10. ASSUME Blankless(s) PROVE h \o v = s
      <4>1. /\ Len(s) = Len(t) + 1 /\ s[1] = b
            /\ \A i \in 1 .. Len(t) : s[i + 1] = t[i]
        BY <3>3, ConsFacts DEF Text
      <4>2. Len(t) \in Nat
        BY <3>3 DEF Text
      <4>3. b \notin Blank
        <5>1. 1 \in 1 .. Len(s)
          BY <4>1, <4>2
        <5>2. QED
          BY <3>1, <3>10, <5>1 DEF Blankless
      <4>4. Blankless(t)
        <5>1. ASSUME NEW i \in 1 .. Len(t) PROVE t[i] \notin Blank
          <6>1. i + 1 \in 1 .. Len(s)
            BY <4>1, <4>2
          <6>2. QED
            BY <3>10, <4>1, <6>1 DEF Blankless
        <5>2. QED
          BY <5>1 DEF Blankless
      <4>5. QED
        BY <3>3, <3>5, <3>6, <4>3, <4>4
    <3>11. QED
      BY <3>7, <3>9, <3>10 DEF UnblankedWell
  <2>4. QED
    BY <2>2, <2>3
<1>2. Settles(P)
  BY <1>1 DEF Settles
<1>3. Text \subseteq P
  <2> HIDE DEF P
  <2>1. QED
    BY <1>2, TextInduction
<1>4. QED
  BY <1>3

(* A payload is decoded to bytes or refused.                               *)
LEMMA Base64Typed == \A s \in Text : decode_base64(s) \in Bytes
BY UnblanksWell, UngroupedTyped DEF UnblankedWell, decode_base64

(* What is encoded is decoded to what it was.                              *)
EncodedWell(s) ==
    /\ encode_base64[s] \in Text /\ Blankless(encode_base64[s])
    /\ decode_groups[encode_base64[s]] = Ok(s)

(* Every text is encoded so: by induction on its length.                   *)
LEMMA EncodesWell == \A s \in Text : EncodedWell(s)
<1> DEFINE P == {s \in Text : EncodedWell(s)}
<1>1. ASSUME NEW s \in Text, \A u \in Text : Len(u) < Len(s) => EncodedWell(u)
      PROVE  EncodedWell(s)
  <2>1. encode_base64[s] = EncodedOf(s, encode_base64)
    BY EncodedEquation
  <2>0. decode_groups[<<>>] = Ok(<<>>)
    BY UngroupedEquation, EmptyText DEF UngroupedOf
  <2>e. Len(<<>>) = 0 /\ \A i \in 1 .. 0 : FALSE
    OBVIOUS
  <2>2. CASE s = <<>>
    <3>1. encode_base64[s] = <<>>
      BY <2>1, <2>2 DEF EncodedOf
    <3>2. Blankless(<<>>)
      BY <2>e DEF Blankless
    <3>3. QED
      BY <2>0, <2>2, <3>1, <3>2, EmptyText DEF EncodedWell
  <2>3. ASSUME NEW g \in Text, NEW v \in Text, NEW r \in Text,
               Len(g) \in 1 .. 3, Len(g) = 3 \/ v = <<>>,
               Blankless(v), decode_groups[v] = Ok(r)
        PROVE  LET u == encode_group(g) \o v
               IN  u \in Text /\ Blankless(u) /\ decode_groups[u] = Ok(g \o r)
    <3>1. PICK e : e = encode_group(g)
      OBVIOUS
    <3>2. /\ e \in Text /\ Len(e) = 4 /\ \A i \in 1 .. 4 : e[i] \notin Blank
          /\ IsGroup(e, TRUE) /\ (Len(g) = 3 => IsGroup(e, FALSE))
          /\ decode_group(e) = g
      BY <2>3, <3>1, GroupsWell DEF GroupWell
    <3>3. PICK u : u = e \o v
      OBVIOUS
    <3>4. /\ e \in Seq(Byte) /\ v \in Seq(Byte) /\ Len(v) \in Nat
      BY <3>2 DEF Text
    <3>5. /\ u \in Seq(Byte) /\ Len(u) = Len(e) + Len(v)
          /\ \A i \in 1 .. Len(e) + Len(v) :
                u[i] = IF i <= Len(e) THEN e[i] ELSE v[i - Len(e)]
      BY <3>3, <3>4, ConcatProperties
    <3>6. After(u, 4) = v
      BY <3>2, <3>3, <3>4, ConcatApart
    <3>7. SubSeq(u, 1, 4) = e
      <4>1. Before(u, Len(e) + 1) = e
        BY <3>3, <3>4, ConcatApart
      <4>2. Len(e) + 1 = 5
        BY <3>2
      <4>3. Before(u, 5) = e
        BY <4>1, <4>2
      <4>4. 5 - 1 = 4
        OBVIOUS
      <4>5. QED
        BY <4>3, <4>4 DEF Before
    <3>8. u # <<>> /\ ~(Len(u) < 4)
      BY <3>2, <3>4, <3>5
    <3>9. IsGroup(e, Len(u) = 4)
      <4>1. CASE v = <<>>
        <5>1. Len(u) = 4
          BY <2>e, <3>2, <3>5, <4>1
        <5>2. (Len(u) = 4) = TRUE
          BY <5>1
        <5>3. QED
          BY <3>2, <5>2
      <4>2. CASE Len(g) = 3
        BY <3>2, <4>2 DEF IsGroup
      <4>3. QED
        BY <2>3, <4>1, <4>2
    <3>10. Grouped(u)
      BY <3>7, <3>8, <3>9 DEF Grouped
    <3>11. u \in Text
      BY <3>5 DEF Text
    <3>12. decode_groups[u] = Then(g, Ok(r))
      <4>1. decode_groups[u] = UngroupedOf(u, decode_groups)
        BY <3>11, UngroupedEquation
      <4>2. decode_groups[u] = Then(decode_group(e), decode_groups[v])
        BY <3>6, <3>7, <3>8, <3>10, <4>1, UngroupedSteps
      <4>3. QED
        BY <2>3, <3>2, <4>2
    <3>13. decode_groups[u] = Ok(g \o r)
      BY <3>12, BytesFacts
    <3>14. Blankless(u)
      <4>1. ASSUME NEW i \in 1 .. Len(u) PROVE u[i] \notin Blank
        <5>1. CASE i <= 4
          <6>1. i \in 1 .. 4 /\ i \in 1 .. Len(e) + Len(v) /\ i <= Len(e)
            BY <3>2, <3>5, <5>1
          <6>2. QED
            BY <3>2, <3>5, <6>1
        <5>2. CASE ~(i <= 4)
          <6>1. /\ i \in 1 .. Len(e) + Len(v) /\ ~(i <= Len(e))
                /\ i - Len(e) \in 1 .. Len(v)
            BY <3>2, <3>4, <3>5, <5>2
          <6>2. QED
            BY <2>3, <3>5, <6>1 DEF Blankless
        <5>3. QED
          BY <5>1, <5>2
      <4>2. QED
        BY <4>1 DEF Blankless
    <3>15. QED
      BY <3>1, <3>3, <3>11, <3>13, <3>14
  <2>4. CASE s # <<>> /\ Len(s) < 3
    <3>1. Len(s) \in 1 .. 3
      BY <2>4, LengthFacts
    <3>2. encode_base64[s] = encode_group(s)
      BY <2>1, <2>4 DEF EncodedOf
    <3>3. Blankless(<<>>)
      BY <2>e DEF Blankless
    <3>4. PICK v : v = <<>>
      OBVIOUS
    <3>5. v \in Text /\ Blankless(v) /\ decode_groups[v] = Ok(v)
      BY <2>0, <3>3, <3>4, EmptyText
    <3>6. LET u == encode_group(s) \o v
          IN  u \in Text /\ Blankless(u) /\ decode_groups[u] = Ok(s \o v)
      BY <2>3, <3>1, <3>4, <3>5
    <3>7. s \o v = s
      BY <3>4, ConcatEmptySeq DEF Text
    <3>8. encode_group(s) \o v = encode_group(s)
      <4>1. encode_group(s) \in Seq(Byte)
        BY <3>1, GroupsWell DEF GroupWell, Text
      <4>2. QED
        BY <3>4, <4>1, ConcatEmptySeq
    <3>9. QED
      BY <3>2, <3>6, <3>7, <3>8 DEF EncodedWell
  <2>5. CASE s # <<>> /\ ~(Len(s) < 3)
    <3>1. PICK g : g = SubSeq(s, 1, 3)
      OBVIOUS
    <3>2. PICK r : r = After(s, 3)
      OBVIOUS
    <3>3. g \in Text /\ Len(g) = 3 /\ r \in Text /\ Len(r) < Len(s) /\ s = g \o r
      BY <2>5, <3>1, <3>2, LengthFacts, FirstOf, AfterText
    <3>4. PICK v : v = encode_base64[r]
      OBVIOUS
    <3>5. v \in Text /\ Blankless(v) /\ decode_groups[v] = Ok(r)
      BY <1>1, <3>3, <3>4 DEF EncodedWell
    <3>6. encode_base64[s] = encode_group(g) \o v
      BY <2>1, <2>5, <3>1, <3>2, <3>4 DEF EncodedOf
    <3>7. Len(g) \in 1 .. 3
      BY <3>3
    <3>8. QED
      BY <2>3, <3>3, <3>5, <3>6, <3>7 DEF EncodedWell
  <2>6. QED
    BY <2>2, <2>4, <2>5
<1>2. Settles(P)
  BY <1>1 DEF Settles
<1>3. Text \subseteq P
  <2> HIDE DEF P
  <2>1. QED
    BY <1>2, TextInduction
<1>4. QED
  BY <1>3

(* decode_base64 takes back encode_base64_into, for all bytes              *)
(* (data.rs:168-195, 279-341).                                             *)
THEOREM EncodedIsDecoded ==
    \A s \in Text : encode_base64[s] \in Text /\ decode_base64(encode_base64[s]) = Ok(s)
BY EncodesWell, UnblanksWell DEF EncodedWell, UnblankedWell, decode_base64

-----------------------------------------------------------------------------
(* data.rs: the whole URI.                                                 *)

(* A text starts like an authority only if what is before a byte that is   *)
(* no slash does.                                                          *)
LEMMA StartOf ==
    ASSUME NEW c \in Text, NEW v \in Text, v # <<>>, v[1] # Slash,
           IsPrefix(TwoSlashes, c \o v)
    PROVE  IsPrefix(TwoSlashes, c)
<1>1. PICK u : u = c \o v
  OBVIOUS
<1>2. PICK n : n = Len(c)
  OBVIOUS
<1>3. PICK m : m = Len(v)
  OBVIOUS
<1>4. c \in Seq(Byte) /\ v \in Seq(Byte) /\ n \in Nat /\ m \in Nat \ {0}
  BY <1>2, <1>3, EmptySeq DEF Text
<1>5. /\ u \in Seq(Byte) /\ Len(u) = n + m
      /\ \A i \in 1 .. n + m : u[i] = IF i <= n THEN c[i] ELSE v[i - n]
  BY <1>1, <1>2, <1>3, <1>4, ConcatProperties
<1>6. u \in Text
  BY <1>5 DEF Text
<1>7. u[1] = Slash /\ u[2] = Slash /\ Len(u) >= 2
  BY <1>1, <1>6, SlashesFacts
<1>8. n # 0
  <2>1. SUFFICES ASSUME n = 0 PROVE FALSE
    OBVIOUS
  <2>2. 1 \in 1 .. n + m /\ ~(1 <= n) /\ 1 - n = 1
    BY <1>4, <2>1
  <2>3. u[1] = v[1]
    BY <1>5, <2>2
  <2>4. QED
    BY <1>7, <2>3
<1>9. n # 1
  <2>1. SUFFICES ASSUME n = 1 PROVE FALSE
    OBVIOUS
  <2>2. 2 \in 1 .. n + m /\ ~(2 <= n) /\ 2 - n = 1
    BY <1>4, <2>1
  <2>3. u[2] = v[1]
    BY <1>5, <2>2
  <2>4. QED
    BY <1>7, <2>3
<1>10. n >= 2 /\ 1 \in 1 .. n + m /\ 2 \in 1 .. n + m /\ 1 <= n /\ 2 <= n
  BY <1>4, <1>8, <1>9
<1>11. c[1] = Slash /\ c[2] = Slash
  BY <1>5, <1>7, <1>10
<1>12. QED
  BY <1>2, <1>10, <1>11, SlashesFacts

(* The marker is lower case, and holds no comma.                           *)
LEMMA MarkerFacts ==
    /\ MARKER \in Text /\ MARKER # <<>> /\ MARKER[1] # Slash
    /\ ~Has(MARKER, Comma) /\ Len(MARKER) = 7
    /\ LowerCase(MARKER) = MARKER
<1>1. MARKER = <<59, 98, 97, 115, 101, 54, 52>>
  BY DEF MARKER, Semicolon
<1>2. MARKER \in Seq(Byte) /\ Len(MARKER) = 7 /\ MARKER # <<>>
  BY <1>1 DEF Byte
<1>3. DOMAIN MARKER = {1, 2, 3, 4, 5, 6, 7}
  BY <1>1
<1>4. \A i \in DOMAIN MARKER : MARKER[i] # Comma /\ Lower(MARKER[i]) = MARKER[i]
  BY <1>1, <1>3 DEF Comma, Lower, Upper
<1>5. MARKER[1] # Slash
  BY <1>1 DEF Slash
<1>6. ~Has(MARKER, Comma)
  BY <1>4 DEF Has
<1>7. LowerCase(MARKER) = MARKER
  <2>1. LowerCase(MARKER) = [i \in DOMAIN MARKER |-> MARKER[i]]
    BY <1>4 DEF LowerCase
  <2>2. QED
    BY <1>1, <1>2, <2>1
<1>8. QED
  BY <1>2, <1>5, <1>6, <1>7 DEF Text

(* What a header without its last characters is.                           *)
Unmarked(header) == SubSeq(header, 1, Len(header) - Len(MARKER))

(* The marker behind a media type is found, and taken off again.           *)
LEMMA MarkedFacts ==
    ASSUME NEW m \in Text
    PROVE  /\ m \o MARKER \in Text /\ ends_with_base64_marker(m \o MARKER)
           /\ Unmarked(m \o MARKER) = m
<1>1. PICK h : h = m \o MARKER
  OBVIOUS
<1>2. PICK n : n = Len(m)
  OBVIOUS
<1>3. m \in Seq(Byte) /\ MARKER \in Seq(Byte) /\ n \in Nat
  BY <1>2, MarkerFacts DEF Text
<1>4. h \in Seq(Byte) /\ Len(h) = n + 7
  <2>1. Len(MARKER) = 7
    BY MarkerFacts
  <2>2. h \in Seq(Byte) /\ Len(h) = Len(m) + Len(MARKER)
    BY <1>1, <1>3, ConcatProperties
  <2>3. QED
    BY <1>2, <2>1, <2>2
<1>5. After(h, n) = MARKER /\ Before(h, n + 1) = m
  BY <1>1, <1>2, <1>3, ConcatApart
<1>6. Len(h) - 7 = n /\ n + 1 - 1 = n /\ Len(h) >= 7
  BY <1>3, <1>4
<1>7. ends_with_base64_marker(h)
  BY <1>5, <1>6, MarkerFacts DEF ends_with_base64_marker, scheme_is
<1>8. Unmarked(h) = m
  <2>1. PICK k : k = n + 1
    OBVIOUS
  <2>2. Before(h, k) = m
    BY <1>5, <2>1
  <2>3. k - 1 = n
    BY <1>6, <2>1
  <2>4. SubSeq(h, 1, n) = m
    BY <2>2, <2>3 DEF Before
  <2>5. Len(h) - Len(MARKER) = n
    BY <1>6, MarkerFacts
  <2>6. QED
    BY <2>4, <2>5 DEF Unmarked
<1>9. QED
  BY <1>1, <1>4, <1>7, <1>8 DEF Text

(* What is left of a header holds nothing new.                             *)
LEMMA UnmarkedFacts ==
    ASSUME NEW h \in Text, ends_with_base64_marker(h), NEW c, ~Has(h, c)
    PROVE  Unmarked(h) \in Text /\ ~Has(Unmarked(h), c)
<1>1. PICK n : n = Len(h)
  OBVIOUS
<1>2. h \in Seq(Byte) /\ n \in Nat /\ n >= 7
  BY <1>1, MarkerFacts DEF Text, ends_with_base64_marker
<1>3. PICK k : k = n - 7
  OBVIOUS
<1>4. k \in Nat /\ k + 1 \in 1 .. n + 1 /\ k + 1 - 1 = k /\ k <= n
  BY <1>2, <1>3
<1>10. PICK j : j = k + 1
  OBVIOUS
<1>5. Unmarked(h) = Before(h, j)
  <2>1. j - 1 = k /\ Len(h) - Len(MARKER) = k
    BY <1>1, <1>3, <1>4, <1>10, MarkerFacts
  <2>2. QED
    BY <2>1 DEF Unmarked, Before
<1>6. PICK b : b = Unmarked(h)
  OBVIOUS
<1>7. b \in Seq(Byte) /\ Len(b) = k /\ \A i \in 1 .. k : b[i] = h[i]
  <2>1. j \in 1 .. Len(h) + 1 /\ j - 1 = k
    BY <1>1, <1>4, <1>10
  <2>2. /\ b \in Seq(Byte) /\ Len(b) = j - 1
        /\ \A i \in 1 .. j - 1 : b[i] = h[i]
    BY <1>2, <1>5, <1>6, <2>1, BeforeFacts
  <2>3. QED
    BY <2>1, <2>2
<1>8. ~Has(b, c)
  <2>1. DOMAIN b = 1 .. k /\ DOMAIN h = 1 .. n
    BY <1>1, <1>2, <1>7, LenProperties
  <2>2. \A i \in 1 .. k : i \in 1 .. n
    BY <1>2, <1>4
  <2>3. QED
    BY <1>7, <2>1, <2>2 DEF Has
<1>9. QED
  BY <1>6, <1>7, <1>8 DEF Text

(* The header's media type and what the payload stands for.                *)
MediatypeOf(header) ==
    IF ends_with_base64_marker(header) THEN Unmarked(header) ELSE header
PayloadOf(header, payload) ==
    IF ends_with_base64_marker(header) THEN decode_base64(payload)
                                       ELSE percent_decode_bytes[payload]
ParsedData(header, payload) ==
    IF IsPrefix(TwoSlashes, MediatypeOf(header)) \/ ~IsOk(PayloadOf(header, payload))
      THEN Invalid
      ELSE Ok(DataUri(MediatypeOf(header), ends_with_base64_marker(header),
                      PayloadOf(header, payload).value))

(* parse_data_uri, by its steps.                                           *)
LEMMA DataSteps ==
    ASSUME NEW uri
    PROVE  LET rest  == split(uri).rest
               comma == Find(rest, Comma)
           IN  parse_data_uri(uri) =
                 IF scheme_is(split(uri).scheme, DATA) /\ comma # 0
                   THEN ParsedData(Before(rest, comma), After(rest, comma))
                   ELSE Invalid
<1>1. PICK s : s = split(uri)
  OBVIOUS
<1>2. PICK comma : comma = Find(s.rest, Comma)
  OBVIOUS
<1>3. PICK header : header = Before(s.rest, comma)
  OBVIOUS
<1>4. PICK payload : payload = After(s.rest, comma)
  OBVIOUS
<1>5. parse_data_uri(uri) =
        IF \/ ~scheme_is(s.scheme, DATA) \/ comma = 0
           \/ IsPrefix(TwoSlashes, MediatypeOf(header))
           \/ ~IsOk(PayloadOf(header, payload))
          THEN Invalid
          ELSE Ok(DataUri(MediatypeOf(header), ends_with_base64_marker(header),
                          PayloadOf(header, payload).value))
  BY <1>1, <1>2, <1>3, <1>4 DEF parse_data_uri, MediatypeOf, PayloadOf, Unmarked
<1>6. QED
  BY <1>1, <1>2, <1>3, <1>4, <1>5 DEF ParsedData

(* The comma is a byte.                                                    *)
LEMMA CommaFacts == Comma \in Byte /\ <<Comma>> \in Seq(Byte) /\ Comma # Slash
BY DEF Comma, Byte, Slash

(* The text data: and a header, a comma and a payload is parsed as them.   *)
LEMMA DataBehind ==
    ASSUME NEW header \in Text, ~Has(header, Comma),
           ~IsPrefix(TwoSlashes, header), NEW payload \in Text
    PROVE  LET uri == (DATA \o <<Colon>>) \o (header \o (<<Comma>> \o payload))
           IN  uri \in Text /\ parse_data_uri(uri) = ParsedData(header, payload)
<1>1. PICK v : v = <<Comma>> \o payload
  OBVIOUS
<1>2. PICK rest : rest = header \o v
  OBVIOUS
<1>3. PICK uri : uri = (DATA \o <<Colon>>) \o rest
  OBVIOUS
<1>4. header \in Seq(Byte) /\ payload \in Seq(Byte)
  BY DEF Text
<1>5. v \in Seq(Byte) /\ v # <<>> /\ v[1] = Comma
  BY <1>1, <1>4, CommaFacts, ConsFacts
<1>6. /\ rest \in Seq(Byte) /\ Find(rest, Comma) = Len(header) + 1
      /\ Before(rest, Find(rest, Comma)) = header
      /\ After(rest, Find(rest, Comma)) = payload
  BY <1>1, <1>2, <1>4, CommaFacts, FindBehind
<1>7. Find(rest, Comma) # 0
  <2>1. Len(header) \in Nat
    BY <1>4
  <2>2. QED
    BY <1>6, <2>1
<1>8. rest \in Text /\ v \in Text
  BY <1>5, <1>6 DEF Text
<1>9. ~IsPrefix(TwoSlashes, rest)
  BY <1>2, <1>5, <1>8, CommaFacts, StartOf
<1>10. StripSlashes(rest) = rest
  BY <1>8, <1>9, SlashesFacts
<1>11. /\ uri \in Text /\ split(uri) = [scheme |-> DATA, rest |-> rest]
       /\ scheme_is(split(uri).scheme, DATA)
  BY <1>3, <1>8, <1>10, SplitBehind, NamesOfSchemes
<1>12. split(uri).rest = rest
  BY <1>11
<1>13. parse_data_uri(uri) = ParsedData(header, payload)
  BY <1>6, <1>7, <1>11, <1>12, DataSteps
<1>14. QED
  BY <1>1, <1>2, <1>3, <1>11, <1>13

(* How a value is formatted: its header, a comma and its payload.          *)
HeaderOf(mediatype, base64) == IF base64 THEN mediatype \o MARKER ELSE mediatype
Written64(data, base64)     == IF base64 THEN encode_base64[data] ELSE Spelled[data]

(* DataUri::format, by these.                                              *)
LEMMA DataFormats ==
    ASSUME NEW mediatype \in Text, NEW base64 \in BOOLEAN, NEW data \in Text
    PROVE  /\ HeaderOf(mediatype, base64) \in Text /\ Written64(data, base64) \in Text
           /\ DataUri_format(DataUri(mediatype, base64, data)) =
                (DATA \o <<Colon>>) \o (HeaderOf(mediatype, base64)
                   \o (<<Comma>> \o Written64(data, base64)))
<1>1. PICK x : x = DataUri(mediatype, base64, data)
  OBVIOUS
<1>2. x.mediatype = mediatype /\ x.data = data /\ x.base64 = base64
  BY <1>1 DEF DataUri
<1>3. PICK d : d = DATA \o <<Colon>>
  OBVIOUS
<1>4. d \in Seq(Byte) /\ mediatype \in Seq(Byte) /\ MARKER \in Seq(Byte)
  <2>1. DATA \in Seq(Byte) /\ <<Colon>> \in Seq(Byte)
    BY NamesOfSchemes, NameFacts DEF Text, Colon, Byte
  <2>2. QED
    BY <1>3, <2>1, ConcatProperties, MarkerFacts DEF Text
<1>5. CASE base64
  <2>1. PICK p : p = encode_base64[data]
    OBVIOUS
  <2>2. p \in Seq(Byte)
    BY <2>1, EncodedIsDecoded DEF Text
  <2>3. /\ HeaderOf(mediatype, base64) = mediatype \o MARKER
        /\ Written64(data, base64) = p
    BY <1>5, <2>1 DEF HeaderOf, Written64
  <2>4. DataUri_format(x) = (d \o mediatype) \o (MARKER \o <<Comma>> \o p)
    BY <1>2, <1>3, <1>5, <2>1 DEF DataUri_format
  <2>5. MARKER \o <<Comma>> \o p = MARKER \o (<<Comma>> \o p)
    BY <1>4, <2>2, CommaFacts, ConcatAssociative
  <2>6. PICK v : v = <<Comma>> \o p
    OBVIOUS
  <2>7. v \in Seq(Byte) /\ MARKER \o v \in Seq(Byte) /\ mediatype \o MARKER \in Seq(Byte)
    BY <1>4, <2>2, <2>6, CommaFacts, ConcatProperties
  <2>11. \A q, s, t \in Seq(Byte) : (q \o s) \o t = q \o (s \o t)
    BY ConcatAssociative
  <2>12. PICK t : t = MARKER \o v
    OBVIOUS
  <2>8. (d \o mediatype) \o t = d \o (mediatype \o t)
    BY <1>4, <2>7, <2>11, <2>12
  <2>9. mediatype \o t = (mediatype \o MARKER) \o v
    BY <1>4, <2>7, <2>11, <2>12
  <2>10. QED
    BY <1>1, <1>3, <2>2, <2>3, <2>4, <2>5, <2>6, <2>7, <2>8, <2>9,
       <2>12 DEF Text
<1>6. CASE ~base64
  <2>1. PICK p : p = Spelled[data]
    OBVIOUS
  <2>2. p \in Seq(Byte)
    BY <2>1, SpelledIsDecoded DEF Text, SpelledWell
  <2>3. /\ HeaderOf(mediatype, base64) = mediatype
        /\ Written64(data, base64) = p
    BY <1>6, <2>1 DEF HeaderOf, Written64
  <2>4. DataUri_format(x) = (d \o mediatype) \o (<<Comma>> \o p)
    BY <1>2, <1>3, <1>6, <2>1 DEF DataUri_format
  <2>5. PICK v : v = <<Comma>> \o p
    OBVIOUS
  <2>6. v \in Seq(Byte)
    BY <2>2, <2>5, CommaFacts, ConcatProperties
  <2>7. (d \o mediatype) \o v = d \o (mediatype \o v)
    BY <1>4, <2>6, ConcatAssociative
  <2>8. QED
    BY <1>1, <1>3, <1>4, <2>2, <2>3, <2>4, <2>5, <2>7 DEF Text
<1>7. QED
  BY <1>5, <1>6

(* A value that is not refused is read back as itself.                     *)
LEMMA DataIsReadBack ==
    ASSUME NEW mediatype \in Text, NEW base64 \in BOOLEAN, NEW data \in Text,
           ~Misread(mediatype, base64)
    PROVE  LET x == DataUri(mediatype, base64, data)
           IN  parse_data_uri(DataUri_format(x)) = Ok(x)
<1>1. PICK h : h = HeaderOf(mediatype, base64)
  OBVIOUS
<1>2. PICK p : p = Written64(data, base64)
  OBVIOUS
<1>3. PICK x : x = DataUri(mediatype, base64, data)
  OBVIOUS
<1>4. /\ ~Has(mediatype, Comma) /\ ~IsPrefix(TwoSlashes, mediatype)
      /\ ~base64 => ~ends_with_base64_marker(mediatype)
  BY DEF Misread
<1>5. /\ h \in Text /\ p \in Text
      /\ DataUri_format(x) = (DATA \o <<Colon>>) \o (h \o (<<Comma>> \o p))
  BY <1>1, <1>2, <1>3, DataFormats
<1>6. CASE base64
  <2>1. h = mediatype \o MARKER /\ p = encode_base64[data]
    BY <1>1, <1>2, <1>6 DEF HeaderOf, Written64
  <2>2. /\ ends_with_base64_marker(h) /\ Unmarked(h) = mediatype
    BY <2>1, MarkedFacts
  <2>3. ~Has(h, Comma)
    BY <1>4, <2>1, MarkerFacts, HasConcat DEF Text
  <2>4. ~IsPrefix(TwoSlashes, h)
    BY <1>4, <2>1, MarkerFacts, StartOf
  <2>5. parse_data_uri(DataUri_format(x)) = ParsedData(h, p)
    BY <1>5, <2>3, <2>4, DataBehind
  <2>6. MediatypeOf(h) = mediatype /\ PayloadOf(h, p) = Ok(data)
    BY <2>1, <2>2, EncodedIsDecoded DEF MediatypeOf, PayloadOf
  <2>7. ends_with_base64_marker(h) = base64
    BY <1>6, <2>2 DEF ends_with_base64_marker
  <2>8. QED
    BY <1>3, <1>4, <2>5, <2>6, <2>7, KindFacts DEF ParsedData
<1>7. CASE ~base64
  <2>1. h = mediatype /\ p = Spelled[data]
    BY <1>1, <1>2, <1>7 DEF HeaderOf, Written64
  <2>2. ~ends_with_base64_marker(h)
    BY <1>4, <1>7, <2>1
  <2>3. parse_data_uri(DataUri_format(x)) = ParsedData(h, p)
    BY <1>4, <1>5, <2>1, DataBehind
  <2>4. MediatypeOf(h) = mediatype /\ PayloadOf(h, p) = Ok(data)
    BY <2>1, <2>2, SpelledIsDecoded DEF MediatypeOf, PayloadOf, SpelledWell
  <2>5. ends_with_base64_marker(h) = base64
    BY <1>7, <2>2 DEF ends_with_base64_marker
  <2>6. QED
    BY <1>3, <1>4, <2>3, <2>4, <2>5, KindFacts DEF ParsedData
<1>8. QED
  BY <1>3, <1>6, <1>7

(* What is parsed is never a value that would be misread.                  *)
LEMMA DataParsed ==
    ASSUME NEW uri \in Text, IsOk(parse_data_uri(uri))
    PROVE  \E mediatype \in Text, base64 \in BOOLEAN, data \in Text :
              /\ parse_data_uri(uri) = Ok(DataUri(mediatype, base64, data))
              /\ ~Misread(mediatype, base64)
<1>1. PICK rest : rest = split(uri).rest
  OBVIOUS
<1>2. PICK comma : comma = Find(rest, Comma)
  OBVIOUS
<1>3. PICK h : h = Before(rest, comma)
  OBVIOUS
<1>4. PICK p : p = After(rest, comma)
  OBVIOUS
<1>5. rest \in Text
  BY <1>1, SplitFacts
<1>6. comma # 0 /\ parse_data_uri(uri) = ParsedData(h, p)
  BY <1>1, <1>2, <1>3, <1>4, KindFacts, DataSteps
<1>7. h \in Text /\ p \in Text /\ ~Has(h, Comma)
  BY <1>2, <1>3, <1>4, <1>5, <1>6, PartsAt
<1>8. PICK m : m = MediatypeOf(h)
  OBVIOUS
<1>9. PICK b : b = ends_with_base64_marker(h)
  OBVIOUS
<1>10. PICK r : r = PayloadOf(h, p)
  OBVIOUS
<1>11. /\ ~IsPrefix(TwoSlashes, m)
       /\ parse_data_uri(uri) = Ok(DataUri(m, b, r.value))
  BY <1>6, <1>8, <1>9, <1>10, KindFacts DEF ParsedData
<1>12. r.value \in Text
  BY <1>7, <1>10, Base64Typed, DecodedTyped, BytesFacts DEF PayloadOf
<1>13. b \in BOOLEAN
  BY <1>9 DEF ends_with_base64_marker
<1>14. m \in Text /\ ~Has(m, Comma)
  BY <1>7, <1>8, UnmarkedFacts DEF MediatypeOf
<1>15. ~b => ~ends_with_base64_marker(m)
  BY <1>8, <1>9 DEF MediatypeOf
<1>16. ~Misread(m, b)
  BY <1>11, <1>14, <1>15 DEF Misread
<1>17. QED
  BY <1>11, <1>12, <1>13, <1>14, <1>16

(* What is parsed from a data: text, formatted and parsed again is the     *)
(* same (data.rs:53-57).                                                   *)
DataInverts(uri) ==
    LET data == parse_data_uri(uri)
    IN  IsOk(data) => parse_data_uri(DataUri_format(data.value)) = data

(* A data: URI that was parsed, formatted and parsed again is the same, in *)
(* either encoding and whatever its bytes.                                 *)
THEOREM DataRoundTrip == \A uri \in Text : DataInverts(uri)
<1> SUFFICES ASSUME NEW uri \in Text, IsOk(parse_data_uri(uri))
             PROVE  DataInverts(uri)
  BY DEF DataInverts
<1>1. PICK mediatype \in Text, base64 \in BOOLEAN, data \in Text :
        /\ parse_data_uri(uri) = Ok(DataUri(mediatype, base64, data))
        /\ ~Misread(mediatype, base64)
  BY DataParsed
<1>2. PICK x : x = DataUri(mediatype, base64, data)
  OBVIOUS
<1>3. parse_data_uri(uri).value = x
  BY <1>1, <1>2, KindFacts
<1>4. parse_data_uri(DataUri_format(x)) = Ok(x)
  BY <1>1, <1>2, DataIsReadBack
<1>5. QED
  BY <1>1, <1>2, <1>3, <1>4 DEF DataInverts

(* DataUri::new takes exactly the parts that are read back as they are     *)
(* (data.rs:73-84).                                                        *)
DataAgrees(mediatype, base64, data) ==
    LET x == DataUri(mediatype, base64, data)
    IN  IsOk(DataUri_new(mediatype, base64, data))
          <=> parse_data_uri(DataUri_format(x)) = Ok(x)

(* DataUri::new refuses what would be read back otherwise, and nothing     *)
(* else.                                                                   *)
THEOREM DataConstructorAgrees ==
    \A mediatype \in Text : \A base64 \in BOOLEAN : \A data \in Text :
        DataAgrees(mediatype, base64, data)
<1> SUFFICES ASSUME NEW mediatype \in Text, NEW base64 \in BOOLEAN, NEW data \in Text
             PROVE  DataAgrees(mediatype, base64, data)
  OBVIOUS
<1>1. PICK x : x = DataUri(mediatype, base64, data)
  OBVIOUS
<1>2. PICK uri : uri = DataUri_format(x)
  OBVIOUS
<1>3. IsOk(DataUri_new(mediatype, base64, data)) <=> ~Misread(mediatype, base64)
  BY KindFacts DEF DataUri_new
<1>4. ~Misread(mediatype, base64) => parse_data_uri(uri) = Ok(x)
  BY <1>1, <1>2, DataIsReadBack
<1>5. ASSUME parse_data_uri(uri) = Ok(x)
      PROVE  ~Misread(mediatype, base64)
  <2>1. uri \in Text
    <3>1. PICK h \in Text, p \in Text :
            uri = (DATA \o <<Colon>>) \o (h \o (<<Comma>> \o p))
      <4>1. PICK h, p : h = HeaderOf(mediatype, base64) /\ p = Written64(data, base64)
        OBVIOUS
      <4>2. /\ h \in Text /\ p \in Text
            /\ uri = (DATA \o <<Colon>>) \o (h \o (<<Comma>> \o p))
        BY <1>1, <1>2, <4>1, DataFormats
      <4>3. QED
        BY <4>2
    <3>2. h \o (<<Comma>> \o p) \in Text
      BY <3>1, CommaFacts, ConcatProperties DEF Text
    <3>3. QED
      BY <3>1, <3>2, SplitBehind, NamesOfSchemes
  <2>2. PICK m \in Text, b \in BOOLEAN, d \in Text :
          parse_data_uri(uri) = Ok(DataUri(m, b, d)) /\ ~Misread(m, b)
    BY <1>5, <2>1, KindFacts, DataParsed
  <2>3. DataUri(m, b, d) = x
    BY <1>5, <2>2, KindFacts
  <2>4. m = mediatype /\ b = base64
    BY <1>1, <2>3 DEF DataUri
  <2>5. QED
    BY <2>2, <2>4
<1>6. QED
  BY <1>1, <1>2, <1>3, <1>4, <1>5 DEF DataAgrees
=============================================================================

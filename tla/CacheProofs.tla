-------------------------- MODULE CacheProofs ---------------------------
(***************************************************************************)
(* MemoryCache for any keys, responses, sizes, lifetimes and limit.        *)
(***************************************************************************)
EXTENDS MemoryCache, NaturalsInduction, WellFoundedInduction, TLAPS

----------------------------------------------------------------------------
(* Sequences, and what the recursions over them compute.                   *)

(* What holds of 0 and goes from each number below n to the next holds up  *)
(* to n: the smallest exception would be preceded by one.                  *)
LEMMA Upwards ==
  ASSUME NEW n \in Nat, NEW S, 0 \in S, \A i \in 0 .. n - 1 : i \in S => i + 1 \in S
  PROVE  \A i \in 0 .. n : i \in S
<1> DEFINE Bad == {i \in 0 .. n : i \notin S}
<1> SUFFICES ASSUME Bad # {} PROVE FALSE
  BY Zenon
<1>1. Bad \subseteq Nat
  OBVIOUS
<1>2. PICK m \in Bad : \A i \in Bad : ~ (<<i, m>> \in OpToRel(<, Nat))
  BY <1>1, NatLessThanWellFounded, WFMin, Zenon
<1>3. \A i \in Bad : ~ (i < m)
  BY <1>1, <1>2, Zenon DEF OpToRel
<1>4. m \in 0 .. n /\ m \notin S /\ m # 0
  BY Zenon
<1>5. m - 1 \in 0 .. n - 1 /\ m - 1 < m /\ m - 1 \in 0 .. n /\ (m - 1) + 1 = m
  BY <1>4
<1>6. m - 1 \in S
  BY <1>3, <1>5, Zenon
<1>7. QED BY <1>4, <1>5, <1>6, Zenon

(* A recursion over the first n elements has a solution.                   *)
LEMMA PicksEquation ==
  ASSUME NEW T, NEW s \in Seq(T), NEW P
  PROVE  /\ Picks(s, P)[0] = <<>>
         /\ \A n \in 1 .. Len(s) :
              Picks(s, P)[n] = IF n \in P THEN Append(Picks(s, P)[n - 1], s[n])
                                          ELSE Picks(s, P)[n - 1]
<1> DEFINE Next1(f, i) == IF i \in P THEN Append(f[i - 1], s[i]) ELSE f[i - 1]
           Upto(f, n) == f[0] = <<>> /\ \A i \in 1 .. n : f[i] = Next1(f, i)
           S == {n \in Nat : \E f : Upto(f, n)}
<1>1. Len(s) \in Nat
  OBVIOUS
<1>2. 0 \in S
  <2>1. Upto([i \in {0} |-> <<>>], 0)
    OBVIOUS
  <2>2. QED BY <2>1, Zenon
<1>3. ASSUME NEW n \in 0 .. Len(s) - 1, n \in S PROVE n + 1 \in S
  <2>1. PICK f : Upto(f, n)
    BY <1>3, Zenon
  <2> DEFINE g == [i \in 0 .. n + 1 |-> IF i = n + 1 THEN Next1(f, n + 1) ELSE f[i]]
  <2>2. n \in Nat /\ n + 1 \in Nat
    BY <1>1
  <2>3. g[0] = f[0] /\ g[n + 1] = Next1(f, n + 1) /\ \A i \in 0 .. n : g[i] = f[i]
    BY <2>2
  <2> HIDE DEF g
  <2>4. ASSUME NEW i \in 1 .. n + 1 PROVE g[i] = Next1(g, i)
    <3>1. i - 1 \in 0 .. n /\ g[i - 1] = f[i - 1]
      BY <2>2, <2>3
    <3>2. g[i] = Next1(f, i)
      BY <2>1, <2>2, <2>3
    <3>3. QED BY <3>1, <3>2, Zenon
  <2>5. Upto(g, n + 1)
    BY <2>1, <2>3, <2>4, Zenon
  <2>6. QED BY <2>2, <2>5, Zenon
<1> HIDE DEF S
<1>4. Len(s) \in S
  <2>1. \A i \in 0 .. Len(s) : i \in S
    BY <1>1, <1>2, <1>3, Upwards, Zenon
  <2>2. QED BY <1>1, <2>1
<1>5. PICK h : Upto(h, Len(s))
  BY <1>4, Zenon DEF S
<1> DEFINE Body(f) == [n \in 0 .. Len(s) |->
                         IF n = 0 THEN <<>>
                         ELSE IF n \in P THEN Append(f[n - 1], s[n]) ELSE f[n - 1]]
           k == [n \in 0 .. Len(s) |-> h[n]]
<1>6. k = Body(k)
  <2>1. \A n \in 0 .. Len(s) : k[n] = Body(k)[n]
    <3> TAKE n \in 0 .. Len(s)
    <3>1. n # 0 => n \in 1 .. Len(s) /\ n - 1 \in 0 .. Len(s)
      BY <1>1
    <3>2. QED BY <1>1, <1>5, <3>1, Zenon
  <2>2. QED BY <2>1, Zenon
<1>7. Picks(s, P) = CHOOSE f : f = Body(f)
  BY Zenon DEF Picks
<1>8. Picks(s, P) = Body(Picks(s, P))
  BY <1>6, <1>7, Zenon
<1> DEFINE g == Picks(s, P)
<1> HIDE DEF k, g
<1>9. g = Body(g)
  BY <1>8, Zenon DEF g
<1>10. g[0] = <<>>
  BY <1>1, <1>9
<1>11. \A n \in 1 .. Len(s) : g[n] = IF n \in P THEN Append(g[n - 1], s[n]) ELSE g[n - 1]
  <2> TAKE n \in 1 .. Len(s)
  <2>1. n \in 0 .. Len(s) /\ n # 0
    BY <1>1
  <2>2. QED BY <1>9, <2>1, Zenon
<1>12. QED BY <1>10, <1>11, Zenon DEF g

(* t has the elements of the first n of s that are at the places in P, in  *)
(* their order.                                                            *)
Embeds(t, h, s, P, n) ==
  /\ h \in [1 .. Len(t) -> 1 .. n]
  /\ \A i \in 1 .. Len(t) : h[i] \in P /\ t[i] = s[h[i]]
  /\ \A i, j \in 1 .. Len(t) : i < j => h[i] < h[j]
  /\ \A j \in 1 .. n : j \in P => \E i \in 1 .. Len(t) : h[i] = j

Selection(t, s, P, n) == \E h : Embeds(t, h, s, P, n)

(* That is what the recursion picks.                                       *)
LEMMA PicksSelect ==
  ASSUME NEW T, NEW s \in Seq(T), NEW P, NEW n \in 0 .. Len(s)
  PROVE  Picks(s, P)[n] \in Seq(T) /\ Selection(Picks(s, P)[n], s, P, n)
<1> DEFINE p == Picks(s, P)
           S == {m \in Nat : p[m] \in Seq(T) /\ Selection(p[m], s, P, m)}
<1>1. Len(s) \in Nat
  OBVIOUS
<1>2. /\ p[0] = <<>>
      /\ \A m \in 1 .. Len(s) : p[m] = IF m \in P THEN Append(p[m - 1], s[m]) ELSE p[m - 1]
  BY PicksEquation
<1> HIDE DEF p
<1>3. 0 \in S
  <2>1. Embeds(<<>>, [i \in {} |-> 0], s, P, 0)
    BY DEF Embeds
  <2>2. p[0] \in Seq(T) /\ Embeds(p[0], [i \in {} |-> 0], s, P, 0)
    BY <1>2, <2>1 DEF Embeds
  <2>3. QED BY <2>2, Zenon DEF Selection
<1>4. ASSUME NEW m \in 0 .. Len(s) - 1, m \in S PROVE m + 1 \in S
  <2>1. m \in Nat /\ m + 1 \in 1 .. Len(s) /\ (m + 1) - 1 = m /\ s[m + 1] \in T
    BY <1>1
  <2> DEFINE t == p[m]
             u == p[m + 1]
  <2>2. PICK h : Embeds(t, h, s, P, m)
    BY <1>4, Zenon DEF Selection
  <2>3. t \in Seq(T) /\ Len(t) \in Nat
    BY <1>4
  <2>4. CASE m + 1 \in P
    <3>1. u = Append(t, s[m + 1])
      BY <1>2, <2>1, <2>4, Zenon
    <3> HIDE DEF t, u
    <3>2. /\ u \in Seq(T) /\ Len(u) = Len(t) + 1 /\ u[Len(t) + 1] = s[m + 1]
          /\ \A i \in 1 .. Len(t) : u[i] = t[i]
      BY <2>1, <2>3, <3>1
    <3> DEFINE g == [i \in 1 .. Len(t) + 1 |-> IF i = Len(t) + 1 THEN m + 1 ELSE h[i]]
    <3>3. g[Len(t) + 1] = m + 1 /\ \A i \in 1 .. Len(t) : g[i] = h[i] /\ h[i] \in 1 .. m
      BY <2>2, <2>3 DEF Embeds
    <3>4. g \in [1 .. Len(u) -> 1 .. m + 1]
      BY <2>1, <2>2, <2>3, <3>2 DEF Embeds
    <3> HIDE DEF g
    <3>5. \A i \in 1 .. Len(u) : i \in 1 .. Len(t) \/ i = Len(t) + 1
      BY <2>3, <3>2
    <3>6. \A i \in 1 .. Len(u) : g[i] \in P /\ u[i] = s[g[i]]
      BY <2>2, <2>4, <3>2, <3>3, <3>5, Zenon DEF Embeds
    <3>7. \A i, j \in 1 .. Len(u) : i < j => g[i] < g[j]
      <4> SUFFICES ASSUME NEW i \in 1 .. Len(u), NEW j \in 1 .. Len(u), i < j
                   PROVE  g[i] < g[j]
        BY Zenon
      <4>1. i \in 1 .. Len(t)
        BY <2>3, <3>2
      <4>2. CASE j \in 1 .. Len(t)
        BY <2>2, <3>3, <4>1, <4>2, Zenon DEF Embeds
      <4>3. CASE j = Len(t) + 1
        BY <2>1, <3>3, <4>1, <4>3
      <4>4. QED BY <3>5, <4>2, <4>3, Zenon
    <3>8. \A j \in 1 .. m + 1 : j \in P => \E i \in 1 .. Len(u) : g[i] = j
      <4> SUFFICES ASSUME NEW j \in 1 .. m + 1, j \in P PROVE \E i \in 1 .. Len(u) : g[i] = j
        BY Zenon
      <4>1. CASE j = m + 1
        BY <2>3, <3>2, <3>3, <4>1
      <4>2. CASE j \in 1 .. m
        <5>1. PICK i \in 1 .. Len(t) : h[i] = j
          BY <2>2, <4>2, Zenon DEF Embeds
        <5>2. i \in 1 .. Len(u)
          BY <2>3, <3>2
        <5>3. QED BY <3>3, <5>1, <5>2, Zenon
      <4>3. QED BY <2>1, <4>1, <4>2
    <3>9. Embeds(u, g, s, P, m + 1)
      BY <3>4, <3>6, <3>7, <3>8, Zenon DEF Embeds
    <3>10. QED BY <2>1, <3>2, <3>9 DEF u, Selection
  <2>5. CASE m + 1 \notin P
    <3>1. u = t
      BY <1>2, <2>1, <2>5, Zenon
    <3> HIDE DEF t, u
    <3>2. h \in [1 .. Len(t) -> 1 .. m + 1]
      BY <2>1, <2>2 DEF Embeds
    <3>3. \A j \in 1 .. m + 1 : j \in P => j \in 1 .. m
      BY <2>1, <2>5
    <3>4. Embeds(t, h, s, P, m + 1)
      BY <2>2, <3>2, <3>3, Zenon DEF Embeds
    <3>5. u \in Seq(T) /\ Embeds(u, h, s, P, m + 1)
      BY <2>3, <3>1, <3>4, Zenon DEF Embeds
    <3>6. QED BY <2>1, <3>5 DEF u, Selection
  <2>6. QED BY <2>4, <2>5, Zenon
<1> HIDE DEF S
<1>5. \A i \in 0 .. Len(s) : i \in S
  BY <1>1, <1>3, <1>4, Upwards, Zenon
<1>6. QED BY <1>5, Zenon DEF S, p

(* The same of the whole sequence.                                         *)
LEMMA PickSelects ==
  ASSUME NEW T, NEW s \in Seq(T), NEW P
  PROVE  Pick(s, P) \in Seq(T) /\ Selection(Pick(s, P), s, P, Len(s))
<1>1. Len(s) \in 0 .. Len(s)
  OBVIOUS
<1>2. QED BY <1>1, PicksSelect, Zenon DEF Pick

(* The sums of the sizes.                                                  *)
LEMMA SumsEquation ==
  ASSUME NEW T, NEW s \in Seq(T)
  PROVE  /\ Sums(s)[0] = 0
         /\ \A n \in 1 .. Len(s) : Sums(s)[n] = Sums(s)[n - 1] + s[n].size
<1> DEFINE Upto(f, n) == f[0] = 0 /\ \A i \in 1 .. n : f[i] = f[i - 1] + s[i].size
           S == {n \in Nat : \E f : Upto(f, n)}
<1>1. Len(s) \in Nat
  OBVIOUS
<1>2. 0 \in S
  <2>1. Upto([i \in {0} |-> 0], 0)
    OBVIOUS
  <2>2. QED BY <2>1, Zenon
<1>3. ASSUME NEW n \in 0 .. Len(s) - 1, n \in S PROVE n + 1 \in S
  <2>1. PICK f : Upto(f, n)
    BY <1>3, Zenon
  <2> DEFINE g == [i \in 0 .. n + 1 |-> IF i = n + 1 THEN f[n] + s[n + 1].size ELSE f[i]]
  <2>2. n \in Nat /\ n + 1 \in Nat
    BY <1>1
  <2>3. /\ g[0] = f[0] /\ g[n + 1] = f[n] + s[n + 1].size
        /\ \A i \in 0 .. n : g[i] = f[i]
    BY <2>2
  <2> HIDE DEF g
  <2>4. ASSUME NEW i \in 1 .. n + 1 PROVE g[i] = g[i - 1] + s[i].size
    <3>1. /\ i - 1 \in 0 .. n
          /\ i = n + 1 => i - 1 = n
          /\ i # n + 1 => i \in 1 .. n /\ i \in 0 .. n
      BY <2>2
    <3>2. QED BY <2>1, <2>3, <3>1, Zenon
  <2>5. Upto(g, n + 1)
    BY <2>1, <2>3, <2>4, Zenon
  <2>6. QED BY <2>2, <2>5, Zenon
<1> HIDE DEF S
<1>4. Len(s) \in S
  <2>1. \A i \in 0 .. Len(s) : i \in S
    BY <1>1, <1>2, <1>3, Upwards, Zenon
  <2>2. QED BY <1>1, <2>1
<1>5. PICK h : Upto(h, Len(s))
  BY <1>4, Zenon DEF S
<1> DEFINE Body(f) == [n \in 0 .. Len(s) |-> IF n = 0 THEN 0 ELSE f[n - 1] + s[n].size]
           k == [n \in 0 .. Len(s) |-> h[n]]
<1>6. k = Body(k)
  <2>1. \A n \in 0 .. Len(s) : k[n] = Body(k)[n]
    <3> TAKE n \in 0 .. Len(s)
    <3>1. n # 0 => n \in 1 .. Len(s) /\ n - 1 \in 0 .. Len(s)
      BY <1>1
    <3>2. k[n] = h[n] /\ (n # 0 => k[n - 1] = h[n - 1])
      BY <3>1, Zenon
    <3>3. QED BY <1>5, <3>1, <3>2, Zenon
  <2>2. QED BY <2>1, Zenon
<1>7. Sums(s) = CHOOSE f : f = Body(f)
  BY Zenon DEF Sums
<1>8. Sums(s) = Body(Sums(s))
  BY <1>6, <1>7, Zenon
<1> DEFINE g == Sums(s)
<1> HIDE DEF k, g
<1>9. g = Body(g)
  BY <1>8, Zenon DEF g
<1>10. g[0] = 0
  BY <1>1, <1>9
<1>11. \A n \in 1 .. Len(s) : g[n] = g[n - 1] + s[n].size
  <2> TAKE n \in 1 .. Len(s)
  <2>1. n \in 0 .. Len(s) /\ n # 0
    BY <1>1
  <2>2. QED BY <1>9, <2>1, Zenon
<1>12. QED BY <1>10, <1>11, Zenon DEF g

(* They are natural numbers.                                               *)
LEMMA SumsType ==
  ASSUME NEW T, \A e \in T : e.size \in Nat, NEW s \in Seq(T)
  PROVE  \A n \in 0 .. Len(s) : Sums(s)[n] \in Nat
<1> DEFINE S == {n \in Nat : Sums(s)[n] \in Nat}
<1>1. Len(s) \in Nat /\ \A n \in 1 .. Len(s) : s[n].size \in Nat
  OBVIOUS
<1>2. Sums(s)[0] = 0 /\ \A n \in 1 .. Len(s) : Sums(s)[n] = Sums(s)[n - 1] + s[n].size
  BY SumsEquation, Zenon
<1>3. 0 \in S
  BY <1>2
<1>4. ASSUME NEW n \in 0 .. Len(s) - 1, n \in S PROVE n + 1 \in S
  <2>1. n \in Nat /\ n + 1 \in 1 .. Len(s) /\ (n + 1) - 1 = n
    BY <1>1
  <2>2. Sums(s)[n + 1] = Sums(s)[n] + s[n + 1].size
    BY <1>2, <2>1, Zenon
  <2>3. QED BY <1>1, <1>4, <2>1, <2>2
<1> HIDE DEF S
<1>5. \A n \in 0 .. Len(s) : n \in S
  BY <1>1, <1>3, <1>4, Upwards, Zenon
<1>6. QED BY <1>5, Zenon DEF S

(* The bytes of two lists one after the other.                             *)
LEMMA BytesConcat ==
  ASSUME NEW T, \A e \in T : e.size \in Nat, NEW s \in Seq(T), NEW t \in Seq(T)
  PROVE  Bytes(s \o t) = Bytes(s) + Bytes(t)
<1> DEFINE st == s \o t
           a == Len(s)
           S == {n \in Nat : n <= a => Sums(st)[n] = Sums(s)[n]}
           R == {n \in Nat : Sums(st)[a + n] = Sums(s)[a] + Sums(t)[n]}
<1>1. /\ a \in Nat /\ Len(t) \in Nat /\ st \in Seq(T) /\ Len(st) = a + Len(t)
      /\ \A n \in 1 .. a : st[n] = s[n]
      /\ \A n \in 1 .. Len(t) : st[a + n] = t[n]
  OBVIOUS
<1> HIDE DEF st
<1>2. /\ Sums(st)[0] = 0 /\ \A n \in 1 .. Len(st) : Sums(st)[n] = Sums(st)[n - 1] + st[n].size
      /\ Sums(s)[0] = 0 /\ \A n \in 1 .. Len(s) : Sums(s)[n] = Sums(s)[n - 1] + s[n].size
      /\ Sums(t)[0] = 0 /\ \A n \in 1 .. Len(t) : Sums(t)[n] = Sums(t)[n - 1] + t[n].size
  BY <1>1, SumsEquation, Zenon
<1>3. /\ \A n \in 0 .. Len(t) : Sums(t)[n] \in Nat
      /\ Sums(s)[a] \in Nat
  BY <1>1, SumsType
<1>4. 0 \in S
  BY <1>2, Zenon
<1>5. ASSUME NEW n \in 0 .. a - 1, n \in S PROVE n + 1 \in S
  <2>1. n \in Nat /\ n <= a /\ n + 1 \in 1 .. a /\ n + 1 \in 1 .. Len(st) /\ (n + 1) - 1 = n
    BY <1>1
  <2>2. Sums(st)[n + 1] = Sums(s)[n + 1]
    <3>1. Sums(st)[n] = Sums(s)[n] /\ st[n + 1] = s[n + 1]
      BY <1>1, <1>5, <2>1, Zenon
    <3>2. Sums(st)[n + 1] = Sums(st)[n] + st[n + 1].size
      BY <1>2, <2>1, Zenon
    <3>3. Sums(s)[n + 1] = Sums(s)[n] + s[n + 1].size
      BY <1>2, <2>1, Zenon
    <3>4. QED BY <3>1, <3>2, <3>3, Zenon
  <2>3. QED BY <2>1, <2>2
<1>6. a \in S
  <2> HIDE DEF S
  <2>1. \A n \in 0 .. a : n \in S
    BY <1>1, <1>4, <1>5, Upwards, Zenon
  <2>2. QED BY <1>1, <2>1
<1>7. 0 \in R
  BY <1>1, <1>2, <1>3, <1>6
<1>8. ASSUME NEW n \in 0 .. Len(t) - 1, n \in R PROVE n + 1 \in R
  <2>1. /\ n \in Nat /\ n \in 0 .. Len(t) /\ n + 1 \in 1 .. Len(t) /\ (n + 1) - 1 = n
        /\ a + (n + 1) \in 1 .. Len(st) /\ (a + (n + 1)) - 1 = a + n
    BY <1>1
  <2>2. Sums(st)[a + (n + 1)] = Sums(st)[a + n] + t[n + 1].size
    BY <1>1, <1>2, <2>1, Zenon
  <2>3. Sums(t)[n + 1] = Sums(t)[n] + t[n + 1].size
    BY <1>2, <2>1, Zenon
  <2>4. Sums(st)[a + n] = Sums(s)[a] + Sums(t)[n] /\ Sums(t)[n] \in Nat /\ t[n + 1].size \in Nat
    <3>1. \A i \in 1 .. Len(t) : t[i] \in T
      OBVIOUS
    <3>2. t[n + 1] \in T
      BY <2>1, <3>1, Zenon
    <3>3. QED BY <1>3, <1>8, <2>1, <3>2, Zenon
  <2>5. Sums(s)[a] \in Nat
    BY <1>1, <1>3, Zenon
  <2>6. \A x, y, z \in Nat : (x + y) + z = x + (y + z)
    OBVIOUS
  <2>7. (Sums(s)[a] + Sums(t)[n]) + t[n + 1].size = Sums(s)[a] + (Sums(t)[n] + t[n + 1].size)
    BY <2>4, <2>5, <2>6, Zenon
  <2>8. Sums(st)[a + (n + 1)] = Sums(s)[a] + Sums(t)[n + 1]
    BY <2>2, <2>3, <2>4, <2>7, Zenon
  <2>9. n + 1 \in Nat
    BY <2>1
  <2>10. QED BY <2>8, <2>9, Zenon
<1>9. Len(t) \in R
  <2> HIDE DEF R
  <2>1. \A n \in 0 .. Len(t) : n \in R
    BY <1>1, <1>7, <1>8, Upwards, Zenon
  <2>2. QED BY <1>1, <2>1
<1>10. QED BY <1>1, <1>9, Zenon DEF Bytes, st

(* The bytes of short lists.                                               *)
LEMMA BytesShort ==
  ASSUME NEW T, \A e \in T : e.size \in Nat
  PROVE  /\ Bytes(<<>>) = 0
         /\ \A s \in Seq(T) : Bytes(s) \in Nat
         /\ \A e \in T : Bytes(<<e>>) = e.size
         /\ \A s \in Seq(T), e \in T : Bytes(Append(s, e)) = Bytes(s) + e.size
<1>1. Bytes(<<>>) = 0
  <2>1. <<>> \in Seq(T) /\ Len(<<>>) = 0
    OBVIOUS
  <2>2. QED BY <2>1, SumsEquation, Zenon DEF Bytes
<1>2. ASSUME NEW s \in Seq(T) PROVE Bytes(s) \in Nat
  <2>1. Len(s) \in 0 .. Len(s)
    OBVIOUS
  <2>2. QED BY <2>1, SumsType, Zenon DEF Bytes
<1>3. ASSUME NEW e \in T PROVE Bytes(<<e>>) = e.size
  <2>1. <<e>> \in Seq(T) /\ Len(<<e>>) = 1 /\ <<e>>[1] = e /\ 1 \in 1 .. 1 /\ 1 - 1 = 0
    OBVIOUS
  <2>2. Sums(<<e>>)[0] = 0 /\ Sums(<<e>>)[1] = Sums(<<e>>)[0] + e.size
    <3>1. \A n \in 1 .. 1 : Sums(<<e>>)[n] = Sums(<<e>>)[n - 1] + <<e>>[n].size
      BY <2>1, SumsEquation, Zenon
    <3>2. Sums(<<e>>)[0] = 0
      BY <2>1, SumsEquation, Zenon
    <3>3. QED BY <2>1, <3>1, <3>2, Zenon
  <2>3. QED BY <2>1, <2>2 DEF Bytes
<1>4. ASSUME NEW s \in Seq(T), NEW e \in T PROVE Bytes(Append(s, e)) = Bytes(s) + e.size
  <2>1. Append(s, e) = s \o <<e>> /\ <<e>> \in Seq(T)
    OBVIOUS
  <2>2. QED BY <1>3, <2>1, BytesConcat, Zenon
<1>5. QED BY <1>1, <1>2, <1>3, <1>4, Zenon

(* A list cut in two.                                                      *)
LEMMA BytesSplit ==
  ASSUME NEW T, \A e \in T : e.size \in Nat, NEW s \in Seq(T), NEW m \in 0 .. Len(s)
  PROVE  Bytes(SubSeq(s, 1, m)) + Bytes(SubSeq(s, m + 1, Len(s))) = Bytes(s)
<1> DEFINE l == SubSeq(s, 1, m)
           r == SubSeq(s, m + 1, Len(s))
           c == l \o r
<1>1. l \in Seq(T) /\ r \in Seq(T) /\ c \in Seq(T)
  OBVIOUS
<1>2. /\ Len(l) = m /\ Len(r) = Len(s) - m
      /\ \A i \in 1 .. m : l[i] = s[i]
      /\ \A i \in 1 .. Len(s) - m : r[i] = s[m + i]
  OBVIOUS
<1> HIDE DEF l, r
<1>3. /\ Len(c) = Len(l) + Len(r)
      /\ \A i \in 1 .. Len(l) : c[i] = l[i]
      /\ \A i \in 1 .. Len(r) : c[Len(l) + i] = r[i]
  BY <1>1
<1> HIDE DEF c
<1>4. c = s
  <2>1. /\ Len(c) = Len(s) /\ Len(s) \in Nat
        /\ \A i \in 1 .. m : c[i] = s[i]
        /\ \A i \in 1 .. Len(s) - m : c[m + i] = s[m + i]
    BY <1>2, <1>3
  <2>2. \A i \in 1 .. Len(s) : i \in 1 .. m \/ (i - m \in 1 .. Len(s) - m /\ m + (i - m) = i)
    BY <2>1
  <2>3. \A i \in 1 .. Len(s) : c[i] = s[i]
    BY <2>1, <2>2, Zenon
  <2>4. c = [i \in 1 .. Len(c) |-> c[i]] /\ s = [i \in 1 .. Len(s) |-> s[i]]
    BY <1>1
  <2>5. [i \in 1 .. Len(c) |-> c[i]] = [i \in 1 .. Len(s) |-> s[i]]
    BY <2>1, <2>3, Zenon
  <2>6. QED BY <2>4, <2>5, Zenon
<1>5. Bytes(c) = Bytes(l) + Bytes(r)
  BY <1>1, BytesConcat, Zenon DEF c
<1>6. QED BY <1>4, <1>5, Zenon DEF l, r

(* What is picked and what is left weigh together what the list does.      *)
LEMMA PickBytes ==
  ASSUME NEW T, \A e \in T : e.size \in Nat, NEW s \in Seq(T), NEW P
  PROVE  Bytes(Pick(s, P)) + Bytes(Pick(s, DOMAIN s \ P)) = Bytes(s)
<1> DEFINE Q == DOMAIN s \ P
           p == Picks(s, P)
           q == Picks(s, Q)
           S == {n \in Nat : Bytes(p[n]) + Bytes(q[n]) = Sums(s)[n]}
<1>1. Len(s) \in Nat /\ \A n \in 1 .. Len(s) : s[n] \in T /\ (n \in Q <=> n \notin P)
  OBVIOUS
<1> HIDE DEF Q
<1>2. /\ p[0] = <<>>
      /\ \A n \in 1 .. Len(s) : p[n] = IF n \in P THEN Append(p[n - 1], s[n]) ELSE p[n - 1]
      /\ q[0] = <<>>
      /\ \A n \in 1 .. Len(s) : q[n] = IF n \in Q THEN Append(q[n - 1], s[n]) ELSE q[n - 1]
  BY PicksEquation
<1>3. \A n \in 0 .. Len(s) : p[n] \in Seq(T) /\ q[n] \in Seq(T)
  BY PicksSelect, Zenon
<1> HIDE DEF p, q
<1>4. Sums(s)[0] = 0 /\ \A n \in 1 .. Len(s) : Sums(s)[n] = Sums(s)[n - 1] + s[n].size
  BY SumsEquation, Zenon
<1>5. 0 \in S
  BY <1>2, <1>4, BytesShort
<1>6. ASSUME NEW n \in 0 .. Len(s) - 1, n \in S PROVE n + 1 \in S
  <2>1. n \in Nat /\ n \in 0 .. Len(s) /\ n + 1 \in 1 .. Len(s) /\ (n + 1) - 1 = n
    BY <1>1
  <2>2. Sums(s)[n + 1] = Sums(s)[n] + s[n + 1].size /\ s[n + 1] \in T
    BY <1>1, <1>4, <2>1, Zenon
  <2>3. Bytes(p[n]) + Bytes(q[n]) = Sums(s)[n]
    BY <1>6, Zenon
  <2>4. p[n] \in Seq(T) /\ q[n] \in Seq(T)
    BY <1>3, <2>1, Zenon
  <2>5. /\ Bytes(p[n]) \in Nat /\ Bytes(q[n]) \in Nat /\ s[n + 1].size \in Nat
        /\ Bytes(Append(p[n], s[n + 1])) = Bytes(p[n]) + s[n + 1].size
        /\ Bytes(Append(q[n], s[n + 1])) = Bytes(q[n]) + s[n + 1].size
    BY <2>2, <2>4, BytesShort, Zenon
  <2>6. CASE n + 1 \in P
    <3>1. p[n + 1] = Append(p[n], s[n + 1]) /\ q[n + 1] = q[n]
      BY <1>1, <1>2, <2>1, <2>6, Zenon
    <3>2. Bytes(p[n + 1]) = Bytes(p[n]) + s[n + 1].size /\ Bytes(q[n + 1]) = Bytes(q[n])
      BY <2>5, <3>1, Zenon
    <3>3. Bytes(p[n + 1]) + Bytes(q[n + 1]) = Sums(s)[n + 1]
      BY <2>2, <2>3, <2>5, <3>2
    <3>4. QED BY <2>1, <3>3
  <2>7. CASE n + 1 \notin P
    <3>1. p[n + 1] = p[n] /\ q[n + 1] = Append(q[n], s[n + 1])
      BY <1>1, <1>2, <2>1, <2>7, Zenon
    <3>2. Bytes(p[n + 1]) = Bytes(p[n]) /\ Bytes(q[n + 1]) = Bytes(q[n]) + s[n + 1].size
      BY <2>5, <3>1, Zenon
    <3>3. Bytes(p[n + 1]) + Bytes(q[n + 1]) = Sums(s)[n + 1]
      BY <2>2, <2>3, <2>5, <3>2
    <3>4. QED BY <2>1, <3>3
  <2>8. QED BY <2>6, <2>7, Zenon
<1>7. Len(s) \in S
  <2> HIDE DEF S
  <2>1. \A n \in 0 .. Len(s) : n \in S
    BY <1>1, <1>5, <1>6, Upwards, Zenon
  <2>2. QED BY <1>1, <2>1
<1>8. QED BY <1>7, Zenon DEF Pick, p, q, Q, Bytes

----------------------------------------------------------------------------
(* The cache as a value.                                                   *)

(* An entry that has not expired is not older than its time to live.       *)
Held(V) ==
  {e \in [key : Keys, value : V, size : Sizes, ttl : TTLs, left : Int, age : Int] :
     e.left >= 0 => e.age + e.left <= e.ttl}

(* No key is twice in the list.                                            *)
Distinct(list) == \A i, j \in 1 .. Len(list) : list[i].key = list[j].key => i = j

(* List, map and byte count describe the same entries.                     *)
Proper(c, V) ==
  /\ c.list \in Seq(Held(V))
  /\ Distinct(c.list)
  /\ c.keys = KeysOf(c.list)
  /\ c.used = Bytes(c.list)

(* The limit, and its one exception.                                       *)
Fits(c) == MaxBytes > 0 => c.used <= MaxBytes \/ Len(c.list) = 1

(* Sizes are numbers.                                                      *)
LEMMA HeldSized ==
  ASSUME NEW V
  PROVE  \A e \in Held(V) : e.size \in Nat /\ e.key \in Keys
BY CacheConstants, Zenon DEF Held

(* The keys of a list.                                                     *)
LEMMA KeyPlaces ==
  ASSUME NEW T, NEW s \in Seq(T)
  PROVE  /\ \A k : k \in KeysOf(s) <=> \E i \in 1 .. Len(s) : s[i].key = k
         /\ \A e : e \in Range(s) <=> \E i \in 1 .. Len(s) : s[i] = e
<1>1. DOMAIN s = 1 .. Len(s)
  OBVIOUS
<1>2. QED BY <1>1, Zenon DEF KeysOf, Range

(* What removeLocked leaves.                                               *)
LEMMA Removed ==
  ASSUME NEW V, NEW c, Proper(c, V), NEW ks
  PROVE  /\ Proper(removeLocked(c, ks), V)
         /\ removeLocked(c, ks).used <= c.used /\ c.used \in Nat
         /\ \A e : e \in Range(removeLocked(c, ks).list) <=> e \in Range(c.list) /\ e.key \notin ks
         /\ Len(c.list) = 1 => Len(removeLocked(c, ks).list) <= 1
         /\ Len(removeLocked(c, ks).list) = 0 => removeLocked(c, ks).used = 0
<1> DEFINE s == c.list
           P == PlacesOf(s, ks)
           Q == DOMAIN s \ P
           t == Pick(s, Q)
           d == removeLocked(c, ks)
<1>1. d.list = t /\ d.keys = c.keys \ ks /\ d.used = c.used - Bytes(Pick(s, P))
  BY Zenon DEF removeLocked
<1>2. /\ s \in Seq(Held(V)) /\ Len(s) \in Nat /\ Distinct(s)
      /\ c.keys = KeysOf(s) /\ c.used = Bytes(s)
  BY DEF Proper
<1> HIDE DEF s
<1>3. \A i \in 1 .. Len(s) : i \in Q <=> s[i].key \notin ks
  BY <1>2 DEF PlacesOf
<1>4. t \in Seq(Held(V)) /\ Selection(t, s, Q, Len(s)) /\ Pick(s, P) \in Seq(Held(V))
  BY <1>2, PickSelects, Zenon
<1>5. Bytes(Pick(s, P)) + Bytes(t) = Bytes(s)
  BY <1>2, HeldSized, PickBytes, Zenon
<1>6. Bytes(Pick(s, P)) \in Nat /\ Bytes(t) \in Nat /\ Bytes(s) \in Nat /\ Bytes(<<>>) = 0
  BY <1>2, <1>4, HeldSized, BytesShort, Zenon
<1> HIDE DEF P, Q, t, d
<1>7. PICK h : Embeds(t, h, s, Q, Len(s))
  BY <1>4, Zenon DEF Selection
<1>8. /\ \A i \in 1 .. Len(t) : h[i] \in 1 .. Len(s) /\ s[h[i]].key \notin ks /\ t[i] = s[h[i]]
      /\ \A i, j \in 1 .. Len(t) : i < j => h[i] < h[j]
      /\ \A j \in 1 .. Len(s) : s[j].key \notin ks => \E i \in 1 .. Len(t) : t[i] = s[j]
  BY <1>3, <1>7 DEF Embeds
<1>9. Len(t) \in Nat
  BY <1>4
<1>10. ASSUME NEW e PROVE e \in Range(t) <=> e \in Range(s) /\ e.key \notin ks
  <2>1. e \in Range(s) <=> \E i \in 1 .. Len(s) : s[i] = e
    BY <1>2, KeyPlaces, Zenon
  <2>2. e \in Range(t) <=> \E i \in 1 .. Len(t) : t[i] = e
    BY <1>4, KeyPlaces, Zenon
  <2>3. ASSUME NEW i \in 1 .. Len(t), t[i] = e PROVE e \in Range(s) /\ e.key \notin ks
    BY <1>8, <2>1, <2>3, Zenon
  <2>4. ASSUME NEW i \in 1 .. Len(s), s[i] = e, e.key \notin ks PROVE e \in Range(t)
    BY <1>8, <2>2, <2>4, Zenon
  <2>5. QED BY <2>1, <2>2, <2>3, <2>4, Zenon
<1>11. KeysOf(t) = KeysOf(s) \ ks
  BY <1>10, Zenon DEF KeysOf
<1>12. Distinct(t)
  <2> SUFFICES ASSUME NEW i \in 1 .. Len(t), NEW j \in 1 .. Len(t), t[i].key = t[j].key
               PROVE  i = j
    BY Zenon DEF Distinct
  <2>1. h[i] = h[j]
    <3>1. /\ h[i] \in 1 .. Len(s) /\ t[i] = s[h[i]]
          /\ h[j] \in 1 .. Len(s) /\ t[j] = s[h[j]]
      BY <1>8, Zenon
    <3>2. s[h[i]].key = s[h[j]].key
      BY <3>1, Zenon
    <3>3. QED BY <1>2, <3>1, <3>2, Zenon DEF Distinct
  <2>2. h[i] \in Nat /\ h[j] \in Nat /\ ~ (h[i] < h[j]) /\ ~ (h[j] < h[i])
    BY <1>2, <1>8, <2>1
  <2>3. QED BY <1>8, <1>9, <2>2
<1>13. Len(s) = 1 => Len(t) <= 1
  <2> SUFFICES ASSUME Len(s) = 1, ~ (Len(t) <= 1) PROVE FALSE
    BY Zenon
  <2>1. 1 \in 1 .. Len(t) /\ 2 \in 1 .. Len(t) /\ 1 < 2
    BY <1>9
  <2>2. h[1] \in 1 .. 1 /\ h[2] \in 1 .. 1 /\ h[1] < h[2]
    BY <1>8, <2>1, Zenon
  <2>3. QED BY <2>2
<1>14. Len(t) = 0 => t = <<>>
  BY <1>4
<1>15. d.used = Bytes(t)
  BY <1>1, <1>2, <1>5, <1>6
<1>16. Proper(d, V)
  BY <1>1, <1>2, <1>4, <1>11, <1>12, <1>15, Zenon DEF Proper
<1>17. d.used <= c.used /\ c.used \in Nat
  BY <1>2, <1>5, <1>6, <1>15
<1>18. Len(t) = 0 => d.used = 0
  BY <1>6, <1>14, <1>15, Zenon
<1>19. QED BY <1>1, <1>10, <1>13, <1>16, <1>17, <1>18, Zenon DEF d, s

(* The loop of evictions stops at the greatest number of entries that fit. *)
LEMMA MaxIn ==
  ASSUME NEW n \in Nat, NEW S, S \subseteq 0 .. n, S # {}
  PROVE  Max(S) \in S /\ \A i \in S : i <= Max(S)
<1> DEFINE R == {i \in Nat : n - i \in S}
<1>1. R \subseteq Nat /\ R # {}
  <2>1. PICK i \in S : TRUE
    BY Zenon
  <2>2. i \in 0 .. n /\ n - i \in Nat /\ n - (n - i) = i
    BY <2>1
  <2>3. QED BY <2>2, Zenon
<1>2. PICK m \in R : \A i \in R : ~ (<<i, m>> \in OpToRel(<, Nat))
  BY <1>1, NatLessThanWellFounded, WFMin, Zenon
<1>3. \A i \in R : ~ (i < m)
  BY <1>1, <1>2, Zenon DEF OpToRel
<1>4. n - m \in S /\ \A i \in S : i <= n - m
  <2>1. m \in Nat /\ n - m \in S
    BY <1>2, Zenon
  <2>2. ASSUME NEW i \in S PROVE i <= n - m
    <3>1. i \in 0 .. n /\ n - i \in Nat /\ n - (n - i) = i
      OBVIOUS
    <3>2. n - i \in R
      BY <3>1, Zenon
    <3>3. ~ (n - i < m)
      BY <1>3, <3>2, Zenon
    <3>4. QED BY <2>1, <3>1, <3>3
  <2>3. QED BY <2>1, <2>2, Zenon
<1>5. QED BY <1>4, Zenon DEF Max

(* The front of a proper cache is proper.                                  *)
LEMMA FrontProper ==
  ASSUME NEW V, NEW c, Proper(c, V), NEW m \in 0 .. Len(c.list), NEW d,
         d.list = SubSeq(c.list, 1, m),
         d.keys = c.keys \ KeysOf(SubSeq(c.list, m + 1, Len(c.list))),
         d.used = c.used - Bytes(SubSeq(c.list, m + 1, Len(c.list)))
  PROVE  Proper(d, V) /\ d.used <= c.used /\ c.used \in Nat
<1> DEFINE s == c.list
           t == SubSeq(s, 1, m)
           u == SubSeq(s, m + 1, Len(s))
<1>1. /\ s \in Seq(Held(V)) /\ Len(s) \in Nat /\ Distinct(s)
      /\ c.keys = KeysOf(s) /\ c.used = Bytes(s)
  BY DEF Proper
<1> HIDE DEF s
<1>2. /\ t \in Seq(Held(V)) /\ u \in Seq(Held(V)) /\ Len(t) = m /\ Len(u) = Len(s) - m
      /\ \A i \in 1 .. m : t[i] = s[i]
      /\ \A i \in 1 .. Len(s) - m : u[i] = s[m + i]
  BY <1>1 DEF s
<1>3. Bytes(t) + Bytes(u) = Bytes(s)
  BY <1>1, HeldSized, BytesSplit, Zenon DEF s
<1> HIDE DEF t, u
<1>4. Bytes(t) \in Nat /\ Bytes(u) \in Nat /\ Bytes(s) \in Nat
  BY <1>1, <1>2, HeldSized, BytesShort, Zenon
<1>5. d.used = Bytes(t) /\ d.used <= c.used /\ c.used \in Nat
  BY <1>1, <1>3, <1>4 DEF s, u
<1>6. m \in Nat /\ m <= Len(s)
  BY DEF s
<1>7. Distinct(t)
  <2>1. \A i \in 1 .. Len(t) : i \in 1 .. Len(s) /\ t[i] = s[i]
    BY <1>1, <1>2, <1>6
  <2>2. QED BY <1>1, <2>1, Zenon DEF Distinct
<1>8. KeysOf(t) = KeysOf(s) \ KeysOf(u)
  <2>1. t \in Seq(Held(V))
    BY <1>2, Zenon
  <2>2. u \in Seq(Held(V))
    BY <1>2, Zenon
  <2>3. \A k : k \in KeysOf(t) <=> \E i \in 1 .. Len(t) : t[i].key = k
    BY <2>1, KeyPlaces
  <2>4. \A k : k \in KeysOf(u) <=> \E i \in 1 .. Len(u) : u[i].key = k
    BY <2>2, KeyPlaces
  <2>5. \A k : k \in KeysOf(s) <=> \E i \in 1 .. Len(s) : s[i].key = k
    BY <1>1, KeyPlaces
  <2>6. ASSUME NEW k, k \in KeysOf(t) PROVE k \in KeysOf(s) /\ k \notin KeysOf(u)
    <3>1. PICK i \in 1 .. m : s[i].key = k
      <4>1. PICK i \in 1 .. Len(t) : t[i].key = k
        BY <2>3, <2>6, Zenon
      <4>2. QED BY <1>2, <4>1, Zenon
    <3>2. i \in 1 .. Len(s)
      BY <1>1, <1>6
    <3>3. ASSUME NEW j \in 1 .. Len(s) - m PROVE u[j].key # k
      <4>1. m + j \in 1 .. Len(s) /\ m + j # i
        BY <1>1, <1>6
      <4>2. QED BY <1>1, <1>2, <3>1, <3>2, <4>1, Zenon DEF Distinct
    <3>4. k \in KeysOf(s)
      BY <2>5, <3>1, <3>2, Zenon
    <3>5. QED BY <1>2, <2>4, <3>3, <3>4, Zenon
  <2>7. ASSUME NEW k, k \in KeysOf(s), k \notin KeysOf(u) PROVE k \in KeysOf(t)
    <3>1. PICK i \in 1 .. Len(s) : s[i].key = k
      BY <2>5, <2>7, Zenon
    <3>2. CASE i \in 1 .. m
      BY <1>2, <2>3, <3>1, <3>2, Zenon
    <3>3. CASE i \notin 1 .. m
      <4>1. i - m \in 1 .. Len(s) - m /\ m + (i - m) = i
        BY <1>1, <1>6, <3>3
      <4>2. u[i - m].key = k
        BY <1>2, <3>1, <4>1, Zenon
      <4>3. k \in KeysOf(u)
        BY <1>2, <2>4, <4>1, <4>2, Zenon
      <4>4. QED BY <2>7, <4>3, Zenon
    <3>4. QED BY <3>2, <3>3, Zenon
  <2>8. QED BY <2>6, <2>7, Zenon
<1>9. d.list = t /\ d.keys = KeysOf(t)
  BY <1>1, <1>8, Zenon DEF s, t, u
<1>10. QED BY <1>2, <1>5, <1>7, <1>9, Zenon DEF Proper

(* What the evictions leave.                                               *)
LEMMA Evicted ==
  ASSUME NEW V, NEW c, Proper(c, V), NEW limit \in Int
  PROVE  /\ Proper(evictLRU(c, limit), V)
         /\ evictLRU(c, limit).used <= c.used /\ c.used \in Nat
         /\ \E m \in 0 .. Len(c.list) : evictLRU(c, limit).list = SubSeq(c.list, 1, m)
         /\ evictLRU(c, limit).used <= limit \/ evictLRU(c, limit).list = <<>>
<1> DEFINE n == Len(c.list)
           Room == {0} \cup {i \in 0 .. n : c.used - Bytes(SubSeq(c.list, i + 1, n)) <= limit}
           m == Max(Room)
           d == evictLRU(c, limit)
<1>1. /\ d.list = SubSeq(c.list, 1, m)
      /\ d.keys = c.keys \ KeysOf(SubSeq(c.list, m + 1, n))
      /\ d.used = c.used - Bytes(SubSeq(c.list, m + 1, n))
  BY Zenon DEF evictLRU
<1>2. n \in Nat /\ c.list \in Seq(Held(V))
  BY DEF Proper
<1>3. Room \subseteq 0 .. n /\ Room # {}
  BY <1>2
<1>4. m \in Room
  <2> HIDE DEF Room
  <2>1. QED BY <1>2, <1>3, MaxIn, Zenon
<1>5. m \in 0 .. n /\ (m = 0 \/ c.used - Bytes(SubSeq(c.list, m + 1, n)) <= limit)
  BY <1>2, <1>4
<1> HIDE DEF d, m
<1>6. Proper(d, V) /\ d.used <= c.used /\ c.used \in Nat
  BY <1>1, <1>5, FrontProper, Zenon
<1>7. m = 0 => d.list = <<>>
  BY <1>1, <1>2
<1>8. QED BY <1>1, <1>5, <1>6, <1>7, Zenon DEF d

(* The list begins the history of uses.                                    *)
BeginsUses(list, uses) ==
  /\ Len(list) <= Len(uses)
  /\ \A i \in 1 .. Len(list) : list[i].key = uses[i]

(* What removeLocked leaves of the list, and Forget of the history.        *)
Without(list, ks) == Pick(list, DOMAIN list \ PlacesOf(list, ks))
Unused(uses, ks) == Pick(uses, {i \in DOMAIN uses : uses[i] \notin ks})

(* Removing the same keys from both keeps that.                            *)
LEMMA RemovedOrder ==
  ASSUME NEW T, NEW s \in Seq(T), NEW U, NEW r \in Seq(U), BeginsUses(s, r), NEW ks
  PROVE  BeginsUses(Without(s, ks), Unused(r, ks))
<1> DEFINE P == DOMAIN s \ PlacesOf(s, ks)
           Q == {i \in DOMAIN r : r[i] \notin ks}
           p == Picks(s, P)
           q == Picks(r, Q)
           a == Len(s)
           b == Len(r) - Len(s)
           Same(n) == BeginsUses(p[n], q[n]) /\ Len(p[n]) = Len(q[n])
           S == {n \in Nat : Same(n)}
           R == {n \in Nat : BeginsUses(p[a], q[a + n])}
<1>1. /\ a \in Nat /\ b \in Nat /\ Len(r) = a + b
      /\ \A n \in 1 .. a : n \in 1 .. Len(r) /\ s[n].key = r[n] /\ s[n] \in T
      /\ \A n \in 1 .. Len(r) : r[n] \in U
  BY DEF BeginsUses
<1>2. \A n \in 1 .. a : n \in P <=> n \in Q
  BY <1>1 DEF PlacesOf
<1> HIDE DEF P, Q
<1>3. /\ p[0] = <<>>
      /\ \A n \in 1 .. a : p[n] = IF n \in P THEN Append(p[n - 1], s[n]) ELSE p[n - 1]
      /\ q[0] = <<>>
      /\ \A n \in 1 .. Len(r) : q[n] = IF n \in Q THEN Append(q[n - 1], r[n]) ELSE q[n - 1]
  BY PicksEquation
<1>4. /\ \A n \in 0 .. a : p[n] \in Seq(T)
      /\ \A n \in 0 .. Len(r) : q[n] \in Seq(U)
  BY PicksSelect, Zenon
<1> HIDE DEF p, q
<1>5. 0 \in S
  BY <1>3 DEF BeginsUses
<1>6. ASSUME NEW n \in 0 .. a - 1, n \in S PROVE n + 1 \in S
  <2>1. /\ n \in Nat /\ n \in 0 .. a /\ n \in 0 .. Len(r) /\ n + 1 \in 1 .. a
        /\ n + 1 \in 1 .. Len(r) /\ (n + 1) - 1 = n
    BY <1>1
  <2>2. Same(n) /\ p[n] \in Seq(T) /\ q[n] \in Seq(U) /\ s[n + 1].key = r[n + 1]
        /\ s[n + 1] \in T /\ r[n + 1] \in U
    BY <1>1, <1>4, <1>6, <2>1, Zenon
  <2>3. CASE n + 1 \in P
    <3>1. p[n + 1] = Append(p[n], s[n + 1]) /\ q[n + 1] = Append(q[n], r[n + 1])
      BY <1>2, <1>3, <2>1, <2>3, Zenon
    <3> DEFINE x == p[n]
               y == q[n]
               x1 == Append(x, s[n + 1])
               y1 == Append(y, r[n + 1])
    <3>2. x \in Seq(T) /\ y \in Seq(U) /\ BeginsUses(x, y) /\ Len(x) = Len(y)
      BY <2>2, Zenon
    <3> HIDE DEF x, y
    <3>3. /\ Len(x1) = Len(x) + 1 /\ Len(y1) = Len(x) + 1 /\ Len(x) \in Nat
          /\ x1[Len(x) + 1] = s[n + 1] /\ y1[Len(x) + 1] = r[n + 1]
          /\ \A i \in 1 .. Len(x) : x1[i] = x[i] /\ y1[i] = y[i]
      BY <2>2, <3>2
    <3> HIDE DEF x1, y1
    <3>4. ASSUME NEW i \in 1 .. Len(x1) PROVE x1[i].key = y1[i]
      <4>1. CASE i = Len(x) + 1
        BY <2>2, <3>3, <4>1, Zenon
      <4>2. CASE i \in 1 .. Len(x)
        <5>1. x[i].key = y[i]
          BY <3>2, <4>2, Zenon DEF BeginsUses
        <5>2. QED BY <3>3, <4>2, <5>1, Zenon
      <4>3. QED BY <3>3, <4>1, <4>2
    <3>5. Len(x1) <= Len(y1) /\ Len(x1) = Len(y1)
      BY <3>3
    <3>6. Same(n + 1)
      BY <3>1, <3>4, <3>5, Zenon DEF BeginsUses, x1, y1, x, y
    <3>7. QED BY <2>1, <3>6
  <2>4. CASE n + 1 \notin P
    <3>1. p[n + 1] = p[n] /\ q[n + 1] = q[n]
      BY <1>2, <1>3, <2>1, <2>4, Zenon
    <3>2. QED BY <2>1, <2>2, <3>1
  <2>5. QED BY <2>3, <2>4, Zenon
<1>7. a \in S
  <2> HIDE DEF S
  <2>1. \A n \in 0 .. a : n \in S
    BY <1>1, <1>5, <1>6, Upwards, Zenon
  <2>2. QED BY <1>1, <2>1
<1>8. 0 \in R
  BY <1>1, <1>7
<1>9. ASSUME NEW n \in 0 .. b - 1, n \in R PROVE n + 1 \in R
  <2>1. /\ n \in Nat /\ a + n \in 0 .. Len(r) /\ a + (n + 1) \in 1 .. Len(r)
        /\ (a + (n + 1)) - 1 = a + n /\ a \in 0 .. a
    BY <1>1
  <2>2. BeginsUses(p[a], q[a + n]) /\ q[a + n] \in Seq(U) /\ r[a + (n + 1)] \in U /\ p[a] \in Seq(T)
    BY <1>1, <1>4, <1>9, <2>1, Zenon
  <2>3. \A x \in Seq(T), y \in Seq(U), k \in U : BeginsUses(x, y) => BeginsUses(x, Append(y, k))
    <3> SUFFICES ASSUME NEW x \in Seq(T), NEW y \in Seq(U), NEW k \in U, BeginsUses(x, y)
                 PROVE  BeginsUses(x, Append(y, k))
      BY Zenon
    <3>1. /\ Len(Append(y, k)) = Len(y) + 1 /\ Len(x) <= Len(y) /\ Len(x) \in Nat /\ Len(y) \in Nat
          /\ \A i \in 1 .. Len(y) : Append(y, k)[i] = y[i]
      BY DEF BeginsUses
    <3>2. \A i \in 1 .. Len(x) : i \in 1 .. Len(y)
      BY <3>1
    <3>3. Len(x) <= Len(Append(y, k))
      BY <3>1
    <3>4. QED BY <3>1, <3>2, <3>3, Zenon DEF BeginsUses
  <2>4. q[a + (n + 1)] = Append(q[a + n], r[a + (n + 1)]) \/ q[a + (n + 1)] = q[a + n]
    BY <1>3, <2>1, Zenon
  <2>5. BeginsUses(p[a], q[a + (n + 1)])
    BY <2>2, <2>3, <2>4, Zenon
  <2>6. QED BY <2>1, <2>5
<1>10. b \in R
  <2> HIDE DEF R
  <2>1. \A n \in 0 .. b : n \in R
    BY <1>1, <1>8, <1>9, Upwards, Zenon
  <2>2. QED BY <1>1, <2>1
<1>11. BeginsUses(p[a], q[Len(r)])
  BY <1>1, <1>10, Zenon
<1>12. QED BY <1>11, Zenon DEF Without, Unused, Pick, p, q, P, Q

(* A key of the map has one entry, and the rest weighs that much less.     *)
LEMMA RemovedOne ==
  ASSUME NEW V, NEW c, Proper(c, V), NEW e \in Range(c.list)
  PROVE  /\ e \in Held(V)
         /\ removeLocked(c, {e.key}).used + e.size = c.used
         /\ Len(c.list) = 1 => removeLocked(c, {e.key}).list = <<>>
         /\ \A x \in Range(c.list) : x.key = e.key => x = e
<1> DEFINE s == c.list
           k == e.key
           P == PlacesOf(s, {k})
           t == Pick(s, P)
           d == removeLocked(c, {k})
<1>1. /\ s \in Seq(Held(V)) /\ Len(s) \in Nat /\ Distinct(s)
      /\ c.keys = KeysOf(s) /\ c.used = Bytes(s)
  BY DEF Proper
<1>2. d.used = c.used - Bytes(t) /\ d.list \in Seq(Held(V))
  <2>1. d.used = c.used - Bytes(t)
    BY Zenon DEF removeLocked
  <2>2. QED BY <2>1, Removed, Zenon DEF Proper
<1> HIDE DEF s, d
<1>3. PICK p \in 1 .. Len(s) : s[p] = e
  BY <1>1, KeyPlaces, Zenon DEF s
<1>4. e \in Held(V)
  BY <1>1, <1>3
<1>5. \A i \in 1 .. Len(s) : i \in P <=> i = p
  BY <1>1, <1>3 DEF PlacesOf, Distinct
<1>6. t \in Seq(Held(V)) /\ Selection(t, s, P, Len(s))
  BY <1>1, PickSelects, Zenon
<1> HIDE DEF P, t
<1>7. PICK h : Embeds(t, h, s, P, Len(s))
  BY <1>6, Zenon DEF Selection
<1>8. /\ \A i \in 1 .. Len(t) : h[i] = p /\ t[i] = s[h[i]]
      /\ \A i, j \in 1 .. Len(t) : i < j => h[i] < h[j]
      /\ \E i \in 1 .. Len(t) : h[i] = p
  BY <1>3, <1>5, <1>7, Zenon DEF Embeds
<1>9. Len(t) \in Nat /\ p \in Nat
  BY <1>3, <1>6
<1>10. Len(t) = 1
  <2>1. Len(t) >= 1
    BY <1>8, <1>9
  <2>2. ~ (Len(t) >= 2)
    <3> SUFFICES ASSUME Len(t) >= 2 PROVE FALSE
      BY Zenon
    <3>1. 1 \in 1 .. Len(t) /\ 2 \in 1 .. Len(t) /\ 1 < 2
      BY <1>9
    <3>2. p < p
      BY <1>8, <3>1, Zenon
    <3>3. QED BY <1>9, <3>2
  <2>3. \A n \in Nat : n >= 1 /\ ~ (n >= 2) => n = 1
    OBVIOUS
  <2>4. QED BY <1>9, <2>1, <2>2, <2>3, Zenon
<1>11. t[1] = e
  BY <1>3, <1>8, <1>10
<1>12. t = <<e>>
  BY <1>6, <1>10, <1>11
<1>13. Bytes(t) = e.size /\ e.size \in Nat /\ Bytes(s) \in Nat
  BY <1>1, <1>4, <1>12, HeldSized, BytesShort, Zenon
<1>14. d.used + e.size = c.used
  BY <1>1, <1>2, <1>13
<1>15. ASSUME NEW x \in Range(s), x.key = e.key PROVE x = e
  <2>1. PICK i \in 1 .. Len(s) : s[i] = x
    BY <1>1, KeyPlaces, Zenon
  <2>2. i = p
    BY <1>1, <1>3, <1>15, <2>1, Zenon DEF Distinct
  <2>3. QED BY <1>3, <2>1, <2>2, Zenon
<1>16. ASSUME Len(s) = 1 PROVE d.list = <<>>
  <2>1. \A x : x \in Range(d.list) <=> x \in Range(s) /\ x.key \notin {k}
    BY Removed, Zenon DEF d, s
  <2>2. \A i \in 1 .. Len(s) : i = p
    BY <1>3, <1>16
  <2>3. \A x \in Range(s) : x = e
    BY <1>1, <1>3, <2>2, KeyPlaces, Zenon
  <2>4. Len(d.list) \in Nat /\ \A i \in 1 .. Len(d.list) : d.list[i] \in Range(d.list)
    BY <1>2, KeyPlaces
  <2>5. Range(d.list) = {}
    BY <2>1, <2>3, Zenon
  <2>6. Len(d.list) = 0
    BY <2>4, <2>5
  <2>7. QED BY <1>2, <2>6
<1>17. QED BY <1>4, <1>14, <1>15, <1>16, Zenon DEF s, d

(* The cache as its operations keep it, with the history of uses.          *)
Sound(c, u, V) ==
  /\ Proper(c, V)
  /\ Fits(c)
  /\ BeginsUses(c.list, u)
  /\ u \in Seq(Keys)

(* Only the three fields matter.                                           *)
LEMMA SameSound ==
  ASSUME NEW V, NEW c, NEW d, NEW u, d.list = c.list, d.keys = c.keys, d.used = c.used,
         Sound(c, u, V)
  PROVE  Sound(d, u, V)
BY Zenon DEF Sound, Proper, Fits

(* The byte count is a number, and none is used by no entry.               *)
LEMMA UsedNumber ==
  ASSUME NEW V, NEW c, Proper(c, V)
  PROVE  /\ c.used \in Nat /\ Len(c.list) \in Nat
         /\ Len(c.list) = 0 => c.used = 0
         /\ c.list = <<>> => c.used = 0
<1>1. c.list \in Seq(Held(V)) /\ c.used = Bytes(c.list)
  BY Zenon DEF Proper
<1>2. Bytes(c.list) \in Nat /\ Bytes(<<>>) = 0
  BY <1>1, HeldSized, BytesShort, Zenon
<1>3. Len(c.list) = 0 => c.list = <<>>
  BY <1>1
<1>4. QED BY <1>1, <1>2, <1>3

(* Removing keys.                                                          *)
LEMMA SoundRemove ==
  ASSUME NEW V, NEW c, NEW u, Sound(c, u, V), NEW ks
  PROVE  Sound(removeLocked(c, ks), Unused(u, ks), V)
<1> DEFINE d == removeLocked(c, ks)
           v == Unused(u, ks)
<1>1. Proper(c, V) /\ Fits(c) /\ BeginsUses(c.list, u) /\ u \in Seq(Keys)
  BY Zenon DEF Sound
<1>2. /\ Proper(d, V) /\ d.used <= c.used
      /\ Len(c.list) = 1 => Len(d.list) <= 1
      /\ Len(d.list) = 0 => d.used = 0
  BY <1>1, Removed, Zenon
<1>3. d.list = Pick(c.list, DOMAIN c.list \ PlacesOf(c.list, ks))
  BY Zenon DEF removeLocked
<1> HIDE DEF d
<1>4. BeginsUses(d.list, v)
  <2>1. c.list \in Seq(Held(V))
    BY <1>1, Zenon DEF Proper
  <2>2. BeginsUses(Without(c.list, ks), Unused(u, ks))
    BY <1>1, <2>1, RemovedOrder, Zenon
  <2>3. QED BY <1>3, <2>2, Zenon DEF Without
<1>5. v \in Seq(Keys)
  BY <1>1, PickSelects, Zenon DEF Unused
<1>6. d.used \in Nat /\ c.used \in Nat /\ Len(d.list) \in Nat /\ MaxBytes \in Nat
  BY <1>1, <1>2, UsedNumber, CacheConstants, Zenon
<1>7. Fits(d)
  <2>1. \A a, b, m, n \in Nat : a <= b /\ b <= m => a <= m
    OBVIOUS
  <2>2. \A m, n \in Nat : 0 <= m /\ (n <= 1 => n = 0 \/ n = 1)
    OBVIOUS
  <2>3. QED BY <1>1, <1>2, <1>6, <2>1, <2>2, Zenon DEF Fits
<1>8. QED BY <1>2, <1>4, <1>5, <1>7, Zenon DEF Sound, d

(* Evicting.                                                               *)
LEMMA SoundEvict ==
  ASSUME NEW V, NEW c, NEW u, Sound(c, u, V), NEW limit \in Int
  PROVE  /\ Sound(evictLRU(c, limit), u, V)
         /\ Range(evictLRU(c, limit).list) \subseteq Range(c.list)
         /\ evictLRU(c, limit).used <= limit \/ evictLRU(c, limit).list = <<>>
<1> DEFINE d == evictLRU(c, limit)
<1>1. /\ Proper(c, V) /\ Fits(c) /\ BeginsUses(c.list, u) /\ u \in Seq(Keys)
      /\ c.list \in Seq(Held(V))
  BY Zenon DEF Sound, Proper
<1>2. /\ Proper(d, V) /\ d.used <= c.used
      /\ \E m \in 0 .. Len(c.list) : d.list = SubSeq(c.list, 1, m)
      /\ d.used <= limit \/ d.list = <<>>
  BY <1>1, Evicted, Zenon
<1> HIDE DEF d
<1>3. PICK m \in 0 .. Len(c.list) : d.list = SubSeq(c.list, 1, m)
  BY <1>2, Zenon
<1>4. /\ Len(d.list) = m /\ m \in Nat /\ Len(c.list) \in Nat /\ m <= Len(c.list)
      /\ \A i \in 1 .. m : i \in 1 .. Len(c.list) /\ d.list[i] = c.list[i]
  BY <1>1, <1>3
<1>5. d.used \in Nat /\ c.used \in Nat /\ MaxBytes \in Nat /\ (Len(d.list) = 0 => d.used = 0)
  BY <1>1, <1>2, UsedNumber, CacheConstants, Zenon
<1>6. Fits(d)
  BY <1>1, <1>2, <1>4, <1>5 DEF Fits
<1>7. BeginsUses(d.list, u)
  <2>1. Len(c.list) <= Len(u) /\ Len(u) \in Nat
    BY <1>1 DEF BeginsUses
  <2>2. Len(d.list) <= Len(u)
    BY <1>4, <2>1
  <2>3. \A i \in 1 .. Len(d.list) : d.list[i].key = u[i]
    BY <1>1, <1>4, Zenon DEF BeginsUses
  <2>4. QED BY <2>2, <2>3, Zenon DEF BeginsUses
<1>8. \A e \in Range(d.list) : e \in Range(c.list)
  <2>1. d.list \in Seq(Held(V))
    BY <1>2, Zenon DEF Proper
  <2>2. QED BY <1>1, <1>4, <2>1, KeyPlaces
<1>9. QED BY <1>1, <1>2, <1>6, <1>7, <1>8, Zenon DEF Sound, d

(* An entry with a new key at the front.                                   *)
LEMMA SoundFront ==
  ASSUME NEW V, NEW d, NEW u, Proper(d, V), BeginsUses(d.list, u), u \in Seq(Keys),
         NEW e \in Held(V), e.key \notin d.keys, NEW c,
         c.list = <<e>> \o d.list, c.keys = d.keys \cup {e.key}, c.used = d.used + e.size,
         MaxBytes > 0 => d.used + e.size <= MaxBytes \/ d.list = <<>>
  PROVE  Sound(c, <<e.key>> \o u, V)
<1> DEFINE s == d.list
           t == <<e>> \o s
           v == <<e.key>> \o u
<1>1. s \in Seq(Held(V)) /\ Distinct(s) /\ d.keys = KeysOf(s) /\ d.used = Bytes(s)
  BY Zenon DEF Proper
<1>2. e.key \in Keys /\ e.size \in Nat
  BY HeldSized, Zenon
<1>3. BeginsUses(s, u) /\ e.key \notin KeysOf(s) /\ c.list = t
  BY <1>1, Zenon
<1> HIDE DEF s
<1>4. /\ t \in Seq(Held(V)) /\ Len(t) = Len(s) + 1 /\ Len(s) \in Nat /\ t[1] = e
      /\ \A i \in 1 .. Len(s) : t[i + 1] = s[i]
  BY <1>1
<1>5. /\ v \in Seq(Keys) /\ Len(v) = Len(u) + 1 /\ Len(u) \in Nat /\ v[1] = e.key
      /\ \A i \in 1 .. Len(u) : v[i + 1] = u[i]
  BY <1>2
<1>6. Bytes(t) = e.size + Bytes(s)
  <2>1. <<e>> \in Seq(Held(V))
    OBVIOUS
  <2>2. Bytes(t) = Bytes(<<e>>) + Bytes(s)
    BY <1>1, <2>1, HeldSized, BytesConcat, Zenon
  <2>3. Bytes(<<e>>) = e.size
    BY HeldSized, BytesShort, Zenon
  <2>4. QED BY <2>2, <2>3, Zenon
<1> HIDE DEF t, v
<1>7. \A i \in 1 .. Len(t) : i = 1 \/ (i - 1 \in 1 .. Len(s) /\ i = (i - 1) + 1)
  BY <1>4
<1>8. \A i \in 1 .. Len(t) : i = 1 \/ (i - 1 \in 1 .. Len(s) /\ t[i] = s[i - 1])
  BY <1>4, <1>7, Zenon
<1>9. 1 \in 1 .. Len(t) /\ \A i \in 1 .. Len(s) : i + 1 \in 1 .. Len(t)
  BY <1>4
<1>10. \A k : k \in KeysOf(t) <=> k = e.key \/ k \in KeysOf(s)
  <2>1. \A k : k \in KeysOf(t) <=> \E i \in 1 .. Len(t) : t[i].key = k
    BY <1>4, KeyPlaces
  <2>2. \A k : k \in KeysOf(s) <=> \E i \in 1 .. Len(s) : s[i].key = k
    BY <1>1, KeyPlaces, Zenon
  <2> TAKE k
  <2>3. ASSUME k \in KeysOf(t) PROVE k = e.key \/ k \in KeysOf(s)
    <3>1. PICK i \in 1 .. Len(t) : t[i].key = k
      BY <2>1, <2>3, Zenon
    <3>2. i = 1 \/ (i - 1 \in 1 .. Len(s) /\ s[i - 1].key = k)
      BY <1>8, <3>1, Zenon
    <3>3. QED BY <1>4, <2>2, <3>1, <3>2, Zenon
  <2>4. ASSUME k = e.key PROVE k \in KeysOf(t)
    BY <1>4, <1>9, <2>1, <2>4, Zenon
  <2>5. ASSUME k \in KeysOf(s) PROVE k \in KeysOf(t)
    <3>1. PICK i \in 1 .. Len(s) : s[i].key = k
      BY <2>2, <2>5, Zenon
    <3>2. t[i + 1].key = k /\ i + 1 \in 1 .. Len(t)
      BY <1>4, <1>9, <3>1, Zenon
    <3>3. QED BY <2>1, <3>2, Zenon
  <2>6. QED BY <2>3, <2>4, <2>5, Zenon
<1>11. Distinct(t)
  <2> SUFFICES ASSUME NEW i \in 1 .. Len(t), NEW j \in 1 .. Len(t), t[i].key = t[j].key
               PROVE  i = j
    BY Zenon DEF Distinct
  <2>1. \A n \in 1 .. Len(s) : s[n].key # e.key
    BY <1>1, <1>3, KeyPlaces, Zenon
  <2>2. CASE i = 1 /\ j = 1
    BY <2>2, Zenon
  <2>3. CASE i # 1 /\ j # 1
    <3>1. i - 1 \in 1 .. Len(s) /\ j - 1 \in 1 .. Len(s) /\ s[i - 1].key = s[j - 1].key
      BY <1>8, <2>3, Zenon
    <3>2. i - 1 = j - 1
      BY <1>1, <3>1, Zenon DEF Distinct
    <3>3. QED BY <1>4, <3>2
  <2>4. CASE i = 1 /\ j # 1
    <3>1. j - 1 \in 1 .. Len(s) /\ s[j - 1].key = t[j].key
      BY <1>8, <2>4, Zenon
    <3>2. QED BY <1>4, <2>1, <2>4, <3>1, Zenon
  <2>5. CASE i # 1 /\ j = 1
    <3>1. i - 1 \in 1 .. Len(s) /\ s[i - 1].key = t[i].key
      BY <1>8, <2>5, Zenon
    <3>2. QED BY <1>4, <2>1, <2>5, <3>1, Zenon
  <2>6. QED BY <2>2, <2>3, <2>4, <2>5, Zenon
<1>12. BeginsUses(t, v)
  <2>1. Len(s) <= Len(u) /\ \A i \in 1 .. Len(s) : s[i].key = u[i]
    BY <1>3, Zenon DEF BeginsUses
  <2>2. Len(t) <= Len(v) /\ \A i \in 1 .. Len(s) : i \in 1 .. Len(u)
    BY <1>4, <1>5, <2>1
  <2>3. ASSUME NEW i \in 1 .. Len(t) PROVE t[i].key = v[i]
    <3>1. CASE i = 1
      BY <1>4, <1>5, <3>1, Zenon
    <3>2. CASE i # 1
      <4>1. i - 1 \in 1 .. Len(s) /\ i = (i - 1) + 1 /\ t[i] = s[i - 1]
        BY <1>7, <1>8, <3>2, Zenon
      <4>2. t[i].key = u[i - 1]
        BY <2>1, <4>1, Zenon
      <4>3. v[i] = u[i - 1]
        BY <1>5, <2>2, <4>1, Zenon
      <4>4. QED BY <4>2, <4>3, Zenon
    <3>3. QED BY <3>1, <3>2, Zenon
  <2>4. QED BY <2>2, <2>3, Zenon DEF BeginsUses
<1>13. c.keys = KeysOf(t)
  BY <1>1, <1>10, Zenon
<1>14. c.used = Bytes(t)
  <2>1. Bytes(s) \in Nat
    BY <1>1, HeldSized, BytesShort, Zenon
  <2>2. \A a, b \in Nat : a + b = b + a
    OBVIOUS
  <2>3. QED BY <1>1, <1>2, <1>6, <2>1, <2>2, Zenon
<1>15. Proper(c, V)
  BY <1>3, <1>4, <1>11, <1>13, <1>14, Zenon DEF Proper
<1>16. Fits(c)
  <2>1. d.list = <<>> => Len(t) = 1
    BY <1>4 DEF s
  <2>2. QED BY <1>3, <2>1, Zenon DEF Fits
<1>17. QED BY <1>3, <1>5, <1>12, <1>15, <1>16, Zenon DEF Sound, v

(* Its elements.                                                           *)
LEMMA RangeFront ==
  ASSUME NEW V, NEW d, Proper(d, V), NEW e \in Held(V)
  PROVE  \A x \in Range(<<e>> \o d.list) : x = e \/ x \in Range(d.list)
<1> DEFINE s == d.list
           t == <<e>> \o s
<1>1. s \in Seq(Held(V))
  BY Zenon DEF Proper
<1> HIDE DEF s
<1>2. /\ t \in Seq(Held(V)) /\ Len(t) = Len(s) + 1 /\ Len(s) \in Nat /\ t[1] = e
      /\ \A i \in 1 .. Len(s) : t[i + 1] = s[i]
  BY <1>1
<1> HIDE DEF t
<1>3. ASSUME NEW x \in Range(t) PROVE x = e \/ x \in Range(s)
  <2>1. PICK i \in 1 .. Len(t) : t[i] = x
    BY <1>2, KeyPlaces
  <2>2. i = 1 \/ (i - 1 \in 1 .. Len(s) /\ i = (i - 1) + 1)
    BY <1>2
  <2>3. i = 1 \/ (i - 1 \in 1 .. Len(s) /\ s[i - 1] = x)
    BY <1>2, <2>1, <2>2, Zenon
  <2>4. QED BY <1>1, <1>2, <2>1, <2>3, KeyPlaces, Zenon
<1>4. QED BY <1>3, Zenon DEF s, t

(* Lists of the same sizes have the same bytes.                            *)
LEMMA BytesSame ==
  ASSUME NEW T, NEW s \in Seq(T), NEW t \in Seq(T), Len(t) = Len(s),
         \A i \in 1 .. Len(s) : t[i].size = s[i].size
  PROVE  Bytes(t) = Bytes(s)
<1> DEFINE S == {n \in Nat : Sums(t)[n] = Sums(s)[n]}
           N == Len(s)
<1>1. N \in Nat
  OBVIOUS
<1>2. /\ Sums(s)[0] = 0 /\ \A n \in 1 .. N : Sums(s)[n] = Sums(s)[n - 1] + s[n].size
      /\ Sums(t)[0] = 0 /\ \A n \in 1 .. N : Sums(t)[n] = Sums(t)[n - 1] + t[n].size
  BY SumsEquation, Zenon
<1> HIDE DEF N
<1>3. 0 \in S
  BY <1>2, Zenon
<1>4. ASSUME NEW n \in 0 .. N - 1, n \in S PROVE n + 1 \in S
  <2>1. n \in Nat /\ n + 1 \in Nat /\ n + 1 \in 1 .. N /\ (n + 1) - 1 = n
    BY <1>1
  <2>2. t[n + 1].size = s[n + 1].size
    BY <2>1, Zenon DEF N
  <2>3. Sums(t)[n + 1] = Sums(s)[n + 1]
    BY <1>2, <1>4, <2>1, <2>2, Zenon
  <2>4. QED BY <2>1, <2>3, Zenon
<1> HIDE DEF S
<1>5. \A n \in 0 .. N : n \in S
  BY <1>1, <1>3, <1>4, Upwards, Zenon
<1>6. N \in S
  BY <1>1, <1>5
<1>7. Sums(t)[N] = Sums(s)[N]
  BY <1>6, Zenon DEF S
<1>8. QED BY <1>7, Zenon DEF Bytes, N

(* The invariant of the cache, for responses in V.                         *)
CacheInv(V) == Sound(Cache, recency, V)

(* What the actions assign is what the locked helpers made.                *)
LEMMA Became ==
  ASSUME NEW V, NEW c, NEW u, Sound(c, u, V), Become(c), recency' = u
  PROVE  CacheInv(V)'
<1>1. Cache'.list = c.list /\ Cache'.keys = c.keys /\ Cache'.used = c.used
  BY Zenon DEF Become, Cache
<1>2. Sound(Cache', u, V)
  BY <1>1, SameSound, Zenon
<1>3. QED BY <1>2, Zenon DEF CacheInv

(* What the invariant says of the variables.                               *)
LEMMA CacheFacts ==
  ASSUME NEW V, CacheInv(V)
  PROVE  /\ Sound(Cache, recency, V) /\ Proper(Cache, V) /\ Fits(Cache)
         /\ Cache.list = lruList /\ Cache.keys = entries /\ Cache.used = usedBytes
         /\ lruList \in Seq(Held(V)) /\ entries = KeysOf(lruList)
         /\ BeginsUses(lruList, recency) /\ recency \in Seq(Keys)
<1>1. Cache.list = lruList /\ Cache.keys = entries /\ Cache.used = usedBytes
  BY Zenon DEF Cache
<1>2. QED BY <1>1, Zenon DEF CacheInv, Sound, Proper

(* Every key of the map has its entry, and a hit's has not expired.        *)
LEMMA EntryFound ==
  ASSUME NEW V, CacheInv(V), NEW k \in entries
  PROVE  /\ EntryOf(k) \in Range(lruList) /\ EntryOf(k).key = k
         /\ Hit(k) => ~ (EntryOf(k).left < 0)
<1>1. PICK e \in Range(lruList) : e.key = k
  BY CacheFacts, Zenon DEF KeysOf
<1>2. EntryOf(k) \in Range(lruList) /\ EntryOf(k).key = k
  BY <1>1, Zenon DEF EntryOf
<1>3. QED BY <1>2, Zenon DEF Hit, Expired

(* Get keeps the invariant and adds no entry.                              *)
LEMMA GetStep ==
  ASSUME NEW V, CacheInv(V), NEW k, Get(k)
  PROVE  CacheInv(V)' /\ \A x \in Range(lruList') : x \in Range(lruList)
<1> DEFINE d == removeLocked(Cache, {k})
           u == Unused(recency, {k})
<1>1. /\ Sound(Cache, recency, V) /\ Proper(Cache, V) /\ Fits(Cache)
      /\ Cache.list = lruList /\ Cache.keys = entries /\ Cache.used = usedBytes
  BY CacheFacts, Zenon
<1>2. Sound(d, u, V)
  BY <1>1, SoundRemove, Zenon
<1>3. \A x : x \in Range(d.list) <=> x \in Range(lruList) /\ x.key \notin {k}
  BY <1>1, Removed, Zenon
<1>4. CASE ~ Hit(k)
  <2>1. Become(d) /\ recency' = u
    BY <1>4, Zenon DEF Get, Forget, Unused
  <2>2. CacheInv(V)'
    BY <1>2, <2>1, Became, Zenon
  <2>3. lruList' = d.list
    BY <2>1, Zenon DEF Become
  <2>4. QED BY <1>3, <2>2, <2>3, Zenon
<1>5. CASE Hit(k)
  <2> DEFINE e == EntryOf(k)
             c == [list |-> <<e>> \o d.list, keys |-> entries, used |-> usedBytes]
             v == <<k>> \o u
  <2>1. k \in entries
    BY <1>5, Zenon DEF Hit
  <2>2. e \in Range(lruList) /\ e.key = k
    BY <2>1, EntryFound, Zenon
  <2>3. /\ lruList' = <<e>> \o d.list /\ UNCHANGED <<entries, usedBytes>> /\ recency' = v
    BY <1>5, Zenon DEF Get, ToFront, Forget, Unused
  <2>4. d.keys = entries \ {k}
    BY <1>1, Zenon DEF removeLocked
  <2> HIDE DEF e, d, u
  <2>5. c.list = <<e>> \o d.list /\ c.keys = entries /\ c.used = usedBytes
    BY Zenon
  <2> HIDE DEF c
  <2>6. /\ e \in Held(V) /\ d.used + e.size = usedBytes
        /\ Len(lruList) = 1 => d.list = <<>>
    BY <1>1, <2>2, RemovedOne, Zenon DEF d
  <2>7. e.key \notin d.keys /\ entries = d.keys \cup {e.key}
    BY <2>1, <2>2, <2>4, Zenon
  <2>8. MaxBytes > 0 => d.used + e.size <= MaxBytes \/ d.list = <<>>
    BY <1>1, <2>6, Zenon DEF Fits
  <2>9. Proper(d, V) /\ BeginsUses(d.list, u) /\ u \in Seq(Keys)
    BY <1>2, Zenon DEF Sound
  <2>10. Sound(c, <<e.key>> \o u, V)
    BY <2>5, <2>6, <2>7, <2>8, <2>9, SoundFront, Zenon
  <2>11. Sound(c, v, V)
    BY <2>2, <2>10, Zenon
  <2>12. Become(c) /\ recency' = v
    BY <2>3, <2>5, Zenon DEF Become
  <2>13. CacheInv(V)'
    BY <2>11, <2>12, Became, Zenon
  <2>14. \A x \in Range(<<e>> \o d.list) : x = e \/ x \in Range(d.list)
    BY <2>6, <2>9, RangeFront, Zenon
  <2>15. QED BY <1>3, <2>2, <2>3, <2>13, <2>14, Zenon
<1>6. QED BY <1>4, <1>5, Zenon

(* Set keeps the invariant and adds one entry, in place of the key's.      *)
LEMMA SetStep ==
  ASSUME NEW V, CacheInv(V), NEW k \in Keys, NEW v \in V, NEW size \in Sizes, NEW ttl \in TTLs,
         Set(k, v, size, ttl)
  PROVE  /\ CacheInv(V)'
         /\ \A x \in Range(lruList') : x \in Range(lruList) \/ (x.key = k /\ x.value = v)
<1> DEFINE d == removeLocked(Cache, {k})
           u == Unused(recency, {k})
           room == IF MaxBytes = 0 THEN d ELSE evictLRU(d, MaxBytes - size)
           e == [key |-> k, value |-> v, size |-> size, ttl |-> ttl, left |-> ttl, age |-> 0]
           c == [list |-> <<e>> \o room.list,
                 keys |-> room.keys \cup {k},
                 used |-> room.used + size]
<1>1. Sound(Cache, recency, V) /\ Proper(Cache, V) /\ Cache.list = lruList
  BY CacheFacts, Zenon
<1>2. Become(c) /\ recency' = <<k>> \o u
  BY Zenon DEF Set, ToFront, Forget, Unused
<1>3. Sound(d, u, V)
  BY <1>1, SoundRemove, Zenon
<1>4. \A x : x \in Range(d.list) <=> x \in Range(lruList) /\ x.key \notin {k}
  BY <1>1, Removed, Zenon
<1>5. size \in Nat /\ ttl \in Nat /\ MaxBytes \in Nat /\ MaxBytes - size \in Int
  BY CacheConstants
<1> HIDE DEF d, u
<1>6. /\ Sound(room, u, V)
      /\ Range(room.list) \subseteq Range(d.list)
      /\ MaxBytes # 0 => room.used <= MaxBytes - size \/ room.list = <<>>
  BY <1>3, <1>5, SoundEvict, Zenon
<1> HIDE DEF room
<1>7. e \in Held(V) /\ e.key = k /\ e.value = v /\ e.size = size
  BY <1>5 DEF Held
<1>8. c.list = <<e>> \o room.list /\ c.keys = room.keys \cup {k} /\ c.used = room.used + size
  BY Zenon
<1> HIDE DEF e, c
<1>9. Proper(room, V) /\ BeginsUses(room.list, u) /\ u \in Seq(Keys)
  BY <1>6, Zenon DEF Sound
<1>10. k \notin room.keys
  <2>1. room.keys = KeysOf(room.list)
    BY <1>9, Zenon DEF Proper
  <2>2. QED BY <1>4, <1>6, <2>1, Zenon DEF KeysOf
<1>11. MaxBytes > 0 => room.used + size <= MaxBytes \/ room.list = <<>>
  <2>1. room.used \in Nat
    BY <1>9, UsedNumber, Zenon
  <2>2. \A a, b, m \in Nat : /\ a <= m - b => a + b <= m
                             /\ m > 0 => m # 0
    OBVIOUS
  <2>3. QED BY <1>5, <1>6, <2>1, <2>2, Zenon
<1>12. /\ e.key \notin room.keys /\ c.keys = room.keys \cup {e.key} /\ c.used = room.used + e.size
       /\ MaxBytes > 0 => room.used + e.size <= MaxBytes \/ room.list = <<>>
  BY <1>7, <1>8, <1>10, <1>11, Zenon
<1>13. Sound(c, <<e.key>> \o u, V)
  BY <1>7, <1>8, <1>9, <1>12, SoundFront, Zenon
<1>14. Sound(c, <<k>> \o u, V)
  BY <1>7, <1>13, Zenon
<1>15. CacheInv(V)'
  BY <1>2, <1>14, Became, Zenon
<1>16. lruList' = <<e>> \o room.list
  BY <1>2, <1>8, Zenon DEF Become
<1>17. \A x \in Range(<<e>> \o room.list) : x = e \/ x \in Range(room.list)
  BY <1>7, <1>9, RangeFront, Zenon
<1>18. \A x \in Range(room.list) : x \in Range(lruList)
  BY <1>4, <1>6, Zenon
<1>19. QED BY <1>7, <1>15, <1>16, <1>17, <1>18, Zenon

(* Delete keeps the invariant and leaves the entries of the other keys.    *)
LEMMA DeleteStep ==
  ASSUME NEW V, CacheInv(V), NEW ks, Delete(ks)
  PROVE  /\ CacheInv(V)'
         /\ \A x \in Range(lruList') : x \in Range(lruList) /\ x.key \notin ks
<1> DEFINE d == removeLocked(Cache, ks)
<1>1. Sound(Cache, recency, V) /\ Proper(Cache, V) /\ Cache.list = lruList
  BY CacheFacts, Zenon
<1>2. Become(d) /\ recency' = Unused(recency, ks) /\ lruList' = d.list
  BY Zenon DEF Delete, Forget, Unused, Become
<1>3. Sound(d, Unused(recency, ks), V)
  BY <1>1, SoundRemove, Zenon
<1>4. \A x : x \in Range(d.list) <=> x \in Range(lruList) /\ x.key \notin ks
  BY <1>1, Removed, Zenon
<1>5. CacheInv(V)'
  BY <1>2, <1>3, Became, Zenon
<1>6. QED BY <1>2, <1>4, <1>5, Zenon

(* The sweep keeps the invariant and adds no entry.                        *)
LEMMA SweepStep ==
  ASSUME NEW V, CacheInv(V), evictExpired
  PROVE  CacheInv(V)' /\ \A x \in Range(lruList') : x \in Range(lruList)
<1> DEFINE d == removeLocked(Cache, Expired)
           u == Unused(recency, Expired)
           room == IF MaxBytes = 0 THEN d ELSE evictLRU(d, (4 * MaxBytes) \div 5)
<1>1. Sound(Cache, recency, V) /\ Proper(Cache, V) /\ Cache.list = lruList
  BY CacheFacts, Zenon
<1>2. Become(room) /\ recency' = u /\ lruList' = room.list
  BY Zenon DEF evictExpired, Forget, Unused, Become
<1>3. Sound(d, u, V)
  BY <1>1, SoundRemove, Zenon
<1>4. \A x : x \in Range(d.list) <=> x \in Range(lruList) /\ x.key \notin Expired
  BY <1>1, Removed, Zenon
<1>5. (4 * MaxBytes) \div 5 \in Int
  BY CacheConstants
<1> HIDE DEF d, u
<1>6. Sound(room, u, V) /\ Range(room.list) \subseteq Range(d.list)
  <2>1. CASE MaxBytes = 0
    BY <1>3, <2>1, Zenon
  <2>2. CASE MaxBytes # 0
    <3> DEFINE n == (4 * MaxBytes) \div 5
    <3> HIDE DEF n
    <3>1. room = evictLRU(d, n)
      BY <2>2, Zenon DEF n
    <3>2. n \in Int
      BY <1>5, Zenon DEF n
    <3> HIDE DEF room
    <3>3. QED BY <1>3, <3>1, <3>2, SoundEvict, Zenon
  <2>3. QED BY <2>1, <2>2, Zenon
<1> HIDE DEF room
<1>7. CacheInv(V)'
  BY <1>2, <1>6, Became, Zenon
<1>8. QED BY <1>2, <1>4, <1>6, <1>7, Zenon

(* The empty cache.                                                        *)
LEMMA EmptySound ==
  ASSUME NEW V, NEW c, c.list = <<>>, c.keys = {}, c.used = 0
  PROVE  Sound(c, <<>>, V)
<1>1. <<>> \in Seq(Held(V)) /\ <<>> \in Seq(Keys) /\ Len(<<>>) = 0
  OBVIOUS
<1>2. Bytes(<<>>) = 0
  BY HeldSized, BytesShort, Zenon
<1>3. KeysOf(<<>>) = {}
  <2>1. ~ \E i \in 1 .. Len(<<>>) : TRUE
    OBVIOUS
  <2>2. \A k : k \in KeysOf(<<>>) => \E i \in 1 .. Len(<<>>) : <<>>[i].key = k
    BY <1>1, KeyPlaces, Zenon
  <2>3. QED BY <2>1, <2>2, Zenon
<1>4. Distinct(<<>>) /\ BeginsUses(<<>>, <<>>)
  BY DEF Distinct, BeginsUses
<1>5. 0 <= MaxBytes
  BY CacheConstants
<1>6. QED BY <1>1, <1>2, <1>3, <1>4, <1>5, Zenon DEF Sound, Proper, Fits

(* Time changes only what an entry has left and its age.                   *)
Ticked(e) == [e EXCEPT !.left = IF @ < 0 THEN @ ELSE @ - 1, !.age = IF @ > e.ttl THEN @ ELSE @ + 1]

(* An entry stays what it is, one tick nearer to its expiry.               *)
LEMMA TickedHeld ==
  ASSUME NEW V, NEW e \in Held(V)
  PROVE  /\ Ticked(e) \in Held(V)
         /\ Ticked(e).key = e.key /\ Ticked(e).value = e.value /\ Ticked(e).size = e.size
<1>1. /\ e \in [key : Keys, value : V, size : Sizes, ttl : TTLs, left : Int, age : Int]
      /\ e.left >= 0 => e.age + e.left <= e.ttl
  BY Zenon DEF Held
<1> DEFINE R == [key : Keys, value : V, size : Sizes, ttl : TTLs, left : Int, age : Int]
           left == IF e.left < 0 THEN e.left ELSE e.left - 1
           age == IF e.age > e.ttl THEN e.age ELSE e.age + 1
           f == [e EXCEPT !.left = left, !.age = age]
<1>2. e.left \in Int /\ e.age \in Int /\ e.ttl \in TTLs
  BY <1>1, Zenon
<1>3. e.ttl \in Int
  <2>1. \A t \in TTLs : t \in Int
    BY CacheConstants
  <2>2. QED BY <1>2, <2>1, Zenon
<1>4. Ticked(e) = f
  BY Zenon DEF Ticked
<1>5. left \in Int /\ age \in Int
  BY <1>2, <1>3
<1>6. left >= 0 => age + left <= e.ttl
  BY <1>1, <1>2, <1>3
<1> HIDE DEF left, age
<1>7. f \in R /\ f.left = left /\ f.age = age /\ f.ttl = e.ttl
  BY <1>1, <1>5, Zenon
<1>8. f.key = e.key /\ f.value = e.value /\ f.size = e.size
  BY <1>1, Zenon
<1> HIDE DEF f
<1>9. f \in Held(V)
  BY <1>6, <1>7, Zenon DEF Held
<1>10. QED BY <1>4, <1>8, <1>9, Zenon

(* A tick keeps the invariant, and every entry's key and value.            *)
LEMMA TickStep ==
  ASSUME NEW V, CacheInv(V), CacheTick
  PROVE  /\ CacheInv(V)'
         /\ \A x \in Range(lruList') : \E y \in Range(lruList) : x.key = y.key /\ x.value = y.value
<1> DEFINE s == lruList
           t == [i \in DOMAIN s |-> Ticked(s[i])]
           c == [list |-> t, keys |-> entries, used |-> usedBytes]
<1>1. /\ Sound(Cache, recency, V) /\ Proper(Cache, V) /\ Fits(Cache)
      /\ Cache.list = lruList /\ Cache.keys = entries /\ Cache.used = usedBytes
      /\ s \in Seq(Held(V)) /\ BeginsUses(s, recency) /\ recency \in Seq(Keys)
  BY CacheFacts, Zenon
<1>2. Distinct(s) /\ entries = KeysOf(s) /\ usedBytes = Bytes(s)
  BY <1>1, Zenon DEF Proper
<1>3. lruList' = t /\ UNCHANGED <<entries, usedBytes, recency>>
  BY Zenon DEF CacheTick, Ticked
<1>4. c.list = t /\ c.keys = entries /\ c.used = usedBytes
  BY Zenon
<1> HIDE DEF s, c
<1>5. Len(s) \in Nat /\ DOMAIN s = 1 .. Len(s) /\ \A i \in 1 .. Len(s) : s[i] \in Held(V)
  BY <1>1
<1>6. \A i \in 1 .. Len(s) : /\ t[i] = Ticked(s[i]) /\ t[i] \in Held(V) /\ t[i].key = s[i].key
                             /\ t[i].value = s[i].value /\ t[i].size = s[i].size
  BY <1>5, TickedHeld, Zenon
<1>7. t \in Seq(Held(V)) /\ Len(t) = Len(s)
  BY <1>5, <1>6
<1> HIDE DEF t
<1>8. Bytes(t) = Bytes(s)
  BY <1>1, <1>6, <1>7, BytesSame, Zenon
<1>9. Distinct(t)
  BY <1>2, <1>6, <1>7, Zenon DEF Distinct
<1>10. KeysOf(t) = KeysOf(s)
  <2>1. \A k : k \in KeysOf(t) <=> \E i \in 1 .. Len(s) : t[i].key = k
    BY <1>7, KeyPlaces
  <2>2. \A k : k \in KeysOf(s) <=> \E i \in 1 .. Len(s) : s[i].key = k
    BY <1>1, KeyPlaces, Zenon
  <2>3. \A k : k \in KeysOf(t) <=> k \in KeysOf(s)
    BY <1>6, <2>1, <2>2, Zenon
  <2>4. QED BY <2>3, Zenon
<1>11. BeginsUses(t, recency)
  BY <1>1, <1>6, <1>7, Zenon DEF BeginsUses
<1>12. Proper(c, V)
  BY <1>2, <1>4, <1>7, <1>8, <1>9, <1>10, Zenon DEF Proper
<1>13. Fits(c)
  BY <1>1, <1>4, <1>7, Zenon DEF Fits, s
<1>14. Sound(c, recency, V)
  BY <1>1, <1>4, <1>11, <1>12, <1>13, Zenon DEF Sound
<1>15. Become(c) /\ recency' = recency
  BY <1>3, <1>4, Zenon DEF Become
<1>16. CacheInv(V)'
  BY <1>14, <1>15, Became, Zenon
<1>17. ASSUME NEW x \in Range(t)
       PROVE  \E y \in Range(s) : x.key = y.key /\ x.value = y.value
  <2>1. PICK i \in 1 .. Len(s) : t[i] = x
    BY <1>7, KeyPlaces
  <2>2. s[i] \in Range(s) /\ x.key = s[i].key /\ x.value = s[i].value
    BY <1>1, <1>6, <2>1, KeyPlaces, Zenon
  <2>3. QED BY <2>2, Zenon
<1>18. QED BY <1>3, <1>16, <1>17, Zenon DEF s

(* A new cache is sound.                                                   *)
LEMMA NewCacheSound ==
  ASSUME NEW V, NewMemoryCache
  PROVE  CacheInv(V)
<1>1. Cache.list = <<>> /\ Cache.keys = {} /\ Cache.used = 0 /\ recency = <<>>
  BY Zenon DEF NewMemoryCache, Cache
<1>2. QED BY <1>1, EmptySound, Zenon DEF CacheInv

(* Every method, the eviction loop and the passing of time keep it sound.  *)
LEMMA CacheStep ==
  ASSUME NEW V, CacheInv(V), Values \subseteq V, [CacheNext]_cacheVars
  PROVE  CacheInv(V)'
<1>1. ASSUME NEW k \in Keys, Get(k) PROVE CacheInv(V)'
  BY <1>1, GetStep, Zenon
<1>2. ASSUME NEW k \in Keys, NEW v \in Values, NEW s \in Sizes, NEW t \in TTLs, Set(k, v, s, t)
      PROVE  CacheInv(V)'
  BY <1>2, SetStep, Zenon
<1>3. ASSUME NEW ks \in SUBSET Keys, Delete(ks) PROVE CacheInv(V)'
  BY <1>3, DeleteStep, Zenon
<1>4. ASSUME evictExpired PROVE CacheInv(V)'
  BY <1>4, SweepStep, Zenon
<1>5. ASSUME Close PROVE CacheInv(V)'
  <2> DEFINE c == [list |-> <<>>, keys |-> {}, used |-> 0]
  <2>1. Become(c) /\ recency' = <<>>
    BY <1>5, Zenon DEF Close
  <2>2. c.list = <<>> /\ c.keys = {} /\ c.used = 0
    BY Zenon
  <2> HIDE DEF c
  <2>3. Sound(c, <<>>, V)
    BY <2>2, EmptySound, Zenon
  <2>4. QED BY <2>1, <2>3, Became, Zenon
<1>6. ASSUME UNCHANGED <<lruList, entries, usedBytes, recency>> PROVE CacheInv(V)'
  BY <1>6, Zenon DEF CacheInv, Cache
<1>7. ASSUME CacheTick PROVE CacheInv(V)'
  BY <1>7, TickStep, Zenon
<1>8. UNCHANGED cacheVars => UNCHANGED <<lruList, entries, usedBytes, recency>>
  BY Zenon DEF cacheVars
<1>9. evictionLoopEnds => UNCHANGED <<lruList, entries, usedBytes, recency>>
  BY Zenon DEF evictionLoopEnds
<1>10. QED BY <1>1, <1>2, <1>3, <1>4, <1>5, <1>6, <1>7, <1>8, <1>9, Zenon DEF CacheNext

(* The invariant of the cache on its own.                                  *)
THEOREM CacheInvariant == CacheSpec => []CacheInv(Values)
<1>1. NewMemoryCache => CacheInv(Values)
  BY NewCacheSound, Zenon
<1>2. CacheInv(Values) /\ [CacheNext]_cacheVars => CacheInv(Values)'
  BY CacheStep, Zenon
<1>3. QED BY <1>1, <1>2, PTL DEF CacheSpec

(* Entries leave for lack of space in the order of their last use: the     *)
(* list of memory.go is a front of the history of stores and hits.         *)
THEOREM EvictsInOrder == CacheSpec => []LeastRecentlyUsedFirst
<1>1. CacheInv(Values) => LeastRecentlyUsedFirst
  <2> SUFFICES ASSUME CacheInv(Values) PROVE LeastRecentlyUsedFirst
    BY Zenon
  <2>1. BeginsUses(lruList, recency) /\ lruList \in Seq(Held(Values))
    BY CacheFacts, Zenon
  <2>2. DOMAIN lruList = 1 .. Len(lruList)
    BY <2>1
  <2>3. QED BY <2>1, <2>2, Zenon DEF LeastRecentlyUsedFirst, BeginsUses
<1>2. QED BY <1>1, CacheInvariant, PTL

(* No lookup answers with a response older than the time to live it was    *)
(* stored with: hits, moves and sweeps never extend it.                    *)
THEOREM HitsWithinTTL == CacheSpec => []NoHitPastTTL
<1>1. CacheInv(Values) => NoHitPastTTL
  <2> SUFFICES ASSUME CacheInv(Values), NEW k \in entries, Hit(k)
               PROVE  EntryOf(k).age <= EntryOf(k).ttl
    BY Zenon DEF NoHitPastTTL
  <2> DEFINE e == EntryOf(k)
  <2>1. e \in Range(lruList) /\ ~ (e.left < 0)
    BY EntryFound, Zenon
  <2>2. lruList \in Seq(Held(Values))
    BY CacheFacts, Zenon
  <2> HIDE DEF e
  <2>3. e \in Held(Values)
    <3>1. \A x \in Range(lruList) : \E i \in 1 .. Len(lruList) : lruList[i] = x
      BY <2>2, KeyPlaces, Zenon
    <3>2. QED BY <2>1, <2>2, <3>1
  <2>4. /\ e.left \in Int /\ e.age \in Int /\ e.ttl \in TTLs
        /\ e.left >= 0 => e.age + e.left <= e.ttl
    BY <2>3, Zenon DEF Held
  <2>5. \A l, a \in Int, t \in TTLs : ~ (l < 0) /\ (l >= 0 => a + l <= t) => a <= t
    BY CacheConstants
  <2>6. QED BY <2>1, <2>4, <2>5, Zenon DEF e
<1>2. QED BY <1>1, CacheInvariant, PTL

=============================================================================

--------------------------- MODULE Whitelist_proofs ---------------------------
(* Proofs about the whitelist, for any addresses, commands and wallets.        *)
EXTENDS Whitelist, ProcessTx_proofs, FiniteSetTheorems, WellFoundedInduction

-----------------------------------------------------------------------------
(* The Merkle tree of any list of addresses.                                   *)

\* Induction over the naturals: a set that has 0 and every successor of its
\* members has them all.  (The set of the n of which something is true stands
\* for a predicate.)
LEMMA NatSetInduction ==
    ASSUME NEW S, 0 \in S, \A n \in Nat : n \in S => n + 1 \in S
    PROVE  Nat \subseteq S
<1> SUFFICES ASSUME NEW m \in Nat, m \notin S PROVE FALSE
  OBVIOUS
<1> DEFINE T == Nat \ S
           R == OpToRel(<, Nat)
<1>1. PICK n \in T : \A k \in T : ~ (<<k, n>> \in R)
  <2>1. T \subseteq Nat /\ T # {}
    OBVIOUS
  <2>2. IsWellFoundedOn(R, Nat)
    BY NatLessThanWellFounded
  <2> HIDE DEF T, R
  <2>3. QED
    BY <2>1, <2>2, WFMin
<1>2. n \in Nat /\ n # 0 /\ n \notin S
  OBVIOUS
<1>3. n - 1 \in Nat /\ n - 1 < n
  BY <1>2
<1>4. ASSUME n - 1 \in T PROVE FALSE
  BY <1>1, <1>2, <1>3, <1>4 DEF OpToRel
<1>5. QED
  BY <1>2, <1>3, <1>4

\* The recursive definition of the layers defines them.
LEMMA LayersDef ==
    ASSUME NEW list, Len(list) \in Nat
    PROVE  Layers(list) =
             [n \in 0..Len(list) |->
                IF n = 0 THEN [i \in 1..Len(list) |-> Leaf(list[i])]
                ELSE NextLayer(Layers(list)[n - 1])]
<1> DEFINE base == [i \in 1..Len(list) |-> Leaf(list[i])]
           Def(g, N) == [n \in 0..N |-> IF n = 0 THEN base ELSE NextLayer(g[n - 1])]
           S == {N \in Nat : \E g : g = Def(g, N)}
<1>1. 0 \in S
  <2>1. [n \in 0..0 |-> base] = Def([n \in 0..0 |-> base], 0)
    OBVIOUS
  <2>2. QED
    BY <2>1
<1>2. ASSUME NEW N \in Nat, N \in S PROVE N + 1 \in S
  <2>1. PICK g : g = Def(g, N)
    BY <1>2
  <2> DEFINE h == [n \in 0..N + 1 |-> IF n = N + 1 THEN NextLayer(g[N]) ELSE g[n]]
  <2>2. \A n \in 0..N + 1 : h[n] = Def(h, N + 1)[n]
    <3> SUFFICES ASSUME NEW n \in 0..N + 1 PROVE h[n] = Def(h, N + 1)[n]
      OBVIOUS
    <3>1. CASE n = N + 1
      BY <3>1
    <3>2. CASE n # N + 1
      <4>1. n \in 0..N /\ h[n] = g[n] /\ (n # 0 => h[n - 1] = g[n - 1])
        BY <3>2
      <4>2. g[n] = IF n = 0 THEN base ELSE NextLayer(g[n - 1])
        BY <2>1, <4>1
      <4>3. QED
        BY <4>1, <4>2
    <3>3. QED
      BY <3>1, <3>2
  <2>3. h = Def(h, N + 1)
    BY <2>2
  <2> HIDE DEF h, Def
  <2>4. QED
    BY <2>3
<1>3. Nat \subseteq S
  <2> HIDE DEF S
  <2> QED BY <1>1, <1>2, NatSetInduction
<1>4. \E g : g = Def(g, Len(list))
  BY <1>3
<1>5. QED
  BY <1>4 DEF Layers

\* So does the recursive definition of the way up.
LEMMA WayUpDef ==
    ASSUME NEW list, Len(list) \in Nat, NEW i
    PROVE  WayUp(list, i) =
             [n \in 0..Len(list) |->
                IF n = 0 THEN [at |-> i, siblings |-> <<>>]
                ELSE LET u == WayUp(list, i)[n - 1]
                         layer == Layers(list)[n - 1]
                     IN  [at |-> (u.at + 1) \div 2,
                          siblings |-> IF Sibling(u.at) \in 1..Len(layer)
                                       THEN Append(u.siblings, layer[Sibling(u.at)])
                                       ELSE u.siblings]]
<1> DEFINE base == [at |-> i, siblings |-> <<>>]
           Up(u, layer) == [at |-> (u.at + 1) \div 2,
                            siblings |-> IF Sibling(u.at) \in 1..Len(layer)
                                         THEN Append(u.siblings, layer[Sibling(u.at)])
                                         ELSE u.siblings]
           Def(g, N) == [n \in 0..N |-> IF n = 0 THEN base
                                        ELSE Up(g[n - 1], Layers(list)[n - 1])]
           S == {N \in Nat : \E g : g = Def(g, N)}
<1>0. ASSUME \E g : g = Def(g, Len(list))
      PROVE  WayUp(list, i) = Def(WayUp(list, i), Len(list))
  BY <1>0 DEF WayUp
<1> HIDE DEF base, Up
<1>1. 0 \in S
  <2>1. [n \in 0..0 |-> base] = Def([n \in 0..0 |-> base], 0)
    OBVIOUS
  <2>2. QED
    BY <2>1
<1>2. ASSUME NEW N \in Nat, N \in S PROVE N + 1 \in S
  <2>1. PICK g : g = Def(g, N)
    BY <1>2
  <2> DEFINE h == [n \in 0..N + 1 |-> IF n = N + 1 THEN Up(g[N], Layers(list)[N]) ELSE g[n]]
  <2>2. \A n \in 0..N + 1 : h[n] = Def(h, N + 1)[n]
    <3> SUFFICES ASSUME NEW n \in 0..N + 1 PROVE h[n] = Def(h, N + 1)[n]
      OBVIOUS
    <3>1. CASE n = N + 1
      BY <3>1
    <3>2. CASE n # N + 1
      <4>1. n \in 0..N /\ h[n] = g[n] /\ (n # 0 => h[n - 1] = g[n - 1])
        BY <3>2
      <4>2. g[n] = IF n = 0 THEN base ELSE Up(g[n - 1], Layers(list)[n - 1])
        BY <2>1, <4>1
      <4>3. QED
        BY <4>1, <4>2
    <3>3. QED
      BY <3>1, <3>2
  <2>3. h = Def(h, N + 1)
    BY <2>2
  <2> HIDE DEF h, Def
  <2>4. QED
    BY <2>3
<1>3. Nat \subseteq S
  <2> HIDE DEF S
  <2> QED BY <1>1, <1>2, NatSetInduction
<1>4. \E g : g = Def(g, Len(list))
  BY <1>3
<1>5. QED
  BY <1>0, <1>4 DEF base, Up

\* FoldLeft is the last of the values that it passes through.
LEMMA FoldLeftSteps ==
    ASSUME NEW s, Len(s) \in Nat, DOMAIN s = 1..Len(s), NEW x
    PROVE  \E f : /\ f[0] = x
                  /\ \A k \in 1..Len(s) : f[k] = Parent(f[k - 1], s[k])
                  /\ f[Len(s)] = FoldLeft(Parent, x, s)
<1> DEFINE Def(g, N) == [t \in SUBSET (1..N) |-> IF t = {} THEN x
                             ELSE Parent(g[t \ {Max(t)}], s[Max(t)])]
           S == {N \in Nat : \E g : g = Def(g, N)}
           iter == CHOOSE g : g = Def(g, Len(s))
<1>0. FoldLeft(Parent, x, s) = iter[1..Len(s)]
  BY DEF FoldLeft, MapThenFoldSet
<1>1. 0 \in S
  <2>1. SUBSET (1..0) = {{}}
    OBVIOUS
  <2>2. [t \in SUBSET (1..0) |-> x] = Def([t \in SUBSET (1..0) |-> x], 0)
    BY <2>1
  <2>3. QED
    BY <2>2
<1>2. ASSUME NEW N \in Nat, N \in S PROVE N + 1 \in S
  <2>1. PICK g : g = Def(g, N)
    BY <1>2
  <2> DEFINE h == [t \in SUBSET (1..N + 1) |->
                     IF N + 1 \in t THEN Parent(g[t \ {N + 1}], s[N + 1]) ELSE g[t]]
  <2>2. ASSUME NEW t \in SUBSET (1..N + 1) PROVE h[t] = Def(h, N + 1)[t]
    <3>1. CASE N + 1 \in t
      <4>1. Max(t) = N + 1
        <5>1. \A y \in t : N + 1 >= y
          OBVIOUS
        <5>2. \A z \in t : (\A y \in t : z >= y) => z = N + 1
          BY <3>1
        <5>3. QED
          BY <3>1, <5>1, <5>2, Zenon DEF Max
      <4>2. t \ {N + 1} \in SUBSET (1..N)
        OBVIOUS
      <4>3. h[t \ {N + 1}] = g[t \ {N + 1}]
        BY <4>2
      <4>4. QED
        BY <3>1, <4>1, <4>3
    <3>2. CASE N + 1 \notin t
      <4>1. t \in SUBSET (1..N) /\ t \ {Max(t)} \in SUBSET (1..N)
        <5>1. \A i \in t : i \in 1..N
          BY <3>2
        <5>2. QED
          BY <5>1
      <4>2. h[t] = g[t] /\ h[t \ {Max(t)}] = g[t \ {Max(t)}]
        BY <3>2, <4>1
      <4>3. g[t] = IF t = {} THEN x ELSE Parent(g[t \ {Max(t)}], s[Max(t)])
        BY <2>1, <4>1
      <4>4. QED
        BY <4>2, <4>3
    <3>3. QED
      BY <3>1, <3>2
  <2>3. h = Def(h, N + 1)
    BY <2>2
  <2> HIDE DEF h, Def
  <2>4. QED
    BY <2>3
<1>3. Nat \subseteq S
  <2> HIDE DEF S
  <2> QED BY <1>1, <1>2, NatSetInduction
<1>4. iter = Def(iter, Len(s))
  <2>1. \E g : g = Def(g, Len(s))
    BY <1>3
  <2>2. QED
    BY <2>1
<1> HIDE DEF iter
<1>5. iter[1..0] = x
  BY <1>4
<1>6. ASSUME NEW k \in 1..Len(s) PROVE iter[1..k] = Parent(iter[1..(k - 1)], s[k])
  <2>1. k \in 1..k /\ \A i \in 1..k : i \in 1..Len(s) /\ k >= i
    OBVIOUS
  <2>2. Max(1..k) = k
    <3>1. \A z \in 1..k : (\A y \in 1..k : z >= y) => z = k
      OBVIOUS
    <3>2. QED
      BY <2>1, <3>1, Zenon DEF Max
  <2>3. (1..k) \ {k} = 1..(k - 1)
    OBVIOUS
  <2>4. 1..k \in SUBSET (1..Len(s)) /\ 1..k # {}
    BY <2>1, Zenon
  <2>5. QED
    BY <1>4, <2>2, <2>3, <2>4
<1> DEFINE f == [k \in 0..Len(s) |-> iter[1..k]]
<1>7. f[0] = x /\ f[Len(s)] = FoldLeft(Parent, x, s)
  BY <1>0, <1>5
<1>8. \A k \in 1..Len(s) : f[k] = Parent(f[k - 1], s[k])
  BY <1>6
<1> HIDE DEF f
<1>9. QED
  BY <1>7, <1>8
\* Half of a length, rounded up.
LEMMA Half ==
    ASSUME NEW l \in Nat
    PROVE  /\ (l + 1) \div 2 \in Nat
           /\ l % 2 = 1 => 2 * ((l + 1) \div 2) = l + 1
           /\ l % 2 # 1 => 2 * ((l + 1) \div 2) = l
<1>1. (l + 1) \div 2 \in Nat
  OBVIOUS
<1>2. l % 2 = 1 => 2 * ((l + 1) \div 2) = l + 1
  OBVIOUS
<1>3. l % 2 # 1 => 2 * ((l + 1) \div 2) = l
  OBVIOUS
<1>4. QED
  BY <1>1, <1>2, <1>3

\* The layers one by one.
LEMMA LayerSteps ==
    ASSUME NEW list, Len(list) \in Nat
    PROVE  /\ Layers(list)[0] = [i \in 1..Len(list) |-> Leaf(list[i])]
           /\ \A n \in 1..Len(list) : Layers(list)[n] = NextLayer(Layers(list)[n - 1])
<1> DEFINE L == Len(list)
           all == Layers(list)
<1>1. all = [n \in 0..L |-> IF n = 0 THEN [i \in 1..L |-> Leaf(list[i])]
                            ELSE NextLayer(all[n - 1])]
  BY LayersDef
<1>2. 0 \in 0..L /\ \A n \in 1..L : n \in 0..L /\ n # 0
  OBVIOUS
<1> HIDE DEF all, L
<1>3. /\ all[0] = [i \in 1..L |-> Leaf(list[i])]
      /\ \A n \in 1..L : all[n] = NextLayer(all[n - 1])
  BY <1>1, <1>2, Zenon
<1>4. QED
  BY <1>3 DEF all, L

\* A node of a layer is the parent of two of the layer below, or one of them.
LEMMA NextLayerNodes ==
    ASSUME NEW layer, Len(layer) \in Nat \ {0}, NEW i \in DOMAIN NextLayer(layer)
    PROVE  /\ i \in Nat /\ 2 * i - 1 \in 1..Len(layer)
           /\ 2 * i <= Len(layer) =>
                NextLayer(layer)[i] = Parent(layer[2 * i - 1], layer[2 * i])
           /\ 2 * i > Len(layer) => NextLayer(layer)[i] = layer[2 * i - 1]
<1>1. PICK h \in Nat : /\ h = (Len(layer) + 1) \div 2
                       /\ 2 * h = Len(layer) + 1 \/ 2 * h = Len(layer)
  BY Half
<1>2. i \in 1..h
  BY <1>1 DEF NextLayer
<1>3. i \in Nat /\ 2 * i - 1 \in 1..Len(layer)
  <2>1. 2 * h = Len(layer) + 1 \/ 2 * h = Len(layer)
    BY <1>1
  <2>2. QED
    BY <1>2, <2>1
<1>4. NextLayer(layer)[i] = IF 2 * i <= Len(layer) THEN Parent(layer[2 * i - 1], layer[2 * i])
                            ELSE layer[2 * i - 1]
  BY <1>1, <1>2 DEF NextLayer
<1>5. QED
  BY <1>3, <1>4

\* Layers get shorter, until one node is left: the root.
LEMMA LayerLengths ==
    ASSUME NEW list \in Seq(Address), list # <<>>
    PROVE  \A n \in 0..Len(list) :
              /\ Len(Layers(list)[n]) \in Nat \ {0}
              /\ DOMAIN Layers(list)[n] = 1..Len(Layers(list)[n])
              /\ Len(Layers(list)[n]) = 1 \/ Len(Layers(list)[n]) <= Len(list) - n
<1> DEFINE L == Len(list)
           all == Layers(list)
           Good(n) == /\ Len(all[n]) \in Nat \ {0}
                      /\ DOMAIN all[n] = 1..Len(all[n])
                      /\ Len(all[n]) = 1 \/ Len(all[n]) <= L - n
           S == {n \in Nat : n <= L => Good(n)}
<1>1. L \in Nat /\ L # 0
  OBVIOUS
<1>2. /\ all[0] = [i \in 1..L |-> Leaf(list[i])]
      /\ \A n \in 1..L : all[n] = NextLayer(all[n - 1])
  BY <1>1, LayerSteps
<1> HIDE DEF L, all
<1>3. 0 \in S
  <2>1. DOMAIN all[0] = 1..L /\ Len(all[0]) = L
    BY <1>1, <1>2
  <2>2. QED
    BY <1>1, <2>1
<1>4. ASSUME NEW n \in Nat, n \in S PROVE n + 1 \in S
  <2> SUFFICES ASSUME n + 1 <= L PROVE Good(n + 1)
    OBVIOUS
  <2>1. Good(n)
    BY <1>1, <1>4
  <2>2. all[n + 1] = NextLayer(all[n])
    BY <1>1, <1>2
  <2>3. PICK l \in Nat, h \in Nat :
          l = Len(all[n]) /\ h = (l + 1) \div 2 /\ (2 * h = l + 1 \/ 2 * h = l)
    BY <2>1, Half
  <2>4. Len(all[n + 1]) = h /\ DOMAIN all[n + 1] = 1..h
    BY <2>2, <2>3 DEF NextLayer
  <2>5. h # 0 /\ (l = 1 => h = 1) /\ (l # 1 => h < l)
    <3>1. l # 0 /\ (2 * h = l + 1 \/ 2 * h = l)
      BY <2>1, <2>3
    <3>2. QED
      BY <3>1
  <2>6. l = 1 \/ l <= L - n
    BY <2>1, <2>3
  <2>7. Len(all[n + 1]) = 1 \/ Len(all[n + 1]) <= L - (n + 1)
    BY <1>1, <2>4, <2>5, <2>6
  <2>8. QED
    BY <2>4, <2>5, <2>7
<1>5. Nat \subseteq S
  <2> HIDE DEF S
  <2> QED BY <1>3, <1>4, NatSetInduction
<1>6. QED
  BY <1>1, <1>5 DEF L, all

\* sortPairs: it does not matter which node is on the left.
LEMMA ParentIsUnordered == \A l, r : Parent(l, r) = Parent(r, l)
<1>1. \A l, r : {l, r} = {r, l}
  OBVIOUS
<1>2. QED
  BY <1>1 DEF Parent

\* Different preimages, different hashes.
LEMMA Preimages ==
    /\ \A x, l, r : Leaf(x) # Parent(l, r)
    /\ \A x, y : Leaf(x) = Leaf(y) => x = y
    /\ \A a, b, l, r : Parent(a, b) = Parent(l, r) => a \in {l, r}
    /\ \A x : Leaf(x) # NoRoot
    /\ \A l, r : Parent(l, r) # NoRoot
<1>1. \A x : DOMAIN Leaf(x) = {"leaf"} /\ Leaf(x).leaf = x
  BY DEF Leaf
<1>2. \A l, r : DOMAIN Parent(l, r) = {"pair"} /\ Parent(l, r).pair = {l, r}
  BY DEF Parent
<1>3. DOMAIN NoRoot = {"zeros"}
  BY DEF NoRoot
<1>4. \A x, l, r : Leaf(x) # Parent(l, r)
  BY <1>1, <1>2
<1>5. ASSUME NEW x, NEW y, Leaf(x) = Leaf(y) PROVE x = y
  <2>1. Leaf(x).leaf = Leaf(y).leaf
    BY <1>5
  <2>2. QED
    BY <1>1, <2>1
<1>6. ASSUME NEW a, NEW b, NEW l, NEW r, Parent(a, b) = Parent(l, r) PROVE a \in {l, r}
  <2>1. Parent(a, b).pair = Parent(l, r).pair
    BY <1>6
  <2>2. {a, b} = {l, r}
    BY <1>2, <2>1
  <2>3. QED
    BY <2>2
<1>7. \A x : Leaf(x) # NoRoot
  BY <1>1, <1>3
<1>8. \A l, r : Parent(l, r) # NoRoot
  BY <1>2, <1>3
<1>9. QED
  BY <1>4, <1>5, <1>6, <1>7, <1>8

\* Folding a sequence with one element more is one step more.
LEMMA FoldLeftAppend ==
    ASSUME NEW T, NEW s \in Seq(T), NEW e \in T, NEW x
    PROVE  FoldLeft(Parent, x, Append(s, e)) = Parent(FoldLeft(Parent, x, s), e)
<1> DEFINE t == Append(s, e)
           n == Len(s)
<1>0. n \in Nat /\ DOMAIN s = 1..n
  OBVIOUS
<1>1. Len(t) = n + 1 /\ DOMAIN t = 1..(n + 1) /\ t[n + 1] = e /\ \A k \in 1..n : t[k] = s[k]
  OBVIOUS
<1>2. PICK f : /\ f[0] = x /\ \A k \in 1..n : f[k] = Parent(f[k - 1], s[k])
               /\ f[n] = FoldLeft(Parent, x, s)
  BY <1>0, FoldLeftSteps
<1>3. PICK g : /\ g[0] = x /\ \A k \in 1..Len(t) : g[k] = Parent(g[k - 1], t[k])
               /\ g[Len(t)] = FoldLeft(Parent, x, t)
  <2> HIDE DEF t
  <2>1. Len(t) \in Nat /\ DOMAIN t = 1..Len(t)
    BY <1>0, <1>1
  <2>2. QED
    BY <2>1, FoldLeftSteps
<1> HIDE DEF t, n
<1> DEFINE S == {k \in Nat : k <= n => f[k] = g[k]}
<1>4. 0 \in S
  BY <1>2, <1>3
<1>5. ASSUME NEW k \in Nat, k \in S PROVE k + 1 \in S
  <2> SUFFICES ASSUME k + 1 <= n PROVE f[k + 1] = g[k + 1]
    OBVIOUS
  <2>1. k + 1 \in 1..n /\ k + 1 \in 1..Len(t) /\ (k + 1) - 1 = k /\ f[k] = g[k]
    BY <1>0, <1>1, <1>5
  <2>2. f[k + 1] = Parent(f[k], s[k + 1]) /\ g[k + 1] = Parent(g[k], t[k + 1])
    BY <1>2, <1>3, <2>1
  <2>3. QED
    BY <1>1, <2>1, <2>2
<1>6. Nat \subseteq S
  <2> HIDE DEF S
  <2> QED BY <1>4, <1>5, NatSetInduction
<1>7. f[n] = g[n]
  BY <1>0, <1>6
<1>8. g[n + 1] = Parent(g[n], e)
  <2>1. n + 1 \in 1..Len(t) /\ (n + 1) - 1 = n
    BY <1>0, <1>1
  <2>2. QED
    BY <1>1, <1>3, <2>1
<1>9. QED
  BY <1>1, <1>2, <1>3, <1>7, <1>8 DEF t

\* A node and its sibling are the two nodes below their parent.
LEMMA SiblingPlaces ==
    ASSUME NEW l \in Nat, NEW a \in 1..l, NEW h \in Nat, h = (a + 1) \div 2
    PROVE  /\ h \in 1..((l + 1) \div 2)
           /\ Sibling(a) \in 1..l =>
                /\ 2 * h <= l
                /\ \/ a = 2 * h - 1 /\ Sibling(a) = 2 * h
                   \/ a = 2 * h /\ Sibling(a) = 2 * h - 1
           /\ Sibling(a) \notin 1..l => 2 * h > l /\ a = 2 * h - 1
<1>1. PICK m \in Nat : m = (l + 1) \div 2 /\ (2 * m = l + 1 \/ 2 * m = l)
  BY Half
<1>2. CASE a % 2 = 1
  <2>1. 2 * h = a + 1 /\ Sibling(a) = a + 1
    BY <1>2, Half DEF Sibling
  <2>2. (2 * m = l + 1 \/ 2 * m = l) /\ 2 * h = a + 1
    BY <1>1, <2>1
  <2>3. h \in 1..m
    BY <2>2
  <2>4. a + 1 \in 1..l => 2 * h <= l /\ a = 2 * h - 1
    BY <2>2
  <2>5. a + 1 \notin 1..l => 2 * h > l /\ a = 2 * h - 1
    BY <2>2
  <2>6. QED
    BY <1>1, <2>1, <2>3, <2>4, <2>5
<1>3. CASE a % 2 # 1
  <2>1. 2 * h = a /\ Sibling(a) = a - 1
    BY <1>3, Half DEF Sibling
  <2>2. (2 * m = l + 1 \/ 2 * m = l) /\ 2 * h = a
    BY <1>1, <2>1
  <2>3. h \in 1..m
    BY <2>2
  <2>4. 2 * h <= l /\ a - 1 = 2 * h - 1 /\ a - 1 \in 1..l
    BY <2>2
  <2>5. QED
    BY <1>1, <2>1, <2>3, <2>4
<1>4. QED
  BY <1>2, <1>3

\* One layer up from a node is its parent, or without a sibling the node.
LEMMA NodeAbove ==
    ASSUME NEW layer, Len(layer) \in Nat, NEW a \in 1..Len(layer),
           NEW h \in Nat, h = (a + 1) \div 2
    PROVE  /\ h \in DOMAIN NextLayer(layer)
           /\ Sibling(a) \in 1..Len(layer) =>
                NextLayer(layer)[h] = Parent(layer[a], layer[Sibling(a)])
           /\ Sibling(a) \notin 1..Len(layer) => NextLayer(layer)[h] = layer[a]
<1> DEFINE l == Len(layer)
<1>1. l \in Nat \ {0}
  OBVIOUS
<1>2. h \in DOMAIN NextLayer(layer)
  BY SiblingPlaces DEF NextLayer
<1>3. /\ 2 * h <= l => NextLayer(layer)[h] = Parent(layer[2 * h - 1], layer[2 * h])
      /\ 2 * h > l => NextLayer(layer)[h] = layer[2 * h - 1]
  BY <1>1, <1>2, NextLayerNodes
<1>4. ASSUME Sibling(a) \in 1..l
      PROVE  NextLayer(layer)[h] = Parent(layer[a], layer[Sibling(a)])
  <2>1. /\ 2 * h <= l
        /\ \/ a = 2 * h - 1 /\ Sibling(a) = 2 * h
           \/ a = 2 * h /\ Sibling(a) = 2 * h - 1
    BY <1>4, SiblingPlaces
  <2>2. NextLayer(layer)[h] = Parent(layer[2 * h - 1], layer[2 * h])
    BY <1>3, <2>1
  <2>3. CASE a = 2 * h - 1 /\ Sibling(a) = 2 * h
    BY <2>2, <2>3
  <2>4. CASE a = 2 * h /\ Sibling(a) = 2 * h - 1
    BY <2>2, <2>4, ParentIsUnordered
  <2>5. QED
    BY <2>1, <2>3, <2>4
<1>5. ASSUME Sibling(a) \notin 1..l PROVE NextLayer(layer)[h] = layer[a]
  <2>1. 2 * h > l /\ a = 2 * h - 1
    BY <1>5, SiblingPlaces
  <2>2. QED
    BY <1>3, <2>1
<1>6. QED
  BY <1>2, <1>4, <1>5

\* On the way up from the i-th leaf, folding the siblings so far gives the node
\* that the way has reached.
LEMMA WayUpFolds ==
    ASSUME NEW list \in Seq(Address), NEW i \in 1..Len(list)
    PROVE  LET siblings == WayUp(list, i)[Len(list)].siblings
           IN  /\ \E T : siblings \in Seq(T)
               /\ FoldLeft(Parent, Leaf(list[i]), siblings)
                    = Layers(list)[Len(list)][1]
<1> DEFINE L == Len(list)
           all == Layers(list)
           up == WayUp(list, i)
           Nodes == UNION {{all[n][k] : k \in 1..Len(all[n])} : n \in 0..L}
           x == Leaf(list[i])
           Good(n) == /\ up[n].at \in 1..Len(all[n])
                      /\ up[n].siblings \in Seq(Nodes)
                      /\ FoldLeft(Parent, x, up[n].siblings) = all[n][up[n].at]
           S == {n \in Nat : n <= L => Good(n)}
<1>1. L \in Nat /\ L # 0 /\ list # <<>> /\ i \in 1..L
  OBVIOUS
<1>2. /\ all[0] = [k \in 1..L |-> Leaf(list[k])]
      /\ \A n \in 1..L : all[n] = NextLayer(all[n - 1])
  BY <1>1, LayerSteps
<1>3. \A n \in 0..L : /\ Len(all[n]) \in Nat \ {0} /\ DOMAIN all[n] = 1..Len(all[n])
                      /\ Len(all[n]) = 1 \/ Len(all[n]) <= L - n
  BY <1>1, LayerLengths
<1>4. up = [n \in 0..L |->
              IF n = 0 THEN [at |-> i, siblings |-> <<>>]
              ELSE LET u == up[n - 1]
                       layer == all[n - 1]
                   IN  [at |-> (u.at + 1) \div 2,
                        siblings |-> IF Sibling(u.at) \in 1..Len(layer)
                                     THEN Append(u.siblings, layer[Sibling(u.at)])
                                     ELSE u.siblings]]
  BY <1>1, WayUpDef
<1>5. FoldLeft(Parent, x, <<>>) = x
  <2>1. Len(<<>>) = 0 /\ DOMAIN <<>> = 1..Len(<<>>)
    OBVIOUS
  <2>2. QED
    BY <2>1, FoldLeftSteps
<1> HIDE DEF L, all, up
<1>6. 0 \in S
  <2>1. up[0] = [at |-> i, siblings |-> <<>>]
    BY <1>1, <1>4
  <2>2. Len(all[0]) = L /\ all[0][i] = x
    BY <1>1, <1>2
  <2>3. up[0].at = i /\ up[0].siblings = <<>>
    BY <2>1
  <2> HIDE DEF Nodes, x
  <2>4. <<>> \in Seq(Nodes)
    OBVIOUS
  <2>5. Good(0)
    BY <1>1, <1>5, <2>2, <2>3, <2>4
  <2>6. QED
    BY <2>5
<1>7. ASSUME NEW n \in Nat, n \in S PROVE n + 1 \in S
  <2> SUFFICES ASSUME n + 1 <= L PROVE Good(n + 1)
    OBVIOUS
  <2> DEFINE a == up[n].at
             sib == up[n].siblings
             layer == all[n]
             l == Len(layer)
  <2>1. n \in 0..L /\ n + 1 \in 1..L /\ (n + 1) - 1 = n
    BY <1>1
  <2>2. a \in 1..l /\ sib \in Seq(Nodes) /\ FoldLeft(Parent, x, sib) = layer[a]
    BY <1>1, <1>7
  <2>3. l \in Nat \ {0} /\ \A k \in 1..l : layer[k] \in Nodes
    BY <1>3, <2>1
  <2>4. PICK h \in Nat : h = (a + 1) \div 2
    BY <2>2, <2>3, Half
  <2>5. up[n + 1] = [at |-> h,
                     siblings |-> IF Sibling(a) \in 1..l
                                  THEN Append(sib, layer[Sibling(a)]) ELSE sib]
    <3>1. n + 1 \in 0..L /\ n + 1 # 0
      BY <2>1
    <3>2. QED
      BY <1>4, <2>1, <2>4, <3>1
  <2>6. Len(all[n + 1]) \in Nat /\ DOMAIN all[n + 1] = 1..Len(all[n + 1])
    BY <1>3, <2>1
  <2>7. all[n + 1] = NextLayer(layer)
    BY <1>2, <2>1
  <2>8. /\ h \in DOMAIN all[n + 1]
        /\ Sibling(a) \in 1..l => all[n + 1][h] = Parent(layer[a], layer[Sibling(a)])
        /\ Sibling(a) \notin 1..l => all[n + 1][h] = layer[a]
    <3>1. l \in Nat /\ a \in 1..l /\ h = (a + 1) \div 2
      BY <2>2, <2>3, <2>4
    <3> HIDE DEF layer, a
    <3>2. /\ h \in DOMAIN NextLayer(layer)
          /\ Sibling(a) \in 1..l => NextLayer(layer)[h] = Parent(layer[a], layer[Sibling(a)])
          /\ Sibling(a) \notin 1..l => NextLayer(layer)[h] = layer[a]
      BY <3>1, NodeAbove
    <3>3. QED
      BY <2>7, <3>2
  <2>9. up[n + 1].at = h /\ h \in 1..Len(all[n + 1])
    BY <2>5, <2>6, <2>8
  <2> HIDE DEF Nodes, x, a, sib, layer, l
  <2>10. CASE Sibling(a) \in 1..l
    <3>1. up[n + 1].siblings = Append(sib, layer[Sibling(a)])
      BY <2>5, <2>10
    <3>2. layer[Sibling(a)] \in Nodes
      BY <2>3, <2>10
    <3>3. up[n + 1].siblings \in Seq(Nodes)
      BY <2>2, <3>1, <3>2
    <3>4. FoldLeft(Parent, x, Append(sib, layer[Sibling(a)]))
            = Parent(FoldLeft(Parent, x, sib), layer[Sibling(a)])
      BY <2>2, <3>2, FoldLeftAppend
    <3>5. FoldLeft(Parent, x, up[n + 1].siblings) = all[n + 1][h]
      BY <2>2, <2>8, <2>10, <3>1, <3>4
    <3>6. QED
      BY <2>9, <3>3, <3>5
  <2>11. CASE Sibling(a) \notin 1..l
    <3>1. up[n + 1].siblings = sib
      BY <2>5, <2>11
    <3>2. all[n + 1][h] = layer[a]
      BY <2>8, <2>11
    <3>3. QED
      BY <2>2, <2>9, <3>1, <3>2
  <2>12. QED
    BY <2>10, <2>11
<1>8. Nat \subseteq S
  <2> HIDE DEF S
  <2> QED BY <1>6, <1>7, NatSetInduction
<1>9. Good(L)
  <2> HIDE DEF Good
  <2>1. L \in S /\ L <= L
    BY <1>1, <1>8
  <2>2. QED
    BY <2>1
<1>10. Len(all[L]) = 1
  BY <1>1, <1>3
<1>11. up[L].at = 1
  BY <1>9, <1>10
<1>12. QED
  BY <1>9, <1>11 DEF L, all, up

\* What a node of the tree is made of is in the tree: a leaf of it is an
\* address of the list, and the children of an inner node are nodes of it.
LEMMA NodesOfTree ==
    ASSUME NEW list \in Seq(Address), list # <<>>,
           NEW n \in 0..Len(list), NEW i \in DOMAIN Layers(list)[n]
    PROVE  /\ \A x : Layers(list)[n][i] = Leaf(x) => x \in ToSet(list)
           /\ \A h, s : Layers(list)[n][i] = Parent(h, s) =>
                \E m \in 0..Len(list) : \E k \in DOMAIN Layers(list)[m] :
                    Layers(list)[m][k] = h
           /\ Layers(list)[n][i] # NoRoot
<1> DEFINE L == Len(list)
           all == Layers(list)
           InTree(h) == \E m \in 0..L : \E k \in DOMAIN all[m] : all[m][k] = h
           Good(m, k) == /\ \A x : all[m][k] = Leaf(x) => x \in ToSet(list)
                         /\ \A h, s : all[m][k] = Parent(h, s) => InTree(h)
                         /\ all[m][k] # NoRoot
           S == {m \in Nat : m <= L => \A k \in DOMAIN all[m] : Good(m, k)}
<1>1. L \in Nat /\ L # 0
  OBVIOUS
<1>2. /\ all[0] = [k \in 1..L |-> Leaf(list[k])]
      /\ \A m \in 1..L : all[m] = NextLayer(all[m - 1])
  BY <1>1, LayerSteps
<1>3. \A m \in 0..L : Len(all[m]) \in Nat \ {0} /\ DOMAIN all[m] = 1..Len(all[m])
  BY <1>1, LayerLengths
<1>4. \A k \in 1..L : list[k] \in ToSet(list)
  BY DEF ToSet
<1> HIDE DEF L, all
<1>5. 0 \in S
  <2>1. ASSUME NEW k \in DOMAIN all[0] PROVE Good(0, k)
    <3>1. all[0][k] = Leaf(list[k]) /\ k \in 1..L
      BY <1>2, <2>1
    <3>2. QED
      BY <1>4, <3>1, Preimages
  <2>2. QED
    BY <2>1
<1>6. ASSUME NEW m \in Nat, m \in S PROVE m + 1 \in S
  <2> SUFFICES ASSUME m + 1 <= L, NEW k \in DOMAIN all[m + 1] PROVE Good(m + 1, k)
    OBVIOUS
  <2> DEFINE layer == all[m]
             l == Len(layer)
  <2>1. m \in 0..L /\ m + 1 \in 1..L /\ (m + 1) - 1 = m
    BY <1>1
  <2>2. \A j \in DOMAIN layer : Good(m, j)
    BY <1>1, <1>6
  <2>3. all[m + 1] = NextLayer(layer)
    BY <1>2, <2>1
  <2>4. l \in Nat \ {0} /\ DOMAIN layer = 1..l
    BY <1>3, <2>1
  <2>5. /\ k \in Nat /\ 2 * k - 1 \in 1..l
        /\ 2 * k <= l => all[m + 1][k] = Parent(layer[2 * k - 1], layer[2 * k])
        /\ 2 * k > l => all[m + 1][k] = layer[2 * k - 1]
    BY <2>3, <2>4, NextLayerNodes
  <2>6. CASE 2 * k <= l
    <3>1. 2 * k - 1 \in DOMAIN layer /\ 2 * k \in DOMAIN layer
      BY <2>4, <2>5, <2>6
    <3>2. InTree(layer[2 * k - 1]) /\ InTree(layer[2 * k])
      BY <2>1, <3>1
    <3>3. all[m + 1][k] = Parent(layer[2 * k - 1], layer[2 * k])
      BY <2>5, <2>6
    <3> HIDE DEF layer, InTree
    <3>4. ASSUME NEW h, NEW s, all[m + 1][k] = Parent(h, s) PROVE InTree(h)
      <4>1. Parent(h, s) = Parent(layer[2 * k - 1], layer[2 * k])
        BY <3>3, <3>4
      <4>2. h \in {layer[2 * k - 1], layer[2 * k]}
        BY <4>1, Preimages
      <4>3. QED
        BY <3>2, <4>2
    <3>5. all[m + 1][k] # NoRoot /\ \A x : all[m + 1][k] # Leaf(x)
      BY <3>3, Preimages
    <3>6. QED
      BY <3>4, <3>5
  <2>7. CASE 2 * k > l
    <3>1. all[m + 1][k] = layer[2 * k - 1] /\ 2 * k - 1 \in DOMAIN layer
      BY <2>4, <2>5, <2>7
    <3>2. Good(m, 2 * k - 1)
      BY <2>2, <3>1
    <3> HIDE DEF InTree
    <3>3. QED
      BY <3>1, <3>2
  <2>8. QED
    BY <2>4, <2>5, <2>6, <2>7
<1>7. Nat \subseteq S
  <2> HIDE DEF S
  <2> QED BY <1>5, <1>6, NatSetInduction
<1>8. n \in Nat /\ n <= L /\ i \in DOMAIN all[n]
  BY <1>1 DEF L, all
<1>9. Good(n, i)
  BY <1>7, <1>8
<1>10. QED
  BY <1>9 DEF L, all

\* The proof handed out for a leaf verifies against the root.
THEOREM LeavesVerify ==
    ASSUME NEW list \in Seq(Address), NEW x \in ToSet(list)
    PROVE  /\ \E T : GetMerkleProof(list, x) \in Seq(T)
           /\ Verify(GetMerkleProof(list, x), GetMerkleRoot(list), x)
<1> DEFINE At == {i \in 1..Len(list) : list[i] = x}
           top == CHOOSE i \in At : \A k \in At : k <= i
           S == {n \in Nat : n <= Len(list) =>
                    ((\E i \in At : i <= n) =>
                        \E i \in At : i <= n /\ \A k \in At : k <= n => k <= i)}
<1>1. Len(list) \in Nat /\ list # <<>> /\ At # {}
  BY DEF ToSet
<1>2. \E i \in At : \A k \in At : k <= i
  <2>1. At \subseteq 1..Len(list)
    OBVIOUS
  <2> HIDE DEF At
  <2>2. 0 \in S
    BY <2>1
  <2>3. ASSUME NEW n \in Nat, n \in S PROVE n + 1 \in S
    <3> SUFFICES ASSUME n + 1 <= Len(list), \E i \in At : i <= n + 1
                 PROVE  \E i \in At : i <= n + 1 /\ \A k \in At : k <= n + 1 => k <= i
      OBVIOUS
    <3>1. CASE n + 1 \in At
      BY <2>1, <3>1
    <3>2. CASE n + 1 \notin At
      <4>1. ASSUME NEW i \in At, i <= n + 1 PROVE i <= n
        <5>1. i # n + 1 /\ i \in Nat
          BY <2>1, <3>2
        <5>2. QED
          BY <4>1, <5>1
      <4>2. PICK i \in At : i <= n /\ \A k \in At : k <= n => k <= i
        BY <1>1, <2>3, <4>1
      <4>3. i <= n + 1
        BY <2>1, <4>2
      <4>4. QED
        BY <4>1, <4>2, <4>3
    <3>3. QED
      BY <3>1, <3>2
  <2>4. Nat \subseteq S
    <3> HIDE DEF S
    <3> QED BY <2>2, <2>3, NatSetInduction
  <2>5. \A i \in At : i <= Len(list)
    BY <1>1, <2>1
  <2>6. QED
    BY <1>1, <2>4, <2>5
<1>3. top \in 1..Len(list) /\ list[top] = x
  <2>1. top \in At
    BY <1>2
  <2> HIDE DEF top
  <2>2. QED
    BY <2>1
<1>4. GetMerkleProof(list, x) = WayUp(list, top)[Len(list)].siblings
  BY <1>1 DEF GetMerkleProof
<1>5. GetMerkleRoot(list) = Layers(list)[Len(list)][1]
  BY <1>1 DEF GetMerkleRoot
<1> HIDE DEF top
<1>6. QED
  BY <1>3, <1>4, <1>5, WayUpFolds DEF Verify

\* Whoever asks is handed out a sequence of hashes.
LEMMA ProofIsSeq ==
    ASSUME NEW list \in Seq(Address), NEW x
    PROVE  \E T : GetMerkleProof(list, x) \in Seq(T)
<1>1. CASE x \in ToSet(list)
  BY <1>1, LeavesVerify
<1>2. CASE x \notin ToSet(list)
  <2>1. \A i \in 1..Len(list) : list[i] # x
    BY <1>2 DEF ToSet
  <2>2. GetMerkleProof(list, x) = <<>>
    BY <2>1 DEF GetMerkleProof
  <2>3. <<>> \in Seq({})
    OBVIOUS
  <2>4. QED
    BY <2>2, <2>3
<1>3. QED
  BY <1>1, <1>2

\* No proof whatsoever verifies against the root for what is not a leaf.
THEOREM OnlyLeavesVerify ==
    ASSUME NEW list \in Seq(Address), NEW x, NEW T, NEW proof \in Seq(T),
           Verify(proof, GetMerkleRoot(list), x)
    PROVE  x \in ToSet(list)
<1> DEFINE L == Len(list)
           N == Len(proof)
           all == Layers(list)
           InTree(h) == \E m \in 0..L : \E k \in DOMAIN all[m] : all[m][k] = h
<1>1. L \in Nat /\ N \in Nat /\ DOMAIN proof = 1..N
  OBVIOUS
<1>2. PICK f : /\ f[0] = Leaf(x)
               /\ \A k \in 1..N : f[k] = Parent(f[k - 1], proof[k])
               /\ f[N] = FoldLeft(Parent, Leaf(x), proof)
  BY <1>1, FoldLeftSteps
<1>3. f[N] = GetMerkleRoot(list)
  BY <1>2 DEF Verify
<1>4. list # <<>>
  <2>1. f[N] # NoRoot
    <3>1. CASE N = 0
      BY <1>2, <3>1, Preimages
    <3>2. CASE N # 0
      <4>1. N \in 1..N
        BY <1>1, <3>2
      <4>2. f[N] = Parent(f[N - 1], proof[N])
        BY <1>2, <4>1
      <4>3. QED
        BY <4>2, Preimages
    <3>3. QED
      BY <3>1, <3>2
  <2>2. QED
    BY <1>3, <2>1 DEF GetMerkleRoot
<1>5. InTree(f[N])
  <2>1. L \in 0..L
    BY <1>1
  <2>2. 1 \in DOMAIN all[L]
    <3>1. Len(all[L]) \in Nat \ {0} /\ DOMAIN all[L] = 1..Len(all[L])
      BY <1>4, <2>1, LayerLengths
    <3>2. QED
      BY <3>1
  <2>3. f[N] = all[L][1]
    BY <1>3, <1>4 DEF GetMerkleRoot
  <2>4. QED
    BY <2>1, <2>2, <2>3
<1> DEFINE S == {k \in Nat : k <= N => InTree(f[N - k])}
<1>6. 0 \in S
  BY <1>1, <1>5
<1>7. ASSUME NEW k \in Nat, k \in S PROVE k + 1 \in S
  <2> SUFFICES ASSUME k + 1 <= N PROVE InTree(f[N - (k + 1)])
    OBVIOUS
  <2>1. N - k \in 1..N /\ (N - k) - 1 = N - (k + 1)
    BY <1>1
  <2>2. f[N - k] = Parent(f[N - (k + 1)], proof[N - k])
    BY <1>2, <2>1
  <2>3. InTree(f[N - k])
    BY <1>1, <1>7
  <2>4. QED
    BY <1>4, <2>2, <2>3, NodesOfTree
<1>8. Nat \subseteq S
  <2> HIDE DEF S
  <2> QED BY <1>6, <1>7, NatSetInduction
<1>9. InTree(f[0])
  <2> HIDE DEF InTree
  <2>1. N \in S /\ N <= N /\ N - N = 0
    BY <1>1, <1>8
  <2>2. QED
    BY <2>1
<1>10. QED
  BY <1>2, <1>4, <1>9, NodesOfTree

\* Lists with the same root have the same addresses.
THEOREM RootCommits ==
    ASSUME NEW list \in Seq(Address), NEW others \in Seq(Address),
           GetMerkleRoot(list) = GetMerkleRoot(others)
    PROVE  ToSet(list) = ToSet(others)
<1>1. ASSUME NEW a \in Seq(Address), NEW b \in Seq(Address),
             GetMerkleRoot(a) = GetMerkleRoot(b), NEW x \in ToSet(a)
      PROVE  x \in ToSet(b)
  <2>1. PICK T : GetMerkleProof(a, x) \in Seq(T)
    BY LeavesVerify
  <2>2. Verify(GetMerkleProof(a, x), GetMerkleRoot(b), x)
    BY <1>1, LeavesVerify
  <2>3. QED
    BY <2>1, <2>2, OnlyLeavesVerify
<1>2. QED
  BY <1>1

-----------------------------------------------------------------------------
(* The whitelist table.                                                        *)

\* The orders in which a set can be read: sequences of all its elements.
LEMMA SeqOfSet ==
    ASSUME NEW S, IsFiniteSet(S), NEW s \in SetToSeqs(S)
    PROVE  s \in Seq(S) /\ ToSet(s) = S
<1> DEFINE D == 1..Cardinality(S)
<1>1. Cardinality(S) \in Nat
  BY FS_CardinalityType
<1>2. s \in [D -> S] /\ \A i, j \in D : i # j => s[i] # s[j]
  BY DEF SetToSeqs
<1>3. s \in Injection(D, S)
  BY <1>2 DEF Injection, IsInjective
<1>4. Cardinality(D) = Cardinality(S)
  BY <1>1, FS_Interval
<1>5. s \in Surjection(D, S)
  BY <1>3, <1>4, FS_Injection
<1>6. ToSet(s) = S
  BY <1>2, <1>5 DEF Surjection, ToSet
<1>7. s \in Seq(S)
  BY <1>1, <1>2
<1>8. QED
  BY <1>6, <1>7

\* The rows of one command are finitely many.
LEMMA BatchIsFinite ==
    ASSUME NEW j, NEW F, IsFiniteSet(F)
    PROVE  IsFiniteSet([by: {j}, address: F])
<1> DEFINE T == [by: {j}, address: F]
           f == [x \in F |-> [by |-> j, address |-> x]]
<1>1. f \in [F -> T]
  OBVIOUS
<1>2. ASSUME NEW t \in T PROVE \E x \in F : f[x] = t
  <2>1. t.address \in F /\ t = [by |-> j, address |-> t.address]
    OBVIOUS
  <2>2. QED
    BY <2>1
<1>3. f \in Surjection(F, T)
  BY <1>1, <1>2 DEF Surjection
<1>4. QED
  BY <1>3, FS_Surjection

\* However the table is read, the leaves are the addresses of its rows.
LEMMA LeavesAreListed ==
    ASSUME rows \subseteq Row, IsFiniteSet(rows), NEW s \in Reads
    PROVE  AddressesOf(s) \in Seq(Address) /\ ToSet(AddressesOf(s)) = Listed(rows)
<1>1. s \in Seq(rows) /\ ToSet(s) = rows
  BY SeqOfSet DEF Reads
<1>2. DOMAIN s = 1..Len(s) /\ Len(s) \in Nat /\ \A i \in DOMAIN s : s[i] \in Row
  BY <1>1
<1>3. AddressesOf(s) \in [1..Len(s) -> Address]
  BY <1>2 DEF AddressesOf, Row
<1>4. AddressesOf(s) \in Seq(Address)
  BY <1>2, <1>3
<1>5. ToSet(AddressesOf(s)) = Listed(rows)
  <2>1. ToSet(AddressesOf(s)) = {s[i].address : i \in DOMAIN s}
    BY DEF AddressesOf, ToSet
  <2>2. rows = {s[i] : i \in DOMAIN s}
    BY <1>1 DEF ToSet
  <2>3. QED
    BY <2>1, <2>2 DEF Listed
<1>6. QED
  BY <1>4, <1>5

-----------------------------------------------------------------------------
\* Where the handler is tells whether it has called processTx.
WhitelistProgress ==
    \A j \in Job :
        /\ hpc[j] \in {"start", "insert", "read"} => pc[j] = "idle"
        /\ InFlight(j) => hpc[j] = "call"

\* A row that its command has added is among the leaves the command sends.
RowsAreSent ==
    \A r \in rows : r.by # Seed /\ pc[r.by] # "idle" => r.address \in ToSet(leaves[r.by])

\* Without overlap only the last command is under way, and what it has found
\* missing still is.
OneAtATime ==
    ~overlap =>
        /\ \A j \in Job : HandlerBusy(j) => j = last
        /\ \A j \in Job : hpc[j] = "insert" => fresh[j] \cap Listed(rows) = {}

\* From its call on, the last of serial commands has the table for leaves; when it
\* is mined the contract has them too, and nothing is left that could change it.
LastIsCurrent ==
    Serial /\ last # Seed =>
        /\ pc[last] # "idle" => ToSet(leaves[last]) = Listed(rows)
        /\ tx[last] = "succeeded" => contract = leaves[last]
        /\ Mined(last) => \A j \in Job : tx[j] # "pending"

ListInv ==
    /\ WhitelistTypeOK
    /\ IsFiniteSet(rows)
    /\ WhitelistProgress
    /\ RowsAreSent
    /\ SettledWasPublished
    /\ OneAtATime
    /\ SerialNoDuplicates
    /\ LastIsCurrent

WhitelistInv == IInv /\ ListInv

-----------------------------------------------------------------------------
\* Before the first command the contract has the list of the seed.
LEMMA WhitelistInvInit == WhitelistInit => WhitelistInv
<1> SUFFICES ASSUME WhitelistInit PROVE WhitelistInv
  OBVIOUS
<1>1. IInv
  BY InvInit DEF WhitelistInit
<1>2. IsFiniteSet(SeedList)
  BY CommandAssumption, FS_Subset
<1>3. IsFiniteSet(rows)
  BY <1>2, BatchIsFinite DEF WhitelistInit
<1>4. overlap \in BOOLEAN
  BY Zenon DEF WhitelistInit
<1>5. contract \in Seq(Address)
  <2>1. contract \in Seq(SeedList)
    BY <1>2, SeqOfSet DEF WhitelistInit
  <2>2. QED
    BY <2>1, CommandAssumption
<1>6. WhitelistTypeOK
  BY <1>1, <1>4, <1>5, CommandAssumption DEF WhitelistInit, WhitelistTypeOK, IInv, Row
<1>7. WhitelistProgress /\ OneAtATime
  BY DEF WhitelistInit, Init, WhitelistProgress, OneAtATime, HandlerBusy, InFlight, Called
<1>8. RowsAreSent /\ SettledWasPublished /\ SerialNoDuplicates /\ LastIsCurrent
  BY DEF WhitelistInit, RowsAreSent, SettledWasPublished, SerialNoDuplicates,
     LastIsCurrent
<1>9. QED
  BY <1>1, <1>3, <1>6, <1>7, <1>8 DEF WhitelistInv, ListInv

\* Whatever the handlers do, processTx takes a step of its own or none.
LEMMA WhitelistMovesService == WhitelistInv /\ [WhitelistNext]_wvars => [Next]_vars
<1> SUFFICES ASSUME WhitelistInv, [WhitelistNext]_wvars PROVE [Next]_vars
  OBVIOUS
<1>1. ASSUME NEW j \in Job,
             \/ AddWhitelistCheck(j) \/ AddWhitelistCreate(j) \/ RemoveWhitelist(j)
             \/ Publish(j) \/ HandlerFails(j)
             \/ ProcessTxStep(j) \/ SettleRows(j) \/ MineRoot(j)
      PROVE  [Next]_vars
  BY <1>1 DEF AddWhitelistCheck, AddWhitelistCreate, RemoveWhitelist, Publish,
     HandlerFails, ProcessTxStep, SettleRows, MineRoot, Next, Background, Network
<1>2. CASE WhitelistCrash
  BY <1>2, MemoryLost DEF WhitelistCrash, WhitelistInv, IInv
<1>3. CASE UNCHANGED wvars
  BY <1>3 DEF wvars
<1>4. QED
  BY <1>1, <1>2, <1>3 DEF WhitelistNext, WhitelistQuiet

\* A command that starts is the last from then on, and overlaps if another runs.
LEMMA StartedAlone ==
    ASSUME NEW j \in Job, Started(j)
    PROVE  /\ last' = j /\ overlap' \in BOOLEAN
           /\ ~overlap' => ~overlap /\ \A k \in Job : ~HandlerBusy(k)
  BY Zenon DEF Started, Busy

\* A step that leaves commands and table alone and makes nobody busy.
LEMMA ListKept ==
    ASSUME WhitelistInv, IInv', \A j \in Job : Settled(j),
           UNCHANGED <<cmd, fresh, leaves, rows, settled, batches, last, overlap>>,
           hpc' \in [Job -> {"start", "insert", "read", "call", "over"}],
           contract' \in Seq(Address),
           \A j \in Job : /\ HandlerBusy(j)' => HandlerBusy(j)
                          /\ hpc'[j] = "insert" => hpc[j] = "insert"
                          /\ pc[j] = "idle" => pc'[j] = "idle",
           WhitelistProgress', LastIsCurrent'
    PROVE  ListInv'
<1> USE DEF WhitelistInv, ListInv
<1>1. WhitelistTypeOK'
  BY DEF WhitelistTypeOK, IInv
<1>2. RowsAreSent' /\ OneAtATime' /\ SerialNoDuplicates'
  BY DEF WhitelistTypeOK, RowsAreSent, OneAtATime, SerialNoDuplicates, Listed, Row
<1>3. SettledWasPublished'
  <2>1. \A r \in settled : r.by # Seed => r.by \in Job
    BY DEF WhitelistTypeOK, Row
  <2>2. \A k \in Job : tx[k] = "succeeded" => tx'[k] = "succeeded"
    BY DEF Settled, Mined
  <2>3. QED
    BY <2>1, <2>2, Zenon DEF SettledWasPublished
<1>4. QED
  BY <1>1, <1>2, <1>3

\* Only the last of serial commands can be under way inside processTx.
LEMMA OnlyLastInside ==
    ASSUME WhitelistInv, Serial, NEW j \in Job, InFlight(j)
    PROVE  j = last
  BY DEF WhitelistInv, ListInv, WhitelistProgress, OneAtATime, HandlerBusy, Serial

-----------------------------------------------------------------------------
\* Reading the table for the addresses that are new: the command is the last from
\* here on.
LEMMA CheckKeeps ==
    ASSUME WhitelistInv, NEW j \in Job, AddWhitelistCheck(j), IInv' PROVE ListInv'
<1> USE DEF WhitelistInv, ListInv
<1>1. /\ last' = j /\ overlap' \in BOOLEAN
      /\ ~overlap' => ~overlap /\ \A k \in Job : ~HandlerBusy(k)
  BY StartedAlone DEF AddWhitelistCheck
<1> DEFINE missing == cmd[j].addresses \ Listed(rows)
<1>2. /\ hpc[j] = "start" /\ pc[j] = "idle"
      /\ fresh' = [fresh EXCEPT ![j] = missing]
      /\ \E l \in {"insert", "over"} : hpc' = [hpc EXCEPT ![j] = l]
      /\ UNCHANGED <<cmd, leaves, rows, settled, batches, contract, pc, tx, req>>
  BY DEF AddWhitelistCheck, tableVars, vars, WhitelistProgress
<1>3. cmd[j].addresses \in SUBSET Address
  BY CommandAssumption DEF WhitelistTypeOK
<1>4. WhitelistTypeOK'
  BY <1>1, <1>2, <1>3 DEF WhitelistTypeOK, IInv
<1>5. WhitelistProgress' /\ RowsAreSent' /\ SettledWasPublished'
  BY <1>2 DEF WhitelistTypeOK, WhitelistProgress, InFlight, Called, Ended, RowsAreSent,
     SettledWasPublished
<1>6. OneAtATime'
  <2>1. Listed(rows)' = Listed(rows)
    BY <1>2 DEF Listed
  <2>2. ASSUME ~overlap', NEW k \in Job, k # j PROVE ~HandlerBusy(k)'
    BY <1>1, <1>2, <2>2 DEF WhitelistTypeOK, HandlerBusy, InFlight, Called, Ended
  <2>3. QED
    BY <1>1, <1>2, <2>1, <2>2 DEF WhitelistTypeOK, OneAtATime, HandlerBusy
<1>7. SerialNoDuplicates'
  BY <1>1, <1>2 DEF SerialNoDuplicates
<1>8. LastIsCurrent'
  BY <1>1, <1>2 DEF LastIsCurrent, IInv, Progress, Mined
<1>9. QED
  BY <1>2, <1>4, <1>5, <1>6, <1>7, <1>8

\* Adding the new addresses: they are a command's own rows, not yet called for.
LEMMA CreateKeeps ==
    ASSUME WhitelistInv, NEW j \in Job, AddWhitelistCreate(j), IInv' PROVE ListInv'
<1> USE DEF WhitelistInv, ListInv
<1> DEFINE batch == [by: {j}, address: fresh[j]]
<1>1. /\ hpc[j] = "insert" /\ pc[j] = "idle" /\ HandlerBusy(j)
      /\ rows' = rows \cup batch /\ batches' = Append(batches, j)
      /\ hpc' = [hpc EXCEPT ![j] = "read"]
      /\ UNCHANGED <<cmd, fresh, leaves, settled, contract, last, overlap, pc, tx, req>>
  BY DEF AddWhitelistCreate, historyVars, vars, WhitelistProgress, HandlerBusy
<1>2. fresh[j] \in SUBSET Address /\ batch \subseteq Row
  BY DEF WhitelistTypeOK, Row
<1>3. IsFiniteSet(rows')
  <2>1. IsFiniteSet(fresh[j])
    BY <1>2, CommandAssumption, FS_Subset
  <2>2. IsFiniteSet(batch)
    BY <2>1, BatchIsFinite
  <2>3. QED
    BY <1>1, <2>2, FS_Union
<1>4. WhitelistTypeOK'
  BY <1>1, <1>2 DEF WhitelistTypeOK, IInv
<1>5. WhitelistProgress' /\ RowsAreSent' /\ SettledWasPublished'
  BY <1>1 DEF WhitelistTypeOK, WhitelistProgress, InFlight, Called, Ended, RowsAreSent,
     SettledWasPublished
<1>6. OneAtATime'
  <2>1. ASSUME ~overlap, NEW k \in Job, HandlerBusy(k)' PROVE k = last
    BY <1>1, <2>1 DEF WhitelistTypeOK, OneAtATime, HandlerBusy, InFlight, Called, Ended
  <2>2. ASSUME ~overlap, NEW k \in Job, hpc'[k] = "insert" PROVE FALSE
    BY <1>1, <2>2 DEF WhitelistTypeOK, OneAtATime, HandlerBusy
  <2>3. QED
    BY <1>1, <2>1, <2>2 DEF OneAtATime
<1>7. SerialNoDuplicates'
  <2> SUFFICES ASSUME ~overlap, NEW r \in rows', NEW q \in rows',
                      r.address = q.address
               PROVE  r = q
    BY <1>1 DEF SerialNoDuplicates
  <2>1. \A p \in batch : p.by = j /\ p.address \in fresh[j]
                        /\ p = [by |-> j, address |-> p.address]
    OBVIOUS
  <2>2. \A p \in rows : p.address \notin fresh[j]
    BY <1>1 DEF OneAtATime, Listed
  <2>3. CASE r \in batch /\ q \in batch
    BY <2>1, <2>3
  <2>4. CASE r \in rows /\ q \in rows
    BY <2>4 DEF SerialNoDuplicates
  <2>5. QED
    BY <1>1, <2>1, <2>2, <2>3, <2>4
<1>8. LastIsCurrent'
  BY <1>1 DEF LastIsCurrent, OneAtATime, Serial, From, IInv, Progress, Mined
<1>9. QED
  BY <1>3, <1>4, <1>5, <1>6, <1>7, <1>8

\* Removing addresses: what is left was there, and was published.
LEMMA RemoveKeeps ==
    ASSUME WhitelistInv, NEW j \in Job, RemoveWhitelist(j), IInv' PROVE ListInv'
<1> USE DEF WhitelistInv, ListInv
<1>1. /\ last' = j /\ overlap' \in BOOLEAN
      /\ ~overlap' => ~overlap /\ \A k \in Job : ~HandlerBusy(k)
  BY StartedAlone DEF RemoveWhitelist
<1>2. /\ hpc[j] = "start" /\ pc[j] = "idle"
      /\ rows' \subseteq rows /\ settled' \subseteq settled /\ settled' \subseteq rows'
      /\ \E l \in {"read", "over"} : hpc' = [hpc EXCEPT ![j] = l]
      /\ UNCHANGED <<cmd, fresh, leaves, batches, contract, pc, tx, req>>
  BY DEF RemoveWhitelist, vars, WhitelistProgress, WhitelistTypeOK
<1>3. IsFiniteSet(rows')
  BY <1>2, FS_Subset
<1>4. WhitelistTypeOK'
  BY <1>1, <1>2 DEF WhitelistTypeOK, IInv
<1>5. WhitelistProgress' /\ RowsAreSent' /\ SettledWasPublished'
  BY <1>2 DEF WhitelistTypeOK, WhitelistProgress, InFlight, Called, Ended, RowsAreSent,
     SettledWasPublished
<1>6. OneAtATime'
  <2>1. ASSUME ~overlap', NEW k \in Job, k # j
        PROVE  ~HandlerBusy(k)' /\ hpc'[k] # "insert"
    BY <1>1, <1>2, <2>1 DEF WhitelistTypeOK, HandlerBusy, InFlight, Called, Ended
  <2>2. QED
    BY <1>1, <1>2, <2>1 DEF WhitelistTypeOK, OneAtATime
<1>7. SerialNoDuplicates'
  BY <1>1, <1>2 DEF SerialNoDuplicates
<1>8. LastIsCurrent'
  BY <1>1, <1>2 DEF LastIsCurrent, IInv, Progress, Mined
<1>9. QED
  BY <1>3, <1>4, <1>5, <1>6, <1>7, <1>8

\* Reading the table back and calling processTx: the leaves are the table.
LEMMA PublishKeeps ==
    ASSUME WhitelistInv, NEW j \in Job, Publish(j), IInv' PROVE ListInv'
<1> USE DEF WhitelistInv, ListInv
<1>1. PICK s \in Reads : leaves' = [leaves EXCEPT ![j] = AddressesOf(s)]
  BY DEF Publish
<1>2. AddressesOf(s) \in Seq(Address) /\ ToSet(AddressesOf(s)) = Listed(rows)
  BY <1>1, LeavesAreListed DEF WhitelistTypeOK
<1>3. /\ hpc[j] = "read" /\ pc[j] = "idle" /\ tx[j] = "unsent"
      /\ hpc' = [hpc EXCEPT ![j] = "call"] /\ pc' = [pc EXCEPT ![j] = "nonce"]
      /\ UNCHANGED <<cmd, fresh, rows, settled, batches, contract, last, overlap, tx, req>>
  BY DEF Publish, Call, Goto, chainVars, tableVars, historyVars, WhitelistProgress, IInv,
     Progress
<1>4. WhitelistTypeOK'
  BY <1>1, <1>2, <1>3 DEF WhitelistTypeOK, IInv
<1>5. WhitelistProgress'
  BY <1>3 DEF WhitelistTypeOK, WhitelistProgress, InFlight, Called, Ended, IInv, TypeOK
<1>6. RowsAreSent'
  BY <1>1, <1>2, <1>3 DEF WhitelistTypeOK, RowsAreSent, Listed, Row, IInv, TypeOK
<1>7. SettledWasPublished'
  BY <1>1, <1>3 DEF WhitelistTypeOK, SettledWasPublished
<1>8. OneAtATime'
  <2>1. ASSUME NEW k \in Job, HandlerBusy(k)' PROVE HandlerBusy(k)
    BY <1>3, <2>1 DEF WhitelistTypeOK, HandlerBusy, InFlight, Called, Ended, IInv, TypeOK
  <2>2. QED
    BY <1>3, <2>1 DEF WhitelistTypeOK, OneAtATime, Listed
<1>9. SerialNoDuplicates'
  BY <1>3 DEF SerialNoDuplicates
<1>10. LastIsCurrent'
  <2> SUFFICES ASSUME Serial, last # Seed
               PROVE  /\ pc'[last] # "idle" => ToSet(leaves'[last]) = Listed(rows)
                      /\ tx[last] = "succeeded" => contract = leaves'[last]
                      /\ Mined(last) => \A k \in Job : tx[k] # "pending"
    BY <1>3 DEF LastIsCurrent, Serial, From, Mined, Listed
  <2>1. j = last
    BY <1>3 DEF OneAtATime, Serial, HandlerBusy
  <2>2. QED
    BY <1>1, <1>2, <1>3, <2>1 DEF Mined, WhitelistTypeOK
<1>11. QED
  BY <1>3, <1>4, <1>5, <1>6, <1>7, <1>8, <1>9, <1>10

\* Mining: as the commands of Serial have one wallet, nothing of it stays pending.
LEMMA MineRootKeeps ==
    ASSUME WhitelistInv, NEW j \in Job, MineRoot(j), IInv', \A k \in Job : Settled(k)
    PROVE  ListInv'
<1>1. /\ UNCHANGED <<cmd, hpc, fresh, leaves, rows, settled, batches, last, overlap, pc, req>>
      /\ tx[j] = "pending" /\ tx'[j] \in {"succeeded", "reverted"}
      /\ \A k \in Job : k # j =>
             IF tx[k] = "pending" /\ From(k) = From(j) THEN tx'[k] = "void"
             ELSE tx'[k] = tx[k]
      /\ contract' = IF tx'[j] = "succeeded" THEN leaves[j] ELSE contract
  BY MineStep DEF MineRoot, handlerVars, tableVars, historyVars, serviceVars, WhitelistInv
<1>2. LastIsCurrent'
  <2> SUFFICES ASSUME Serial, last # Seed
               PROVE  /\ pc[last] # "idle" => ToSet(leaves[last]) = Listed(rows)
                      /\ tx'[last] = "succeeded" => contract' = leaves[last]
                      /\ tx'[last] \in {"succeeded", "reverted"} =>
                             \A k \in Job : tx'[k] # "pending"
    BY <1>1 DEF LastIsCurrent, Serial, From, Mined, Listed
  <2>1. last \in Job /\ LastIsCurrent
    BY DEF WhitelistInv, ListInv, WhitelistTypeOK
  <2>2. \A k \in Job : tx'[k] # "pending"
    BY <1>1 DEF Serial
  <2>3. ~Mined(last)
    BY <1>1, <2>1 DEF LastIsCurrent
  <2>4. tx'[last] = "succeeded" => last = j
    BY <1>1, <2>1, <2>3 DEF Mined
  <2>5. QED
    BY <1>1, <2>1, <2>2, <2>4 DEF LastIsCurrent
<1>3. contract' \in Seq(Address) /\ WhitelistProgress'
  BY <1>1 DEF WhitelistInv, ListInv, WhitelistTypeOK, WhitelistProgress, InFlight, Called,
     Ended
<1>4. QED
  BY <1>1, <1>2, <1>3, ListKept DEF HandlerBusy, InFlight, Called, Ended, WhitelistInv,
     ListInv, WhitelistTypeOK

\* A step inside processTx leaves the table and the contract alone.
LEMMA InsideKeeps ==
    ASSUME WhitelistInv, NEW j \in Job, ProcessTxStep(j), IInv', \A k \in Job : Settled(k)
    PROVE  ListInv'
<1>1. /\ UNCHANGED <<cmd, hpc, fresh, leaves, rows, settled, batches, contract, last, overlap>>
      /\ req' = req
  BY DEF ProcessTxStep, handlerVars, tableVars, historyVars, Settled
<1>2. \A k \in Job :
          /\ pc[k] = "idle" => pc'[k] = "idle"
          /\ Ended(k) => Ended(k)'
          /\ InFlight(k)' => InFlight(k)
          /\ tx'[k] # tx[k] => pc[k] = "send" /\ tx[k] = "unsent" /\ tx'[k] = "pending"
  BY InsideStep DEF ProcessTxStep, WhitelistInv
<1>3. WhitelistProgress'
  BY <1>1, <1>2 DEF WhitelistInv, ListInv, WhitelistProgress
<1>4. LastIsCurrent'
  <2> SUFFICES ASSUME Serial, last # Seed
               PROVE  /\ pc'[last] # "idle" => ToSet(leaves[last]) = Listed(rows)
                      /\ tx'[last] = "succeeded" => contract = leaves[last]
                      /\ tx'[last] \in {"succeeded", "reverted"} =>
                             \A k \in Job : tx'[k] # "pending"
    BY <1>1 DEF LastIsCurrent, Serial, From, Mined, Listed
  <2>1. last \in Job /\ LastIsCurrent
    BY DEF WhitelistInv, ListInv, WhitelistTypeOK
  <2>2. ASSUME NEW k \in Job, tx'[k] # tx[k] PROVE k = last
    BY <1>2, <2>2, OnlyLastInside DEF InFlight, Called, Ended
  <2>3. QED
    BY <1>1, <1>2, <2>1, <2>2 DEF LastIsCurrent, Mined
<1>5. QED
  BY <1>1, <1>2, <1>3, <1>4, ListKept DEF HandlerBusy, WhitelistInv, ListInv,
     WhitelistTypeOK

\* The event's handler marks rows of its own command, which the command has sent.
LEMMA SettleKeeps ==
    ASSUME WhitelistInv, NEW j \in Job, SettleRows(j), IInv' PROVE ListInv'
<1> USE DEF WhitelistInv, ListInv
<1>1. /\ UNCHANGED <<cmd, hpc, fresh, leaves, rows, batches, contract, last, overlap>>
      /\ UNCHANGED <<pc, tx, req>>
      /\ event[j] = "published"
      /\ settled' \in {settled, settled \cup {r \in rows : r.by = j}}
  BY DEF SettleRows, HandleEvent, chainVars, handlerVars, historyVars
<1>2. tx[j] = "succeeded" /\ pc[j] # "idle" /\ j # Seed
  BY <1>1, CommandAssumption DEF IInv, Record, ProcessedIsMined, TakenForExecuted, Progress
<1>3. WhitelistTypeOK' /\ WhitelistProgress'
  BY <1>1 DEF WhitelistTypeOK, WhitelistProgress, InFlight, Called, Ended, IInv
<1>4. SettledWasPublished'
  BY <1>1, <1>2 DEF SettledWasPublished, RowsAreSent
<1>5. RowsAreSent' /\ OneAtATime' /\ SerialNoDuplicates' /\ LastIsCurrent'
  BY <1>1 DEF RowsAreSent, OneAtATime, HandlerBusy, InFlight, Called, Ended, Listed,
     SerialNoDuplicates, LastIsCurrent, Serial, From, Mined
<1>6. QED
  BY <1>1, <1>3, <1>4, <1>5

\* A failing handler and a crash leave table and contract alone.
LEMMA FailKeeps ==
    ASSUME WhitelistInv, IInv', \A k \in Job : Settled(k),
           (\E j \in Job : HandlerFails(j)) \/ WhitelistCrash \/ UNCHANGED wvars
    PROVE  ListInv'
<1>1. /\ UNCHANGED <<cmd, fresh, leaves, rows, settled, batches, contract, last, overlap>>
      /\ UNCHANGED <<tx, req>>
  BY DEF HandlerFails, WhitelistCrash, LoseMemory, wvars, vars, chainVars, handlerVars,
     tableVars, historyVars
<1>2. \A k \in Job :
          /\ pc'[k] = pc[k] \/ (InFlight(k) /\ pc'[k] = "lost")
          /\ hpc'[k] = hpc[k] \/ hpc'[k] = "over"
          /\ InFlight(k) => hpc'[k] = hpc[k] \/ pc'[k] = "lost"
          /\ HandlerBusy(k)' => HandlerBusy(k)
  <2>1. ASSUME NEW j \in Job, HandlerFails(j)
        PROVE  /\ pc' = pc /\ hpc' = [hpc EXCEPT ![j] = "over"] /\ ~InFlight(j)
    BY <2>1 DEF HandlerFails, vars, WhitelistInv, ListInv, WhitelistProgress
  <2>2. CASE \E j \in Job : HandlerFails(j)
    BY <2>1, <2>2 DEF HandlerBusy, InFlight, Called, Ended, WhitelistInv, ListInv,
       WhitelistTypeOK
  <2>3. CASE WhitelistCrash
    BY <2>3 DEF WhitelistCrash, LoseMemory, HandlerBusy, InFlight, Called, Ended
  <2>4. CASE UNCHANGED wvars
    BY <2>4 DEF wvars, vars, handlerVars, HandlerBusy, InFlight, Called, Ended
  <2>5. QED
    BY <2>2, <2>3, <2>4
<1>3. hpc' \in [Job -> {"start", "insert", "read", "call", "over"}]
  BY DEF HandlerFails, WhitelistCrash, wvars, handlerVars, WhitelistInv, ListInv,
     WhitelistTypeOK
<1>4. WhitelistProgress'
  BY <1>2 DEF WhitelistInv, ListInv, WhitelistProgress, InFlight, Called, Ended
<1>5. LastIsCurrent'
  BY <1>1, <1>2 DEF WhitelistInv, ListInv, WhitelistTypeOK, LastIsCurrent, Serial, From,
     Mined, Listed, InFlight, Called
<1>6. QED
  BY <1>1, <1>2, <1>3, <1>4, <1>5, ListKept DEF InFlight, Called, WhitelistInv, ListInv,
     WhitelistTypeOK

\* Every step keeps the invariant; the lemmas above take it action by action.
LEMMA WhitelistInvStep == WhitelistInv /\ [WhitelistNext]_wvars => WhitelistInv'
<1> SUFFICES ASSUME WhitelistInv, [WhitelistNext]_wvars PROVE WhitelistInv'
  OBVIOUS
<1>1. [Next]_vars
  BY WhitelistMovesService
<1>2. IInv'
  BY <1>1, InvStep DEF WhitelistInv
<1>3. \A k \in Job : Settled(k)
  BY <1>1, SettledStep DEF WhitelistInv
<1>4. ASSUME NEW j \in Job,
             \/ AddWhitelistCheck(j) \/ AddWhitelistCreate(j) \/ RemoveWhitelist(j)
             \/ Publish(j) \/ HandlerFails(j)
             \/ ProcessTxStep(j) \/ SettleRows(j) \/ MineRoot(j)
      PROVE  ListInv'
  BY <1>2, <1>3, <1>4, CheckKeeps, CreateKeeps, RemoveKeeps, PublishKeeps, FailKeeps,
     InsideKeeps, SettleKeeps, MineRootKeeps
<1>5. CASE WhitelistCrash \/ UNCHANGED wvars
  BY <1>2, <1>3, <1>5, FailKeeps DEF WhitelistInv
<1>6. QED
  BY <1>2, <1>4, <1>5 DEF WhitelistNext, WhitelistQuiet, WhitelistInv

-----------------------------------------------------------------------------
\* The inductive invariant holds in every reachable state: that of processTx,
\* and, as long as commands are serial, that contract and table keep up.
THEOREM WhitelistInvariance == WhitelistSpec => []WhitelistInv
  BY WhitelistInvInit, WhitelistInvStep, PTL DEF WhitelistSpec

\* The variables have their types, and only rows that are there are PROCESSED.
THEOREM WhitelistTypesCorrect == WhitelistSpec => []WhitelistTypeOK
<1>1. WhitelistInv => WhitelistTypeOK
  BY DEF WhitelistInv, ListInv
<1>2. QED
  BY WhitelistInvariance, <1>1, PTL

\* However commands overlap, a PROCESSED row was a leaf of a root the contract took.
THEOREM SettledRowsPublished == WhitelistSpec => []SettledWasPublished
<1>1. WhitelistInv => SettledWasPublished
  BY DEF WhitelistInv, ListInv
<1>2. QED
  BY WhitelistInvariance, <1>1, PTL

\* Commands that do not overlap leave no duplicates, whatever failed or crashed.
THEOREM NoDuplicates == WhitelistSpec => []SerialNoDuplicates
<1>1. WhitelistInv => SerialNoDuplicates
  BY DEF WhitelistInv, ListInv
<1>2. QED
  BY WhitelistInvariance, <1>1, PTL

\* After the receipt of the last of serial commands the contract has the whole
\* list, whatever became of those before it.
THEOREM RootIsCurrent == WhitelistSpec => []SerialRootIsCurrent
<1>1. WhitelistInv => SerialRootIsCurrent
  <2> SUFFICES ASSUME WhitelistInv, Serial, last # Seed, result[last] = "receipt"
               PROVE  ToSet(contract) = Listed(rows)
    BY DEF SerialRootIsCurrent
  <2>1. last \in Job
    BY DEF WhitelistInv, ListInv, WhitelistTypeOK
  <2>2. tx[last] = "succeeded" /\ pc[last] # "idle"
    BY <2>1 DEF WhitelistInv, IInv, Record, AnswerIsTrue, Progress
  <2>3. QED
    BY <2>2 DEF WhitelistInv, ListInv, LastIsCurrent
<1>2. QED
  BY WhitelistInvariance, <1>1, PTL

\* Proofs match roots, for lists of any length: whoever is on the list verifies
\* with the proof handed out, and who is not verifies with nobody's.
THEOREM ProofsAreSound == WhitelistSpec => []ProofsMatchRoots
<1>1. WhitelistInv => ProofsMatchRoots
  <2> SUFFICES ASSUME WhitelistInv, NEW j \in Job, NEW x \in Address
               PROVE  LET root == GetMerkleRoot(leaves[j])
                          proof == [y \in Address |-> GetMerkleProof(leaves[j], y)]
                      IN  /\ x \in ToSet(leaves[j]) => Verify(proof[x], root, x)
                          /\ x \notin ToSet(leaves[j]) =>
                                \A y \in Address : ~Verify(proof[y], root, x)
    BY DEF ProofsMatchRoots
  <2>1. leaves[j] \in Seq(Address)
    BY DEF WhitelistInv, ListInv, WhitelistTypeOK
  <2>2. x \in ToSet(leaves[j]) =>
          Verify(GetMerkleProof(leaves[j], x), GetMerkleRoot(leaves[j]), x)
    BY <2>1, LeavesVerify
  <2>3. ASSUME NEW y \in Address,
               Verify(GetMerkleProof(leaves[j], y), GetMerkleRoot(leaves[j]), x)
        PROVE  x \in ToSet(leaves[j])
    <3>1. \E T : GetMerkleProof(leaves[j], y) \in Seq(T)
      BY <2>1, ProofIsSeq
    <3>2. QED
      BY <2>1, <2>3, <3>1, OnlyLeavesVerify
  <2>4. QED
    BY <2>2, <2>3
<1>2. QED
  BY WhitelistInvariance, <1>1, PTL

\* As far as processTx is concerned the whitelist only calls it: the commands
\* with all that surrounds them implement its specification.
THEOREM WhitelistRunsService == WhitelistSpec => Spec
<1>1. WhitelistInit => Init
  BY DEF WhitelistInit
<1>2. QED
  BY <1>1, WhitelistInvariance, WhitelistMovesService, PTL DEF WhitelistSpec, Spec

\* So every whitelist command is answered and recorded as processTx promises, and
\* what is on record is never revised.
THEOREM WhitelistKeepsPromise == WhitelistSpec => KeepsPromise /\ NoSecondThoughts
  BY WhitelistRunsService, PromiseKept, NothingRevised, PTL

-----------------------------------------------------------------------------
(* The whitelist keeps ListPromise.                                            *)

\* The rows of one command list what it has added.
LEMMA BatchIsListed == ASSUME NEW j, NEW F PROVE Listed([by: {j}, address: F]) = F
<1>1. ASSUME NEW x \in F PROVE x \in Listed([by: {j}, address: F])
  <2>1. [by |-> j, address |-> x] \in [by: {j}, address: F]
    OBVIOUS
  <2>2. [by |-> j, address |-> x].address = x
    OBVIOUS
  <2>3. QED
    BY <2>1, <2>2 DEF Listed
<1>2. QED
  BY <1>1 DEF Listed

\* What a step does to table, contract, transactions and receipts is a step of
\* ListPromise, or nothing.
LEMMA ListingStep == WhitelistInv /\ [WhitelistNext]_wvars => [Listing!Next]_(Listing!vars)
<1> SUFFICES ASSUME WhitelistInv, [WhitelistNext]_wvars PROVE [Listing!Next]_(Listing!vars)
  OBVIOUS
<1> DEFINE Snap == [j \in Job |-> IF Called(j) THEN {ToSet(leaves[j])} ELSE {}]
           Inst == {j \in Job : tx[j] = "succeeded"}
           Ack == {j \in Job : result[j] = "receipt"}
<1>0. IInv /\ TypeOK /\ WhitelistTypeOK
  BY DEF WhitelistInv, ListInv, IInv
<1>1. WhitelistInv' /\ IInv' /\ TypeOK'
  BY WhitelistInvStep DEF WhitelistInv, IInv
<1>2. ASSUME UNCHANGED <<Listed(rows), Snap, ToSet(contract), Inst, Ack>>
      PROVE  UNCHANGED Listing!vars
  BY <1>2 DEF Listing!vars
<1>3. ASSUME UNCHANGED <<pc, leaves, tx, result>> PROVE UNCHANGED <<Snap, Inst, Ack>>
  BY <1>3 DEF Called
<1>4. ASSUME NEW j \in Job, AddWhitelistCheck(j) \/ HandlerFails(j)
      PROVE  UNCHANGED Listing!vars
  BY <1>2, <1>3, <1>4 DEF AddWhitelistCheck, HandlerFails, tableVars, vars, chainVars
<1>5. ASSUME NEW j \in Job, AddWhitelistCreate(j) PROVE Listing!Change
  <2>1. Listed(rows)' = Listed(rows) \cup fresh[j]
    <3>1. Listed(rows)' = Listed(rows) \cup Listed([by: {j}, address: fresh[j]])
      BY <1>5 DEF AddWhitelistCreate, Listed
    <3>2. QED
      BY <3>1, BatchIsListed
  <2>2. fresh[j] \in SUBSET Address
    BY <1>0 DEF WhitelistTypeOK
  <2>3. UNCHANGED <<Snap, Inst, Ack, ToSet(contract)>>
    BY <1>3, <1>5 DEF AddWhitelistCreate, vars, chainVars
  <2>4. QED
    BY <2>1, <2>2, <2>3 DEF Listing!Change
<1>6. ASSUME NEW j \in Job, RemoveWhitelist(j) PROVE Listing!Change
  <2>1. Listed(rows)' = Listed(rows) \ cmd[j].addresses
    BY <1>6 DEF RemoveWhitelist, Listed
  <2>2. cmd[j].addresses \in SUBSET Address
    BY <1>0, CommandAssumption DEF WhitelistTypeOK
  <2>3. UNCHANGED <<Snap, Inst, Ack, ToSet(contract)>>
    BY <1>3, <1>6 DEF RemoveWhitelist, vars, chainVars
  <2>4. QED
    BY <2>1, <2>2, <2>3 DEF Listing!Change
<1>7. ASSUME NEW j \in Job, Publish(j) PROVE Listing!Take(j)
  <2>1. PICK s \in Reads : leaves' = [leaves EXCEPT ![j] = AddressesOf(s)]
    BY <1>7 DEF Publish
  <2>2. ToSet(AddressesOf(s)) = Listed(rows)
    BY <1>0, <2>1, LeavesAreListed DEF WhitelistTypeOK, WhitelistInv, ListInv
  <2>3. pc[j] = "idle" /\ pc' = [pc EXCEPT ![j] = "nonce"]
    BY <1>7 DEF Publish, Call, Goto
  <2>4. Snap[j] = {} /\ Snap' = [Snap EXCEPT ![j] = {Listed(rows)}]
    BY <1>0, <2>1, <2>2, <2>3 DEF Called, TypeOK, WhitelistTypeOK
  <2>5. UNCHANGED <<Listed(rows), Inst, Ack, ToSet(contract)>>
    BY <1>7 DEF Publish, Call, Listed, tableVars, chainVars
  <2>6. QED
    BY <2>4, <2>5 DEF Listing!Take
<1>8. ASSUME NEW j \in Job, ProcessTxStep(j)
      PROVE  Listing!Acknowledge(j) \/ UNCHANGED Listing!vars
  <2>1. \A k \in Job : /\ pc[k] = "idle" => pc'[k] = "idle"
                       /\ tx'[k] # tx[k] => tx[k] = "unsent" /\ tx'[k] = "pending"
                       /\ k # j => result'[k] = result[k]
    BY <1>0, <1>8, InsideStep DEF ProcessTxStep
  <2>2. \A k \in Job : Settled(k)
    BY <1>0, <1>8, SettledStep DEF ProcessTxStep, Next
  <2>3. UNCHANGED <<Listed(rows), Snap, Inst, ToSet(contract)>>
    BY <1>8, <2>1, <2>2 DEF ProcessTxStep, handlerVars, tableVars, Called, Settled
  <2>4. CASE Ack' = Ack
    BY <1>2, <2>3, <2>4
  <2>5. CASE Ack' # Ack
    <3>1. result'[j] = "receipt" /\ Ack' = Ack \cup {j}
      BY <2>1, <2>2, <2>5 DEF Settled
    <3>2. tx'[j] = "succeeded"
      BY <1>1, <3>1 DEF IInv, Record, AnswerIsTrue
    <3>3. j \in Inst
      BY <2>1, <3>2
    <3>4. QED
      BY <2>3, <3>1, <3>3 DEF Listing!Acknowledge
  <2>6. QED
    BY <2>4, <2>5
<1>9. ASSUME NEW j \in Job, SettleRows(j) PROVE UNCHANGED Listing!vars
  BY <1>2, <1>3, <1>9 DEF SettleRows, HandleEvent, handlerVars, chainVars
<1>10. ASSUME NEW j \in Job, MineRoot(j) PROVE Listing!Install(j) \/ UNCHANGED Listing!vars
  <2>1. /\ UNCHANGED <<pc, result, leaves, rows>>
        /\ tx[j] = "pending" /\ tx'[j] \in {"succeeded", "reverted"}
        /\ \A k \in Job : k # j => (tx'[k] = "succeeded" <=> tx[k] = "succeeded")
        /\ contract' = IF tx'[j] = "succeeded" THEN leaves[j] ELSE contract
    BY <1>0, <1>10, MineStep DEF MineRoot, handlerVars, tableVars, serviceVars
  <2>2. UNCHANGED <<Listed(rows), Snap, Ack>>
    BY <2>1 DEF Called
  <2>3. Snap[j] = {ToSet(leaves[j])}
    BY <1>0, <2>1 DEF Called, IInv, Progress
  <2>4. CASE tx'[j] = "succeeded"
    <3>1. j \notin Inst /\ Inst' = Inst \cup {j} /\ ToSet(contract)' \in Snap[j]
      BY <2>1, <2>3, <2>4
    <3>2. QED
      BY <2>2, <3>1 DEF Listing!Install
  <2>5. CASE tx'[j] = "reverted"
    <3>1. UNCHANGED <<Inst, ToSet(contract)>>
      BY <2>1, <2>5
    <3>2. QED
      BY <1>2, <2>2, <3>1
  <2>6. QED
    BY <2>1, <2>4, <2>5
<1>11. CASE WhitelistCrash
  <2>1. UNCHANGED <<leaves, rows, contract, tx, result>>
    BY <1>11 DEF WhitelistCrash, LoseMemory, tableVars, chainVars
  <2>2. \A j \in Job : pc'[j] = "idle" <=> pc[j] = "idle"
    BY <1>11 DEF WhitelistCrash, LoseMemory, InFlight, Called
  <2>3. UNCHANGED <<Listed(rows), Snap, Inst, Ack, ToSet(contract)>>
    BY <2>1, <2>2 DEF Called
  <2>4. QED
    BY <1>2, <2>3
<1>12. CASE UNCHANGED wvars
  BY <1>2, <1>3, <1>12 DEF wvars, vars, handlerVars, tableVars
<1>13. QED
  BY <1>4, <1>5, <1>6, <1>7, <1>8, <1>9, <1>10, <1>11, <1>12
  DEF WhitelistNext, WhitelistQuiet, Listing!Next

\* The whitelist implements its abstract promise, for any list and any commands:
\* the contract has whole lists only, each command's at most once, and no receipt
\* comes before.
THEOREM ListPromiseKept == WhitelistSpec => KeepsListPromise
<1>1. WhitelistInit => Listing!Init
  <2> SUFFICES ASSUME WhitelistInit PROVE Listing!Init
    OBVIOUS
  <2>1. Listed(rows) = SeedList
    BY BatchIsListed DEF WhitelistInit
  <2>2. IsFiniteSet(SeedList)
    BY CommandAssumption, FS_Subset
  <2>3. ToSet(contract) = SeedList
    BY <2>2, SeqOfSet DEF WhitelistInit
  <2>4. SeedList \in SUBSET Address
    BY CommandAssumption
  <2>5. QED
    BY <2>1, <2>3, <2>4 DEF WhitelistInit, Init, Listing!Init, Called
<1>2. QED
  BY <1>1, WhitelistInvariance, ListingStep, PTL
  DEF WhitelistSpec, KeepsListPromise, Listing!Spec
=============================================================================

------------------------- MODULE RelayScopes_proofs --------------------------
(* For any number of contexts and bindings: types; nested transport bindings *)
(* restore correctly; frames and writes implement the policy of sets.        *)
EXTENDS RelayScopes, WellFoundedInduction, TLAPS

-----------------------------------------------------------------------------
(* Recursion along pointers to smaller numbers.                              *)

Along(n, prev) == \A g \in 1..n : prev[g] \in 0..(g - 1)

\* What holds at 0, and at g when it does where g points to, holds everywhere.
LEMMA Climb ==
    ASSUME NEW n \in Nat, NEW prev, Along(n, prev),
           NEW S, 0 \in S, \A g \in 1..n : prev[g] \in S => g \in S
    PROVE  0..n \subseteq S
<1> DEFINE D == {d \in Nat : d \in 0..n /\ d \notin S}
           R == {xy \in Nat \X Nat : xy[1] < xy[2]}
<1>0. IsWellFoundedOn(R, Nat)
  BY NatLessThanWellFounded, Zenon DEF OpToRel
<1>1. SUFFICES ASSUME D # {} PROVE FALSE
  OBVIOUS
<1>2. PICK d \in D : \A e \in D : ~(<<e, d>> \in R)
  <2>1. D \subseteq Nat
    OBVIOUS
  <2> HIDE DEF D, R
  <2> QED BY <1>0, <1>1, <2>1, WFMin
<1>3. d \in 1..n
  OBVIOUS
<1>4. prev[d] \in Nat /\ prev[d] < d /\ prev[d] \in 0..n
  BY <1>3 DEF Along
<1>5. prev[d] \notin D
  <2>1. <<prev[d], d>> \in R
    BY <1>3, <1>4
  <2> QED BY <1>2, <2>1
<1> QED BY <1>3, <1>4, <1>5

Defined(n, prev, V, v0, h) ==
    \E f \in [0..n -> V] : f[0] = v0 /\ \A g \in 1..n : f[g] = h[<<g, f[prev[g]]>>]

\* A definition along such pointers has a meaning.
LEMMA Follows ==
    ASSUME NEW n \in Nat, NEW prev, Along(n, prev),
           NEW V, NEW v0 \in V, NEW h \in [(1..n) \X V -> V]
    PROVE  Defined(n, prev, V, v0, h)
<1>0. \A g \in 1..n : prev[g] \in 0..(g - 1)
  BY DEF Along
<1> DEFINE Good(k, f) == /\ f \in [0..k -> V] /\ f[0] = v0
                         /\ \A g \in 1..k : f[g] = h[<<g, f[prev[g]]>>]
           S == {k \in Nat : \E f : Good(k, f)}
           down == [g \in 1..n |-> g - 1]
<1>1. 0 \in S
  <2>1. Good(0, [g \in 0..0 |-> v0])
    OBVIOUS
  <2> QED BY <2>1
<1>2. ASSUME NEW k \in 1..n, k - 1 \in S PROVE k \in S
  <2>1. PICK f : Good(k - 1, f)
    BY <1>2
  <2> DEFINE f2 == [g \in 0..k |-> IF g = k THEN h[<<k, f[prev[k]]>>] ELSE f[g]]
  <2>2. prev[k] \in 0..(k - 1) /\ f[prev[k]] \in V
    BY <1>0, <2>1
  <2>3. <<k, f[prev[k]]>> \in (1..n) \X V
    BY <2>2
  <2>4. h[<<k, f[prev[k]]>>] \in V
    BY <2>3
  <2>5. /\ f2[k] = h[<<k, f[prev[k]]>>]
        /\ \A g \in 0..(k - 1) : f2[g] = f[g] /\ f[g] \in V
    BY <2>1
  <2>6. f2 \in [0..k -> V]
    BY <2>1, <2>4
  <2> HIDE DEF f2
  <2>7. \A g \in 1..k : f2[g] = h[<<g, f2[prev[g]]>>]
    <3> SUFFICES ASSUME NEW g \in 1..k PROVE f2[g] = h[<<g, f2[prev[g]]>>]
      OBVIOUS
    <3>1. prev[g] \in 0..(k - 1) /\ f2[prev[g]] = f[prev[g]]
      BY <1>0, <2>5
    <3>2. CASE g = k
      BY <2>5, <3>1, <3>2
    <3>3. CASE g # k
      BY <2>1, <2>5, <3>1, <3>3
    <3> QED BY <3>2, <3>3
  <2>8. Good(k, f2)
    BY <2>1, <2>5, <2>6, <2>7
  <2> HIDE DEF Good
  <2> QED BY <2>8
<1> HIDE DEF S
<1>3. 0..n \subseteq S
  <2>1. Along(n, down) /\ \A g \in 1..n : down[g] \in S => g \in S
    BY <1>2 DEF Along
  <2> HIDE DEF down
  <2> QED BY <1>1, <2>1, Climb
<1>4. n \in S
  BY <1>3
<1> QED BY <1>4 DEF S, Defined

-----------------------------------------------------------------------------
(* Frames, whichever sequence fr of them there is.                           *)

Node == [previous : Nat, active : BOOLEAN, scoped : BOOLEAN]

Tree(fr) ==
    /\ fr \in Seq(Node)
    /\ \A f \in 1..Len(fr) : fr[f].previous < f

UpOf(fr, f) ==
    LET up[g \in 0..Len(fr)] ==
            IF g = 0 \/ fr[g].active THEN g ELSE up[fr[g].previous]
    IN  up[f]

ChainOf(fr, f) ==
    LET chain[g \in 0..Len(fr)] ==
            IF g = 0 THEN <<>>
            ELSE chain[fr[g].previous] \o (IF fr[g].active THEN <<g>> ELSE <<>>)
    IN  chain[f]

LEMMA Names ==
    /\ \A f : ActiveFrame(f) = UpOf(frame, f) /\ ActiveFrame(f)' = UpOf(frame', f)
    /\ \A f : Chain(f) = ChainOf(frame, f) /\ Chain(f)' = ChainOf(frame', f)
BY DEF ActiveFrame, UpOf, Chain, ChainOf

LEMMA TreeTypes ==
    ASSUME NEW fr, Tree(fr)
    PROVE  /\ Len(fr) \in Nat
           /\ \A g \in 1..Len(fr) : fr[g].previous \in 0..(g - 1) /\ fr[g].active \in BOOLEAN
<1>1. \A g \in 1..Len(fr) : fr[g] \in Node
  BY DEF Tree
<1>2. \A g \in 1..Len(fr) : fr[g].previous \in Nat /\ fr[g].active \in BOOLEAN /\ fr[g].previous < g
  BY <1>1 DEF Tree, Node
<1>3. Len(fr) \in Nat
  BY DEF Tree
<1>4. ASSUME NEW g \in 1..Len(fr) PROVE fr[g].previous \in 0..(g - 1)
  <2> DEFINE q == fr[g].previous
  <2>1. q \in Nat /\ q < g /\ g \in Nat
    BY <1>2, <1>3
  <2> HIDE DEF q
  <2>2. q \in 0..(g - 1)
    BY <2>1
  <2> QED BY <2>2 DEF q
<1> QED BY <1>2, <1>3, <1>4

LEMMA Ups ==
    ASSUME NEW fr, Tree(fr)
    PROVE  /\ UpOf(fr, 0) = 0
           /\ \A g \in 1..Len(fr) : UpOf(fr, g) = IF fr[g].active THEN g ELSE UpOf(fr, fr[g].previous)
<1> DEFINE n == Len(fr)
           prev == [g \in 1..n |-> fr[g].previous]
           V == 0..n
           h == [x \in (1..n) \X V |-> IF fr[x[1]].active THEN x[1] ELSE x[2]]
           Is(f) == f = [g \in 0..n |-> IF g = 0 \/ fr[g].active THEN g ELSE f[fr[g].previous]]
<1>1. n \in Nat /\ \A g \in 1..n : prev[g] \in 0..(g - 1) /\ prev[g] = fr[g].previous
  BY TreeTypes
<1>2. h \in [(1..n) \X V -> V]
  BY <1>1
<1>3. \A g \in 1..n, v \in V : h[<<g, v>>] = IF fr[g].active THEN g ELSE v
  OBVIOUS
<1> HIDE DEF n, prev, h
<1>0. \A g \in 1..n : prev[g] \in 0..n
  BY <1>1
<1>4. PICK f \in [0..n -> V] : f[0] = 0 /\ \A g \in 1..n : f[g] = h[<<g, f[prev[g]]>>]
  <2>1. 0 \in V
    BY <1>1
  <2>2. n \in Nat /\ \A g \in 1..n : prev[g] \in 0..(g - 1)
    BY <1>1
  <2>3. Along(n, prev)
    BY <2>2 DEF Along
  <2> HIDE DEF V, Is
  <2>4. Defined(n, prev, V, 0, h)
    BY <1>2, <2>1, <2>2, <2>3, Follows
  <2> QED BY <2>4 DEF Defined
<1>5. Is(f)
  <2>1. \A g \in 1..n : f[g] = IF fr[g].active THEN g ELSE f[fr[g].previous]
    <3> SUFFICES ASSUME NEW g \in 1..n PROVE f[g] = IF fr[g].active THEN g ELSE f[fr[g].previous]
      OBVIOUS
    <3>1. prev[g] \in 0..n /\ prev[g] = fr[g].previous
      BY <1>0, <1>1
    <3>2. f[prev[g]] \in V
      BY <3>1
    <3>3. h[<<g, f[prev[g]]>>] = IF fr[g].active THEN g ELSE f[prev[g]]
      BY <1>3, <3>2
    <3> QED BY <1>4, <3>1, <3>3
  <2>2. \A g \in 0..n : f[g] = IF g = 0 \/ fr[g].active THEN g ELSE f[fr[g].previous]
    <3> SUFFICES ASSUME NEW g \in 0..n
                 PROVE f[g] = IF g = 0 \/ fr[g].active THEN g ELSE f[fr[g].previous]
      OBVIOUS
    <3>1. CASE g = 0
      BY <1>4, <3>1
    <3>2. CASE g # 0
      <4>1. g \in 1..n
        BY <1>1, <3>2
      <4> QED BY <2>1, <3>2, <4>1
    <3> QED BY <3>1, <3>2
  <2>3. f = [g \in 0..n |-> f[g]]
    OBVIOUS
  <2> QED BY <2>2, <2>3
<1> DEFINE up == CHOOSE p : Is(p)
<1>6. Is(up)
  <2> HIDE DEF Is
  <2> QED BY <1>5
<1>7. \A g : UpOf(fr, g) = up[g]
  BY DEF UpOf, n
<1> HIDE DEF up
<1>8. \A g \in 0..n : up[g] = IF g = 0 \/ fr[g].active THEN g ELSE up[fr[g].previous]
  BY <1>6
<1> HIDE DEF Is
<1>9. UpOf(fr, 0) = 0
  <2>1. 0 \in 0..n
    BY <1>1
  <2> QED BY <1>7, <1>8, <2>1
<1>10. \A g \in 1..n : UpOf(fr, g) = IF fr[g].active THEN g ELSE UpOf(fr, fr[g].previous)
  <2> SUFFICES ASSUME NEW g \in 1..n
               PROVE  UpOf(fr, g) = IF fr[g].active THEN g ELSE UpOf(fr, fr[g].previous)
    OBVIOUS
  <2>1. g \in 0..n /\ g # 0
    BY <1>1
  <2> QED BY <1>7, <1>8, <2>1
<1> QED BY <1>9, <1>10 DEF n

LineOf(fr, f) == ToSet(ChainOf(fr, f))

LEMMA Chains ==
    ASSUME NEW fr, Tree(fr)
    PROVE  /\ ChainOf(fr, 0) = <<>>
           /\ \A g \in 1..Len(fr) :
                 ChainOf(fr, g) = ChainOf(fr, fr[g].previous) \o (IF fr[g].active THEN <<g>> ELSE <<>>)
           /\ \A g \in 0..Len(fr) : ChainOf(fr, g) \in Seq(1..Len(fr))
<1> DEFINE n == Len(fr)
           prev == [g \in 1..n |-> fr[g].previous]
           V == Seq(1..n)
           own(g) == IF fr[g].active THEN <<g>> ELSE <<>>
           h == [x \in (1..n) \X V |-> x[2] \o own(x[1])]
           Is(f) == f = [g \in 0..n |-> IF g = 0 THEN <<>> ELSE f[fr[g].previous] \o own(g)]
<1>1. n \in Nat /\ \A g \in 1..n : prev[g] \in 0..(g - 1) /\ prev[g] = fr[g].previous
  BY TreeTypes
<1>6a. \A g \in 1..n : own(g) \in Seq(1..n)
  <2> SUFFICES ASSUME NEW g \in 1..n PROVE own(g) \in Seq(1..n)
    OBVIOUS
  <2>1. <<g>> \in Seq(1..n) /\ <<>> \in Seq(1..n)
    OBVIOUS
  <2> QED BY <2>1
<1>2. h \in [(1..n) \X V -> V]
  <2>1. \A g \in 1..n : own(g) \in Seq(1..n)
    BY <1>6a
  <2> HIDE DEF own
  <2>2. \A g \in 1..n, v \in V : v \o own(g) \in V
    BY <2>1
  <2> HIDE DEF V
  <2> QED BY <2>2
<1>3. \A g \in 1..n, v \in V : h[<<g, v>>] = v \o own(g)
  <2> HIDE DEF own, V
  <2> QED OBVIOUS
<1>4. <<>> \in V
  OBVIOUS
<1> HIDE DEF n, prev, h, own, V
<1>0. \A g \in 1..n : prev[g] \in 0..n
  BY <1>1
<1>5. PICK f \in [0..n -> V] : f[0] = <<>> /\ \A g \in 1..n : f[g] = h[<<g, f[prev[g]]>>]
  <2>1. n \in Nat /\ Along(n, prev)
    BY <1>1 DEF Along
  <2> HIDE DEF Is
  <2>2. Defined(n, prev, V, <<>>, h)
    BY <1>2, <1>4, <2>1, Follows
  <2> QED BY <2>2 DEF Defined
<1>6. Is(f)
  <2>1. \A g \in 1..n : f[g] = f[fr[g].previous] \o own(g)
    <3> SUFFICES ASSUME NEW g \in 1..n PROVE f[g] = f[fr[g].previous] \o own(g)
      OBVIOUS
    <3>1. prev[g] \in 0..n /\ prev[g] = fr[g].previous
      BY <1>0, <1>1
    <3>2. f[prev[g]] \in V
      BY <3>1
    <3>3. h[<<g, f[prev[g]]>>] = f[prev[g]] \o own(g)
      BY <1>3, <3>2
    <3> QED BY <1>5, <3>1, <3>3
  <2>2. \A g \in 0..n : f[g] = IF g = 0 THEN <<>> ELSE f[fr[g].previous] \o own(g)
    <3> SUFFICES ASSUME NEW g \in 0..n
                 PROVE f[g] = IF g = 0 THEN <<>> ELSE f[fr[g].previous] \o own(g)
      OBVIOUS
    <3>1. CASE g = 0
      BY <1>5, <3>1
    <3>2. CASE g # 0
      <4>1. g \in 1..n
        BY <1>1, <3>2
      <4> QED BY <2>1, <3>2, <4>1
    <3> QED BY <3>1, <3>2
  <2>3. f = [g \in 0..n |-> f[g]]
    OBVIOUS
  <2> QED BY <2>2, <2>3
<1> DEFINE chain == CHOOSE p : Is(p)
<1>7. Is(chain)
  <2> HIDE DEF Is
  <2> QED BY <1>6
<1>8. \A g : ChainOf(fr, g) = chain[g]
  BY DEF ChainOf, n, own
<1> HIDE DEF chain
<1>9. chain[0] = <<>> /\ \A g \in 1..n : chain[g] = chain[fr[g].previous] \o own(g)
  <2>1. \A g \in 0..n : chain[g] = IF g = 0 THEN <<>> ELSE chain[fr[g].previous] \o own(g)
    BY <1>7
  <2>2. 0 \in 0..n /\ \A g \in 1..n : g \in 0..n /\ g # 0
    BY <1>1
  <2> QED BY <2>1, <2>2
<1>10. \A g \in 0..n : chain[g] \in V
  <2> DEFINE S == {g \in 0..n : chain[g] \in V}
  <2>1. 0 \in S
    BY <1>1, <1>4, <1>9
  <2>2. ASSUME NEW g \in 1..n, prev[g] \in S PROVE g \in S
    <3>1. own(g) \in V
      BY <1>6a DEF V
    <3>2. chain[prev[g]] \o own(g) \in V
      BY <2>2, <3>1 DEF V
    <3>3. chain[g] \in V
      BY <1>1, <1>9, <3>2
    <3> QED BY <3>3
  <2> HIDE DEF S
  <2>3. 0..n \subseteq S
    BY <1>1, <2>1, <2>2, Climb DEF Along
  <2> QED BY <2>3 DEF S
<1> QED BY <1>8, <1>9, <1>10 DEF n, own, V

\* The frame a binding's own state is looked up from does not change the answer.
LEMMA Tops ==
    ASSUME NEW fr, Tree(fr), NEW f \in 0..Len(fr)
    PROVE  /\ UpOf(fr, f) \in 0..f /\ UpOf(fr, f) \in 0..Len(fr)
           /\ ChainOf(fr, UpOf(fr, f)) = ChainOf(fr, f)
<1> DEFINE n == Len(fr)
           prev == [g \in 1..n |-> fr[g].previous]
           S == {g \in 0..n : /\ UpOf(fr, g) \in 0..g
                              /\ ChainOf(fr, UpOf(fr, g)) = ChainOf(fr, g)}
<1>1. n \in Nat /\ \A g \in 1..n : prev[g] \in 0..(g - 1) /\ prev[g] = fr[g].previous
  BY TreeTypes
<1>2. 0 \in S
  BY <1>1, Ups
<1>3. ASSUME NEW g \in 1..n, prev[g] \in S PROVE g \in S
  <2> DEFINE q == fr[g].previous
  <2>1. q \in 0..(g - 1) /\ UpOf(fr, q) \in 0..q /\ ChainOf(fr, UpOf(fr, q)) = ChainOf(fr, q)
    BY <1>1, <1>3
  <2>2. UpOf(fr, g) = IF fr[g].active THEN g ELSE UpOf(fr, q)
    BY Ups
  <2>3. CASE fr[g].active
    BY <2>2, <2>3
  <2>4. CASE ~fr[g].active
    <3>1. ChainOf(fr, g) = ChainOf(fr, q) \o <<>>
      BY <2>4, Chains
    <3>2. ChainOf(fr, q) \in Seq(1..n)
      <4>1. q \in 0..n
        BY <1>1, <2>1
      <4> QED BY <4>1, Chains
    <3> HIDE DEF q
    <3>3. ChainOf(fr, q) \o <<>> = ChainOf(fr, q)
      BY <3>2
    <3>4. UpOf(fr, g) = UpOf(fr, q)
      BY <2>2, <2>4
    <3>5. UpOf(fr, q) \in 0..g
      BY <2>1
    <3> QED BY <2>1, <3>1, <3>3, <3>4, <3>5
  <2> QED BY <2>3, <2>4
<1> HIDE DEF S, prev
<1>4. 0..n \subseteq S
  BY <1>1, <1>2, <1>3, Climb DEF Along
<1>5. UpOf(fr, f) \in 0..f /\ ChainOf(fr, UpOf(fr, f)) = ChainOf(fr, f)
  BY <1>4 DEF S
<1> QED BY <1>1, <1>5

LEMMA Joined ==
    ASSUME NEW T, NEW s \in Seq(T), NEW t \in Seq(T)
    PROVE  ToSet(s \o t) = ToSet(s) \cup ToSet(t)
<1>1. /\ s \o t \in Seq(T) /\ Len(s \o t) = Len(s) + Len(t) /\ {Len(s), Len(t)} \subseteq Nat
      /\ \A i \in 1..Len(s) : (s \o t)[i] = s[i]
      /\ \A i \in 1..Len(t) : (s \o t)[Len(s) + i] = t[i]
  OBVIOUS
<1>2. DOMAIN s = 1..Len(s) /\ DOMAIN t = 1..Len(t) /\ DOMAIN (s \o t) = 1..(Len(s) + Len(t))
  OBVIOUS
<1>3. ASSUME NEW x \in ToSet(s \o t) PROVE x \in ToSet(s) \cup ToSet(t)
  <2>1. PICK i \in 1..(Len(s) + Len(t)) : x = (s \o t)[i]
    BY <1>2 DEF ToSet
  <2>2. CASE i <= Len(s)
    <3>1. i \in 1..Len(s)
      BY <1>1, <2>2
    <3> QED BY <1>1, <1>2, <2>1, <3>1 DEF ToSet
  <2>3. CASE i > Len(s)
    <3>1. i - Len(s) \in 1..Len(t) /\ i = Len(s) + (i - Len(s))
      BY <1>1, <2>3
    <3>2. x = t[i - Len(s)]
      BY <1>1, <2>1, <3>1
    <3> QED BY <1>2, <3>1, <3>2 DEF ToSet
  <2> QED BY <1>1, <2>2, <2>3
<1>4. ASSUME NEW x \in ToSet(s) PROVE x \in ToSet(s \o t)
  <2>1. PICK i \in 1..Len(s) : x = s[i]
    BY <1>2 DEF ToSet
  <2>2. i \in 1..(Len(s) + Len(t)) /\ (s \o t)[i] = x
    BY <1>1, <2>1
  <2> QED BY <1>2, <2>2 DEF ToSet
<1>5. ASSUME NEW x \in ToSet(t) PROVE x \in ToSet(s \o t)
  <2>1. PICK i \in 1..Len(t) : x = t[i]
    BY <1>2 DEF ToSet
  <2>2. Len(s) + i \in 1..(Len(s) + Len(t)) /\ (s \o t)[Len(s) + i] = x
    BY <1>1, <2>1
  <2> QED BY <1>2, <2>2 DEF ToSet
<1> QED BY <1>3, <1>4, <1>5

LEMMA Lines ==
    ASSUME NEW fr, Tree(fr)
    PROVE  /\ LineOf(fr, 0) = {}
           /\ \A g \in 1..Len(fr) :
                 LineOf(fr, g) = LineOf(fr, fr[g].previous) \cup (IF fr[g].active THEN {g} ELSE {})
<1>1. LineOf(fr, 0) = {}
  BY Chains DEF LineOf, ToSet
<1>2. ASSUME NEW g \in 1..Len(fr)
      PROVE  LineOf(fr, g) = LineOf(fr, fr[g].previous) \cup (IF fr[g].active THEN {g} ELSE {})
  <2> DEFINE q == fr[g].previous
             own == IF fr[g].active THEN <<g>> ELSE <<>>
  <2>1. q \in 0..Len(fr)
    <3>1. q \in 0..(g - 1) /\ Len(fr) \in Nat
      BY TreeTypes
    <3> HIDE DEF q
    <3> QED BY <3>1
  <2>2. ChainOf(fr, q) \in Seq(1..Len(fr)) /\ ChainOf(fr, g) = ChainOf(fr, q) \o own
    BY <2>1, Chains
  <2>3. <<g>> \in Seq(1..Len(fr)) /\ <<>> \in Seq(1..Len(fr))
    OBVIOUS
  <2>4. ToSet(<<g>>) = {g} /\ ToSet(<<>>) = {}
    BY DEF ToSet
  <2>5. own \in Seq(1..Len(fr)) /\ ToSet(own) = IF fr[g].active THEN {g} ELSE {}
    BY <2>3, <2>4
  <2> HIDE DEF own, q
  <2>6. ToSet(ChainOf(fr, q) \o own) = ToSet(ChainOf(fr, q)) \cup ToSet(own)
    BY <2>2, <2>5, Joined
  <2> QED BY <2>2, <2>5, <2>6 DEF LineOf, q
<1> QED BY <1>1, <1>2

Rising(s) == \A i, j \in 1..Len(s) : i < j => s[i] < s[j]

LEMMA Extended ==
    ASSUME NEW g \in Nat, NEW s \in Seq(Nat), Rising(s), \A i \in 1..Len(s) : s[i] < g
    PROVE  Rising(s \o <<g>>)
<1>1. /\ Len(s \o <<g>>) = Len(s) + 1 /\ Len(s) \in Nat
      /\ \A i \in 1..Len(s) : (s \o <<g>>)[i] = s[i] /\ s[i] \in Nat
      /\ (s \o <<g>>)[Len(s) + 1] = g
  OBVIOUS
<1> SUFFICES ASSUME NEW i \in 1..(Len(s) + 1), NEW j \in 1..(Len(s) + 1), i < j
             PROVE  (s \o <<g>>)[i] < (s \o <<g>>)[j]
  BY <1>1 DEF Rising
<1>2. i \in 1..Len(s) /\ (j \in 1..Len(s) \/ j = Len(s) + 1)
  BY <1>1
<1>3. CASE j \in 1..Len(s)
  <2>1. s[i] < s[j]
    BY <1>2, <1>3 DEF Rising
  <2> QED BY <1>1, <1>2, <1>3, <2>1
<1>4. CASE j = Len(s) + 1
  <2>1. s[i] < g
    BY <1>2
  <2> QED BY <1>1, <1>2, <1>4, <2>1
<1> QED BY <1>2, <1>3, <1>4

\* A write asks the authorizers in the order they were bound in.
LEMMA Rises ==
    ASSUME NEW fr, Tree(fr), NEW f \in 0..Len(fr)
    PROVE  LineOf(fr, f) \subseteq 1..f /\ Rising(ChainOf(fr, f))
<1> DEFINE n == Len(fr)
           prev == [g \in 1..n |-> fr[g].previous]
           S == {g \in 0..n : LineOf(fr, g) \subseteq 1..g /\ Rising(ChainOf(fr, g))}
<1>1. n \in Nat /\ \A g \in 1..n : prev[g] \in 0..(g - 1) /\ prev[g] = fr[g].previous
  BY TreeTypes
<1>2. 0 \in S
  BY <1>1, Lines, Chains DEF Rising
<1>3. ASSUME NEW g \in 1..n, prev[g] \in S PROVE g \in S
  <2> DEFINE q == fr[g].previous
  <2>1. q \in 0..(g - 1) /\ LineOf(fr, q) \subseteq 1..q /\ Rising(ChainOf(fr, q)) /\ q \in 0..n
    BY <1>1, <1>3
  <2>2. /\ ChainOf(fr, g) = ChainOf(fr, q) \o (IF fr[g].active THEN <<g>> ELSE <<>>)
        /\ LineOf(fr, g) = LineOf(fr, q) \cup (IF fr[g].active THEN {g} ELSE {})
        /\ ChainOf(fr, q) \in Seq(1..n)
    BY <2>1, Chains, Lines
  <2> HIDE DEF q
  <2>3. LineOf(fr, g) \subseteq 1..g
    BY <2>1, <2>2
  <2>4. Rising(ChainOf(fr, g))
    <3> DEFINE s == ChainOf(fr, q)
    <3>1. s \in Seq(Nat)
      BY <2>2
    <3>2. CASE fr[g].active
      <4>1. \A i \in 1..Len(s) : s[i] \in LineOf(fr, q)
        BY <2>2 DEF LineOf, ToSet
      <4>2. \A i \in 1..Len(s) : s[i] < g
        BY <2>1, <4>1
      <4>3. s \o <<g>> = ChainOf(fr, g) /\ Rising(s) /\ g \in Nat
        BY <2>1, <2>2, <3>2
      <4> HIDE DEF s
      <4> QED BY <3>1, <4>2, <4>3, Extended
    <3>3. CASE ~fr[g].active
      <4>1. s \o <<>> = s
        BY <3>1
      <4> QED BY <2>1, <2>2, <3>3, <4>1
    <3> QED BY <3>2, <3>3
  <2> QED BY <2>3, <2>4
<1> HIDE DEF S, prev
<1>4. 0..n \subseteq S
  BY <1>1, <1>2, <1>3, Climb DEF Along
<1> QED BY <1>4 DEF S

\* Adding frames changes nothing for those that are there.
LEMMA Grows ==
    ASSUME NEW fr, Tree(fr), NEW new, Tree(new), Len(fr) <= Len(new),
           \A g \in 1..Len(fr) : new[g] = fr[g],
           NEW f \in 0..Len(fr)
    PROVE  ChainOf(new, f) = ChainOf(fr, f) /\ LineOf(new, f) = LineOf(fr, f)
<1> DEFINE n == Len(fr)
           prev == [g \in 1..n |-> fr[g].previous]
           S == {g \in 0..n : ChainOf(new, g) = ChainOf(fr, g)}
<1>1. n \in Nat /\ \A g \in 1..n : prev[g] \in 0..(g - 1) /\ prev[g] = fr[g].previous
  BY TreeTypes
<1>2. 0 \in S
  BY <1>1, Chains
<1>3. ASSUME NEW g \in 1..n, prev[g] \in S PROVE g \in S
  <2>1. g \in 1..Len(new) /\ new[g] = fr[g]
    BY TreeTypes
  <2>2. ChainOf(new, g) = ChainOf(new, new[g].previous) \o (IF new[g].active THEN <<g>> ELSE <<>>)
    BY <2>1, Chains
  <2>3. ChainOf(fr, g) = ChainOf(fr, fr[g].previous) \o (IF fr[g].active THEN <<g>> ELSE <<>>)
    BY Chains
  <2>4. ChainOf(new, fr[g].previous) = ChainOf(fr, fr[g].previous)
    BY <1>1, <1>3
  <2>5. ChainOf(new, g) = ChainOf(fr, g)
    BY <2>1, <2>2, <2>3, <2>4
  <2> QED BY <2>5
<1> HIDE DEF S, prev
<1>4. 0..n \subseteq S
  BY <1>1, <1>2, <1>3, Climb DEF Along
<1> QED BY <1>4 DEF S, LineOf

\* Releasing a binding takes it, and nothing else, from every line.
LEMMA Drops ==
    ASSUME NEW fr, Tree(fr), NEW new, Tree(new), Len(fr) = Len(new), NEW b, ~new[b].active,
           \A g \in 1..Len(fr) : /\ new[g].previous = fr[g].previous
                                 /\ g # b => new[g].active = fr[g].active,
           NEW f \in 0..Len(fr)
    PROVE  LineOf(new, f) = LineOf(fr, f) \ {b}
<1> DEFINE n == Len(fr)
           prev == [g \in 1..n |-> fr[g].previous]
           S == {g \in 0..n : LineOf(new, g) = LineOf(fr, g) \ {b}}
<1>1. n \in Nat /\ \A g \in 1..n : prev[g] \in 0..(g - 1) /\ prev[g] = fr[g].previous
  BY TreeTypes
<1>2. 0 \in S
  BY <1>1, Lines
<1>3. ASSUME NEW g \in 1..n, prev[g] \in S PROVE g \in S
  <2> DEFINE q == fr[g].previous
  <2>1. LineOf(new, g) = LineOf(new, q) \cup (IF new[g].active THEN {g} ELSE {})
    BY Lines
  <2>2. LineOf(fr, g) = LineOf(fr, q) \cup (IF fr[g].active THEN {g} ELSE {})
    BY Lines
  <2>3. LineOf(new, q) = LineOf(fr, q) \ {b}
    BY <1>1, <1>3
  <2>4. (IF new[g].active THEN {g} ELSE {}) = (IF fr[g].active THEN {g} ELSE {}) \ {b}
    OBVIOUS
  <2> QED BY <2>1, <2>2, <2>3, <2>4
<1> HIDE DEF S, prev
<1>4. 0..n \subseteq S
  BY <1>1, <1>2, <1>3, Climb DEF Along
<1> QED BY <1>4 DEF S

-----------------------------------------------------------------------------
(* The frames of a process.                                                  *)

Sizes == setting.bindings \in Nat /\ setting.transports \in Nat

\* TypeOK without the writes, with what the refinement needs of them beside it:
\* the bindings a write has still to ask are later than those it has asked.
Framed ==
    /\ setting \in Settings /\ Sizes
    /\ store \in [Contexts -> 0..Len(frame)] /\ begun \subseteq Contexts
    /\ frame \in Seq([previous : 0..setting.bindings, active : BOOLEAN, scoped : BOOLEAN])
    /\ Len(frame) <= setting.bindings /\ \A f \in DOMAIN frame : frame[f].previous < f

Carried ==
    /\ process \in Transports \cup {Vfs} /\ nested \in BOOLEAN
    /\ bound \in Seq([own : Transports, previous : Transports \cup {Vfs}, open : BOOLEAN])
    /\ Len(bound) <= setting.transports

Ordered(w) ==
    /\ Rising(w.left)
    /\ \A b \in w.asked, i \in 1..Len(w.left) : b < w.left[i]

Writes == [pc : {"idle", "asking", "sent", "denied"}, left : Seq(Frames), asked : SUBSET Frames,
           override : Transports \cup {Nowhere}, chosen : Transports \cup {Vfs}]

Written ==
    /\ write \in [Contexts -> Writes]
    /\ \A c \in Contexts : Ordered(write[c])

Inv == Framed /\ Carried /\ Written

LEMMA Setting == ScopesAssumption /\ setting \in Settings => Sizes
BY DEF ScopesAssumption, Sizes

LEMMA Rooted ==
    ASSUME Framed
    PROVE  Tree(frame) /\ Len(frame) \in Nat /\ DOMAIN frame = 1..Len(frame)
<1> DEFINE T == [previous : 0..setting.bindings, active : BOOLEAN, scoped : BOOLEAN]
<1>1. T \subseteq Node
  BY DEF Framed, Sizes, Node
<1>2. frame \in Seq(T)
  BY DEF Framed
<1> HIDE DEF T
<1>3. frame \in Seq(Node) /\ Len(frame) \in Nat /\ DOMAIN frame = 1..Len(frame)
  BY <1>1, <1>2
<1> QED BY <1>3 DEF Framed, Tree

LEMMA Stored ==
    ASSUME Framed, NEW c \in Contexts
    PROVE  /\ store[c] \in 0..Len(frame)
           /\ ActiveFrame(store[c]) \in 0..Len(frame)
           /\ Authorizers(store[c]) = ChainOf(frame, store[c])
           /\ Authorizers(store[c]) \in Seq(1..Len(frame))
           /\ Rising(Authorizers(store[c]))
           /\ ToSet(Authorizers(store[c])) = LineOf(frame, store[c])
<1>1. store[c] \in 0..Len(frame) /\ Tree(frame)
  BY Rooted DEF Framed
<1>2. ActiveFrame(store[c]) = UpOf(frame, store[c])
  BY Names
<1>3. ActiveFrame(store[c]) \in 0..Len(frame)
  BY <1>1, <1>2, Tops
<1>4. Authorizers(store[c]) = ChainOf(frame, UpOf(frame, store[c]))
  BY <1>2, Names DEF Authorizers
<1>5. Authorizers(store[c]) = ChainOf(frame, store[c])
  BY <1>1, <1>4, Tops
<1>6. ChainOf(frame, store[c]) \in Seq(1..Len(frame)) /\ Rising(ChainOf(frame, store[c]))
  BY <1>1, Chains, Rises
<1> QED BY <1>1, <1>3, <1>5, <1>6 DEF LineOf

\* A frame added under the context's own: in Bind and in RunScoped.
LEMMA Adds ==
    ASSUME Framed, NEW c \in Contexts, NEW scoped \in BOOLEAN,
           Len(frame) < setting.bindings, UNCHANGED setting,
           frame' = Append(frame, NewFrame(c, scoped))
    PROVE  /\ frame' \in Seq([previous : 0..setting.bindings, active : BOOLEAN, scoped : BOOLEAN])'
           /\ Len(frame') = Len(frame) + 1
           /\ \A f \in DOMAIN frame' : frame'[f].previous < f
           /\ Tree(frame')
           /\ \A f \in 0..Len(frame) : LineOf(frame', f) = LineOf(frame, f)
           /\ LineOf(frame', Len(frame) + 1) = LineOf(frame, store[c]) \cup {Len(frame) + 1}
<1> DEFINE T == [previous : 0..setting.bindings, active : BOOLEAN, scoped : BOOLEAN]
           x == NewFrame(c, scoped)
           n == Len(frame)
           up == ActiveFrame(store[c])
<1>1. /\ Tree(frame) /\ n \in Nat /\ DOMAIN frame = 1..n /\ frame \in Seq(T) /\ n < setting.bindings
      /\ \A f \in 1..n : frame[f].previous < f
      /\ setting.bindings \in Nat
  BY Rooted DEF Framed, Sizes
<1>2. up \in 0..n /\ up = UpOf(frame, store[c]) /\ store[c] \in 0..n
  BY Stored, Names
<1>3. x = [previous |-> up, active |-> TRUE, scoped |-> scoped]
  BY DEF NewFrame
<1> HIDE DEF up
<1>4. x \in T /\ x.previous = up /\ x.active
  <2>1. up \in 0..setting.bindings
    BY <1>1, <1>2
  <2> HIDE DEF x
  <2> QED BY <1>3, <2>1
<1> HIDE DEF x, T
<1>5. /\ Append(frame, x) \in Seq(T) /\ Len(Append(frame, x)) = n + 1
      /\ Append(frame, x)[n + 1] = x /\ \A f \in 1..n : Append(frame, x)[f] = frame[f]
      /\ DOMAIN Append(frame, x) = 1..(n + 1)
  BY <1>1, <1>4
<1>6. frame' = Append(frame, x)
  BY DEF x
<1>7. /\ frame' \in Seq(T) /\ Len(frame') = n + 1 /\ frame'[n + 1] = x
      /\ \A f \in 1..n : frame'[f] = frame[f] 
      /\ DOMAIN frame' = 1..(n + 1)
  BY <1>5, <1>6
<1>8. T' = T
  BY DEF T
<1>9. ASSUME NEW f \in 1..(n + 1) PROVE frame'[f].previous < f
  <2>1. CASE f = n + 1
    BY <1>1, <1>2, <1>4, <1>7, <2>1
  <2>2. CASE f # n + 1
    <3>1. f \in 1..n
      BY <1>1, <2>2
    <3> QED BY <1>1, <1>7, <3>1
  <2> QED BY <2>1, <2>2
<1>10. Tree(frame')
  <2>1. T \subseteq Node
    BY <1>1 DEF T, Node
  <2>2. frame' \in Seq(Node)
    BY <1>7, <2>1
  <2> QED BY <1>7, <1>9, <2>2 DEF Tree
<1>11. ASSUME NEW f \in 0..n PROVE LineOf(frame', f) = LineOf(frame, f)
  <2> DEFINE new == frame'
  <2>1. Tree(new) /\ Len(frame) <= Len(new) /\ \A g \in 1..Len(frame) : new[g] = frame[g]
    BY <1>1, <1>7, <1>10
  <2>2. Tree(frame) /\ f \in 0..Len(frame)
    BY <1>1
  <2> HIDE DEF new, n
  <2>3. LineOf(new, f) = LineOf(frame, f)
    BY <2>1, <2>2, Grows
  <2> QED BY <2>3 DEF new
<1>12. LineOf(frame', n + 1) = LineOf(frame', up) \cup {n + 1}
  <2> DEFINE new == frame'
  <2>1. Tree(new) /\ n + 1 \in 1..Len(new)
    BY <1>1, <1>7, <1>10
  <2>2. new[n + 1].previous = up /\ new[n + 1].active
    BY <1>4, <1>7
  <2> HIDE DEF new
  <2>3. LineOf(new, n + 1) = LineOf(new, new[n + 1].previous)
                               \cup (IF new[n + 1].active THEN {n + 1} ELSE {})
    BY <2>1, Lines
  <2> QED BY <2>2, <2>3 DEF new
<1>13. LineOf(frame, up) = LineOf(frame, store[c])
  BY <1>1, <1>2, Tops DEF LineOf
<1> QED BY <1>2, <1>7, <1>8, <1>9, <1>10, <1>11, <1>12, <1>13 DEF T

\* Releasing binding b: in Restore.
LEMMA Releases ==
    ASSUME Framed, NEW b \in 1..Len(frame), UNCHANGED setting,
           frame' = [frame EXCEPT ![b].active = FALSE]
    PROVE  /\ frame' \in Seq([previous : 0..setting.bindings, active : BOOLEAN, scoped : BOOLEAN])'
           /\ Len(frame') = Len(frame)
           /\ \A f \in DOMAIN frame' : frame'[f].previous < f
           /\ \A f \in 0..Len(frame) : LineOf(frame', f) = LineOf(frame, f) \ {b}
<1> DEFINE T == [previous : 0..setting.bindings, active : BOOLEAN, scoped : BOOLEAN]
           n == Len(frame)
           x == [frame[b] EXCEPT !.active = FALSE]
           new == frame'
<1>1. /\ Tree(frame) /\ n \in Nat /\ DOMAIN frame = 1..n /\ frame \in Seq(T)
      /\ \A f \in 1..n : frame[f].previous < f
      /\ setting.bindings \in Nat
  BY Rooted DEF Framed, Sizes
<1>2. x \in T /\ x.previous = frame[b].previous /\ ~x.active
  <2>1. frame[b] \in T
    <3> HIDE DEF T
    <3> QED BY <1>1
  <2> QED BY <2>1
<1>3. T' = T
  OBVIOUS
<1>4. new = [f \in 1..n |-> IF f = b THEN x ELSE frame[f]]
  BY <1>1
<1>5. \A f \in 1..n : frame[f] \in T
  <2> HIDE DEF T
  <2> QED BY <1>1
<1> HIDE DEF T, x, new
<1>6. /\ new \in Seq(T) /\ Len(new) = n /\ DOMAIN new = 1..n
      /\ \A f \in 1..n : new[f] = IF f = b THEN x ELSE frame[f]
  BY <1>1, <1>2, <1>4, <1>5
<1>7. \A f \in 1..n : /\ new[f].previous = frame[f].previous
                      /\ f # b => new[f].active = frame[f].active
  BY <1>2, <1>6
<1>8. ~new[b].active
  BY <1>2, <1>6
<1>9. \A f \in 1..n : new[f].previous < f
  BY <1>1, <1>7
<1>10. Tree(new)
  <2>1. T \subseteq Node
    BY <1>1 DEF T, Node
  <2>2. new \in Seq(Node)
    BY <1>6, <2>1
  <2> QED BY <1>6, <1>9, <2>2 DEF Tree
<1>11. ASSUME NEW f \in 0..n PROVE LineOf(new, f) = LineOf(frame, f) \ {b}
  BY <1>1, <1>6, <1>7, <1>8, <1>10, Drops
<1> QED BY <1>3, <1>6, <1>9, <1>11 DEF T, new

-----------------------------------------------------------------------------
(* The steps.                                                                *)

LEMMA Inits == Init => Inv
<1> SUFFICES ASSUME Init PROVE Inv
  OBVIOUS
<1>1. Framed
  <2>1. Sizes /\ Main \in Contexts
    BY ScopesAssumption, Setting DEF Init
  <2>2. frame = <<>> /\ Len(frame) = 0
    BY DEF Init
  <2> QED BY <2>1, <2>2 DEF Init, Framed, Sizes
<1>2. Carried
  BY ScopesAssumption, Setting DEF Init, Carried, Sizes
<1>3. Written
  <2>1. NoWrite \in Writes
    BY DEF NoWrite, Writes
  <2>2. Ordered(NoWrite)
    BY DEF NoWrite, Ordered, Rising
  <2> QED BY <2>1, <2>2 DEF Init, Written
<1> QED BY <1>1, <1>2, <1>3 DEF Inv

\* What leaves one of the three parts alone, keeps it.
LEMMA Kept ==
    /\ Framed /\ UNCHANGED Scopes => Framed'
    /\ Carried /\ UNCHANGED Processwide => Carried'
    /\ Written /\ UNCHANGED <<setting, write>> => Written'
<1>1. Framed /\ UNCHANGED Scopes => Framed'
  BY DEF Framed, Scopes, Sizes
<1>2. Carried /\ UNCHANGED Processwide => Carried'
  BY DEF Carried, Processwide
<1>3. Written /\ UNCHANGED <<setting, write>> => Written'
  BY DEF Written, Writes, Frames, Ordered, Rising
<1> QED BY <1>1, <1>2, <1>3

LEMMA Binds ==
    ASSUME Inv, NEW c \in Contexts, Bind(c)
    PROVE  Inv'
<1>1. UNCHANGED <<setting, write>> /\ UNCHANGED Processwide
  BY DEF Bind, Processwide
<1>2. Framed'
  <2>1. /\ FALSE \in BOOLEAN /\ Len(frame) < setting.bindings /\ UNCHANGED setting /\ Framed
        /\ frame' = Append(frame, NewFrame(c, FALSE))
        /\ store' = [store EXCEPT ![c] = Len(frame) + 1] /\ UNCHANGED begun
    BY DEF Bind, Processwide, Inv
  <2>2. /\ frame' \in Seq([previous : 0..setting.bindings, active : BOOLEAN, scoped : BOOLEAN])'
        /\ Len(frame') = Len(frame) + 1
        /\ \A f \in DOMAIN frame' : frame'[f].previous < f
    BY <2>1, Adds
  <2>3. Len(frame) \in Nat
    BY <2>1, Rooted
  <2>4. store' \in [Contexts -> 0..Len(frame')]
    BY <2>1, <2>2, <2>3 DEF Framed
  <2>5. Len(frame') <= setting'.bindings
    BY <2>1, <2>2, <2>3 DEF Framed, Sizes
  <2> QED BY <2>1, <2>2, <2>4, <2>5 DEF Framed, Sizes
<1> QED BY <1>1, <1>2, Kept DEF Inv

LEMMA Spawns ==
    ASSUME Inv, NEW c \in Contexts, NEW d \in Contexts, Spawn(c, d)
    PROVE  Inv'
<1>1. UNCHANGED <<setting, write>> /\ UNCHANGED Processwide
  BY DEF Spawn, Processwide
<1>2. Framed'
  BY DEF Spawn, Inv, Framed, Sizes, Processwide
<1> QED BY <1>1, <1>2, Kept DEF Inv

LEMMA RunsScoped ==
    ASSUME Inv, NEW c \in Contexts, NEW d \in Contexts, RunScoped(c, d)
    PROVE  Inv'
<1>1. UNCHANGED <<setting, write>> /\ UNCHANGED Processwide
  BY DEF RunScoped, Processwide
<1>2. Framed'
  <2>1. /\ TRUE \in BOOLEAN /\ Len(frame) < setting.bindings /\ UNCHANGED setting /\ Framed
        /\ frame' = Append(frame, NewFrame(c, TRUE))
        /\ store' = [store EXCEPT ![d] = Len(frame) + 1] /\ begun' = begun \cup {d}
    BY DEF RunScoped, Processwide, Inv
  <2>2. /\ frame' \in Seq([previous : 0..setting.bindings, active : BOOLEAN, scoped : BOOLEAN])'
        /\ Len(frame') = Len(frame) + 1
        /\ \A f \in DOMAIN frame' : frame'[f].previous < f
    BY <2>1, Adds
  <2>3. Len(frame) \in Nat
    BY <2>1, Rooted
  <2>4. store' \in [Contexts -> 0..Len(frame')]
    BY <2>1, <2>2, <2>3 DEF Framed
  <2>5. Len(frame') <= setting'.bindings
    BY <2>1, <2>2, <2>3 DEF Framed, Sizes
  <2> QED BY <2>1, <2>2, <2>4, <2>5 DEF Framed, Sizes
<1> QED BY <1>1, <1>2, Kept DEF Inv

LEMMA Restores ==
    ASSUME Inv, NEW c \in Contexts, NEW f \in DOMAIN frame, Restore(c, f)
    PROVE  Inv'
<1>1. UNCHANGED <<setting, write>> /\ UNCHANGED Processwide
  BY DEF Restore, Processwide
<1>2. Framed'
  <2>1. /\ UNCHANGED setting /\ Framed /\ UNCHANGED begun
        /\ frame' = [frame EXCEPT ![f].active = FALSE]
        /\ store' = IF store[c] = f
                    THEN [store EXCEPT ![c] = ActiveFrame(frame[f].previous)] ELSE store
    BY DEF Restore, Processwide, Inv
  <2>2. f \in 1..Len(frame) /\ Tree(frame) /\ Len(frame) \in Nat
    BY <2>1, Rooted
  <2>3. /\ frame' \in Seq([previous : 0..setting.bindings, active : BOOLEAN, scoped : BOOLEAN])'
        /\ Len(frame') = Len(frame)
        /\ \A g \in DOMAIN frame' : frame'[g].previous < g
    BY <2>1, <2>2, Releases
  <2>4. ActiveFrame(frame[f].previous) \in 0..Len(frame)
    <3>1. frame[f].previous \in 0..(f - 1)
      BY <2>2, TreeTypes
    <3>2. frame[f].previous \in 0..Len(frame)
      <4> DEFINE q == frame[f].previous
      <4>1. q \in 0..(f - 1)
        BY <3>1
      <4> HIDE DEF q
      <4>2. q \in 0..Len(frame)
        BY <2>2, <4>1
      <4> QED BY <4>2 DEF q
    <3> QED BY <2>2, <3>2, Names, Tops
  <2>5. store' \in [Contexts -> 0..Len(frame')]
    BY <2>1, <2>3, <2>4 DEF Framed
  <2>6. Len(frame') <= setting'.bindings
    BY <2>1, <2>2, <2>3 DEF Framed, Sizes
  <2> QED BY <2>1, <2>3, <2>5, <2>6 DEF Framed, Sizes
<1> QED BY <1>1, <1>2, Kept DEF Inv

BindingsOf == [own : Transports, previous : Transports \cup {Vfs}, open : BOOLEAN]

LEMMA BindsTransport ==
    ASSUME Inv, NEW t \in Transports, BindTransport(t)
    PROVE  Inv'
<1>1. UNCHANGED Scopes /\ UNCHANGED <<setting, write>>
  BY DEF BindTransport, Scopes
<1>2. Carried'
  <2> DEFINE x == [own |-> t, previous |-> process, open |-> TRUE]
  <2>1. x \in BindingsOf /\ bound \in Seq(BindingsOf) /\ setting.transports \in Nat
    BY DEF Inv, Framed, Sizes, Carried, BindingsOf
  <2>2. /\ Len(bound) < setting.transports /\ bound' = Append(bound, x) /\ process' = t
        /\ UNCHANGED <<nested, setting>>
    BY <1>1 DEF BindTransport
  <2>3. process' \in Transports \cup {Vfs} /\ nested' \in BOOLEAN
    BY <2>2 DEF Inv, Carried
  <2> HIDE DEF x
  <2>4. bound' \in Seq(BindingsOf) /\ Len(bound') <= setting.transports
    BY <2>1, <2>2
  <2> QED BY <2>2, <2>3, <2>4 DEF Carried, BindingsOf
<1> QED BY <1>1, <1>2, Kept DEF Inv

\* A transport binding closed, as the steps of a restore callback leave it.
LEMMA Closes ==
    ASSUME Carried, NEW i \in DOMAIN bound, bound' = [bound EXCEPT ![i].open = FALSE]
    PROVE  /\ bound \in Seq(BindingsOf) /\ DOMAIN bound = 1..Len(bound) /\ Len(bound) \in Nat
           /\ bound' \in Seq(BindingsOf) /\ Len(bound') = Len(bound) /\ DOMAIN bound' = 1..Len(bound)
           /\ \A j \in 1..Len(bound) :
                 /\ bound[j] \in BindingsOf
                 /\ bound'[j].own = bound[j].own /\ bound'[j].previous = bound[j].previous
                 /\ bound'[j].open <=> bound[j].open /\ j # i
<1> DEFINE x == [bound[i] EXCEPT !.open = FALSE]
           n == Len(bound)
           new == bound'
<1>1. bound \in Seq(BindingsOf)
  BY DEF Carried, BindingsOf
<1>2. n \in Nat /\ DOMAIN bound = 1..n /\ \A j \in 1..n : bound[j] \in BindingsOf
  BY <1>1
<1>3. x \in BindingsOf /\ x.own = bound[i].own /\ x.previous = bound[i].previous /\ ~x.open
  BY <1>2 DEF BindingsOf
<1>4. new = [j \in 1..n |-> IF j = i THEN x ELSE bound[j]]
  BY <1>2
<1> HIDE DEF x, new, n
<1>5. /\ new \in Seq(BindingsOf) /\ Len(new) = n /\ DOMAIN new = 1..n
      /\ \A j \in 1..n : new[j] = IF j = i THEN x ELSE bound[j]
  BY <1>2, <1>3, <1>4
<1>6. ASSUME NEW j \in 1..n
      PROVE  /\ new[j].own = bound[j].own /\ new[j].previous = bound[j].previous
             /\ new[j].open <=> bound[j].open /\ j # i
  <2>1. CASE j = i
    <3>1. new[j] = x
      BY <1>5, <2>1
    <3> QED BY <1>3, <2>1, <3>1
  <2>2. CASE j # i
    <3>1. new[j] = bound[j]
      BY <1>5, <2>2
    <3> QED BY <2>2, <3>1
  <2> QED BY <2>1, <2>2
<1> QED BY <1>1, <1>2, <1>5, <1>6 DEF n, new

LEMMA RestoresTransport ==
    ASSUME Inv, NEW i \in DOMAIN bound, RestoreTransport(i)
    PROVE  Inv'
<1>1. UNCHANGED Scopes /\ UNCHANGED <<setting, write>>
  BY DEF RestoreTransport, Scopes
<1>2. Carried'
  <2>1. /\ bound' = [bound EXCEPT ![i].open = FALSE]
        /\ process' = IF process = bound[i].own THEN bound[i].previous ELSE process
        /\ nested' = (nested /\ Newest(i)) /\ Carried
    BY DEF RestoreTransport, Inv
  <2>2. /\ bound' \in Seq(BindingsOf) /\ Len(bound') = Len(bound) /\ bound[i].previous \in Transports \cup {Vfs}
    BY <2>1, Closes DEF BindingsOf
  <2>3. process' \in Transports \cup {Vfs}
    BY <2>1, <2>2 DEF Carried
  <2>4. nested' \in BOOLEAN
    BY <2>1
  <2>5. Len(bound') <= setting'.transports
    BY <1>1, <2>1, <2>2 DEF Carried
  <2> QED BY <1>1, <2>2, <2>3, <2>4, <2>5 DEF Carried, BindingsOf
<1> QED BY <1>1, <1>2, Kept DEF Inv

\* A step of a write that leaves a well-formed one.
LEMMA Rewritten ==
    ASSUME Inv, NEW c \in Contexts, NEW w \in Writes, Ordered(w),
           write' = [write EXCEPT ![c] = w], UNCHANGED Scopes, UNCHANGED Processwide
    PROVE  Inv'
<1>1. setting' = setting
  BY DEF Scopes
<1>2. write' \in [Contexts -> Writes] /\ \A d \in Contexts : Ordered(write'[d])
  BY DEF Inv, Written
<1>3. Writes' = Writes
  BY <1>1 DEF Writes, Frames
<1>4. \A d \in Contexts : Ordered(write[d])'
  BY <1>2 DEF Ordered, Rising
<1> QED BY <1>2, <1>3, <1>4, Kept DEF Inv, Written

LEMMA Starts ==
    ASSUME Inv, NEW c \in Contexts, StartWrite(c)
    PROVE  Inv'
<1> DEFINE left == Authorizers(store[c])
           W(t) == [NoWrite EXCEPT !.pc = "asking", !.left = left, !.chosen = t]
<1>1. PICK t \in Explicit \cup {process} : write' = [write EXCEPT ![c] = W(t)]
  BY DEF StartWrite
<1>2. t \in Transports \cup {Vfs}
  BY ScopesAssumption DEF Inv, Carried
<1>3. left \in Seq(1..Len(frame)) /\ Rising(left)
  BY Stored DEF Inv
<1>4. left \in Seq(Frames)
  <2>1. 1..Len(frame) \subseteq Frames
    BY Rooted DEF Inv, Framed, Sizes, Frames
  <2> HIDE DEF left
  <2> QED BY <1>3, <2>1
<1> HIDE DEF left
<1>5. W(t) \in Writes /\ W(t).left = left /\ W(t).asked = {}
  BY <1>2, <1>4 DEF NoWrite, Writes
<1>6. Ordered(W(t))
  BY <1>3, <1>5 DEF Ordered
<1> HIDE DEF W
<1>7. UNCHANGED Scopes /\ UNCHANGED Processwide
  BY DEF StartWrite
<1> QED BY <1>1, <1>5, <1>6, <1>7, Rewritten

LEMMA Denies ==
    ASSUME Inv, NEW c \in Contexts, Deny(c)
    PROVE  Inv'
<1> DEFINE w == [write[c] EXCEPT !.pc = "denied"]
<1>1. write[c] \in Writes /\ Ordered(write[c])
  BY DEF Inv, Written
<1>2. w \in Writes /\ w.left = write[c].left /\ w.asked = write[c].asked
  BY <1>1 DEF Writes
<1>3. Ordered(w)
  <2> HIDE DEF w
  <2> QED BY <1>1, <1>2 DEF Ordered
<1>4. write' = [write EXCEPT ![c] = w] /\ UNCHANGED Scopes /\ UNCHANGED Processwide
  BY DEF Deny
<1> HIDE DEF w
<1> QED BY <1>2, <1>3, <1>4, Rewritten

\* What is left after the first authorizer, and that it comes before the rest.
LEMMA Advances ==
    ASSUME NEW w, w.left \in Seq(Frames), w.asked \in SUBSET Frames, Ordered(w), w.left # <<>>,
           setting.bindings \in Nat,
           NEW next, next.left = Tail(w.left), next.asked = w.asked \cup {Head(w.left)}
    PROVE  /\ next.left \in Seq(Frames) /\ next.asked \in SUBSET Frames /\ Ordered(next)
           /\ ToSet(w.left) = {Head(w.left)} \cup ToSet(Tail(w.left))
           /\ Head(w.left) \in ToSet(w.left) /\ \A b \in ToSet(w.left) : Head(w.left) <= b
           /\ w.asked \cap ToSet(w.left) = {}
<1> DEFINE s == w.left
           n == Len(s)
<1>1. /\ n \in Nat \ {0} /\ Head(s) = s[1] /\ Tail(s) \in Seq(Frames) /\ Len(Tail(s)) = n - 1
      /\ DOMAIN s = 1..n /\ DOMAIN Tail(s) = 1..(n - 1)
      /\ \A i \in 1..n : s[i] \in Frames
      /\ \A i \in 1..(n - 1) : Tail(s)[i] = s[i + 1]
  <2>1. s \in Seq(Frames) /\ s # <<>>
    OBVIOUS
  <2> HIDE DEF s
  <2>2. Head(s) = s[1] /\ Tail(s) \in Seq(Frames) /\ Len(Tail(s)) = n - 1 /\ n \in Nat \ {0}
    BY <2>1
  <2>3. DOMAIN s = 1..n /\ DOMAIN Tail(s) = 1..(n - 1)
    BY <2>1, <2>2
  <2>4. /\ \A i \in 1..n : s[i] \in Frames
        /\ \A i \in 1..(n - 1) : Tail(s)[i] = s[i + 1]
    BY <2>1
  <2> QED BY <2>2, <2>3, <2>4
<1>2. /\ \A i, j \in 1..n : i < j => s[i] < s[j]
      /\ \A b \in w.asked, i \in 1..n : b < s[i]
  BY DEF Ordered, Rising
<1>3. Frames \subseteq Nat
  BY DEF Frames
<1> HIDE DEF s, n
<1>4. \A i \in 1..(n - 1) : i + 1 \in 1..n /\ 1 < i + 1 /\ 1 \in 1..n
  BY <1>1
<1>5. \A i \in 1..(n - 1) : Head(s) < Tail(s)[i]
  BY <1>1, <1>2, <1>4
<1>6. Rising(Tail(s))
  <2> SUFFICES ASSUME NEW i \in 1..(n - 1), NEW j \in 1..(n - 1), i < j PROVE Tail(s)[i] < Tail(s)[j]
    BY <1>1 DEF Rising
  <2>1. i + 1 \in 1..n /\ j + 1 \in 1..n /\ i + 1 < j + 1
    BY <1>1
  <2> QED BY <1>1, <1>2, <2>1
<1>7. ToSet(s) = {s[1]} \cup ToSet(Tail(s))
  <2>1. ASSUME NEW x \in ToSet(s) PROVE x \in {s[1]} \cup ToSet(Tail(s))
    <3>1. PICK i \in 1..n : x = s[i]
      BY <1>1 DEF ToSet
    <3>2. CASE i # 1
      <4>1. i - 1 \in 1..(n - 1) /\ (i - 1) + 1 = i
        BY <1>1, <3>2
      <4>2. Tail(s)[i - 1] = x
        BY <1>1, <3>1, <4>1
      <4> QED BY <1>1, <4>1, <4>2 DEF ToSet
    <3> QED BY <3>1, <3>2
  <2>2. ASSUME NEW x \in {s[1]} \cup ToSet(Tail(s)) PROVE x \in ToSet(s)
    <3>1. CASE x = s[1]
      BY <1>1, <3>1 DEF ToSet
    <3>2. CASE x \in ToSet(Tail(s))
      <4>1. PICK i \in 1..(n - 1) : x = Tail(s)[i]
        BY <1>1, <3>2 DEF ToSet
      <4> QED BY <1>1, <1>4, <4>1 DEF ToSet
    <3> QED BY <2>2, <3>1, <3>2
  <2> QED BY <2>1, <2>2
<1>8. \A b \in ToSet(s) : \E i \in 1..n : b = s[i]
  BY <1>1 DEF ToSet
<1>9. \A b \in ToSet(s) : Head(s) <= b
  <2> SUFFICES ASSUME NEW i \in 1..n PROVE s[1] <= s[i]
    BY <1>1, <1>8
  <2>1. s[1] \in Nat /\ s[i] \in Nat
    <3>1. 1 \in 1..n
      BY <1>1
    <3>2. s[1] \in Frames /\ s[i] \in Frames
      BY <1>1, <3>1
    <3> QED BY <1>3, <3>2
  <2>2. CASE i = 1
    BY <2>1, <2>2
  <2>3. CASE i # 1
    <3>1. 1 \in 1..n /\ 1 < i
      BY <1>1, <2>3
    <3>2. s[1] < s[i]
      BY <1>2, <3>1
    <3> QED BY <2>1, <3>2
  <2> QED BY <2>2, <2>3
<1>10. w.asked \cap ToSet(s) = {}
  <2> SUFFICES ASSUME NEW b \in w.asked, b \in ToSet(s) PROVE FALSE
    OBVIOUS
  <2>1. PICK i \in 1..n : b = s[i]
    BY <1>8
  <2>2. b < b /\ b \in Nat
    BY <1>2, <1>3, <2>1
  <2> QED BY <2>2
<1>11. Ordered(next)
  <2>1. ASSUME NEW b \in next.asked, NEW i \in 1..Len(next.left) PROVE b < next.left[i]
    <3>1. i \in 1..(n - 1) /\ next.left[i] = Tail(s)[i] /\ Tail(s)[i] = s[i + 1] /\ i + 1 \in 1..n
      BY <1>1, <1>4 DEF s
    <3>2. CASE b \in w.asked
      BY <1>2, <3>1, <3>2
    <3>3. CASE b = Head(s)
      BY <1>5, <3>1, <3>3
    <3> QED BY <3>2, <3>3 DEF s
  <2>2. Rising(next.left)
    BY <1>6 DEF s
  <2> QED BY <2>1, <2>2 DEF Ordered
<1>12. next.left \in Seq(Frames) /\ next.asked \in SUBSET Frames
  <2>1. Head(s) \in Frames
    BY <1>1
  <2> QED BY <1>1, <2>1 DEF s
<1>13. Head(s) \in ToSet(s)
  BY <1>1, <1>7
<1> QED BY <1>1, <1>7, <1>9, <1>10, <1>11, <1>12, <1>13 DEF s

LEMMA Allows ==
    ASSUME Inv, NEW c \in Contexts, Allow(c)
    PROVE  Inv'
<1> DEFINE w == write[c]
           W(t) == [w EXCEPT !.left = Tail(w.left), !.asked = w.asked \cup {Head(w.left)},
                             !.override = IF w.override = Nowhere THEN t ELSE w.override]
<1>1. w \in Writes /\ Ordered(w) /\ w.left # <<>> /\ setting.bindings \in Nat
  BY DEF Allow, Inv, Written, Framed, Sizes
<1>2. PICK t \in Transports \cup {Nowhere} : write' = [write EXCEPT ![c] = W(t)]
  BY DEF Allow, Inv, Written
<1>3. w.left \in Seq(Frames) /\ w.asked \in SUBSET Frames /\ w.override \in Transports \cup {Nowhere}
  BY <1>1 DEF Writes
<1> HIDE DEF w
<1>4. W(t).left = Tail(w.left) /\ W(t).asked = w.asked \cup {Head(w.left)}
  BY <1>1 DEF Writes
<1>5. W(t).left \in Seq(Frames) /\ W(t).asked \in SUBSET Frames /\ Ordered(W(t))
  <2> HIDE DEF W
  <2> QED BY <1>1, <1>3, <1>4, Advances
<1>6. W(t) \in Writes
  BY <1>1, <1>3, <1>4, <1>5 DEF Writes
<1>7. UNCHANGED Scopes /\ UNCHANGED Processwide
  BY DEF Allow
<1> HIDE DEF W
<1> QED BY <1>2, <1>5, <1>6, <1>7, Rewritten

LEMMA Sends ==
    ASSUME Inv, NEW c \in Contexts, Send(c)
    PROVE  Inv'
<1> DEFINE w == write[c]
           sent == IF w.override = Nowhere THEN w.chosen ELSE w.override
           x == [w EXCEPT !.pc = "sent", !.chosen = sent]
<1>1. w \in Writes /\ Ordered(w)
  BY DEF Inv, Written
<1>2. write' = [write EXCEPT ![c] = x]
  BY DEF Send, Inv, Written
<1>3. sent \in Transports \cup {Vfs}
  BY <1>1 DEF Writes
<1> HIDE DEF w, sent
<1>4. x \in Writes /\ x.left = w.left /\ x.asked = w.asked
  BY <1>1, <1>3 DEF Writes
<1> HIDE DEF x
<1>5. Ordered(x)
  BY <1>1, <1>4 DEF Ordered
<1>6. UNCHANGED Scopes /\ UNCHANGED Processwide
  BY DEF Send
<1> QED BY <1>2, <1>4, <1>5, <1>6, Rewritten

LEMMA Steps == Inv /\ [Next]_vars => Inv'
<1> SUFFICES ASSUME Inv, [Next]_vars PROVE Inv'
  OBVIOUS
<1>1. CASE UNCHANGED vars
  BY <1>1, Kept DEF vars, Scopes, Processwide, Inv
<1>2. CASE \E c \in Contexts : Bind(c) \/ StartWrite(c) \/ Deny(c) \/ Allow(c) \/ Send(c)
  BY <1>2, Binds, Starts, Denies, Allows, Sends
<1>3. CASE \E c \in Contexts, f \in DOMAIN frame : Restore(c, f)
  BY <1>3, Restores
<1>4. CASE \E c, d \in Contexts : Spawn(c, d) \/ RunScoped(c, d)
  BY <1>4, Spawns, RunsScoped
<1>5. CASE \E t \in Transports : BindTransport(t)
  BY <1>5, BindsTransport
<1>6. CASE \E i \in DOMAIN bound : RestoreTransport(i)
  BY <1>6, RestoresTransport
<1> QED BY <1>1, <1>2, <1>3, <1>4, <1>5, <1>6 DEF Next

LEMMA Invariant == Spec => []Inv
<1> QED BY Inits, Steps, PTL DEF Spec

\* The types hold for any number of contexts, bindings and transports; a frame
\* points to one made before it, so that looking up authorizers ends.
THEOREM TypeCorrect == Spec => []TypeOK
<1>1. Inv => TypeOK
  BY DEF Inv, Framed, Carried, Written, Writes, TypeOK
<1> QED BY <1>1, Invariant, PTL

-----------------------------------------------------------------------------
(* Transports.                                                               *)

\* t is what the bindings before the k-th leave in force: the transport of the
\* newest of them that is open, or the files when all are closed.
Below(k, t) ==
    /\ (\A j \in 1..(k - 1) : ~bound[j].open) => t = Vfs
    /\ \A j \in 1..(k - 1) :
          bound[j].open /\ (\A i \in (j + 1)..(k - 1) : ~bound[i].open) => t = bound[j].own

\* The process transport is that of the bindings in force, and a binding in
\* force remembers that of those below it: needed once it is released.
Stacked ==
    nested => /\ Below(Len(bound) + 1, process)
              /\ \A k \in 1..Len(bound) : bound[k].open => Below(k, bound[k].previous)

LEMMA StackedFirst == Init => Stacked
BY DEF Init, Stacked, Below

LEMMA StackedKept == Stacked /\ UNCHANGED Processwide => Stacked'
BY DEF Stacked, Below, Processwide

LEMMA StackedBind ==
    ASSUME Carried, Stacked, NEW t \in Transports, BindTransport(t)
    PROVE  Stacked'
<1> DEFINE n == Len(bound)
           x == [own |-> t, previous |-> process, open |-> TRUE]
           new == bound'
<1>1. bound \in Seq(BindingsOf) /\ x \in BindingsOf /\ n \in Nat
  BY DEF Carried, BindingsOf
<1>2. x.own = t /\ x.previous = process /\ x.open
  OBVIOUS
<1>3. new = Append(bound, x) /\ process' = t /\ nested' = nested
  BY DEF BindTransport
<1> HIDE DEF x, new, n
<1>4. Len(new) = n + 1 /\ new[n + 1] = x /\ \A j \in 1..n : new[j] = bound[j]
  BY <1>1, <1>3 DEF n
<1>5. /\ new[n + 1].own = t /\ new[n + 1].previous = process /\ new[n + 1].open
      /\ \A j \in 1..n : new[j].open = bound[j].open /\ new[j].own = bound[j].own
                         /\ new[j].previous = bound[j].previous
  BY <1>2, <1>4
<1> SUFFICES ASSUME nested
             PROVE  /\ Below(Len(bound) + 1, process)'
                    /\ \A k \in 1..Len(new) : new[k].open => Below(k, bound[k].previous)'
  BY <1>3 DEF Stacked, new
<1>6. /\ Below(n + 1, process)
      /\ \A k \in 1..n : bound[k].open => Below(k, bound[k].previous)
  BY DEF Stacked, n
<1>7. Below(Len(bound) + 1, process)'
  <2>1. \A j \in 1..(n + 1) : j = n + 1 \/ n + 1 \in (j + 1)..(n + 1)
    BY <1>1
  <2>2. (n + 1) + 1 - 1 = n + 1 /\ n + 1 \in 1..(n + 1)
    BY <1>1
  <2>3. /\ (\A j \in 1..(n + 1) : ~new[j].open) => t = Vfs
        /\ \A j \in 1..(n + 1) :
              new[j].open /\ (\A i \in (j + 1)..(n + 1) : ~new[i].open) => t = new[j].own
    BY <1>5, <2>1, <2>2
  <2> QED BY <1>3, <1>4, <2>2, <2>3 DEF Below, new
<1>8. ASSUME NEW k \in 1..(n + 1), new[k].open PROVE Below(k, bound[k].previous)'
  <2>1. \A j \in 1..(k - 1) : j \in 1..n
    BY <1>1
  <2>2. \A j \in 1..(k - 1) : \A i \in (j + 1)..(k - 1) : i \in 1..n
    BY <1>1
  <2>3. Below(k, new[k].previous)
    <3>1. CASE k = n + 1
      BY <1>5, <1>6, <3>1
    <3>2. CASE k # n + 1
      <4>1. k \in 1..n
        BY <1>1, <3>2
      <4> QED BY <1>5, <1>6, <1>8, <4>1
    <3> QED BY <3>1, <3>2
  <2>4. /\ (\A j \in 1..(k - 1) : ~new[j].open) => new[k].previous = Vfs
        /\ \A j \in 1..(k - 1) :
              new[j].open /\ (\A i \in (j + 1)..(k - 1) : ~new[i].open)
              => new[k].previous = new[j].own
    BY <1>5, <2>1, <2>2, <2>3 DEF Below
  <2> QED BY <2>4 DEF Below, new
<1> QED BY <1>4, <1>7, <1>8

LEMMA StackedRestore ==
    ASSUME Carried, Stacked, NEW i \in DOMAIN bound, RestoreTransport(i)
    PROVE  Stacked'
<1> DEFINE n == Len(bound)
           new == bound'
<1>1. /\ bound' = [bound EXCEPT ![i].open = FALSE]
      /\ process' = IF process = bound[i].own THEN bound[i].previous ELSE process
      /\ nested' = (nested /\ Newest(i))
  BY DEF RestoreTransport
<1>2. /\ n \in Nat /\ DOMAIN bound = 1..n /\ Len(new) = n /\ i \in 1..n
      /\ \A j \in 1..n : /\ new[j].own = bound[j].own /\ new[j].previous = bound[j].previous
                         /\ new[j].open <=> bound[j].open /\ j # i
  BY <1>1, Closes
<1> SUFFICES ASSUME nested, Newest(i)
             PROVE  /\ Below(Len(bound) + 1, process)'
                    /\ \A k \in 1..Len(new) : new[k].open => Below(k, bound[k].previous)'
  BY <1>1 DEF Stacked
<1> HIDE DEF new, n
<1>3. /\ Below(n + 1, process)
      /\ \A k \in 1..n : bound[k].open => Below(k, bound[k].previous)
  BY DEF Stacked, n
<1>4. bound[i].open /\ \A j \in 1..n : j > i => ~bound[j].open
  BY <1>2 DEF Newest
<1>5. process' = bound[i].previous
  <2>1. i \in 1..((n + 1) - 1) /\ \A j \in (i + 1)..((n + 1) - 1) : j \in 1..n /\ j > i
    BY <1>2
  <2>2. process = bound[i].own
    BY <1>3, <1>4, <2>1 DEF Below
  <2> QED BY <1>1, <2>2
<1>6. Below(i, bound[i].previous)
  BY <1>2, <1>3, <1>4
<1>7. /\ (n + 1) - 1 = n /\ \A j \in 1..(i - 1) : j \in 1..n /\ j # i
      /\ \A j \in 1..n : new[j].open => j \in 1..(i - 1)
  BY <1>2, <1>4
<1>8. Below(Len(bound) + 1, process)'
  <2>1. ASSUME \A j \in 1..n : ~new[j].open PROVE bound[i].previous = Vfs
    BY <1>2, <1>6, <1>7, <2>1 DEF Below
  <2>2. ASSUME NEW j \in 1..n, new[j].open, \A m \in (j + 1)..n : ~new[m].open
        PROVE  bound[i].previous = new[j].own
    <3>1. j \in 1..(i - 1) /\ bound[j].open /\ new[j].own = bound[j].own
      BY <1>2, <1>7, <2>2
    <3>2. \A m \in (j + 1)..(i - 1) : m \in (j + 1)..n /\ m \in 1..n /\ m # i
      BY <1>2
    <3>3. \A m \in (j + 1)..(i - 1) : ~bound[m].open
      BY <1>2, <2>2, <3>2
    <3> QED BY <1>6, <3>1, <3>3 DEF Below
  <2>3. Len(new) + 1 - 1 = n
    BY <1>2
  <2> QED BY <1>5, <2>1, <2>2, <2>3 DEF Below, new
<1>9. ASSUME NEW k \in 1..n, new[k].open PROVE Below(k, bound[k].previous)'
  <2>1. k \in 1..(i - 1) /\ bound[k].open /\ new[k].previous = bound[k].previous
    BY <1>2, <1>7, <1>9
  <2>2. Below(k, bound[k].previous)
    BY <1>3, <2>1
  <2>3. /\ \A j \in 1..(k - 1) : j \in 1..n /\ j # i
        /\ \A j \in 1..(k - 1) : \A m \in (j + 1)..(k - 1) : m \in 1..n /\ m # i
    BY <1>2, <2>1
  <2>4. /\ \A j \in 1..(k - 1) : new[j].own = bound[j].own /\ (new[j].open <=> bound[j].open)
        /\ \A j \in 1..(k - 1) : \A m \in (j + 1)..(k - 1) : new[m].open <=> bound[m].open
    BY <1>2, <2>3
  <2>5. /\ (\A j \in 1..(k - 1) : ~new[j].open) => new[k].previous = Vfs
        /\ \A j \in 1..(k - 1) :
              new[j].open /\ (\A m \in (j + 1)..(k - 1) : ~new[m].open)
              => new[k].previous = new[j].own
    BY <2>1, <2>2, <2>4 DEF Below
  <2> QED BY <2>5 DEF Below, new
<1> QED BY <1>2, <1>8, <1>9

\* If some binding is open, one of them is the newest.
LEMMA Latest ==
    ASSUME Carried, NEW i \in DOMAIN bound, bound[i].open
    PROVE  \E j \in DOMAIN bound : Newest(j)
<1> DEFINE n == Len(bound)
           LastOpen(j, k) == bound[j].open /\ \A m \in 1..k : m > j => ~bound[m].open
           S == {k \in 0..n : (\E m \in 1..k : bound[m].open) => \E j \in 1..k : LastOpen(j, k)}
           down == [g \in 1..n |-> g - 1]
<1>1. n \in Nat /\ DOMAIN bound = 1..n
  BY DEF Carried
<1> HIDE DEF n
<1>2. 0 \in S
  BY <1>1
<1>3. ASSUME NEW g \in 1..n, down[g] \in S PROVE g \in S
  <2>1. g - 1 \in S /\ g \in 0..n /\ g \in Nat
    BY <1>1, <1>3
  <2>2. CASE bound[g].open
    <3>1. LastOpen(g, g)
      BY <2>1, <2>2
    <3> QED BY <2>1, <3>1
  <2>3. CASE ~bound[g].open
    <3>1. \A m \in 1..g : m \in 1..(g - 1) \/ m = g
      BY <2>1
    <3>2. \A j \in 1..(g - 1) : j \in 1..g /\ (LastOpen(j, g - 1) => LastOpen(j, g))
      BY <2>1, <2>3, <3>1
    <3>3. \A m \in 1..g : bound[m].open => m \in 1..(g - 1)
      BY <2>3, <3>1
    <3>4. (\E m \in 1..(g - 1) : bound[m].open) => \E j \in 1..(g - 1) : LastOpen(j, g - 1)
      BY <2>1
    <3> HIDE DEF LastOpen
    <3>5. (\E m \in 1..g : bound[m].open) => \E j \in 1..g : LastOpen(j, g)
      BY <3>2, <3>3, <3>4
    <3> QED BY <2>1, <3>5
  <2> QED BY <2>2, <2>3
<1>4. Along(n, down)
  BY DEF Along
<1> HIDE DEF S, down, LastOpen
<1>5. n \in S
  BY <1>1, <1>2, <1>3, <1>4, Climb
<1>6. PICK j \in 1..n : LastOpen(j, n)
  BY <1>1, <1>5 DEF S
<1> QED BY <1>1, <1>6 DEF LastOpen, Newest

\* The last binding, if it is Distinct, is in force.
Top == \A i \in DOMAIN bound : Distinct(i) /\ bound[i].open => process = bound[i].own

LEMMA TopBind ==
    ASSUME Carried, NEW t \in Transports, BindTransport(t)
    PROVE  Top'
<1> DEFINE n == Len(bound)
           x == [own |-> t, previous |-> process, open |-> TRUE]
           new == bound'
<1>1. bound \in Seq(BindingsOf) /\ x \in BindingsOf /\ n \in Nat /\ x.own = t
  BY DEF Carried, BindingsOf
<1>2. new = Append(bound, x) /\ process' = t
  BY DEF BindTransport
<1> HIDE DEF x, new
<1>3. Len(new) = n + 1 /\ new[n + 1] = x
  BY <1>1, <1>2
<1> QED BY <1>1, <1>2, <1>3 DEF Top, Distinct, new

LEMMA TopRestore ==
    ASSUME Carried, Top, NEW i \in DOMAIN bound, RestoreTransport(i)
    PROVE  Top'
<1> DEFINE n == Len(bound)
           new == bound'
<1>1. /\ bound' = [bound EXCEPT ![i].open = FALSE]
      /\ process' = IF process = bound[i].own THEN bound[i].previous ELSE process
  BY DEF RestoreTransport
<1>2. /\ n \in Nat /\ DOMAIN bound = 1..n /\ DOMAIN new = 1..n /\ Len(new) = n /\ i \in 1..n
      /\ \A j \in 1..n : /\ new[j].own = bound[j].own
                         /\ new[j].open <=> bound[j].open /\ j # i
  BY <1>1, Closes
<1> SUFFICES ASSUME n \in 1..n, \A j \in 1..(n - 1) : new[j].own # new[n].own, new[n].open
             PROVE  process' = new[n].own
  BY <1>2 DEF Top, Distinct, new
<1> HIDE DEF new
<1>3. i \in 1..(n - 1) /\ bound[n].open
  BY <1>2
<1>4. \A j \in 1..(n - 1) : j \in 1..n /\ bound[j].own # bound[n].own
  BY <1>2
<1> HIDE DEF n
<1>5. process = bound[n].own
  BY <1>2, <1>3, <1>4 DEF Top, Distinct, n
<1> QED BY <1>1, <1>2, <1>3, <1>4, <1>5

\* Transport bindings restored once each and the newest first restore
\* correctly, however many there are and also if several have one transport;
\* callbacks called in any other order leave a last binding that is the only
\* one of its transport in force.
THEOREM NestedTransports == Spec => []TransportOfNewest
<1>1. Inv /\ Stacked /\ Top => TransportOfNewest
  <2> SUFFICES ASSUME Carried, Stacked, nested
               PROVE  IF \E i \in DOMAIN bound : Newest(i)
                      THEN \A i \in DOMAIN bound : Newest(i) => process = bound[i].own
                      ELSE process = Vfs
    BY DEF Inv, TransportOfNewest, Top
  <2>1. Len(bound) \in Nat /\ DOMAIN bound = 1..Len(bound)
    BY DEF Carried
  <2>2. Len(bound) + 1 - 1 = Len(bound)
    BY <2>1
  <2>3. /\ (\A j \in 1..Len(bound) : ~bound[j].open) => process = Vfs
        /\ \A j \in 1..Len(bound) :
              bound[j].open /\ (\A i \in (j + 1)..Len(bound) : ~bound[i].open) => process = bound[j].own
    BY <2>2 DEF Stacked, Below
  <2>4. ASSUME NEW i \in DOMAIN bound, Newest(i) PROVE process = bound[i].own
    <3>1. \A j \in (i + 1)..Len(bound) : j \in 1..Len(bound) /\ j > i
      BY <2>1
    <3> QED BY <2>1, <2>3, <2>4, <3>1 DEF Newest
  <2>5. ASSUME ~\E i \in DOMAIN bound : Newest(i) PROVE process = Vfs
    BY <2>1, <2>3, <2>5, Latest
  <2> QED BY <2>4, <2>5
<1>2. Inv /\ Stacked /\ [Next]_vars => Stacked'
  <2> SUFFICES ASSUME Inv, Stacked, [Next]_vars PROVE Stacked'
    OBVIOUS
  <2>1. CASE UNCHANGED vars
    BY <2>1, StackedKept DEF vars, Processwide
  <2>2. CASE \E c \in Contexts : Bind(c) \/ StartWrite(c) \/ Deny(c) \/ Allow(c) \/ Send(c)
    BY <2>2, StackedKept DEF Bind, StartWrite, Deny, Allow, Send
  <2>3. CASE \E c \in Contexts, f \in DOMAIN frame : Restore(c, f)
    BY <2>3, StackedKept DEF Restore
  <2>4. CASE \E c, d \in Contexts : Spawn(c, d) \/ RunScoped(c, d)
    BY <2>4, StackedKept DEF Spawn, RunScoped
  <2>5. CASE \E t \in Transports : BindTransport(t)
    BY <2>5, StackedBind DEF Inv
  <2>6. CASE \E i \in DOMAIN bound : RestoreTransport(i)
    BY <2>6, StackedRestore DEF Inv
  <2> QED BY <2>1, <2>2, <2>3, <2>4, <2>5, <2>6 DEF Next
<1>3. Inv /\ Top /\ [Next]_vars => Top'
  <2> SUFFICES ASSUME Inv, Top, [Next]_vars PROVE Top'
    OBVIOUS
  <2>1. CASE UNCHANGED Processwide
    BY <2>1 DEF Processwide, Top, Distinct
  <2>2. CASE \E t \in Transports : BindTransport(t)
    BY <2>2, TopBind DEF Inv
  <2>3. CASE \E i \in DOMAIN bound : RestoreTransport(i)
    BY <2>3, TopRestore DEF Inv
  <2>4. \/ UNCHANGED Processwide
        \/ \E t \in Transports : BindTransport(t)
        \/ \E i \in DOMAIN bound : RestoreTransport(i)
    BY DEF Next, vars, Processwide, Bind, StartWrite, Deny, Allow, Send, Restore, Spawn, RunScoped
  <2> QED BY <2>1, <2>2, <2>3, <2>4
<1>4. Init => Top
  BY DEF Init, Top
<1> QED BY <1>1, <1>2, <1>3, <1>4, StackedFirst, Invariant, PTL DEF Spec

-----------------------------------------------------------------------------
(* The refinement.                                                           *)

\* What the policy sees of each context and of each write.
Under(c) == LineOf(frame, store[c])

Seen(w) == [pc |-> w.pc, must |-> w.asked \cup ToSet(w.left), allowed |-> w.asked,
            override |-> w.override, chosen |-> w.chosen]

PolicyNow == [c \in Contexts |-> ToSet(Authorizers(store[c]))]
WriteNow == [c \in Contexts |-> Seen(write[c])]

PolicyVars == <<PolicyNow, Len(frame), begun, WriteNow>>

LEMMA Viewed == Framed => PolicyNow = [c \in Contexts |-> Under(c)]
BY Stored DEF PolicyNow, Under

LEMMA ViewedNext == Framed' => PolicyNow' = [c \in Contexts |-> LineOf(frame', store'[c])]
<1> DEFINE T == [previous : 0..setting'.bindings, active : BOOLEAN, scoped : BOOLEAN]
           new == frame'
<1> SUFFICES ASSUME Framed' PROVE PolicyNow' = [c \in Contexts |-> LineOf(new, store'[c])]
  OBVIOUS
<1>1. Tree(new)
  <2>1. T \subseteq Node /\ new \in Seq(T) /\ \A f \in DOMAIN new : new[f].previous < f
    BY DEF Framed, Sizes, Node
  <2> HIDE DEF T, new
  <2>2. new \in Seq(Node) /\ DOMAIN new = 1..Len(new)
    BY <2>1
  <2> QED BY <2>1, <2>2 DEF Tree
<1>2. ASSUME NEW c \in Contexts PROVE ToSet(Authorizers(store[c]))' = LineOf(new, store'[c])
  <2> DEFINE s == store'[c]
  <2>1. s \in 0..Len(new)
    BY DEF Framed
  <2>2. Authorizers(store[c])' = ChainOf(frame', UpOf(frame', s))
    BY Names DEF Authorizers
  <2> HIDE DEF new, s
  <2>3. ChainOf(new, UpOf(new, s)) = ChainOf(new, s)
    BY <1>1, <2>1, Tops
  <2> QED BY <2>2, <2>3 DEF LineOf, new, s
<1> QED BY <1>2 DEF PolicyNow

LEMMA PolicyInit == Init => Policy!Init
<1> SUFFICES ASSUME Init PROVE Policy!Init
  OBVIOUS
<1>1. Framed /\ Tree(frame)
  BY Inits, Rooted DEF Inv
<1>2. PolicyNow = [c \in Contexts |-> {}]
  <2>1. \A c \in Contexts : Under(c) = {}
    BY <1>1, Lines DEF Under, Init
  <2> QED BY <1>1, <2>1, Viewed
<1>3. WriteNow = [c \in Contexts |-> Policy!NoWrite]
  <2>1. ToSet(<<>>) = {}
    BY DEF ToSet
  <2>2. Seen(NoWrite) = Policy!NoWrite
    BY <2>1 DEF Seen, NoWrite, Policy!NoWrite, Policy!Nowhere, Policy!Vfs, Nowhere, Vfs
  <2> QED BY <2>2 DEF Init, WriteNow
<1>4. Len(frame) = 0 /\ begun = {Main}
  BY DEF Init
<1> QED BY <1>2, <1>3, <1>4 DEF Policy!Init, PolicyNow, WriteNow, Seen

LEMMA PolicyBind ==
    ASSUME Framed, Framed', NEW c \in Contexts, Bind(c)
    PROVE  Policy!Bind(c)
<1>1. /\ FALSE \in BOOLEAN /\ Len(frame) < setting.bindings /\ UNCHANGED <<setting, begun, write>>
      /\ frame' = Append(frame, NewFrame(c, FALSE)) /\ c \in begun
      /\ store' = [store EXCEPT ![c] = Len(frame) + 1]
  BY DEF Bind, Processwide
<1>2. /\ Len(frame') = Len(frame) + 1
      /\ \A f \in 0..Len(frame) : LineOf(frame', f) = LineOf(frame, f)
      /\ LineOf(frame', Len(frame) + 1) = LineOf(frame, store[c]) \cup {Len(frame) + 1}
  BY <1>1, Adds
<1>3. ASSUME NEW d \in Contexts
      PROVE  LineOf(frame', store'[d]) = IF d = c THEN Under(c) \cup {Len(frame) + 1} ELSE Under(d)
  <2>1. store[d] \in 0..Len(frame) /\ store'[d] = IF d = c THEN Len(frame) + 1 ELSE store[d]
    BY <1>1 DEF Framed
  <2> QED BY <1>2, <2>1 DEF Under
<1>4. PolicyNow' = [d \in Contexts |-> IF d = c THEN Under(c) \cup {Len(frame) + 1} ELSE Under(d)]
  BY <1>3, ViewedNext
<1>5. PolicyNow' = [PolicyNow EXCEPT ![c] = @ \cup {Len(frame) + 1}]
  BY <1>4, Viewed
<1>6. WriteNow' = WriteNow
  BY <1>1 DEF WriteNow, Seen
<1> QED BY <1>1, <1>2, <1>5, <1>6 DEF Policy!Bind, PolicyNow, WriteNow, Seen

LEMMA PolicySpawn ==
    ASSUME Framed, Framed', NEW c \in Contexts, NEW d \in Contexts, Spawn(c, d)
    PROVE  Policy!Spawn(c, d, FALSE)
<1>1. /\ c \in begun /\ d \notin begun /\ begun' = begun \cup {d}
      /\ store' = [store EXCEPT ![d] = store[c]] /\ UNCHANGED <<frame, write>>
  BY DEF Spawn
<1>2. ASSUME NEW e \in Contexts
      PROVE  LineOf(frame', store'[e]) = IF e = d THEN Under(c) ELSE Under(e)
  BY <1>1 DEF Framed, Under
<1>3. PolicyNow' = [PolicyNow EXCEPT ![d] = PolicyNow[c] \cup {}]
  <2>1. PolicyNow' = [e \in Contexts |-> IF e = d THEN Under(c) ELSE Under(e)]
    BY <1>2, ViewedNext
  <2> QED BY <2>1, Viewed
<1>4. WriteNow' = WriteNow
  BY <1>1 DEF WriteNow, Seen
<1> QED BY <1>1, <1>3, <1>4 DEF Policy!Spawn, PolicyNow, WriteNow, Seen

LEMMA PolicyRunScoped ==
    ASSUME Framed, Framed', NEW c \in Contexts, NEW d \in Contexts, RunScoped(c, d)
    PROVE  Policy!Spawn(c, d, TRUE)
<1>1. /\ TRUE \in BOOLEAN /\ Len(frame) < setting.bindings /\ UNCHANGED <<setting, write>>
      /\ frame' = Append(frame, NewFrame(c, TRUE))
      /\ c \in begun /\ d \notin begun /\ begun' = begun \cup {d}
      /\ store' = [store EXCEPT ![d] = Len(frame) + 1]
  BY DEF RunScoped, Processwide
<1>2. /\ Len(frame') = Len(frame) + 1
      /\ \A f \in 0..Len(frame) : LineOf(frame', f) = LineOf(frame, f)
      /\ LineOf(frame', Len(frame) + 1) = LineOf(frame, store[c]) \cup {Len(frame) + 1}
  BY <1>1, Adds
<1>3. ASSUME NEW e \in Contexts
      PROVE  LineOf(frame', store'[e]) = IF e = d THEN Under(c) \cup {Len(frame) + 1} ELSE Under(e)
  <2>1. store[e] \in 0..Len(frame) /\ store'[e] = IF e = d THEN Len(frame) + 1 ELSE store[e]
    BY <1>1 DEF Framed
  <2> QED BY <1>2, <2>1 DEF Under
<1>4. PolicyNow' = [PolicyNow EXCEPT ![d] = PolicyNow[c] \cup {Len(frame) + 1}]
  <2>1. PolicyNow' = [e \in Contexts |-> IF e = d THEN Under(c) \cup {Len(frame) + 1} ELSE Under(e)]
    BY <1>3, ViewedNext
  <2> QED BY <2>1, Viewed
<1>5. WriteNow' = WriteNow
  BY <1>1 DEF WriteNow, Seen
<1> QED BY <1>1, <1>2, <1>4, <1>5 DEF Policy!Spawn, PolicyNow, WriteNow, Seen

\* Whoever calls it, and whatever was released before: the binding goes from
\* every context, the one that called it included, and nothing else does.
LEMMA PolicyRelease ==
    ASSUME Framed, Framed', NEW c \in Contexts, NEW f \in DOMAIN frame, Restore(c, f)
    PROVE  f \in 1..Len(frame) /\ Policy!Release(f)
<1> DEFINE q == frame[f].previous
<1>1. /\ UNCHANGED <<setting, begun, write>> /\ frame[f].active
      /\ frame' = [frame EXCEPT ![f].active = FALSE]
      /\ store' = IF store[c] = f THEN [store EXCEPT ![c] = ActiveFrame(q)] ELSE store
  BY DEF Restore, Processwide
<1>2. f \in 1..Len(frame) /\ Tree(frame) /\ Len(frame) \in Nat
  BY Rooted
<1>3. /\ Len(frame') = Len(frame)
      /\ \A g \in 0..Len(frame) : LineOf(frame', g) = LineOf(frame, g) \ {f}
  BY <1>1, <1>2, Releases
<1>4. q \in 0..Len(frame)
  <2>1. q \in 0..(f - 1)
    BY <1>2, TreeTypes
  <2> HIDE DEF q
  <2> QED BY <1>2, <2>1
<1>5. LineOf(frame, f) = LineOf(frame, q) \cup {f}
  BY <1>1, <1>2, Lines
<1> HIDE DEF q
<1>6. ActiveFrame(q) \in 0..Len(frame) /\ LineOf(frame, ActiveFrame(q)) = LineOf(frame, q)
  BY <1>2, <1>4, Names, Tops DEF LineOf
<1>7. ASSUME NEW d \in Contexts PROVE LineOf(frame', store'[d]) = Under(d) \ {f}
  <2>1. store[d] \in 0..Len(frame)
    BY DEF Framed
  <2>2. CASE d = c /\ store[c] = f
    <3>1. store'[d] = ActiveFrame(q)
      BY <1>1, <2>2 DEF Framed
    <3>2. LineOf(frame', store'[d]) = LineOf(frame, q) \ {f}
      BY <1>3, <1>6, <3>1
    <3> QED BY <1>5, <2>2, <3>2 DEF Under
  <2>3. CASE ~(d = c /\ store[c] = f)
    <3>1. store'[d] = store[d]
      BY <1>1, <2>3 DEF Framed
    <3> QED BY <1>3, <2>1, <3>1 DEF Under
  <2> QED BY <2>2, <2>3
<1>8. PolicyNow' = [d \in Contexts |-> PolicyNow[d] \ {f}]
  <2>1. PolicyNow' = [d \in Contexts |-> Under(d) \ {f}]
    BY <1>7, ViewedNext
  <2> QED BY <2>1, Viewed
<1>9. WriteNow' = WriteNow
  BY <1>1 DEF WriteNow, Seen
<1> QED BY <1>1, <1>2, <1>3, <1>8, <1>9 DEF Policy!Release, PolicyNow, WriteNow, Seen

-----------------------------------------------------------------------------
(* The steps of a write.                                                     *)

LEMMA Shown ==
    ASSUME Written, NEW c \in Contexts, NEW w, write' = [write EXCEPT ![c] = w], UNCHANGED Scopes
    PROVE  /\ WriteNow' = [WriteNow EXCEPT ![c] = Seen(w)] /\ WriteNow[c] = Seen(write[c])
           /\ UNCHANGED <<PolicyNow, Len(frame), begun>>
<1>1. WriteNow' = [WriteNow EXCEPT ![c] = Seen(w)] /\ WriteNow[c] = Seen(write[c])
  BY DEF WriteNow, Seen, Written
<1>2. UNCHANGED <<frame, store, begun>>
  BY DEF Scopes
<1>3. PolicyNow' = PolicyNow
  <2>1. \A f : /\ Authorizers(f) = ChainOf(frame, UpOf(frame, f))
               /\ Authorizers(f)' = ChainOf(frame', UpOf(frame', f))
    BY Names DEF Authorizers
  <2>2. \A d \in Contexts : ToSet(Authorizers(store[d]))' = ToSet(Authorizers(store[d]))
    BY <1>2, <2>1
  <2> QED BY <2>2 DEF PolicyNow
<1> QED BY <1>1, <1>2, <1>3

LEMMA PolicyStart ==
    ASSUME Inv, NEW c \in Contexts, StartWrite(c)
    PROVE  Policy!Start(c)
<1> DEFINE left == Authorizers(store[c])
           W(t) == [NoWrite EXCEPT !.pc = "asking", !.left = left, !.chosen = t]
<1>1. PICK t \in Explicit \cup {process} : write' = [write EXCEPT ![c] = W(t)]
  BY DEF StartWrite
<1>2. t \in Transports \cup {Policy!Vfs}
  BY ScopesAssumption DEF Inv, Carried, Policy!Vfs, Vfs
<1>3. c \in begun /\ write[c].pc # "asking" /\ UNCHANGED Scopes /\ Written
  BY DEF StartWrite, Inv
<1>4. Seen(W(t)) = [Policy!NoWrite EXCEPT !.pc = "asking", !.must = PolicyNow[c], !.chosen = t]
  <2>1. PolicyNow[c] = ToSet(left)
    BY DEF PolicyNow
  <2> HIDE DEF left
  <2>2. W(t) = [pc |-> "asking", left |-> left, asked |-> {}, override |-> Nowhere, chosen |-> t]
    <3>1. /\ W(t) \in [pc : {"asking"}, left : {left}, asked : {{}}, override : {Nowhere}, chosen : {t}]
      BY DEF NoWrite
    <3> HIDE DEF W
    <3> QED BY <3>1
  <2> HIDE DEF W
  <2>3. Seen(W(t)) = [pc |-> "asking", must |-> ToSet(left), allowed |-> {},
                      override |-> Nowhere, chosen |-> t]
    BY <2>2 DEF Seen
  <2> DEFINE v == [Policy!NoWrite EXCEPT !.pc = "asking", !.must = PolicyNow[c], !.chosen = t]
  <2>4. v \in [pc : {"asking"}, must : {PolicyNow[c]}, allowed : {{}}, override : {Nowhere}, chosen : {t}]
    BY DEF Policy!NoWrite, Policy!Nowhere, Nowhere
  <2> HIDE DEF v
  <2>5. v = [pc |-> "asking", must |-> PolicyNow[c], allowed |-> {}, override |-> Nowhere, chosen |-> t]
    BY <2>4
  <2> QED BY <2>1, <2>3, <2>5 DEF v
<1> HIDE DEF W
<1>5. /\ WriteNow' = [WriteNow EXCEPT ![c] = Seen(W(t))]
      /\ WriteNow[c].pc # "asking" /\ UNCHANGED <<PolicyNow, Len(frame), begun>>
  <2>1. /\ WriteNow' = [WriteNow EXCEPT ![c] = Seen(W(t))] /\ WriteNow[c] = Seen(write[c])
        /\ UNCHANGED <<PolicyNow, Len(frame), begun>>
    BY <1>1, <1>3, Shown
  <2>2. Seen(write[c]).pc = write[c].pc
    BY DEF Seen
  <2> QED BY <1>3, <2>1, <2>2
<1> QED BY <1>2, <1>3, <1>4, <1>5 DEF Policy!Start, PolicyNow, WriteNow, Seen

LEMMA PolicyDeny ==
    ASSUME Inv, NEW c \in Contexts, Deny(c)
    PROVE  Policy!Ask(c)
<1> DEFINE w == write[c]
           x == [w EXCEPT !.pc = "denied"]
<1>1. /\ w \in Writes /\ w.left # <<>> /\ w.pc = "asking" /\ write' = [write EXCEPT ![c] = x]
      /\ UNCHANGED Scopes /\ Written /\ Ordered(w) /\ setting.bindings \in Nat
  BY DEF Deny, Inv, Written, Framed, Sizes
<1> HIDE DEF w
<1>2. w.asked # w.asked \cup ToSet(w.left)
  <2> DEFINE next == [left |-> Tail(w.left), asked |-> w.asked \cup {Head(w.left)}]
  <2>1. w.left \in Seq(Frames) /\ w.asked \in SUBSET Frames
    BY <1>1 DEF Writes
  <2>2. next.left = Tail(w.left) /\ next.asked = w.asked \cup {Head(w.left)}
    OBVIOUS
  <2> HIDE DEF next
  <2>3. Head(w.left) \in ToSet(w.left) /\ w.asked \cap ToSet(w.left) = {}
    BY <1>1, <2>1, <2>2, Advances
  <2> QED BY <2>3
<1>3. x.pc = "denied" /\ x.left = w.left /\ x.asked = w.asked /\ x.override = w.override /\ x.chosen = w.chosen
  BY <1>1 DEF Writes
<1> HIDE DEF x
<1>4. /\ WriteNow' = [WriteNow EXCEPT ![c] = Seen(x)] /\ WriteNow[c] = Seen(w)
      /\ UNCHANGED <<PolicyNow, Len(frame), begun>>
  BY <1>1, Shown DEF w
<1>5. Seen(x) = [Seen(w) EXCEPT !.pc = "denied"]
  BY <1>3 DEF Seen
<1>6. /\ WriteNow[c].pc = "asking" /\ WriteNow[c].allowed # WriteNow[c].must
      /\ WriteNow' = [WriteNow EXCEPT ![c].pc = "denied"]
  <2>1. Seen(w).pc = "asking" /\ Seen(w).allowed # Seen(w).must
    BY <1>1, <1>2 DEF Seen
  <2>2. WriteNow' = [WriteNow EXCEPT ![c] = [WriteNow[c] EXCEPT !.pc = "denied"]]
    BY <1>4, <1>5
  <2> QED BY <1>4, <2>1, <2>2
<1> QED BY <1>4, <1>6 DEF Policy!Ask, PolicyNow, WriteNow, Seen

LEMMA PolicyAllow ==
    ASSUME Inv, NEW c \in Contexts, Allow(c)
    PROVE  Policy!Ask(c)
<1> DEFINE w == write[c]
           over(t) == IF w.override = Nowhere THEN t ELSE w.override
           W(t) == [w EXCEPT !.left = Tail(w.left), !.asked = w.asked \cup {Head(w.left)},
                             !.override = over(t)]
           b == Policy!Min(Seen(w).must \ Seen(w).allowed)
<1>1. /\ w \in Writes /\ w.left # <<>> /\ w.pc = "asking"
      /\ UNCHANGED Scopes /\ Written /\ Ordered(w) /\ setting.bindings \in Nat
  BY DEF Allow, Inv, Written, Framed, Sizes
<1>2. PICK t \in Transports \cup {Nowhere} : write' = [write EXCEPT ![c] = W(t)]
  BY DEF Allow, Inv, Written
<1> HIDE DEF w, over
<1>3. W(t) = [pc |-> "asking", left |-> Tail(w.left), asked |-> w.asked \cup {Head(w.left)},
              override |-> over(t), chosen |-> w.chosen]
  <2>1. W(t) \in [pc : {"asking"}, left : {Tail(w.left)}, asked : {w.asked \cup {Head(w.left)}},
                  override : {over(t)}, chosen : {w.chosen}]
    BY <1>1 DEF Writes
  <2> HIDE DEF W
  <2> QED BY <2>1
<1> HIDE DEF W
<1>4. /\ w.left \in Seq(Frames) /\ w.asked \in SUBSET Frames /\ w.asked # w.asked \cup ToSet(w.left)
      /\ ToSet(w.left) = {Head(w.left)} \cup ToSet(Tail(w.left))
      /\ Head(w.left) \in ToSet(w.left) /\ \A x \in ToSet(w.left) : Head(w.left) <= x
      /\ (w.asked \cup ToSet(w.left)) \ w.asked = ToSet(w.left) /\ ToSet(w.left) \subseteq Nat
  <2>1. w.left \in Seq(Frames) /\ w.asked \in SUBSET Frames
    BY <1>1 DEF Writes
  <2>2. W(t).left = Tail(w.left) /\ W(t).asked = w.asked \cup {Head(w.left)}
    BY <1>3
  <2>3. /\ ToSet(w.left) = {Head(w.left)} \cup ToSet(Tail(w.left))
        /\ Head(w.left) \in ToSet(w.left) /\ \A x \in ToSet(w.left) : Head(w.left) <= x
        /\ w.asked \cap ToSet(w.left) = {}
    BY <1>1, <2>1, <2>2, Advances
  <2>4. ToSet(w.left) \subseteq Nat
    <3> DEFINE s == w.left
    <3>1. s \in Seq(Frames)
      BY <2>1
    <3> HIDE DEF s
    <3>2. \A i \in DOMAIN s : s[i] \in Frames
      BY <3>1
    <3> QED BY <3>2 DEF ToSet, Frames, s
  <2> QED BY <2>1, <2>3, <2>4
<1>5. b = Head(w.left)
  <2> DEFINE Q == ToSet(w.left)
  <2>1. Seen(w).must \ Seen(w).allowed = Q
    BY <1>4 DEF Seen
  <2>2. Head(w.left) \in Q /\ (\A x \in Q : Head(w.left) <= x) /\ Q \subseteq Nat
    BY <1>4
  <2> HIDE DEF Q
  <2> DEFINE h == Head(w.left)
             m == Policy!Min(Q)
  <2>3. h \in Q /\ \A y \in Q : h <= y
    BY <2>2
  <2> HIDE DEF h
  <2>4. m \in Q /\ \A y \in Q : m <= y
    <3>1. m = CHOOSE x \in Q : \A y \in Q : x <= y
      BY DEF Policy!Min
    <3> HIDE DEF m
    <3> QED BY <2>3, <3>1
  <2> HIDE DEF m
  <2>5. m = h
    <3>1. m <= h /\ h <= m /\ m \in Nat /\ h \in Nat
      BY <2>2, <2>3, <2>4
    <3> QED BY <3>1
  <2> QED BY <2>1, <2>5 DEF h, m
<1>6. Seen(W(t)) = [Seen(w) EXCEPT !.allowed = @ \cup {Head(w.left)},
                                   !.override = IF @ = Policy!Nowhere THEN t ELSE @]
  <2> DEFINE v == [Seen(w) EXCEPT !.allowed = @ \cup {Head(w.left)},
                                  !.override = IF @ = Policy!Nowhere THEN t ELSE @]
  <2>1. Seen(W(t)) = [pc |-> "asking", must |-> w.asked \cup ToSet(w.left),
                      allowed |-> w.asked \cup {Head(w.left)}, override |-> over(t), chosen |-> w.chosen]
    <3>1. (w.asked \cup {Head(w.left)}) \cup ToSet(Tail(w.left)) = w.asked \cup ToSet(w.left)
      BY <1>4
    <3>2. /\ W(t).pc = "asking" /\ W(t).left = Tail(w.left)
          /\ W(t).asked = w.asked \cup {Head(w.left)}
          /\ W(t).override = over(t) /\ W(t).chosen = w.chosen
      BY <1>3
    <3> QED BY <3>1, <3>2 DEF Seen
  <2>2. v \in [pc : {"asking"}, must : {w.asked \cup ToSet(w.left)},
               allowed : {w.asked \cup {Head(w.left)}}, override : {over(t)}, chosen : {w.chosen}]
    BY <1>1 DEF Seen, over, Policy!Nowhere, Nowhere
  <2> HIDE DEF v
  <2>3. v = [pc |-> "asking", must |-> w.asked \cup ToSet(w.left),
             allowed |-> w.asked \cup {Head(w.left)}, override |-> over(t), chosen |-> w.chosen]
    BY <2>2
  <2> QED BY <2>1, <2>3 DEF v
<1>7. /\ WriteNow' = [WriteNow EXCEPT ![c] = Seen(W(t))] /\ WriteNow[c] = Seen(w)
      /\ UNCHANGED <<PolicyNow, Len(frame), begun>>
  BY <1>1, <1>2, Shown DEF w
<1>8. /\ WriteNow[c].pc = "asking" /\ WriteNow[c].allowed # WriteNow[c].must
      /\ t \in Transports \cup {Policy!Nowhere}
  <2>1. Seen(w).pc = "asking" /\ Seen(w).allowed # Seen(w).must
    BY <1>1, <1>4 DEF Seen
  <2> QED BY <1>7, <2>1 DEF Policy!Nowhere, Nowhere
<1>9. \E u \in Transports \cup {Policy!Nowhere} :
         WriteNow' = [WriteNow EXCEPT ![c] = [WriteNow[c] EXCEPT
            !.allowed = @ \cup {Policy!Min(WriteNow[c].must \ WriteNow[c].allowed)},
            !.override = IF @ = Policy!Nowhere THEN u ELSE @]]
  BY <1>5, <1>6, <1>7, <1>8
<1> HIDE DEF b
<1> QED BY <1>7, <1>8, <1>9 DEF Policy!Ask, PolicyNow, WriteNow, Seen

LEMMA PolicySend ==
    ASSUME Inv, NEW c \in Contexts, Send(c)
    PROVE  Policy!Send(c)
<1> DEFINE w == write[c]
           sent == IF w.override = Nowhere THEN w.chosen ELSE w.override
           x == [w EXCEPT !.pc = "sent", !.chosen = sent]
<1>1. /\ w \in Writes /\ w.left = <<>> /\ w.pc = "asking" /\ write' = [write EXCEPT ![c] = x]
      /\ UNCHANGED Scopes /\ Written
  BY DEF Send, Inv, Written
<1> HIDE DEF w, sent
<1>2. x = [pc |-> "sent", left |-> w.left, asked |-> w.asked, override |-> w.override, chosen |-> sent]
  <2>1. x \in [pc : {"sent"}, left : {w.left}, asked : {w.asked}, override : {w.override}, chosen : {sent}]
    BY <1>1 DEF Writes
  <2> HIDE DEF x
  <2> QED BY <2>1
<1> HIDE DEF x
<1>3. /\ WriteNow' = [WriteNow EXCEPT ![c] = Seen(x)] /\ WriteNow[c] = Seen(w)
      /\ UNCHANGED <<PolicyNow, Len(frame), begun>>
  BY <1>1, Shown DEF w
<1>4. Seen(w).pc = "asking" /\ Seen(w).allowed = Seen(w).must
  <2>1. ToSet(w.left) = {}
    BY <1>1 DEF ToSet
  <2> QED BY <1>1, <2>1 DEF Seen
<1>5. Seen(x) = [Seen(w) EXCEPT !.pc = "sent",
                    !.chosen = IF Seen(w).override = Policy!Nowhere THEN @ ELSE Seen(w).override]
  <2> DEFINE v == [Seen(w) EXCEPT !.pc = "sent",
                      !.chosen = IF Seen(w).override = Policy!Nowhere THEN @ ELSE Seen(w).override]
  <2>1. v \in [pc : {"sent"}, must : {w.asked \cup ToSet(w.left)}, allowed : {w.asked},
               override : {w.override}, chosen : {sent}]
    BY DEF Seen, sent, Policy!Nowhere, Nowhere
  <2> HIDE DEF v
  <2>2. v = [pc |-> "sent", must |-> w.asked \cup ToSet(w.left), allowed |-> w.asked,
             override |-> w.override, chosen |-> sent]
    BY <2>1
  <2> QED BY <1>2, <2>2 DEF Seen, v
<1> QED BY <1>3, <1>4, <1>5 DEF Policy!Send, PolicyNow, WriteNow, Seen

\* What no context and no write is concerned by is not seen.
LEMMA PolicyStutter ==
    ASSUME UNCHANGED <<store, frame, begun, write>>
    PROVE  UNCHANGED PolicyVars
<1>1. \A f : /\ Authorizers(f) = ChainOf(frame, UpOf(frame, f))
             /\ Authorizers(f)' = ChainOf(frame', UpOf(frame', f))
  BY Names DEF Authorizers
<1>2. \A d \in Contexts : ToSet(Authorizers(store[d]))' = ToSet(Authorizers(store[d]))
  BY <1>1
<1>3. PolicyNow' = PolicyNow
  BY <1>2 DEF PolicyNow
<1>4. WriteNow' = WriteNow
  BY DEF WriteNow, Seen
<1> QED BY <1>3, <1>4 DEF PolicyVars

LEMMA PolicyStep ==
    ASSUME Inv, Inv', [Next]_vars
    PROVE  Policy!Next \/ UNCHANGED PolicyVars
<1>1. Framed /\ Framed'
  BY DEF Inv
<1>2. CASE UNCHANGED vars
  BY <1>2, PolicyStutter DEF vars
<1>3. CASE \E c \in Contexts : Bind(c) \/ StartWrite(c) \/ Deny(c) \/ Allow(c) \/ Send(c)
  <2>1. \E c \in Contexts : Policy!Bind(c) \/ Policy!Start(c) \/ Policy!Ask(c) \/ Policy!Send(c)
    BY <1>1, <1>3, PolicyBind, PolicyStart, PolicyDeny, PolicyAllow, PolicySend
  <2> QED BY <2>1 DEF Policy!Next
<1>4. CASE \E c \in Contexts, f \in DOMAIN frame : Restore(c, f)
  <2>1. \E f \in 1..Len(frame) : Policy!Release(f)
    BY <1>1, <1>4, PolicyRelease
  <2> QED BY <2>1 DEF Policy!Next
<1>5. CASE \E c, d \in Contexts : Spawn(c, d) \/ RunScoped(c, d)
  <2>1. \E c, d \in Contexts, scoped \in BOOLEAN : Policy!Spawn(c, d, scoped)
    BY <1>1, <1>5, PolicySpawn, PolicyRunScoped
  <2> QED BY <2>1 DEF Policy!Next
<1>6. CASE \E t \in Transports : BindTransport(t)
  BY <1>6, PolicyStutter DEF BindTransport, Scopes
<1>7. CASE \E i \in DOMAIN bound : RestoreTransport(i)
  BY <1>7, PolicyStutter DEF RestoreTransport, Scopes
<1> QED BY <1>2, <1>3, <1>4, <1>5, <1>6, <1>7 DEF Next

\* Frames, restore callbacks in any order and writes that ask one authorizer
\* after another do what the policy of sets says, for any number of contexts
\* and bindings: a denial denies, a released binding is asked by no later
\* write and comes back in none, no context sees another's bindings, and a
\* write asks those it began under from the outermost to the innermost.
THEOREM ImplementsPolicy == Spec => RefinesPolicy
<1> DEFINE seen == <<[c \in Contexts |-> ToSet(Authorizers(store[c]))], Len(frame), begun,
                     [c \in Contexts |->
                        [pc |-> write[c].pc, must |-> write[c].asked \cup ToSet(write[c].left),
                         allowed |-> write[c].asked, override |-> write[c].override,
                         chosen |-> write[c].chosen]]>>
<1>1. Inv /\ Inv' /\ [Next]_vars => [Policy!Next]_seen
  <2>1. seen = PolicyVars /\ seen' = PolicyVars'
    BY DEF PolicyVars, PolicyNow, WriteNow, Seen
  <2> HIDE DEF seen
  <2> QED BY <2>1, PolicyStep
<1> QED BY <1>1, PolicyInit, Invariant, PTL DEF Spec, RefinesPolicy, Policy!Spec
=============================================================================

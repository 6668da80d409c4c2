--------------------------- MODULE FrontEndProofs ---------------------------
(***************************************************************************)
(* Proofs about FrontEnd, for any config file and any requests: Parse      *)
(* keeps every character of the file in its tree; what is proved of the    *)
(* Dispatcher and of the request parser alone holds when they are fed by   *)
(* ExtractLocation and by the session; and from the one text and the other *)
(* a request gets the handler that is due to it.                           *)
(***************************************************************************)
EXTENDS FrontEnd, RequestProofs

(***************************************************************************)
(* Numbers and sequences.                                                  *)
(***************************************************************************)

\* To append after a sequence is to append to the whole.
AppendedLast(S) == \A p, q \in Seq(S) : \A x \in S : Append(p \o q, x) = p \o Append(q, x)

\* It is, in every sequence.
LEMMA ConcatAppend == \A S : AppendedLast(S)
<1> SUFFICES ASSUME NEW S, NEW p \in Seq(S), NEW q \in Seq(S), NEW x \in S
             PROVE  Append(p \o q, x) = p \o Append(q, x)
  BY DEF AppendedLast
<1>1. q \o <<x>> = Append(q, x) /\ <<x>> \in Seq(S)
  BY AppendIsConcat
<1>2. p \o q \in Seq(S)
  BY ConcatProperties
<1>3. Append(p \o q, x) = (p \o q) \o <<x>>
  BY <1>2, AppendIsConcat
<1>4. (p \o q) \o <<x>> = p \o (q \o <<x>>)
  BY ONLY <1>1, ConcatAssociative, p \in Seq(S), q \in Seq(S)
<1> QED
  BY <1>1, <1>3, <1>4

\* As a predicate, for terms in which the provers do not see the sequences.
GroupsAlike(p, q, r) == (p \o q) \o r = p \o (q \o r)

\* Of any three texts.
LEMMA TextsGroup ==
    ASSUME NEW p \in Seq(Int), NEW q \in Seq(Int), NEW r \in Seq(Int)
    PROVE  GroupsAlike(p, q, r)
BY TextGroups DEF GroupsAlike

\* The same of a longer text.
LEMMA TextAppend ==
    \A p, q \in Seq(Int) : \A x \in Int : Append(p \o q, x) = p \o Append(q, x)
<1>1. AppendedLast(Int)
  BY ConcatAppend
<1> QED
  BY <1>1 DEF AppendedLast

(***************************************************************************)
(* What is picked out of a text.                                           *)
(***************************************************************************)

\* f goes through s and picks the elements at the positions in S.
Picks(f, s, S, l) ==
    f = [n \in 0 .. l |-> IF n = 0 THEN <<>>
                          ELSE IF n \in S THEN Append(f[n - 1], s[n]) ELSE f[n - 1]]

\* There is such a function.
LEMMA PicksExist ==
    ASSUME NEW s, NEW S, NEW l \in Nat
    PROVE  \E f : Picks(f, s, S, l)
<1> DEFINE B == {n \in Nat : ~ \E f : Picks(f, s, S, n)}
<1> SUFFICES ASSUME B # {} PROVE FALSE
  OBVIOUS
<1>1. PICK n \in B : \A m \in B : n <= m
  <2>1. B \in SUBSET Nat
    OBVIOUS
  <2> HIDE DEF B
  <2> QED
    BY <2>1, LeastPosition
<1>2. n # 0
  <2> DEFINE g == [k \in 0 .. 0 |-> <<>>]
  <2>1. g = [k \in 0 .. 0 |-> IF k = 0 THEN <<>>
                               ELSE IF k \in S THEN Append(g[k - 1], s[k]) ELSE g[k - 1]]
    OBVIOUS
  <2> HIDE DEF g
  <2>2. Picks(g, s, S, 0)
    BY <2>1 DEF Picks
  <2> QED
    BY <2>2
<1>3. n - 1 \in Nat /\ ~ (n <= n - 1)
  BY <1>2
<1>4. PICK g : Picks(g, s, S, n - 1)
  BY <1>1, <1>3
<1> DEFINE x == IF n \in S THEN Append(g[n - 1], s[n]) ELSE g[n - 1]
           h == [k \in 0 .. n |-> IF k = n THEN x ELSE g[k]]
<1>5. ASSUME NEW k \in 0 .. n
      PROVE  h[k] = IF k = 0 THEN <<>>
                    ELSE IF k \in S THEN Append(h[k - 1], s[k]) ELSE h[k - 1]
  <2>1. CASE k = n
    <3>1. h[n] = x /\ h[n - 1] = g[n - 1]
      BY <1>2
    <3> QED
      BY <2>1, <3>1, <1>2
  <2>2. CASE k # n
    <3>1. k \in 0 .. n - 1 /\ h[k] = g[k]
      BY <2>2
    <3>2. g[k] = IF k = 0 THEN <<>>
                 ELSE IF k \in S THEN Append(g[k - 1], s[k]) ELSE g[k - 1]
      BY <1>4, <3>1 DEF Picks
    <3>3. k # 0 => h[k - 1] = g[k - 1]
      BY <2>2
    <3> QED
      BY <3>1, <3>2, <3>3
  <2> QED
    BY <2>1, <2>2
<1>6. h = [k \in 0 .. n |-> h[k]]
  OBVIOUS
<1> HIDE DEF h
<1>7. Picks(h, s, S, n)
  BY <1>5, <1>6 DEF Picks
<1> QED
  BY <1>7

\* Picked is the end of it.
LEMMA PickedIs ==
    ASSUME NEW s \in Seq(Int), NEW S
    PROVE  \E f : Picks(f, s, S, Len(s)) /\ Picked(s, S) = f[Len(s)]
<1>1. Len(s) \in Nat
  OBVIOUS
<1>2. \E f : Picks(f, s, S, Len(s))
  BY <1>1, PicksExist
<1> DEFINE f == CHOOSE f : Picks(f, s, S, Len(s))
<1>3. Picks(f, s, S, Len(s))
  BY <1>2
<1>4. Picked(s, S) = f[Len(s)]
  BY DEF Picked, Picks
<1> QED
  BY <1>3, <1>4

\* Step by step.
LEMMA PicksStep ==
    ASSUME NEW f, NEW s, NEW S, NEW l \in Nat, Picks(f, s, S, l)
    PROVE  /\ f[0] = <<>>
           /\ \A n \in 1 .. l :
                f[n] = IF n \in S THEN Append(f[n - 1], s[n]) ELSE f[n - 1]
<1>1. \A n \in 0 .. l : f[n] = IF n = 0 THEN <<>>
                               ELSE IF n \in S THEN Append(f[n - 1], s[n]) ELSE f[n - 1]
  BY DEF Picks
<1> QED
  BY <1>1

\* What is picked is a text, of no more characters than there were.
LEMMA PicksTexts ==
    ASSUME NEW f, NEW s \in Seq(Int), NEW S, NEW l \in Nat, l <= Len(s), Picks(f, s, S, l),
           NEW n \in 0 .. l
    PROVE  f[n] \in Seq(Int)
<1> DEFINE B == {k \in 0 .. l : f[k] \notin Seq(Int)}
<1> SUFFICES ASSUME B # {} PROVE FALSE
  OBVIOUS
<1>1. PICK k \in B : \A m \in B : k <= m
  <2>1. B \in SUBSET Nat
    OBVIOUS
  <2> HIDE DEF B
  <2> QED
    BY <2>1, LeastPosition
<1>2. f[0] \in Seq(Int)
  <2>1. f[0] = <<>>
    BY PicksStep
  <2> QED
    BY ONLY <2>1
<1>3. k \in 1 .. l /\ k - 1 \in 0 .. l /\ ~(k <= k - 1) /\ k \in 1 .. Len(s)
  BY <1>1, <1>2
<1>4. f[k - 1] \in Seq(Int) /\ s[k] \in Int
  BY <1>1, <1>3
<1>5. f[k] = IF k \in S THEN Append(f[k - 1], s[k]) ELSE f[k - 1]
  BY <1>3, PicksStep
<1>6. f[k] \in Seq(Int)
  BY ONLY <1>4, <1>5
<1> QED
  BY <1>1, <1>6

\* Two of them that pick alike up to l are alike up to there.
LEMMA PicksAgree ==
    ASSUME NEW f, NEW g, NEW s, NEW t, NEW S, NEW T, NEW l \in Nat, NEW m \in Nat, NEW n \in Nat,
           l <= m, l <= n, Picks(f, s, S, m), Picks(g, t, T, n),
           \A k \in 1 .. l : s[k] = t[k] /\ (k \in S <=> k \in T)
    PROVE  f[l] = g[l]
<1> DEFINE B == {k \in 0 .. l : f[k] # g[k]}
<1> SUFFICES ASSUME B # {} PROVE FALSE
  OBVIOUS
<1>1. PICK k \in B : \A j \in B : k <= j
  <2>1. B \in SUBSET Nat
    OBVIOUS
  <2> HIDE DEF B
  <2> QED
    BY <2>1, LeastPosition
<1>2. f[0] = g[0]
  BY PicksStep
<1>3. k \in 1 .. l /\ k - 1 \in 0 .. l /\ ~(k <= k - 1) /\ k \in 1 .. m /\ k \in 1 .. n
  BY <1>1, <1>2
<1>4. f[k - 1] = g[k - 1]
  BY <1>1, <1>3
<1>5. f[k] = IF k \in S THEN Append(f[k - 1], s[k]) ELSE f[k - 1]
  BY <1>3, PicksStep
<1>6. g[k] = IF k \in T THEN Append(g[k - 1], t[k]) ELSE g[k - 1]
  BY <1>3, PicksStep
<1>7. s[k] = t[k] /\ (k \in S <=> k \in T)
  BY <1>3
<1> QED
  BY <1>1, <1>4, <1>5, <1>6, <1>7

\* What is picked out of a text is a text.
LEMMA PickedTypes ==
    ASSUME NEW s \in Seq(Int), NEW S
    PROVE  Picked(s, S) \in Seq(Int)
<1>1. PICK f : Picks(f, s, S, Len(s)) /\ Picked(s, S) = f[Len(s)]
  BY PickedIs
<1>2. Len(s) \in Nat /\ Len(s) <= Len(s) /\ Len(s) \in 0 .. Len(s)
  OBVIOUS
<1>3. f[Len(s)] \in Seq(Int)
  BY ONLY <1>1, <1>2, PicksTexts, s \in Seq(Int)
<1> QED
  BY <1>1, <1>3

(***************************************************************************)
(* The characters that are no blanks.                                      *)
(***************************************************************************)

\* u goes through t and keeps what is no blank.
Blackens(u, t) == Picks(u, t, {i \in DOMAIN t : t[i] \notin Spaces}, Len(t))

\* A text has such a function, and Black is its end.
LEMMA BlackIs ==
    ASSUME NEW t \in Seq(Int)
    PROVE  \E u : Blackens(u, t) /\ Black(t) = u[Len(t)]
BY PickedIs DEF Blackens, Black

\* Character by character.
LEMMA BlackensStep ==
    ASSUME NEW t \in Seq(Int), NEW u, Blackens(u, t)
    PROVE  /\ u[0] = <<>>
           /\ \A n \in 1 .. Len(t) :
                /\ t[n] \in Spaces => u[n] = u[n - 1]
                /\ t[n] \notin Spaces => u[n] = Append(u[n - 1], t[n])
           /\ \A n \in 0 .. Len(t) : u[n] \in Seq(Int)
<1> DEFINE S == {i \in DOMAIN t : t[i] \notin Spaces}
<1>1. Picks(u, t, S, Len(t))
  BY DEF Blackens
<1>2. Len(t) \in Nat /\ \A n \in 1 .. Len(t) : n \in S <=> t[n] \notin Spaces
  OBVIOUS
<1> HIDE DEF S
<1>3. /\ u[0] = <<>>
      /\ \A n \in 1 .. Len(t) :
           u[n] = IF n \in S THEN Append(u[n - 1], t[n]) ELSE u[n - 1]
  BY ONLY <1>1, <1>2, PicksStep
<1>4. \A n \in 0 .. Len(t) : u[n] \in Seq(Int)
  <2>1. Len(t) <= Len(t)
    BY ONLY <1>2
  <2> QED
    BY ONLY <1>1, <1>2, <2>1, PicksTexts, t \in Seq(Int)
<1> QED
  BY <1>2, <1>3, <1>4

\* Black of a text is a text.
LEMMA BlackTypes == ASSUME NEW t \in Seq(Int) PROVE Black(t) \in Seq(Int)
BY PickedTypes DEF Black

\* An empty text has none.
LEMMA BlackEmpty == Black(<<>>) = <<>>
<1>1. <<>> \in Seq(Int) /\ Len(<<>>) = 0
  OBVIOUS
<1>2. PICK u : Blackens(u, <<>>) /\ Black(<<>>) = u[Len(<<>>)]
  BY ONLY <1>1, BlackIs
<1>3. u[0] = <<>>
  BY ONLY <1>1, <1>2, BlackensStep
<1> QED
  BY <1>1, <1>2, <1>3

\* One character more.
LEMMA BlackAppend ==
    ASSUME NEW t \in Seq(Int), NEW x \in Int
    PROVE  Black(Append(t, x)) = IF x \in Spaces THEN Black(t) ELSE Append(Black(t), x)
<1> DEFINE v == Append(t, x)
           S == {i \in DOMAIN t : t[i] \notin Spaces}
           T == {i \in DOMAIN v : v[i] \notin Spaces}
           n == Len(t)
<1>1. /\ v \in Seq(Int) /\ n \in Nat /\ Len(v) = n + 1 /\ v[n + 1] = x
      /\ \A k \in 1 .. n : v[k] = t[k]
      /\ \A k \in 1 .. n : k \in S <=> k \in T
  OBVIOUS
<1>2. PICK u : Blackens(u, t) /\ Black(t) = u[n]
  BY BlackIs
<1>3. PICK w : Blackens(w, v) /\ Black(v) = w[Len(v)]
  BY ONLY <1>1, BlackIs
<1>4. Picks(u, t, S, n) /\ Picks(w, v, T, Len(v))
  BY <1>2, <1>3 DEF Blackens
<1>5. n = Len(t)
  OBVIOUS
<1> HIDE DEF v, S, T, n
<1>6. w[n] = u[n]
  <2>1. n <= n /\ n <= Len(v) /\ Len(v) \in Nat
    BY ONLY <1>1
  <2>2. \A k \in 1 .. n : v[k] = t[k] /\ (k \in T <=> k \in S)
    BY ONLY <1>1
  <2> QED
    BY ONLY <1>1, <1>4, <2>1, <2>2, PicksAgree
<1>7. n + 1 \in 1 .. Len(v) /\ (n + 1) - 1 = n
  BY ONLY <1>1
<1>8. /\ v[n + 1] \in Spaces => w[n + 1] = w[(n + 1) - 1]
      /\ v[n + 1] \notin Spaces => w[n + 1] = Append(w[(n + 1) - 1], v[n + 1])
  BY ONLY <1>1, <1>3, <1>7, BlackensStep
<1>9. Black(v) = IF x \in Spaces THEN Black(t) ELSE Append(Black(t), x)
  BY ONLY <1>1, <1>2, <1>3, <1>6, <1>7, <1>8
<1> QED
  BY <1>9 DEF v

\* Blanks add nothing.
LEMMA BlanksSkipped ==
    ASSUME NEW t \in Seq(Int), NEW u, Blackens(u, t), NEW a \in Nat, NEW b \in Nat,
           a <= b, b <= Len(t), \A k \in a + 1 .. b : t[k] \in Spaces
    PROVE  u[b] = u[a]
<1> DEFINE B == {k \in a .. b : u[k] # u[a]}
<1> SUFFICES ASSUME B # {} PROVE FALSE
  OBVIOUS
<1>1. PICK k \in B : \A m \in B : k <= m
  <2>1. B \in SUBSET Nat
    OBVIOUS
  <2> HIDE DEF B
  <2> QED
    BY <2>1, LeastPosition
<1>2. Len(t) \in Nat /\ k \in a + 1 .. b /\ k - 1 \in a .. b /\ ~(k <= k - 1)
      /\ k \in 1 .. Len(t)
  BY <1>1
<1>3. u[k - 1] = u[a]
  BY <1>1, <1>2
<1>4. u[k] = u[k - 1]
  BY <1>2, BlackensStep
<1> QED
  BY <1>1, <1>3, <1>4

\* What is read from b to e adds its characters.
LEMMA PartAdds ==
    ASSUME NEW t \in Seq(Int), NEW u, Blackens(u, t), NEW b \in 1 .. Len(t) + 1, NEW e \in Nat,
           b - 1 <= e, e <= Len(t)
    PROVE  /\ SubSeq(t, b, e) \in Seq(Int)
           /\ u[e] = u[b - 1] \o Black(SubSeq(t, b, e))
<1> DEFINE Good(n) == /\ SubSeq(t, b, n) \in Seq(Int)
                      /\ u[n] = u[b - 1] \o Black(SubSeq(t, b, n))
           B == {n \in b - 1 .. e : ~Good(n)}
<1> SUFFICES ASSUME B # {} PROVE FALSE
  <2>1. e \in b - 1 .. e
    OBVIOUS
  <2> QED
    BY <2>1
<1>0. b \in Nat /\ b - 1 \in Nat /\ Len(t) \in Nat
  OBVIOUS
<1> HIDE DEF Good
<1>1. PICK k \in B : \A m \in B : k <= m
  <2>1. B \in SUBSET Nat
    BY <1>0
  <2> HIDE DEF B
  <2> QED
    BY <2>1, LeastPosition
<1>2. /\ Len(t) \in Nat /\ b - 1 \in 0 .. Len(t) /\ k \in b - 1 .. e /\ k \in Nat /\ b \in Nat
      /\ ~Good(k)
  BY <1>0, <1>1
<1>3. CASE k = b - 1
  <2>1. SubSeq(t, b, b - 1) = <<>>
    BY <1>2, SubSeqEmpty
  <2>2. u[b - 1] \in Seq(Int)
    BY <1>2, BlackensStep
  <2>3. u[b - 1] = u[b - 1] \o <<>>
    BY ONLY <2>2
  <2>4. <<>> \in Seq(Int)
    OBVIOUS
  <2> QED
    BY <1>2, <1>3, <2>1, <2>3, <2>4, BlackEmpty DEF Good
<1>4. CASE k # b - 1
  <2>1. /\ k - 1 \in b - 1 .. e /\ ~(k <= k - 1) /\ k \in 1 .. Len(t) /\ k \in b .. Len(t)
        /\ k - 1 \in 0 .. Len(t)
    BY <1>2, <1>4
  <2>2. Good(k - 1)
    BY <1>1, <2>1
  <2> DEFINE v == SubSeq(t, b, k - 1)
             w == SubSeq(t, b, k)
             x == t[k]
  <2>3. v \in Seq(Int) /\ u[k - 1] = u[b - 1] \o Black(v) /\ x \in Int
    BY <2>1, <2>2 DEF Good
  <2>4. w = Append(v, x)
    <3>1. \A j \in b .. k : t[j] \in Int
      BY <1>2, <2>1
    <3>2. \A j \in b .. k - 1 : t[j] \in Int
      BY <1>2, <3>1
    <3>3. b \in Int /\ k \in Int /\ k - 1 \in Int
      BY <1>2
    <3>4. /\ w \in Seq(Int) /\ Len(w) = IF b <= k THEN k - b + 1 ELSE 0
          /\ \A i \in 1 .. k - b + 1 : w[i] = t[b + i - 1]
      BY ONLY <3>1, <3>3, SubSeqProperties
    <3> DEFINE l == k - 1
    <3>5. /\ v \in Seq(Int) /\ Len(v) = IF b <= l THEN l - b + 1 ELSE 0
          /\ \A i \in 1 .. l - b + 1 : v[i] = t[b + i - 1]
      <4>1. l \in Int /\ \A j \in b .. l : t[j] \in Int
        BY ONLY <3>2, <3>3
      <4> HIDE DEF l
      <4>2. /\ SubSeq(t, b, l) \in Seq(Int)
            /\ Len(SubSeq(t, b, l)) = IF b <= l THEN l - b + 1 ELSE 0
            /\ \A i \in 1 .. l - b + 1 : SubSeq(t, b, l)[i] = t[b + i - 1]
        BY ONLY <3>3, <4>1, SubSeqProperties
      <4> QED
        BY <4>2 DEF l
    <3> HIDE DEF v, w, x
    <3>6. /\ Len(w) = k - b + 1 /\ Len(v) = k - b /\ k - b \in Nat
          /\ k - b + 1 \in 1 .. k - b + 1 /\ b + (k - b + 1) - 1 = k
      <4>1. /\ b <= k /\ k - 1 - b + 1 = k - b /\ k - b \in Nat
            /\ k - b + 1 \in 1 .. k - b + 1 /\ b + (k - b + 1) - 1 = k
            /\ ~(b <= k - 1) => k - b = 0
        BY ONLY <1>2, <2>1, <3>3
      <4> QED
        BY ONLY <3>4, <3>5, <4>1
    <3>7. w[k - b + 1] = x
      BY ONLY <3>4, <3>6 DEF x
    <3>8. \A i \in 1 .. k - b : w[i] = v[i]
      BY ONLY <1>2, <2>1, <3>3, <3>4, <3>5, <3>6
    <3> DEFINE d == k - b
    <3>9. /\ Append(v, x) \in Seq(Int) /\ Len(Append(v, x)) = d + 1
          /\ \A i \in 1 .. d : Append(v, x)[i] = v[i]
          /\ Append(v, x)[d + 1] = x
      <4>1. v \in Seq(Int) /\ x \in Int /\ Len(v) = d
        BY <2>3, <3>6
      <4> HIDE DEF d
      <4> QED
        BY ONLY <4>1, AppendProperties
    <3>10. \A i \in 1 .. k - b + 1 : w[i] = Append(v, x)[i]
      BY ONLY <3>6, <3>7, <3>8, <3>9
    <3> QED
      BY ONLY <3>4, <3>6, <3>9, <3>10, SeqEqual
  <2>5. /\ x \in Spaces => u[k] = u[k - 1]
        /\ x \notin Spaces => u[k] = Append(u[k - 1], x)
    BY <2>1, BlackensStep
  <2>6. Black(w) = IF x \in Spaces THEN Black(v) ELSE Append(Black(v), x)
    BY <2>3, <2>4, BlackAppend
  <2>7. u[b - 1] \in Seq(Int) /\ Black(v) \in Seq(Int)
    BY <1>2, <2>3, BlackensStep, BlackTypes
  <2> HIDE DEF v, w, x
  <2>8. u[k] = u[b - 1] \o Black(w)
    <3> DEFINE p == u[b - 1]
               q == Black(v)
    <3>1. Append(p \o q, x) = p \o Append(q, x)
      <4>1. p \in Seq(Int) /\ q \in Seq(Int) /\ x \in Int
        BY <2>3, <2>7
      <4> HIDE DEF p, q
      <4> QED
        BY ONLY <4>1, TextAppend
    <3> QED
      BY <2>3, <2>5, <2>6, <3>1
  <2>9. w \in Seq(Int)
    BY <2>3, <2>4
  <2>10. Good(k)
    BY <2>8, <2>9 DEF w, Good
  <2> QED
    BY <1>2, <2>10
<1> QED
  BY <1>3, <1>4

\* A part of a text, one character longer.
LEMMA PartLonger ==
    ASSUME NEW t \in Seq(Int), NEW b \in 1 .. Len(t), NEW n \in b .. Len(t)
    PROVE  /\ SubSeq(t, b, n - 1) \in Seq(Int)
           /\ SubSeq(t, b, n) = Append(SubSeq(t, b, n - 1), t[n])
<1> DEFINE l == n - 1
<1>1. /\ b \in Int /\ n \in Int /\ l \in Int /\ Len(t) \in Nat
      /\ \A i \in b .. l : i \in 1 .. Len(t)
      /\ n \in 1 .. Len(t)
  OBVIOUS
<1>2. \A i \in b .. l : t[i] \in Int
  BY <1>1, ElementOfSeq
<1>3. SubSeq(t, b, n) = SubSeq(t, b, n - 1) \o <<t[n]>>
  BY SubSeqRecursiveSecond
<1>4. SubSeq(t, b, l) \in Seq(Int)
  <2> HIDE DEF l
  <2> QED
    BY ONLY <1>1, <1>2, SubSeqProperties
<1> DEFINE v == SubSeq(t, b, l)
           x == t[n]
<1>5. v \in Seq(Int) /\ x \in Int
  BY <1>1, <1>4
<1> HIDE DEF v, x
<1>6. Append(v, x) = v \o <<x>>
  BY ONLY <1>5, AppendIsConcat
<1> QED
  BY <1>3, <1>4, <1>6 DEF v, x

\* To pick every character from b to e is to take the part.
LEMMA PickedPart ==
    ASSUME NEW t \in Seq(Int), NEW b \in 1 .. Len(t), NEW e \in b .. Len(t)
    PROVE  Picked(t, b .. e) = SubSeq(t, b, e)
<1>1. PICK f : Picks(f, t, b .. e, Len(t)) /\ Picked(t, b .. e) = f[Len(t)]
  BY PickedIs
<1> DEFINE Good(n) == f[n] = IF n < b THEN <<>>
                             ELSE IF n <= e THEN SubSeq(t, b, n) ELSE SubSeq(t, b, e)
           B == {n \in 0 .. Len(t) : ~Good(n)}
<1>2. Len(t) \in Nat /\ Len(t) \in 0 .. Len(t)
  OBVIOUS
<1>3. ASSUME B # {} PROVE FALSE
  <2> HIDE DEF Good
  <2>1. PICK k \in B : \A m \in B : k <= m
    <3>1. B \in SUBSET Nat /\ B # {}
      BY <1>3
    <3> HIDE DEF B
    <3> QED
      BY <3>1, LeastPosition
  <2>2. f[0] = <<>>
    BY <1>1, <1>2, PicksStep
  <2>3. Good(0)
    BY <2>2 DEF Good
  <2>4. k \in 1 .. Len(t) /\ k - 1 \in 0 .. Len(t) /\ ~(k <= k - 1) /\ ~Good(k) /\ k \in Nat
    BY <2>1, <2>3
  <2>5. Good(k - 1)
    BY <2>1, <2>4
  <2>6. f[k] = IF k \in b .. e THEN Append(f[k - 1], t[k]) ELSE f[k - 1]
    BY <1>1, <1>2, <2>4, PicksStep
  <2>7. CASE k < b
    <3>1. k \notin b .. e /\ k - 1 < b
      BY <2>4, <2>7
    <3>2. f[k] = <<>>
      BY <2>5, <2>6, <3>1 DEF Good
    <3> QED
      BY <2>4, <2>7, <3>2 DEF Good
  <2>8. CASE k = b
    <3>1. k \in b .. e /\ k - 1 < b /\ ~(k < b) /\ k <= e
      BY <2>4, <2>8
    <3>2. f[k - 1] = <<>>
      BY <2>5, <3>1 DEF Good
    <3>3. SubSeq(t, b, b - 1) = <<>>
      BY SubSeqEmpty
    <3>4. SubSeq(t, b, b) = Append(SubSeq(t, b, b - 1), t[b])
      BY PartLonger
    <3>5. f[k] = SubSeq(t, b, k)
      BY <2>6, <2>8, <3>1, <3>2, <3>3, <3>4
    <3> QED
      BY <2>4, <3>1, <3>5 DEF Good
  <2>9. CASE k > b /\ k <= e
    <3>1. k \in b .. e /\ ~(k - 1 < b) /\ k - 1 <= e /\ ~(k < b) /\ k \in b .. Len(t)
      BY <2>4, <2>9
    <3>2. f[k - 1] = SubSeq(t, b, k - 1)
      BY <2>5, <3>1 DEF Good
    <3>3. SubSeq(t, b, k) = Append(SubSeq(t, b, k - 1), t[k])
      BY <3>1, PartLonger
    <3>4. f[k] = SubSeq(t, b, k)
      BY <2>6, <3>1, <3>2, <3>3
    <3> QED
      BY <2>4, <2>9, <3>1, <3>4 DEF Good
  <2>10. CASE k > e
    <3>1. /\ k \notin b .. e /\ ~(k - 1 < b) /\ ~(k < b) /\ ~(k <= e)
          /\ (k - 1 <= e => k - 1 = e)
      BY <2>4, <2>10
    <3>2. f[k - 1] = SubSeq(t, b, e)
      BY <2>5, <3>1 DEF Good
    <3> QED
      BY <2>4, <2>6, <3>1, <3>2 DEF Good
  <2>11. k < b \/ k = b \/ (k > b /\ k <= e) \/ k > e
    BY <2>4
  <2> QED
    BY <2>7, <2>8, <2>9, <2>10, <2>11
<1>4. Good(Len(t))
  BY <1>2, <1>3
<1>5. ~(Len(t) < b) /\ (Len(t) <= e => Len(t) = e)
  BY <1>2
<1>6. f[Len(t)] = SubSeq(t, b, e)
  BY <1>4, <1>5
<1> QED
  BY <1>1, <1>6

(***************************************************************************)
(* The next token.                                                         *)
(***************************************************************************)

\* What FindNot returns: from i up to there, the characters are in S.
LEMMA FindNotIs ==
    ASSUME NEW t \in Seq(Int), NEW i \in 1 .. Len(t) + 1, NEW S
    PROVE  /\ FindNot(t, i, S) \in i .. Len(t) + 1
           /\ \A k \in i .. FindNot(t, i, S) - 1 : t[k] \in S
           /\ FindNot(t, i, S) <= Len(t) => t[FindNot(t, i, S)] \notin S
<1> DEFINE F == {j \in i .. Len(t) : t[j] \notin S}
<1>1. Len(t) \in Nat /\ i \in Nat
  OBVIOUS
<1>2. CASE F = {}
  <2>1. FindNot(t, i, S) = Len(t) + 1
    BY <1>2 DEF FindNot
  <2>2. Len(t) + 1 \in i .. Len(t) + 1 /\ ~(Len(t) + 1 <= Len(t))
        /\ \A k \in i .. (Len(t) + 1) - 1 : k \in i .. Len(t)
    BY <1>1
  <2> QED
    BY <1>2, <2>1, <2>2
<1>3. CASE F # {}
  <2>1. F \in SUBSET Nat
    BY <1>1
  <2>2. PICK m \in F : \A n \in F : m <= n
    <3> HIDE DEF F
    <3> QED
      BY <1>3, <2>1, LeastPosition
  <2>3. m \in i .. Len(t) /\ t[m] \notin S /\ \A k \in i .. m - 1 : t[k] \in S
    BY <1>1, <2>2
  <2>4. FindNot(t, i, S) = CHOOSE j \in i .. Len(t) :
                             t[j] \notin S /\ \A k \in i .. j - 1 : t[k] \in S
    BY <1>3 DEF FindNot
  <2>5. /\ FindNot(t, i, S) \in i .. Len(t)
        /\ t[FindNot(t, i, S)] \notin S
        /\ \A k \in i .. FindNot(t, i, S) - 1 : t[k] \in S
    BY <2>3, <2>4
  <2>6. \A j \in i .. Len(t) : j \in i .. Len(t) + 1
    BY <1>1
  <2> QED
    BY <2>5, <2>6
<1> QED
  BY <1>2, <1>3

\* A text that NothingLost is about.
PlainText == /\ text \in Seq(Int)
             /\ \A i \in DOMAIN text : text[i] \notin {Hash, Backslash}
             /\ CharAt(text, Len(text)) \in WordEnds

\* The token takes the characters from i on up to where the next one starts.
Takes(u, i, token) ==
    /\ token.type # "COMMENT"
    /\ token.type = "EOF" => u[Len(text)] = u[i - 1]
    /\ token.type \in {"NORMAL", "STATEMENT_END", "START_BLOCK", "END_BLOCK"}
         => token.next \in 1 .. Len(text) + 1
    /\ token.type = "NORMAL" => /\ token.value \in Seq(Int)
                                /\ u[token.next - 1] = u[i - 1] \o Black(token.value)
    /\ token.type = "STATEMENT_END" => u[token.next - 1] = Append(u[i - 1], Semicolon)
    /\ token.type = "START_BLOCK" => u[token.next - 1] = Append(u[i - 1], OpenBrace)
    /\ token.type = "END_BLOCK" => u[token.next - 1] = Append(u[i - 1], CloseBrace)

\* A quoted token.
LEMMA QuotedTakes ==
    ASSUME PlainText, NEW u, Blackens(u, text), NEW i \in 1 .. Len(text) + 1,
           NEW b \in 1 .. Len(text), u[b - 1] = u[i - 1]
    PROVE  Takes(u, i, Quoted(b))
<1> DEFINE J == {j \in b + 1 .. Len(text) :
                   /\ text[j] = text[b]
                   /\ CharAt(text, j + 1) \in QuoteEnds \/ text[j - 1] # Backslash}
           K == J \cup {Len(text) + 1}
           e == Min(K)
           kept == {k \in b .. e :
                      text[k] = Backslash =>
                          ~(\/ text[k + 1] = Backslash
                            \/ text[k + 1] = text[b] /\ k + 1 < e)}
<1>1. text \in Seq(Int) /\ Len(text) \in Nat /\ \A k \in 1 .. Len(text) : text[k] # Backslash
  BY DEF PlainText
<1>2. e \in K
  <2>1. K \in SUBSET Nat /\ K # {}
    BY <1>1
  <2> HIDE DEF K
  <2>2. \E m \in K : \A n \in K : m <= n
    BY <2>1, LeastPosition
  <2> QED
    BY <2>2 DEF Min
<1>3. e \in b + 1 .. Len(text) + 1
  <2>1. \A j \in J : j \in b + 1 .. Len(text) + 1
    BY <1>1
  <2> HIDE DEF J
  <2>2. Len(text) + 1 \in b + 1 .. Len(text) + 1
    BY <1>1
  <2> QED
    BY <1>2, <2>1, <2>2
<1>4. Quoted(b) = IF CharAt(text, e + 1) \in QuoteEnds
                  THEN Token("NORMAL", Picked(text, kept), e + 1) ELSE NoMore("ERROR")
  BY DEF Quoted
<1> HIDE DEF J, K, e
<1>5. CASE CharAt(text, e + 1) \in QuoteEnds
  <2>1. e + 1 \in DOMAIN text
    BY <1>5 DEF CharAt, EndOfFile, QuoteEnds, Space, Tab, LF, Semicolon
  <2>2. e \in b .. Len(text) /\ e + 1 \in 1 .. Len(text) + 1 /\ e \in Nat /\ b - 1 <= e
        /\ e <= Len(text) /\ b \in 1 .. Len(text) + 1 /\ (e + 1) - 1 = e
    BY <1>1, <1>3, <2>1
  <2>3. kept = b .. e
    <3>1. \A k \in b .. e : text[k] # Backslash
      BY <1>1, <2>2
    <3> QED
      BY <3>1
  <2>4. Picked(text, b .. e) = SubSeq(text, b, e)
    BY <1>1, <2>2, PickedPart
  <2>5. /\ SubSeq(text, b, e) \in Seq(Int)
        /\ u[e] = u[b - 1] \o Black(SubSeq(text, b, e))
    BY <1>1, <2>2, PartAdds
  <2> DEFINE v == SubSeq(text, b, e)
  <2>6. Quoted(b) = Token("NORMAL", v, e + 1)
    BY <1>4, <1>5, <2>3, <2>4
  <2> HIDE DEF v, kept
  <2>7. v \in Seq(Int) /\ u[(e + 1) - 1] = u[i - 1] \o Black(v)
    BY <2>2, <2>5 DEF v
  <2> QED
    BY <2>2, <2>6, <2>7 DEF Takes, Token
<1>6. CASE CharAt(text, e + 1) \notin QuoteEnds
  BY <1>4, <1>6 DEF Takes, Token, NoMore
<1> QED
  BY <1>5, <1>6

\* A brace or a semicolon.
LEMMA MarkTakes ==
    ASSUME PlainText, NEW u, Blackens(u, text), NEW i \in 1 .. Len(text) + 1,
           NEW b \in 1 .. Len(text), u[b - 1] = u[i - 1], text[b] \notin Spaces
    PROVE  /\ b + 1 \in 1 .. Len(text) + 1
           /\ u[(b + 1) - 1] = Append(u[i - 1], text[b])
<1>1. text \in Seq(Int) /\ Len(text) \in Nat /\ (b + 1) - 1 = b
  BY DEF PlainText
<1>2. u[b] = Append(u[b - 1], text[b])
  BY <1>1, BlackensStep
<1> QED
  BY <1>1, <1>2

\* A word.
LEMMA WordTakes ==
    ASSUME PlainText, NEW u, Blackens(u, text), NEW i \in 1 .. Len(text) + 1,
           NEW b \in 1 .. Len(text), u[b - 1] = u[i - 1], NEW e \in b + 1 .. Len(text)
    PROVE  Takes(u, i, Token("NORMAL", SubSeq(text, b, e - 1), e))
<1> DEFINE l == e - 1
           v == SubSeq(text, b, l)
<1>1. text \in Seq(Int) /\ Len(text) \in Nat /\ l \in Nat /\ b - 1 <= l /\ l <= Len(text)
      /\ b \in 1 .. Len(text) + 1 /\ e \in 1 .. Len(text) + 1
  BY DEF PlainText
<1>2. v \in Seq(Int) /\ u[l] = u[b - 1] \o Black(v)
  <2> HIDE DEF l
  <2> QED
    BY ONLY <1>1, Blackens(u, text), PartAdds
<1> HIDE DEF v
<1>3. v \in Seq(Int) /\ u[e - 1] = u[i - 1] \o Black(v)
  BY <1>2
<1>4. Takes(u, i, Token("NORMAL", v, e))
  BY <1>1, <1>3 DEF Takes, Token
<1> QED
  BY <1>4 DEF v

\* Every token.
LEMMA TokenTakes ==
    ASSUME PlainText, NEW u, Blackens(u, text), NEW i \in 1 .. Len(text) + 1
    PROVE  Takes(u, i, ParseToken(i))
<1> DEFINE b == FindNot(text, i, Spaces)
           c == CharAt(text, b)
           e == IF c = Hash THEN Find(text, b + 1, {LF, CR}) ELSE Find(text, b + 1, WordEnds)
<1>1. text \in Seq(Int) /\ Len(text) \in Nat
  BY DEF PlainText
<1>2. /\ b \in i .. Len(text) + 1
      /\ \A k \in i .. b - 1 : text[k] \in Spaces
      /\ b <= Len(text) => text[b] \notin Spaces
  BY <1>1, FindNotIs
<1>3. ParseToken(i) =
        CASE c = OpenBrace -> Token("START_BLOCK", <<>>, b + 1)
          [] c = CloseBrace -> Token("END_BLOCK", <<>>, b + 1)
          [] c = Semicolon -> Token("STATEMENT_END", <<>>, b + 1)
          [] c \in {Quote, Apostrophe} -> Quoted(b)
          [] OTHER -> IF e > Len(text) THEN NoMore("EOF")
                      ELSE IF c = Hash THEN Token("COMMENT", <<>>, e + 1)
                      ELSE Token("NORMAL", SubSeq(text, b, e - 1), e)
  BY DEF ParseToken
<1>4. c = IF b \in 1 .. Len(text) THEN text[b] ELSE EndOfFile
  BY <1>1 DEF CharAt
<1>5. e = IF c = Hash THEN Find(text, b + 1, {LF, CR}) ELSE Find(text, b + 1, WordEnds)
  OBVIOUS
<1> HIDE DEF b, c, e
<1>6. u[b - 1] = u[i - 1]
  <2> DEFINE x == i - 1
             y == b - 1
  <2>1. /\ x \in Nat /\ y \in Nat /\ x <= y /\ y <= Len(text)
        /\ \A k \in x + 1 .. y : text[k] \in Spaces
    BY <1>1, <1>2
  <2> HIDE DEF x, y
  <2>2. u[y] = u[x]
    BY <1>1, <2>1, BlanksSkipped
  <2> QED
    BY <2>2 DEF x, y
<1>7. CASE b > Len(text)
  <2>1. b = Len(text) + 1 /\ b \notin 1 .. Len(text)
    BY <1>1, <1>2, <1>7
  <2>2. c = EndOfFile
    BY <1>4, <2>1
  <2>3. ~ \E j \in b + 1 .. Len(text) : text[j] \in WordEnds
    BY <1>1, <2>1
  <2>4. e = Len(text) + 1
    <3>1. c # Hash
      BY <2>2 DEF EndOfFile, Hash
    <3> QED
      BY <1>5, <2>3, <3>1 DEF Find
  <2>5. ParseToken(i) = NoMore("EOF")
    <3>1. e > Len(text)
      BY <1>1, <2>4
    <3> QED
      BY <1>3, <2>2, <3>1 DEF EndOfFile, OpenBrace, CloseBrace, Semicolon, Quote, Apostrophe
  <2>6. u[Len(text)] = u[i - 1]
    <3>1. b - 1 = Len(text)
      BY <1>1, <2>1
    <3> QED
      BY <1>6, <3>1
  <2> QED
    BY <2>5, <2>6 DEF Takes, NoMore, Token
<1>8. CASE b <= Len(text)
  <2>1. b \in 1 .. Len(text) /\ c = text[b] /\ c \notin Spaces /\ b + 1 \in 1 .. Len(text) + 1
    BY <1>1, <1>2, <1>4, <1>8
  <2>2. c # Hash
    BY <2>1 DEF PlainText
  <2>3. /\ b + 1 \in 1 .. Len(text) + 1
        /\ u[(b + 1) - 1] = Append(u[i - 1], c)
    BY <1>6, <2>1, MarkTakes
  <2>4. CASE c = OpenBrace
    <3>1. ParseToken(i) = Token("START_BLOCK", <<>>, b + 1)
      BY <1>3, <2>4 DEF OpenBrace, CloseBrace, Semicolon, Quote, Apostrophe
    <3> QED
      BY <2>3, <2>4, <3>1 DEF Takes, Token
  <2>5. CASE c = CloseBrace
    <3>1. ParseToken(i) = Token("END_BLOCK", <<>>, b + 1)
      BY <1>3, <2>5 DEF OpenBrace, CloseBrace, Semicolon, Quote, Apostrophe
    <3> QED
      BY <2>3, <2>5, <3>1 DEF Takes, Token
  <2>6. CASE c = Semicolon
    <3>1. ParseToken(i) = Token("STATEMENT_END", <<>>, b + 1)
      BY <1>3, <2>6 DEF OpenBrace, CloseBrace, Semicolon, Quote, Apostrophe
    <3> QED
      BY <2>3, <2>6, <3>1 DEF Takes, Token
  <2>7. CASE c \in {Quote, Apostrophe}
    <3>1. ParseToken(i) = Quoted(b)
      BY <1>3, <2>7 DEF OpenBrace, CloseBrace, Semicolon, Quote, Apostrophe
    <3> QED
      BY <1>6, <2>1, <3>1, QuotedTakes
  <2>8. CASE c \notin {OpenBrace, CloseBrace, Semicolon, Quote, Apostrophe}
    <3>1. ParseToken(i) = IF e > Len(text) THEN NoMore("EOF")
                          ELSE Token("NORMAL", SubSeq(text, b, e - 1), e)
      BY <1>3, <2>2, <2>8
    <3>2. /\ e \in b + 1 .. Len(text) + 1
          /\ \A k \in b + 1 .. e - 1 : text[k] \notin WordEnds
      <4> DEFINE d == b + 1
      <4>1. d \in 1 .. Len(text) + 1 /\ e = Find(text, d, WordEnds)
        BY <1>5, <2>1, <2>2
      <4> HIDE DEF d
      <4>2. e \in d .. Len(text) + 1 /\ \A k \in d .. e - 1 : text[k] \notin WordEnds
        BY <1>1, <4>1, FindIsFirst
      <4> QED
        BY <4>2 DEF d
    <3>3. e <= Len(text)
      <4> SUFFICES ASSUME e > Len(text) PROVE FALSE
        BY <1>1, <3>2
      <4>1. CharAt(text, Len(text)) = text[Len(text)]
        BY <1>1, <2>1 DEF CharAt
      <4>2. text[Len(text)] \in WordEnds
        BY <4>1 DEF PlainText
      <4>3. Len(text) = b
        <5>1. ~ (Len(text) \in b + 1 .. e - 1)
          BY <3>2, <4>2
        <5> QED
          BY <1>1, <2>1, <3>2, <5>1
      <4> QED
        BY <2>1, <2>8, <4>2, <4>3 DEF WordEnds, Spaces
    <3>4. e \in b + 1 .. Len(text) /\ ~(e > Len(text))
      BY <1>1, <3>2, <3>3
    <3>5. Takes(u, i, Token("NORMAL", SubSeq(text, b, e - 1), e))
      BY <1>6, <2>1, <3>4, WordTakes
    <3> QED
      BY <3>1, <3>4, <3>5
  <2> QED
    BY <2>4, <2>5, <2>6, <2>7, <2>8
<1>9. b > Len(text) \/ b <= Len(text)
  BY <1>1, <1>2
<1> QED
  BY <1>7, <1>8, <1>9

(***************************************************************************)
(* The words of a statement.                                               *)
(***************************************************************************)

\* f goes through the sequences in s and puts them one behind the other.
Flattens(f, s, l) == f = [i \in 1 .. l |-> IF i = 1 THEN s[i] ELSE f[i - 1] \o s[i]]

\* There is such a function.
LEMMA FlattensExist ==
    ASSUME NEW s, NEW l \in Nat
    PROVE  \E f : Flattens(f, s, l)
<1> DEFINE B == {n \in Nat : ~ \E f : Flattens(f, s, n)}
<1> SUFFICES ASSUME B # {} PROVE FALSE
  OBVIOUS
<1>1. PICK n \in B : \A m \in B : n <= m
  <2>1. B \in SUBSET Nat
    OBVIOUS
  <2> HIDE DEF B
  <2> QED
    BY <2>1, LeastPosition
<1>2. n # 0
  <2> DEFINE g == [i \in 1 .. 0 |-> <<>>]
  <2>1. g = [i \in 1 .. 0 |-> IF i = 1 THEN s[i] ELSE g[i - 1] \o s[i]]
    OBVIOUS
  <2> HIDE DEF g
  <2>2. Flattens(g, s, 0)
    BY <2>1 DEF Flattens
  <2> QED
    BY <2>2
<1>3. n - 1 \in Nat /\ ~ (n <= n - 1) /\ n \in Nat
  BY <1>2
<1>4. PICK g : Flattens(g, s, n - 1)
  BY <1>1, <1>3
<1> DEFINE x == IF n = 1 THEN s[n] ELSE g[n - 1] \o s[n]
           h == [k \in 1 .. n |-> IF k = n THEN x ELSE g[k]]
<1>5. ASSUME NEW k \in 1 .. n
      PROVE  h[k] = IF k = 1 THEN s[k] ELSE h[k - 1] \o s[k]
  <2>1. CASE k = n
    <3>1. h[n] = x /\ (n # 1 => h[n - 1] = g[n - 1])
      BY <1>2, <1>3
    <3> QED
      BY <2>1, <3>1
  <2>2. CASE k # n
    <3>1. k \in 1 .. n - 1 /\ h[k] = g[k]
      BY <1>3, <2>2
    <3>2. g[k] = IF k = 1 THEN s[k] ELSE g[k - 1] \o s[k]
      BY <1>4, <3>1 DEF Flattens
    <3>3. k # 1 => h[k - 1] = g[k - 1]
      BY <1>3, <2>2
    <3> QED
      BY <3>1, <3>2, <3>3
  <2> QED
    BY <2>1, <2>2
<1>6. h = [k \in 1 .. n |-> h[k]]
  OBVIOUS
<1> HIDE DEF h
<1>7. Flattens(h, s, n)
  BY <1>5, <1>6 DEF Flattens
<1> QED
  BY <1>7

\* FlattenSeq is the end of it.
LEMMA FlattenIs ==
    ASSUME NEW S, NEW s \in Seq(S), s # <<>>
    PROVE  \E f : Flattens(f, s, Len(s)) /\ FlattenSeq(s) = f[Len(s)]
<1>1. Len(s) \in Nat /\ Len(s) # 0
  OBVIOUS
<1>2. \E f : Flattens(f, s, Len(s))
  BY <1>1, FlattensExist
<1> DEFINE f == CHOOSE f : Flattens(f, s, Len(s))
<1>3. Flattens(f, s, Len(s))
  BY <1>2
<1>4. FlattenSeq(s) = f[Len(s)]
  BY <1>1 DEF FlattenSeq, Flattens
<1> QED
  BY <1>3, <1>4

\* The two sequences are alike up to l.
Alike(s, t, l) == \A k \in 1 .. l : s[k] = t[k]

\* Two of them are alike as far as the sequences are.
LEMMA FlattensAgree ==
    ASSUME NEW f, NEW g, NEW s, NEW t, NEW m \in Nat, NEW n \in Nat, NEW l \in 1 .. m,
           l <= n, Flattens(f, s, m), Flattens(g, t, n), Alike(s, t, l)
    PROVE  f[l] = g[l]
<1> DEFINE B == {k \in 1 .. l : f[k] # g[k]}
<1> SUFFICES ASSUME B # {} PROVE FALSE
  OBVIOUS
<1>1. PICK k \in B : \A j \in B : k <= j
  <2>1. B \in SUBSET Nat
    OBVIOUS
  <2> HIDE DEF B
  <2> QED
    BY <2>1, LeastPosition
<1>2. k \in 1 .. m /\ k \in 1 .. n /\ k \in 1 .. l /\ ~(k <= k - 1)
      /\ (k # 1 => k - 1 \in 1 .. l)
  BY <1>1
<1>3. f[k] = IF k = 1 THEN s[k] ELSE f[k - 1] \o s[k]
  BY <1>2 DEF Flattens
<1>4. g[k] = IF k = 1 THEN t[k] ELSE g[k - 1] \o t[k]
  BY <1>2 DEF Flattens
<1>5. k # 1 => f[k - 1] = g[k - 1]
  BY <1>1, <1>2
<1>6. s[k] = t[k]
  BY <1>2 DEF Alike
<1> QED
  BY <1>1, <1>3, <1>4, <1>5, <1>6

\* No sequence, one sequence, and one more.
LEMMA FlattenAppend ==
    ASSUME NEW s \in Seq(Seq(Int)), NEW x \in Seq(Int)
    PROVE  FlattenSeq(Append(s, x)) = IF s = <<>> THEN x ELSE FlattenSeq(s) \o x
<1> DEFINE v == Append(s, x)
           n == Len(s)
<1>1. /\ v \in Seq(Seq(Int)) /\ v # <<>> /\ n \in Nat /\ Len(v) = n + 1 /\ v[n + 1] = x
      /\ \A k \in 1 .. n : v[k] = s[k]
      /\ s \in Seq(Seq(Int)) /\ n = Len(s) /\ (s # <<>> => n # 0) /\ (s = <<>> => n = 0)
  <2> DEFINE I == Seq(Int)
  <2>1. s \in Seq(I) /\ x \in I
    OBVIOUS
  <2> HIDE DEF I
  <2>2. /\ v \in Seq(I) /\ v # <<>> /\ n \in Nat /\ Len(v) = n + 1 /\ v[n + 1] = x
        /\ \A k \in 1 .. n : v[k] = s[k]
    BY ONLY <2>1, AppendProperties, LenProperties
  <2>3. (s # <<>> => n # 0) /\ (s = <<>> => n = 0)
    BY ONLY <2>1
  <2> QED
    BY <2>2, <2>3 DEF I
<1> HIDE DEF v, n
<1>2. PICK g : Flattens(g, v, Len(v)) /\ FlattenSeq(v) = g[Len(v)]
  BY ONLY <1>1, FlattenIs
<1>3. g[n + 1] = IF n + 1 = 1 THEN v[n + 1] ELSE g[(n + 1) - 1] \o v[n + 1]
  <2>1. n + 1 \in 1 .. Len(v)
    BY <1>1
  <2> QED
    BY <1>2, <2>1 DEF Flattens
<1>4. CASE s = <<>>
  <2>1. n + 1 = 1
    BY <1>1, <1>4
  <2> QED
    BY <1>1, <1>2, <1>3, <1>4, <2>1 DEF v
<1>5. CASE s # <<>>
  <2>1. PICK f : Flattens(f, s, n) /\ FlattenSeq(s) = f[n]
    BY ONLY <1>1, <1>5, FlattenIs
  <2>2. n \in 1 .. Len(v) /\ n <= n /\ Len(v) \in Nat /\ n + 1 # 1 /\ (n + 1) - 1 = n
    BY <1>1, <1>5
  <2>3. g[n] = f[n]
    <3>1. Alike(v, s, n)
      BY <1>1 DEF Alike
    <3> QED
      BY ONLY <1>1, <1>2, <2>1, <2>2, <3>1, FlattensAgree
  <2>4. FlattenSeq(v) = FlattenSeq(s) \o x
    BY ONLY <1>1, <1>2, <1>3, <2>1, <2>2, <2>3
  <2> QED
    BY <1>5, <2>4 DEF v
<1> QED
  BY <1>4, <1>5

\* What comes of texts is a text.
LEMMA FlattenTypes ==
    ASSUME NEW s \in Seq(Seq(Int)), s # <<>>
    PROVE  FlattenSeq(s) \in Seq(Int)
<1>1. PICK f : Flattens(f, s, Len(s)) /\ FlattenSeq(s) = f[Len(s)]
  BY FlattenIs
<1> DEFINE B == {k \in 1 .. Len(s) : f[k] \notin Seq(Int)}
<1>2. ASSUME B # {} PROVE FALSE
  <2>1. PICK k \in B : \A j \in B : k <= j
    <3>1. B \in SUBSET Nat /\ B # {}
      BY <1>2
    <3> HIDE DEF B
    <3> QED
      BY <3>1, LeastPosition
  <2>2. k \in 1 .. Len(s) /\ ~(k <= k - 1) /\ (k # 1 => k - 1 \in 1 .. Len(s)) /\ s[k] \in Seq(Int)
    BY <2>1
  <2>3. f[k] = IF k = 1 THEN s[k] ELSE f[k - 1] \o s[k]
    BY <1>1, <2>2 DEF Flattens
  <2>4. k # 1 => f[k - 1] \in Seq(Int)
    BY <2>1, <2>2
  <2>5. f[k] \in Seq(Int)
    BY ONLY <2>2, <2>3, <2>4, ConcatProperties
  <2> QED
    BY <2>1, <2>5
<1>3. Len(s) \in 1 .. Len(s)
  OBVIOUS
<1> QED
  BY <1>1, <1>2, <1>3

\* The words of no token.
LEMMA WordsEmpty == Words(<<>>) = <<>>
<1> DEFINE s == [i \in DOMAIN <<>> |-> Black(<<>>[i])]
<1>1. s = <<>>
  OBVIOUS
<1>2. Words(<<>>) = FlattenSeq(s)
  BY DEF Words
<1>3. FlattenSeq(<<>>) = <<>>
  BY DEF FlattenSeq
<1> HIDE DEF s
<1> QED
  BY <1>1, <1>2, <1>3

\* The words are a text, and one token adds what is black of it.
LEMMA WordsAppend ==
    ASSUME NEW ts \in Seq(Seq(Int)), NEW v \in Seq(Int)
    PROVE  /\ Words(ts) \in Seq(Int)
           /\ Words(Append(ts, v)) = Words(ts) \o Black(v)
<1> DEFINE ws == Append(ts, v)
           s == [i \in DOMAIN ts |-> Black(ts[i])]
           t == [i \in DOMAIN ws |-> Black(ws[i])]
           x == Black(v)
<1>1. \A i \in 1 .. Len(ts) : Black(ts[i]) \in Seq(Int)
  <2>1. \A i \in 1 .. Len(ts) : ts[i] \in Seq(Int)
    OBVIOUS
  <2> QED
    BY <2>1, BlackTypes
<1>2. x \in Seq(Int)
  BY BlackTypes
<1>3. s \in Seq(Seq(Int)) /\ Len(s) = Len(ts)
  <2> DEFINE n == Len(ts)
             I == Seq(Int)
  <2>1. n \in Nat /\ DOMAIN ts = 1 .. n
    OBVIOUS
  <2>2. s \in [1 .. n -> I]
    BY <1>1, <2>1
  <2> HIDE DEF s, n, I
  <2>3. s \in Seq(I) /\ Len(s) = n
    BY ONLY <2>1, <2>2
  <2> QED
    BY <2>3 DEF n, I
<1>4. t = Append(s, x)
  <2> DEFINE n == Len(ts)
             c == Append(s, x)
  <2>1. /\ n \in Nat /\ DOMAIN ts = 1 .. n /\ DOMAIN ws = 1 .. n + 1 /\ ws[n + 1] = v
        /\ \A i \in 1 .. n : ws[i] = ts[i]
    OBVIOUS
  <2>2. DOMAIN c = 1 .. n + 1 /\ c[n + 1] = x /\ (\A i \in 1 .. n : c[i] = s[i])
        /\ c \in Seq(Seq(Int)) /\ Len(c) = n + 1
    <3> HIDE DEF s, x
    <3> QED
      BY <1>2, <1>3
  <2>3. DOMAIN t = 1 .. n + 1 /\ \A i \in 1 .. n + 1 : t[i] = Black(ws[i])
    BY <2>1
  <2>4. \A i \in 1 .. n : s[i] = Black(ts[i])
    BY <2>1
  <2> HIDE DEF c, ws, s
  <2>5. \A i \in 1 .. n + 1 : t[i] = c[i]
    <3>1. \A i \in 1 .. n + 1 : i = n + 1 \/ i \in 1 .. n
      BY <2>1
    <3> HIDE DEF n
    <3> QED
      BY <2>1, <2>2, <2>3, <2>4, <3>1
  <2>6. t = [i \in 1 .. n + 1 |-> t[i]]
    BY <2>3
  <2>7. c = [i \in 1 .. n + 1 |-> c[i]]
    BY <2>2
  <2> HIDE DEF t, n
  <2>8. t = c
    BY <2>5, <2>6, <2>7
  <2> QED
    BY <2>8 DEF c
<1>5. Words(ts) = FlattenSeq(s) /\ Words(ws) = FlattenSeq(t)
  BY DEF Words
<1>6. s = <<>> => FlattenSeq(s) = <<>>
  BY DEF FlattenSeq
<1> HIDE DEF s, t, x
<1>7. <<>> \in Seq(Int) /\ <<>> \o x = x
  BY <1>2
<1>8. FlattenSeq(s) \in Seq(Int)
  BY <1>3, <1>6, <1>7, FlattenTypes
<1>9. FlattenSeq(t) = FlattenSeq(s) \o x
  BY <1>2, <1>3, <1>4, <1>6, <1>7, FlattenAppend
<1> QED
  BY <1>5, <1>8, <1>9 DEF x

(***************************************************************************)
(* Showing a tree.                                                         *)
(***************************************************************************)

\* f goes through the statements, l steps of ShowNext.
Shows(f, c, l) == f = [k \in 0 .. l |-> IF k = 0 THEN c ELSE ShowNext(f[k - 1])]

\* There is such a function.
LEMMA ShowsExist ==
    ASSUME NEW c, NEW l \in Nat
    PROVE  \E f : Shows(f, c, l)
<1> DEFINE B == {n \in Nat : ~ \E f : Shows(f, c, n)}
<1> SUFFICES ASSUME B # {} PROVE FALSE
  OBVIOUS
<1>1. PICK n \in B : \A m \in B : n <= m
  <2>1. B \in SUBSET Nat
    OBVIOUS
  <2> HIDE DEF B
  <2> QED
    BY <2>1, LeastPosition
<1>2. n # 0
  <2> DEFINE g == [k \in 0 .. 0 |-> c]
  <2>1. g = [k \in 0 .. 0 |-> IF k = 0 THEN c ELSE ShowNext(g[k - 1])]
    OBVIOUS
  <2> HIDE DEF g
  <2>2. Shows(g, c, 0)
    BY <2>1 DEF Shows
  <2> QED
    BY <2>2
<1>3. n - 1 \in Nat /\ ~ (n <= n - 1) /\ n \in Nat
  BY <1>2
<1>4. PICK g : Shows(g, c, n - 1)
  BY <1>1, <1>3
<1> DEFINE x == ShowNext(g[n - 1])
           h == [k \in 0 .. n |-> IF k = n THEN x ELSE g[k]]
<1>5. ASSUME NEW k \in 0 .. n
      PROVE  h[k] = IF k = 0 THEN c ELSE ShowNext(h[k - 1])
  <2>1. CASE k = n
    <3>1. h[n] = x /\ h[n - 1] = g[n - 1]
      BY <1>2, <1>3
    <3> QED
      BY <1>2, <2>1, <3>1
  <2>2. CASE k # n
    <3>1. k \in 0 .. n - 1 /\ h[k] = g[k]
      BY <1>3, <2>2
    <3>2. g[k] = IF k = 0 THEN c ELSE ShowNext(g[k - 1])
      BY <1>4, <3>1 DEF Shows
    <3>3. k # 0 => h[k - 1] = g[k - 1]
      BY <1>3, <2>2
    <3> QED
      BY <3>1, <3>2, <3>3
  <2> QED
    BY <2>1, <2>2
<1>6. h = [k \in 0 .. n |-> h[k]]
  OBVIOUS
<1> HIDE DEF h
<1>7. Shows(h, c, n)
  BY <1>5, <1>6 DEF Shows
<1> QED
  BY <1>7

\* Two of them are alike up to where both go.
LEMMA ShowsAgree ==
    ASSUME NEW f, NEW g, NEW c, NEW m \in Nat, NEW n \in Nat, NEW l \in 0 .. m,
           l <= n, Shows(f, c, m), Shows(g, c, n)
    PROVE  f[l] = g[l]
<1> DEFINE B == {k \in 0 .. l : f[k] # g[k]}
<1> SUFFICES ASSUME B # {} PROVE FALSE
  OBVIOUS
<1>1. PICK k \in B : \A j \in B : k <= j
  <2>1. B \in SUBSET Nat
    OBVIOUS
  <2> HIDE DEF B
  <2> QED
    BY <2>1, LeastPosition
<1>2. k \in 0 .. m /\ k \in 0 .. n /\ k \in 0 .. l /\ ~(k <= k - 1)
      /\ (k # 0 => k - 1 \in 0 .. l)
  BY <1>1
<1>3. f[k] = IF k = 0 THEN c ELSE ShowNext(f[k - 1])
  BY <1>2 DEF Shows
<1>4. g[k] = IF k = 0 THEN c ELSE ShowNext(g[k - 1])
  BY <1>2 DEF Shows
<1>5. k # 0 => f[k - 1] = g[k - 1]
  BY <1>1, <1>2
<1> QED
  BY <1>1, <1>3, <1>4, <1>5

\* Showing is the end of it.
LEMMA ShowingIs ==
    ASSUME NEW c, NEW n \in Nat
    PROVE  \E f : Shows(f, c, n) /\ Showing(c, n) = f[n]
<1>1. \E f : Shows(f, c, n)
  BY ShowsExist
<1> DEFINE f == CHOOSE f : Shows(f, c, n)
<1>2. Shows(f, c, n)
  BY <1>1
<1>3. Showing(c, n) = f[n]
  BY DEF Showing, Shows
<1> QED
  BY <1>2, <1>3

\* Step by step.
LEMMA ShowingSteps ==
    ASSUME NEW c, NEW n \in Nat
    PROVE  /\ Showing(c, 0) = c
           /\ Showing(c, n + 1) = ShowNext(Showing(c, n))
<1>1. PICK f : Shows(f, c, n) /\ Showing(c, n) = f[n]
  BY ShowingIs
<1>2. n + 1 \in Nat /\ 0 \in Nat /\ n \in 0 .. n + 1 /\ n <= n
      /\ n + 1 \in 0 .. n + 1 /\ n + 1 # 0 /\ (n + 1) - 1 = n
  OBVIOUS
<1>3. PICK g : Shows(g, c, n + 1) /\ Showing(c, n + 1) = g[n + 1]
  BY <1>2, ShowingIs
<1>4. PICK h : Shows(h, c, 0) /\ Showing(c, 0) = h[0]
  BY <1>2, ShowingIs
<1>5. h[0] = c
  BY <1>4 DEF Shows
<1>6. g[n] = f[n]
  BY ONLY <1>1, <1>2, <1>3, ShowsAgree, n \in Nat
<1>7. g[n + 1] = ShowNext(g[n])
  BY <1>2, <1>3 DEF Shows
<1> QED
  BY <1>1, <1>3, <1>4, <1>5, <1>6, <1>7

\* Some steps, and some more.
LEMMA ShowingJoins ==
    ASSUME NEW c, NEW m \in Nat, NEW n \in Nat
    PROVE  Showing(c, m + n) = Showing(Showing(c, m), n)
<1> DEFINE d == Showing(c, m)
           B == {k \in Nat : Showing(c, m + k) # Showing(d, k)}
<1> SUFFICES ASSUME B # {} PROVE FALSE
  OBVIOUS
<1>1. PICK k \in B : \A j \in B : k <= j
  <2>1. B \in SUBSET Nat
    OBVIOUS
  <2> HIDE DEF B
  <2> QED
    BY <2>1, LeastPosition
<1>2. k # 0
  <2>1. m + 0 = m /\ Showing(d, 0) = d
    BY ShowingSteps
  <2> QED
    BY <1>1, <2>1
<1>3. k \in Nat /\ k - 1 \in Nat /\ ~(k <= k - 1) /\ (k - 1) + 1 = k
      /\ m + (k - 1) \in Nat /\ (m + (k - 1)) + 1 = m + k
  BY <1>2
<1>4. Showing(c, m + (k - 1)) = Showing(d, k - 1)
  BY <1>1, <1>3
<1> DEFINE i == m + (k - 1)
           j == k - 1
<1>5. i \in Nat /\ j \in Nat /\ i + 1 = m + k /\ j + 1 = k /\ Showing(c, i) = Showing(d, j)
  BY <1>3, <1>4
<1> HIDE DEF i, j, d
<1>6. Showing(c, i + 1) = ShowNext(Showing(c, i))
  BY ONLY <1>5, ShowingSteps
<1>7. Showing(d, j + 1) = ShowNext(Showing(d, j))
  BY ONLY <1>5, ShowingSteps
<1> QED
  BY <1>1, <1>5, <1>6, <1>7

\* When there is nothing more to show.
LEMMA ShownStays ==
    ASSUME NEW c, c.todo = <<>>, NEW n \in Nat
    PROVE  Showing(c, n) = c
<1> DEFINE B == {k \in Nat : Showing(c, k) # c}
<1> SUFFICES ASSUME B # {} PROVE FALSE
  OBVIOUS
<1>1. PICK k \in B : \A j \in B : k <= j
  <2>1. B \in SUBSET Nat
    OBVIOUS
  <2> HIDE DEF B
  <2> QED
    BY <2>1, LeastPosition
<1>2. k # 0
  BY <1>1, ShowingSteps
<1> DEFINE j == k - 1
<1>3. k \in Nat /\ j \in Nat /\ ~(k <= j) /\ j + 1 = k
  BY <1>2
<1>4. Showing(c, j) = c
  BY <1>1, <1>3
<1> HIDE DEF j
<1>5. Showing(c, j + 1) = ShowNext(Showing(c, j))
  BY ONLY <1>3, ShowingSteps
<1>6. ShowNext(c) = c
  BY DEF ShowNext
<1> QED
  BY <1>1, <1>3, <1>4, <1>5, <1>6

(***************************************************************************)
(* Lists of statements.                                                    *)
(***************************************************************************)

\* A list is a sequence, whatever its elements are.
IsList(l) == \E S : l \in Seq(S)

\* Three lists are lists of the same things.
LEMMA ListsShare ==
    ASSUME NEW a, NEW b, NEW c, IsList(a), IsList(b), IsList(c)
    PROVE  \E S : a \in Seq(S) /\ b \in Seq(S) /\ c \in Seq(S)
<1>1. PICK A : a \in Seq(A)
  BY DEF IsList
<1>2. PICK B : b \in Seq(B)
  BY DEF IsList
<1>3. PICK C : c \in Seq(C)
  BY DEF IsList
<1> DEFINE S == A \cup B \cup C
<1>4. A \subseteq S /\ B \subseteq S /\ C \subseteq S
  OBVIOUS
<1> HIDE DEF S
<1>5. a \in Seq(S) /\ b \in Seq(S) /\ c \in Seq(S)
  BY <1>1, <1>2, <1>3, <1>4, SeqMonotonic
<1> QED
  BY <1>5

\* Lists behind one another are a list, however they are grouped.
LEMMA ListConcat ==
    ASSUME NEW a, NEW b, NEW c, IsList(a), IsList(b), IsList(c)
    PROVE  /\ IsList(a \o b)
           /\ (a \o b) \o c = a \o (b \o c)
           /\ <<>> \o a = a
<1>1. PICK S : a \in Seq(S) /\ b \in Seq(S) /\ c \in Seq(S)
  BY ListsShare
<1>2. a \o b \in Seq(S)
  BY <1>1, ConcatProperties
<1>3. (a \o b) \o c = a \o (b \o c)
  BY <1>1, ConcatAssociative
<1>4. <<>> \o a = a
  BY <1>1, ConcatEmptySeq
<1> QED
  BY <1>2, <1>3, <1>4 DEF IsList

\* No element, and one element.
LEMMA ListOne ==
    ASSUME NEW x
    PROVE  IsList(<<>>) /\ IsList(<<x>>)
<1>1. <<>> \in Seq({x}) /\ <<x>> \in Seq({x})
  OBVIOUS
<1> QED
  BY <1>1 DEF IsList

\* An element behind a list.
LEMMA ListAppend ==
    ASSUME NEW a, IsList(a), NEW x
    PROVE  /\ IsList(Append(a, x))
           /\ Append(a, x) = a \o <<x>>
<1>1. PICK A : a \in Seq(A)
  BY DEF IsList
<1> DEFINE S == A \cup {x}
<1>2. A \subseteq S /\ x \in S
  OBVIOUS
<1> HIDE DEF S
<1>3. a \in Seq(S)
  BY <1>1, <1>2, SeqMonotonic
<1>4. Append(a, x) \in Seq(S)
  BY <1>2, <1>3, AppendProperties
<1>5. Append(a, x) = a \o <<x>>
  BY <1>2, <1>3, AppendIsConcat
<1> QED
  BY <1>4, <1>5 DEF IsList

\* An element before a list.
LEMMA ListFirst ==
    ASSUME NEW a, IsList(a), NEW x
    PROVE  /\ <<x>> \o a # <<>>
           /\ (<<x>> \o a)[1] = x
           /\ Tail(<<x>> \o a) = a
<1>1. PICK A : a \in Seq(A)
  BY DEF IsList
<1> DEFINE S == A \cup {x}
           y == <<x>>
           v == y \o a
<1>2. A \subseteq S /\ x \in S
  OBVIOUS
<1> HIDE DEF S
<1>3. a \in Seq(S) /\ y \in Seq(S) /\ Len(y) = 1 /\ y[1] = x
  BY <1>1, <1>2, SeqMonotonic
<1> HIDE DEF y, v
<1>4. /\ v \in Seq(S) /\ Len(v) = 1 + Len(a) /\ Len(a) \in Nat
      /\ \A i \in 1 .. 1 + Len(a) : v[i] = IF i <= 1 THEN y[i] ELSE a[i - 1]
  <2>1. /\ y \o a \in Seq(S) /\ Len(y \o a) = Len(y) + Len(a)
        /\ \A i \in 1 .. Len(y) + Len(a) : (y \o a)[i] =
                 IF i <= Len(y) THEN y[i] ELSE a[i - Len(y)]
    BY ONLY <1>3, ConcatProperties
  <2>2. Len(a) \in Nat
    BY ONLY <1>3, LenProperties
  <2>3. v = y \o a /\ Len(y) = 1
    BY <1>3 DEF v
  <2> QED
    BY ONLY <2>1, <2>2, <2>3
<1>5. v # <<>>
  BY <1>4
<1>6. v[1] = x
  <2>1. 1 \in 1 .. 1 + Len(a) /\ 1 <= 1
    BY <1>4
  <2> QED
    BY <1>3, <1>4, <2>1
<1>7. /\ Tail(v) \in Seq(S) /\ Len(Tail(v)) = Len(v) - 1
      /\ \A i \in 1 .. Len(Tail(v)) : Tail(v)[i] = v[i + 1]
  BY ONLY <1>4, <1>5, HeadTailProperties
<1>8. Len(Tail(v)) = Len(a)
  BY <1>4, <1>7
<1>9. \A i \in 1 .. Len(a) : Tail(v)[i] = a[i]
  <2> TAKE i \in 1 .. Len(a)
  <2>1. i + 1 \in 1 .. 1 + Len(a) /\ ~(i + 1 <= 1) /\ (i + 1) - 1 = i
    BY <1>4
  <2>2. v[i + 1] = a[(i + 1) - 1]
    BY <1>4, <2>1
  <2>3. Tail(v)[i] = v[i + 1]
    BY <1>7, <1>8
  <2> QED
    BY <2>1, <2>2, <2>3
<1>10. Tail(v) = a
  BY ONLY <1>3, <1>7, <1>8, <1>9, SeqEqual
<1> QED
  BY <1>5, <1>6, <1>10 DEF v, y

\* Statements to show, and what is shown by now.
Configuration(l, p) == [todo |-> l, shown |-> p]

\* In n steps the statements l are shown as o, whatever follows them and
\* whatever was shown before.
ShowsIn(l, o, n) ==
    \A rest, pre :
        IsList(rest) /\ pre \in Seq(Int)
          => Showing(Configuration(l \o rest, pre), n) = Configuration(rest, pre \o o)

\* They are, in no more steps than there are characters.
Renders(l, o) == /\ IsList(l)
                 /\ o \in Seq(Int)
                 /\ \E n \in 0 .. Len(o) : ShowsIn(l, o, n)

\* Nothing is shown as nothing.
LEMMA NothingRenders == Renders(<<>>, <<>>)
<1>1. IsList(<<>>) /\ <<>> \in Seq(Int) /\ 0 \in 0 .. Len(<<>>)
  <2>1. <<>> \in Seq(Int) /\ 0 \in 0 .. Len(<<>>)
    OBVIOUS
  <2>2. IsList(<<>>)
    BY ListOne
  <2> QED
    BY <2>1, <2>2
<1>2. ASSUME NEW rest, NEW pre, IsList(rest), pre \in Seq(Int)
      PROVE  Showing(Configuration(<<>> \o rest, pre), 0) = Configuration(rest, pre \o <<>>)
  <2>1. <<>> \o rest = rest
    BY <1>2, ListConcat
  <2>2. pre \o <<>> = pre
    BY <1>2, ConcatEmptySeq
  <2>3. 0 \in Nat
    OBVIOUS
  <2> QED
    BY ONLY <2>1, <2>2, <2>3, ShowingSteps
<1>3. ShowsIn(<<>>, <<>>, 0)
  BY <1>2 DEF ShowsIn
<1> QED
  BY <1>1, <1>3 DEF Renders

\* Statements, and those that follow them.
LEMMA ConcatRenders ==
    ASSUME NEW l, NEW o, NEW m, NEW p, Renders(l, o), Renders(m, p)
    PROVE  Renders(l \o m, o \o p)
<1>1. PICK i \in 0 .. Len(o) : ShowsIn(l, o, i)
  BY DEF Renders
<1>2. PICK j \in 0 .. Len(p) : ShowsIn(m, p, j)
  BY DEF Renders
<1>3. IsList(l) /\ IsList(m) /\ o \in Seq(Int) /\ p \in Seq(Int)
  BY DEF Renders
<1>4. o \o p \in Seq(Int) /\ Len(o \o p) = Len(o) + Len(p)
  BY <1>3, ConcatProperties
<1>5. i + j \in 0 .. Len(o \o p) /\ i \in Nat /\ j \in Nat
  <2>1. Len(o) \in Nat /\ Len(p) \in Nat
    BY <1>3
  <2> QED
    BY <1>4, <2>1
<1>6. ASSUME NEW rest, NEW pre, IsList(rest), pre \in Seq(Int)
      PROVE  Showing(Configuration((l \o m) \o rest, pre), i + j)
               = Configuration(rest, pre \o (o \o p))
  <2>1. (l \o m) \o rest = l \o (m \o rest) /\ IsList(m \o rest)
    <3>1. IsList(l) /\ IsList(m) /\ IsList(rest)
      BY <1>3, <1>6
    <3>2. (l \o m) \o rest = l \o (m \o rest)
      BY ONLY <3>1, ListConcat
    <3>3. IsList(m \o rest)
      BY ONLY <3>1, ListConcat
    <3> QED
      BY ONLY <3>2, <3>3
  <2>2. (pre \o o) \o p = pre \o (o \o p) /\ pre \o o \in Seq(Int)
    <3>1. pre \in Seq(Int) /\ o \in Seq(Int) /\ p \in Seq(Int)
      BY <1>3, <1>6
    <3>2. pre \o o \in Seq(Int) /\ \A r \in Seq(Int) : (pre \o o) \o r = pre \o (o \o r)
      BY ONLY <3>1, TextConcat
    <3> QED
      BY ONLY <3>1, <3>2
  <2> DEFINE c == Configuration(l \o (m \o rest), pre)
             d == Configuration(m \o rest, pre \o o)
  <2>3. Showing(c, i) = d
    BY <1>1, <1>6, <2>1 DEF ShowsIn
  <2>4. Showing(d, j) = Configuration(rest, (pre \o o) \o p)
    BY <1>2, <1>6, <2>2 DEF ShowsIn
  <2>5. Showing(c, i + j) = Showing(Showing(c, i), j)
    BY <1>5, ShowingJoins
  <2> QED
    BY <2>1, <2>2, <2>3, <2>4, <2>5
<1>7. IsList(l \o m)
  BY <1>3, ListConcat
<1>8. ShowsIn(l \o m, o \o p, i + j)
  BY <1>6 DEF ShowsIn
<1> QED
  BY <1>4, <1>5, <1>7, <1>8 DEF Renders

\* One statement is shown, or the end of a block.
LEMMA StatementShown ==
    ASSUME NEW s, NEW rest, IsList(rest), NEW pre
    PROVE  ShowNext(Configuration(<<s>> \o rest, pre))
             = Configuration((IF s.block = <<>> THEN <<>>
                              ELSE Append(s.block[1], EndOfBlock)) \o rest,
                             pre \o Words(s.tokens) \o <<Mark(s)>>)
<1> DEFINE l == <<s>> \o rest
<1>1. l # <<>> /\ l[1] = s /\ Tail(l) = rest
  BY ListFirst
<1> HIDE DEF l
<1>2. ShowNext(Configuration(l, pre))
        = Configuration((IF s.block = <<>> THEN <<>>
                         ELSE Append(s.block[1], EndOfBlock)) \o rest,
                        pre \o Words(s.tokens) \o <<Mark(s)>>)
  BY <1>1 DEF ShowNext, Configuration
<1> QED
  BY <1>2 DEF l

\* The words of tokens, and a mark.
LEMMA WordsTypes ==
    ASSUME NEW ts \in Seq(Seq(Int)), NEW x \in Int
    PROVE  /\ Words(ts) \in Seq(Int)
           /\ Words(ts) \o <<x>> \in Seq(Int)
           /\ Len(Words(ts) \o <<x>>) \in Nat
           /\ 1 <= Len(Words(ts) \o <<x>>)
           /\ \A pre \in Seq(Int) : pre \o Words(ts) \o <<x>> = pre \o (Words(ts) \o <<x>>)
<1>1. <<>> \in Seq(Int)
  OBVIOUS
<1> DEFINE w == Words(ts)
           y == <<x>>
<1>2. w \in Seq(Int) /\ y \in Seq(Int) /\ Len(y) = 1
  <2>1. Words(ts) \in Seq(Int)
    BY <1>1, WordsAppend
  <2>2. y \in Seq(Int) /\ Len(y) = 1
    OBVIOUS
  <2> QED
    BY <2>1, <2>2
<1> HIDE DEF w, y
<1>3. /\ w \o y \in Seq(Int) /\ Len(w \o y) = Len(w) + Len(y)
      /\ Len(w) \in Nat
  BY <1>2, TextConcat
<1>4. \A pre \in Seq(Int) : (pre \o w) \o y = pre \o (w \o y)
  <2>1. \A pre \in Seq(Int) : GroupsAlike(pre, w, y)
    BY ONLY <1>2, TextsGroup
  <2> QED
    BY ONLY <2>1 DEF GroupsAlike
<1>5. Len(w \o y) \in Nat /\ 1 <= Len(w \o y)
  BY <1>2, <1>3
<1> QED
  BY <1>2, <1>3, <1>4, <1>5 DEF w, y

\* A statement without a block is shown as its words and a semicolon.
LEMMA StatementRenders ==
    ASSUME NEW ts \in Seq(Seq(Int)), ts # <<>>
    PROVE  Renders(<<Statement(ts, <<>>)>>, Words(ts) \o <<Semicolon>>)
<1> DEFINE s == Statement(ts, <<>>)
           o == Words(ts) \o <<Semicolon>>
<1>1. s.tokens = ts /\ s.block = <<>> /\ Mark(s) = Semicolon
  BY DEF Statement, Mark
<1>2. Semicolon \in Int
  BY DEF Semicolon
<1>3. /\ o \in Seq(Int) /\ 1 \in 0 .. Len(o)
      /\ \A pre \in Seq(Int) : pre \o Words(ts) \o <<Semicolon>> = pre \o o
  <2> DEFINE c == Semicolon
  <2> HIDE DEF c
  <2>1. ts \in Seq(Seq(Int)) /\ c \in Int
    BY <1>2 DEF c
  <2>2. /\ Words(ts) \o <<c>> \in Seq(Int)
        /\ Len(Words(ts) \o <<c>>) \in Nat
        /\ 1 <= Len(Words(ts) \o <<c>>)
        /\ \A pre \in Seq(Int) : pre \o Words(ts) \o <<c>> = pre \o (Words(ts) \o <<c>>)
    BY ONLY <2>1, WordsTypes
  <2>3. 1 \in 0 .. Len(Words(ts) \o <<c>>)
    BY ONLY <2>2
  <2> QED
    BY <2>2, <2>3 DEF c
<1> HIDE DEF s, o
<1>4. ASSUME NEW rest, NEW pre, IsList(rest), pre \in Seq(Int)
      PROVE  Showing(Configuration(<<s>> \o rest, pre), 1) = Configuration(rest, pre \o o)
  <2>1. <<>> \o rest = rest
    BY <1>4, ListConcat
  <2>2. ShowNext(Configuration(<<s>> \o rest, pre)) = Configuration(rest, pre \o o)
    <3>1. pre \o Words(s.tokens) \o <<Mark(s)>> = pre \o o
      BY <1>1, <1>3, <1>4
    <3> QED
      BY <1>1, <1>4, <2>1, <3>1, StatementShown
  <2> DEFINE c == Configuration(<<s>> \o rest, pre)
  <2>3. Showing(c, 0) = c /\ Showing(c, 0 + 1) = ShowNext(Showing(c, 0))
    BY ShowingSteps
  <2>4. 0 + 1 = 1
    OBVIOUS
  <2> QED
    BY <2>2, <2>3, <2>4
<1>5. IsList(<<s>>)
  BY ListOne
<1>6. ShowsIn(<<s>>, o, 1)
  BY <1>4 DEF ShowsIn
<1>7. Renders(<<s>>, o)
  BY <1>3, <1>5, <1>6 DEF Renders
<1> QED
  BY <1>7 DEF s, o

\* One step.
LEMMA ShowingOne == ASSUME NEW c PROVE Showing(c, 1) = ShowNext(c)
<1>1. 0 \in Nat /\ 0 + 1 = 1
  OBVIOUS
<1>2. Showing(c, 0) = c /\ Showing(c, 0 + 1) = ShowNext(Showing(c, 0))
  BY <1>1, ShowingSteps
<1> QED
  BY <1>1, <1>2

\* The end of a block is shown as a brace.
LEMMA EndShown ==
    ASSUME NEW rest, IsList(rest), NEW pre \in Seq(Int)
    PROVE  ShowNext(Configuration(<<EndOfBlock>> \o rest, pre))
             = Configuration(rest, pre \o <<CloseBrace>>)
<1> DEFINE s == EndOfBlock
<1>1. s.tokens = <<>> /\ s.block = <<>> /\ Mark(s) = CloseBrace
  BY DEF EndOfBlock, Statement, Mark
<1> HIDE DEF s
<1>2. pre \o Words(s.tokens) \o <<Mark(s)>> = pre \o <<CloseBrace>>
  <2>1. Words(s.tokens) = <<>>
    BY <1>1, WordsEmpty
  <2>2. pre \o <<>> = pre
    BY TextConcat
  <2> QED
    BY <1>1, <2>1, <2>2
<1>3. <<>> \o rest = rest
  BY ListConcat
<1>4. ShowNext(Configuration(<<s>> \o rest, pre))
        = Configuration((IF s.block = <<>> THEN <<>>
                         ELSE Append(s.block[1], EndOfBlock)) \o rest,
                        pre \o Words(s.tokens) \o <<Mark(s)>>)
  BY StatementShown
<1>5. (IF s.block = <<>> THEN <<>> ELSE Append(s.block[1], EndOfBlock)) \o rest = rest
  BY <1>1, <1>3
<1>6. ShowNext(Configuration(<<s>> \o rest, pre)) = Configuration(rest, pre \o <<CloseBrace>>)
  BY <1>2, <1>4, <1>5
<1> QED
  BY <1>6 DEF s

\* A statement with a block is shown as its words, and the block in braces.
LEMMA BlockRenders ==
    ASSUME NEW ts \in Seq(Seq(Int)), ts # <<>>, NEW b, NEW o, Renders(b, o)
    PROVE  Renders(<<Statement(ts, <<b>>)>>,
                   (Words(ts) \o <<OpenBrace>>) \o (o \o <<CloseBrace>>))
<1> DEFINE s == Statement(ts, <<b>>)
           w == Words(ts) \o <<OpenBrace>>
           z == <<CloseBrace>>
           e == <<EndOfBlock>>
<1>1. s.tokens = ts /\ s.block # <<>> /\ s.block[1] = b /\ Mark(s) = OpenBrace
  BY DEF Statement, Mark
<1>2. OpenBrace \in Int /\ z \in Seq(Int) /\ Len(z) = 1
  BY DEF OpenBrace, CloseBrace
<1>3. /\ w \in Seq(Int) /\ 1 <= Len(w) /\ Len(w) \in Nat
      /\ \A pre \in Seq(Int) : pre \o Words(ts) \o <<OpenBrace>> = pre \o w
  BY <1>2, WordsTypes
<1>4. PICK n \in 0 .. Len(o) : ShowsIn(b, o, n)
  BY DEF Renders
<1>5. IsList(b) /\ o \in Seq(Int) /\ IsList(e) /\ IsList(<<s>>) /\ n \in Nat /\ Len(o) \in Nat
  <2>1. IsList(b) /\ o \in Seq(Int)
    BY DEF Renders
  <2>2. IsList(e) /\ IsList(<<s>>)
    BY ListOne
  <2> QED
    BY <2>1, <2>2
<1> DEFINE p == w \o (o \o z)
           l == 1 + (n + 1)
<1>6. /\ o \o z \in Seq(Int) /\ p \in Seq(Int) /\ l \in 0 .. Len(p)
  <2>1. o \o z \in Seq(Int) /\ Len(o \o z) = Len(o) + Len(z)
    BY ONLY <1>2, <1>5, TextConcat
  <2>2. p \in Seq(Int) /\ Len(p) = Len(w) + Len(o \o z)
    BY ONLY <1>3, <2>1, TextConcat
  <2> QED
    BY <1>2, <1>3, <1>5, <2>1, <2>2
<1> HIDE DEF s, w, z, e, p
<1>7. ASSUME NEW rest, NEW pre, IsList(rest), pre \in Seq(Int)
      PROVE  Showing(Configuration(<<s>> \o rest, pre), l) = Configuration(rest, pre \o p)
  <2> DEFINE c0 == Configuration(<<s>> \o rest, pre)
             c1 == Configuration(b \o (e \o rest), pre \o w)
             c2 == Configuration(e \o rest, (pre \o w) \o o)
             c3 == Configuration(rest, ((pre \o w) \o o) \o z)
  <2>1. /\ pre \o w \in Seq(Int) /\ (pre \o w) \o o \in Seq(Int)
        /\ ((pre \o w) \o o) \o z = pre \o p
    <3>1. pre \in Seq(Int) /\ w \in Seq(Int) /\ o \in Seq(Int) /\ z \in Seq(Int)
      BY <1>2, <1>3, <1>5, <1>7
    <3>2. /\ pre \o w \in Seq(Int)
          /\ \A r \in Seq(Int) : (pre \o w) \o r = pre \o (w \o r)
      BY ONLY <3>1, TextConcat
    <3>3. /\ (pre \o w) \o o \in Seq(Int)
          /\ \A r \in Seq(Int) : ((pre \o w) \o o) \o r = (pre \o w) \o (o \o r)
      BY ONLY <3>1, <3>2, TextConcat
    <3> QED
      BY ONLY <1>6, <3>1, <3>2, <3>3 DEF p
  <2>2. IsList(e \o rest) /\ Append(b, EndOfBlock) \o rest = b \o (e \o rest)
    <3>1. Append(b, EndOfBlock) = b \o e
      BY <1>5, ListAppend DEF e
    <3>2. IsList(e \o rest)
      BY <1>5, <1>7, ListConcat
    <3>3. (b \o e) \o rest = b \o (e \o rest)
      <4>1. IsList(b) /\ IsList(e) /\ IsList(rest)
        BY <1>5, <1>7
      <4> QED
        BY ONLY <4>1, ListConcat
    <3> QED
      BY <3>1, <3>2, <3>3
  <2>3. ShowNext(c0) = c1
    <3>1. pre \o Words(s.tokens) \o <<Mark(s)>> = pre \o w
      BY <1>1, <1>3, <1>7
    <3>2. ShowNext(c0) = Configuration(Append(s.block[1], EndOfBlock) \o rest, pre \o w)
      BY <1>1, <1>7, <3>1, StatementShown
    <3> QED
      BY <1>1, <2>2, <3>2
  <2>4. Showing(c1, n) = c2
    BY <1>4, <2>1, <2>2 DEF ShowsIn
  <2>5. ShowNext(c2) = c3
    BY <1>7, <2>1, EndShown DEF e, z
  <2> HIDE DEF c0, c1, c2, c3
  <2>6. Showing(c1, n + 1) = Showing(Showing(c1, n), 1)
    BY <1>5, ShowingJoins
  <2>7. Showing(c0, l) = Showing(Showing(c0, 1), n + 1)
    BY <1>5, ShowingJoins
  <2>8. Showing(c0, 1) = ShowNext(c0) /\ Showing(c2, 1) = ShowNext(c2)
    BY ShowingOne
  <2>9. Showing(c0, l) = c3
    BY <2>3, <2>4, <2>5, <2>6, <2>7, <2>8
  <2> QED
    BY <2>1, <2>9 DEF c0, c3
<1>8. ShowsIn(<<s>>, p, l)
  BY <1>7 DEF ShowsIn
<1>9. Renders(<<s>>, p)
  BY <1>5, <1>6, <1>8 DEF Renders
<1> QED
  BY <1>9 DEF s, w, z, p

\* What is shown so is shown in as many steps as there are characters.
LEMMA RenderedIsShown == ASSUME NEW l, NEW o, Renders(l, o) PROVE ShowsAs(l, o)
<1>1. PICK n \in 0 .. Len(o) : ShowsIn(l, o, n)
  BY DEF Renders
<1>2. IsList(l) /\ o \in Seq(Int) /\ IsList(<<>>) /\ <<>> \in Seq(Int)
  <2>1. IsList(l) /\ o \in Seq(Int) /\ <<>> \in Seq(Int)
    BY DEF Renders
  <2>2. IsList(<<>>)
    BY ListOne
  <2> QED
    BY <2>1, <2>2
<1>3. l \o <<>> = l /\ <<>> \o o = o
  <2>1. <<>> \o o = o
    BY <1>2, TextConcat
  <2>2. PICK S : l \in Seq(S)
    BY <1>2 DEF IsList
  <2>3. l \o <<>> = l
    BY <2>2, ConcatEmptySeq
  <2> QED
    BY <2>1, <2>3
<1> DEFINE c == Configuration(l, <<>>)
           d == Configuration(<<>>, o)
           m == Len(o) - n
<1>4. Showing(Configuration(l \o <<>>, <<>>), n) = Configuration(<<>>, <<>> \o o)
  BY <1>1, <1>2 DEF ShowsIn
<1>5. Showing(c, n) = d /\ d.todo = <<>>
  BY <1>3, <1>4 DEF Configuration
<1>6. n \in Nat /\ m \in Nat /\ n + m = Len(o)
  BY <1>2
<1> HIDE DEF c, d, m
<1>7. Showing(c, n + m) = Showing(Showing(c, n), m)
  BY <1>6, ShowingJoins
<1>8. Showing(d, m) = d
  BY <1>5, <1>6, ShownStays
<1>9. Showing(c, Len(o)) = d
  BY <1>5, <1>6, <1>7, <1>8
<1> QED
  BY <1>9 DEF ShowsAs, c, d, Configuration

(***************************************************************************)
(* The blocks on the stack of Parse.                                       *)
(***************************************************************************)

\* The last element of a list, and another one in its place.
LEMMA LastReplaced ==
    ASSUME NEW d, IsList(d), NEW s, NEW r, NEW x, x = Append(d, s)
    PROVE  x[Len(x)] = s /\ [x EXCEPT ![Len(x)] = r] = Append(d, r)
<1>1. PICK A : d \in Seq(A)
  BY DEF IsList
<1> DEFINE S == A \cup {s, r}
           y == Append(d, r)
           z == [x EXCEPT ![Len(x)] = r]
<1>2. A \subseteq S /\ s \in S /\ r \in S
  OBVIOUS
<1> HIDE DEF S
<1>3. d \in Seq(S) /\ Len(d) \in Nat
  BY <1>1, <1>2, SeqMonotonic, LenProperties
<1>4. /\ x \in Seq(S) /\ Len(x) = Len(d) + 1 /\ x[Len(d) + 1] = s
      /\ \A i \in 1 .. Len(d) : x[i] = d[i]
  BY <1>2, <1>3, AppendProperties
<1>5. /\ y \in Seq(S) /\ Len(y) = Len(d) + 1 /\ y[Len(d) + 1] = r
      /\ \A i \in 1 .. Len(d) : y[i] = d[i]
  BY <1>2, <1>3, AppendProperties
<1>6. Len(x) \in 1 .. Len(x) /\ Len(x) \in Nat
  BY <1>3, <1>4
<1>7. /\ z \in Seq(S) /\ Len(z) = Len(x)
      /\ \A j \in 1 .. Len(x) : z[j] = IF j = Len(x) THEN r ELSE x[j]
  <2> DEFINE n == Len(x)
  <2>1. x \in Seq(S) /\ r \in S /\ n \in 1 .. Len(x)
    BY <1>2, <1>4, <1>6
  <2> HIDE DEF n
  <2>2. /\ [x EXCEPT ![n] = r] \in Seq(S)
        /\ Len([x EXCEPT ![n] = r]) = Len(x)
        /\ \A j \in 1 .. Len(x) : [x EXCEPT ![n] = r][j] = IF j = n THEN r ELSE x[j]
    BY ONLY <2>1, ExceptSeq
  <2> QED
    BY <2>2 DEF n
<1> HIDE DEF y, z
<1>8. \A j \in 1 .. Len(x) : z[j] = y[j]
  <2> TAKE j \in 1 .. Len(x)
  <2>1. j = Len(x) \/ j \in 1 .. Len(d)
    BY <1>3, <1>4
  <2>2. ASSUME j \in 1 .. Len(d) PROVE j # Len(x)
    BY <1>3, <1>4, <2>2
  <2> QED
    BY <1>4, <1>5, <1>7, <2>1, <2>2
<1>9. z = y
  BY ONLY <1>4, <1>5, <1>7, <1>8, SeqEqual
<1> QED
  BY <1>4, <1>9 DEF y, z

\* Append, as a name that the provers do not look into.
Behind(l, y) == Append(l, y)

\* One token more for the last statement.
LEMMA TokenAdded ==
    ASSUME NEW d, IsList(d), NEW ts, NEW v, NEW x, x = Behind(d, Statement(ts, <<>>))
    PROVE  WithToken(x, v) = Behind(d, Statement(Behind(ts, v), <<>>))
<1> DEFINE s == Statement(ts, <<>>)
           y == Append(ts, v)
           n == Len(x)
<1>0. x = Append(d, s)
  BY DEF Behind
<1>1. x[n] = s
  BY <1>0, LastReplaced
<1>2. [s EXCEPT !.tokens = Append(@, v)] = Statement(y, <<>>)
  <2>1. [s EXCEPT !.tokens = Append(@, v)] = [s EXCEPT !.tokens = Append(s.tokens, v)]
    OBVIOUS
  <2>2. s.tokens = ts
    BY DEF Statement
  <2> HIDE DEF y
  <2>3. [s EXCEPT !.tokens = y] = Statement(y, <<>>)
    BY DEF Statement
  <2> HIDE DEF s
  <2>4. Append(s.tokens, v) = y
    BY <2>2 DEF y
  <2> QED
    BY <2>1, <2>3, <2>4
<1>3. [x EXCEPT ![n].tokens = Append(@, v)] = [x EXCEPT ![n] = Statement(y, <<>>)]
  <2>1. [x EXCEPT ![n].tokens = Append(@, v)]
          = [x EXCEPT ![n] = [x[n] EXCEPT !.tokens = Append(@, v)]]
    OBVIOUS
  <2> HIDE DEF s, n, y
  <2> QED
    BY <1>1, <1>2, <2>1
<1>4. [x EXCEPT ![n] = Statement(y, <<>>)] = Append(d, Statement(y, <<>>))
  BY <1>0, LastReplaced
<1> QED
  BY <1>3, <1>4 DEF WithToken, Behind

\* The last statement of x gets a block.
BlockGiven(x, d, ts, b) ==
    [x EXCEPT ![Len(x)].block = <<b>>] = Behind(d, Statement(ts, <<b>>))

\* The block that has ended becomes that of the last statement.
LEMMA BlockAdded ==
    ASSUME NEW d, IsList(d), NEW ts, NEW b, NEW x, x = Behind(d, Statement(ts, <<>>))
    PROVE  BlockGiven(x, d, ts, b)
<1> DEFINE s == Statement(ts, <<>>)
           n == Len(x)
<1>0. x = Append(d, s)
  BY DEF Behind
<1>1. x[n] = s
  BY <1>0, LastReplaced
<1>2. [s EXCEPT !.block = <<b>>] = Statement(ts, <<b>>)
  BY DEF Statement
<1>3. [x EXCEPT ![n].block = <<b>>] = [x EXCEPT ![n] = Statement(ts, <<b>>)]
  <2>1. [x EXCEPT ![n].block = <<b>>] = [x EXCEPT ![n] = [x[n] EXCEPT !.block = <<b>>]]
    OBVIOUS
  <2> HIDE DEF s, n
  <2> QED
    BY <1>1, <1>2, <2>1
<1>4. [x EXCEPT ![n] = Statement(ts, <<b>>)] = Append(d, Statement(ts, <<b>>))
  BY <1>0, LastReplaced
<1> QED
  BY <1>3, <1>4 DEF Behind, BlockGiven

\* The stack after the end of a block.
LEMMA ShutIs ==
    ASSUME NEW s, IsList(s), NEW m \in Nat, Len(s) = m, m > 1
    PROVE  /\ IsList(Shut(s)) /\ Len(Shut(s)) = m - 1
           /\ \A k \in 1 .. m - 2 : Shut(s)[k] = s[k]
           /\ Shut(s)[m - 1] = [s[m - 1] EXCEPT ![Len(s[m - 1])].block = <<s[m]>>]
<1>1. PICK A : s \in Seq(A)
  BY DEF IsList
<1> DEFINE r == [s[m - 1] EXCEPT ![Len(s[m - 1])].block = <<s[m]>>]
           S == A \cup {r}
           l == m - 2
           y == SubSeq(s, 1, l)
           z == Append(y, r)
<1>2. A \subseteq S /\ r \in S
  OBVIOUS
<1>3. Shut(s) = z
  BY DEF Shut
<1> HIDE DEF S, r
<1>4. s \in Seq(S) /\ l \in Nat /\ l \in Int /\ 1 \in Int /\ (1 <= l => l - 1 + 1 = l)
      /\ (~(1 <= l) => l = 0) /\ l - 1 + 1 = l /\ l + 1 = m - 1
  BY <1>1, <1>2, SeqMonotonic
<1>5. \A i \in 1 .. l : s[i] \in S
  <2>1. \A i \in 1 .. l : i \in 1 .. Len(s)
    OBVIOUS
  <2> QED
    BY <1>4, <2>1, ElementOfSeq
<1> HIDE DEF l, y
<1>6. /\ y \in Seq(S) /\ Len(y) = l
      /\ \A i \in 1 .. l : y[i] = s[i]
  <2>1. /\ SubSeq(s, 1, l) \in Seq(S)
        /\ Len(SubSeq(s, 1, l)) = IF 1 <= l THEN l - 1 + 1 ELSE 0
        /\ \A i \in 1 .. l - 1 + 1 : SubSeq(s, 1, l)[i] = s[1 + i - 1]
    BY ONLY <1>4, <1>5, SubSeqProperties
  <2>2. \A i \in 1 .. l : 1 + i - 1 = i
    BY <1>4
  <2>3. Len(y) = l
    BY ONLY <1>4, <2>1 DEF y
  <2> QED
    BY <1>4, <2>1, <2>2, <2>3 DEF y
<1>7. /\ z \in Seq(S) /\ Len(z) = l + 1 /\ z[l + 1] = r
      /\ \A i \in 1 .. l : z[i] = y[i]
  BY ONLY <1>2, <1>6, AppendProperties
<1> HIDE DEF z
<1>8. \A i \in 1 .. l : z[i] = s[i]
  <2> SUFFICES ASSUME NEW i \in 1 .. l PROVE z[i] = s[i]
    OBVIOUS
  <2>1. z[i] = y[i]
    BY ONLY <1>7, i \in 1 .. l, Zenon
  <2>2. y[i] = s[i]
    BY ONLY <1>6, i \in 1 .. l, Zenon
  <2> QED
    BY ONLY <2>1, <2>2
<1> QED
  BY <1>3, <1>4, <1>7, <1>8 DEF IsList, r, l

(***************************************************************************)
(* What has been read, level by level: at each, the statements that are    *)
(* done with are shown as outs, behind pre, the text before the block; and *)
(* the tokens of the statement that is open.                               *)
(***************************************************************************)

\* The tokens of a statement: one or more.
IsTokens(ts) == ts \in Seq(Seq(Int)) /\ ts # <<>>

\* Level by level, and what is open below the innermost block.
Below(s, done, open, outs, pre) ==
    /\ IsList(s) /\ Len(s) # 0
    /\ \A k \in 1 .. Len(s) : Renders(done[k], outs[k]) /\ pre[k] \in Seq(Int)
    /\ pre[1] = <<>>
    /\ \A k \in 1 .. Len(s) - 1 :
         /\ IsTokens(open[k])
         /\ s[k] = Behind(done[k], Statement(open[k], <<>>))
         /\ pre[k + 1] = (pre[k] \o outs[k]) \o (Words(open[k]) \o <<OpenBrace>>)

\* No statement of the innermost block is open.
Between(s, x, done, open, outs, pre) ==
    /\ Below(s, done, open, outs, pre)
    /\ s[Len(s)] = done[Len(s)]
    /\ x = pre[Len(s)] \o outs[Len(s)]

\* One is.
Within(s, x, done, open, outs, pre) ==
    /\ Below(s, done, open, outs, pre)
    /\ IsTokens(open[Len(s)])
    /\ s[Len(s)] = Behind(done[Len(s)], Statement(open[Len(s)], <<>>))
    /\ x = (pre[Len(s)] \o outs[Len(s)]) \o Words(open[Len(s)])

\* The stack s holds what is not blank of the text read by now, which is x.
AfterStatement(s, x) == \E done, open, outs, pre : Between(s, x, done, open, outs, pre)
\* The same in the middle of a statement.
InStatement(s, x) == \E done, open, outs, pre : Within(s, x, done, open, outs, pre)

\* The top of the stack is replaced: the levels below it stay.
LEMMA TopReplaced ==
    ASSUME NEW s, IsList(s), Len(s) # 0, NEW t
    PROVE  /\ Len(s) \in 1 .. Len(s)
           /\ IsList([s EXCEPT ![Len(s)] = t])
           /\ Len([s EXCEPT ![Len(s)] = t]) = Len(s)
           /\ [s EXCEPT ![Len(s)] = t][Len(s)] = t
           /\ \A k \in 1 .. Len(s) - 1 : k \in 1 .. Len(s) /\ k # Len(s)
                                         /\ [s EXCEPT ![Len(s)] = t][k] = s[k]
<1>1. PICK A : s \in Seq(A)
  BY DEF IsList
<1> DEFINE S == A \cup {t}
           n == Len(s)
           z == [s EXCEPT ![n] = t]
<1>2. A \subseteq S /\ t \in S
  OBVIOUS
<1> HIDE DEF S
<1>3. s \in Seq(S)
  BY <1>1, <1>2, SeqMonotonic
<1>4. n \in Nat /\ n \in 1 .. n /\ n \in 1 .. Len(s) /\ n = Len(s)
  BY <1>3
<1> HIDE DEF n, z
<1>5. /\ z \in Seq(S) /\ Len(z) = Len(s)
      /\ \A j \in 1 .. Len(s) : z[j] = IF j = n THEN t ELSE s[j]
  <2>1. /\ [s EXCEPT ![n] = t] \in Seq(S)
        /\ Len([s EXCEPT ![n] = t]) = Len(s)
        /\ \A j \in 1 .. Len(s) : [s EXCEPT ![n] = t][j] = IF j = n THEN t ELSE s[j]
    BY ONLY <1>2, <1>3, <1>4, ExceptSeq
  <2> QED
    BY <2>1 DEF z
<1>6. z[n] = t
  BY <1>4, <1>5
<1>7. \A k \in 1 .. n - 1 : k \in 1 .. n /\ k # n /\ z[k] = s[k]
  BY <1>4, <1>5
<1> QED
  BY <1>4, <1>5, <1>6, <1>7 DEF IsList, n, z

\* The first word of a statement.
LEMMA WordBegins ==
    ASSUME NEW s, NEW x, AfterStatement(s, x), NEW v \in Seq(Int)
    PROVE  InStatement([s EXCEPT ![Len(s)] = Behind(@, Statement(<<v>>, <<>>))],
                       x \o Black(v))
<1>1. PICK done, open, outs, pre : Between(s, x, done, open, outs, pre)
  BY DEF AfterStatement
<1> DEFINE m == Len(s)
           ts == <<v>>
           t == Behind(s[m], Statement(ts, <<>>))
           z == [s EXCEPT ![m] = t]
           open2 == [k \in 1 .. m |-> IF k = m THEN ts ELSE open[k]]
<1>2. [s EXCEPT ![Len(s)] = Behind(@, Statement(<<v>>, <<>>))] = z
  OBVIOUS
<1>3. IsTokens(ts) /\ Words(ts) = Black(v)
  <2>1. ts = Append(<<>>, v) /\ <<>> \in Seq(Seq(Int)) /\ ts \in Seq(Seq(Int)) /\ ts # <<>>
    OBVIOUS
  <2>2. Words(Append(<<>>, v)) = Words(<<>>) \o Black(v)
    BY <2>1, WordsAppend
  <2>3. <<>> \o Black(v) = Black(v)
    BY BlackTypes, TextConcat
  <2> QED
    BY <2>1, <2>2, <2>3, WordsEmpty DEF IsTokens
<1>4. Below(s, done, open, outs, pre) /\ s[m] = done[m] /\ x = pre[m] \o outs[m]
  BY <1>1 DEF Between
<1>5. IsList(s) /\ m # 0 /\ m = Len(s)
  BY <1>4 DEF Below
<1>6. /\ m \in 1 .. m /\ IsList(z) /\ Len(z) = m /\ z[m] = t
      /\ \A k \in 1 .. m - 1 : k \in 1 .. m /\ k # m /\ z[k] = s[k]
  BY <1>5, TopReplaced
<1>7. open2[m] = ts /\ \A k \in 1 .. m - 1 : open2[k] = open[k]
  BY <1>6
<1>8. t = Behind(done[m], Statement(ts, <<>>))
  BY <1>4
<1> HIDE DEF m, ts, t, z, open2
<1>9. Below(z, done, open2, outs, pre)
  BY <1>4, <1>5, <1>6, <1>7 DEF Below
<1>10. Within(z, x \o Black(v), done, open2, outs, pre)
  BY <1>3, <1>4, <1>6, <1>7, <1>8, <1>9 DEF Within
<1> QED
  BY <1>2, <1>10 DEF InStatement

\* Another word.
LEMMA WordFollows ==
    ASSUME NEW s, NEW x, InStatement(s, x), NEW v \in Seq(Int)
    PROVE  InStatement([s EXCEPT ![Len(s)] = WithToken(@, v)], x \o Black(v))
<1>1. PICK done, open, outs, pre : Within(s, x, done, open, outs, pre)
  BY DEF InStatement
<1> DEFINE m == Len(s)
           y == s[m]
           ts == Behind(open[m], v)
           t == WithToken(y, v)
           z == [s EXCEPT ![m] = t]
           open2 == [k \in 1 .. m |-> IF k = m THEN ts ELSE open[k]]
<1>2. [s EXCEPT ![Len(s)] = WithToken(@, v)] = z
  OBVIOUS
<1>3. /\ Below(s, done, open, outs, pre) /\ IsTokens(open[m])
      /\ y = Behind(done[m], Statement(open[m], <<>>))
      /\ x = (pre[m] \o outs[m]) \o Words(open[m])
  BY <1>1 DEF Within
<1>4. IsList(s) /\ m # 0 /\ m = Len(s)
  BY <1>3 DEF Below
<1>5. /\ m \in 1 .. m /\ IsList(z) /\ Len(z) = m /\ z[m] = t
      /\ \A k \in 1 .. m - 1 : k \in 1 .. m /\ k # m /\ z[k] = s[k]
  BY <1>4, TopReplaced
<1>6. open2[m] = ts /\ \A k \in 1 .. m - 1 : open2[k] = open[k]
  BY <1>5
<1>7. Renders(done[m], outs[m]) /\ pre[m] \in Seq(Int)
  BY <1>3, <1>5 DEF Below
<1>8. IsTokens(ts) /\ Words(ts) = Words(open[m]) \o Black(v) /\ Words(open[m]) \in Seq(Int)
  <2> DEFINE o == open[m]
  <2>1. o \in Seq(Seq(Int))
    BY <1>3 DEF IsTokens
  <2> HIDE DEF o
  <2>2. Words(Append(o, v)) = Words(o) \o Black(v) /\ Words(o) \in Seq(Int)
    BY <2>1, WordsAppend
  <2>3. Append(o, v) \in Seq(Seq(Int)) /\ Append(o, v) # <<>>
    <3> DEFINE I == Seq(Int)
    <3>1. o \in Seq(I) /\ v \in I
      BY <2>1
    <3> HIDE DEF I
    <3>2. Append(o, v) \in Seq(I) /\ Append(o, v) # <<>>
      BY ONLY <3>1, AppendProperties
    <3> QED
      BY <3>2 DEF I
  <2> QED
    BY <2>2, <2>3 DEF o, IsTokens, Behind
<1>9. t = Behind(done[m], Statement(ts, <<>>))
  <2> DEFINE d == done[m]
             o == open[m]
  <2>1. IsList(d) /\ y = Behind(d, Statement(o, <<>>))
    BY <1>3, <1>7 DEF Renders
  <2> HIDE DEF y, d, o
  <2>2. WithToken(y, v) = Behind(d, Statement(Behind(o, v), <<>>))
    BY ONLY <2>1, TokenAdded
  <2> QED
    BY <2>2 DEF d, o
<1>10. x \o Black(v) = (pre[m] \o outs[m]) \o Words(ts)
  <2> DEFINE p == pre[m]
             o == outs[m]
             w == Words(open[m])
             b == Black(v)
  <2>1. p \in Seq(Int) /\ o \in Seq(Int) /\ w \in Seq(Int) /\ b \in Seq(Int)
    BY <1>7, <1>8, BlackTypes DEF Renders
  <2>2. x = (p \o o) \o w /\ Words(ts) = w \o b
    BY <1>3, <1>8
  <2> HIDE DEF p, o, w, b
  <2>3. p \o o \in Seq(Int)
    BY ONLY <2>1, TextConcat
  <2>4. ((p \o o) \o w) \o b = (p \o o) \o (w \o b)
    <3> DEFINE q == p \o o
    <3>1. q \in Seq(Int)
      BY <2>3
    <3> HIDE DEF q
    <3>2. (q \o w) \o b = q \o (w \o b)
      BY ONLY <2>1, <3>1, TextGroups
    <3> QED
      BY <3>2 DEF q
  <2>5. x \o b = (p \o o) \o Words(ts)
    BY <2>2, <2>4
  <2> QED
    BY <2>5 DEF p, o, b
<1> HIDE DEF m, ts, t, z, open2
<1>11. Below(z, done, open2, outs, pre)
  BY <1>3, <1>4, <1>5, <1>6 DEF Below
<1>12. Within(z, x \o Black(v), done, open2, outs, pre)
  BY <1>3, <1>5, <1>6, <1>8, <1>9, <1>10, <1>11 DEF Within
<1> QED
  BY <1>2, <1>12 DEF InStatement

\* A character behind three texts, and behind two.
CharacterLast(p, o, w, c) ==
    /\ Behind((p \o o) \o w, c) = (p \o o) \o (w \o <<c>>)
    /\ Behind((p \o o) \o w, c) = p \o (o \o (w \o <<c>>))
    /\ Behind(p \o o, c) = p \o (o \o <<c>>)
    /\ o \o (w \o <<c>>) \in Seq(Int)
    /\ (p \o o) \o (w \o <<c>>) \in Seq(Int)
    /\ o \o <<c>> \in Seq(Int)

\* The character goes behind the words, wherever the text is cut.
LEMMA CharacterBehind ==
    ASSUME NEW p \in Seq(Int), NEW o \in Seq(Int), NEW w \in Seq(Int), NEW c \in Int
    PROVE  CharacterLast(p, o, w, c)
<1> DEFINE y == <<c>>
           q == p \o o
           r == w \o y
           t == q \o w
<1>1. y \in Seq(Int)
  OBVIOUS
<1> HIDE DEF y
<1>2. q \in Seq(Int)
  BY TextConcat
<1>3. r \in Seq(Int) /\ o \o y \in Seq(Int)
  BY <1>1, TextConcat
<1> HIDE DEF q, r
<1>4. t \in Seq(Int) /\ q \o r \in Seq(Int) /\ o \o r \in Seq(Int)
  BY <1>2, <1>3, TextConcat
<1>5. t \o y = q \o r
  <2>1. GroupsAlike(q, w, y)
    BY ONLY <1>1, <1>2, w \in Seq(Int), TextsGroup
  <2> QED
    BY ONLY <2>1 DEF GroupsAlike, r
<1>6. q \o r = p \o (o \o r)
  <2>1. GroupsAlike(p, o, r)
    BY ONLY <1>3, p \in Seq(Int), o \in Seq(Int), TextsGroup
  <2> QED
    BY ONLY <2>1 DEF GroupsAlike, q
<1>7. q \o y = p \o (o \o y)
  <2>1. GroupsAlike(p, o, y)
    BY ONLY <1>1, p \in Seq(Int), o \in Seq(Int), TextsGroup
  <2> QED
    BY ONLY <2>1 DEF GroupsAlike, q
<1> HIDE DEF t
<1>8. Append(t, c) = t \o y
  BY <1>4, AppendIsConcat DEF y
<1>9. Append(q, c) = q \o y
  BY <1>2, AppendIsConcat DEF y
<1>10. Behind(t, c) = q \o r /\ Behind(t, c) = p \o (o \o r) /\ Behind(q, c) = p \o (o \o y)
  BY <1>5, <1>6, <1>7, <1>8, <1>9 DEF Behind
<1> QED
  BY <1>3, <1>4, <1>10 DEF CharacterLast, t, q, r, y

\* The statements of a block, with one more that has no block.
LEMMA StatementDone ==
    ASSUME NEW d, NEW o, Renders(d, o), NEW ts, IsTokens(ts)
    PROVE  Renders(Behind(d, Statement(ts, <<>>)), o \o (Words(ts) \o <<Semicolon>>))
<1> DEFINE s == Statement(ts, <<>>)
           y == <<s>>
           p == Words(ts) \o <<Semicolon>>
<1>1. ts \in Seq(Seq(Int)) /\ ts # <<>>
  BY DEF IsTokens
<1>2. Renders(y, p)
  BY <1>1, StatementRenders
<1>3. IsList(d)
  BY DEF Renders
<1>4. Behind(d, s) = d \o y
  <2> HIDE DEF s
  <2> QED
    BY <1>3, ListAppend DEF Behind
<1> HIDE DEF s, y, p
<1>5. Renders(d \o y, o \o p)
  BY <1>2, ConcatRenders
<1> QED
  BY <1>4, <1>5 DEF s, p

\* The statements of a block, with one more that has one.
LEMMA BlockDone ==
    ASSUME NEW d, NEW o, Renders(d, o), NEW ts, IsTokens(ts), NEW b, NEW q, Renders(b, q)
    PROVE  Renders(Behind(d, Statement(ts, <<b>>)),
                   o \o ((Words(ts) \o <<OpenBrace>>) \o (q \o <<CloseBrace>>)))
<1> DEFINE s == Statement(ts, <<b>>)
           y == <<s>>
           p == (Words(ts) \o <<OpenBrace>>) \o (q \o <<CloseBrace>>)
<1>1. ts \in Seq(Seq(Int)) /\ ts # <<>>
  BY DEF IsTokens
<1>2. Renders(y, p)
  BY <1>1, BlockRenders
<1>3. IsList(d)
  BY DEF Renders
<1>4. Behind(d, s) = d \o y
  <2> HIDE DEF s
  <2> QED
    BY <1>3, ListAppend DEF Behind
<1> HIDE DEF s, y, p
<1>5. Renders(d \o y, o \o p)
  BY <1>2, ConcatRenders
<1> QED
  BY <1>4, <1>5 DEF s, p

\* The characters of the marks.
LEMMA MarkTypes == Semicolon \in Int /\ OpenBrace \in Int /\ CloseBrace \in Int
BY DEF Semicolon, OpenBrace, CloseBrace

\* A semicolon.
LEMMA StatementCloses ==
    ASSUME NEW s, NEW x, InStatement(s, x)
    PROVE  AfterStatement(s, Behind(x, Semicolon))
<1>1. PICK done, open, outs, pre : Within(s, x, done, open, outs, pre)
  BY DEF InStatement
<1> DEFINE m == Len(s)
           w == Words(open[m])
           o == outs[m] \o (w \o <<Semicolon>>)
           done2 == [k \in 1 .. m |-> IF k = m THEN s[m] ELSE done[k]]
           outs2 == [k \in 1 .. m |-> IF k = m THEN o ELSE outs[k]]
<1>2. /\ Below(s, done, open, outs, pre) /\ IsTokens(open[m])
      /\ s[m] = Behind(done[m], Statement(open[m], <<>>))
      /\ x = (pre[m] \o outs[m]) \o w
  BY <1>1 DEF Within
<1>3. IsList(s) /\ m # 0 /\ m = Len(s)
  BY <1>2 DEF Below
<1>4. /\ m \in 1 .. m
      /\ \A k \in 1 .. m - 1 : k \in 1 .. m /\ k # m
  BY <1>3, TopReplaced
<1>5. Renders(done[m], outs[m]) /\ pre[m] \in Seq(Int)
  BY <1>2, <1>4 DEF Below
<1>6. Renders(s[m], o)
  BY <1>2, <1>5, StatementDone
<1>7. Behind(x, Semicolon) = pre[m] \o o
  <2> DEFINE p == pre[m]
             q == outs[m]
  <2>1. p \in Seq(Int) /\ q \in Seq(Int) /\ w \in Seq(Int) /\ Semicolon \in Int
    <3>1. open[m] \in Seq(Seq(Int))
      BY <1>2 DEF IsTokens
    <3>2. w \in Seq(Int)
      BY <3>1, MarkTypes, WordsTypes
    <3> QED
      BY <1>5, <3>2, MarkTypes DEF Renders
  <2>2. x = (p \o q) \o w /\ o = q \o (w \o <<Semicolon>>)
    BY <1>2
  <2> HIDE DEF p, q, w, o
  <2>3. Behind((p \o q) \o w, Semicolon) = p \o (q \o (w \o <<Semicolon>>))
    <3>1. CharacterLast(p, q, w, Semicolon)
      BY ONLY <2>1, CharacterBehind
    <3> QED
      BY <3>1 DEF CharacterLast
  <2> QED
    BY <2>2, <2>3 DEF p
<1> HIDE DEF o
<1>8. /\ done2[m] = s[m] /\ outs2[m] = o
      /\ \A k \in 1 .. m - 1 : done2[k] = done[k] /\ outs2[k] = outs[k]
  BY <1>4
<1>9. \A k \in 1 .. m : k = m \/ k \in 1 .. m - 1
  BY <1>4
<1> HIDE DEF m, done2, outs2
<1>10. Below(s, done2, open, outs2, pre)
  <2>1. \A k \in 1 .. m : Renders(done2[k], outs2[k]) /\ pre[k] \in Seq(Int)
    <3> TAKE k \in 1 .. m
    <3>1. CASE k = m
      BY <1>5, <1>6, <1>8, <3>1
    <3>2. CASE k \in 1 .. m - 1
      <4>1. Renders(done[k], outs[k]) /\ pre[k] \in Seq(Int)
        BY <1>2, <1>3 DEF Below
      <4> QED
        BY <1>8, <3>2, <4>1
    <3> QED
      BY <1>9, <3>1, <3>2
  <2>2. \A k \in 1 .. m - 1 :
          /\ IsTokens(open[k])
          /\ s[k] = Behind(done2[k], Statement(open[k], <<>>))
          /\ pre[k + 1] = (pre[k] \o outs2[k]) \o (Words(open[k]) \o <<OpenBrace>>)
    BY <1>2, <1>3, <1>8 DEF Below
  <2>3. pre[1] = <<>>
    BY <1>2 DEF Below
  <2> QED
    BY <1>3, <2>1, <2>2, <2>3 DEF Below
<1>11. Between(s, Behind(x, Semicolon), done2, open, outs2, pre)
  BY <1>3, <1>7, <1>8, <1>10 DEF Between
<1> QED
  BY <1>11 DEF AfterStatement

\* A list with one element more on top.
LEMMA TopAdded ==
    ASSUME NEW s, IsList(s), Len(s) # 0, NEW t
    PROVE  /\ Len(s) \in Nat
           /\ IsList(Behind(s, t))
           /\ Len(Behind(s, t)) = Len(s) + 1
           /\ Behind(s, t)[Len(s) + 1] = t
           /\ \A k \in 1 .. Len(s) : Behind(s, t)[k] = s[k]
<1>1. PICK A : s \in Seq(A)
  BY DEF IsList
<1> DEFINE S == A \cup {t}
<1>2. A \subseteq S /\ t \in S
  OBVIOUS
<1> HIDE DEF S
<1>3. s \in Seq(S)
  BY <1>1, <1>2, SeqMonotonic
<1>4. /\ Append(s, t) \in Seq(S) /\ Len(Append(s, t)) = Len(s) + 1
      /\ Append(s, t)[Len(s) + 1] = t
      /\ \A k \in 1 .. Len(s) : Append(s, t)[k] = s[k]
  BY ONLY <1>2, <1>3, AppendProperties
<1>5. Len(s) \in Nat
  BY <1>3
<1> QED
  BY <1>4, <1>5 DEF IsList, Behind

\* An open brace.
LEMMA BlockOpens ==
    ASSUME NEW s, NEW x, InStatement(s, x)
    PROVE  AfterStatement(Behind(s, <<>>), Behind(x, OpenBrace))
<1>1. PICK done, open, outs, pre : Within(s, x, done, open, outs, pre)
  BY DEF InStatement
<1> DEFINE m == Len(s)
           l == m + 1
           w == Words(open[m])
           p == (pre[m] \o outs[m]) \o (w \o <<OpenBrace>>)
           z == Behind(s, <<>>)
           done2 == [k \in 1 .. l |-> IF k = l THEN <<>> ELSE done[k]]
           outs2 == [k \in 1 .. l |-> IF k = l THEN <<>> ELSE outs[k]]
           pre2 == [k \in 1 .. l |-> IF k = l THEN p ELSE pre[k]]
<1>2. /\ Below(s, done, open, outs, pre) /\ IsTokens(open[m])
      /\ s[m] = Behind(done[m], Statement(open[m], <<>>))
      /\ x = (pre[m] \o outs[m]) \o w
  BY <1>1 DEF Within
<1>3. IsList(s) /\ m # 0 /\ m = Len(s)
  BY <1>2 DEF Below
<1>4. m \in Nat /\ IsList(z) /\ Len(z) = l /\ z[l] = <<>> /\ \A k \in 1 .. m : z[k] = s[k]
  BY <1>3, TopAdded
<1>5. /\ l # 0 /\ l - 1 = m /\ l \in 1 .. l /\ m \in 1 .. m /\ 1 \in 1 .. l /\ 1 # l
      /\ \A k \in 1 .. m : k \in 1 .. l /\ k # l
      /\ \A k \in 1 .. l : k = l \/ k \in 1 .. m
      /\ \A k \in 1 .. m : k = m \/ (k \in 1 .. m - 1 /\ k + 1 \in 1 .. m)
  <2>1. m \in Nat /\ m # 0
    BY <1>3, <1>4
  <2> HIDE DEF m
  <2>2. /\ l # 0 /\ l - 1 = m /\ l \in 1 .. l /\ m \in 1 .. m /\ 1 \in 1 .. l /\ 1 # l
        /\ \A k \in 1 .. m : k \in 1 .. l /\ k # l
    BY ONLY <2>1
  <2>3. \A k \in 1 .. l : k = l \/ k \in 1 .. m
    BY ONLY <2>1
  <2>4. ASSUME NEW k \in 1 .. m, k # m PROVE k \in 1 .. m - 1 /\ k + 1 \in 1 .. m
    <3>1. k \in Nat /\ 1 <= k /\ k <= m
      BY ONLY <2>1, k \in 1 .. m
    <3> QED
      BY ONLY <2>1, <2>4, <3>1
  <2> QED
    BY ONLY <2>2, <2>3, <2>4
<1>6. Renders(done[m], outs[m]) /\ pre[m] \in Seq(Int)
  BY <1>2, <1>5 DEF Below
<1>7. p \in Seq(Int) /\ Behind(x, OpenBrace) = p /\ p \o <<>> = p
  <2> DEFINE r == pre[m]
             q == outs[m]
  <2>1. r \in Seq(Int) /\ q \in Seq(Int) /\ w \in Seq(Int) /\ OpenBrace \in Int
    <3>1. open[m] \in Seq(Seq(Int))
      BY <1>2 DEF IsTokens
    <3>2. w \in Seq(Int)
      BY <3>1, MarkTypes, WordsTypes
    <3> QED
      BY <1>6, <3>2, MarkTypes DEF Renders
  <2>2. x = (r \o q) \o w /\ p = (r \o q) \o (w \o <<OpenBrace>>)
    BY <1>2
  <2> HIDE DEF p, q, w, r
  <2>3. /\ Behind((r \o q) \o w, OpenBrace) = (r \o q) \o (w \o <<OpenBrace>>)
        /\ (r \o q) \o (w \o <<OpenBrace>>) \in Seq(Int)
    <3>1. CharacterLast(r, q, w, OpenBrace)
      BY ONLY <2>1, CharacterBehind
    <3> QED
      BY <3>1 DEF CharacterLast
  <2>4. p \in Seq(Int)
    BY <2>2, <2>3
  <2>5. p \o <<>> = p
    BY <2>4, TextConcat
  <2> QED
    BY <2>2, <2>3, <2>4, <2>5
<1>8. p = (pre[m] \o outs[m]) \o (Words(open[m]) \o <<OpenBrace>>)
  OBVIOUS
<1> HIDE DEF p, l
<1>9. /\ done2[l] = <<>> /\ outs2[l] = <<>> /\ pre2[l] = p
      /\ \A k \in 1 .. m : done2[k] = done[k] /\ outs2[k] = outs[k] /\ pre2[k] = pre[k]
  BY <1>5
<1> HIDE DEF z, w, done2, outs2, pre2
<1>10. Below(z, done2, open, outs2, pre2)
  <2>1. ASSUME NEW k \in 1 .. l PROVE Renders(done2[k], outs2[k]) /\ pre2[k] \in Seq(Int)
    <3>1. CASE k = l
      BY <1>7, <1>9, <3>1, NothingRenders
    <3>2. CASE k \in 1 .. m
      <4>1. Renders(done[k], outs[k]) /\ pre[k] \in Seq(Int)
        BY <1>2, <3>2 DEF Below
      <4> QED
        BY <1>9, <3>2, <4>1
    <3> QED
      BY <1>5, <3>1, <3>2
  <2>2. ASSUME NEW k \in 1 .. m
        PROVE  /\ IsTokens(open[k])
               /\ z[k] = Behind(done2[k], Statement(open[k], <<>>))
               /\ pre2[k + 1] = (pre2[k] \o outs2[k]) \o (Words(open[k]) \o <<OpenBrace>>)
    <3>1. CASE k = m
      <4>1. k + 1 = l
        BY <1>5, <3>1 DEF l
      <4> QED
        BY <1>2, <1>4, <1>5, <1>8, <1>9, <3>1, <4>1
    <3>2. CASE k \in 1 .. m - 1 /\ k + 1 \in 1 .. m
      <4>1. /\ IsTokens(open[k])
            /\ s[k] = Behind(done[k], Statement(open[k], <<>>))
            /\ pre[k + 1] = (pre[k] \o outs[k]) \o (Words(open[k]) \o <<OpenBrace>>)
        BY <1>2, <3>2 DEF Below
      <4>2. pre2[k + 1] = pre[k + 1]
        BY <1>9, <3>2
      <4> QED
        BY <1>4, <1>9, <4>1, <4>2
    <3> QED
      BY <1>5, <3>1, <3>2
  <2>3. pre2[1] = <<>>
    <3>1. 1 \in 1 .. m
      BY <1>5
    <3> QED
      BY <1>2, <1>9, <3>1 DEF Below
  <2> HIDE DEF m
  <2> QED
    BY <1>4, <1>5, <2>1, <2>2, <2>3 DEF Below
<1>11. Between(z, Behind(x, OpenBrace), done2, open, outs2, pre2)
  BY <1>4, <1>7, <1>9, <1>10 DEF Between
<1> QED
  BY <1>11 DEF AfterStatement, z

\* What is shown of a block, with its braces, behind what is before it.
BlockLast(p, o, w, q) == /\ o \o (w \o q) \in Seq(Int)
                         /\ ((p \o o) \o w) \o q = p \o (o \o (w \o q))

\* It is there however the text before it is grouped.
LEMMA BlockBehind ==
    ASSUME NEW p \in Seq(Int), NEW o \in Seq(Int), NEW w \in Seq(Int), NEW q \in Seq(Int)
    PROVE  BlockLast(p, o, w, q)
<1> DEFINE r == p \o o
           t == w \o q
<1>1. r \in Seq(Int) /\ t \in Seq(Int)
  BY TextConcat
<1>2. r \o t = p \o (o \o t)
  <2>1. p \in Seq(Int) /\ o \in Seq(Int) /\ t \in Seq(Int)
    BY <1>1
  <2> HIDE DEF t
  <2>2. GroupsAlike(p, o, t)
    BY ONLY <2>1, TextsGroup
  <2> QED
    BY ONLY <2>2 DEF GroupsAlike
<1>3. o \o t \in Seq(Int)
  <2> HIDE DEF t
  <2> QED
    BY <1>1, TextConcat
<1>4. (r \o w) \o q = r \o t
  <2>1. r \in Seq(Int) /\ w \in Seq(Int) /\ q \in Seq(Int)
    BY <1>1
  <2> HIDE DEF r
  <2>2. GroupsAlike(r, w, q)
    BY ONLY <2>1, TextsGroup
  <2> QED
    BY ONLY <2>2 DEF GroupsAlike
<1> QED
  BY <1>2, <1>3, <1>4 DEF BlockLast

\* The brace that closes a block.
LEMMA BlockCloses ==
    ASSUME NEW s, NEW x, AfterStatement(s, x), Len(s) # 1
    PROVE  AfterStatement(Shut(s), Behind(x, CloseBrace))
<1>1. PICK done, open, outs, pre : Between(s, x, done, open, outs, pre)
  BY DEF AfterStatement
<1> DEFINE m == Len(s)
           n == m - 1
           w == Words(open[n]) \o <<OpenBrace>>
           q == outs[m] \o <<CloseBrace>>
           o == outs[n] \o (w \o q)
           z == Shut(s)
           done2 == [k \in 1 .. n |-> IF k = n THEN z[n] ELSE done[k]]
           outs2 == [k \in 1 .. n |-> IF k = n THEN o ELSE outs[k]]
<1>2. /\ Below(s, done, open, outs, pre)
      /\ s[m] = done[m]
      /\ x = pre[m] \o outs[m]
  BY <1>1 DEF Between
<1>3. IsList(s) /\ m # 0 /\ m = Len(s)
  BY <1>2 DEF Below
<1>4. m \in Nat /\ m > 1
  <2>1. m \in Nat
    BY <1>3, TopAdded
  <2> QED
    BY <1>3, <2>1
<1>5. /\ n \in Nat /\ n # 0 /\ n \in 1 .. n /\ n \in 1 .. m /\ n \in 1 .. m - 1 /\ m \in 1 .. m
      /\ n + 1 = m /\ m - 2 = n - 1 /\ 1 \in 1 .. m
      /\ \A k \in 1 .. n : k \in 1 .. m /\ (k = n \/ k \in 1 .. n - 1)
      /\ \A k \in 1 .. n - 1 : k \in 1 .. m - 1 /\ k \in 1 .. n /\ k # n
  BY <1>4
<1>6. /\ IsList(z) /\ Len(z) = n
      /\ \A k \in 1 .. n - 1 : z[k] = s[k]
      /\ z[n] = [s[n] EXCEPT ![Len(s[n])].block = <<s[m]>>]
  <2>1. /\ IsList(Shut(s)) /\ Len(Shut(s)) = m - 1
        /\ \A k \in 1 .. m - 2 : Shut(s)[k] = s[k]
        /\ Shut(s)[m - 1] = [s[m - 1] EXCEPT ![Len(s[m - 1])].block = <<s[m]>>]
    BY ONLY <1>3, <1>4, ShutIs
  <2> QED
    BY <1>5, <2>1
<1>7. /\ Renders(done[m], outs[m]) /\ pre[m] \in Seq(Int)
      /\ Renders(done[n], outs[n]) /\ pre[n] \in Seq(Int)
  BY <1>2, <1>5 DEF Below
<1>8. /\ IsTokens(open[n])
      /\ s[n] = Behind(done[n], Statement(open[n], <<>>))
      /\ pre[m] = (pre[n] \o outs[n]) \o w
  <2>1. /\ IsTokens(open[n])
        /\ s[n] = Behind(done[n], Statement(open[n], <<>>))
        /\ pre[n + 1] = (pre[n] \o outs[n]) \o (Words(open[n]) \o <<OpenBrace>>)
    <3> HIDE DEF n
    <3> QED
      BY <1>2, <1>5 DEF Below
  <2> QED
    BY <1>5, <2>1
<1> HIDE DEF m, n, z
<1>9. Renders(z[n], o)
  <2> DEFINE d == done[n]
             b == s[m]
             y == s[n]
             ts == open[n]
  <2>1. IsList(d) /\ y = Behind(d, Statement(ts, <<>>))
    BY <1>7, <1>8 DEF Renders
  <2> HIDE DEF d, b, y, ts
  <2>2. [y EXCEPT ![Len(y)].block = <<b>>] = Behind(d, Statement(ts, <<b>>))
    <3>1. BlockGiven(y, d, ts, b)
      BY ONLY <2>1, BlockAdded
    <3> QED
      BY <3>1 DEF BlockGiven
  <2>3. z[n] = Behind(d, Statement(ts, <<b>>))
    BY <1>6, <2>2 DEF b, y
  <2>4. Renders(d, outs[n]) /\ IsTokens(ts) /\ Renders(b, outs[m])
    BY <1>2, <1>7, <1>8 DEF d, b, ts
  <2>5. Renders(Behind(d, Statement(ts, <<b>>)),
                outs[n] \o ((Words(ts) \o <<OpenBrace>>) \o (outs[m] \o <<CloseBrace>>)))
    BY ONLY <2>4, BlockDone
  <2> QED
    BY <2>3, <2>5 DEF ts
<1>10. Behind(x, CloseBrace) = pre[n] \o o
  <2> DEFINE a == pre[n]
             c == outs[n]
             e == outs[m]
             f == pre[m]
  <2>1. /\ a \in Seq(Int) /\ c \in Seq(Int) /\ e \in Seq(Int) /\ f \in Seq(Int)
        /\ w \in Seq(Int) /\ CloseBrace \in Int
    <3>1. open[n] \in Seq(Seq(Int))
      BY <1>8 DEF IsTokens
    <3>2. w \in Seq(Int)
      BY <3>1, MarkTypes, WordsTypes
    <3> QED
      BY <1>7, <3>2, MarkTypes DEF Renders
  <2>2. x = f \o e /\ f = (a \o c) \o w /\ q = e \o <<CloseBrace>> /\ o = c \o (w \o q)
    BY <1>2, <1>8
  <2> HIDE DEF a, c, e, f, w, q, o
  <2>3. Behind(f \o e, CloseBrace) = f \o (e \o <<CloseBrace>>) /\ e \o <<CloseBrace>> \in Seq(Int)
    <3>1. CharacterLast(f, e, w, CloseBrace)
      BY ONLY <2>1, CharacterBehind
    <3> QED
      BY <3>1 DEF CharacterLast
  <2>4. q \in Seq(Int)
    BY <2>2, <2>3
  <2>5. ((a \o c) \o w) \o q = a \o (c \o (w \o q))
    <3>1. BlockLast(a, c, w, q)
      BY ONLY <2>1, <2>4, BlockBehind
    <3> QED
      BY <3>1 DEF BlockLast
  <2> QED
    BY <2>2, <2>3, <2>5 DEF a
<1> HIDE DEF o
<1>11. /\ done2[n] = z[n] /\ outs2[n] = o
       /\ \A k \in 1 .. n - 1 : done2[k] = done[k] /\ outs2[k] = outs[k]
  BY <1>5
<1> HIDE DEF done2, outs2
<1>12. Below(z, done2, open, outs2, pre)
  <2>1. ASSUME NEW k \in 1 .. n PROVE Renders(done2[k], outs2[k]) /\ pre[k] \in Seq(Int)
    <3>1. CASE k = n
      BY <1>7, <1>9, <1>11, <3>1
    <3>2. CASE k \in 1 .. n - 1
      <4>1. Renders(done[k], outs[k]) /\ pre[k] \in Seq(Int)
        BY <1>2, <1>3, <1>5 DEF Below
      <4> QED
        BY <1>11, <3>2, <4>1
    <3> QED
      BY <1>5, <3>1, <3>2
  <2>2. ASSUME NEW k \in 1 .. n - 1
        PROVE  /\ IsTokens(open[k])
               /\ z[k] = Behind(done2[k], Statement(open[k], <<>>))
               /\ pre[k + 1] = (pre[k] \o outs2[k]) \o (Words(open[k]) \o <<OpenBrace>>)
    <3>1. /\ IsTokens(open[k])
          /\ s[k] = Behind(done[k], Statement(open[k], <<>>))
          /\ pre[k + 1] = (pre[k] \o outs[k]) \o (Words(open[k]) \o <<OpenBrace>>)
      BY <1>2, <1>3, <1>5 DEF Below
    <3> QED
      BY <1>6, <1>11, <3>1
  <2>3. pre[1] = <<>>
    BY <1>2 DEF Below
  <2> QED
    BY <1>5, <1>6, <2>1, <2>2, <2>3 DEF Below
<1>13. Between(z, Behind(x, CloseBrace), done2, open, outs2, pre)
  BY <1>6, <1>10, <1>11, <1>12 DEF Between
<1> QED
  BY <1>13 DEF AfterStatement, z

(***************************************************************************)
(* The file ends, and with it the blocks that are open.                    *)
(***************************************************************************)

\* f closes the blocks of s, from the innermost one out to that at j.
Closes(f, s, j) ==
    f = [k \in j .. Len(s) |->
            IF k = Len(s) THEN s[k]
            ELSE [s[k] EXCEPT ![Len(s[k])].block = <<f[k + 1]>>]]

\* There is such a function.
LEMMA ClosesExist ==
    ASSUME NEW s, NEW l \in Nat, Len(s) = l, NEW j \in 1 .. l
    PROVE  \E f : Closes(f, s, j)
<1> DEFINE B == {n \in 0 .. l - 1 : ~ \E f : Closes(f, s, l - n)}
<1>0. ASSUME B # {} PROVE FALSE
  <2>1. PICK n \in B : \A m \in B : n <= m
    <3>1. B \in SUBSET Nat /\ B # {}
      BY <1>0
    <3> HIDE DEF B
    <3> QED
      BY <3>1, LeastPosition
  <2>2. n # 0
    <3> DEFINE g == [k \in l .. l |-> s[k]]
    <3>1. g = [k \in l .. l |-> IF k = l THEN s[k]
                                ELSE [s[k] EXCEPT ![Len(s[k])].block = <<g[k + 1]>>]]
      OBVIOUS
    <3> HIDE DEF g
    <3>2. Closes(g, s, l)
      BY <3>1 DEF Closes
    <3>3. l - 0 = l
      OBVIOUS
    <3> QED
      BY <2>1, <3>2, <3>3
  <2> DEFINE i == l - n
  <2>3. /\ n - 1 \in 0 .. l - 1 /\ ~(n <= n - 1) /\ l - (n - 1) = i + 1
        /\ i \in Nat /\ i # l /\ i + 1 \in i .. l /\ i < l
    BY <2>1, <2>2
  <2>4. PICK g : Closes(g, s, i + 1)
    BY <2>1, <2>3
  <2> HIDE DEF i
  <2> DEFINE x == [s[i] EXCEPT ![Len(s[i])].block = <<g[i + 1]>>]
             h == [k \in i .. l |-> IF k = i THEN x ELSE g[k]]
  <2>5. ASSUME NEW k \in i .. l
        PROVE  h[k] = IF k = l THEN s[k]
                      ELSE [s[k] EXCEPT ![Len(s[k])].block = <<h[k + 1]>>]
    <3>1. CASE k = i
      <4>1. h[i] = x /\ h[i + 1] = g[i + 1]
        <5>1. i \in i .. l /\ i + 1 # i
          BY <2>3
        <5> HIDE DEF x
        <5> QED
          BY <2>3, <5>1
      <4> HIDE DEF h
      <4> QED
        BY <2>3, <3>1, <4>1
    <3>2. CASE k # i
      <4>1. k \in i + 1 .. l /\ h[k] = g[k]
        BY <2>3, <3>2
      <4>2. k # l => h[k + 1] = g[k + 1]
        BY <2>3, <3>2
      <4>3. g[k] = IF k = l THEN s[k]
                   ELSE [s[k] EXCEPT ![Len(s[k])].block = <<g[k + 1]>>]
        BY <2>4, <4>1 DEF Closes
      <4> HIDE DEF h
      <4> QED
        BY <4>1, <4>2, <4>3
    <3> QED
      BY <3>1, <3>2
  <2>6. h = [k \in i .. l |-> h[k]]
    OBVIOUS
  <2> HIDE DEF h
  <2>7. h = [k \in i .. l |-> IF k = l THEN s[k]
                              ELSE [s[k] EXCEPT ![Len(s[k])].block = <<h[k + 1]>>]]
    BY <2>5, <2>6
  <2>8. Closes(h, s, i)
    BY <2>7 DEF Closes
  <2> QED
    BY <2>1, <2>8 DEF i
<1>1. l - j \in 0 .. l - 1 /\ l - (l - j) = j
  OBVIOUS
<1> QED
  BY <1>0, <1>1

\* Whole is the outermost of them.
LEMMA WholeIs ==
    ASSUME NEW s, IsList(s), Len(s) # 0
    PROVE  \E f : Closes(f, s, 1) /\ Whole(s) = f[1]
<1>1. Len(s) \in Nat /\ DOMAIN s = 1 .. Len(s)
  <2>1. PICK A : s \in Seq(A)
    BY DEF IsList
  <2> QED
    BY <2>1
<1>2. 1 \in 1 .. Len(s)
  BY <1>1
<1>3. \E f : Closes(f, s, 1)
  BY <1>1, <1>2, ClosesExist
<1> DEFINE f == CHOOSE f : Closes(f, s, 1)
<1>4. Closes(f, s, 1)
  BY <1>3
<1>5. Whole(s) = f[1]
  BY <1>1 DEF Whole, Closes
<1> QED
  BY <1>4, <1>5

\* The braces of n blocks.
Closings(n) == [i \in 1 .. n |-> CloseBrace]

\* Those of one block more.
LEMMA ClosingsStep ==
    ASSUME NEW n \in Nat
    PROVE  /\ Closings(n) \in Seq(Int)
           /\ Closings(n + 1) = Closings(n) \o <<CloseBrace>>
           /\ Closings(0) = <<>>
<1>1. CloseBrace \in Int
  BY MarkTypes
<1> DEFINE a == Closings(n)
           b == Closings(n + 1)
<1>2. a \in Seq(Int) /\ Len(a) = n /\ \A i \in 1 .. n : a[i] = CloseBrace
  BY <1>1 DEF Closings
<1>3. b \in Seq(Int) /\ Len(b) = n + 1 /\ \A i \in 1 .. n + 1 : b[i] = CloseBrace
  <2> DEFINE l == n + 1
  <2>1. l \in Nat
    OBVIOUS
  <2> HIDE DEF l
  <2>2. /\ Closings(l) \in Seq(Int) /\ Len(Closings(l)) = l
        /\ \A i \in 1 .. l : Closings(l)[i] = CloseBrace
    BY <1>1, <2>1 DEF Closings
  <2> QED
    BY <2>2 DEF l
<1>4. Closings(0) = <<>>
  BY DEF Closings
<1> DEFINE c == Append(a, CloseBrace)
<1> HIDE DEF a, b
<1>5. /\ c \in Seq(Int) /\ Len(c) = n + 1 /\ c[n + 1] = CloseBrace
      /\ \A i \in 1 .. n : c[i] = CloseBrace
  BY <1>1, <1>2, AppendProperties
<1>6. c = a \o <<CloseBrace>>
  BY <1>1, <1>2, AppendIsConcat
<1> HIDE DEF c
<1>7. \A i \in 1 .. n + 1 : b[i] = c[i]
  BY <1>3, <1>5
<1>8. b = c
  BY ONLY <1>3, <1>5, <1>7, SeqEqual
<1> QED
  BY <1>2, <1>4, <1>6, <1>8 DEF a, b

\* The config is shown as all that was read, and the braces of its open blocks.
LEMMA ConfigEnds ==
    ASSUME NEW s, NEW x, AfterStatement(s, x)
    PROVE  Renders(Whole(s), x \o Closings(Len(s) - 1))
<1>1. PICK done, open, outs, pre : Between(s, x, done, open, outs, pre)
  BY DEF AfterStatement
<1> DEFINE m == Len(s)
<1>2. Below(s, done, open, outs, pre) /\ s[m] = done[m] /\ x = pre[m] \o outs[m]
  BY <1>1 DEF Between
<1>3. IsList(s) /\ m # 0 /\ m = Len(s) /\ m \in Nat
  <2>1. IsList(s) /\ m # 0
    BY <1>2 DEF Below
  <2> QED
    BY <2>1, TopAdded
<1>4. PICK f : Closes(f, s, 1) /\ Whole(s) = f[1]
  BY <1>3, WholeIs
<1> HIDE DEF m
<1>5. \A k \in 1 .. m : Renders(done[k], outs[k]) /\ pre[k] \in Seq(Int)
  BY <1>2, <1>3 DEF Below
<1>6. m \in 1 .. m /\ m - m = 0 /\ 1 \in 1 .. m /\ m - 1 \in Nat
  BY <1>3
<1>7. x \in Seq(Int)
  <2> DEFINE p == pre[m]
             o == outs[m]
  <2>1. p \in Seq(Int) /\ o \in Seq(Int)
    BY <1>5, <1>6 DEF Renders
  <2> HIDE DEF p, o
  <2>2. p \o o \in Seq(Int)
    BY <2>1, TextConcat
  <2> QED
    BY <1>2, <2>2 DEF p, o
<1> DEFINE Good(k) == \E o : Renders(f[k], o) /\ pre[k] \o o = x \o Closings(m - k)
           B == {n \in 0 .. m - 1 : ~Good(m - n)}
<1>8. Good(m)
  <2>1. f[m] = s[m]
    BY <1>3, <1>4, <1>6 DEF Closes
  <2>2. Renders(f[m], outs[m])
    BY <1>2, <1>5, <1>6, <2>1
  <2>3. Closings(m - m) = <<>>
    BY <1>6, ClosingsStep
  <2>4. x \o <<>> = x
    BY <1>7, TextConcat
  <2> QED
    BY <1>2, <2>2, <2>3, <2>4
<1>9. ASSUME NEW k \in 1 .. m - 1, Good(k + 1) PROVE Good(k)
  <2>1. PICK o : Renders(f[k + 1], o) /\ pre[k + 1] \o o = x \o Closings(m - (k + 1))
    BY <1>9
  <2>2. k \in 1 .. m /\ k + 1 \in 1 .. m /\ k # m /\ m - (k + 1) \in Nat
        /\ (m - (k + 1)) + 1 = m - k
    BY <1>3
  <2>3. /\ IsTokens(open[k])
        /\ s[k] = Behind(done[k], Statement(open[k], <<>>))
        /\ pre[k + 1] = (pre[k] \o outs[k]) \o (Words(open[k]) \o <<OpenBrace>>)
    BY <1>2, <1>3 DEF Below
  <2>4. f[k] = [s[k] EXCEPT ![Len(s[k])].block = <<f[k + 1]>>]
    BY <1>3, <1>4, <2>2 DEF Closes
  <2> DEFINE d == done[k]
             ts == open[k]
             y == s[k]
             b == f[k + 1]
             a == pre[k]
             c == outs[k]
             w == Words(ts) \o <<OpenBrace>>
             z == <<CloseBrace>>
             q == o \o z
             e == pre[k + 1]
             g == Closings(m - (k + 1))
  <2>5. /\ Renders(d, c) /\ IsTokens(ts) /\ Renders(b, o) /\ IsList(d)
        /\ y = Behind(d, Statement(ts, <<>>))
        /\ e = (a \o c) \o w /\ e \o o = x \o g
        /\ a \in Seq(Int) /\ c \in Seq(Int) /\ o \in Seq(Int) /\ e \in Seq(Int)
    BY <1>5, <2>1, <2>2, <2>3 DEF Renders
  <2>6. w \in Seq(Int) /\ z \in Seq(Int)
    <3>1. ts \in Seq(Seq(Int))
      BY <2>5 DEF IsTokens
    <3> HIDE DEF ts
    <3>2. Words(ts) \o <<OpenBrace>> \in Seq(Int)
      BY <3>1, MarkTypes, WordsTypes
    <3>3. <<CloseBrace>> \in Seq(Int)
      BY MarkTypes
    <3> QED
      BY <3>2, <3>3
  <2>7. g \in Seq(Int) /\ Closings(m - k) = g \o z
    <3> DEFINE i == m - (k + 1)
    <3>1. i \in Nat /\ m - k = i + 1
      BY <2>2
    <3> HIDE DEF i
    <3>2. Closings(i) \in Seq(Int) /\ Closings(i + 1) = Closings(i) \o <<CloseBrace>>
      BY <3>1, ClosingsStep
    <3> QED
      BY <3>1, <3>2 DEF i
  <2> HIDE DEF d, ts, y, b, a, c, z, e, g
  <2>8. [y EXCEPT ![Len(y)].block = <<b>>] = Behind(d, Statement(ts, <<b>>))
    <3>1. IsList(d) /\ y = Behind(d, Statement(ts, <<>>))
      BY <2>5
    <3>2. BlockGiven(y, d, ts, b)
      BY ONLY <3>1, BlockAdded
    <3> QED
      BY <3>2 DEF BlockGiven
  <2>9. Renders(Behind(d, Statement(ts, <<b>>)),
                c \o ((Words(ts) \o <<OpenBrace>>) \o (o \o <<CloseBrace>>)))
    BY ONLY <2>5, BlockDone
  <2>10. Renders(f[k], c \o (w \o q))
    BY <2>4, <2>8, <2>9 DEF y, b, z
  <2> HIDE DEF w, q
  <2>11. q \in Seq(Int) /\ q = o \o z
    <3>1. o \o z \in Seq(Int)
      BY ONLY <2>5, <2>6, TextConcat
    <3> QED
      BY <3>1 DEF q
  <2>12. e \o q = a \o (c \o (w \o q))
    <3>1. BlockLast(a, c, w, q)
      BY ONLY <2>5, <2>6, <2>11, BlockBehind
    <3> QED
      BY <2>5, <3>1 DEF BlockLast
  <2>13. (e \o o) \o z = e \o (o \o z)
    <3>1. GroupsAlike(e, o, z)
      BY ONLY <2>5, <2>6, TextsGroup
    <3> QED
      BY ONLY <3>1 DEF GroupsAlike
  <2>14. (x \o g) \o z = x \o (g \o z)
    <3>1. GroupsAlike(x, g, z)
      BY ONLY <1>7, <2>6, <2>7, TextsGroup
    <3> QED
      BY ONLY <3>1 DEF GroupsAlike
  <2>15. a \o (c \o (w \o q)) = x \o Closings(m - k)
    BY <2>5, <2>7, <2>11, <2>12, <2>13, <2>14
  <2> QED
    BY <2>10, <2>15 DEF a
<1> HIDE DEF Good
<1>10. ASSUME B # {} PROVE FALSE
  <2>1. PICK n \in B : \A i \in B : n <= i
    <3>1. B \in SUBSET Nat /\ B # {}
      BY <1>10
    <3> HIDE DEF B
    <3> QED
      BY <3>1, LeastPosition
  <2>2. n # 0
    <3>1. m - 0 = m
      BY <1>3
    <3> QED
      BY <1>8, <2>1, <3>1
  <2>3. /\ n - 1 \in 0 .. m - 1 /\ ~(n <= n - 1) /\ m - n \in 1 .. m - 1
        /\ m - (n - 1) = (m - n) + 1
    BY <1>3, <2>1, <2>2
  <2>4. Good((m - n) + 1)
    BY <2>1, <2>3
  <2> QED
    BY <1>9, <2>1, <2>3, <2>4
<1>11. Good(1)
  <2>1. m - 1 \in 0 .. m - 1 /\ m - (m - 1) = 1
    BY <1>3
  <2> QED
    BY <1>10, <2>1
<1>12. PICK o : Renders(f[1], o) /\ pre[1] \o o = x \o Closings(m - 1)
  BY <1>11 DEF Good
<1>13. pre[1] = <<>> /\ <<>> \o o = o
  <2>1. o \in Seq(Int)
    BY <1>12 DEF Renders
  <2>2. <<>> \o o = o
    BY <2>1, TextConcat
  <2>3. pre[1] = <<>>
    BY <1>2 DEF Below
  <2> QED
    BY <2>2, <2>3
<1> QED
  BY <1>4, <1>12, <1>13 DEF m

(***************************************************************************)
(* Parse.                                                                  *)
(***************************************************************************)

\* The stack holds x, when the token before was of type l.
Holds(s, l, x) == IF l = "NORMAL" THEN InStatement(s, x) ELSE AfterStatement(s, x)

\* As long as Parse goes on, the stack holds what is not blank of the text
\* that was read; it is empty only when a brace that closes none was the last.
ParseInv ==
    PlainText /\ phase = "parse" =>
        /\ at \in 1 .. Len(text) + 1
        /\ last \in TokenTypes
        /\ stack = <<>> => last = "END_BLOCK"
        /\ stack # <<>> =>
             \E u : /\ Blackens(u, text)
                    /\ Black(text) = u[Len(text)]
                    /\ Holds(stack, last, u[at - 1])

\* A config without a statement.
LEMMA NothingHeld == AfterStatement(<<<<>>>>, <<>>)
<1> DEFINE s == <<<<>>>>
           e == [k \in 1 .. 1 |-> <<>>]
<1>1. e[1] = <<>> /\ <<>> \in Seq(Int) /\ <<>> \o <<>> = <<>>
  OBVIOUS
<1>2. s[1] = <<>> /\ Len(s) = 1 /\ IsList(s)
  <2>1. s \in Seq({<<>>})
    OBVIOUS
  <2> QED
    BY <2>1 DEF IsList
<1>3. 1 .. 1 - 1 = {} /\ \A k \in 1 .. 1 : k = 1
  OBVIOUS
<1> HIDE DEF s, e
<1>4. Below(s, e, e, e, e)
  <2>1. \A k \in 1 .. Len(s) : Renders(e[k], e[k]) /\ e[k] \in Seq(Int)
    BY <1>1, <1>2, <1>3, NothingRenders
  <2>2. \A k \in 1 .. Len(s) - 1 : FALSE
    BY <1>2
  <2>3. IsList(s) /\ Len(s) # 0 /\ e[1] = <<>>
    BY <1>1, <1>2
  <2> QED
    BY ONLY <2>1, <2>2, <2>3 DEF Below
<1>5. Between(s, <<>>, e, e, e, e)
  BY <1>1, <1>2, <1>4 DEF Between
<1> QED
  BY <1>5 DEF AfterStatement, s

\* At the start nothing has been read.
LEMMA ParseStarts == ConfigInit => ParseInv /\ NothingLost
<1> SUFFICES ASSUME ConfigInit PROVE ParseInv /\ NothingLost
  OBVIOUS
<1>1. /\ at = 1 /\ phase = "parse" /\ last = "START" /\ stack = <<<<>>>>
  BY DEF ConfigInit
<1>2. NothingLost
  BY <1>1 DEF NothingLost
<1>3. ASSUME PlainText PROVE ParseInv
  <2>1. text \in Seq(Int) /\ Len(text) \in Nat /\ 1 \in 1 .. Len(text) + 1 /\ 1 - 1 = 0
    BY <1>3 DEF PlainText
  <2>2. PICK u : Blackens(u, text) /\ Black(text) = u[Len(text)]
    BY <2>1, BlackIs
  <2>3. u[at - 1] = <<>>
    BY <1>1, <2>1, <2>2, BlackensStep
  <2>4. Holds(stack, last, u[at - 1])
    BY <1>1, <2>3, NothingHeld DEF Holds
  <2>5. stack # <<>>
    BY <1>1
  <2> QED
    BY <1>1, <2>1, <2>2, <2>4, <2>5 DEF ParseInv, TokenTypes
<1> QED
  BY <1>2, <1>3 DEF ParseInv

\* The stack that holds a text is not empty.
LEMMA HeldIsHeld ==
    ASSUME NEW s, NEW l, NEW x, Holds(s, l, x)
    PROVE  s # <<>>
<1>1. \E done, open, outs, pre : Below(s, done, open, outs, pre)
  BY DEF Holds, InStatement, AfterStatement, Within, Between
<1>2. Len(s) # 0
  BY <1>1 DEF Below
<1> QED
  BY <1>2

\* A word goes to the stack.
LEMMA WordHeld ==
    ASSUME NEW s, NEW l, NEW x, Holds(s, l, x), NEW v \in Seq(Int)
    PROVE  InStatement([s EXCEPT ![Len(s)] =
                            IF l = "NORMAL" THEN WithToken(@, v)
                            ELSE Append(@, Statement(<<v>>, <<>>))],
                       x \o Black(v))
<1>1. CASE l = "NORMAL"
  <2>1. InStatement(s, x)
    BY <1>1 DEF Holds
  <2>2. InStatement([s EXCEPT ![Len(s)] = WithToken(@, v)], x \o Black(v))
    BY ONLY <2>1, v \in Seq(Int), WordFollows
  <2> QED
    BY <1>1, <2>2
<1>2. CASE l # "NORMAL"
  <2>1. AfterStatement(s, x)
    BY <1>2 DEF Holds
  <2>2. InStatement([s EXCEPT ![Len(s)] = Behind(@, Statement(<<v>>, <<>>))], x \o Black(v))
    BY ONLY <2>1, v \in Seq(Int), WordBegins
  <2> QED
    BY <1>2, <2>2 DEF Behind
<1> QED
  BY <1>1, <1>2

\* A step of Parse that goes on, in a text that NothingLost is about: the
\* stack holds the token that was read, and what was read before.
LEMMA TokenHeld ==
    ASSUME ParseInv, PlainText, phase = "parse", phase' = "parse", ParseStep
    PROVE  /\ stack # <<>>
           /\ at' \in 1 .. Len(text) + 1
           /\ last' \in TokenTypes
           /\ stack' = <<>> => last' = "END_BLOCK"
           /\ stack' # <<>> => \E u : /\ Blackens(u, text)
                                     /\ Black(text) = u[Len(text)]
                                     /\ Holds(stack', last', u[at' - 1])
<1> DEFINE token == ParseToken(at)
<1>1. /\ at \in 1 .. Len(text) + 1
      /\ last \in TokenTypes
      /\ stack = <<>> => last = "END_BLOCK"
  BY DEF ParseInv
<1>2. text \in Seq(Int)
  BY DEF PlainText
<1>3. \A u : Blackens(u, text) => Takes(u, at, token)
  BY <1>1, TokenTakes
<1>4. token.type # "COMMENT"
  <2>1. PICK u : Blackens(u, text)
    BY <1>2, BlackIs
  <2> QED
    BY <1>3, <2>1 DEF Takes
<1>5. \/ ParseWord(token)
      \/ ParseStatementEnd(token)
      \/ ParseStartBlock(token)
      \/ ParseEndBlock(token)
  BY <1>4 DEF ParseStep, ParseComment, ParseUndefined, ParseEnd, ParseRefuses, Reads
<1> HIDE DEF token
<1>6. stack # <<>>
  BY <1>1, <1>5 DEF ParseWord, ParseStatementEnd, ParseStartBlock, ParseEndBlock, Reads
<1>7. PICK u : /\ Blackens(u, text)
               /\ Black(text) = u[Len(text)]
               /\ Holds(stack, last, u[at - 1])
  BY <1>6 DEF ParseInv
<1>8. Takes(u, at, token)
  BY <1>3, <1>7
<1> DEFINE x == u[at - 1]
           Good == /\ at' \in 1 .. Len(text) + 1
                   /\ last' \in TokenTypes
                   /\ stack' = <<>> => last' = "END_BLOCK"
                   /\ stack' # <<>> => Holds(stack', last', u[at' - 1])
<1>9. CASE ParseWord(token)
  <2>1. token.type = "NORMAL" /\ at' = token.next /\ last' = "NORMAL"
    BY <1>9 DEF ParseWord, Reads
  <2>2. token.next \in 1 .. Len(text) + 1 /\ token.value \in Seq(Int)
        /\ u[token.next - 1] = x \o Black(token.value)
    BY <1>8, <2>1 DEF Takes
  <2>3. stack' = [stack EXCEPT ![Len(stack)] =
                      IF last = "NORMAL" THEN WithToken(@, token.value)
                      ELSE Append(@, Statement(<<token.value>>, <<>>))]
    BY <1>9 DEF ParseWord
  <2>4. InStatement(stack', u[token.next - 1])
    <3> DEFINE v == token.value
    <3>1. Holds(stack, last, x) /\ v \in Seq(Int)
      BY <1>7, <2>2
    <3> HIDE DEF v, x
    <3>2. InStatement([stack EXCEPT ![Len(stack)] =
                            IF last = "NORMAL" THEN WithToken(@, v)
                            ELSE Append(@, Statement(<<v>>, <<>>))],
                       x \o Black(v))
      BY ONLY <3>1, WordHeld
    <3> QED
      BY <2>2, <2>3, <3>2 DEF v
  <2>5. Holds(stack', last', u[at' - 1])
    BY <2>1, <2>4 DEF Holds
  <2>6. Good
    BY <2>1, <2>2, <2>5, HeldIsHeld DEF TokenTypes
  <2> QED
    BY <1>6, <1>7, <2>6
<1>10. CASE ParseStatementEnd(token)
  <2>1. /\ token.type = "STATEMENT_END" /\ at' = token.next /\ last = "NORMAL"
        /\ last' = "STATEMENT_END" /\ stack' = stack
    BY <1>10 DEF ParseStatementEnd, Reads
  <2>2. token.next \in 1 .. Len(text) + 1 /\ u[token.next - 1] = Append(x, Semicolon)
    BY <1>8, <2>1 DEF Takes
  <2>3. AfterStatement(stack, Behind(x, Semicolon))
    <3>1. InStatement(stack, x)
      BY <1>7, <2>1 DEF Holds
    <3> HIDE DEF x
    <3> QED
      BY ONLY <3>1, StatementCloses
  <2>4. Holds(stack', last', u[at' - 1])
    BY <2>1, <2>2, <2>3 DEF Holds, Behind
  <2>5. Good
    BY <2>1, <2>2, <2>4, HeldIsHeld DEF TokenTypes
  <2> QED
    BY <1>6, <1>7, <2>5
<1>11. CASE ParseStartBlock(token)
  <2>1. /\ token.type = "START_BLOCK" /\ at' = token.next /\ last = "NORMAL"
        /\ last' = "START_BLOCK" /\ stack' = Append(stack, <<>>)
    BY <1>11 DEF ParseStartBlock, Reads
  <2>2. token.next \in 1 .. Len(text) + 1 /\ u[token.next - 1] = Append(x, OpenBrace)
    BY <1>8, <2>1 DEF Takes
  <2>3. AfterStatement(Behind(stack, <<>>), Behind(x, OpenBrace))
    <3>1. InStatement(stack, x)
      BY <1>7, <2>1 DEF Holds
    <3> HIDE DEF x
    <3> QED
      BY ONLY <3>1, BlockOpens
  <2>4. Holds(stack', last', u[at' - 1])
    BY <2>1, <2>2, <2>3 DEF Holds, Behind
  <2>5. Good
    BY <2>1, <2>2, <2>4, HeldIsHeld DEF TokenTypes
  <2> QED
    BY <1>6, <1>7, <2>5
<1>12. CASE ParseEndBlock(token)
  <2>1. /\ token.type = "END_BLOCK" /\ at' = token.next /\ last # "NORMAL"
        /\ last' = "END_BLOCK"
        /\ stack' = IF Len(stack) = 1 THEN <<>> ELSE Shut(stack)
    BY <1>12 DEF ParseEndBlock, Reads
  <2>2. token.next \in 1 .. Len(text) + 1 /\ u[token.next - 1] = Append(x, CloseBrace)
    BY <1>8, <2>1 DEF Takes
  <2>3. ASSUME Len(stack) # 1 PROVE Holds(stack', last', u[at' - 1])
    <3>1. AfterStatement(stack, x)
      BY <1>7, <2>1 DEF Holds
    <3> HIDE DEF x
    <3>2. AfterStatement(Shut(stack), Behind(x, CloseBrace))
      BY ONLY <2>3, <3>1, BlockCloses
    <3> QED
      BY <2>1, <2>2, <2>3, <3>2 DEF Holds, Behind
  <2>4. Good
    BY <2>1, <2>2, <2>3 DEF TokenTypes
  <2> QED
    BY <1>6, <1>7, <2>4
<1> QED
  BY <1>5, <1>9, <1>10, <1>11, <1>12

\* At the end of the text the config is all that was read.
LEMMA ConfigHeld ==
    ASSUME ParseInv, text \in Seq(Int), phase = "parse", phase' = "port", ParseStep
    PROVE  NothingLost'
<1>1. PICK token \in {ParseToken(at)} : ParseEnd(token)
  BY DEF ParseStep, ParseComment, ParseWord, ParseStatementEnd, ParseStartBlock,
         ParseEndBlock, ParseUndefined, ParseRefuses, Reads
<1>2. /\ token.type = "EOF" /\ last # "NORMAL" /\ text' = text /\ stack' = stack
      /\ tree' = IF stack = <<>> THEN tree ELSE Whole(stack)
  BY <1>1 DEF ParseEnd, Reads
<1> SUFFICES ASSUME PlainText, stack # <<>>
             PROVE  ShowsAs(tree', Black(text) \o Closings(Len(stack) - 1))
  BY <1>2 DEF NothingLost, PlainText, Closings
<1>3. PICK u : /\ Blackens(u, text)
               /\ Black(text) = u[Len(text)]
               /\ Holds(stack, last, u[at - 1])
  BY DEF ParseInv
<1>4. Takes(u, at, token)
  BY <1>1, <1>3, TokenTakes DEF ParseInv
<1>5. Black(text) = u[at - 1]
  BY <1>2, <1>3, <1>4 DEF Takes
<1>6. AfterStatement(stack, Black(text))
  BY <1>2, <1>3, <1>5 DEF Holds
<1> DEFINE x == Black(text)
<1> HIDE DEF x
<1>7. AfterStatement(stack, x)
  BY <1>6 DEF x
<1>8. Renders(Whole(stack), x \o Closings(Len(stack) - 1))
  BY ONLY <1>7, ConfigEnds
<1> DEFINE l == Whole(stack)
           o == x \o Closings(Len(stack) - 1)
<1>9. Renders(l, o)
  BY <1>8
<1> HIDE DEF l, o
<1>10. ShowsAs(l, o)
  BY ONLY <1>9, RenderedIsShown
<1> QED
  BY <1>2, <1>10 DEF l, o, x

\* Parse keeps what it has read, up to its end.
LEMMA ParseKeeps ==
    ASSUME ParseInv, text \in Seq(Int), ParseStep
    PROVE  ParseInv' /\ NothingLost'
<1>1. phase = "parse" /\ text' = text
  BY DEF ParseStep, ParseComment, ParseWord, ParseStatementEnd, ParseStartBlock,
         ParseEndBlock, ParseUndefined, ParseEnd, ParseRefuses, Reads
<1>2. ParseInv'
  <2> SUFFICES ASSUME PlainText, phase' = "parse" PROVE ParseInv'
    BY <1>1 DEF ParseInv, PlainText
  <2> QED
    BY <1>1, TokenHeld DEF ParseInv
<1>3. NothingLost'
  BY <1>1, ConfigHeld DEF NothingLost
<1> QED
  BY <1>2, <1>3

\* Nothing that follows changes the config.
LEMMA ReadersKeep ==
    ASSUME ParseInv, NothingLost, PortStep \/ LocationStep \/ ExtractEnds
    PROVE  ParseInv' /\ NothingLost'
<1>1. /\ phase # "parse" /\ phase' # "parse"
      /\ phase' = "port" => phase = "port"
      /\ UNCHANGED <<text, stack, tree>>
  <2>1. CASE PortStep
    BY <2>1 DEF PortStep, SkipPort, ExtractPort, NoPort, parseVars
  <2>2. CASE LocationStep
    BY <2>2 DEF LocationStep, MeetsBrace, MeetsLocation, MeetsPath, MeetsOtherSlash,
                MeetsRoot, MeetsIndex, MeetsNoDirective, ExtractHangs, Hangs, Meets,
                GoesOn, parseVars
  <2>3. CASE ExtractEnds
    BY <2>3 DEF ExtractEnds, parseVars
  <2> QED
    BY <2>1, <2>2, <2>3
<1>2. ParseInv'
  BY <1>1 DEF ParseInv
<1>3. NothingLost'
  BY <1>1 DEF NothingLost
<1> QED
  BY <1>2, <1>3

\* Nor does a step of something else.
LEMMA ConfigStays ==
    ASSUME ParseInv, NothingLost, UNCHANGED configVars
    PROVE  ParseInv' /\ NothingLost'
<1>1. UNCHANGED <<text, at, phase, last, stack, tree>>
  BY DEF configVars, parseVars
<1>2. ParseInv'
  BY <1>1 DEF ParseInv, PlainText
<1>3. NothingLost'
  BY <1>1 DEF NothingLost
<1> QED
  BY <1>2, <1>3

(***************************************************************************)
(* The paths that ExtractLocation finds.                                   *)
(***************************************************************************)

\* What Find returns short of the end is a position with one of the characters.
LEMMA FindIs ==
    ASSUME NEW t \in Seq(Int), NEW i \in Nat, NEW S, Find(t, i, S) <= Len(t)
    PROVE  Find(t, i, S) \in i .. Len(t) /\ t[Find(t, i, S)] \in S
<1> DEFINE F == {j \in i .. Len(t) : t[j] \in S}
<1>1. Len(t) \in Nat /\ ~(Len(t) + 1 <= Len(t))
  OBVIOUS
<1>2. \E j \in i .. Len(t) : t[j] \in S
  BY <1>1 DEF Find
<1>3. F \in SUBSET Nat /\ F # {}
  BY <1>2
<1>4. PICK m \in F : \A n \in F : m <= n
  BY ONLY <1>3, LeastPosition
<1>5. m \in i .. Len(t) /\ t[m] \in S /\ \A k \in i .. m - 1 : t[k] \notin S
  BY <1>4
<1>6. Find(t, i, S) = CHOOSE j \in i .. Len(t) :
                          t[j] \in S /\ \A k \in i .. j - 1 : t[k] \notin S
  BY <1>2 DEF Find
<1> QED
  BY <1>5, <1>6

\* The loop is at a slash, and the path goes from there up to a blank: it is
\* one that begins with a slash.
LEMMA PathFound ==
    ASSUME text \in Seq(Int), Meets(Slash), PathEnd <= Len(text)
    PROVE  IsPath(SubSeq(text, Here, PathEnd - 1))
<1>1. Slash # EndOfFile /\ Slash \notin Spaces /\ text \in Seq(Int)
  BY DEF Slash, EndOfFile, Spaces, Tab, LF, CR, Space
<1>2. Here \in DOMAIN text /\ text[Here] = Slash
  BY <1>1 DEF Meets, CharAt
<1> DEFINE b == Here
           e == PathEnd
<1>3. b \in 1 .. Len(text) /\ b \in Nat /\ Len(text) \in Nat
  BY <1>1, <1>2
<1>4. Find(text, b, Spaces) <= Len(text)
  BY DEF PathEnd
<1>5. e = Find(text, b, Spaces)
  BY DEF PathEnd
<1> HIDE DEF b, e
<1>6. e \in b .. Len(text) /\ text[e] \in Spaces
  BY ONLY <1>1, <1>3, <1>4, <1>5, FindIs
<1>7. text[b] = Slash
  BY <1>2 DEF b
<1>8. b \in Int /\ e - 1 \in Int /\ b <= e - 1 /\ 1 \in 1 .. (e - 1) - b + 1 /\ b + 1 - 1 = b
      /\ \A j \in b .. e - 1 : j \in 1 .. Len(text)
  BY ONLY <1>1, <1>3, <1>6, <1>7
<1>9. \A j \in b .. e - 1 : text[j] \in Int
  BY ONLY <1>1, <1>8, ElementOfSeq
<1> DEFINE l == e - 1
           p == SubSeq(text, b, l)
<1>10. /\ p \in Seq(Int)
       /\ Len(p) = IF b <= l THEN l - b + 1 ELSE 0
       /\ \A i \in 1 .. l - b + 1 : p[i] = text[b + i - 1]
  <2>1. l \in Int /\ b \in Int /\ \A j \in b .. l : text[j] \in Int
    BY ONLY <1>8, <1>9
  <2> HIDE DEF l
  <2> QED
    BY ONLY <2>1, SubSeqProperties
<1> HIDE DEF p
<1>11. p[1] = Slash /\ Len(p) # 0
  <2>1. p[1] = text[b + 1 - 1]
    BY ONLY <1>8, <1>10
  <2>2. Len(p) # 0
    BY ONLY <1>8, <1>10
  <2> QED
    BY ONLY <1>7, <1>8, <2>1, <2>2
<1>12. p # <<>>
  BY ONLY <1>11
<1>13. IsPath(p)
  BY ONLY <1>10, <1>11, <1>12 DEF IsPath
<1> QED
  BY <1>13 DEF p, b, e

(***************************************************************************)
(* The target that parse_req_str finds.                                    *)
(***************************************************************************)

\* What is found is found in the text, or nowhere.
LEMMA FoundInText ==
    ASSUME NEW t \in Seq(Int), NEW c, NEW i \in Nat
    PROVE  FindChar(t, c, i) = 0 \/ FindChar(t, c, i) \in i .. Len(t)
<1> DEFINE F == {j \in i .. Len(t) - Len(<<c>>) + 1 : SubSeq(t, j, j + Len(<<c>>) - 1) = <<c>>}
<1>1. Len(<<c>>) = 1 /\ Len(t) \in Nat
  OBVIOUS
<1>2. \A j \in F : j \in i .. Len(t)
  BY <1>1
<1>3. FindChar(t, c, i) = IF F = {} THEN 0 ELSE Min(F)
  BY DEF FindChar, FindText
<1> HIDE DEF F
<1>4. ASSUME F # {} PROVE Min(F) \in F
  <2>1. F \in SUBSET Nat
    BY <1>1, <1>2
  <2>2. PICK m \in F : \A n \in F : m <= n
    BY ONLY <1>4, <2>1, LeastPosition
  <2> QED
    BY <2>2 DEF Min
<1> QED
  BY <1>2, <1>3, <1>4

\* The target is a text.
LEMMA TargetIsText ==
    ASSUME NEW t \in Seq(Int), Parses(t)
    PROVE  TargetOf(t) \in Seq(Int)
<1> DEFINE b == FindChar(t, Slash, 1)
           e == FindChar(t, Space, b)
           l == e - 1
<1>1. b # 0 /\ 1 \in Nat
  BY DEF Parses
<1>2. b \in 1 .. Len(t)
  BY ONLY <1>1, FoundInText, t \in Seq(Int)
<1> HIDE DEF b
<1>3. b \in Nat /\ Len(t) \in Nat
  BY <1>2
<1>4. e = 0 \/ e \in b .. Len(t)
  BY ONLY <1>3, FoundInText, t \in Seq(Int)
<1>5. TargetOf(t) = IF e = 0 THEN <<>> ELSE SubSeq(t, b, l)
  BY DEF TargetOf, b
<1> HIDE DEF e
<1>6. CASE e # 0
  <2>1. l \in Int /\ b \in Int /\ \A j \in b .. l : j \in 1 .. Len(t)
    BY <1>2, <1>4, <1>6
  <2>2. \A j \in b .. l : t[j] \in Int
    BY ONLY <2>1, ElementOfSeq, t \in Seq(Int)
  <2> HIDE DEF l
  <2>3. SubSeq(t, b, l) \in Seq(Int)
    BY ONLY <2>1, <2>2, SubSeqProperties
  <2> QED
    BY <1>5, <1>6, <2>3
<1>7. CASE e = 0
  BY <1>5, <1>7, EmptySeq
<1> QED
  BY <1>6, <1>7

\* Whatever a session reads is a text, as far as the first NUL.
LEMMA TextsAreTexts ==
    \A t \in Texts, m \in Stale : UpToNul(t \o m) \in Seq(Int)
<1>1. \A r \in Sendings : Layout(RequestText(r), r)
  BY SendingsAssumption, TextLayout
<1>2. \A r \in Sendings : RequestText(r) \in Seq(Int)
  BY <1>1 DEF Layout
<1>3. Garbled \subseteq Seq(Int) /\ Stale \subseteq Seq(Int)
  BY SendingsAssumption
<1>4. Texts \subseteq Seq(Int)
  BY <1>2, <1>3 DEF Texts
<1>5. \A t \in Texts, m \in Stale : t \o m \in Seq(Int)
  BY <1>3, <1>4, TextConcat
<1> QED
  BY <1>5, UpToNulIsText

(***************************************************************************)
(* The invariant.                                                          *)
(***************************************************************************)

\* The paths of the locations found so far begin with a slash, and a root is
\* one of a path that has a location.
ExtractInv ==
    /\ text \in Seq(Int)
    /\ location_info = [handler |-> location_info.handler,
                       root |-> location_info.root,
                       index |-> location_info.index]
    /\ \A p \in DOMAIN location_info.handler : IsPath(p)
    /\ DOMAIN location_info.root \subseteq DOMAIN location_info.handler
    /\ path_name # <<>> => path_name \in DOMAIN location_info.handler

\* The Dispatcher gets the locations once all are found, and then the target
\* of a request that parses.
LinkInv ==
    /\ phase # "serving" => Undispatched
    /\ phase = "serving" => /\ path_to_handler = Named(location_info.handler)
                            /\ path_to_root = Named(location_info.root)
    /\ stage \in {"searching", "done"} => /\ Parses(data_str)
                                       /\ left \in Seq(Int)
                                       /\ data_str = UpToNul(sent \o left)
                                       /\ target = TargetOf(data_str)

\* The two components' invariants and what links them.
FrontEndInv == DispatcherInv /\ RequestAsSent /\ ExtractInv /\ LinkInv

\* Names are handlers and roots.
LEMMA NamesKnown ==
    ASSUME NEW f
    PROVE  /\ DOMAIN Named(f) = DOMAIN f
           /\ Named(f) \in [DOMAIN f -> Handlers]
           /\ Named(f) \in [DOMAIN f -> Roots]
<1>1. \A t : Name(t) \in Names
  BY DEF Name, Names, Range
<1> QED
  BY <1>1, FrontEndAssumption DEF Named

\* It holds at the start.
LEMMA FrontEndStarts == FrontEndInit => FrontEndInv
<1> SUFFICES ASSUME FrontEndInit PROVE FrontEndInv
  OBVIOUS
<1>1. RequestAsSent
  BY RequestStarts DEF FrontEndInit
<1>2. ExtractInv
  BY FrontEndAssumption DEF FrontEndInit, ConfigInit, ExtractInv, NoLocations
<1>3. Undispatched
  BY DEF FrontEndInit, Undispatched
<1>4. LinkInv
  BY <1>3 DEF FrontEndInit, ConfigInit, LinkInv, Undispatched
<1> QED
  BY <1>1, <1>2, <1>3, <1>4, UndispatchedHolds DEF FrontEndInv

\* Reading the tree and the port does not get to the locations.
LEMMA ReadingKeeps ==
    ASSUME ExtractInv, ParseStep \/ PortStep
    PROVE  ExtractInv' /\ phase # "serving" /\ phase' # "serving"
<1>1. CASE ParseStep
  <2>1. PICK token \in {ParseToken(at)} : \/ ParseComment(token)
                                         \/ ParseWord(token)
                                         \/ ParseStatementEnd(token)
                                         \/ ParseStartBlock(token)
                                         \/ ParseEndBlock(token)
                                         \/ ParseUndefined(token)
                                         \/ ParseEnd(token)
                                         \/ ParseRefuses(token)
    BY <1>1 DEF ParseStep
  <2>2. \E type, after : Reads(token, type, after)
    BY <2>1 DEF ParseComment, ParseWord, ParseStatementEnd, ParseStartBlock, ParseEndBlock,
                ParseUndefined, ParseEnd, ParseRefuses
  <2>3. phase = "parse" /\ UNCHANGED <<text, extractVars>>
    BY <2>2 DEF Reads
  <2>4. phase' # "serving"
    BY <2>1, <2>3 DEF ParseComment, ParseWord, ParseStatementEnd, ParseStartBlock,
                      ParseEndBlock, ParseUndefined, ParseEnd, ParseRefuses
  <2> QED
    BY <2>3, <2>4 DEF ExtractInv, extractVars
<1>2. CASE PortStep
  <2>1. phase = "port" /\ phase' # "serving" /\ UNCHANGED <<text, extractVars>>
    BY <1>2 DEF PortStep, SkipPort, ExtractPort, NoPort
  <2> QED
    BY <2>1 DEF ExtractInv, extractVars
<1> QED
  BY <1>1, <1>2

\* Every location that is found has a path.
LEMMA ExtractKeeps ==
    ASSUME ExtractInv, LocationStep
    PROVE  ExtractInv' /\ phase # "serving" /\ phase' # "serving"
<1>1. \A c : Meets(c) => phase = "locations"
  BY DEF Meets
<1>2. CASE \/ MeetsBrace \/ MeetsLocation \/ MeetsOtherSlash
           \/ MeetsNoDirective \/ ExtractHangs
  <2>1. /\ phase = "locations" /\ phase' # "serving"
        /\ UNCHANGED <<text, path_name, location_info>>
    BY <1>1, <1>2 DEF MeetsBrace, MeetsLocation, MeetsOtherSlash, MeetsNoDirective,
                      ExtractHangs, Hangs, GoesOn, extractVars
  <2> QED
    BY <2>1 DEF ExtractInv
<1>3. CASE MeetsPath
  <2>1. phase = "locations" /\ phase' = phase /\ text' = text
    BY <1>1, <1>3 DEF MeetsPath, GoesOn
  <2>2. IsPath(path_name')
    BY <1>3, PathFound DEF MeetsPath, ExtractInv
  <2>3. /\ location_info' = [handler |-> location_info'.handler,
                             root |-> location_info.root,
                             index |-> location_info.index]
        /\ DOMAIN location_info'.handler = DOMAIN location_info.handler \cup {path_name'}
    BY <1>3 DEF MeetsPath, ExtractInv, Set
  <2> QED
    BY <2>1, <2>2, <2>3 DEF ExtractInv
<1>4. CASE MeetsRoot
  <2>1. phase = "locations" /\ phase' = phase /\ text' = text /\ path_name' = path_name
    BY <1>1, <1>4 DEF MeetsRoot, GoesOn
  <2>2. path_name # <<>>
    BY <1>4 DEF MeetsRoot, Directive
  <2>3. /\ location_info' = [handler |-> location_info.handler,
                             root |-> location_info'.root,
                             index |-> location_info.index]
        /\ DOMAIN location_info'.root = DOMAIN location_info.root \cup {path_name}
    BY <1>4 DEF MeetsRoot, ExtractInv, Set
  <2> QED
    BY <2>1, <2>2, <2>3 DEF ExtractInv
<1>5. CASE MeetsIndex
  <2>1. phase = "locations" /\ phase' = phase /\ text' = text /\ path_name' = path_name
    BY <1>1, <1>5 DEF MeetsIndex, GoesOn
  <2>2. location_info' = [handler |-> location_info.handler,
                          root |-> location_info.root,
                          index |-> location_info'.index]
    BY <1>5 DEF MeetsIndex, ExtractInv
  <2> QED
    BY <2>1, <2>2 DEF ExtractInv
<1> QED
  BY <1>2, <1>3, <1>4, <1>5 DEF LocationStep

\* No variable of the Dispatcher changes, nor any of its properties.
LEMMA DispatcherStays ==
    DispatcherInv /\ UNCHANGED dispatcherVars => DispatcherInv'
BY DispatcherKeeps

\* What is before the first dispatch stays so, and is what the Dispatcher
\* starts from.
LEMMA UndispatchedStays == Undispatched /\ UNCHANGED dispatcherVars => Undispatched'
BY DEF Undispatched, dispatcherVars, config

\* The invariant of the Dispatcher, one step later.
LEMMA UndispatchedNext == Undispatched' => DispatcherInv'
BY UndispatchedHolds, PTL

\* The parsers keep the invariant.
LEMMA ConfigureKeeps == FrontEndInv /\ Configure => FrontEndInv'
<1> SUFFICES ASSUME FrontEndInv, Configure PROVE FrontEndInv'
  OBVIOUS
<1>1. ExtractInv' /\ phase # "serving" /\ phase' # "serving"
  BY ReadingKeeps, ExtractKeeps DEF FrontEndInv, Configure
<1>2. UNCHANGED dispatcherVars /\ UNCHANGED requestVars
  BY DEF Configure
<1>3. DispatcherInv' /\ RequestAsSent'
  BY <1>2, DispatcherStays, RequestKeeps DEF FrontEndInv
<1>4. Undispatched'
  BY <1>1, <1>2, UndispatchedStays DEF FrontEndInv, LinkInv
<1>5. stage' = "dispatching"
  BY <1>4 DEF Undispatched
<1>6. LinkInv'
  BY <1>1, <1>4, <1>5 DEF LinkInv
<1> QED
  BY <1>1, <1>3, <1>6 DEF FrontEndInv

\* So does ExtractLocation when it hands over what it found.
LEMMA InitializeKeeps == FrontEndInv /\ InitializeHandlers => FrontEndInv'
<1> SUFFICES ASSUME FrontEndInv, InitializeHandlers PROVE FrontEndInv'
  OBVIOUS
<1>1. /\ phase # "serving" /\ phase' = "serving"
      /\ UNCHANGED <<text, path_name, location_info>>
  BY DEF InitializeHandlers, ExtractEnds, extractVars
<1>2. ExtractInv'
  BY <1>1 DEF FrontEndInv, ExtractInv
<1>3. RequestAsSent'
  BY RequestKeeps DEF FrontEndInv, InitializeHandlers
<1>4. Undispatched
  BY <1>1 DEF FrontEndInv, LinkInv
<1>5. /\ path_to_handler' = Named(location_info.handler)
      /\ path_to_root' = Named(location_info.root)
      /\ todo' = DOMAIN path_to_handler'
      /\ UNCHANGED <<routes, stage, target, unseen, matched_path, found>>
  BY DEF InitializeHandlers
<1>6. /\ DOMAIN path_to_handler' = DOMAIN location_info.handler
      /\ DOMAIN path_to_root' = DOMAIN location_info.root
      /\ path_to_handler' \in [DOMAIN path_to_handler' -> Handlers]
      /\ path_to_root' \in [DOMAIN path_to_root' -> Roots]
  BY <1>5, NamesKnown
<1>7. /\ \A p \in DOMAIN path_to_handler' : IsPath(p)
      /\ DOMAIN path_to_root' \subseteq DOMAIN path_to_handler'
  BY <1>6 DEF FrontEndInv, ExtractInv
<1>8. Undispatched'
  BY <1>4, <1>5, <1>6, <1>7 DEF Undispatched
<1>9. DispatcherInv'
  BY <1>8, UndispatchedNext
<1>10. stage' = "dispatching"
  BY <1>8 DEF Undispatched
<1>11. LinkInv'
  BY <1>1, <1>5, <1>10 DEF LinkInv, Named
<1> QED
  BY <1>2, <1>3, <1>9, <1>11 DEF FrontEndInv

\* Nor does anything change in the file and in what was found there once the
\* server is serving.
LEMMA ServingKeeps ==
    ASSUME FrontEndInv, Serving, UNCHANGED config
    PROVE  /\ ExtractInv' /\ phase' = "serving"
           /\ path_to_handler' = Named(location_info'.handler)
           /\ path_to_root' = Named(location_info'.root)
<1>1. UNCHANGED <<text, phase, path_name, location_info>> /\ phase = "serving"
  BY DEF Serving, configVars, extractVars
<1>2. ExtractInv'
  BY <1>1 DEF FrontEndInv, ExtractInv
<1>3. path_to_handler' = path_to_handler /\ path_to_root' = path_to_root
  BY DEF config
<1> QED
  BY <1>1, <1>2, <1>3 DEF FrontEndInv, LinkInv, Named

\* Dispatching and searching do not touch the request.
LEMMA RoutingKeeps == FrontEndInv /\ (DispatchLocations \/ Route) => FrontEndInv'
<1> SUFFICES ASSUME FrontEndInv, DispatchLocations \/ Route PROVE FrontEndInv'
  OBVIOUS
<1>1. Serving /\ UNCHANGED requestVars
  BY DEF DispatchLocations, Route
<1>2. DispatcherNext /\ UNCHANGED <<config, target>>
  BY DEF DispatchLocations, Route, DispatcherNext, Dispatch, Initialized, Compare, GetHandler
<1>3. DispatcherInv'
  BY <1>2, DispatcherKeeps DEF FrontEndInv
<1>4. RequestAsSent'
  BY <1>1, RequestKeeps DEF FrontEndInv
<1>5. stage' \in {"searching", "done"} => stage = "searching"
  <2>1. \A p \in todo : stage = "dispatching"
    BY DEF FrontEndInv, DispatcherInv, SearchInv
  <2>2. \A r \in unseen : stage = "searching"
    BY DEF FrontEndInv, DispatcherInv, SearchInv
  <2> QED
    BY <2>1, <2>2 DEF DispatchLocations, Route, Dispatch, Initialized, Compare, GetHandler
<1>6. UNCHANGED <<sent, left, data_str, target>>
  BY <1>1, <1>2 DEF requestVars
<1>7. LinkInv'
  <2>1. stage' \in {"searching", "done"} => /\ Parses(data_str')
                                             /\ left' \in Seq(Int)
                                             /\ data_str' = UpToNul(sent' \o left')
                                             /\ target' = TargetOf(data_str')
    BY <1>5, <1>6 DEF FrontEndInv, LinkInv
  <2> QED
    BY <1>1, <1>2, <2>1, ServingKeeps DEF LinkInv
<1> QED
  BY <1>1, <1>2, <1>3, <1>4, <1>7, ServingKeeps DEF FrontEndInv

\* A request that parses is searched for by its target.
LEMMA HandleReadKeeps == FrontEndInv /\ HandleRead => FrontEndInv'
<1> SUFFICES ASSUME FrontEndInv, HandleRead PROVE FrontEndInv'
  OBVIOUS
<1>1. Serving /\ Read /\ SplitUri(info'.query)
  BY DEF HandleRead
<1>2. /\ data_str' \in Seq(Int) /\ Parses(data_str') /\ left' \in Seq(Int)
      /\ data_str' = UpToNul(sent' \o left')
      /\ info'.query = TargetOf(data_str')
  BY <1>1, TextsAreTexts, SendingsAssumption DEF Read, ReadSome, parse_req_str
<1>3. TargetOf(data_str') \in Seq(Int)
  BY <1>2, TargetIsText
<1>4. DispatcherInv'
  BY <1>1, <1>2, <1>3, SplitUriKeeps DEF FrontEndInv
<1>5. RequestAsSent'
  BY <1>1, RequestKeeps DEF FrontEndInv
<1>6. UNCHANGED config /\ target' = TargetOf(data_str')
  BY <1>1, <1>2 DEF SplitUri
<1>7. LinkInv'
  BY <1>1, <1>2, <1>6, ServingKeeps DEF LinkInv
<1> QED
  BY <1>1, <1>4, <1>5, <1>6, <1>7, ServingKeeps DEF FrontEndInv

\* One that does not is not searched for.
LEMMA RejectReadKeeps == FrontEndInv /\ RejectRead => FrontEndInv'
<1> SUFFICES ASSUME FrontEndInv, RejectRead PROVE FrontEndInv'
  OBVIOUS
<1>1. Serving /\ Reject /\ stage = "ready" /\ UNCHANGED dispatcherVars
  BY DEF RejectRead
<1>2. DispatcherInv' /\ RequestAsSent'
  BY <1>1, DispatcherStays, RequestKeeps DEF FrontEndInv
<1>3. UNCHANGED config /\ stage' = "ready"
  BY <1>1 DEF dispatcherVars
<1>4. LinkInv'
  BY <1>1, <1>3, ServingKeeps DEF LinkInv
<1> QED
  BY <1>1, <1>2, <1>3, <1>4, ServingKeeps DEF FrontEndInv

\* A stuttering step keeps it.
LEMMA FrontEndStutters == FrontEndInv /\ UNCHANGED frontEndVars => FrontEndInv'
<1> SUFFICES ASSUME FrontEndInv, UNCHANGED frontEndVars PROVE FrontEndInv'
  OBVIOUS
<1>1. UNCHANGED dispatcherVars /\ UNCHANGED requestVars /\ UNCHANGED configVars
  BY DEF frontEndVars
<1>2. DispatcherInv' /\ RequestAsSent'
  BY <1>1, DispatcherStays, RequestKeeps DEF FrontEndInv
<1>3. UNCHANGED <<text, phase, path_name, location_info>>
  BY <1>1 DEF configVars, extractVars
<1>4. ExtractInv'
  BY <1>3 DEF FrontEndInv, ExtractInv
<1>5. UNCHANGED <<path_to_handler, path_to_root, stage, target, sent, left, data_str>>
  BY <1>1 DEF dispatcherVars, config, requestVars
<1>6. LinkInv'
  BY <1>1, <1>3, <1>5, UndispatchedStays DEF FrontEndInv, LinkInv, Named
<1> QED
  BY <1>2, <1>4, <1>6 DEF FrontEndInv

\* Every step keeps it.
LEMMA FrontEndKeeps == FrontEndInv /\ [FrontEndNext]_frontEndVars => FrontEndInv'
BY ConfigureKeeps, InitializeKeeps, RoutingKeeps, HandleReadKeeps, RejectReadKeeps,
   FrontEndStutters DEF FrontEndNext

\* The invariant, for whatever config file and requests.
THEOREM FrontEndInvariant == FrontEndSpec => []FrontEndInv
BY FrontEndStarts, FrontEndKeeps, PTL DEF FrontEndSpec

(***************************************************************************)
(* What follows from it.                                                   *)
(***************************************************************************)

\* A request whose search is over has been taken for what it is.
LEMMA SearchedForTarget ==
    ASSUME FrontEndInv, stage = "done", NEW r \in Sendings, sent = RequestText(r)
    PROVE  /\ phase = "serving" /\ target = r.target
           /\ r.target \in Seq(Int) /\ r.target # <<>> /\ r.target[1] = Slash
<1>1. phase = "serving"
  BY DEF FrontEndInv, LinkInv, Undispatched
<1>2. /\ WellWritten(r) /\ data_str = UpToNul(RequestText(r) \o left)
      /\ Parses(data_str) /\ target = TargetOf(data_str)
  BY SendingsAssumption DEF FrontEndInv, LinkInv
<1>3. left \in Seq(Int)
  BY DEF FrontEndInv, LinkInv
<1>4. parse_req_str(data_str).query = r.target
  BY <1>2, <1>3, WellWrittenTaken, WellWrittenRejected
<1>5. target = r.target
  BY <1>2, <1>4 DEF parse_req_str
<1> QED
  BY <1>1, <1>2, <1>5 DEF WellWritten

\* The locations that cover it in the file are those that cover it in the
\* Dispatcher.
LEMMA CoveringFound ==
    ASSUME FrontEndInv, stage = "done", NEW r \in Sendings, sent = RequestText(r)
    PROVE  /\ Covering(r) = {p \in DOMAIN path_to_handler : Covers(p)}
           /\ \A p \in DOMAIN path_to_handler :
                path_to_handler[p] = Name(location_info.handler[p])
<1>1. phase = "serving" /\ target = r.target
  BY SearchedForTarget
<1>2. path_to_handler = Named(location_info.handler)
  BY <1>1 DEF FrontEndInv, LinkInv
<1>3. /\ DOMAIN path_to_handler = DOMAIN location_info.handler
      /\ \A p \in DOMAIN path_to_handler :
           path_to_handler[p] = Name(location_info.handler[p])
  BY <1>2 DEF Named
<1> QED
  BY <1>1, <1>3 DEF Covering, Covers, Known

\* With no location that covers it there is no route at the root either, and
\* with one the route of the longest.
LEMMA FoundByLocation ==
    ASSUME FrontEndInv, stage = "done", NEW r \in Sendings, sent = RequestText(r)
    PROVE  IF \A p \in DOMAIN path_to_handler : ~Covers(p) THEN found = NoFactory
           ELSE \E p \in DOMAIN path_to_handler :
                    Longest(p) /\ found.handler = path_to_handler[p]
<1>1. target \in Seq(Int) /\ target # <<>> /\ target[1] = Slash
  BY SearchedForTarget
<1>2. DispatcherInv /\ todo = {}
  BY DEF FrontEndInv, DispatcherInv, SearchInv
<1>3. /\ \A s \in DOMAIN routes : \E p \in DOMAIN path_to_handler :
            Known(p) /\ s = Trim(p) /\ routes[s] = Factory(p)
      /\ \A p \in DOMAIN path_to_handler : Known(p) => Trim(p) \in DOMAIN routes
  BY <1>2 DEF DispatcherInv, RoutesInv
<1>4. found = IF matched_path \in DOMAIN routes THEN routes[matched_path]
              ELSE IF Root \in DOMAIN routes THEN routes[Root] ELSE NoFactory
  BY DEF FrontEndInv, DispatcherInv, SearchInv
<1>5. IF \E p \in DOMAIN path_to_handler : Covers(p)
      THEN \E p \in DOMAIN path_to_handler : Longest(p) /\ matched_path = Trim(p)
      ELSE matched_path = <<>>
  BY <1>2, LongestMatchHolds DEF LongestMatch
<1>6. \A p \in DOMAIN path_to_handler : Trim(p) # <<>>
  <2>1. \A p \in DOMAIN path_to_handler : Len(Trim(p)) \in Nat /\ Len(Trim(p)) >= 1
    BY <1>2, RouteTypes DEF DispatcherInv
  <2> QED
    BY <2>1
<1>7. CASE \A p \in DOMAIN path_to_handler : ~Covers(p)
  <2>1. matched_path = <<>>
    BY <1>5, <1>7
  <2>2. matched_path \notin DOMAIN routes
    BY <1>3, <1>6, <2>1
  <2>3. ASSUME Root \in DOMAIN routes PROVE FALSE
    <3>1. PICK p \in DOMAIN path_to_handler : Known(p) /\ Root = Trim(p)
      BY <1>3, <2>3
    <3>2. Root \in Seq(Int) /\ Len(Root) = 1 /\ Root[1] = Slash
      BY DEF Root, Slash
    <3>3. IsPrefix(Root, target)
      <4>1. Len(target) \in Nat /\ Len(target) >= 1
        BY <1>1
      <4>2. Len(Root) <= Len(target) /\ \A i \in 1 .. Len(Root) : Root[i] = target[i]
        BY <1>1, <3>2, <4>1
      <4> QED
        BY ONLY <1>1, <3>2, <4>2, PrefixCharacters
    <3>4. Covers(p)
      BY <3>1, <3>3 DEF Covers
    <3> QED
      BY <1>7, <3>4
  <2> QED
    BY <1>4, <1>7, <2>2, <2>3
<1>8. CASE \E p \in DOMAIN path_to_handler : Covers(p)
  <2>1. PICK p \in DOMAIN path_to_handler : Longest(p) /\ matched_path = Trim(p)
    BY <1>5, <1>8
  <2>2. Known(p) /\ IsPrefix(Trim(p), target)
    BY <2>1 DEF Longest, Covers
  <2>3. matched_path \in DOMAIN routes
    BY <1>3, <2>1, <2>2
  <2>4. PICK q \in DOMAIN path_to_handler :
            Known(q) /\ matched_path = Trim(q) /\ routes[matched_path] = Factory(q)
    BY <1>3, <2>3
  <2>5. Longest(q)
    BY <2>1, <2>2, <2>4 DEF Longest, Covers
  <2>6. found.handler = path_to_handler[q]
    BY <1>4, <2>3, <2>4 DEF Factory
  <2> QED
    BY <1>8, <2>5, <2>6
<1> QED
  BY <1>7, <1>8

\* From the text of the config file and that of the request to the handler.
LEMMA ServedAsFoundHolds == FrontEndInv => ServedAsFound
<1> SUFFICES ASSUME FrontEndInv, stage = "done",
                    NEW r \in Sendings, sent = RequestText(r)
             PROVE  IF Covering(r) = {} THEN found = NoFactory
                    ELSE \E p \in Covering(r) :
                             /\ found.handler = Name(location_info.handler[p])
                             /\ \A q \in Covering(r) : Len(Trim(q)) <= Len(Trim(p))
  BY DEF ServedAsFound
<1>1. /\ Covering(r) = {p \in DOMAIN path_to_handler : Covers(p)}
      /\ \A p \in DOMAIN path_to_handler :
           path_to_handler[p] = Name(location_info.handler[p])
  BY CoveringFound
<1>2. CASE \A p \in DOMAIN path_to_handler : ~Covers(p)
  <2>1. Covering(r) = {} /\ found = NoFactory
    BY <1>1, <1>2, FoundByLocation
  <2> QED
    BY <2>1
<1>3. CASE ~ \A p \in DOMAIN path_to_handler : ~Covers(p)
  <2>1. PICK p \in DOMAIN path_to_handler : Longest(p) /\ found.handler = path_to_handler[p]
    BY <1>3, FoundByLocation
  <2>2. p \in Covering(r) /\ \A q \in Covering(r) : Len(Trim(q)) <= Len(Trim(p))
    BY <1>1, <2>1 DEF Longest
  <2> QED
    BY <1>1, <2>1, <2>2
<1> QED
  BY <1>2, <1>3

\* For any config file and any requests, the request gets the handler of a
\* longest location that ExtractLocation found and that covers its target, and
\* no handler only if there is none.
THEOREM HandlerIsDue == FrontEndSpec => []ServedAsFound
BY ServedAsFoundHolds, FrontEndInvariant, PTL

\* The Dispatcher routes by what is in the file as it does by any config.
THEOREM FrontEndRoutes == FrontEndSpec => [](LongestMatch /\ ExactLocationWins)
BY LongestMatchHolds, ExactLocationHolds, FrontEndInvariant, PTL DEF FrontEndInv

\* A request is taken for what it is, up to what its body has behind it in the
\* memory that the session reads into, whatever the server was configured for.
THEOREM FrontEndRequests == FrontEndSpec => []RequestAsSent
BY FrontEndInvariant, PTL DEF FrontEndInv

\* What ExtractLocation and the session hand to the Dispatcher has the types
\* that it relies on.
THEOREM FrontEndTypes == FrontEndSpec => []DispatcherTypeOK
BY FrontEndInvariant, PTL DEF FrontEndInv, DispatcherInv

(***************************************************************************)
(* What Parse keeps of the file.                                           *)
(***************************************************************************)

\* Only the parsers touch what they have read.
LEMMA ConfigKeeps ==
    FrontEndInv /\ ParseInv /\ NothingLost /\ [FrontEndNext]_frontEndVars
        => ParseInv' /\ NothingLost'
<1> SUFFICES ASSUME FrontEndInv, ParseInv, NothingLost, [FrontEndNext]_frontEndVars
             PROVE  ParseInv' /\ NothingLost'
  OBVIOUS
<1>1. text \in Seq(Int)
  BY DEF FrontEndInv, ExtractInv
<1>2. \/ ParseStep
      \/ PortStep \/ LocationStep \/ ExtractEnds
      \/ UNCHANGED configVars
  BY DEF FrontEndNext, Configure, InitializeHandlers, DispatchLocations, HandleRead,
         RejectRead, Route, Serving, frontEndVars
<1> QED
  BY <1>1, <1>2, ParseKeeps, ReadersKeep, ConfigStays

\* Before anything is read, nothing is lost.
LEMMA ConfigStarts == FrontEndInit => ParseInv /\ NothingLost
BY ParseStarts DEF FrontEndInit

\* For any config file, when Parse says yes its tree has every character of
\* the file, blanks apart, and no other but the braces of open blocks.
THEOREM ConfigKept == FrontEndSpec => []NothingLost
<1>1. FrontEndSpec => [](ParseInv /\ NothingLost)
  BY ConfigStarts, ConfigKeeps, FrontEndInvariant, PTL DEF FrontEndSpec
<1> QED
  BY <1>1, PTL
=============================================================================

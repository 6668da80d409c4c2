---------------------------- MODULE RequestProofs ----------------------------
(***************************************************************************)
(* Proofs about RequestParser and Dispatcher, each on its own: whatever    *)
(* well-written requests clients send, of any length, and whatever their   *)
(* bodies and headers hold, the searches of parse_req_str find their       *)
(* parts; and whatever the paths, targets, handlers and roots, the target  *)
(* gets the route of a longest location that covers it.                    *)
(***************************************************************************)
EXTENDS RequestParser, Dispatcher, SequenceTheorems, WellFoundedInduction, TLAPS

-----------------------------------------------------------------------------
(* RequestParser. *)

(***************************************************************************)
(* Searching.                                                              *)
(***************************************************************************)

\* The least of a set is the one that is below all of them.
LEMMA LeastIs ==
    ASSUME NEW S \in SUBSET Int, NEW m \in S, \A n \in S : m <= n
    PROVE  Min(S) = m
<1>1. Min(S) \in S /\ \A n \in S : Min(S) <= n
  BY DEF Min
<1>2. Min(S) \in Int /\ m \in Int /\ Min(S) <= m /\ m <= Min(S)
  BY <1>1
<1> QED
  BY <1>2

\* What stands behind what does not depend on how they are grouped.
Grouped(S) == \A p, q, r \in Seq(S) : (p \o q) \o r = p \o (q \o r)

\* They are, in every sequence.
LEMMA ConcatGroups == \A S : Grouped(S)
BY ConcatAssociative DEF Grouped

\* The same of texts.
LEMMA TextConcat ==
    ASSUME NEW p \in Seq(Int), NEW q \in Seq(Int)
    PROVE  /\ p \o q \in Seq(Int)
           /\ Len(p \o q) = Len(p) + Len(q)
           /\ Len(p) \in Nat
           /\ \A r \in Seq(Int) : (p \o q) \o r = p \o (q \o r)
           /\ p \o <<>> = p
           /\ <<>> \o p = p
<1>1. Grouped(Int)
  BY ConcatGroups
<1>2. \A r \in Seq(Int) : (p \o q) \o r = p \o (q \o r)
  BY <1>1 DEF Grouped
<1>3. p \o q \in Seq(Int) /\ Len(p \o q) = Len(p) + Len(q) /\ Len(p) \in Nat
  BY ConcatProperties, LenProperties
<1>4. p \o <<>> = p /\ <<>> \o p = p
  BY ConcatEmptySeq
<1> QED
  BY <1>2, <1>3, <1>4

\* The same of three texts.
LEMMA TextGroups == \A p, q, r \in Seq(Int) : (p \o q) \o r = p \o (q \o r)
<1>1. Grouped(Int)
  BY ConcatGroups
<1> QED
  BY <1>1 DEF Grouped

\* A set of numbers that is not empty has a least one.
LEMMA LeastPosition ==
    ASSUME NEW S \in SUBSET Nat, S # {}
    PROVE  \E m \in S : \A n \in S : m <= n
<1>1. PICK m \in S : \A n \in S : ~ (<<n, m>> \in OpToRel(<, Nat))
  BY WFMin, NatLessThanWellFounded
<1>2. \A n \in S : m \in Nat /\ n \in Nat /\ ~(n < m)
  BY <1>1 DEF OpToRel
<1>3. \A n \in S : m <= n
  BY <1>2
<1> QED
  BY <1>3

\* What Find returns: from i up to there, no character is in S.
LEMMA FindIsFirst ==
    ASSUME NEW t \in Seq(Int), NEW i \in 1 .. Len(t) + 1, NEW S
    PROVE  /\ Find(t, i, S) \in i .. Len(t) + 1
           /\ \A k \in i .. Find(t, i, S) - 1 : t[k] \notin S
           /\ Find(t, i, S) <= Len(t) => t[Find(t, i, S)] \in S
<1> DEFINE F == {j \in i .. Len(t) : t[j] \in S}
<1>1. Len(t) \in Nat /\ i \in Nat
  OBVIOUS
<1>2. CASE F = {}
  <2>1. Find(t, i, S) = Len(t) + 1
    BY <1>2 DEF Find
  <2>2. Len(t) + 1 \in i .. Len(t) + 1 /\ ~(Len(t) + 1 <= Len(t))
        /\ \A k \in i .. (Len(t) + 1) - 1 : k \in i .. Len(t)
    BY <1>1
  <2> QED
    BY <1>2, <2>1, <2>2
<1>3. CASE F # {}
  <2>1. F \in SUBSET Nat
    BY <1>1
  <2>2. PICK m \in F : \A n \in F : m <= n
    <3> HIDE DEF F
    <3> QED
      BY <1>3, <2>1, LeastPosition
  <2>3. m \in i .. Len(t) /\ t[m] \in S /\ \A k \in i .. m - 1 : t[k] \notin S
    BY <1>1, <2>2
  <2>4. Find(t, i, S) = CHOOSE j \in i .. Len(t) :
                             t[j] \in S /\ \A k \in i .. j - 1 : t[k] \notin S
    BY <1>3 DEF Find
  <2>5. /\ Find(t, i, S) \in i .. Len(t)
        /\ t[Find(t, i, S)] \in S
        /\ \A k \in i .. Find(t, i, S) - 1 : t[k] \notin S
    BY <2>3, <2>4
  <2>6. \A j \in i .. Len(t) : j \in i .. Len(t) + 1
    BY <1>1
  <2> QED
    BY <2>5, <2>6
<1> QED
  BY <1>2, <1>3

\* What is at i is s when its characters are those of s.
LEMMA BeginsAt ==
    ASSUME NEW t \in Seq(Int), NEW s \in Seq(Int), NEW i \in 1 .. Len(t) - Len(s) + 1
    PROVE  SubSeq(t, i, i + Len(s) - 1) = s <=> \A k \in 1 .. Len(s) : t[i + k - 1] = s[k]
<1> DEFINE l == i + Len(s) - 1
           u == SubSeq(t, i, l)
<1>1. i \in Int /\ l \in Int /\ l - i + 1 = Len(s) /\ Len(s) \in Nat
  OBVIOUS
<1>2. \A j \in i .. l : t[j] \in Int
  OBVIOUS
<1>3. /\ u \in Seq(Int)
      /\ Len(u) = IF i <= l THEN l - i + 1 ELSE 0
      /\ \A k \in 1 .. l - i + 1 : u[k] = t[i + k - 1]
  <2> HIDE DEF l
  <2> QED
    BY ONLY <1>1, <1>2, SubSeqProperties
<1> HIDE DEF u
<1>4. Len(u) = Len(s)
  BY <1>1, <1>3
<1>5. \A k \in 1 .. Len(s) : u[k] = t[i + k - 1]
  BY <1>1, <1>3
<1>6. ASSUME \A k \in 1 .. Len(s) : t[i + k - 1] = s[k] PROVE u = s
  BY ONLY <1>3, <1>4, <1>5, <1>6, SeqEqual, s \in Seq(Int)
<1>7. ASSUME u = s, NEW k \in 1 .. Len(s) PROVE t[i + k - 1] = s[k]
  BY <1>5, <1>7
<1>8. u = s <=> \A k \in 1 .. Len(s) : t[i + k - 1] = s[k]
  BY <1>6, <1>7
<1> QED
  BY <1>8 DEF u

\* s is in t at i.
Begins(t, s, i) ==
    /\ i + Len(s) - 1 <= Len(t)
    /\ \A k \in 1 .. Len(s) : t[i + k - 1] = s[k]

\* It is at p for the first time, from i on.
FirstAt(t, s, i, p) ==
    /\ i <= p /\ Begins(t, s, p)
    /\ \A j \in i .. p - 1 : ~Begins(t, s, j)

\* A text is found where it begins, if it begins nowhere before.
LEMMA FirstFound ==
    ASSUME NEW t \in Seq(Int), NEW s \in Seq(Int), NEW i \in Nat \ {0}, NEW p \in Nat,
           FirstAt(t, s, i, p)
    PROVE  FindText(t, s, i) = p
<1> DEFINE F == {j \in i .. Len(t) - Len(s) + 1 : SubSeq(t, j, j + Len(s) - 1) = s}
<1>1. \A j \in i .. Len(t) - Len(s) + 1 :
          SubSeq(t, j, j + Len(s) - 1) = s <=> Begins(t, s, j)
  <2> TAKE j \in i .. Len(t) - Len(s) + 1
  <2>1. j \in 1 .. Len(t) - Len(s) + 1
    OBVIOUS
  <2>2. SubSeq(t, j, j + Len(s) - 1) = s <=> \A k \in 1 .. Len(s) : t[j + k - 1] = s[k]
    BY ONLY <2>1, BeginsAt, t \in Seq(Int), s \in Seq(Int)
  <2>3. j + Len(s) - 1 <= Len(t)
    BY <2>1
  <2> QED
    BY ONLY <2>2, <2>3 DEF Begins
<1>2. p \in i .. Len(t) - Len(s) + 1
  BY DEF FirstAt, Begins
<1>3. p \in F /\ F \in SUBSET Int
  BY <1>1, <1>2 DEF FirstAt
<1>4. \A n \in F : p <= n
  <2> SUFFICES ASSUME NEW n \in F, ~(p <= n) PROVE FALSE
    OBVIOUS
  <2>1. n \in i .. p - 1 /\ Begins(t, s, n)
    BY <1>1, <1>2
  <2> QED
    BY <2>1 DEF FirstAt
<1> HIDE DEF F
<1>5. Min(F) = p
  BY <1>3, <1>4, LeastIs
<1>6. F # {}
  BY <1>3
<1>7. FindText(t, s, i) = IF F = {} THEN 0 ELSE Min(F)
  BY DEF FindText, F
<1> QED
  BY <1>5, <1>6, <1>7

\* A character is found at its first position.
LEMMA FirstCharacter ==
    ASSUME NEW t \in Seq(Int), NEW c \in Int, NEW i \in Nat \ {0},
           NEW p \in i .. Len(t), t[p] = c,
           \A j \in i .. p - 1 : t[j] # c
    PROVE  FindChar(t, c, i) = p
<1> DEFINE s == <<c>>
<1>1. s \in Seq(Int) /\ Len(s) = 1 /\ s[1] = c
  OBVIOUS
<1> HIDE DEF s
<1>2. \A j \in 1 .. Len(t) : Begins(t, s, j) <=> t[j] = c
  BY <1>1 DEF Begins
<1>3. FirstAt(t, s, i, p) /\ p \in Nat
  BY <1>2 DEF FirstAt
<1>4. FindText(t, s, i) = p
  BY ONLY <1>1, <1>3, FirstFound, t \in Seq(Int), i \in Nat \ {0}
<1> QED
  BY <1>4 DEF FindChar, s

(***************************************************************************)
(* The text of a request.                                                  *)
(***************************************************************************)

\* The headers with the line that ends them.
HeadLines(r) == r.headers \o EmptyLine

\* u is s, of length m, with t behind it, and of length l.
IsJoin(u, s, t, m, l) ==
    /\ u \in Seq(Int) /\ Len(u) = l
    /\ \A i \in 1 .. l : u[i] = IF i <= m THEN s[i] ELSE t[i - m]

\* So is what \o makes of two texts.
LEMMA Joined ==
    ASSUME NEW s \in Seq(Int), NEW t \in Seq(Int), NEW m \in Nat, NEW l \in Nat,
           Len(s) = m, l = m + Len(t)
    PROVE  IsJoin(s \o t, s, t, m, l)
<1>1. /\ s \o t \in Seq(Int)
      /\ Len(s \o t) = Len(s) + Len(t)
      /\ \A i \in 1 .. Len(s) + Len(t) : (s \o t)[i] = IF i <= Len(s) THEN s[i] ELSE t[i - Len(s)]
  BY ONLY ConcatProperties, s \in Seq(Int), t \in Seq(Int)
<1> QED
  BY <1>1 DEF IsJoin

\* Where the parts of a text are: the verb, the target, the headers, the body.
Layout(t, r) ==
    /\ t \in Seq(Int)
    /\ Len(t) = 7 + Len(r.target) + Len(r.headers) + Len(r.body)
    /\ t[1] = r.verb /\ t[2] = Space /\ t[3 + Len(r.target)] = Space
    /\ \A k \in 1 .. Len(r.target) : t[2 + k] = r.target[k]
    /\ \A k \in 1 .. Len(r.headers) + 4 : t[3 + Len(r.target) + k] = HeadLines(r)[k]
    /\ \A k \in 1 .. Len(r.body) : t[7 + Len(r.target) + Len(r.headers) + k] = r.body[k]

\* The last of the headers has the empty line behind it.
LEMMA HeadersEnd ==
    ASSUME NEW r, WellWritten(r)
    PROVE  IsJoin(HeadLines(r), r.headers, EmptyLine, Len(r.headers), Len(r.headers) + 4)
<1> DEFINE h == Len(r.headers)
<1>1. r.headers \in Seq(Int) /\ h \in Nat
  BY DEF WellWritten
<1>2. EmptyLine \in Seq(Int) /\ Len(EmptyLine) = 4
  BY DEF EmptyLine, CR, LF
<1>3. h = Len(r.headers)
  OBVIOUS
<1> HIDE DEF h
<1>4. h + 4 \in Nat
  BY ONLY <1>1
<1>5. IsJoin(HeadLines(r), r.headers, EmptyLine, h, h + 4)
  BY ONLY <1>1, <1>2, <1>3, <1>4, Joined DEF HeadLines
<1> QED
  BY ONLY <1>3, <1>5

\* They are where RequestText puts them.
LEMMA TextLayout ==
    ASSUME NEW r, WellWritten(r)
    PROVE  Layout(RequestText(r), r)
<1> DEFINE a == <<r.verb, Space>>
           b == <<Space>>
           n == Len(r.target)
           h == Len(r.headers)
           l == Len(r.body)
           u == a \o r.target
           v == u \o b
           w == v \o r.headers
           x == w \o EmptyLine
           t == x \o r.body
<1>1. /\ r.verb \in Int /\ r.target \in Seq(Int) /\ r.headers \in Seq(Int)
      /\ r.body \in Seq(Int) /\ n \in Nat /\ h \in Nat /\ l \in Nat
  BY DEF WellWritten
<1>2. a \in Seq(Int) /\ Len(a) = 2 /\ a[1] = r.verb /\ a[2] = Space
  BY <1>1 DEF Space
<1>3. b \in Seq(Int) /\ Len(b) = 1 /\ b[1] = Space
  BY DEF Space
<1>4. EmptyLine \in Seq(Int) /\ Len(EmptyLine) = 4
  BY DEF EmptyLine, CR, LF
<1>5. RequestText(r) = t
  BY DEF RequestText, HeadText
<1>6. n = Len(r.target) /\ h = Len(r.headers) /\ l = Len(r.body)
  OBVIOUS
<1> HIDE DEF a, b, n, h, l
<1>0. n \in Nat /\ h \in Nat /\ l \in Nat
  BY ONLY <1>1
<1>7. /\ 2 \in Nat /\ 2 + n \in Nat /\ 3 + n \in Nat /\ 3 + n + h \in Nat /\ 7 + n + h \in Nat
      /\ 7 + n + h + l \in Nat
      /\ 3 + n = (2 + n) + 1 /\ 7 + n + h = (3 + n + h) + 4
  BY ONLY <1>0
<1>8. IsJoin(u, a, r.target, 2, 2 + n)
  BY ONLY <1>1, <1>2, <1>6, <1>7, Joined DEF u
<1> HIDE DEF u
<1>9. /\ u \in Seq(Int) /\ Len(u) = 2 + n
      /\ \A i \in 1 .. 2 + n : u[i] = IF i <= 2 THEN a[i] ELSE r.target[i - (2)]
  BY ONLY <1>8 DEF IsJoin
<1>10. IsJoin(v, u, b, 2 + n, 3 + n)
  BY ONLY <1>3, <1>9, <1>6, <1>7, Joined DEF v
<1> HIDE DEF v
<1>11. /\ v \in Seq(Int) /\ Len(v) = 3 + n
      /\ \A i \in 1 .. 3 + n : v[i] = IF i <= 2 + n THEN u[i] ELSE b[i - (2 + n)]
  BY ONLY <1>10 DEF IsJoin
<1>12. IsJoin(w, v, r.headers, 3 + n, 3 + n + h)
  BY ONLY <1>1, <1>11, <1>6, <1>7, Joined DEF w
<1> HIDE DEF w
<1>13. /\ w \in Seq(Int) /\ Len(w) = 3 + n + h
      /\ \A i \in 1 .. 3 + n + h : w[i] = IF i <= 3 + n THEN v[i] ELSE r.headers[i - (3 + n)]
  BY ONLY <1>12 DEF IsJoin
<1>14. IsJoin(x, w, EmptyLine, 3 + n + h, 7 + n + h)
  BY ONLY <1>4, <1>13, <1>6, <1>7, Joined DEF x
<1> HIDE DEF x
<1>15. /\ x \in Seq(Int) /\ Len(x) = 7 + n + h
      /\ \A i \in 1 .. 7 + n + h : x[i] = IF i <= 3 + n + h THEN w[i] ELSE EmptyLine[i - (3 + n + h)]
  BY ONLY <1>14 DEF IsJoin
<1>16. IsJoin(t, x, r.body, 7 + n + h, 7 + n + h + l)
  BY ONLY <1>1, <1>15, <1>6, <1>7, Joined DEF t
<1> HIDE DEF t
<1>17. /\ t \in Seq(Int) /\ Len(t) = 7 + n + h + l
      /\ \A i \in 1 .. 7 + n + h + l : t[i] = IF i <= 7 + n + h THEN x[i] ELSE r.body[i - (7 + n + h)]
  BY ONLY <1>16 DEF IsJoin
<1>18. IsJoin(HeadLines(r), r.headers, EmptyLine, h, h + 4)
  BY ONLY <1>6, HeadersEnd, WellWritten(r)
<1>19. \A k \in 1 .. h + 4 :
           HeadLines(r)[k] = IF k <= h THEN r.headers[k] ELSE EmptyLine[k - h]
  BY ONLY <1>18 DEF IsJoin
<1>20. t[1] = r.verb /\ t[2] = Space
  <2>1. \A i \in {1, 2} : /\ i \in 1 .. 2 + n /\ i <= 2 /\ i \in 1 .. 3 + n /\ i <= 2 + n
                          /\ i \in 1 .. 3 + n + h /\ i <= 3 + n /\ i \in 1 .. 7 + n + h
                          /\ i <= 3 + n + h /\ i <= 7 + n + h
                          /\ i \in 1 .. 7 + n + h + l
    BY ONLY <1>0
  <2>2. \A i \in {1, 2} : t[i] = a[i]
    BY ONLY <1>9, <1>11, <1>13, <1>15, <1>17, <2>1
  <2> QED
    BY ONLY <1>2, <2>2
<1>21. t[3 + n] = Space
  <2>1. /\ ~(3 + n <= 2 + n) /\ (3 + n) - (2 + n) = 1 /\ 3 + n \in 1 .. 3 + n /\ 3 + n <= 3 + n
        /\ 3 + n \in 1 .. 3 + n + h /\ 3 + n <= 3 + n + h /\ 3 + n \in 1 .. 7 + n + h
        /\ 3 + n <= 7 + n + h /\ 3 + n \in 1 .. 7 + n + h + l
    BY ONLY <1>0
  <2> QED
    BY ONLY <1>3, <1>11, <1>13, <1>15, <1>17, <2>1
<1>22. ASSUME NEW k \in 1 .. n PROVE t[2 + k] = r.target[k]
  <2>1. /\ 2 + k \in 1 .. 2 + n /\ ~(2 + k <= 2) /\ (2 + k) - 2 = k
        /\ 2 + k \in 1 .. 3 + n /\ 2 + k <= 3 + n /\ 2 + k \in 1 .. 3 + n + h
        /\ 2 + k <= 3 + n + h /\ 2 + k \in 1 .. 7 + n + h /\ 2 + k <= 7 + n + h
        /\ 2 + k \in 1 .. 7 + n + h + l /\ 2 + k <= 2 + n
    BY ONLY <1>0, k \in 1 .. n
  <2> QED
    BY ONLY <1>9, <1>11, <1>13, <1>15, <1>17, <2>1
<1>23. ASSUME NEW k \in 1 .. h + 4 PROVE t[3 + n + k] = HeadLines(r)[k]
  <2>0. 3 + n + k \in 1 .. 7 + n + h + l /\ 3 + n + k <= 7 + n + h
    BY ONLY <1>0, k \in 1 .. h + 4
  <2>1. t[3 + n + k] = x[3 + n + k]
    BY ONLY <1>17, <2>0
  <2>2. CASE k <= h
    <3>1. 3 + n + k \in 1 .. 3 + n + h /\ ~(3 + n + k <= 3 + n) /\ (3 + n + k) - (3 + n) = k
          /\ 3 + n + k \in 1 .. 7 + n + h /\ 3 + n + k <= 3 + n + h
      BY ONLY <1>0, <2>2, k \in 1 .. h + 4
    <3> QED
      BY ONLY <1>13, <1>15, <1>19, <2>1, <2>2, <3>1, k \in 1 .. h + 4
  <2>3. CASE k > h
    <3>1. ~(3 + n + k <= 3 + n + h) /\ (3 + n + k) - (3 + n + h) = k - h
          /\ 3 + n + k \in 1 .. 7 + n + h /\ ~(k <= h)
      BY ONLY <1>0, <2>3, k \in 1 .. h + 4
    <3> QED
      BY ONLY <1>15, <1>19, <2>1, <3>1, k \in 1 .. h + 4
  <2> QED
    BY ONLY <1>0, <2>2, <2>3, k \in 1 .. h + 4
<1>24. ASSUME NEW k \in 1 .. l PROVE t[7 + n + h + k] = r.body[k]
  <2>1. /\ 7 + n + h + k \in 1 .. 7 + n + h + l
        /\ ~(7 + n + h + k <= 7 + n + h) /\ (7 + n + h + k) - (7 + n + h) = k
    BY ONLY <1>0, k \in 1 .. l
  <2> QED
    BY ONLY <1>17, <2>1
<1>25. Layout(t, r)
  BY ONLY <1>6, <1>17, <1>20, <1>21, <1>22, <1>23, <1>24 DEF Layout
<1> QED
  BY <1>5, <1>25

\* It is longer than the empty line and what is around the target.
LEMMA TextLength ==
    ASSUME NEW r, NEW t, WellWritten(r), Layout(t, r)
    PROVE  /\ Len(t) \in Nat /\ Len(t) >= 7
           /\ 4 + Len(r.target) + Len(r.headers) # 0
<1> DEFINE n == Len(r.target)
           h == Len(r.headers)
           l == Len(r.body)
<1>1. n \in Nat /\ h \in Nat /\ l \in Nat
  BY DEF WellWritten
<1>2. Len(t) = 7 + n + h + l
  BY DEF Layout
<1> HIDE DEF n, h, l
<1>3. Len(t) \in Nat /\ Len(t) >= 7 /\ 4 + n + h # 0
  BY ONLY <1>1, <1>2
<1> QED
  BY <1>3 DEF n, h

(***************************************************************************)
(* What the searches find in it.                                           *)
(***************************************************************************)

\* The searches of parse_req_str find the blanks around the target, the slash
\* that it begins with, and the line that ends the headers.
Found(t, r) ==
    /\ FindChar(t, Space, 1) = 2
    /\ FindChar(t, Slash, 1) = 3
    /\ FindChar(t, Space, 3) = 3 + Len(r.target)
    /\ FindText(t, EmptyLine, 1) = 4 + Len(r.target) + Len(r.headers)

\* No empty line begins in the headers.
LEMMA NoneInHeaders ==
    ASSUME NEW r, WellWritten(r), NEW i \in 1 .. Len(r.headers)
    PROVE  ~Begins(HeadLines(r), EmptyLine, i)
<1>1. r.headers \in Seq(Int) /\ Len(r.headers) \in Nat
  BY DEF WellWritten
<1>2. EmptyLine \in Seq(Int) /\ Len(EmptyLine) = 4
  BY DEF EmptyLine, CR, LF
<1>3. HeadLines(r) \in Seq(Int) /\ Len(HeadLines(r)) = Len(r.headers) + 4
  BY ONLY HeadersEnd, WellWritten(r) DEF IsJoin
<1>4. SubSeq(HeadLines(r), i, i + 3) # EmptyLine
  <2>1. i \in DOMAIN r.headers
    BY <1>1
  <2> QED
    BY ONLY <2>1, WellWritten(r) DEF WellWritten, HeadLines
<1>5. i \in 1 .. Len(HeadLines(r)) - Len(EmptyLine) + 1 /\ i + Len(EmptyLine) - 1 = i + 3
  BY <1>1, <1>2, <1>3
<1>6. SubSeq(HeadLines(r), i, i + Len(EmptyLine) - 1) = EmptyLine
        <=> \A k \in 1 .. Len(EmptyLine) : HeadLines(r)[i + k - 1] = EmptyLine[k]
  BY ONLY <1>2, <1>3, <1>5, BeginsAt
<1> QED
  BY ONLY <1>4, <1>5, <1>6 DEF Begins

\* In a well-written request they are found.
LEMMA PartsFound ==
    ASSUME NEW r, NEW t, WellWritten(r), Layout(t, r)
    PROVE  Found(t, r)
<1> DEFINE n == Len(r.target)
           h == Len(r.headers)
           l == Len(r.body)
           p == 4 + n + h
<1>1. /\ n \in Nat /\ h \in Nat /\ l \in Nat /\ n # 0
      /\ r.target \in Seq(Int) /\ r.headers \in Seq(Int) /\ r.verb \in Int
  BY DEF WellWritten
<1>2. /\ t \in Seq(Int) /\ Len(t) = 7 + n + h + l
      /\ t[1] = r.verb /\ t[2] = Space /\ t[3 + n] = Space
      /\ \A k \in 1 .. n : t[2 + k] = r.target[k]
      /\ \A k \in 1 .. h + 4 : t[3 + n + k] = HeadLines(r)[k]
  BY DEF Layout
<1>3. /\ r.verb \notin {Space, Slash, CR}
      /\ \A k \in 1 .. n : r.target[k] \notin {Space, CR}
      /\ r.target[1] = Slash
  BY <1>1 DEF WellWritten, Word, Space, Slash, CR, Spaces
<1>4. EmptyLine \in Seq(Int) /\ Len(EmptyLine) = 4 /\ EmptyLine[1] = CR
  BY DEF EmptyLine, CR, LF
<1>5. Space \in Int /\ Slash \in Int /\ CR # Space /\ Slash # Space
  BY DEF Space, Slash, CR
<1>6. n = Len(r.target) /\ h = Len(r.headers)
  OBVIOUS
<1> HIDE DEF n, h, l
<1>7. FindChar(t, Space, 1) = 2
  <2>1. 2 \in 1 .. Len(t) /\ 1 \in Nat \ {0}
    BY ONLY <1>1, <1>2
  <2>2. \A j \in 1 .. 2 - 1 : t[j] # Space
    BY ONLY <1>2, <1>3
  <2> QED
    BY ONLY <1>2, <1>5, <2>1, <2>2, FirstCharacter
<1>8. t[3] = Slash
  <2>1. 1 \in 1 .. n
    BY ONLY <1>1
  <2>2. t[2 + 1] = r.target[1]
    BY ONLY <1>2, <2>1
  <2> QED
    BY ONLY <1>3, <2>2
<1>9. FindChar(t, Slash, 1) = 3
  <2>1. 3 \in 1 .. Len(t) /\ 1 \in Nat \ {0}
    BY ONLY <1>1, <1>2
  <2>2. \A j \in 1 .. 3 - 1 : t[j] # Slash
    BY ONLY <1>2, <1>3, <1>5
  <2> QED
    BY ONLY <1>2, <1>5, <1>8, <2>1, <2>2, FirstCharacter
<1>10. \A j \in 3 .. 2 + n : t[j] \notin {Space, CR}
  <2> TAKE j \in 3 .. 2 + n
  <2>1. j - 2 \in 1 .. n /\ 2 + (j - 2) = j
    BY ONLY <1>1, j \in 3 .. 2 + n
  <2>2. t[2 + (j - 2)] = r.target[j - 2]
    BY ONLY <1>2, <2>1
  <2> QED
    BY ONLY <1>3, <2>1, <2>2
<1>11. FindChar(t, Space, 3) = 3 + n
  <2>1. 3 + n \in 3 .. Len(t) /\ 3 \in Nat \ {0}
    BY ONLY <1>1, <1>2
  <2>2. \A j \in 3 .. (3 + n) - 1 : t[j] # Space
    BY ONLY <1>1, <1>10
  <2> QED
    BY ONLY <1>2, <1>5, <2>1, <2>2, FirstCharacter
<1>12. Begins(t, EmptyLine, p)
  <2>1. IsJoin(HeadLines(r), r.headers, EmptyLine, h, h + 4)
    BY ONLY <1>6, HeadersEnd, WellWritten(r)
  <2>2. ASSUME NEW k \in 1 .. 4 PROVE t[p + k - 1] = EmptyLine[k]
    <3>1. /\ p + k - 1 = 3 + n + (h + k) /\ h + k \in 1 .. h + 4
          /\ ~(h + k <= h) /\ (h + k) - h = k
      BY ONLY <1>1, k \in 1 .. 4
    <3> QED
      BY ONLY <1>2, <2>1, <3>1 DEF IsJoin
  <2>3. p + 4 - 1 <= Len(t)
    BY ONLY <1>1, <1>2
  <2> QED
    BY ONLY <1>4, <2>2, <2>3 DEF Begins
<1>13. ASSUME NEW j \in 1 .. p - 1 PROVE ~Begins(t, EmptyLine, j)
  <2>1. CASE j <= 3 + n
    <3>1. t[j] # CR
      <4>1. j = 1 \/ j = 2 \/ j \in 3 .. 2 + n \/ j = 3 + n
        BY ONLY <1>1, <2>1, j \in 1 .. p - 1
      <4> QED
        BY ONLY <1>2, <1>3, <1>5, <1>10, <4>1
    <3>2. 1 \in 1 .. 4 /\ j + 1 - 1 = j
      BY ONLY <1>1, j \in 1 .. p - 1
    <3> QED
      BY ONLY <1>4, <3>1, <3>2 DEF Begins
  <2>2. CASE j > 3 + n
    <3> DEFINE i == j - (3 + n)
    <3>1. i \in 1 .. h /\ i \in Int
      BY ONLY <1>1, <2>2, j \in 1 .. p - 1
    <3>2. ~Begins(HeadLines(r), EmptyLine, i)
      BY ONLY <1>6, <3>1, NoneInHeaders, WellWritten(r)
    <3>3. Len(HeadLines(r)) = h + 4
      BY ONLY <1>6, HeadersEnd, WellWritten(r) DEF IsJoin
    <3>4. i + Len(EmptyLine) - 1 <= Len(HeadLines(r))
      BY ONLY <1>1, <1>4, <3>1, <3>3
    <3>5. PICK k \in 1 .. 4 : HeadLines(r)[i + k - 1] # EmptyLine[k]
      BY ONLY <1>4, <3>2, <3>4 DEF Begins
    <3>6. i + k - 1 \in 1 .. h + 4 /\ 3 + n + (i + k - 1) = j + k - 1
      BY ONLY <1>1, <3>1, k \in 1 .. 4, j \in 1 .. p - 1
    <3>7. t[j + k - 1] # EmptyLine[k]
      BY ONLY <1>2, <3>5, <3>6
    <3> QED
      BY ONLY <1>4, <3>7 DEF Begins
  <2> QED
    BY ONLY <1>1, <2>1, <2>2, j \in 1 .. p - 1
<1>14. FindText(t, EmptyLine, 1) = p
  <2>1. p \in Nat /\ 1 <= p /\ 1 \in Nat \ {0}
    BY ONLY <1>1
  <2> HIDE DEF p
  <2>2. FirstAt(t, EmptyLine, 1, p)
    BY ONLY <1>12, <1>13, <2>1 DEF FirstAt
  <2> QED
    BY ONLY <1>2, <1>4, <2>1, <2>2, FirstFound
<1> QED
  BY ONLY <1>6, <1>7, <1>9, <1>11, <1>14 DEF Found

(***************************************************************************)
(* What parse_req_str makes of it.                                         *)
(***************************************************************************)

\* The target and the body are what is between what was found.
LEMMA PartsTaken ==
    ASSUME NEW r, NEW t, WellWritten(r), Layout(t, r), Found(t, r)
    PROVE  TargetOf(t) = r.target /\ BodyOf(t) = r.body
<1> DEFINE n == Len(r.target)
           h == Len(r.headers)
           l == Len(r.body)
<1>1. /\ n \in Nat /\ h \in Nat /\ l \in Nat
      /\ r.target \in Seq(Int) /\ r.body \in Seq(Int)
  BY DEF WellWritten
<1>2. /\ t \in Seq(Int) /\ Len(t) = 7 + n + h + l
      /\ \A k \in 1 .. n : t[2 + k] = r.target[k]
      /\ \A k \in 1 .. l : t[7 + n + h + k] = r.body[k]
  BY DEF Layout
<1>3. /\ FindChar(t, Slash, 1) = 3 /\ FindChar(t, Space, 3) = 3 + n
      /\ FindText(t, EmptyLine, 1) = 4 + n + h
  BY DEF Found
<1>4. n = Len(r.target) /\ l = Len(r.body)
  OBVIOUS
<1> HIDE DEF n, h, l
<1>5. SubSeq(t, 3, (3 + n) - 1) = r.target
  <2>1. 3 \in 1 .. Len(t) - n + 1 /\ 3 + n - 1 = (3 + n) - 1
    BY ONLY <1>1, <1>2
  <2>2. \A k \in 1 .. n : 3 + k - 1 = 2 + k
    BY ONLY <1>1
  <2>3. \A k \in 1 .. n : t[3 + k - 1] = r.target[k]
    BY ONLY <1>2, <2>2
  <2>4. SubSeq(t, 3, 3 + n - 1) = r.target
          <=> \A k \in 1 .. n : t[3 + k - 1] = r.target[k]
    BY ONLY <1>1, <1>2, <1>4, <2>1, BeginsAt
  <2> QED
    BY ONLY <2>1, <2>3, <2>4
<1>6. TargetOf(t) = r.target
  <2>1. 3 + n # 0
    BY ONLY <1>1
  <2> QED
    BY ONLY <1>3, <1>5, <2>1 DEF TargetOf
<1>7. SubSeq(t, 4 + n + h + 4, Len(t)) = r.body
  <2> DEFINE i == 4 + n + h + 4
  <2>1. i \in 1 .. Len(t) - l + 1 /\ i + l - 1 = Len(t)
    BY ONLY <1>1, <1>2
  <2>2. \A k \in 1 .. l : i + k - 1 = 7 + n + h + k
    BY ONLY <1>1
  <2> HIDE DEF i
  <2>3. \A k \in 1 .. l : t[i + k - 1] = r.body[k]
    BY ONLY <1>2, <2>2
  <2>4. SubSeq(t, i, i + l - 1) = r.body <=> \A k \in 1 .. l : t[i + k - 1] = r.body[k]
    BY ONLY <1>1, <1>2, <1>4, <2>1, BeginsAt
  <2>5. SubSeq(t, i, Len(t)) = r.body
    BY ONLY <2>1, <2>3, <2>4
  <2> QED
    BY <2>5 DEF i
<1>8. BodyOf(t) = r.body
  BY ONLY <1>3, <1>7 DEF BodyOf
<1> QED
  BY <1>6, <1>8

\* The verb is looked for in the first word, which is that of the request.
LEMMA VerbFound ==
    ASSUME NEW r, NEW t, WellWritten(r), Layout(t, r), Found(t, r)
    PROVE  VerbsIn(t) = {i \in 1 .. 4 : Verbs[i] = r.verb}
<1>1. /\ t \in Seq(Int) /\ 1 \in 1 .. Len(t) /\ t[1] = r.verb /\ r.verb \in Int
  <2>1. Len(t) \in Nat /\ Len(t) >= 7
    BY TextLength
  <2>2. t \in Seq(Int) /\ t[1] = r.verb /\ r.verb \in Int
    BY DEF Layout, WellWritten
  <2> QED
    BY ONLY <2>1, <2>2
<1> DEFINE w == FirstWord(t)
<1>2. w = SubSeq(t, 1, 2 - 1)
  BY DEF Found, FirstWord
<1>3. /\ w \in Seq(Int) /\ Len(w) = 1 /\ w[1] = r.verb
  <2>1. \A i \in 1 .. 1 : t[i] \in Int
    BY <1>1
  <2>2. 1 \in Int /\ 2 - 1 = 1
    OBVIOUS
  <2>3. /\ SubSeq(t, 1, 1) \in Seq(Int)
        /\ Len(SubSeq(t, 1, 1)) = IF 1 <= 1 THEN 1 - 1 + 1 ELSE 0
        /\ \A i \in 1 .. 1 - 1 + 1 : SubSeq(t, 1, 1)[i] = t[1 + i - 1]
    BY ONLY <2>1, <2>2, SubSeqProperties
  <2> QED
    BY <1>1, <1>2, <2>2, <2>3
<1> HIDE DEF w
<1>4. ASSUME NEW c \in Int PROVE FindChar(w, c, 1) # 0 <=> c = r.verb
  <2>1. CASE c = r.verb
    <3>1. 1 \in Nat \ {0} /\ 1 \in 1 .. Len(w) /\ w[1] = c
      BY <1>3, <2>1
    <3>2. \A j \in 1 .. 1 - 1 : w[j] # c
      OBVIOUS
    <3>3. FindChar(w, c, 1) = 1
      BY ONLY <1>3, <3>1, <3>2, FirstCharacter, c \in Int
    <3> QED
      BY <2>1, <3>3
  <2>2. CASE c # r.verb
    <3> DEFINE s == <<c>>
    <3>1. s \in Seq(Int) /\ Len(s) = 1 /\ s[1] = c
      OBVIOUS
    <3> HIDE DEF s
    <3>2. \A j \in 1 .. Len(w) - Len(s) + 1 : SubSeq(w, j, j + Len(s) - 1) # s
      <4>1. 1 \in 1 .. Len(w) - Len(s) + 1 /\ 1 \in 1 .. Len(s) /\ 1 + 1 - 1 = 1
        BY ONLY <1>3, <3>1
      <4>2. SubSeq(w, 1, 1 + Len(s) - 1) = s <=> \A k \in 1 .. Len(s) : w[1 + k - 1] = s[k]
        BY ONLY <1>3, <3>1, <4>1, BeginsAt
      <4>3. SubSeq(w, 1, 1 + Len(s) - 1) # s
        BY ONLY <1>3, <2>2, <3>1, <4>1, <4>2
      <4>4. \A j \in 1 .. Len(w) - Len(s) + 1 : j = 1
        BY ONLY <1>3, <3>1
      <4> QED
        BY <4>3, <4>4
    <3>3. FindText(w, s, 1) = 0
      BY ONLY <3>2 DEF FindText
    <3> QED
      BY <2>2, <3>3 DEF FindChar, s
  <2> QED
    BY <2>1, <2>2
<1>5. DOMAIN Verbs = 1 .. 4 /\ \A i \in 1 .. 4 : Verbs[i] \in Int
  BY DEF Verbs, Get, Post, Delete, Put
<1>6. VerbsIn(t) = {i \in DOMAIN Verbs : FindChar(w, Verbs[i], 1) # 0}
  BY DEF VerbsIn, w
<1> QED
  BY ONLY <1>4, <1>5, <1>6

\* A well-written request of one of the verbs, and nothing behind it, is taken
\* for what it is.
LEMMA WholeTaken ==
    ASSUME NEW r, WellWritten(r), r.verb \in Range(Verbs)
    PROVE  /\ Parses(RequestText(r))
           /\ parse_req_str(RequestText(r)) =
                  [verb |-> r.verb, query |-> r.target, body |-> r.body]
<1> DEFINE t == RequestText(r)
<1>1. Layout(t, r) /\ Found(t, r)
  BY TextLayout, PartsFound
<1>2. TargetOf(t) = r.target /\ BodyOf(t) = r.body
  BY ONLY <1>1, PartsTaken, WellWritten(r)
<1>3. VerbsIn(t) = {i \in 1 .. 4 : Verbs[i] = r.verb}
  BY ONLY <1>1, VerbFound, WellWritten(r)
<1>4. 4 + Len(r.target) + Len(r.headers) # 0
  BY ONLY <1>1, TextLength, WellWritten(r)
<1> HIDE DEF t
<1>5. VerbsIn(t) # {}
  BY <1>3 DEF Range, Verbs
<1>6. Verbs[Min(VerbsIn(t))] = r.verb
  <2>1. PICK i \in VerbsIn(t) : TRUE
    BY <1>5
  <2>2. \A j \in VerbsIn(t) : j = i
    BY <1>3, <2>1 DEF Verbs, Get, Post, Delete, Put
  <2>3. Min(VerbsIn(t)) = i
    <3>1. VerbsIn(t) \in SUBSET Int /\ \A j \in VerbsIn(t) : i <= j
      BY <1>3, <2>2
    <3> QED
      BY ONLY <2>1, <3>1, LeastIs
  <2> QED
    BY <1>3, <2>1, <2>3
<1>7. Parses(t)
  <2>1. /\ FindText(t, EmptyLine, 1) = 4 + Len(r.target) + Len(r.headers)
        /\ FindChar(t, Space, 1) = 2 /\ FindChar(t, Slash, 1) = 3
    BY ONLY <1>1 DEF Found
  <2>2. FindText(t, EmptyLine, 1) # 0
    BY ONLY <1>4, <2>1
  <2>3. FindChar(t, Space, 1) # 0 /\ FindChar(t, Slash, 1) # 0
    BY ONLY <2>1
  <2> QED
    BY ONLY <1>5, <2>2, <2>3 DEF Parses
<1>8. parse_req_str(t) = [verb |-> r.verb, query |-> r.target, body |-> r.body]
  BY ONLY <1>2, <1>6 DEF parse_req_str
<1> QED
  BY <1>7, <1>8 DEF t

\* One of another verb is rejected, and not with an exception.
LEMMA WholeRejected ==
    ASSUME NEW r, WellWritten(r), r.verb \notin Range(Verbs)
    PROVE  ~Parses(RequestText(r)) /\ ~Throws(RequestText(r))
<1> DEFINE t == RequestText(r)
<1>1. Layout(t, r) /\ Found(t, r)
  BY TextLayout, PartsFound
<1>2. VerbsIn(t) = {i \in 1 .. 4 : Verbs[i] = r.verb}
  BY ONLY <1>1, VerbFound, WellWritten(r)
<1>3. VerbsIn(t) = {}
  BY ONLY <1>2, r.verb \notin Range(Verbs) DEF Range, Verbs
<1>4. ~(Len(t) < 3)
  <2>1. Len(t) \in Nat /\ Len(t) >= 7
    BY ONLY <1>1, TextLength, WellWritten(r)
  <2> HIDE DEF t
  <2> QED
    BY ONLY <2>1
<1> QED
  BY <1>3, <1>4 DEF Parses, Throws

(***************************************************************************)
(* Up to the first NUL.                                                    *)
(***************************************************************************)

\* p is where the first NUL is, or the end.
NulAt(t, p) ==
    /\ p \in 1 .. Len(t) + 1
    /\ \A i \in 1 .. p - 1 : t[i] # NUL
    /\ p <= Len(t) => t[p] = NUL

\* The text is cut there.
LEMMA CutAtNul ==
    ASSUME NEW t \in Seq(Int), NEW p, NulAt(t, p)
    PROVE  UpToNul(t) = SubSeq(t, 1, p - 1)
<1> DEFINE f == Find(t, 1, {NUL})
<1>1. Len(t) \in Nat /\ 1 \in 1 .. Len(t) + 1
  OBVIOUS
<1>2. /\ f \in 1 .. Len(t) + 1
      /\ \A i \in 1 .. f - 1 : t[i] # NUL
      /\ f <= Len(t) => t[f] = NUL
  BY <1>1, FindIsFirst
<1> HIDE DEF f
<1>3. f = p
  <2>1. ~(f < p) /\ ~(p < f)
    BY <1>1, <1>2 DEF NulAt
  <2> QED
    BY <1>1, <1>2, <2>1 DEF NulAt
<1> QED
  BY <1>3 DEF f, UpToNul

\* It is always cut somewhere.
LEMMA NulIsSomewhere ==
    ASSUME NEW t \in Seq(Int)
    PROVE  \E p \in Nat : NulAt(t, p)
<1>1. Len(t) \in Nat /\ 1 \in 1 .. Len(t) + 1
  OBVIOUS
<1> DEFINE f == Find(t, 1, {NUL})
<1>2. NulAt(t, f) /\ f \in 1 .. Len(t) + 1
  BY <1>1, FindIsFirst DEF NulAt
<1> HIDE DEF f
<1>3. f \in Nat
  BY ONLY <1>1, <1>2
<1> QED
  BY <1>2, <1>3

\* The start of a text is a text.
LEMMA StartOfText ==
    ASSUME NEW t \in Seq(Int), NEW l \in 0 .. Len(t)
    PROVE  /\ SubSeq(t, 1, l) \in Seq(Int)
           /\ Len(SubSeq(t, 1, l)) = l
           /\ \A i \in 1 .. l : SubSeq(t, 1, l)[i] = t[i]
<1>1. l \in Int /\ 1 \in Int /\ \A i \in 1 .. l : t[i] \in Int
  OBVIOUS
<1>2. /\ SubSeq(t, 1, l) \in Seq(Int)
      /\ Len(SubSeq(t, 1, l)) = IF 1 <= l THEN l - 1 + 1 ELSE 0
      /\ \A i \in 1 .. l - 1 + 1 : SubSeq(t, 1, l)[i] = t[1 + i - 1]
  BY ONLY <1>1, SubSeqProperties
<1> QED
  BY <1>2

\* What is left of a text is one.
LEMMA UpToNulIsText ==
    ASSUME NEW t \in Seq(Int)
    PROVE  UpToNul(t) \in Seq(Int)
<1>1. PICK p \in Nat : NulAt(t, p)
  BY NulIsSomewhere
<1>2. p - 1 \in 0 .. Len(t)
  BY <1>1 DEF NulAt
<1> QED
  BY <1>1, <1>2, CutAtNul, StartOfText

\* A text that has no NUL is taken whole, and then what is behind it up to its
\* first NUL.
LEMMA NulBehind ==
    ASSUME NEW s \in Seq(Int), NEW t \in Seq(Int), \A i \in 1 .. Len(s) : s[i] # NUL
    PROVE  UpToNul(s \o t) = s \o UpToNul(t)
<1> DEFINE m == Len(s)
           n == Len(t)
           u == s \o t
<1>1. m \in Nat /\ n \in Nat /\ m = Len(s) /\ n = Len(t)
  OBVIOUS
<1> HIDE DEF m, n
<1>2. PICK p \in Nat : NulAt(t, p)
  BY NulIsSomewhere
<1>3. p \in 1 .. n + 1 /\ (\A i \in 1 .. p - 1 : t[i] # NUL) /\ (p <= n => t[p] = NUL)
  BY <1>1, <1>2 DEF NulAt
<1>4. m + n \in Nat /\ p - 1 \in 0 .. n /\ m + p - 1 \in 0 .. m + n /\ m + (p - 1) = m + p - 1
  BY ONLY <1>1, <1>3
<1>5. IsJoin(u, s, t, m, m + n)
  BY ONLY <1>1, <1>4, Joined, s \in Seq(Int), t \in Seq(Int) DEF u
<1> HIDE DEF u
<1>6. /\ u \in Seq(Int) /\ Len(u) = m + n
      /\ \A i \in 1 .. m + n : u[i] = IF i <= m THEN s[i] ELSE t[i - m]
  BY ONLY <1>5 DEF IsJoin
<1>7. NulAt(u, m + p)
  <2>1. ASSUME NEW i \in 1 .. m + p - 1 PROVE u[i] # NUL
    <3>1. i \in 1 .. m + n /\ (i <= m => i \in 1 .. m) /\ (~(i <= m) => i - m \in 1 .. p - 1)
      BY ONLY <1>1, <1>3, <2>1
    <3> QED
      BY ONLY <1>1, <1>3, <1>6, <3>1, \A j \in 1 .. Len(s) : s[j] # NUL
  <2>2. ASSUME m + p <= m + n PROVE u[m + p] = NUL
    <3>1. p <= n /\ m + p \in 1 .. m + n /\ ~(m + p <= m) /\ (m + p) - m = p
      BY ONLY <1>1, <1>3, <2>2
    <3> QED
      BY ONLY <1>3, <1>6, <3>1
  <2>3. m + p \in 1 .. Len(u) + 1
    BY ONLY <1>1, <1>3, <1>6
  <2>4. \A i \in 1 .. m + p - 1 : u[i] # NUL
    BY ONLY <2>1
  <2>5. m + p <= Len(u) => u[m + p] = NUL
    BY ONLY <1>6, <2>2
  <2> QED
    BY ONLY <1>1, <1>6, <2>3, <2>4, <2>5, p \in Nat DEF NulAt
<1> DEFINE v == SubSeq(u, 1, m + p - 1)
           x == SubSeq(t, 1, p - 1)
           w == s \o x
<1>8. UpToNul(u) = v /\ UpToNul(t) = x
  <2>1. UpToNul(t) = x
    BY ONLY <1>2, CutAtNul, t \in Seq(Int)
  <2>2. UpToNul(u) = v
    <3> DEFINE c == m + p
    <3>1. NulAt(u, c)
      BY ONLY <1>7
    <3>2. v = SubSeq(u, 1, c - 1)
      <4>1. m + p - 1 = c - 1
        BY <1>1
      <4> QED
        BY <4>1
    <3> HIDE DEF c, v
    <3> QED
      BY ONLY <1>6, <3>1, <3>2, CutAtNul
  <2> QED
    BY ONLY <2>1, <2>2
<1>9. v \in Seq(Int) /\ Len(v) = m + p - 1 /\ \A i \in 1 .. m + p - 1 : v[i] = u[i]
  <2>1. m + p - 1 \in 0 .. Len(u)
    BY ONLY <1>4, <1>6
  <2> QED
    BY ONLY <1>6, <2>1, StartOfText
<1>10. x \in Seq(Int) /\ Len(x) = p - 1 /\ \A i \in 1 .. p - 1 : x[i] = t[i]
  BY ONLY <1>1, <1>4, StartOfText, t \in Seq(Int)
<1> HIDE DEF v, x
<1>11. IsJoin(w, s, x, m, m + p - 1)
  <2>1. m + p - 1 \in Nat /\ m + p - 1 = m + Len(x)
    BY ONLY <1>1, <1>4, <1>10
  <2> QED
    BY ONLY <1>1, <1>10, <2>1, Joined, s \in Seq(Int) DEF w
<1> HIDE DEF w
<1>12. /\ w \in Seq(Int) /\ Len(w) = m + p - 1
       /\ \A i \in 1 .. m + p - 1 : w[i] = IF i <= m THEN s[i] ELSE x[i - m]
  BY ONLY <1>11 DEF IsJoin
<1>13. ASSUME NEW i \in 1 .. m + p - 1 PROVE v[i] = w[i]
  <2>1. i \in 1 .. m + n /\ (~(i <= m) => i - m \in 1 .. p - 1)
    BY ONLY <1>1, <1>3, <1>13
  <2> QED
    BY ONLY <1>6, <1>9, <1>10, <1>12, <2>1, i \in 1 .. m + p - 1
<1>14. v = w
  BY ONLY <1>9, <1>12, <1>13, SeqEqual
<1> QED
  BY <1>8, <1>14 DEF u, w

\* The request that has behind its body what is behind it in memory.
Lengthened(r, m) == [r EXCEPT !.body = UpToNul(r.body \o m)]

\* There is no NUL before the body.
LEMMA HeadHasNoNul ==
    ASSUME NEW r, WellWritten(r)
    PROVE  /\ HeadText(r) \in Seq(Int)
           /\ \A i \in 1 .. Len(HeadText(r)) : HeadText(r)[i] # NUL
<1> DEFINE q == [r EXCEPT !.body = <<>>]
           t == HeadText(r)
           n == Len(r.target)
           h == Len(r.headers)
<1>1. /\ WellWritten(q) /\ q.body = <<>>
      /\ q.verb = r.verb /\ q.target = r.target /\ q.headers = r.headers
  <2>0. r \in [verb : Int, target : Seq(Int), headers : Seq(Int), body : Seq(Int)]
    BY DEF WellWritten
  <2>1. /\ q \in [verb : Int, target : Seq(Int), headers : Seq(Int), body : Seq(Int)]
        /\ q.verb = r.verb /\ q.target = r.target /\ q.headers = r.headers
        /\ q.body = <<>>
    BY ONLY <2>0, EmptySeq DEF q
  <2> HIDE DEF q
  <2>2. WellWritten(q)
    BY <2>1 DEF WellWritten
  <2> QED
    BY <2>1, <2>2
<1>2. RequestText(q) = t \o <<>>
  BY <1>1 DEF RequestText, HeadText
<1>3. t \in Seq(Int)
  <2>1. /\ <<r.verb, Space>> \in Seq(Int) /\ <<Space>> \in Seq(Int) /\ EmptyLine \in Seq(Int)
        /\ r.target \in Seq(Int) /\ r.headers \in Seq(Int)
    BY DEF WellWritten, Space, EmptyLine, CR, LF
  <2>2. \A a, b \in Seq(Int) : a \o b \in Seq(Int)
    BY ConcatProperties
  <2> QED
    BY <2>1, <2>2 DEF HeadText
<1>4. RequestText(q) = t
  BY <1>2, <1>3, ConcatEmptySeq
<1>5. Layout(t, q)
  BY <1>1, <1>4, TextLayout
<1>6. HeadLines(q) = HeadLines(r)
  BY <1>1 DEF HeadLines
<1>7. n \in Nat /\ h \in Nat
  BY DEF WellWritten
<1>8. n = Len(r.target) /\ h = Len(r.headers)
  OBVIOUS
<1> HIDE DEF q, t, n, h
<1>9. /\ Len(t) = 7 + n + h
      /\ t[1] = r.verb /\ t[2] = Space /\ t[3 + n] = Space
      /\ \A k \in 1 .. n : t[2 + k] = r.target[k]
      /\ \A k \in 1 .. h + 4 : t[3 + n + k] = HeadLines(r)[k]
  <2>1. n = Len(q.target) /\ h = Len(q.headers) /\ Len(q.body) = 0
    BY ONLY <1>1, <1>8, EmptySeq
  <2>2. /\ Len(t) = 7 + n + h + 0
        /\ t[1] = q.verb /\ t[2] = Space /\ t[3 + n] = Space
        /\ \A k \in 1 .. n : t[2 + k] = q.target[k]
        /\ \A k \in 1 .. h + 4 : t[3 + n + k] = HeadLines(q)[k]
    BY ONLY <1>5, <2>1 DEF Layout
  <2>3. 7 + n + h + 0 = 7 + n + h
    BY ONLY <1>7
  <2> QED
    BY ONLY <1>1, <1>6, <2>2, <2>3
<1>10. /\ r.verb # NUL /\ Space # NUL
       /\ \A k \in 1 .. n : r.target[k] # NUL
       /\ \A k \in 1 .. h : r.headers[k] # NUL
  BY <1>8 DEF WellWritten, Word, NUL, Space
<1>11. \A k \in 1 .. h + 4 : HeadLines(r)[k] # NUL
  <2>1. IsJoin(HeadLines(r), r.headers, EmptyLine, h, h + 4)
    BY ONLY <1>8, HeadersEnd, WellWritten(r)
  <2>2. \A k \in 1 .. 4 : EmptyLine[k] # NUL
    BY DEF EmptyLine, CR, LF, NUL
  <2> SUFFICES ASSUME NEW k \in 1 .. h + 4 PROVE HeadLines(r)[k] # NUL
    OBVIOUS
  <2>3. (k <= h => k \in 1 .. h) /\ (~(k <= h) => k - h \in 1 .. 4)
    BY ONLY <1>7, k \in 1 .. h + 4
  <2> QED
    BY ONLY <1>10, <2>1, <2>2, <2>3, k \in 1 .. h + 4 DEF IsJoin
<1>12. ASSUME NEW i \in 1 .. Len(t) PROVE t[i] # NUL
  <2>1. i \in 1 .. 7 + n + h
    BY ONLY <1>9, <1>12
  <2>2. \/ i = 1 \/ i = 2 \/ i = 3 + n
        \/ \E k \in 1 .. n : i = 2 + k
        \/ \E k \in 1 .. h + 4 : i = 3 + n + k
    <3>1. CASE i <= 2
      BY ONLY <2>1, <3>1
    <3>2. CASE 2 < i /\ i < 3 + n
      <4>1. i - 2 \in 1 .. n /\ i = 2 + (i - 2)
        BY ONLY <1>7, <2>1, <3>2
      <4> QED
        BY ONLY <4>1
    <3>3. CASE 3 + n < i
      <4>1. i - 3 - n \in 1 .. h + 4 /\ i = 3 + n + (i - 3 - n)
        BY ONLY <1>7, <2>1, <3>3
      <4> QED
        BY ONLY <4>1
    <3> QED
      BY ONLY <1>7, <2>1, <3>1, <3>2, <3>3
  <2> QED
    BY ONLY <1>9, <1>10, <1>11, <2>2
<1> QED
  BY <1>3, <1>12 DEF t

\* What the parser looks into is the text of the lengthened request.
LEMMA LengthenedText ==
    ASSUME NEW r, WellWritten(r), NEW m \in Seq(Int)
    PROVE  /\ WellWritten(Lengthened(r, m))
           /\ UpToNul(RequestText(r) \o m) = RequestText(Lengthened(r, m))
<1> DEFINE s == HeadText(r)
           b == UpToNul(r.body \o m)
           q == Lengthened(r, m)
<1>1. s \in Seq(Int) /\ \A i \in 1 .. Len(s) : s[i] # NUL
  BY HeadHasNoNul
<1>2. r.body \in Seq(Int) /\ r.body \o m \in Seq(Int)
  BY ConcatProperties DEF WellWritten
<1>3. b \in Seq(Int)
  BY <1>2, UpToNulIsText
<1>4. /\ q.verb = r.verb /\ q.target = r.target /\ q.headers = r.headers /\ q.body = b
      /\ q \in [verb : Int, target : Seq(Int), headers : Seq(Int), body : Seq(Int)]
  BY <1>3 DEF Lengthened, WellWritten
<1> HIDE DEF s, b, q
<1>5. WellWritten(q)
  BY <1>4 DEF WellWritten
<1>6. RequestText(q) = s \o b
  BY <1>4 DEF RequestText, HeadText, s
<1>7. RequestText(r) \o m = s \o (r.body \o m)
  <2>1. RequestText(r) = s \o r.body
    BY DEF RequestText, s
  <2>2. (s \o r.body) \o m = s \o (r.body \o m)
    <3> DEFINE c == r.body
    <3>1. c \in Seq(Int)
      BY <1>2
    <3> HIDE DEF c
    <3>2. (s \o c) \o m = s \o (c \o m)
      BY ONLY <1>1, <3>1, TextGroups, m \in Seq(Int)
    <3> QED
      BY <3>2 DEF c
  <2> QED
    BY ONLY <2>1, <2>2
<1>8. UpToNul(s \o (r.body \o m)) = s \o b
  BY <1>1, <1>2, NulBehind DEF b
<1> QED
  BY <1>5, <1>6, <1>7, <1>8 DEF q

\* A well-written request of one of the verbs is taken for what it is, with
\* what is behind its body.
LEMMA WellWrittenTaken ==
    ASSUME NEW r, WellWritten(r), r.verb \in Range(Verbs), NEW m \in Seq(Int)
    PROVE  /\ Parses(UpToNul(RequestText(r) \o m))
           /\ parse_req_str(UpToNul(RequestText(r) \o m)) =
                  [verb |-> r.verb, query |-> r.target, body |-> UpToNul(r.body \o m)]
<1> DEFINE q == Lengthened(r, m)
<1>1. WellWritten(q) /\ UpToNul(RequestText(r) \o m) = RequestText(q)
  BY LengthenedText
<1>2. q.verb = r.verb /\ q.target = r.target /\ q.body = UpToNul(r.body \o m)
  BY DEF Lengthened, WellWritten
<1> HIDE DEF q
<1> QED
  BY <1>1, <1>2, WholeTaken

\* One of another verb is rejected, whatever is behind it.
LEMMA WellWrittenRejected ==
    ASSUME NEW r, WellWritten(r), r.verb \notin Range(Verbs), NEW m \in Seq(Int)
    PROVE  /\ ~Parses(UpToNul(RequestText(r) \o m))
           /\ ~Throws(UpToNul(RequestText(r) \o m))
<1> DEFINE q == Lengthened(r, m)
<1>1. WellWritten(q) /\ UpToNul(RequestText(r) \o m) = RequestText(q)
  BY LengthenedText
<1>2. q.verb = r.verb
  BY DEF Lengthened, WellWritten
<1> HIDE DEF q
<1> QED
  BY <1>1, <1>2, WholeRejected

\* Before a text is there, none is a request.
LEMMA RequestStarts == RequestInit => RequestAsSent
<1> SUFFICES ASSUME RequestInit, NEW r \in Sendings, sent = RequestText(r) PROVE FALSE
  BY DEF RequestAsSent
<1>1. Layout(<<>>, r) /\ WellWritten(r)
  BY TextLayout, SendingsAssumption DEF RequestInit, NoText
<1>2. Len(<<>>) >= 7
  BY ONLY <1>1, TextLength
<1> QED
  BY ONLY <1>2

\* A text that is read is taken or rejected as its verb says.
LEMMA RequestKeeps == RequestAsSent /\ [Read \/ Reject]_requestVars => RequestAsSent'
<1> SUFFICES ASSUME RequestAsSent, [Read \/ Reject]_requestVars,
                    NEW r \in Sendings, sent' = RequestText(r)
             PROVE  IF r.verb \in Range(Verbs)
                    THEN info' = [verb |-> r.verb, query |-> r.target,
                                  body |-> UpToNul(r.body \o left')]
                    ELSE answer' = "400"
  BY DEF RequestAsSent
<1>1. WellWritten(r) /\ Stale \subseteq Seq(Int)
  BY SendingsAssumption
<1>2. CASE Read
  <2>1. left' \in Seq(Int) /\ data_str' = UpToNul(RequestText(r) \o left')
    BY <1>1, <1>2 DEF Read, ReadSome
  <2> QED
    BY <1>1, <1>2, <2>1, WellWrittenTaken, WellWrittenRejected DEF Read
<1>3. CASE Reject
  <2>1. left' \in Seq(Int) /\ data_str' = UpToNul(RequestText(r) \o left')
    BY <1>1, <1>3 DEF Reject, ReadSome
  <2> QED
    BY <1>1, <1>3, <2>1, WellWrittenTaken, WellWrittenRejected DEF Reject
<1>4. CASE UNCHANGED requestVars
  BY <1>4 DEF requestVars, RequestAsSent
<1> QED
  BY <1>2, <1>3, <1>4

\* A session takes every well-written request of one of the verbs that the
\* server knows for what it is: its verb and its target, whatever else is in
\* its headers and its body and in the memory behind it, and as its body the
\* one that was sent with what is behind it up to the first NUL; it answers one
\* of another verb 400.
THEOREM EveryRequestAsSent == RequestSpec => []RequestAsSent
BY RequestStarts, RequestKeeps, PTL DEF RequestSpec

-----------------------------------------------------------------------------
(* Dispatcher. *)

(***************************************************************************)
(* trim_slashes and the order of the map.                                  *)
(***************************************************************************)

\* trim_slashes leaves a first part of the path that is not empty: of the
\* lengths after which only slashes follow, the least is the one it stops at.
LEMMA TrimIsPart ==
    ASSUME NEW p \in Seq(Int), p # <<>>
    PROVE  /\ Trim(p) \in Seq(Int)
           /\ Len(Trim(p)) \in 1 .. Len(p)
           /\ \A i \in 1 .. Len(Trim(p)) : Trim(p)[i] = p[i]
<1> DEFINE Rest(n) == \A i \in n + 1 .. Len(p) : p[i] = Slash
           Stops == {n \in 1 .. Len(p) : Rest(n)}
           Stop(n) == (n = 1 \/ p[n] # Slash) /\ Rest(n)
<1>1. Len(p) \in Nat /\ Len(p) >= 1
  BY LenProperties, EmptySeq
<1>2. Stops \subseteq Nat /\ Len(p) \in Stops
  BY <1>1
<1>3. PICK n \in Stops : \A m \in Stops : ~ (<<m, n>> \in OpToRel(<, Nat))
  BY <1>2, WFMin, NatLessThanWellFounded
<1>4. n \in 1 .. Len(p) /\ Rest(n)
  BY <1>3
<1>5. ASSUME n # 1, p[n] = Slash PROVE FALSE
  <2>1. n - 1 \in 1 .. Len(p)
    BY <1>1, <1>4, <1>5
  <2>2. Rest(n - 1)
    BY <1>1, <1>4, <1>5
  <2>3. n - 1 \in Stops /\ n - 1 \in Nat /\ n \in Nat
    BY <2>1, <2>2, <1>4
  <2> HIDE DEF Stops
  <2>4. ~ (n - 1 < n)
    BY <2>3, <1>3 DEF OpToRel
  <2> QED
    BY <2>3, <2>4
<1>6. \E m \in 1 .. Len(p) : Stop(m)
  BY <1>4, <1>5
<1>7. PICK m \in 1 .. Len(p) : Trim(p) = SubSeq(p, 1, m)
  BY <1>6 DEF Trim
<1>8. \A i \in 1 .. m : p[i] \in Int
  BY <1>1, ElementOfSeq
<1> QED
  BY <1>1, <1>7, <1>8, SubSeqProperties

\* The paths of a config, and what is left of them.
LEMMA TrimmedPaths ==
    ASSUME NEW p, IsPath(p)
    PROVE  /\ p \in Seq(Int) /\ Trim(p) \in Seq(Int)
           /\ Len(Trim(p)) \in Nat /\ Len(Trim(p)) >= 1
           /\ Len(Trim(p)) <= Len(p) /\ Len(p) \in Nat
           /\ \A i \in 1 .. Len(Trim(p)) : Trim(p)[i] = p[i]
<1>1. p \in Seq(Int) /\ p # <<>>
  BY DEF IsPath
<1> QED
  BY <1>1, TrimIsPart, LenProperties

\* The prefix relation, character by character.
LEMMA PrefixCharacters ==
    ASSUME NEW s \in Seq(Int), NEW t \in Seq(Int)
    PROVE  IsPrefix(s, t) <=> /\ Len(s) <= Len(t)
                              /\ \A i \in 1 .. Len(s) : s[i] = t[i]
<1>1. Len(s) \in Nat /\ Len(t) \in Nat
  BY LenProperties
<1>2. CASE Len(s) <= Len(t)
  <2>1. /\ SubSeq(s, 1, Len(s)) \in Seq(Int)
        /\ Len(SubSeq(s, 1, Len(s))) = Len(s)
        /\ \A i \in 1 .. Len(s) : SubSeq(s, 1, Len(s))[i] = s[i]
    BY <1>1, SubSeqProperties, ElementOfSeq
  <2>2. /\ SubSeq(t, 1, Len(s)) \in Seq(Int)
        /\ Len(SubSeq(t, 1, Len(s))) = Len(s)
        /\ \A i \in 1 .. Len(s) : SubSeq(t, 1, Len(s))[i] = t[i]
    BY <1>1, <1>2, SubSeqProperties, ElementOfSeq
  <2>3. SubSeq(s, 1, Len(s)) = SubSeq(t, 1, Len(s)) <=>
          \A i \in 1 .. Len(s) : s[i] = t[i]
    BY <2>1, <2>2, <1>1, SeqEqual
  <2> QED
    BY <2>3, <1>2 DEF IsPrefix
<1> QED
  BY <1>1, <1>2 DEF IsPrefix

\* Two prefixes of one length are the same.
LEMMA PrefixUnique ==
    ASSUME NEW s \in Seq(Int), NEW u \in Seq(Int), NEW t \in Seq(Int),
           IsPrefix(s, t), IsPrefix(u, t), Len(s) = Len(u)
    PROVE  s = u
BY PrefixCharacters, SeqEqual, LenProperties

\* A path without slashes at its end comes before all those that trim_slashes
\* makes into it.
LEMMA ExactComesFirst ==
    ASSUME NEW p, NEW q, IsPath(p), IsPath(q), Before(q, p), p = Trim(q)
    PROVE  p = q
<1>1. /\ p \in Seq(Int) /\ q \in Seq(Int)
      /\ Len(p) \in Nat /\ Len(q) \in Nat /\ Len(p) <= Len(q)
      /\ \A i \in 1 .. Len(p) : p[i] = q[i]
  BY TrimmedPaths
<1>2. CASE IsPrefix(q, p)
  BY <1>1, <1>2, PrefixCharacters, SeqEqual
<1>3. CASE \E i \in 1 .. Len(q) : i <= Len(p) /\ q[i] < p[i]
  <2>1. PICK i \in 1 .. Len(q) : i <= Len(p) /\ q[i] < p[i]
    BY <1>3
  <2>2. i \in 1 .. Len(p) /\ q[i] \in Int
    BY <2>1, <1>1, ElementOfSeq
  <2>3. p[i] = q[i]
    BY <2>2, <1>1
  <2> QED
    BY <2>1, <2>2, <2>3
<1> QED
  BY <1>2, <1>3 DEF Before

(***************************************************************************)
(* The invariant.                                                          *)
(***************************************************************************)

\* The routes are those of the locations dispatched so far.
RoutesInv ==
    /\ \A p \in DOMAIN path_to_handler \ todo : Known(p) => Trim(p) \in DOMAIN routes
    /\ \A r \in DOMAIN routes :
         \E p \in DOMAIN path_to_handler \ todo :
             Known(p) /\ r = Trim(p) /\ routes[r] = Factory(p)

\* Locations are dispatched in the order of the map, so that the route of one
\* without slashes at its end is its own.
OrderInv ==
    /\ \A p \in DOMAIN path_to_handler \ todo, q \in todo : Before(p, q)
    /\ \A p \in DOMAIN path_to_handler \ todo :
         Known(p) /\ p = Trim(p) => routes[p] = Factory(p)

\* The loop of split_uri has the longest match among the routes it has seen.
SearchInv ==
    /\ stage # "dispatching" => todo = {}
    /\ stage # "searching" => unseen = {}
    /\ stage \in {"dispatching", "ready"} => matched_path = <<>>
    /\ stage \in {"searching", "done"} =>
         /\ \A r \in DOMAIN routes \ unseen :
              IsPrefix(r, target) => Len(r) <= Len(matched_path)
         /\ matched_path # <<>> => /\ matched_path \in DOMAIN routes
                                  /\ IsPrefix(matched_path, target)
    /\ stage = "done" =>
         found = IF matched_path \in DOMAIN routes THEN routes[matched_path]
                 ELSE IF Root \in DOMAIN routes THEN routes[Root] ELSE NoFactory

\* The inductive invariant of the Dispatcher.
DispatcherInv == DispatcherTypeOK /\ RoutesInv /\ OrderInv /\ SearchInv

\* Before the first location is dispatched, with a config of any paths.
Undispatched ==
    /\ path_to_handler \in [DOMAIN path_to_handler -> Handlers]
    /\ path_to_root \in [DOMAIN path_to_root -> Roots]
    /\ DOMAIN path_to_root \subseteq DOMAIN path_to_handler
    /\ \A p \in DOMAIN path_to_handler : IsPath(p)
    /\ todo = DOMAIN path_to_handler
    /\ routes = << >>
    /\ stage = "dispatching"
    /\ target = <<>>
    /\ unseen = {}
    /\ matched_path = <<>>
    /\ found = NoFactory

\* The invariant holds then.
LEMMA UndispatchedHolds == Undispatched => DispatcherInv
<1> SUFFICES ASSUME Undispatched PROVE DispatcherInv
  OBVIOUS
<1>1. routes = << >> /\ DOMAIN routes = {} /\ routes \in [{} -> Factories]
  BY DEF Undispatched
<1>2. DispatcherTypeOK
  <2>1. <<>> \in Seq(Int)
    BY EmptySeq
  <2> QED
    BY <1>1, <2>1 DEF Undispatched, DispatcherTypeOK
<1>3. DOMAIN path_to_handler \ todo = {}
  BY DEF Undispatched
<1> QED
  BY <1>1, <1>2, <1>3 DEF Undispatched, DispatcherInv, RoutesInv, OrderInv, SearchInv

\* So it does with the configs of DispatcherInit.
LEMMA DispatcherStarts == DispatcherInit => DispatcherInv
<1> SUFFICES ASSUME DispatcherInit PROVE DispatcherInv
  OBVIOUS
<1>1. PICK locations \in SUBSET Paths :
        /\ path_to_handler \in [locations -> Handlers]
        /\ \E rooted \in SUBSET locations : path_to_root \in [rooted -> Roots]
        /\ todo = locations
  BY DEF DispatcherInit
<1>2. \A p \in DOMAIN path_to_handler : IsPath(p)
  BY <1>1, DispatcherAssumption
<1>3. Undispatched
  BY <1>1, <1>2 DEF DispatcherInit, Undispatched
<1> QED
  BY <1>3, UndispatchedHolds

\* A path, trimmed or not, is a sequence; so is every route.
LEMMA RouteTypes ==
    ASSUME DispatcherTypeOK
    PROVE  /\ \A p \in DOMAIN path_to_handler :
                /\ IsPath(p) /\ p \in Seq(Int) /\ Trim(p) \in Seq(Int)
                /\ Len(Trim(p)) \in Nat /\ Len(Trim(p)) >= 1
           /\ \A r \in DOMAIN routes : r \in Seq(Int) /\ Len(r) \in Nat
           /\ matched_path \in Seq(Int) /\ Len(matched_path) \in Nat
           /\ target \in Seq(Int)
<1>1. <<>> \in Seq(Int)
  BY EmptySeq
<1> QED
  BY <1>1, TrimmedPaths, LenProperties DEF DispatcherTypeOK

\* dispatch keeps it.
LEMMA DispatchKeeps ==
    ASSUME DispatcherInv, NEW p \in todo, Dispatch(p)
    PROVE  DispatcherInv'
<1> USE DEF DispatcherInv, config
<1>1. /\ p \in DOMAIN path_to_handler /\ IsPath(p) /\ Trim(p) \in Seq(Int)
      /\ todo' = todo \ {p}
      /\ UNCHANGED <<config, stage, target, unseen, matched_path, found>>
  BY RouteTypes DEF Dispatch, DispatcherTypeOK
<1>2. stage = "dispatching" /\ unseen = {} /\ matched_path = <<>>
  BY DEF SearchInv
<1>3. Known(p) => path_to_handler[p] \in KnownHandlers
  BY DEF Known
<1>4. Known(p) => Factory(p) \in Factories
  <2> SUFFICES ASSUME Known(p) PROVE Factory(p) \in Factories
    OBVIOUS
  <2>1. Trim(p) \in DOMAIN path_to_root => path_to_root[Trim(p)] \in Roots
    BY DEF DispatcherTypeOK
  <2> QED
    BY <2>1, <1>3 DEF Factory, Factories
<1>5. \A q : (Known(q) <=> Known(q)') /\ (Factory(q) = Factory(q)')
  BY <1>1 DEF Known, Factory
<1>6. CASE Known(p) /\ Trim(p) \notin DOMAIN routes
  <2>1. /\ DOMAIN routes' = DOMAIN routes \cup {Trim(p)}
        /\ routes'[Trim(p)] = Factory(p)
        /\ \A r \in DOMAIN routes : routes'[r] = routes[r]
        /\ routes' \in [DOMAIN routes' -> Factories]
    BY <1>4, <1>6 DEF Dispatch, DispatcherTypeOK
  <2>2. DispatcherTypeOK'
    BY <1>1, <1>2, <2>1 DEF DispatcherTypeOK
  <2>3. RoutesInv'
    BY <1>1, <1>5, <1>6, <2>1 DEF RoutesInv
  <2>4. \A q \in DOMAIN path_to_handler \ todo : Known(q) /\ q = Trim(q) =>
           q \in DOMAIN routes /\ routes[q] = Factory(q)
    BY DEF RoutesInv, OrderInv
  <2>5. OrderInv'
    BY <1>1, <1>5, <2>1, <2>4 DEF OrderInv, Dispatch
  <2> QED
    BY <1>1, <1>2, <2>2, <2>3, <2>5 DEF SearchInv
<1>7. CASE ~ (Known(p) /\ Trim(p) \notin DOMAIN routes)
  <2>1. routes' = routes
    BY <1>7 DEF Dispatch
  <2>2. DispatcherTypeOK'
    BY <1>1, <2>1 DEF DispatcherTypeOK
  <2>3. RoutesInv'
    BY <1>1, <1>5, <1>7, <2>1 DEF RoutesInv
  <2>4. ~ (Known(p) /\ p = Trim(p))
    <3> SUFFICES ASSUME Known(p), p = Trim(p) PROVE FALSE
      OBVIOUS
    <3>1. PICK q \in DOMAIN path_to_handler \ todo : p = Trim(q)
      BY <1>7 DEF RoutesInv
    <3>2. Before(q, p) /\ IsPath(q)
      BY RouteTypes DEF OrderInv
    <3> QED
      BY <1>1, <3>1, <3>2, ExactComesFirst
  <2>5. OrderInv'
    BY <1>1, <1>5, <2>1, <2>4 DEF OrderInv, Dispatch
  <2> QED
    BY <1>1, <1>2, <2>1, <2>2, <2>3, <2>5 DEF SearchInv
<1> QED
  BY <1>6, <1>7

\* The config, the routes and their order stay once all is dispatched.
LEMMA RoutesStay ==
    ASSUME DispatcherInv, UNCHANGED <<config, todo, routes>>
    PROVE  RoutesInv' /\ OrderInv'
<1>1. \A q : (Known(q) <=> Known(q)') /\ (Factory(q) = Factory(q)')
  BY DEF Known, Factory, config
<1> QED
  BY <1>1 DEF DispatcherInv, RoutesInv, OrderInv, config

\* A round of split_uri keeps the longest match.
LEMMA CompareKeeps ==
    ASSUME DispatcherInv, NEW r \in unseen, Compare(r)
    PROVE  DispatcherInv'
<1> USE DEF DispatcherInv, config
<1>1. stage = "searching" /\ r \in DOMAIN routes /\ unseen' = unseen \ {r}
  BY DEF SearchInv, Compare, DispatcherTypeOK
<1>2. UNCHANGED <<config, todo, routes, stage, target, found>>
  BY DEF Compare
<1>3. matched_path' \in {r, matched_path}
  BY DEF Compare
<1>4. DispatcherTypeOK'
  BY <1>1, <1>2, <1>3 DEF DispatcherTypeOK
<1>5. Len(r) \in Nat /\ Len(matched_path) \in Nat /\ Len(matched_path') \in Nat
  BY RouteTypes, <1>1, <1>3
<1>6. /\ IsPrefix(r, target) => Len(r) <= Len(matched_path')
      /\ Len(matched_path) <= Len(matched_path')
      /\ matched_path' # matched_path => matched_path' = r /\ IsPrefix(r, target)
  BY <1>5 DEF Compare
<1>7. \A s \in DOMAIN routes \ unseen' :
        IsPrefix(s, target) => Len(s) <= Len(matched_path')
  <2> SUFFICES ASSUME NEW s \in DOMAIN routes \ unseen', IsPrefix(s, target)
               PROVE  Len(s) <= Len(matched_path')
    OBVIOUS
  <2>1. CASE s = r
    BY <2>1, <1>6
  <2>2. CASE s # r
    <3>1. Len(s) <= Len(matched_path) /\ Len(s) \in Nat
      BY <2>2, <1>1, RouteTypes DEF SearchInv
    <3> QED
      BY <3>1, <1>5, <1>6
  <2> QED
    BY <2>1, <2>2
<1>8. SearchInv'
  BY <1>1, <1>2, <1>6, <1>7 DEF SearchInv
<1> QED
  BY <1>2, <1>4, <1>8, RoutesStay

\* split_uri is called with any target.
LEMMA SplitUriKeeps ==
    ASSUME DispatcherInv, NEW t \in Seq(Int), SplitUri(t)
    PROVE  DispatcherInv'
<1>1. DispatcherTypeOK' /\ SearchInv'
  BY DEF DispatcherInv, SplitUri, DispatcherTypeOK, SearchInv, config
<1>2. UNCHANGED <<config, todo, routes>>
  BY DEF SplitUri
<1> QED
  BY <1>1, <1>2, RoutesStay DEF DispatcherInv

\* So does every other step, and a stuttering one.
LEMMA DispatcherKeeps == DispatcherInv /\ [DispatcherNext]_dispatcherVars
                             => DispatcherInv'
<1> SUFFICES ASSUME DispatcherInv, [DispatcherNext]_dispatcherVars
             PROVE  DispatcherInv'
  OBVIOUS
<1> USE DEF DispatcherInv, config
<1>1. CASE \E p \in todo : Dispatch(p)
  BY <1>1, DispatchKeeps
<1>2. CASE Initialized
  <2>1. DispatcherTypeOK' /\ SearchInv'
    BY <1>2 DEF Initialized, DispatcherTypeOK, SearchInv
  <2> QED
    BY <1>2, <2>1, RoutesStay DEF Initialized
<1>3. CASE \E t \in Targets : SplitUri(t)
  <2>1. PICK t \in Targets : SplitUri(t)
    BY <1>3
  <2> QED
    BY <2>1, SplitUriKeeps, DispatcherAssumption
<1>4. CASE \E r \in unseen : Compare(r)
  BY <1>4, CompareKeeps
<1>5. CASE GetHandler
  <2>1. found' \in Factories \cup {NoFactory}
    BY <1>5 DEF GetHandler, DispatcherTypeOK
  <2>2. DispatcherTypeOK' /\ SearchInv'
    BY <1>5, <2>1 DEF GetHandler, DispatcherTypeOK, SearchInv
  <2> QED
    BY <1>5, <2>2, RoutesStay DEF GetHandler
<1>6. CASE UNCHANGED dispatcherVars
  <2>1. DispatcherTypeOK' /\ SearchInv'
    BY <1>6 DEF dispatcherVars, DispatcherTypeOK, SearchInv
  <2> QED
    BY <1>6, <2>1, RoutesStay DEF dispatcherVars
<1> QED
  BY <1>1, <1>2, <1>3, <1>4, <1>5, <1>6 DEF DispatcherNext

\* It holds in every state.
LEMMA DispatcherSafe == DispatcherSpec => []DispatcherInv
BY DispatcherStarts, DispatcherKeeps, PTL DEF DispatcherSpec

(***************************************************************************)
(* What follows from it.                                                   *)
(***************************************************************************)

\* The search has compared all routes, and there is one for each of the locations.
LEMMA LongestMatchHolds == DispatcherInv => LongestMatch
<1> SUFFICES ASSUME DispatcherInv, stage = "done"
             PROVE  IF \E p \in DOMAIN path_to_handler : Covers(p)
                    THEN \E p \in DOMAIN path_to_handler :
                             Longest(p) /\ matched_path = Trim(p)
                    ELSE matched_path = <<>>
  BY DEF LongestMatch
<1>1. todo = {} /\ unseen = {}
  BY DEF DispatcherInv, SearchInv
<1>2. \A p \in DOMAIN path_to_handler : Covers(p) =>
        Len(Trim(p)) <= Len(matched_path)
  BY <1>1 DEF DispatcherInv, RoutesInv, SearchInv, Covers
<1>3. ASSUME matched_path # <<>>
      PROVE  \E p \in DOMAIN path_to_handler :
                 Longest(p) /\ matched_path = Trim(p)
  <2>1. matched_path \in DOMAIN routes /\ IsPrefix(matched_path, target)
    BY <1>3 DEF DispatcherInv, SearchInv
  <2>2. PICK p \in DOMAIN path_to_handler : Known(p) /\ matched_path = Trim(p)
    BY <2>1 DEF DispatcherInv, RoutesInv
  <2>3. Covers(p)
    BY <2>1, <2>2 DEF Covers
  <2> QED
    BY <1>2, <2>2, <2>3 DEF Longest
<1>4. ASSUME matched_path = <<>>
      PROVE  ~ \E p \in DOMAIN path_to_handler : Covers(p)
  <2>1. \A p \in DOMAIN path_to_handler : Len(Trim(p)) \in Nat /\ Len(Trim(p)) >= 1
    BY RouteTypes DEF DispatcherInv
  <2>2. Len(matched_path) = 0
    BY <1>4
  <2> QED
    BY <1>2, <2>1, <2>2
<1>5. \A p : Longest(p) => Covers(p)
  BY DEF Longest
<1> QED
  BY <1>3, <1>4, <1>5

\* The match that split_uri returns is the longest of the configured
\* locations that cover the request.
THEOREM MatchIsLongest == DispatcherSpec => []LongestMatch
BY LongestMatchHolds, DispatcherSafe, PTL

\* The match is the route that the location has got for itself.
LEMMA ExactLocationHolds == DispatcherInv => ExactLocationWins
<1> SUFFICES ASSUME DispatcherInv, stage = "done",
                    NEW p \in DOMAIN path_to_handler, Longest(p), p = Trim(p)
             PROVE  /\ found.handler = path_to_handler[p]
                    /\ found.handler \in RootedHandlers /\ p \in DOMAIN path_to_root
                         => found.root = path_to_root[p]
  BY DEF ExactLocationWins
<1>1. todo = {} /\ unseen = {}
  BY DEF DispatcherInv, SearchInv
<1>2. Known(p) /\ IsPrefix(p, target)
  BY DEF Longest, Covers
<1>3. p \in DOMAIN routes /\ routes[p] = Factory(p)
  BY <1>1, <1>2 DEF DispatcherInv, RoutesInv, OrderInv
<1>4. Len(p) <= Len(matched_path)
  BY <1>1, <1>2, <1>3 DEF DispatcherInv, SearchInv
<1>5. Len(p) \in Nat /\ Len(p) >= 1 /\ p \in Seq(Int)
  BY RouteTypes DEF DispatcherInv
<1>6. matched_path # <<>>
  BY <1>4, <1>5
<1>7. matched_path \in DOMAIN routes /\ IsPrefix(matched_path, target)
  BY <1>6 DEF DispatcherInv, SearchInv
<1>8. PICK q \in DOMAIN path_to_handler : Known(q) /\ matched_path = Trim(q)
  BY <1>7 DEF DispatcherInv, RoutesInv
<1>9. Len(matched_path) <= Len(p)
  BY <1>7, <1>8 DEF Longest, Covers
<1>10. matched_path = p
  <2>1. /\ matched_path \in Seq(Int) /\ Len(matched_path) \in Nat
        /\ target \in Seq(Int)
    BY RouteTypes DEF DispatcherInv
  <2> QED
    BY <1>2, <1>4, <1>5, <1>7, <1>9, <2>1, PrefixUnique
<1>11. found = Factory(p)
  BY <1>3, <1>10 DEF DispatcherInv, SearchInv
<1> QED
  BY <1>11 DEF Factory

\* A location without slashes at its end keeps its own handler and root.
THEOREM ExactLocationKept == DispatcherSpec => []ExactLocationWins
BY ExactLocationHolds, DispatcherSafe, PTL

\* Type correctness of the config, the routes and the search.
THEOREM DispatcherTypeCorrect == DispatcherSpec => []DispatcherTypeOK
BY DispatcherSafe, PTL DEF DispatcherInv
=============================================================================

----------------------- MODULE MarkdownEmphasisProofs -----------------------
(***************************************************************************)
(* Emphasis in cpp_markdown, for every text: its tags nest, and the pass   *)
(* that unmatches those that do not never looks at the top of an empty     *)
(* stack.  For these nothing is assumed of what the regular expressions    *)
(* match but that they make a text or a marker of it, so that both hold    *)
(* whichever markers are found to open or to close.  That as many emphasis *)
(* characters are in the tokens as in the text needs what they match.      *)
(***************************************************************************)
EXTENDS MarkdownEmphasis, TLAPS, SequenceTheorems, WellFoundedInduction

(***************************************************************************)
(* Lists of tokens.                                                        *)
(***************************************************************************)

\* A token, whatever its text and its size are.
IsToken(t) == t \in [open : {t.open}, c : {t.c}, size : {t.size}, off : {t.off},
                     id : Int, text : {t.text}]

\* A list of tokens.
IsTokenList(s) == \E T : s \in Seq(T) /\ \A t \in T : IsToken(t)

\* What the loops do to a token: matched or unmatched, it has another id, and
\* a marker that was split is off.
LEMMA TokenChanges ==
    ASSUME NEW t, IsToken(t), NEW k \in Int
    PROVE  /\ IsToken([t EXCEPT !.id = k]) /\ [t EXCEPT !.id = k].id = k
           /\ \A x \in {[t EXCEPT !.id = k]} :
                x.open = t.open /\ x.c = t.c /\ x.size = t.size /\ x.off = t.off
           /\ IsToken(Disabled(t)) /\ Disabled(t).id = t.id
BY DEF IsToken, Disabled

\* A new token has no match.
LEMMA NewTokens ==
    ASSUME NEW a, NEW b, NEW c
    PROVE  /\ IsToken(Marker(a, b, c)) /\ Marker(a, b, c).id = -1
           /\ IsToken(Text(a)) /\ Text(a).id = -1
BY DEF IsToken, Marker, Text

\* A list with three elements in the place of the n-th.
Splice(s, n, x, y, z) == SubSeq(s, 1, n - 1) \o <<x, y, z>> \o SubSeq(s, n + 1, Len(s))

\* A set of natural numbers with a bound has a maximum.
LEMMA BoundedMax ==
    ASSUME NEW hi \in Nat, NEW S, S \subseteq 0 .. hi, S # {}
    PROVE  Max(S) \in S /\ \A x \in S : Max(S) >= x
<1> DEFINE T == {hi - x : x \in S}
<1>1. T \subseteq Nat /\ T # {}
  <2>1. \A x \in S : hi - x \in Nat
    OBVIOUS
  <2> QED
    BY <2>1
<1>2. PICK t \in T : \A u \in T : ~ (<<u, t>> \in OpToRel(<, Nat))
  BY <1>1, WFMin, NatLessThanWellFounded
<1>3. PICK m \in S : t = hi - m
  OBVIOUS
<1>4. \A x \in S : m >= x
  <2> SUFFICES ASSUME NEW x \in S PROVE m >= x
    OBVIOUS
  <2>1. hi - x \in T /\ hi - x \in Nat /\ t \in Nat
    BY <1>1
  <2>2. ~ (hi - x < t)
    BY <2>1, <1>2 DEF OpToRel
  <2> QED
    BY <2>2, <1>3
<1> QED
  BY <1>4 DEF Max

(***************************************************************************)
(* Matches.                                                                *)
(***************************************************************************)

\* The markers at m and n are matched with each other.
IsMatch(s, m, n) ==
    /\ MatchedOpen(s[m]) /\ MatchedClose(s[n])
    /\ s[m].id = s[n].id /\ s[m].c = s[n].c /\ s[m].size = s[n].size

\* A marker with a match has exactly one, and it is in the list; what is off
\* has none.
Paired(s) ==
    /\ \A n \in DOMAIN s : s[n].off => s[n].id = -1
    /\ \A n \in DOMAIN s : MatchedOpen(s[n]) => \E m \in DOMAIN s : n < m /\ IsMatch(s, n, m)
    /\ \A n \in DOMAIN s : MatchedClose(s[n]) => \E m \in DOMAIN s : m < n /\ IsMatch(s, m, n)
    /\ \A m, n \in DOMAIN s :
         MatchedOpen(s[m]) /\ MatchedOpen(s[n]) /\ s[m].id = s[n].id => m = n
    /\ \A m, n \in DOMAIN s :
         MatchedClose(s[m]) /\ MatchedClose(s[n]) /\ s[m].id = s[n].id => m = n

\* Where there are no matches yet, all is well.
LEMMA NoMatches ==
    ASSUME NEW s, \A n \in DOMAIN s : s[n].id = -1
    PROVE  Paired(s)
BY DEF Paired, MatchedOpen, MatchedClose

\* Three markers without a match, in the place of one, separate no pair.
LEMMA SplicePaired ==
    ASSUME NEW L \in Nat, NEW s, DOMAIN s = 1 .. L, NEW r, DOMAIN r = 1 .. L + 2,
           NEW n \in 1 .. L, Paired(s),
           s[n].id = -1, r[n].id = -1, r[n + 1].id = -1, r[n + 2].id = -1,
           \A k \in 1 .. n - 1 : r[k] = s[k],
           \A k \in n + 3 .. L + 2 : r[k] = s[k - 2]
    PROVE  Paired(r)
<1> DEFINE To(k) == IF k < n THEN k ELSE k + 2
           Back(k) == IF k < n THEN k ELSE k - 2
<1>1. \A k \in 1 .. L : s[k].id # -1 => To(k) \in 1 .. L + 2 /\ r[To(k)] = s[k]
  <2> SUFFICES ASSUME NEW k \in 1 .. L, k # n PROVE To(k) \in 1 .. L + 2 /\ r[To(k)] = s[k]
    OBVIOUS
  <2>1. CASE k < n
    <3>1. k \in 1 .. n - 1
      BY <2>1
    <3> QED
      BY <2>1, <3>1
  <2>2. CASE k > n
    <3>1. k + 2 \in n + 3 .. L + 2 /\ k + 2 - 2 = k /\ ~ (k < n)
      BY <2>2
    <3>2. r[k + 2] = s[k + 2 - 2]
      BY <3>1
    <3> QED
      BY <3>1, <3>2
  <2> QED
    BY <2>1, <2>2
<1>2. \A k \in 1 .. L + 2 : r[k].id # -1 =>
         Back(k) \in 1 .. L /\ r[k] = s[Back(k)] /\ k \notin {n, n + 1, n + 2}
  <2> SUFFICES ASSUME NEW k \in 1 .. L + 2, k \notin {n, n + 1, n + 2}
               PROVE  Back(k) \in 1 .. L /\ r[k] = s[Back(k)]
    OBVIOUS
  <2>1. CASE k < n
    <3>1. k \in 1 .. n - 1
      BY <2>1
    <3> QED
      BY <2>1, <3>1
  <2>2. CASE k > n + 2
    <3>1. k \in n + 3 .. L + 2 /\ ~ (k < n) /\ k - 2 \in 1 .. L
      BY <2>2
    <3> QED
      BY <3>1
  <2> QED
    BY <2>1, <2>2
<1>3. \A j, k \in 1 .. L : j # n /\ k # n /\ j < k => To(j) < To(k)
  OBVIOUS
<1>4. ASSUME NEW j \in 1 .. L + 2, NEW k \in 1 .. L + 2,
             j \notin {n, n + 1, n + 2}, k \notin {n, n + 1, n + 2}, Back(j) = Back(k)
      PROVE  j = k
  <2>1. \A x \in Int : x \notin {n, n + 1, n + 2} => x < n \/ x - 2 > n
    OBVIOUS
  <2>2. (j < n \/ j - 2 > n) /\ (k < n \/ k - 2 > n)
    BY <1>4, <2>1
  <2>3. \A x \in {j, k} : (x < n => Back(x) = x) /\ (x - 2 > n => Back(x) = x - 2)
    OBVIOUS
  <2> HIDE DEF Back
  <2> QED
    BY <1>4, <2>2, <2>3
<1>5. \A k \in 1 .. L + 2 : k \notin {n, n + 1, n + 2} => To(Back(k)) = k /\ Back(k) # n
  OBVIOUS
<1>6. \A t : (MatchedOpen(t) => t.id # -1) /\ (MatchedClose(t) => t.id # -1)
  BY DEF MatchedOpen, MatchedClose
<1> HIDE DEF To, Back
<1>7. ASSUME NEW k \in DOMAIN r PROVE r[k].off => r[k].id = -1
  BY <1>2 DEF Paired
<1>8. ASSUME NEW k \in DOMAIN r, MatchedOpen(r[k])
      PROVE  \E m \in DOMAIN r : k < m /\ IsMatch(r, k, m)
  <2>1. Back(k) \in 1 .. L /\ r[k] = s[Back(k)] /\ To(Back(k)) = k /\ Back(k) # n
    BY <1>2, <1>5, <1>6, <1>8
  <2>2. PICK m \in DOMAIN s : Back(k) < m /\ IsMatch(s, Back(k), m)
    BY <1>8, <2>1 DEF Paired
  <2>3. s[m].id # -1 /\ m # n
    BY <1>6, <2>2 DEF IsMatch
  <2>4. To(m) \in DOMAIN r /\ r[To(m)] = s[m] /\ k < To(m)
    BY <1>1, <1>3, <2>1, <2>2, <2>3
  <2> QED
    BY <2>1, <2>2, <2>4 DEF IsMatch
<1>9. ASSUME NEW k \in DOMAIN r, MatchedClose(r[k])
      PROVE  \E m \in DOMAIN r : m < k /\ IsMatch(r, m, k)
  <2>1. Back(k) \in 1 .. L /\ r[k] = s[Back(k)] /\ To(Back(k)) = k /\ Back(k) # n
    BY <1>2, <1>5, <1>6, <1>9
  <2>2. PICK m \in DOMAIN s : m < Back(k) /\ IsMatch(s, m, Back(k))
    BY <1>9, <2>1 DEF Paired
  <2>3. s[m].id # -1 /\ m # n
    BY <1>6, <2>2 DEF IsMatch
  <2>4. To(m) \in DOMAIN r /\ r[To(m)] = s[m] /\ To(m) < k
    BY <1>1, <1>3, <2>1, <2>2, <2>3
  <2> QED
    BY <2>1, <2>2, <2>4 DEF IsMatch
<1>10. ASSUME NEW j \in DOMAIN r, NEW k \in DOMAIN r, r[j].id = r[k].id,
              \/ MatchedOpen(r[j]) /\ MatchedOpen(r[k])
              \/ MatchedClose(r[j]) /\ MatchedClose(r[k])
       PROVE  j = k
  <2>1. /\ Back(j) \in 1 .. L /\ r[j] = s[Back(j)] /\ j \notin {n, n + 1, n + 2}
        /\ Back(k) \in 1 .. L /\ r[k] = s[Back(k)] /\ k \notin {n, n + 1, n + 2}
    BY <1>2, <1>6, <1>10
  <2>2. Back(j) = Back(k)
    BY <1>10, <2>1 DEF Paired
  <2> QED
    BY <1>4, <2>1, <2>2
<1> QED
  BY <1>7, <1>8, <1>9, <1>10 DEF Paired

\* Two markers that fit and had no match get one, under an id not yet used.
LEMMA MatchPaired ==
    ASSUME NEW s, NEW r, DOMAIN r = DOMAIN s, NEW i \in DOMAIN s, NEW j \in DOMAIN s,
           DOMAIN s \subseteq Int, i < j, NEW k \in Nat,
           Paired(s), \A n \in DOMAIN s : s[n].id # k,
           UnmatchedOpen(s[i]), UnmatchedClose(s[j]), s[i].c = s[j].c, s[i].size = s[j].size,
           r[i].id = k, r[j].id = k,
           \A n \in DOMAIN s \ {i, j} : r[n] = s[n],
           \A n \in {i, j} : /\ r[n].open = s[n].open /\ r[n].off = s[n].off
                             /\ r[n].c = s[n].c /\ r[n].size = s[n].size
    PROVE  Paired(r)
<1>1. /\ i # j /\ k # -1
      /\ MatchedOpen(r[i]) /\ MatchedClose(r[j]) /\ ~ MatchedClose(r[i]) /\ ~ MatchedOpen(r[j])
      /\ ~r[i].off /\ ~r[j].off /\ IsMatch(r, i, j)
  BY DEF UnmatchedOpen, UnmatchedClose, MatchedOpen, MatchedClose, IsMarker, IsMatch
<1>2. \A t : (MatchedOpen(t) => t.id # -1) /\ (MatchedClose(t) => t.id # -1)
  BY DEF MatchedOpen, MatchedClose
<1>3. s[i].id = -1 /\ s[j].id = -1
  BY DEF UnmatchedOpen, UnmatchedClose
<1>4. \A m, n \in DOMAIN s : IsMatch(s, m, n) => IsMatch(r, m, n)
  BY <1>2, <1>3 DEF IsMatch
<1>5. \A n \in DOMAIN r : r[n].off => r[n].id = -1
  BY <1>1 DEF Paired
<1>6. ASSUME NEW n \in DOMAIN r, MatchedOpen(r[n])
      PROVE  \E m \in DOMAIN r : n < m /\ IsMatch(r, n, m)
  BY <1>1, <1>4, <1>6 DEF Paired
<1>7. ASSUME NEW n \in DOMAIN r, MatchedClose(r[n])
      PROVE  \E m \in DOMAIN r : m < n /\ IsMatch(r, m, n)
  BY <1>1, <1>4, <1>7 DEF Paired
<1>8. ASSUME NEW m \in DOMAIN r, NEW n \in DOMAIN r, r[m].id = r[n].id,
             \/ MatchedOpen(r[m]) /\ MatchedOpen(r[n])
             \/ MatchedClose(r[m]) /\ MatchedClose(r[n])
      PROVE  m = n
  <2>1. CASE m \in {i, j} \/ n \in {i, j}
    BY <1>1, <1>8, <2>1
  <2>2. CASE m \notin {i, j} /\ n \notin {i, j}
    BY <1>8, <2>2 DEF Paired
  <2> QED
    BY <2>1, <2>2
<1> QED
  BY <1>5, <1>6, <1>7, <1>8 DEF Paired

\* r is s without the match key.
Without(s, r, key) ==
    /\ DOMAIN r = DOMAIN s
    /\ \A n \in DOMAIN s : s[n].id = key => r[n].id = -1 /\ r[n].off = s[n].off
    /\ \A n \in DOMAIN s : s[n].id # key => r[n] = s[n]

\* A pair whose markers are both unmatched leaves the others as they were.
LEMMA UnmatchPaired ==
    ASSUME NEW s, NEW r, NEW key, Paired(s), Without(s, r, key)
    PROVE  /\ Paired(r)
           /\ \A n \in DOMAIN s : MatchedOpen(r[n]) \/ MatchedClose(r[n]) =>
                 r[n] = s[n] /\ s[n].id # key
<1> USE DEF Without
<1>1. \A t : (MatchedOpen(t) => t.id # -1) /\ (MatchedClose(t) => t.id # -1)
  BY DEF MatchedOpen, MatchedClose
<1>2. \A n \in DOMAIN s : MatchedOpen(r[n]) \/ MatchedClose(r[n]) =>
         r[n] = s[n] /\ s[n].id # key
  BY <1>1
<1>3. \A m, n \in DOMAIN s : IsMatch(s, m, n) /\ (s[m].id # key \/ s[n].id # key)
         => IsMatch(r, m, n)
  BY DEF IsMatch
<1>4. \A n \in DOMAIN r : r[n].off => r[n].id = -1
  BY DEF Paired
<1>5. ASSUME NEW n \in DOMAIN r, MatchedOpen(r[n])
      PROVE  \E m \in DOMAIN r : n < m /\ IsMatch(r, n, m)
  BY <1>2, <1>3, <1>5 DEF Paired
<1>6. ASSUME NEW n \in DOMAIN r, MatchedClose(r[n])
      PROVE  \E m \in DOMAIN r : m < n /\ IsMatch(r, m, n)
  BY <1>2, <1>3, <1>6 DEF Paired
<1>7. ASSUME NEW m \in DOMAIN r, NEW n \in DOMAIN r, r[m].id = r[n].id,
             \/ MatchedOpen(r[m]) /\ MatchedOpen(r[n])
             \/ MatchedClose(r[m]) /\ MatchedClose(r[n])
      PROVE  m = n
  BY <1>2, <1>7 DEF Paired
<1> QED
  BY <1>2, <1>4, <1>5, <1>6, <1>7 DEF Paired

(***************************************************************************)
(* The lists that the steps make.                                          *)
(***************************************************************************)

\* A list of tokens is a function on its positions, with tokens as values.
LEMMA TokenLists ==
    ASSUME NEW s
    PROVE  /\ IsTokenList(s) => /\ Len(s) \in Nat /\ DOMAIN s = 1 .. Len(s)
                                /\ s = [n \in 1 .. Len(s) |-> s[n]]
                                /\ \A n \in 1 .. Len(s) : IsToken(s[n])
           /\ \A L \in Nat : s = [n \in 1 .. L |-> s[n]] /\ (\A n \in 1 .. L : IsToken(s[n]))
                             => IsTokenList(s)
<1>1. ASSUME IsTokenList(s)
      PROVE  /\ Len(s) \in Nat /\ DOMAIN s = 1 .. Len(s)
             /\ s = [n \in 1 .. Len(s) |-> s[n]]
             /\ \A n \in 1 .. Len(s) : IsToken(s[n])
  <2>1. PICK T : s \in Seq(T) /\ \A t \in T : IsToken(t)
    BY <1>1 DEF IsTokenList
  <2>2. Len(s) \in Nat /\ s = [n \in 1 .. Len(s) |-> s[n]] /\ \A n \in 1 .. Len(s) : s[n] \in T
    BY <2>1
  <2> QED
    BY <2>1, <2>2
<1>2. ASSUME NEW L \in Nat, s = [n \in 1 .. L |-> s[n]], \A n \in 1 .. L : IsToken(s[n])
      PROVE  IsTokenList(s)
  <2> DEFINE T == {s[n] : n \in 1 .. L}
  <2>1. s \in [1 .. L -> T]
    BY <1>2
  <2>2. s \in Seq(T)
    BY <2>1
  <2>3. \A t \in T : IsToken(t)
    BY <1>2
  <2> QED
    BY <2>2, <2>3 DEF IsTokenList
<1> QED
  BY <1>1, <1>2

\* Tokens of which none has a match yet.
Fresh(s) == IsTokenList(s) /\ \A n \in DOMAIN s : s[n].id = -1

\* A list that grows by such tokens.
LEMMA FreshConcat ==
    ASSUME NEW a, NEW b, Fresh(a), Fresh(b)
    PROVE  Fresh(a \o b)
<1>1. PICK S : a \in Seq(S) /\ \A t \in S : IsToken(t)
  BY DEF Fresh, IsTokenList
<1>2. PICK T : b \in Seq(T) /\ \A t \in T : IsToken(t)
  BY DEF Fresh, IsTokenList
<1> DEFINE U == S \cup T
<1>3. a \in Seq(U) /\ b \in Seq(U)
  BY <1>1, <1>2
<1>4. \A t \in U : IsToken(t)
  BY <1>1, <1>2
<1> HIDE DEF U
<1> DEFINE r == a \o b
<1>5. /\ r \in Seq(U) /\ Len(r) = Len(a) + Len(b)
      /\ \A k \in 1 .. Len(a) + Len(b) : r[k] = IF k <= Len(a) THEN a[k] ELSE b[k - Len(a)]
  BY ONLY <1>3, ConcatProperties
<1> HIDE DEF r
<1>6. ASSUME NEW k \in DOMAIN r PROVE r[k].id = -1
  <2>1. /\ Len(a) \in Nat /\ Len(b) \in Nat
        /\ DOMAIN a = 1 .. Len(a) /\ DOMAIN b = 1 .. Len(b) /\ k \in 1 .. Len(a) + Len(b)
    BY <1>3, <1>5
  <2>2. CASE k <= Len(a)
    <3>1. k \in DOMAIN a
      BY <2>1, <2>2
    <3> QED
      BY <1>5, <2>1, <2>2, <3>1 DEF Fresh
  <2>3. CASE ~ (k <= Len(a))
    <3>1. k - Len(a) \in DOMAIN b
      BY <2>1, <2>3
    <3> QED
      BY <1>5, <2>1, <2>3, <3>1 DEF Fresh
  <2> QED
    BY <2>2, <2>3
<1>7. IsTokenList(r)
  BY <1>4, <1>5 DEF IsTokenList
<1> QED
  BY <1>6, <1>7 DEF Fresh, r

\* The lists that the regular expression yields.
LEMMA FreshLists ==
    ASSUME NEW x, NEW y, NEW z
    PROVE  /\ Fresh(<<>>)
           /\ IsToken(x) /\ x.id = -1 => Fresh(<<x>>)
           /\ /\ IsToken(x) /\ x.id = -1 /\ IsToken(y) /\ y.id = -1 /\ IsToken(z) /\ z.id = -1
              => Fresh(<<x, y, z>>)
<1>1. Fresh(<<>>)
  <2> DEFINE r == <<>>
  <2>1. r \in Seq({}) /\ Len(r) = 0
    BY EmptySeq
  <2> HIDE DEF r
  <2>2. DOMAIN r = {}
    BY <2>1
  <2>3. Fresh(r)
    BY <2>1, <2>2 DEF Fresh, IsTokenList
  <2> QED
    BY <2>3 DEF r
<1>2. ASSUME IsToken(x), x.id = -1 PROVE Fresh(<<x>>)
  <2> DEFINE r == <<x>>
  <2>1. r \in Seq({x}) /\ \A t \in {x} : IsToken(t)
    BY <1>2
  <2>2. \A n \in DOMAIN r : r[n] = x
    OBVIOUS
  <2> HIDE DEF r
  <2>3. Fresh(r)
    BY <1>2, <2>1, <2>2 DEF Fresh, IsTokenList
  <2> QED
    BY <2>3 DEF r
<1>3. ASSUME IsToken(x), x.id = -1, IsToken(y), y.id = -1, IsToken(z), z.id = -1
      PROVE  Fresh(<<x, y, z>>)
  <2> DEFINE r == <<x, y, z>>
  <2>1. r \in Seq({x, y, z}) /\ \A t \in {x, y, z} : IsToken(t)
    BY <1>3
  <2>2. \A n \in DOMAIN r : r[n] \in {x, y, z}
    BY <2>1
  <2> HIDE DEF r
  <2>3. Fresh(r)
    BY <1>3, <2>1, <2>2 DEF Fresh, IsTokenList
  <2> QED
    BY <2>3 DEF r
<1> QED
  BY <1>1, <1>2, <1>3

(***************************************************************************)
(* The stack of the pass over the tokens s, which has come to the i-th.    *)
(***************************************************************************)

\* No match is on the stack twice.
Distinct(stack) == \A a, b \in DOMAIN stack : stack[a] = stack[b] => a = b

\* What is on it has been seen.
Seen(s, stack, i) ==
    \A a \in DOMAIN stack, n \in DOMAIN s : MatchedOpen(s[n]) /\ s[n].id = stack[a] => n < i

\* The matches that are open at i are on it.
OnStack(s, stack, i) ==
    \A m, n \in DOMAIN s : IsMatch(s, m, n) /\ m < i /\ i <= n => \E a \in DOMAIN stack : stack[a] = s[m].id

\* They are in the order in which they were opened.
Ordered(s, stack) ==
    \A m, n \in DOMAIN s : MatchedOpen(s[m]) /\ MatchedOpen(s[n]) /\ m < n =>
        \A a, b \in DOMAIN stack : stack[a] = s[m].id /\ stack[b] = s[n].id => a < b

\* Of two matches that cross, the one that closes first closes at i or later.
NoneCrossed(s, i) ==
    \A m1, n1, m2, n2 \in DOMAIN s :
        IsMatch(s, m1, n1) /\ IsMatch(s, m2, n2) /\ m1 < m2 /\ m2 < n1 /\ n1 < n2 => i <= n1

StackOK(s, stack, i) ==
    /\ Distinct(stack) /\ Seen(s, stack, i) /\ OnStack(s, stack, i)
    /\ Ordered(s, stack) /\ NoneCrossed(s, i)

\* The pass starts with nothing seen, and nothing on the stack.
LEMMA StackStarts ==
    ASSUME NEW s, NEW L \in Nat, DOMAIN s = 1 .. L,
           NEW stack, DOMAIN stack = {}
    PROVE  StackOK(s, stack, 1)
BY DEF StackOK, Distinct, Seen, OnStack, Ordered, NoneCrossed

\* A list without matches needs none.
LEMMA StackUnused ==
    ASSUME NEW s, \A n \in DOMAIN s : s[n].id = -1,
           NEW stack, DOMAIN stack = {}, NEW i
    PROVE  StackOK(s, stack, i)
<1>1. \A m, n \in DOMAIN s : ~ IsMatch(s, m, n) /\ ~ MatchedOpen(s[n])
  BY DEF IsMatch, MatchedOpen
<1> QED
  BY <1>1 DEF StackOK, Distinct, Seen, OnStack, Ordered, NoneCrossed

\* An open and a close marker are not the same.
LEMMA OpenOrClose ==
    ASSUME NEW t
    PROVE  ~ (MatchedOpen(t) /\ MatchedClose(t))
BY DEF MatchedOpen, MatchedClose

\* A token that is no matched marker is passed by.
LEMMA StackPasses ==
    ASSUME NEW s, NEW L \in Nat, DOMAIN s = 1 .. L, NEW i \in 1 .. L, NEW stack,
           StackOK(s, stack, i), ~ MatchedOpen(s[i]), ~ MatchedClose(s[i])
    PROVE  StackOK(s, stack, i + 1)
<1>1. \A m, n \in DOMAIN s : IsMatch(s, m, n) => m # i /\ n # i
  BY DEF IsMatch
<1>2. Seen(s, stack, i + 1)
  BY DEF StackOK, Seen
<1>3. OnStack(s, stack, i + 1)
  BY <1>1 DEF StackOK, OnStack
<1>4. NoneCrossed(s, i + 1)
  <2> SUFFICES ASSUME NEW m1 \in DOMAIN s, NEW n1 \in DOMAIN s, NEW m2 \in DOMAIN s, NEW n2 \in DOMAIN s,
                      IsMatch(s, m1, n1), IsMatch(s, m2, n2), m1 < m2, m2 < n1, n1 < n2
               PROVE  i + 1 <= n1
    BY DEF NoneCrossed
  <2>1. i <= n1 /\ n1 # i
    BY <1>1 DEF StackOK, NoneCrossed
  <2> QED
    BY <2>1
<1> QED
  BY <1>2, <1>3, <1>4 DEF StackOK

\* A matched open marker goes on the stack.
LEMMA StackGrows ==
    ASSUME NEW s, NEW L \in Nat, DOMAIN s = 1 .. L, NEW i \in 1 .. L,
           NEW D \in Nat, NEW stack, DOMAIN stack = 1 .. D,
           NEW grown, DOMAIN grown = 1 .. D + 1, \A a \in 1 .. D : grown[a] = stack[a],
           grown[D + 1] = s[i].id,
           Paired(s), StackOK(s, stack, i), MatchedOpen(s[i])
    PROVE  StackOK(s, grown, i + 1)
<1>0. /\ \A a \in 1 .. D + 1 : a \in 1 .. D \/ a = D + 1
      /\ D + 1 \in 1 .. D + 1 /\ \A a \in 1 .. D : a \in 1 .. D + 1 /\ a < D + 1
  OBVIOUS
<1>1. \A m \in DOMAIN s : MatchedOpen(s[m]) /\ s[m].id = grown[D + 1] => m = i
  BY DEF Paired
<1>2. \A a \in 1 .. D : grown[a] # grown[D + 1]
  BY DEF StackOK, Seen
<1>3. Distinct(grown)
  <2> SUFFICES ASSUME NEW a \in 1 .. D + 1, NEW b \in 1 .. D + 1, grown[a] = grown[b]
               PROVE  a = b
    BY DEF Distinct
  <2>1. CASE a \in 1 .. D /\ b \in 1 .. D
    BY <2>1 DEF StackOK, Distinct
  <2> QED
    BY <1>0, <1>2, <2>1
<1>4. Seen(s, grown, i + 1)
  <2> SUFFICES ASSUME NEW a \in 1 .. D + 1, NEW n \in DOMAIN s, MatchedOpen(s[n]), s[n].id = grown[a]
               PROVE  n < i + 1
    BY DEF Seen
  <2>1. CASE a \in 1 .. D
    <3>1. n < i
      BY <2>1 DEF StackOK, Seen
    <3> QED
      BY <3>1
  <2> QED
    BY <1>0, <1>1, <2>1
<1>5. OnStack(s, grown, i + 1)
  <2> SUFFICES ASSUME NEW m \in DOMAIN s, NEW n \in DOMAIN s, IsMatch(s, m, n), m < i + 1, i + 1 <= n
               PROVE  \E a \in DOMAIN grown : grown[a] = s[m].id
    BY DEF OnStack
  <2>1. CASE m = i
    BY <1>0, <2>1
  <2>2. CASE m # i
    <3>1. m < i /\ i <= n
      BY <2>2
    <3>2. PICK a \in 1 .. D : stack[a] = s[m].id
      BY <3>1 DEF StackOK, OnStack
    <3> QED
      BY <1>0, <3>2
  <2> QED
    BY <2>1, <2>2
<1>6. Ordered(s, grown)
  <2> SUFFICES ASSUME NEW m \in DOMAIN s, NEW n \in DOMAIN s, MatchedOpen(s[m]), MatchedOpen(s[n]), m < n,
                      NEW a \in 1 .. D + 1, NEW b \in 1 .. D + 1,
                      grown[a] = s[m].id, grown[b] = s[n].id
               PROVE  a < b
    BY DEF Ordered
  <2>1. CASE a \in 1 .. D /\ b \in 1 .. D
    BY <2>1 DEF StackOK, Ordered
  <2>2. CASE a \in 1 .. D /\ b = D + 1
    BY <2>2
  <2>3. CASE a = D + 1
    <3>1. m = i
      BY <1>1, <2>3
    <3>2. b \in 1 .. D
      BY <1>0, <1>1, <3>1
    <3>3. n < i
      BY <3>2 DEF StackOK, Seen
    <3> QED
      BY <3>1, <3>3
  <2> QED
    BY <1>0, <2>1, <2>2, <2>3
<1>7. NoneCrossed(s, i + 1)
  <2> SUFFICES ASSUME NEW m1 \in DOMAIN s, NEW n1 \in DOMAIN s, NEW m2 \in DOMAIN s, NEW n2 \in DOMAIN s,
                      IsMatch(s, m1, n1), IsMatch(s, m2, n2), m1 < m2, m2 < n1, n1 < n2
               PROVE  i + 1 <= n1
    BY DEF NoneCrossed
  <2>1. i <= n1 /\ n1 # i
    BY OpenOrClose DEF StackOK, NoneCrossed, IsMatch
  <2> QED
    BY <2>1
<1> QED
  BY <1>3, <1>4, <1>5, <1>6, <1>7 DEF StackOK

\* The close marker of another match than the top of the stack is unmatched,
\* with the open marker that it closes.
LEMMA StackSkips ==
    ASSUME NEW s, NEW L \in Nat, DOMAIN s = 1 .. L, NEW i \in 1 .. L, NEW stack,
           NEW r, DOMAIN r = 1 .. L,
           \A n \in 1 .. L : MatchedOpen(r[n]) \/ MatchedClose(r[n]) =>
              r[n] = s[n] /\ s[n].id # s[i].id,
           StackOK(s, stack, i), MatchedClose(s[i])
    PROVE  StackOK(r, stack, i + 1)
<1>1. \A n \in 1 .. L : MatchedOpen(r[n]) \/ MatchedClose(r[n]) => r[n] = s[n] /\ n # i
  OBVIOUS
<1>2. \A m, n \in 1 .. L : IsMatch(r, m, n) => IsMatch(s, m, n) /\ r[m] = s[m] /\ m # i /\ n # i
  BY <1>1 DEF IsMatch
<1>3. Distinct(stack)
  BY DEF StackOK
<1>4. Seen(r, stack, i + 1)
  <2> SUFFICES ASSUME NEW a \in DOMAIN stack, NEW n \in 1 .. L, MatchedOpen(r[n]), r[n].id = stack[a]
               PROVE  n < i + 1
    BY DEF Seen
  <2>1. n < i
    BY <1>1 DEF StackOK, Seen
  <2> QED
    BY <2>1
<1>5. OnStack(r, stack, i + 1)
  <2> SUFFICES ASSUME NEW m \in 1 .. L, NEW n \in 1 .. L, IsMatch(r, m, n), m < i + 1, i + 1 <= n
               PROVE  \E a \in DOMAIN stack : stack[a] = r[m].id
    BY DEF OnStack
  <2>1. IsMatch(s, m, n) /\ r[m] = s[m] /\ m # i
    BY <1>2
  <2>2. m < i /\ i <= n
    BY <2>1
  <2> QED
    BY <2>1, <2>2 DEF StackOK, OnStack
<1>6. Ordered(r, stack)
  BY <1>1 DEF StackOK, Ordered
<1>7. NoneCrossed(r, i + 1)
  <2> SUFFICES ASSUME NEW m1 \in 1 .. L, NEW n1 \in 1 .. L, NEW m2 \in 1 .. L, NEW n2 \in 1 .. L,
                      IsMatch(r, m1, n1), IsMatch(r, m2, n2), m1 < m2, m2 < n1, n1 < n2
               PROVE  i + 1 <= n1
    BY DEF NoneCrossed
  <2>1. i <= n1 /\ n1 # i
    BY <1>2 DEF StackOK, NoneCrossed
  <2> QED
    BY <2>1
<1> QED
  BY <1>3, <1>4, <1>5, <1>6, <1>7 DEF StackOK

\* What is left of a stack of D matches without its top: all of those below
\* that were not unmatched.
Remains(s, stack, D, left) ==
    \E E \in 0 .. D - 1 :
        /\ DOMAIN left = 1 .. E
        /\ \A a \in 1 .. E : left[a] = stack[a]
        /\ \A a \in 1 .. D - 1, n \in DOMAIN s : MatchedOpen(s[n]) /\ s[n].id = stack[a] => a <= E

\* The close marker of the match on top of the stack takes it away.
LEMMA StackShrinks ==
    ASSUME NEW s, NEW L \in Nat, DOMAIN s = 1 .. L, NEW i \in 1 .. L,
           NEW D \in Nat, NEW stack, DOMAIN stack = 1 .. D, D > 0,
           NEW left, Remains(s, stack, D, left),
           Paired(s), StackOK(s, stack, i), MatchedClose(s[i]), s[i].id = stack[D]
    PROVE  StackOK(s, left, i + 1)
<1> PICK E \in 0 .. D - 1 :
        /\ DOMAIN left = 1 .. E
        /\ \A a \in 1 .. E : left[a] = stack[a]
        /\ \A a \in 1 .. D - 1, n \in DOMAIN s : MatchedOpen(s[n]) /\ s[n].id = stack[a] => a <= E
  BY DEF Remains
<1>0. 1 .. E \subseteq 1 .. D
  OBVIOUS
<1>1. PICK m0 \in 1 .. L : m0 < i /\ IsMatch(s, m0, i)
  BY DEF Paired
<1>2. Distinct(left)
  BY <1>0 DEF StackOK, Distinct
<1>3. Seen(s, left, i + 1)
  <2> SUFFICES ASSUME NEW a \in 1 .. E, NEW n \in 1 .. L, MatchedOpen(s[n]), s[n].id = left[a]
               PROVE  n < i + 1
    BY DEF Seen
  <2>1. n < i
    BY <1>0 DEF StackOK, Seen
  <2> QED
    BY <2>1
<1>4. OnStack(s, left, i + 1)
  <2> SUFFICES ASSUME NEW m \in 1 .. L, NEW n \in 1 .. L, IsMatch(s, m, n), m < i + 1, i + 1 <= n
               PROVE  \E a \in DOMAIN left : left[a] = s[m].id
    BY DEF OnStack
  <2>1. m # i
    BY OpenOrClose DEF IsMatch
  <2>2. m < i /\ i <= n /\ n # i
    BY <2>1
  <2>3. PICK a \in 1 .. D : stack[a] = s[m].id
    BY <2>2 DEF StackOK, OnStack
  <2>4. a # D
    BY <2>2, <2>3 DEF IsMatch, Paired
  <2>5. a \in 1 .. D - 1
    BY <2>4
  <2>6. a <= E
    BY <2>3, <2>5 DEF IsMatch
  <2>7. a \in 1 .. E
    BY <2>5, <2>6
  <2> QED
    BY <2>3, <2>7
<1>5. Ordered(s, left)
  BY <1>0 DEF StackOK, Ordered
<1>6. NoneCrossed(s, i + 1)
  <2> SUFFICES ASSUME NEW m1 \in 1 .. L, NEW n1 \in 1 .. L, NEW m2 \in 1 .. L, NEW n2 \in 1 .. L,
                      IsMatch(s, m1, n1), IsMatch(s, m2, n2), m1 < m2, m2 < n1, n1 < n2
               PROVE  i + 1 <= n1
    BY DEF NoneCrossed
  <2>1. i <= n1
    BY DEF StackOK, NoneCrossed
  <2>2. ASSUME n1 = i PROVE FALSE
    <3>1. m2 < i /\ i <= n2
      BY <2>2
    <3>2. PICK b \in 1 .. D : stack[b] = s[m2].id
      BY <3>1 DEF StackOK, OnStack
    <3>3. stack[D] = s[m1].id /\ D \in 1 .. D
      BY <2>2 DEF IsMatch
    <3>4. D < b
      <4>1. MatchedOpen(s[m1]) /\ MatchedOpen(s[m2]) /\ m1 \in DOMAIN s /\ m2 \in DOMAIN s /\ m1 < m2
        BY DEF IsMatch
      <4>2. Ordered(s, stack)
        BY DEF StackOK
      <4> QED
        BY ONLY <3>2, <3>3, <4>1, <4>2, DOMAIN stack = 1 .. D DEF Ordered
    <3> QED
      BY <3>4
  <2> QED
    BY <2>1, <2>2
<1> QED
  BY <1>2, <1>3, <1>4, <1>5, <1>6 DEF StackOK

(***************************************************************************)
(* The inductive invariant.                                                *)
(***************************************************************************)

\* While the tokens are made none has a match; while matches are made they are
\* of two markers each, under ids below the next one; and the last pass has on
\* its stack every match that is open at ii, in order.
EmphasisInv ==
    /\ at = "tokens" => Fresh(tgt)
    /\ at = "match" => /\ IsTokenList(tgt) /\ Paired(tgt) /\ openMatches = <<>>
                       /\ ii \in Nat \ {0} /\ iii \in Nat /\ ii < iii
                       /\ id \in Nat /\ \A n \in DOMAIN tgt : tgt[n].id < id
    /\ at = "unmatch" => /\ IsTokenList(tgt) /\ Paired(tgt) /\ ii \in Nat \ {0}
                         /\ openMatches \in Seq(Int) /\ StackOK(tgt, openMatches, ii)

\* What MatchAt finds is tokens without a match.
LEMMA FoundFresh ==
    ASSUME NEW i
    PROVE  /\ Fresh(MatchAt(src, i, prev).tokens)
           /\ Fresh(TextUpTo(i))
<1>1. Fresh(MatchAt(src, i, prev).tokens)
  <2> DEFINE size == TotalSize(SubSeq(src, i, RunsEnd(src, i)))
             a == RunsEnd(src, i)
             b == SolidEnd(src, a + 1)
             x == Marker(TRUE, src[i].c, size)
             y == Text(SubSeq(src, a + 1, b))
             z == Marker(FALSE, src[i].c, size)
             w == Marker(MayOpen(src, i), src[i].c, src[i].n)
  <2>1. /\ IsToken(x) /\ x.id = -1 /\ IsToken(y) /\ y.id = -1
        /\ IsToken(z) /\ z.id = -1 /\ IsToken(w) /\ w.id = -1
    BY NewTokens
  <2>2. MatchAt(src, i, prev).tokens = IF MidWord(src, i, prev) THEN <<x, y, z>> ELSE <<w>>
    BY DEF MatchAt
  <2> HIDE DEF x, y, z, w
  <2>3. Fresh(<<x, y, z>>) /\ Fresh(<<w>>)
    BY <2>1, FreshLists
  <2> QED
    BY <2>2, <2>3
<1>2. Fresh(TextUpTo(i))
  <2> DEFINE x == Text(SubSeq(src, prev, i - 1))
  <2>1. IsToken(x) /\ x.id = -1
    BY NewTokens
  <2>2. TextUpTo(i) = IF i = prev THEN <<>> ELSE <<x>>
    BY DEF TextUpTo
  <2> HIDE DEF x
  <2> QED
    BY <2>1, <2>2, FreshLists
<1> QED
  BY <1>1, <1>2

(***************************************************************************)
(* Each step keeps it.                                                     *)
(***************************************************************************)

\* The tokens are made.
LEMMA NextMarkerKeeps ==
    ASSUME EmphasisInv, NextMarker
    PROVE  EmphasisInv'
<1>1. at = "tokens" /\ at' = "tokens" /\ Fresh(tgt)
  BY DEF EmphasisInv, NextMarker
<1>2. PICK i : tgt' = tgt \o TextUpTo(i) \o MatchAt(src, i, prev).tokens
  BY DEF NextMarker
<1> DEFINE x == TextUpTo(i)
           y == MatchAt(src, i, prev).tokens
<1>3. Fresh(x) /\ Fresh(y)
  BY FoundFresh
<1> HIDE DEF x, y
<1>4. Fresh(tgt \o x)
  BY <1>1, <1>3, FreshConcat
<1>5. Fresh((tgt \o x) \o y)
  BY <1>3, <1>4, FreshConcat
<1>6. Fresh(tgt')
  BY <1>2, <1>5 DEF x, y
<1> QED
  BY <1>1, <1>6 DEF EmphasisInv

\* The last of them is made, and there is no match yet.
LEMMA LastMarkerKeeps ==
    ASSUME EmphasisInv, LastMarker
    PROVE  EmphasisInv'
<1>1. Fresh(tgt')
  <2> DEFINE x == TextUpTo(Len(src) + 1)
  <2>1. Fresh(tgt) /\ tgt' = tgt \o x
    BY DEF EmphasisInv, LastMarker
  <2>2. Fresh(x)
    BY FoundFresh
  <2> HIDE DEF x
  <2> QED
    BY <2>1, <2>2, FreshConcat
<1>2. IsTokenList(tgt') /\ \A n \in DOMAIN tgt' : tgt'[n].id = -1
  BY <1>1 DEF Fresh
<1>3. Len(tgt') \in Nat
  BY <1>2, TokenLists
<1>4. Paired(tgt')
  BY <1>2, NoMatches
<1>5. openMatches' = <<>> /\ openMatches' \in Seq(Int) /\ DOMAIN openMatches' = {}
  <2>1. openMatches' = <<>>
    BY DEF LastMarker
  <2>2. openMatches' \in Seq(Int) /\ Len(openMatches') = 0
    BY <2>1, EmptySeq
  <2> QED
    BY <2>1, <2>2
<1>6. StackOK(tgt', openMatches', ii')
  BY <1>2, <1>5, StackUnused
<1>7. /\ (at' = "match" /\ ii' = 1) \/ (at' = "unmatch" /\ ii' = Len(tgt') + 1)
      /\ iii' = 2 /\ id' = 0
  <2> DEFINE plain == \A n \in DOMAIN tgt' : ~IsMarker(tgt'[n])
  <2>1. /\ at' = IF plain THEN "unmatch" ELSE "match"
        /\ ii' = IF plain THEN Len(tgt') + 1 ELSE 1
        /\ iii' = 2 /\ id' = 0
    BY DEF LastMarker
  <2> HIDE DEF plain
  <2> QED
    BY <2>1
<1> QED
  BY <1>2, <1>3, <1>4, <1>5, <1>6, <1>7 DEF EmphasisInv

\* Three tokens without a match in the place of one keep a list of tokens.
LEMMA SpliceKeeps ==
    ASSUME NEW U, \A t \in U : IsToken(t),
           NEW s \in Seq(U), NEW n \in 1 .. Len(s), NEW x \in U, NEW y \in U, NEW z \in U, NEW next \in Nat,
           Paired(s), s[n].id = -1, \A j \in DOMAIN s : s[j].id < next,
           x.id = -1, y.id = -1, z.id = -1
    PROVE  /\ IsTokenList(Splice(s, n, x, y, z)) /\ Paired(Splice(s, n, x, y, z))
           /\ \A j \in DOMAIN Splice(s, n, x, y, z) : Splice(s, n, x, y, z)[j].id < next
<1> DEFINE r == Splice(s, n, x, y, z)
           a == SubSeq(s, 1, n - 1)
           b == SubSeq(s, n + 1, Len(s))
           mid == <<x, y, z>>
<1>a. Len(s) \in Nat /\ \A k \in 1 .. Len(s) : s[k] \in U
  OBVIOUS
<1>1. a \in Seq(U) /\ Len(a) = n - 1 /\ \A k \in 1 .. n - 1 : a[k] = s[k]
  <2>1. \A k \in 1 .. n - 1 : s[k] \in U
    BY <1>a
  <2> QED
    BY <1>a, <2>1, SubSeqProperties
<1>2. /\ b \in Seq(U) /\ Len(b) = Len(s) - n
      /\ \A k \in 1 .. Len(s) - n : b[k] = s[k + n]
  <2>1. \A k \in n + 1 .. Len(s) : s[k] \in U
    BY <1>a
  <2>2. /\ b \in Seq(U) /\ Len(b) = IF n + 1 <= Len(s) THEN Len(s) - (n + 1) + 1 ELSE 0
        /\ \A k \in 1 .. Len(s) - (n + 1) + 1 : b[k] = s[n + 1 + k - 1]
    BY <1>a, <2>1, SubSeqProperties
  <2> HIDE DEF b
  <2> QED
    BY <1>a, <2>2
<1>3. mid \in Seq(U) /\ Len(mid) = 3 /\ mid[1] = x /\ mid[2] = y /\ mid[3] = z
  OBVIOUS
<1> HIDE DEF a, b, mid, r
<1> DEFINE am == a \o mid
<1>4. /\ am \in Seq(U) /\ Len(am) = n + 2
      /\ \A k \in 1 .. n + 2 : am[k] = IF k <= n - 1 THEN a[k] ELSE mid[k - (n - 1)]
  <2>1. /\ am \in Seq(U) /\ Len(am) = Len(a) + Len(mid)
        /\ \A k \in 1 .. Len(a) + Len(mid) :
             am[k] = IF k <= Len(a) THEN a[k] ELSE mid[k - Len(a)]
    BY <1>1, <1>3, ConcatProperties
  <2> HIDE DEF am
  <2> QED
    BY <1>1, <1>3, <2>1
<1>5. r = am \o b
  BY DEF r, Splice, a, b, mid
<1> HIDE DEF am
<1>6. /\ r \in Seq(U) /\ Len(r) = Len(s) + 2
      /\ \A k \in 1 .. Len(s) + 2 : r[k] = IF k <= n + 2 THEN am[k] ELSE b[k - (n + 2)]
  <2>1. am \in Seq(U) /\ b \in Seq(U)
    BY <1>2, <1>4
  <2>2. /\ am \o b \in Seq(U) /\ Len(am \o b) = Len(am) + Len(b)
        /\ \A k \in 1 .. Len(am) + Len(b) :
             (am \o b)[k] = IF k <= Len(am) THEN am[k] ELSE b[k - Len(am)]
    BY ONLY <2>1, ConcatProperties
  <2>3. Len(am) + Len(b) = Len(s) + 2
    BY <1>a, <1>2, <1>4
  <2> QED
    BY <1>4, <1>5, <2>2, <2>3
<1>7. r[n] = x /\ r[n + 1] = y /\ r[n + 2] = z
  <2>1. /\ n \in 1 .. Len(s) + 2 /\ n + 1 \in 1 .. Len(s) + 2 /\ n + 2 \in 1 .. Len(s) + 2
        /\ n - (n - 1) = 1 /\ n + 1 - (n - 1) = 2 /\ n + 2 - (n - 1) = 3
    BY <1>a
  <2>2. r[n] = am[n] /\ r[n + 1] = am[n + 1] /\ r[n + 2] = am[n + 2]
    <3>1. n <= n + 2 /\ n + 1 <= n + 2 /\ n + 2 <= n + 2
      BY <1>a
    <3> QED
      BY <1>6, <2>1, <3>1
  <2>3. am[n] = mid[1] /\ am[n + 1] = mid[2] /\ am[n + 2] = mid[3]
    <3>1. /\ n \in 1 .. n + 2 /\ n + 1 \in 1 .. n + 2 /\ n + 2 \in 1 .. n + 2
          /\ ~ (n <= n - 1) /\ ~ (n + 1 <= n - 1) /\ ~ (n + 2 <= n - 1)
      BY <1>a
    <3>2. /\ am[n] = mid[n - (n - 1)] /\ am[n + 1] = mid[n + 1 - (n - 1)]
          /\ am[n + 2] = mid[n + 2 - (n - 1)]
      BY <1>4, <3>1
    <3> QED
      BY <2>1, <3>2
  <2> QED
    BY <1>3, <2>2, <2>3
<1>8. \A j \in 1 .. n - 1 : r[j] = s[j]
  <2> SUFFICES ASSUME NEW j \in 1 .. n - 1 PROVE r[j] = s[j]
    OBVIOUS
  <2>1. j \in 1 .. Len(s) + 2 /\ j <= n + 2 /\ j \in 1 .. n + 2 /\ j <= n - 1
    BY <1>a
  <2> QED
    BY <1>1, <1>4, <1>6, <2>1
<1>9. \A k \in n + 3 .. Len(s) + 2 : r[k] = s[k - 2]
  <2> SUFFICES ASSUME NEW k \in n + 3 .. Len(s) + 2 PROVE r[k] = s[k - 2]
    OBVIOUS
  <2>0. k \in 1 .. Len(s) + 2 /\ ~ (k <= n + 2) /\ k - (n + 2) \in 1 .. Len(s) - n
    BY <1>a
  <2>1. r[k] = b[k - (n + 2)]
    BY <1>6, <2>0
  <2>2. b[k - (n + 2)] = s[k - (n + 2) + n]
    BY <1>2, <2>0
  <2>3. k - (n + 2) + n = k - 2
    BY <1>a
  <2> QED
    BY <2>1, <2>2, <2>3
<1>10. Len(s) \in Nat /\ DOMAIN s = 1 .. Len(s) /\ DOMAIN r = 1 .. Len(s) + 2
  BY <1>6, <1>7, <1>8, <1>9
<1>11. IsTokenList(r)
  BY <1>6, <1>7, <1>8, <1>9 DEF IsTokenList
<1>12. Paired(r)
  BY <1>6, <1>7, <1>8, <1>9, <1>10, SplicePaired
<1>13. ASSUME NEW j \in DOMAIN r PROVE r[j].id < next
  <2>1. CASE j < n
    <3>1. j \in 1 .. n - 1 /\ j \in DOMAIN s
      BY <1>10, <2>1
    <3> QED
      BY <1>6, <1>7, <1>8, <1>9, <3>1
  <2>2. CASE j \in {n, n + 1, n + 2}
    BY <1>6, <1>7, <1>8, <1>9, <2>2
  <2>3. CASE j > n + 2
    <3>1. j \in n + 3 .. Len(s) + 2 /\ j - 2 \in DOMAIN s
      BY <1>10, <2>3
    <3> QED
      BY <1>6, <1>7, <1>8, <1>9, <3>1
  <2> QED
    BY <1>10, <2>1, <2>2, <2>3
<1> QED
  BY <1>11, <1>12, <1>13 DEF r

\* A marker that is split, at n.
LEMMA SplitKeeps ==
    ASSUME NEW n \in DOMAIN tgt, NEW size1, NEW size2, NEW k \in Nat,
           IsTokenList(tgt), Paired(tgt), tgt[n].id = -1, \A m \in DOMAIN tgt : tgt[m].id < k
    PROVE  /\ IsTokenList(Split(n, size1, size2)) /\ Paired(Split(n, size1, size2))
           /\ \A m \in DOMAIN Split(n, size1, size2) : Split(n, size1, size2)[m].id < k
<1> DEFINE x == Disabled(tgt[n])
           y == Marker(tgt[n].open, tgt[n].c, size1)
           z == Marker(tgt[n].open, tgt[n].c, size2)
<1>1. PICK T : tgt \in Seq(T) /\ \A t \in T : IsToken(t)
  BY DEF IsTokenList
<1> DEFINE U == T \cup {x, y, z}
<1>2. IsToken(x) /\ x.id = -1 /\ IsToken(y) /\ y.id = -1 /\ IsToken(z) /\ z.id = -1
  <2>1. IsToken(tgt[n])
    BY <1>1
  <2>2. IsToken(Disabled(tgt[n])) /\ Disabled(tgt[n]).id = tgt[n].id
    BY <2>1, 0 \in Int, TokenChanges
  <2>3. \A a, b, c : IsToken(Marker(a, b, c)) /\ Marker(a, b, c).id = -1
    BY NewTokens
  <2> QED
    BY <2>2, <2>3
<1>3. Split(n, size1, size2) = Splice(tgt, n, x, y, z)
  BY DEF Split, Splice
<1> HIDE DEF x, y, z
<1>4. /\ tgt \in Seq(U) /\ n \in 1 .. Len(tgt) /\ x \in U /\ y \in U /\ z \in U
      /\ \A t \in U : IsToken(t)
  BY <1>1, <1>2
<1> HIDE DEF U
<1>5. /\ IsTokenList(Splice(tgt, n, x, y, z)) /\ Paired(Splice(tgt, n, x, y, z))
      /\ \A m \in DOMAIN Splice(tgt, n, x, y, z) : Splice(tgt, n, x, y, z)[m].id < k
  BY <1>2, <1>4, SpliceKeeps
<1> QED
  BY <1>3, <1>5

\* One of the markers that are compared is split.
LEMMA SplitsKeep ==
    ASSUME EmphasisInv, SplitClose \/ SplitOpen
    PROVE  EmphasisInv'
<1>1. /\ at = "match" /\ at' = "match" /\ openMatches' = openMatches /\ id' = id
      /\ IsTokenList(tgt) /\ Paired(tgt) /\ openMatches = <<>>
      /\ ii \in Nat \ {0} /\ iii \in Nat /\ ii < iii
      /\ id \in Nat /\ \A n \in DOMAIN tgt : tgt[n].id < id
  BY DEF EmphasisInv, SplitClose, SplitOpen, Comparing, matchVars
<1>2. /\ ii \in DOMAIN tgt /\ iii \in DOMAIN tgt
      /\ tgt[ii].id = -1 /\ tgt[iii].id = -1
  <2>1. ii <= Len(tgt) /\ iii <= Len(tgt) /\ UnmatchedOpen(tgt[ii]) /\ UnmatchedClose(tgt[iii])
    BY DEF SplitClose, SplitOpen, Comparing
  <2>2. Len(tgt) \in Nat /\ DOMAIN tgt = 1 .. Len(tgt)
    BY <1>1, TokenLists
  <2> QED
    BY <1>1, <2>1, <2>2 DEF UnmatchedOpen, UnmatchedClose
<1>3. \E n \in DOMAIN tgt : \E size1, size2 : tgt[n].id = -1 /\ tgt' = Split(n, size1, size2)
  BY <1>2 DEF SplitClose, SplitOpen
<1>4. IsTokenList(tgt') /\ Paired(tgt') /\ \A m \in DOMAIN tgt' : tgt'[m].id < id
  BY <1>1, <1>3, SplitKeeps
<1>5. ii' \in Nat \ {0} /\ iii' \in Nat /\ ii' < iii'
  BY <1>1 DEF SplitClose, SplitOpen
<1> QED
  BY <1>1, <1>4, <1>5 DEF EmphasisInv

\* Two markers are matched.
LEMMA MatchKeeps ==
    ASSUME EmphasisInv, Match
    PROVE  EmphasisInv'
<1>1. /\ at = "match" /\ at' = "match" /\ openMatches' = openMatches /\ id' = id + 1
      /\ IsTokenList(tgt) /\ Paired(tgt) /\ openMatches = <<>>
      /\ ii \in Nat \ {0} /\ iii \in Nat /\ ii < iii
      /\ id \in Nat /\ \A n \in DOMAIN tgt : tgt[n].id < id
      /\ ii' = ii + 1 /\ iii' = ii + 2
  BY DEF EmphasisInv, Match, Comparing, matchVars
<1>2. /\ Len(tgt) \in Nat /\ DOMAIN tgt = 1 .. Len(tgt)
      /\ tgt = [n \in 1 .. Len(tgt) |-> tgt[n]] /\ \A n \in 1 .. Len(tgt) : IsToken(tgt[n])
  BY <1>1, TokenLists
<1>3. /\ ii \in DOMAIN tgt /\ iii \in DOMAIN tgt /\ DOMAIN tgt \subseteq Int
      /\ UnmatchedOpen(tgt[ii]) /\ UnmatchedClose(tgt[iii])
      /\ tgt[ii].c = tgt[iii].c /\ tgt[ii].size = tgt[iii].size
  BY <1>1, <1>2 DEF Match, Comparing, Fits
<1> DEFINE L == Len(tgt)
           x == [tgt[ii] EXCEPT !.id = id]
           y == [tgt[iii] EXCEPT !.id = id]
<1>4. /\ tgt' = [n \in 1 .. L |-> tgt'[n]] /\ DOMAIN tgt' = DOMAIN tgt
      /\ tgt'[ii] = x /\ tgt'[iii] = y
      /\ \A n \in DOMAIN tgt \ {ii, iii} : tgt'[n] = tgt[n]
  BY <1>1, <1>2, <1>3 DEF Match
<1>5. /\ IsToken(x) /\ x.id = id /\ IsToken(y) /\ y.id = id
      /\ x.open = tgt[ii].open /\ x.off = tgt[ii].off /\ x.c = tgt[ii].c /\ x.size = tgt[ii].size
      /\ y.open = tgt[iii].open /\ y.off = tgt[iii].off /\ y.c = tgt[iii].c /\ y.size = tgt[iii].size
  <2>1. id \in Int /\ IsToken(tgt[ii]) /\ IsToken(tgt[iii])
    BY <1>1, <1>2, <1>3
  <2> QED
    BY <2>1, TokenChanges
<1> HIDE DEF x, y
<1>6. \A n \in 1 .. L : IsToken(tgt'[n])
  BY <1>2, <1>4, <1>5
<1>7. IsTokenList(tgt')
  BY <1>2, <1>4, <1>6, TokenLists
<1>8. \A n \in DOMAIN tgt : tgt[n].id # id
  BY <1>1, <1>2, <1>3 DEF IsToken
<1>9. Paired(tgt')
  <2>1. \A n \in {ii, iii} : /\ tgt'[n].open = tgt[n].open /\ tgt'[n].off = tgt[n].off
                             /\ tgt'[n].c = tgt[n].c /\ tgt'[n].size = tgt[n].size
    BY <1>4, <1>5
  <2> QED
    BY <1>1, <1>3, <1>4, <1>5, <1>8, <2>1, MatchPaired
<1>10. \A n \in DOMAIN tgt' : tgt'[n].id < id + 1
  <2>1. \A n \in DOMAIN tgt' : tgt'[n].id = id \/ (tgt'[n].id \in Int /\ tgt'[n].id < id)
    BY <1>1, <1>2, <1>4, <1>5 DEF IsToken
  <2> QED
    BY <1>1, <2>1
<1> QED
  BY <1>1, <1>7, <1>9, <1>10 DEF EmphasisInv

\* The iterators of the loops that match go on.
LEMMA IteratorsKeep ==
    ASSUME EmphasisInv, NextClose \/ NextOpen \/ AllCompared
    PROVE  EmphasisInv'
<1>1. /\ at = "match" /\ tgt' = tgt /\ openMatches' = openMatches /\ id' = id
      /\ IsTokenList(tgt) /\ Paired(tgt) /\ openMatches = <<>>
      /\ ii \in Nat \ {0} /\ iii \in Nat /\ ii < iii
      /\ id \in Nat /\ \A n \in DOMAIN tgt : tgt[n].id < id
  BY DEF EmphasisInv, NextClose, NextOpen, AllCompared, matchVars
<1>2. CASE NextClose \/ NextOpen
  <2>1. at' = "match" /\ ii' \in Nat \ {0} /\ iii' \in Nat /\ ii' < iii'
    BY <1>1, <1>2 DEF NextClose, NextOpen, matchVars
  <2> QED
    BY <1>1, <2>1 DEF EmphasisInv
<1>3. CASE AllCompared
  <2>1. at' = "unmatch" /\ ii' = 1
    BY <1>3 DEF AllCompared
  <2>2. openMatches \in Seq(Int) /\ DOMAIN openMatches = {}
    <3>1. openMatches \in Seq(Int) /\ Len(openMatches) = 0
      BY <1>1, EmptySeq
    <3> QED
      BY <3>1
  <2>3. Len(tgt) \in Nat /\ DOMAIN tgt = 1 .. Len(tgt)
    BY <1>1, TokenLists
  <2>4. StackOK(tgt, openMatches, 1)
    BY <2>2, <2>3, StackStarts
  <2> QED
    BY <1>1, <2>1, <2>2, <2>4 DEF EmphasisInv
<1> QED
  BY <1>2, <1>3

\* At a matched close marker there is something on the stack.
LEMMA StackNotEmpty ==
    ASSUME NEW s, NEW L \in Nat, DOMAIN s = 1 .. L, NEW i \in 1 .. L, NEW stack,
           Paired(s), StackOK(s, stack, i), MatchedClose(s[i])
    PROVE  \E a \in DOMAIN stack : TRUE
<1>1. PICK m \in 1 .. L : m < i /\ IsMatch(s, m, i)
  BY DEF Paired
<1> QED
  BY <1>1 DEF StackOK, OnStack

\* The crossing match is unmatched.
LEMMA UnmatchedKeeps ==
    ASSUME NEW key, IsTokenList(tgt), Paired(tgt)
    PROVE  /\ IsTokenList(Unmatched(key)) /\ Paired(Unmatched(key))
           /\ DOMAIN Unmatched(key) = DOMAIN tgt
           /\ \A n \in DOMAIN tgt :
                 MatchedOpen(Unmatched(key)[n]) \/ MatchedClose(Unmatched(key)[n]) =>
                    Unmatched(key)[n] = tgt[n] /\ tgt[n].id # key
<1> DEFINE r == Unmatched(key)
<1>1. /\ Len(tgt) \in Nat /\ DOMAIN tgt = 1 .. Len(tgt)
      /\ \A n \in 1 .. Len(tgt) : IsToken(tgt[n])
  BY TokenLists
<1>2. /\ DOMAIN r = DOMAIN tgt /\ r = [n \in 1 .. Len(tgt) |-> r[n]]
      /\ \A n \in DOMAIN tgt :
            r[n] = IF tgt[n].id = key THEN [tgt[n] EXCEPT !.id = -1] ELSE tgt[n]
  BY <1>1 DEF Unmatched
<1>3. \A n \in DOMAIN tgt : LET x == [tgt[n] EXCEPT !.id = -1]
                            IN  IsToken(x) /\ x.id = -1 /\ x.off = tgt[n].off
  <2> TAKE n \in DOMAIN tgt
  <2>1. IsToken(tgt[n]) /\ -1 \in Int
    BY <1>1
  <2> QED
    BY <2>1, TokenChanges
<1> HIDE DEF r
<1>4. \A n \in 1 .. Len(tgt) : IsToken(r[n])
  BY <1>1, <1>2, <1>3
<1>5. IsTokenList(r)
  BY <1>1, <1>2, <1>4, TokenLists
<1>6. Without(tgt, r, key)
  BY <1>2, <1>3 DEF Without
<1>7. /\ Paired(r)
      /\ \A n \in DOMAIN tgt : MatchedOpen(r[n]) \/ MatchedClose(r[n]) =>
            r[n] = tgt[n] /\ tgt[n].id # key
  BY <1>6, UnmatchPaired
<1> QED
  BY <1>2, <1>5, <1>7 DEF r

\* What is left when the top of the stack is taken away.
LEMMA PoppedStack ==
    ASSUME NEW D \in Nat, D > 0, openMatches \in Seq(Int), Len(openMatches) = D
    PROVE  /\ Popped(openMatches) \in Seq(Int)
           /\ Remains(tgt, openMatches, D, Popped(openMatches))
<1> DEFINE live == {a \in 1 .. D - 1 : \E n \in DOMAIN tgt : MatchedOpen(tgt[n]) /\ tgt[n].id = openMatches[a]}
           S == {0} \cup live
           E == Max(S)
<1>1. S \subseteq 0 .. D - 1 /\ S # {} /\ D - 1 \in Nat
  OBVIOUS
<1>2. Popped(openMatches) = SubSeq(openMatches, 1, E)
  BY DEF Popped
<1>3. \A a \in 1 .. D - 1, n \in DOMAIN tgt :
         MatchedOpen(tgt[n]) /\ tgt[n].id = openMatches[a] => a \in S
  OBVIOUS
<1> HIDE DEF live, S
<1>4. E \in S /\ \A x \in S : E >= x
  BY <1>1, BoundedMax
<1> HIDE DEF E
<1>5. E \in 0 .. D - 1 /\ \A x \in S : x \in Int /\ x <= E
  BY <1>1, <1>4
<1>6. \A a \in 1 .. E : openMatches[a] \in Int
  BY <1>5
<1>7. /\ SubSeq(openMatches, 1, E) \in Seq(Int)
      /\ Len(SubSeq(openMatches, 1, E)) = IF 1 <= E THEN E - 1 + 1 ELSE 0
      /\ \A a \in 1 .. E - 1 + 1 : SubSeq(openMatches, 1, E)[a] = openMatches[1 + a - 1]
  <2>1. 1 \in Int /\ E \in Int
    BY <1>5
  <2> QED
    BY ONLY <1>6, <2>1, SubSeqProperties
<1> DEFINE left == SubSeq(openMatches, 1, E)
<1> HIDE DEF left
<1>8. left \in Seq(Int) /\ DOMAIN left = 1 .. E /\ \A a \in 1 .. E : left[a] = openMatches[a]
  <2>1. left \in Seq(Int) /\ Len(left) = E
    BY <1>5, <1>7 DEF left
  <2>2. ASSUME NEW a \in 1 .. E PROVE left[a] = openMatches[a]
    <3>1. a \in 1 .. E - 1 + 1 /\ 1 + a - 1 = a
      BY <1>5
    <3> QED
      BY <1>7, <3>1 DEF left
  <2> QED
    BY <2>1, <2>2
<1>9. Popped(openMatches) = left
  BY <1>2 DEF left
<1> QED
  BY <1>3, <1>5, <1>8, <1>9 DEF Remains

\* The pass goes on by one token.
LEMMA UnmatchKeeps ==
    ASSUME EmphasisInv, Unmatch
    PROVE  EmphasisInv'
<1> DEFINE L == Len(tgt)
           D == Len(openMatches)
<1>1. /\ at = "unmatch" /\ at' = "unmatch" /\ ii' = ii + 1
      /\ IsTokenList(tgt) /\ Paired(tgt) /\ ii \in Nat \ {0} /\ ii <= L
      /\ openMatches \in Seq(Int) /\ StackOK(tgt, openMatches, ii)
  BY DEF EmphasisInv, Unmatch
<1>2. L \in Nat /\ DOMAIN tgt = 1 .. L /\ \A n \in 1 .. L : IsToken(tgt[n])
  BY <1>1, TokenLists
<1>3. ii \in 1 .. L /\ tgt[ii].id \in Int
  <2>1. ii \in 1 .. L
    BY <1>1, <1>2
  <2> QED
    BY <1>2, <2>1 DEF IsToken
<1>4. D \in Nat /\ DOMAIN openMatches = 1 .. D
  BY <1>1
<1> HIDE DEF L, D
<1>5. SUFFICES IsTokenList(tgt') /\ Paired(tgt') /\ openMatches' \in Seq(Int)
               /\ StackOK(tgt', openMatches', ii + 1)
  <2>1. ii + 1 \in Nat \ {0}
    BY <1>1
  <2> QED
    BY <1>1, <1>5, <2>1 DEF EmphasisInv
<1>6. CASE MatchedOpen(tgt[ii])
  <2>1. tgt' = tgt /\ openMatches' = Append(openMatches, tgt[ii].id)
    BY <1>6 DEF Unmatch
  <2>2. /\ openMatches' \in Seq(Int) /\ Len(openMatches') = D + 1
        /\ \A a \in 1 .. D : openMatches'[a] = openMatches[a]
        /\ openMatches'[D + 1] = tgt[ii].id
    BY <1>1, <1>3, <2>1, AppendProperties DEF D
  <2>3. DOMAIN openMatches' = 1 .. D + 1
    BY <2>2
  <2>4. StackOK(tgt, openMatches', ii + 1)
    BY <1>1, <1>2, <1>3, <1>4, <1>6, <2>2, <2>3, StackGrows
  <2> QED
    BY <1>1, <2>1, <2>2, <2>4
<1>7. CASE MatchedClose(tgt[ii]) /\ tgt[ii].id # Last(openMatches)
  <2>1. tgt' = Unmatched(tgt[ii].id) /\ openMatches' = openMatches
    BY <1>7, OpenOrClose DEF Unmatch
  <2>2. /\ IsTokenList(tgt') /\ Paired(tgt') /\ DOMAIN tgt' = 1 .. L
        /\ \A n \in 1 .. L : MatchedOpen(tgt'[n]) \/ MatchedClose(tgt'[n]) =>
              tgt'[n] = tgt[n] /\ tgt[n].id # tgt[ii].id
    BY <1>1, <1>2, <2>1, UnmatchedKeeps
  <2>3. StackOK(tgt', openMatches, ii + 1)
    BY <1>1, <1>2, <1>3, <1>7, <2>2, StackSkips
  <2> QED
    BY <1>1, <2>1, <2>2, <2>3
<1>8. CASE MatchedClose(tgt[ii]) /\ tgt[ii].id = Last(openMatches)
  <2>1. tgt' = tgt /\ openMatches' = Popped(openMatches)
    BY <1>8, OpenOrClose DEF Unmatch
  <2>2. D > 0
    <3>1. \E a \in 1 .. D : TRUE
      BY <1>1, <1>2, <1>3, <1>4, <1>8, StackNotEmpty
    <3> QED
      BY <1>4, <3>1
  <2>3. tgt[ii].id = openMatches[D]
    BY <1>8 DEF Last, D
  <2>4. Popped(openMatches) \in Seq(Int) /\ Remains(tgt, openMatches, D, Popped(openMatches))
    BY <1>1, <1>4, <2>2, PoppedStack DEF D
  <2>5. StackOK(tgt, Popped(openMatches), ii + 1)
    BY <1>1, <1>2, <1>3, <1>4, <1>8, <2>2, <2>3, <2>4, StackShrinks
  <2> QED
    BY <1>1, <2>1, <2>4, <2>5
<1>9. CASE ~ MatchedOpen(tgt[ii]) /\ ~ MatchedClose(tgt[ii])
  <2>1. tgt' = tgt /\ openMatches' = openMatches
    BY <1>9 DEF Unmatch
  <2>2. StackOK(tgt, openMatches, ii + 1)
    BY <1>1, <1>2, <1>3, <1>9, StackPasses
  <2> QED
    BY <1>1, <2>1, <2>2
<1> QED
  BY <1>6, <1>7, <1>8, <1>9

(***************************************************************************)
(* The theorems.                                                           *)
(***************************************************************************)

\* The invariant of _processBoldAndItalicSpans holds of every text, one after
\* the other.
THEOREM EmphasisInvariant == EmphasisSpec => []EmphasisInv
<1>1. EmphasisInit => EmphasisInv
  BY DEF EmphasisInit, EmphasisInv, Phases
<1>2. EmphasisInv /\ [EmphasisNext]_emphasisVars => EmphasisInv'
  <2> SUFFICES ASSUME EmphasisInv, [EmphasisNext]_emphasisVars PROVE EmphasisInv'
    OBVIOUS
  <2>1. CASE Begin
    <3>1. at' = "tokens" /\ tgt' = <<>>
      BY <2>1 DEF Begin
    <3>2. Fresh(tgt')
      BY <3>1, FreshLists
    <3> QED
      BY <3>1, <3>2 DEF EmphasisInv
  <2>2. CASE NextMarker
    BY <2>2, NextMarkerKeeps
  <2>3. CASE LastMarker
    BY <2>3, LastMarkerKeeps
  <2>4. CASE SplitClose \/ SplitOpen
    BY <2>4, SplitsKeep
  <2>5. CASE Match
    BY <2>5, MatchKeeps
  <2>6. CASE NextClose \/ NextOpen \/ AllCompared
    BY <2>6, IteratorsKeep
  <2>7. CASE Unmatch
    BY <2>7, UnmatchKeeps
  <2>8. CASE Finish
    BY <2>8 DEF Finish, EmphasisInv
  <2>9. CASE Elsewhere
    BY <2>9 DEF Elsewhere, Phases, EmphasisInv
  <2>10. CASE UNCHANGED emphasisVars
    BY <2>10 DEF emphasisVars, EmphasisInv
  <2> QED
    BY <2>1, <2>2, <2>3, <2>4, <2>5, <2>6, <2>7, <2>8, <2>9, <2>10 DEF EmphasisNext, Round
<1> QED
  BY <1>1, <1>2, PTL DEF EmphasisSpec

\* openMatches.top() is called of a stack that has something on it: a close
\* marker's open marker was pushed, and is taken away by its own close marker
\* or together with it.
THEOREM TopDefined == EmphasisSpec => []UnmatchDefined
<1>1. EmphasisInv => UnmatchDefined
  <2> SUFFICES ASSUME EmphasisInv, at = "unmatch", ii <= Len(tgt), MatchedClose(tgt[ii])
               PROVE  openMatches # <<>>
    BY DEF UnmatchDefined
  <2>1. /\ IsTokenList(tgt) /\ Paired(tgt) /\ ii \in Nat \ {0}
        /\ StackOK(tgt, openMatches, ii)
    BY DEF EmphasisInv
  <2>2. Len(tgt) \in Nat /\ DOMAIN tgt = 1 .. Len(tgt) /\ ii \in 1 .. Len(tgt)
    BY <2>1, TokenLists
  <2>3. \E a \in DOMAIN openMatches : TRUE
    BY <2>1, <2>2, StackNotEmpty
  <2>4. \A a : a \notin DOMAIN <<>>
    OBVIOUS
  <2> QED
    BY <2>3, <2>4
<1> QED
  BY <1>1, EmphasisInvariant, PTL

\* The tags that a text is written with are nested, and each open tag has a
\* close tag of its own kind.
THEOREM TagsNest == EmphasisSpec => []NestedTags
<1>1. EmphasisInv => NestedTags
  <2> SUFFICES ASSUME EmphasisInv, at = "unmatch", ii > Len(tgt)
               PROVE  /\ \A n \in Tagged : \E p \in Pairs : n \in {p[1], p[2]}
                      /\ \A p, q \in Pairs :
                            p # q /\ p[1] <= q[1] => p[1] < q[1] /\ (q[2] < p[2] \/ p[2] < q[1])
    BY DEF NestedTags
  <2>1. /\ IsTokenList(tgt) /\ Paired(tgt) /\ ii \in Nat \ {0}
        /\ NoneCrossed(tgt, ii)
    BY DEF EmphasisInv, StackOK
  <2>2. Len(tgt) \in Nat /\ DOMAIN tgt = 1 .. Len(tgt)
    BY <2>1, TokenLists
  <2>3. \A n \in DOMAIN tgt : n \in Tagged <=> MatchedOpen(tgt[n]) \/ MatchedClose(tgt[n])
    BY <2>1 DEF Tagged, Paired, MatchedOpen, MatchedClose
  <2>4. \A m, n \in DOMAIN tgt : m < n /\ IsMatch(tgt, m, n) => <<m, n>> \in Pairs
    BY <2>3 DEF Pairs, IsMatch, MatchedOpen, MatchedClose
  <2>5. \A p \in Pairs : /\ p = <<p[1], p[2]>> /\ p[1] \in DOMAIN tgt /\ p[2] \in DOMAIN tgt
                         /\ p[1] < p[2] /\ IsMatch(tgt, p[1], p[2])
    BY DEF Pairs, Tagged, IsMatch, MatchedOpen, MatchedClose
  <2>6. ASSUME NEW n \in Tagged PROVE \E p \in Pairs : n \in {p[1], p[2]}
    <3>1. n \in DOMAIN tgt
      BY DEF Tagged
    <3>2. CASE MatchedOpen(tgt[n])
      <4>1. PICK m \in DOMAIN tgt : n < m /\ IsMatch(tgt, n, m)
        BY <2>1, <3>1, <3>2 DEF Paired
      <4>2. <<n, m>> \in Pairs
        BY <2>4, <3>1, <4>1
      <4> QED
        BY <4>2
    <3>3. CASE MatchedClose(tgt[n])
      <4>1. PICK m \in DOMAIN tgt : m < n /\ IsMatch(tgt, m, n)
        BY <2>1, <3>1, <3>3 DEF Paired
      <4>2. <<m, n>> \in Pairs
        BY <2>4, <3>1, <4>1
      <4> QED
        BY <4>2
    <3> QED
      BY <2>3, <3>1, <3>2, <3>3
  <2>7. ASSUME NEW p \in Pairs, NEW q \in Pairs, p # q, p[1] <= q[1]
        PROVE  p[1] < q[1] /\ (q[2] < p[2] \/ p[2] < q[1])
    <3> DEFINE m1 == p[1]
               n1 == p[2]
               m2 == q[1]
               n2 == q[2]
    <3>1. /\ m1 \in DOMAIN tgt /\ n1 \in DOMAIN tgt /\ m1 < n1 /\ IsMatch(tgt, m1, n1)
          /\ m2 \in DOMAIN tgt /\ n2 \in DOMAIN tgt /\ m2 < n2 /\ IsMatch(tgt, m2, n2)
          /\ p = <<m1, n1>> /\ q = <<m2, n2>> /\ m1 <= m2
      BY <2>5, <2>7
    <3> HIDE DEF m1, n1, m2, n2
    <3>2. m1 # m2 \/ n1 # n2
      BY <2>7, <3>1
    <3>3. m1 # m2 /\ n1 # n2
      <4>1. m1 = m2 => n1 = n2
        BY <2>1, <3>1 DEF Paired, IsMatch
      <4>2. n1 = n2 => m1 = m2
        BY <2>1, <3>1 DEF Paired, IsMatch
      <4> QED
        BY <3>2, <4>1, <4>2
    <3>4. n1 # m2
      BY <3>1, OpenOrClose DEF IsMatch
    <3>5. ~ (m1 < m2 /\ m2 < n1 /\ n1 < n2)
      <4>1. ~ (ii <= n1)
        BY <2>1, <2>2, <3>1
      <4> QED
        BY <2>1, <3>1, <4>1 DEF NoneCrossed
    <3>6. m1 \in Int /\ n1 \in Int /\ m2 \in Int /\ n2 \in Int
      BY <2>2, <3>1
    <3>7. m1 < m2 /\ (n2 < n1 \/ n1 < m2)
      BY <3>1, <3>3, <3>4, <3>5, <3>6
    <3> QED
      BY <3>7 DEF m1, n1, m2, n2
  <2> QED
    BY <2>6, <2>7
<1> QED
  BY <1>1, EmphasisInvariant, PTL

(***************************************************************************)
(* Sums.  Sums is a recursive function: that there is such a function, and *)
(* what it yields, follows from the least number of a set.                 *)
(***************************************************************************)

\* g is the sums of the first elements of s, up to the n-th.
IsSums(g, s, n) == g = [k \in 0 .. n |-> IF k = 0 THEN 0 ELSE g[k - 1] + s[k]]

\* Of a set of natural numbers one is the least.
LEMMA LeastNumber ==
    ASSUME NEW S, S \subseteq Nat, S # {}
    PROVE  \E n \in S : \A m \in S : n <= m
<1>1. PICK n \in S : \A m \in S : ~ (<<m, n>> \in OpToRel(<, Nat))
  BY WFMin, NatLessThanWellFounded
<1>2. ASSUME NEW m \in S PROVE n <= m
  <2>1. m \in Nat /\ n \in Nat
    OBVIOUS
  <2>2. ~ (m < n)
    BY <2>1, <1>1 DEF OpToRel
  <2> QED
    BY <2>1, <2>2
<1> QED
  BY <1>2

\* There are sums: those up to a number extend those up to the one before.
LEMMA SumsExist ==
    ASSUME NEW L \in Nat, NEW s
    PROVE  \E g : IsSums(g, s, L)
<1> DEFINE S == {n \in Nat : ~ \E g : IsSums(g, s, n)}
<1> SUFFICES ASSUME S # {} PROVE FALSE
  OBVIOUS
<1>1. PICK n \in S : \A m \in S : n <= m
  <2>1. S \subseteq Nat
    OBVIOUS
  <2> HIDE DEF S
  <2> QED
    BY <2>1, LeastNumber
<1>2. n # 0
  <2> DEFINE g == [k \in 0 .. 0 |-> 0]
  <2>1. g = [k \in 0 .. 0 |-> IF k = 0 THEN 0 ELSE g[k - 1] + s[k]]
    OBVIOUS
  <2> HIDE DEF g
  <2>2. IsSums(g, s, 0)
    BY <2>1 DEF IsSums
  <2> QED
    BY <2>2
<1>3. n - 1 \in Nat /\ ~ (n <= n - 1)
  BY <1>2
<1>4. PICK g : IsSums(g, s, n - 1)
  BY <1>1, <1>3
<1> DEFINE h == [k \in 0 .. n |-> IF k = n THEN g[n - 1] + s[n] ELSE g[k]]
<1>5. ASSUME NEW k \in 0 .. n
      PROVE  h[k] = IF k = 0 THEN 0 ELSE h[k - 1] + s[k]
  <2>1. CASE k = n
    <3>1. h[n] = g[n - 1] + s[n] /\ h[n - 1] = g[n - 1]
      BY <1>2
    <3> QED
      BY <2>1, <3>1, <1>2
  <2>2. CASE k # n
    <3>1. k \in 0 .. n - 1 /\ h[k] = g[k]
      BY <2>2
    <3>2. g[k] = IF k = 0 THEN 0 ELSE g[k - 1] + s[k]
      BY <1>4, <3>1 DEF IsSums
    <3>3. k # 0 => h[k - 1] = g[k - 1]
      BY <2>2
    <3> QED
      BY <3>1, <3>2, <3>3
  <2> QED
    BY <2>1, <2>2
<1>6. h = [k \in 0 .. n |-> h[k]]
  OBVIOUS
<1> HIDE DEF h
<1>7. IsSums(h, s, n)
  BY <1>5, <1>6 DEF IsSums
<1> QED
  BY <1>7

\* Sums are what their definition says.
LEMMA SumsDefined ==
    ASSUME NEW s \in Seq(Int)
    PROVE  /\ Sums(s)[0] = 0
           /\ \A n \in 1 .. Len(s) : Sums(s)[n] = Sums(s)[n - 1] + s[n]
<1>1. Len(s) \in Nat
  OBVIOUS
<1>2. \E g : IsSums(g, s, Len(s))
  BY <1>1, SumsExist
<1>3. IsSums(Sums(s), s, Len(s))
  BY <1>2 DEF Sums, IsSums
<1> DEFINE g == Sums(s)
<1> HIDE DEF g
<1>4. g = [k \in 0 .. Len(s) |-> IF k = 0 THEN 0 ELSE g[k - 1] + s[k]]
  BY <1>3 DEF IsSums, g
<1>5. \A k \in 0 .. Len(s) : g[k] = IF k = 0 THEN 0 ELSE g[k - 1] + s[k]
  BY <1>4
<1>6. g[0] = 0 /\ \A n \in 1 .. Len(s) : g[n] = g[n - 1] + s[n]
  BY <1>1, <1>5
<1> QED
  BY <1>6 DEF g

\* Sums of integers are integers.
LEMMA SumsType ==
    ASSUME NEW s \in Seq(Int)
    PROVE  \A n \in 0 .. Len(s) : Sums(s)[n] \in Int
<1> DEFINE g == Sums(s)
           S == {n \in 0 .. Len(s) : g[n] \notin Int}
<1> SUFFICES ASSUME S # {} PROVE FALSE
  OBVIOUS
<1>1. /\ g[0] = 0 /\ Len(s) \in Nat
      /\ \A n \in 1 .. Len(s) : g[n] = g[n - 1] + s[n]
  BY SumsDefined
<1> HIDE DEF g
<1>2. PICK n \in S : \A m \in S : n <= m
  <2>1. S \subseteq Nat
    OBVIOUS
  <2> HIDE DEF S
  <2> QED
    BY <2>1, LeastNumber
<1>3. n \in 1 .. Len(s) /\ n - 1 \in 0 .. Len(s) /\ n - 1 \notin S /\ s[n] \in Int
  BY <1>1, <1>2
<1>4. g[n - 1] \in Int /\ g[n] = g[n - 1] + s[n]
  BY <1>1, <1>3
<1> QED
  BY <1>2, <1>3, <1>4

\* Two differences that are the same stay the same.
LEMMA SameGrowth ==
    ASSUME NEW a \in Int, NEW b \in Int, NEW c \in Int, NEW d \in Int, NEW x \in Int,
           a - b = c - d
    PROVE  (a + x) - b = (c + x) - d
OBVIOUS

\* The n numbers of s behind the p-th are those of t behind the q-th.
SameStretch(s, p, t, q, n) ==
    /\ p + n <= Len(s) /\ q + n <= Len(t)
    /\ \A k \in 1 .. n : s[p + k] = t[q + k]

\* The sums of both grow there by the same.
SameRise(s, p, t, q, n) == Sums(s)[p + n] - Sums(s)[p] = Sums(t)[q + n] - Sums(t)[q]

\* Where two lists have the same numbers their sums grow by the same.
LEMMA StretchSums ==
    ASSUME NEW s \in Seq(Int), NEW t \in Seq(Int), NEW p \in Nat, NEW q \in Nat, NEW n \in Nat,
           SameStretch(s, p, t, q, n)
    PROVE  SameRise(s, p, t, q, n)
<1> DEFINE f == Sums(s)
           g == Sums(t)
           l == Len(s)
           m == Len(t)
           S == {k \in 0 .. n : f[p + k] - f[p] # g[q + k] - g[q]}
<1>1. /\ l \in Nat /\ m \in Nat /\ p + n <= l /\ q + n <= m
      /\ \A k \in 0 .. l : f[k] \in Int
      /\ \A k \in 0 .. m : g[k] \in Int
      /\ \A k \in 1 .. l : f[k] = f[k - 1] + s[k] /\ s[k] \in Int
      /\ \A k \in 1 .. m : g[k] = g[k - 1] + t[k]
  BY SumsDefined, SumsType DEF SameStretch
<1> HIDE DEF f, g, l, m
<1> SUFFICES ASSUME S # {} PROVE FALSE
  <2>1. n \in 0 .. n
    OBVIOUS
  <2> QED
    BY <2>1 DEF f, g, SameRise
<1>2. PICK k \in S : \A j \in S : k <= j
  <2>1. S \subseteq Nat
    OBVIOUS
  <2> HIDE DEF S
  <2> QED
    BY <2>1, LeastNumber
<1>3. k # 0
  <2>1. p \in 0 .. l /\ q \in 0 .. m /\ p + 0 = p /\ q + 0 = q
    BY <1>1
  <2>2. f[p + 0] - f[p] = 0 /\ g[q + 0] - g[q] = 0
    BY <1>1, <2>1
  <2> QED
    BY <1>2, <2>2
<1>4. k - 1 \in 0 .. n /\ k - 1 \notin S /\ k \in 1 .. n
  <2>1. k \in 0 .. n /\ k # 0
    BY <1>2, <1>3
  <2>2. k - 1 \in 0 .. n /\ ~ (k <= k - 1) /\ k \in 1 .. n
    BY <2>1
  <2> QED
    BY <1>2, <2>2
<1>5. f[p + (k - 1)] - f[p] = g[q + (k - 1)] - g[q]
  BY <1>4
<1>6. /\ p + k \in 1 .. l /\ q + k \in 1 .. m /\ p + k - 1 = p + (k - 1) /\ q + k - 1 = q + (k - 1)
      /\ p + (k - 1) \in 0 .. l /\ q + (k - 1) \in 0 .. m /\ p \in 0 .. l /\ q \in 0 .. m
  BY <1>1, <1>4
<1>7. f[p + k] = f[p + (k - 1)] + s[p + k] /\ g[q + k] = g[q + (k - 1)] + t[q + k]
  BY <1>1, <1>6
<1>8. s[p + k] = t[q + k] /\ s[p + k] \in Int
  BY <1>1, <1>4, <1>6 DEF SameStretch
<1>9. f[p + k] - f[p] = g[q + k] - g[q]
  <2>1. f[p + (k - 1)] \in Int /\ g[q + (k - 1)] \in Int /\ f[p] \in Int /\ g[q] \in Int
    BY <1>1, <1>6
  <2> DEFINE a == f[p + (k - 1)]
             b == f[p]
             c == g[q + (k - 1)]
             d == g[q]
             x == s[p + k]
  <2>2. /\ a \in Int /\ b \in Int /\ c \in Int /\ d \in Int /\ x \in Int
        /\ a - b = c - d /\ f[p + k] = a + x /\ g[q + k] = c + x
    BY ONLY <2>1, <1>5, <1>7, <1>8
  <2> HIDE DEF a, c, x, b, d
  <2>3. (a + x) - b = (c + x) - d
    BY ONLY <2>2, SameGrowth
  <2>4. f[p + k] - b = g[q + k] - d
    BY ONLY <2>2, <2>3
  <2> QED
    BY ONLY <2>4 DEF b, d
<1> QED
  BY <1>2, <1>9

\* Lists that begin with the same numbers have the same first sums.
LEMMA PrefixSums ==
    ASSUME NEW s \in Seq(Int), NEW t \in Seq(Int), NEW n \in Nat,
           n <= Len(s), n <= Len(t), \A k \in 1 .. n : s[k] = t[k]
    PROVE  Sums(s)[n] = Sums(t)[n]
<1> DEFINE f == Sums(s)
           g == Sums(t)
           l == Len(s)
           m == Len(t)
<1>1. /\ l \in Nat /\ m \in Nat /\ n <= l /\ n <= m /\ f[0] = 0 /\ g[0] = 0
      /\ \A k \in 0 .. l : f[k] \in Int
      /\ \A k \in 0 .. m : g[k] \in Int
  BY SumsDefined, SumsType
<1>2. f[0 + n] - f[0] = g[0 + n] - g[0]
  <2>1. SameStretch(s, 0, t, 0, n)
    BY <1>1 DEF SameStretch
  <2>2. SameRise(s, 0, t, 0, n)
    BY ONLY <2>1, StretchSums, 0 \in Nat, s \in Seq(Int), t \in Seq(Int), n \in Nat
  <2> QED
    BY ONLY <2>2 DEF SameRise
<1> HIDE DEF f, g, l, m
<1>3. 0 + n = n /\ n \in 0 .. l /\ n \in 0 .. m /\ 0 \in 0 .. l /\ 0 \in 0 .. m
  BY <1>1
<1>4. f[n] \in Int /\ g[n] \in Int /\ f[n] - f[0] = g[n] - g[0]
  BY <1>1, <1>2, <1>3
<1>5. f[n] = g[n]
  BY ONLY <1>1, <1>4
<1> QED
  BY <1>5 DEF f, g

\* A list that is one list behind another has the sum of both.
LEMMA TotalOfBoth ==
    ASSUME NEW s \in Seq(Int), NEW t \in Seq(Int), NEW u \in Seq(Int),
           Len(u) = Len(s) + Len(t),
           \A k \in 1 .. Len(s) : u[k] = s[k],
           \A k \in 1 .. Len(t) : u[Len(s) + k] = t[k]
    PROVE  Total(u) = Total(s) + Total(t)
<1> DEFINE f == Sums(s)
           g == Sums(t)
           h == Sums(u)
           l == Len(s)
           m == Len(t)
<1>1. /\ l \in Nat /\ m \in Nat /\ Len(u) = l + m /\ g[0] = 0
      /\ \A k \in 0 .. l : f[k] \in Int
      /\ \A k \in 0 .. m : g[k] \in Int
      /\ \A k \in 0 .. l + m : h[k] \in Int
  BY SumsDefined, SumsType
<1>2. h[l] = f[l]
  <2>1. l \in Nat /\ l <= Len(u) /\ l <= Len(s)
    BY <1>1
  <2>2. \A k \in 1 .. l : u[k] = s[k]
    OBVIOUS
  <2> QED
    BY ONLY <2>1, <2>2, PrefixSums, u \in Seq(Int), s \in Seq(Int)
<1>3. h[l + m] - h[l] = g[0 + m] - g[0]
  <2>1. SameStretch(u, l, t, 0, m)
    BY <1>1 DEF SameStretch
  <2>2. 0 \in Nat /\ l \in Nat /\ m \in Nat
    BY <1>1
  <2> HIDE DEF l, m
  <2>3. SameRise(u, l, t, 0, m)
    BY ONLY <2>1, <2>2, StretchSums, u \in Seq(Int), t \in Seq(Int)
  <2> QED
    BY ONLY <2>3 DEF SameRise
<1>4. Total(u) = h[l + m] /\ Total(s) = f[l] /\ Total(t) = g[m]
  BY <1>1 DEF Total
<1> HIDE DEF f, g, h, l, m
<1>5. /\ 0 + m = m /\ m \in 0 .. m /\ l \in 0 .. l /\ l + m \in 0 .. l + m /\ l \in 0 .. l + m
  BY ONLY <1>1
<1>6. h[l + m] \in Int /\ h[l] \in Int /\ g[m] \in Int
  BY ONLY <1>1, <1>5
<1>7. h[l + m] - h[l] = g[m] - 0
  BY ONLY <1>1, <1>3, <1>5
<1>8. h[l + m] = h[l] + g[m]
  <2> DEFINE a == h[l + m]
             b == h[l]
             c == g[m]
  <2>1. a \in Int /\ b \in Int /\ c \in Int /\ a - b = c - 0
    BY ONLY <1>6, <1>7
  <2> HIDE DEF a, b, c
  <2>2. a = b + c
    BY ONLY <2>1
  <2> QED
    BY ONLY <2>2 DEF a, b, c
<1> QED
  BY <1>2, <1>4, <1>8

\* A part of a list has the sum by which the sums of the list grow there.
LEMMA TotalOfPart ==
    ASSUME NEW s \in Seq(Int), NEW t \in Seq(Int), NEW i \in Nat, NEW j \in Nat,
           i <= j, j <= Len(s), Len(t) = j - i,
           \A k \in 1 .. j - i : t[k] = s[i + k]
    PROVE  Total(t) = Sums(s)[j] - Sums(s)[i]
<1> DEFINE f == Sums(s)
           g == Sums(t)
           n == j - i
           l == Len(s)
<1>1. /\ n \in Nat /\ l \in Nat /\ i + n = j /\ j <= l /\ 0 + n = n /\ Len(t) = n /\ g[0] = 0
      /\ \A k \in 0 .. l : f[k] \in Int
      /\ \A k \in 0 .. Len(t) : g[k] \in Int
  BY SumsDefined, SumsType
<1>2. f[i + n] - f[i] = g[0 + n] - g[0]
  <2>1. SameStretch(s, i, t, 0, n)
    BY <1>1 DEF SameStretch
  <2>2. 0 \in Nat /\ n \in Nat
    BY <1>1
  <2> HIDE DEF n
  <2>3. SameRise(s, i, t, 0, n)
    BY ONLY <2>1, <2>2, StretchSums, s \in Seq(Int), t \in Seq(Int), i \in Nat
  <2> QED
    BY ONLY <2>3 DEF SameRise
<1>3. Total(t) = g[n]
  BY <1>1 DEF Total
<1> HIDE DEF f, g, n, l
<1>4. j \in 0 .. l /\ i \in 0 .. l /\ n \in 0 .. n
  BY ONLY <1>1, i \in Nat, j \in Nat, i <= j
<1>5. f[j] \in Int /\ f[i] \in Int /\ g[n] \in Int /\ f[j] - f[i] = g[n] - 0
  BY ONLY <1>1, <1>2, <1>4
<1>6. g[n] = f[j] - f[i]
  <2> DEFINE a == f[j]
             b == f[i]
             c == g[n]
  <2>1. a \in Int /\ b \in Int /\ c \in Int /\ a - b = c - 0
    BY ONLY <1>5
  <2> HIDE DEF a, b, c
  <2>2. c = a - b
    BY ONLY <2>1
  <2> QED
    BY ONLY <2>2 DEF a, b, c
<1> QED
  BY <1>3, <1>6 DEF f

\* The sums of lists of no, of one and of three numbers.
LEMMA TotalOfFew ==
    ASSUME NEW s \in Seq(Int)
    PROVE  /\ Total(s) \in Int
           /\ Len(s) = 0 => Total(s) = 0
           /\ Len(s) = 1 => Total(s) = s[1]
           /\ Len(s) = 3 => Total(s) = s[1] + s[2] + s[3]
<1> DEFINE f == Sums(s)
           l == Len(s)
<1>1. /\ l \in Nat /\ f[0] = 0 /\ Total(s) = f[l]
      /\ \A k \in 1 .. l : f[k] = f[k - 1] + s[k] /\ s[k] \in Int
      /\ \A k \in 0 .. l : f[k] \in Int
  BY SumsDefined, SumsType DEF Total
<1> HIDE DEF f
<1>2. Total(s) \in Int
  BY <1>1
<1>3. ASSUME l = 1 PROVE Total(s) = s[1]
  <2>1. f[1] = f[0] + s[1] /\ s[1] \in Int
    BY <1>1, <1>3
  <2> QED
    BY <1>1, <1>3, <2>1
<1>4. ASSUME l = 3 PROVE Total(s) = s[1] + s[2] + s[3]
  <2>1. /\ f[1] = f[0] + s[1] /\ f[2] = f[1] + s[2] /\ f[3] = f[2] + s[3]
        /\ s[1] \in Int /\ s[2] \in Int /\ s[3] \in Int
    BY <1>1, <1>4
  <2> QED
    BY <1>1, <1>4, <2>1
<1> QED
  BY <1>1, <1>2, <1>3, <1>4

(***************************************************************************)
(* Emphasis characters.                                                    *)
(***************************************************************************)

\* A token of which the characters can be counted; a marker has no text.
IsSized(t) == t.size \in Int /\ TotalSize(t.text) \in Int /\ (IsMarker(t) => TotalSize(t.text) = 0)

\* A list of such tokens.
Sized(s) == IsTokenList(s) /\ \A n \in DOMAIN s : IsSized(s[n])

\* What its tokens count.
Weights(s) == [n \in DOMAIN s |-> Weight(s[n])]

\* What each token of a list counts.
LEMMA WeightsList ==
    ASSUME NEW s, Sized(s)
    PROVE  /\ Weights(s) \in Seq(Int) /\ Len(Weights(s)) = Len(s) /\ Len(s) \in Nat
           /\ DOMAIN s = 1 .. Len(s)
           /\ \A n \in 1 .. Len(s) : Weights(s)[n] = Weight(s[n]) /\ Weight(s[n]) \in Int
           /\ Counted(s) = Total(Weights(s))
<1>1. Len(s) \in Nat /\ DOMAIN s = 1 .. Len(s)
  BY TokenLists DEF Sized
<1>2. \A n \in 1 .. Len(s) : Weight(s[n]) \in Int
  BY <1>1 DEF Sized, IsSized, Weight
<1> DEFINE w == Weights(s)
           L == Len(s)
<1>3. w = [n \in 1 .. L |-> Weight(s[n])]
  BY <1>1 DEF Weights
<1> HIDE DEF L
<1>4. w \in Seq(Int) /\ Len(w) = L /\ \A n \in 1 .. L : w[n] = Weight(s[n])
  <2>1. w \in [1 .. L -> Int] /\ L \in Nat
    BY <1>1, <1>2, <1>3 DEF L
  <2> HIDE DEF w
  <2>2. w \in Seq(Int) /\ Len(w) = L
    BY ONLY <2>1
  <2> QED
    BY <1>3, <2>2
<1>5. Counted(s) = Total(w)
  BY DEF Counted, Weights
<1> QED
  BY <1>1, <1>2, <1>4, <1>5 DEF L

\* r is a, with b behind it.
IsBoth(r, a, b) ==
    /\ Len(r) = Len(a) + Len(b)
    /\ \A k \in 1 .. Len(a) : r[k] = a[k]
    /\ \A k \in 1 .. Len(b) : r[Len(a) + k] = b[k]

\* So is the list that \o makes.
LEMMA ListOfBoth ==
    ASSUME NEW a, NEW b, IsTokenList(a), IsTokenList(b)
    PROVE  IsTokenList(a \o b) /\ IsBoth(a \o b, a, b)
<1>1. PICK S : a \in Seq(S) /\ \A t \in S : IsToken(t)
  BY DEF IsTokenList
<1>2. PICK T : b \in Seq(T) /\ \A t \in T : IsToken(t)
  BY DEF IsTokenList
<1> DEFINE U == S \cup T
<1>3. a \in Seq(U) /\ b \in Seq(U)
  BY <1>1, <1>2
<1>4. \A t \in U : IsToken(t)
  BY <1>1, <1>2
<1> HIDE DEF U
<1> DEFINE r == a \o b
           l == Len(a)
           m == Len(b)
<1>5. /\ r \in Seq(U) /\ Len(r) = l + m
      /\ \A k \in 1 .. l + m : r[k] = IF k <= l THEN a[k] ELSE b[k - l]
  BY ONLY <1>3, ConcatProperties
<1>6. l \in Nat /\ m \in Nat
  BY <1>3
<1> HIDE DEF r, l, m
<1>7. ASSUME NEW k \in 1 .. l PROVE r[k] = a[k]
  <2>1. k \in 1 .. l + m /\ k <= l
    BY <1>6
  <2> QED
    BY <1>5, <2>1
<1>8. ASSUME NEW k \in 1 .. m PROVE r[l + k] = b[k]
  <2>1. l + k \in 1 .. l + m /\ ~ (l + k <= l) /\ (l + k) - l = k
    BY <1>6
  <2> QED
    BY <1>5, <2>1
<1>9. IsTokenList(r)
  BY <1>4, <1>5 DEF IsTokenList
<1> QED
  BY <1>5, <1>7, <1>8, <1>9 DEF r, l, m, IsBoth

\* Two lists behind each other have the characters of both.
LEMMA CountedBoth ==
    ASSUME NEW a, NEW b, NEW r, Sized(a), Sized(b), IsTokenList(r), IsBoth(r, a, b)
    PROVE  Sized(r) /\ Counted(r) = Counted(a) + Counted(b)
<1> DEFINE l == Len(a)
           m == Len(b)
<1>1. /\ l \in Nat /\ m \in Nat /\ Len(r) = l + m /\ DOMAIN r = 1 .. l + m
      /\ DOMAIN a = 1 .. l /\ DOMAIN b = 1 .. m
      /\ \A k \in 1 .. l : r[k] = a[k]
      /\ \A k \in 1 .. m : r[l + k] = b[k]
  BY WeightsList, TokenLists DEF IsBoth
<1> HIDE DEF l, m
<1>2. ASSUME NEW n \in 1 .. l + m PROVE IsSized(r[n])
  <2>1. CASE n \in 1 .. l
    BY <1>1, <2>1 DEF Sized
  <2>2. CASE n \notin 1 .. l
    <3>1. n - l \in 1 .. m /\ l + (n - l) = n
      BY <1>1, <2>2
    <3>2. r[n] = b[n - l] /\ IsSized(b[n - l])
      BY <1>1, <3>1 DEF Sized
    <3> QED
      BY <3>2
  <2> QED
    BY <2>1, <2>2
<1>3. Sized(r)
  BY <1>1, <1>2 DEF Sized
<1> DEFINE v == Weights(a)
           w == Weights(b)
           x == Weights(r)
<1>4. /\ v \in Seq(Int) /\ w \in Seq(Int) /\ x \in Seq(Int)
      /\ Len(v) = l /\ Len(w) = m /\ Len(x) = l + m
      /\ \A k \in 1 .. l : v[k] = Weight(a[k])
      /\ \A k \in 1 .. m : w[k] = Weight(b[k])
      /\ \A k \in 1 .. l + m : x[k] = Weight(r[k])
      /\ Counted(a) = Total(v) /\ Counted(b) = Total(w) /\ Counted(r) = Total(x)
  <2>1. l = Len(a) /\ m = Len(b)
    BY DEF l, m
  <2> HIDE DEF v, w, x
  <2> QED
    BY <1>1, <1>3, <2>1, WeightsList DEF v, w, x
<1> HIDE DEF v, w, x
<1>5. \A k \in 1 .. l : x[k] = v[k]
  <2>1. \A k \in 1 .. l : k \in 1 .. l + m
    BY <1>1
  <2> QED
    BY <1>1, <1>4, <2>1
<1>6. \A k \in 1 .. m : x[l + k] = w[k]
  <2>1. \A k \in 1 .. m : l + k \in 1 .. l + m
    BY <1>1
  <2> QED
    BY <1>1, <1>4, <2>1
<1>7. Total(x) = Total(v) + Total(w)
  BY ONLY <1>4, <1>5, <1>6, TotalOfBoth
<1> QED
  BY <1>3, <1>4, <1>7

\* There is nothing to count in no tokens.
LEMMA CountedNone == Sized(<<>>) /\ Counted(<<>>) = 0
<1> DEFINE r == <<>>
<1>1. r \in Seq({}) /\ Len(r) = 0
  BY EmptySeq
<1> HIDE DEF r
<1>2. IsTokenList(r) /\ DOMAIN r = {}
  BY <1>1 DEF IsTokenList
<1>3. Sized(r)
  BY <1>2 DEF Sized
<1>4. Weights(r) \in Seq(Int) /\ Len(Weights(r)) = 0 /\ Counted(r) = Total(Weights(r))
  BY <1>1, <1>3, WeightsList
<1>5. Total(Weights(r)) = 0
  BY <1>4, TotalOfFew
<1> QED
  BY <1>3, <1>4, <1>5 DEF r

\* One token counts as itself.
LEMMA CountedOne ==
    ASSUME NEW x, IsToken(x), IsSized(x)
    PROVE  Sized(<<x>>) /\ Counted(<<x>>) = Weight(x)
<1> DEFINE r == <<x>>
<1>1. r \in Seq({x}) /\ Len(r) = 1 /\ r[1] = x
  OBVIOUS
<1> HIDE DEF r
<1>2. IsTokenList(r) /\ DOMAIN r = 1 .. 1
  BY <1>1 DEF IsTokenList
<1>3. Sized(r)
  BY <1>1, <1>2 DEF Sized
<1>4. /\ Weights(r) \in Seq(Int) /\ Len(Weights(r)) = 1 /\ Counted(r) = Total(Weights(r))
      /\ Weights(r)[1] = Weight(x)
  BY <1>1, <1>3, WeightsList
<1>5. Total(Weights(r)) = Weight(x)
  BY <1>4, TotalOfFew
<1> QED
  BY <1>3, <1>4, <1>5 DEF r

\* Three tokens count as their sum.
LEMMA CountedThree ==
    ASSUME NEW x, NEW y, NEW z,
           IsToken(x), IsSized(x), IsToken(y), IsSized(y), IsToken(z), IsSized(z)
    PROVE  Sized(<<x, y, z>>) /\ Counted(<<x, y, z>>) = Weight(x) + Weight(y) + Weight(z)
<1> DEFINE r == <<x, y, z>>
<1>1. r \in Seq({x, y, z}) /\ Len(r) = 3 /\ r[1] = x /\ r[2] = y /\ r[3] = z
  OBVIOUS
<1> HIDE DEF r
<1>2. IsTokenList(r) /\ DOMAIN r = 1 .. 3
  BY <1>1 DEF IsTokenList
<1>3. \A n \in 1 .. 3 : IsSized(r[n])
  BY <1>1
<1>4. Sized(r)
  BY <1>2, <1>3 DEF Sized
<1>5. /\ Weights(r) \in Seq(Int) /\ Len(Weights(r)) = 3 /\ Counted(r) = Total(Weights(r))
      /\ Weights(r)[1] = Weight(x) /\ Weights(r)[2] = Weight(y) /\ Weights(r)[3] = Weight(z)
  BY <1>1, <1>4, WeightsList
<1>6. Total(Weights(r)) = Weights(r)[1] + Weights(r)[2] + Weights(r)[3]
  BY <1>5, TotalOfFew
<1> QED
  BY <1>4, <1>5, <1>6 DEF r

\* A list of which the tokens count what those of another do has as many.
LEMMA CountedSame ==
    ASSUME NEW a, NEW b, Sized(a), IsTokenList(b), DOMAIN b = DOMAIN a,
           \A n \in DOMAIN a : IsSized(b[n]) /\ Weight(b[n]) = Weight(a[n])
    PROVE  Sized(b) /\ Counted(b) = Counted(a)
BY DEF Sized, Counted

\* Of a list with x, y and z in the place of the n-th token.
LEMMA CountedSplice ==
    ASSUME NEW s, NEW n \in DOMAIN s, NEW x, NEW y, NEW z, Sized(s),
           IsToken(x), IsSized(x), IsToken(y), IsSized(y), IsToken(z), IsSized(z),
           Weight(x) + Weight(y) + Weight(z) = Weight(s[n])
    PROVE  Sized(Splice(s, n, x, y, z)) /\ Counted(Splice(s, n, x, y, z)) = Counted(s)
<1> DEFINE L == Len(s)
           a == SubSeq(s, 1, n - 1)
           b == SubSeq(s, n + 1, L)
           one == <<s[n]>>
           mid == <<x, y, z>>
<1>1. L \in Nat /\ DOMAIN s = 1 .. L /\ n \in 1 .. L
  BY WeightsList
<1>2. PICK T : s \in Seq(T) /\ \A t \in T : IsToken(t)
  BY DEF Sized, IsTokenList
<1>3. \A k \in 1 .. L : s[k] \in T /\ IsSized(s[k])
  BY <1>1, <1>2 DEF Sized
<1>4. a \in Seq(T) /\ Len(a) = n - 1 /\ \A k \in 1 .. n - 1 : a[k] = s[k]
  <2>1. \A k \in 1 .. n - 1 : s[k] \in T
    BY <1>1, <1>3
  <2> QED
    BY <1>1, <2>1, SubSeqProperties
<1>5. b \in Seq(T) /\ Len(b) = L - n /\ \A k \in 1 .. L - n : b[k] = s[n + k]
  <2>1. \A k \in n + 1 .. L : s[k] \in T
    BY <1>1, <1>3
  <2> HIDE DEF L
  <2>2. /\ b \in Seq(T) /\ Len(b) = IF n + 1 <= L THEN L - (n + 1) + 1 ELSE 0
        /\ \A k \in 1 .. L - (n + 1) + 1 : b[k] = s[n + 1 + k - 1]
    BY <1>1, <2>1, SubSeqProperties
  <2> HIDE DEF b
  <2>3. n \in Int /\ L \in Nat /\ n <= L
    BY <1>1
  <2>4. L - (n + 1) + 1 = L - n /\ (~ (n + 1 <= L) => L - n = 0)
    BY ONLY <2>3
  <2>5. \A k \in 1 .. L - n : n + 1 + k - 1 = n + k
    BY ONLY <2>3
  <2> QED
    BY ONLY <2>2, <2>4, <2>5
<1> HIDE DEF L, a, b
<1>6. Sized(a)
  <2>1. IsTokenList(a)
    BY <1>2, <1>4 DEF IsTokenList
  <2>2. \A k \in 1 .. n - 1 : IsSized(a[k])
    BY <1>1, <1>3, <1>4
  <2> QED
    BY <1>4, <2>1, <2>2 DEF Sized
<1>7. Sized(b)
  <2>1. IsTokenList(b)
    BY <1>2, <1>5 DEF IsTokenList
  <2>2. \A k \in 1 .. L - n : IsSized(b[k])
    <3>1. \A k \in 1 .. L - n : n + k \in 1 .. L
      BY <1>1
    <3> QED
      BY ONLY <1>3, <1>5, <3>1
  <2> QED
    BY <1>5, <2>1, <2>2 DEF Sized
<1>8. /\ Sized(mid) /\ Counted(mid) = Weight(x) + Weight(y) + Weight(z)
      /\ Sized(one) /\ Counted(one) = Weight(s[n])
  <2>1. IsToken(s[n]) /\ IsSized(s[n])
    BY <1>1, <1>2, <1>3
  <2>2. Sized(one) /\ Counted(one) = Weight(s[n])
    BY <2>1, CountedOne
  <2>3. Sized(mid) /\ Counted(mid) = Weight(x) + Weight(y) + Weight(z)
    BY CountedThree
  <2> QED
    BY <2>2, <2>3
<1>9. Len(one) = 1 /\ one[1] = s[n]
  OBVIOUS
<1> HIDE DEF one, mid
<1>10. Sized((a \o mid) \o b) /\ Counted((a \o mid) \o b) = (Counted(a) + Counted(mid)) + Counted(b)
  <2>1. Sized(a \o mid) /\ Counted(a \o mid) = Counted(a) + Counted(mid)
    BY <1>6, <1>8, ListOfBoth, CountedBoth DEF Sized
  <2> DEFINE am == a \o mid
  <2>2. Sized(am)
    BY <2>1
  <2> HIDE DEF am
  <2>3. Sized(am \o b) /\ Counted(am \o b) = Counted(am) + Counted(b)
    BY <1>7, <2>2, ListOfBoth, CountedBoth DEF Sized
  <2> QED
    BY <2>1, <2>3 DEF am
<1>11. Counted(s) = (Counted(a) + Counted(one)) + Counted(b)
  <2> DEFINE ao == a \o one
  <2>1. IsTokenList(ao) /\ IsBoth(ao, a, one)
    BY <1>6, <1>8, ListOfBoth DEF Sized
  <2> HIDE DEF ao
  <2>2. Sized(ao) /\ Counted(ao) = Counted(a) + Counted(one)
    BY <1>6, <1>8, <2>1, CountedBoth
  <2>3. /\ Len(ao) = n /\ ao[n] = s[n] /\ \A k \in 1 .. n - 1 : ao[k] = s[k]
    <3>1. Len(ao) = (n - 1) + 1 /\ ao[(n - 1) + 1] = s[n] /\ \A k \in 1 .. n - 1 : ao[k] = a[k]
      BY <1>4, <1>9, <2>1 DEF IsBoth
    <3>2. (n - 1) + 1 = n
      BY <1>1
    <3> QED
      BY ONLY <1>4, <3>1, <3>2
  <2>4. IsBoth(s, ao, b)
    <3>1. Len(s) = n + (L - n)
      BY <1>1 DEF L
    <3>2. \A k \in 1 .. n : k = n \/ k \in 1 .. n - 1
      BY <1>1
    <3>3. \A k \in 1 .. n : s[k] = ao[k]
      BY ONLY <2>3, <3>2
    <3> QED
      BY ONLY <1>5, <2>3, <3>1, <3>3 DEF IsBoth
  <2>5. Counted(s) = Counted(ao) + Counted(b)
    BY <1>7, <2>2, <2>4, CountedBoth DEF Sized
  <2> QED
    BY <2>2, <2>5
<1> QED
  BY <1>8, <1>10, <1>11 DEF Splice, a, b, mid, L

(***************************************************************************)
(* The characters of a text.                                               *)
(***************************************************************************)

\* How many emphasis characters are in the first n pieces of a text.
Before(text, n) == Sums(Sizes(text))[n]

\* What each piece of a text has.
LEMMA SizesList ==
    ASSUME NEW text \in Seq(Pieces)
    PROVE  /\ Sizes(text) \in Seq(Int) /\ Len(Sizes(text)) = Len(text) /\ Len(text) \in Nat
           /\ \A n \in 1 .. Len(text) : Sizes(text)[n] = IF text[n].is = "run" THEN text[n].n ELSE 0
           /\ TotalSize(text) = Before(text, Len(text))
           /\ Before(text, 0) = 0
           /\ \A n \in 0 .. Len(text) : Before(text, n) \in Int
<1> DEFINE w == Sizes(text)
           L == Len(text)
<1>1. L \in Nat /\ DOMAIN text = 1 .. L /\ \A n \in 1 .. L : text[n].n \in Int
  <2>1. L \in Nat /\ DOMAIN text = 1 .. L /\ \A n \in 1 .. L : text[n] \in Pieces
    OBVIOUS
  <2>2. \A p \in Pieces : p.n \in Int
    BY DEF Pieces
  <2> QED
    BY <2>1, <2>2
<1>2. w = [n \in 1 .. L |-> IF text[n].is = "run" THEN text[n].n ELSE 0]
  BY <1>1 DEF Sizes
<1> HIDE DEF L
<1>3. w \in [1 .. L -> Int]
  BY <1>1, <1>2
<1> HIDE DEF w
<1>4. w \in Seq(Int) /\ Len(w) = L
  BY ONLY <1>1, <1>3
<1>5. \A n \in 1 .. L : w[n] = IF text[n].is = "run" THEN text[n].n ELSE 0
  BY <1>2
<1>6. Sums(w)[0] = 0 /\ \A n \in 0 .. L : Sums(w)[n] \in Int
  BY <1>4, SumsDefined, SumsType
<1>7. Total(w) = Sums(w)[L]
  BY <1>4 DEF Total
<1> QED
  BY <1>1, <1>4, <1>5, <1>6, <1>7 DEF w, L, Before, TotalSize

\* A part of a text has what its pieces have in the text.
LEMMA SizeOfPart ==
    ASSUME NEW text \in Seq(Pieces), NEW i \in Nat, NEW j \in Nat, i <= j, j <= Len(text)
    PROVE  /\ TotalSize(SubSeq(text, i + 1, j)) = Before(text, j) - Before(text, i)
           /\ TotalSize(SubSeq(text, i + 1, j)) \in Int
           /\ SubSeq(text, i + 1, j) \in Seq(Pieces)
<1> DEFINE part == SubSeq(text, i + 1, j)
           L == Len(text)
<1>1. L \in Nat /\ \A n \in 1 .. L : text[n] \in Pieces
  OBVIOUS
<1>2. /\ part \in Seq(Pieces) /\ Len(part) = j - i
      /\ \A k \in 1 .. j - i : part[k] = text[i + k]
  <2>1. \A k \in i + 1 .. j : text[k] \in Pieces
    BY <1>1
  <2>2. /\ part \in Seq(Pieces) /\ Len(part) = IF i + 1 <= j THEN j - (i + 1) + 1 ELSE 0
        /\ \A k \in 1 .. j - (i + 1) + 1 : part[k] = text[i + 1 + k - 1]
    BY <2>1, SubSeqProperties
  <2> HIDE DEF part
  <2>3. j - (i + 1) + 1 = j - i /\ (~ (i + 1 <= j) => j - i = 0)
    OBVIOUS
  <2>4. \A k \in 1 .. j - i : i + 1 + k - 1 = i + k
    OBVIOUS
  <2> QED
    BY ONLY <2>2, <2>3, <2>4
<1> HIDE DEF part
<1> DEFINE v == Sizes(text)
           w == Sizes(part)
<1>3. /\ v \in Seq(Int) /\ Len(v) = L /\ w \in Seq(Int) /\ Len(w) = j - i
      /\ \A n \in 1 .. L : v[n] = IF text[n].is = "run" THEN text[n].n ELSE 0
      /\ \A n \in 1 .. j - i : w[n] = IF part[n].is = "run" THEN part[n].n ELSE 0
  BY <1>2, SizesList
<1> HIDE DEF v, w, L
<1>4. \A k \in 1 .. j - i : w[k] = v[i + k]
  <2>1. \A k \in 1 .. j - i : i + k \in 1 .. L
    BY <1>1 DEF L
  <2> QED
    BY ONLY <1>2, <1>3, <2>1
<1>5. Total(w) = Sums(v)[j] - Sums(v)[i]
  <2>1. j <= Len(v)
    BY <1>3 DEF L
  <2> QED
    BY <1>3, <1>4, <2>1, TotalOfPart
<1>6. Total(w) \in Int
  BY <1>3, TotalOfFew
<1> QED
  BY <1>2, <1>5, <1>6 DEF part, v, w, Before, TotalSize

\* No pieces have nothing.
LEMMA SizeOfNothing == TotalSize(<<>>) = 0
<1> DEFINE r == <<>>
<1>1. r \in Seq(Pieces) /\ Len(r) = 0
  BY EmptySeq
<1> HIDE DEF r
<1>2. TotalSize(r) = 0
  BY <1>1, SizesList
<1> QED
  BY <1>2 DEF r

\* The least of a set of natural numbers is one of them.
LEMMA MinIs ==
    ASSUME NEW S, S \subseteq Nat, S # {}
    PROVE  Min(S) \in S /\ \A n \in S : Min(S) <= n
BY LeastNumber DEF Min

\* The pieces from i on that are of one of kinds reach up to StretchEnd.
LEMMA Stretches ==
    ASSUME NEW text \in Seq(Pieces), NEW kinds, NEW i \in Nat \ {0}, i <= Len(text) + 1
    PROVE  /\ StretchEnd(text, i, kinds) \in i - 1 .. Len(text)
           /\ \A k \in i .. StretchEnd(text, i, kinds) : text[k].is \in kinds
           /\ i <= Len(text) /\ text[i].is \in kinds => StretchEnd(text, i, kinds) \in i .. Len(text)
<1> DEFINE L == Len(text)
           S == {j \in i .. L : text[j].is \notin kinds}
           T == {L + 1} \cup S
<1>1. L \in Nat
  OBVIOUS
<1> HIDE DEF L
<1>2. T \subseteq Nat /\ T # {} /\ \A n \in T : i <= n
  BY <1>1 DEF L
<1>3. L + 1 \in T
  OBVIOUS
<1>4. \A k \in i .. L : k \notin T => text[k].is \in kinds
  OBVIOUS
<1>5. i <= L /\ text[i].is \in kinds => i \notin T
  BY <1>1
<1>6. StretchEnd(text, i, kinds) = Min(T) - 1
  BY DEF StretchEnd, L
<1> HIDE DEF T
<1> DEFINE m == Min(T)
<1>7. m \in T /\ \A n \in T : m <= n
  BY <1>2, MinIs
<1> HIDE DEF m
<1>8. m \in Nat /\ i <= m /\ m <= L + 1
  BY <1>2, <1>3, <1>7
<1>9. ASSUME NEW k \in i .. m - 1 PROVE text[k].is \in kinds
  <2>1. k \in i .. L /\ ~ (m <= k)
    BY <1>1, <1>8
  <2> QED
    BY <1>4, <1>7, <2>1
<1>10. i <= L /\ text[i].is \in kinds => m # i
  BY <1>5, <1>7
<1>11. m - 1 \in i - 1 .. L /\ (m # i => m - 1 \in i .. L)
  BY <1>1, <1>8
<1> QED
  BY <1>6, <1>9, <1>10, <1>11 DEF m, L

\* In emphasis in the middle of a word, the characters behind the word are
\* those before it, and there are none in the word.
LEMMA MidWordSizes ==
    ASSUME NEW text \in Seq(Pieces), NEW i \in 1 .. Len(text), NEW p, IsRun(text, i), MidWord(text, i, p)
    PROVE  \E a, b \in 1 .. Len(text) :
             /\ a = RunsEnd(text, i) /\ b = SolidEnd(text, a + 1) /\ i <= a /\ a < b
             /\ b + (a - i) + 1 <= Len(text)
             /\ SubSeq(text, b + 1, b + (a - i) + 1) = SubSeq(text, i, a)
<1> DEFINE L == Len(text)
           a == RunsEnd(text, i)
           b == SolidEnd(text, a + 1)
           e == RunsEnd(text, b + 1)
<1>1. L \in Nat /\ i \in Nat \ {0} /\ i <= L /\ text[i].is \in {"run"}
  BY DEF IsRun
<1>2. a \in i .. L
  BY <1>1, Stretches DEF RunsEnd
<1>3. b > a /\ SubSeq(text, b + 1, e) = SubSeq(text, i, a)
  BY DEF MidWord
<1> HIDE DEF a, L
<1>4. b \in a .. L
  <2>1. a + 1 \in Nat \ {0} /\ a + 1 <= L + 1 /\ (a + 1) - 1 = a
    BY <1>1, <1>2
  <2>2. SolidEnd(text, a + 1) \in (a + 1) - 1 .. L
    BY <2>1, Stretches DEF SolidEnd, L
  <2> QED
    BY <2>1, <2>2
<1> HIDE DEF b
<1>5. e \in b .. L
  <2>1. b + 1 \in Nat \ {0} /\ b + 1 <= L + 1 /\ (b + 1) - 1 = b
    BY <1>1, <1>2, <1>4
  <2>2. RunsEnd(text, b + 1) \in (b + 1) - 1 .. L
    BY <2>1, Stretches DEF RunsEnd, L
  <2> QED
    BY <2>1, <2>2
<1> HIDE DEF e
<1>6. Len(SubSeq(text, i, a)) = a - i + 1
  <2>1. \A k \in i .. a : text[k] \in Pieces
    BY <1>1, <1>2 DEF L
  <2> QED
    BY <1>1, <1>2, <2>1, SubSeqProperties
<1>7. Len(SubSeq(text, b + 1, e)) = e - b
  <2>1. \A k \in b + 1 .. e : text[k] \in Pieces
    BY <1>1, <1>2, <1>4, <1>5 DEF L
  <2>2. b + 1 \in Int /\ e \in Int /\ (IF b + 1 <= e THEN e - (b + 1) + 1 ELSE 0) = e - b
    BY <1>1, <1>2, <1>4, <1>5
  <2> QED
    BY <2>1, <2>2, SubSeqProperties
<1>8. e = b + (a - i) + 1
  <2>1. e - b = a - i + 1
    BY ONLY <1>3, <1>6, <1>7
  <2> QED
    BY <1>1, <1>2, <1>4, <1>5, <2>1
<1>9. a \in 1 .. L /\ b \in 1 .. L /\ i <= a /\ a < b /\ b + (a - i) + 1 <= L
  BY <1>1, <1>2, <1>3, <1>4, <1>5, <1>8
<1>10. SubSeq(text, b + 1, b + (a - i) + 1) = SubSeq(text, i, a)
  BY <1>3, <1>8
<1>11. a = RunsEnd(text, i) /\ b = SolidEnd(text, a + 1)
  BY DEF a, b
<1> QED
  BY <1>9, <1>10, <1>11 DEF L

\* Tokens have the sizes that they are made with.
LEMMA NewSizes ==
    ASSUME NEW open, NEW c, NEW size \in Int, NEW pieces, TotalSize(pieces) \in Int
    PROVE  /\ IsToken(Marker(open, c, size)) /\ IsSized(Marker(open, c, size))
           /\ Weight(Marker(open, c, size)) = size
           /\ IsToken(Text(pieces)) /\ IsSized(Text(pieces))
           /\ Weight(Text(pieces)) = TotalSize(pieces)
<1>1. IsToken(Marker(open, c, size)) /\ IsToken(Text(pieces))
  BY NewTokens
<1>2. /\ Marker(open, c, size).size = size /\ Marker(open, c, size).text = <<>>
      /\ Marker(open, c, size).off = FALSE
  BY DEF Marker
<1>3. /\ Text(pieces).size = 0 /\ Text(pieces).text = pieces
      /\ Text(pieces).off = FALSE /\ Text(pieces).c = ""
  BY DEF Text
<1> DEFINE m == Marker(open, c, size)
           t == Text(pieces)
<1> HIDE DEF m, t
<1>4. m.size = size /\ m.text = <<>> /\ m.off = FALSE
  BY <1>2 DEF m
<1>5. t.size = 0 /\ t.text = pieces /\ t.off = FALSE /\ t.c = ""
  BY <1>3 DEF t
<1>6. IsSized(m) /\ Weight(m) = size
  BY <1>4, SizeOfNothing DEF IsSized, Weight
<1>7. IsSized(t) /\ Weight(t) = TotalSize(pieces)
  <2>1. ~IsMarker(t)
    BY <1>5 DEF IsMarker
  <2>2. 0 + TotalSize(pieces) = TotalSize(pieces)
    OBVIOUS
  <2>3. Weight(t) = TotalSize(pieces)
    BY <1>5, <2>2 DEF Weight
  <2>4. t.size \in Int
    <3>1. 0 \in Int
      OBVIOUS
    <3> QED
      BY <1>5, <3>1, Zenon
  <2>5. TotalSize(t.text) \in Int
    BY <1>5, Zenon
  <2> QED
    BY <2>1, <2>3, <2>4, <2>5, Zenon DEF IsSized
<1> QED
  BY <1>1, <1>6, <1>7 DEF m, t

\* MatchAt takes what its tokens count from the text.
LEMMA MatchSizes ==
    ASSUME NEW text \in Seq(Pieces), NEW i \in 1 .. Len(text), NEW p, IsRun(text, i),
           NEW m, m = MatchAt(text, i, p)
    PROVE  /\ m.next \in i + 1 .. Len(text) + 1
           /\ Sized(m.tokens)
           /\ Counted(m.tokens) = Before(text, m.next - 1) - Before(text, i - 1)
<1> DEFINE L == Len(text)
           s(k) == Before(text, k)
<1>1. /\ L \in Nat /\ i \in 1 .. L /\ i - 1 \in 0 .. L
      /\ \A k \in 0 .. L : Before(text, k) \in Int
  BY SizesList
<1>2. CASE MidWord(text, i, p)
  <2>1. PICK a, b \in 1 .. L :
             /\ a = RunsEnd(text, i) /\ b = SolidEnd(text, a + 1) /\ i <= a /\ a < b
             /\ b + (a - i) + 1 <= L
             /\ SubSeq(text, b + 1, b + (a - i) + 1) = SubSeq(text, i, a)
    BY <1>1, <1>2, MidWordSizes
  <2> DEFINE size == TotalSize(SubSeq(text, i, a))
             word == SubSeq(text, a + 1, b)
             x == Marker(TRUE, text[i].c, size)
             y == Text(word)
             z == Marker(FALSE, text[i].c, size)
             e == b + (a - i) + 1
  <2>2. m.tokens = <<x, y, z>> /\ m.next = b + 1 + a - i + 1
    BY <1>2, <2>1 DEF MatchAt
  <2>3. /\ a \in Nat /\ b \in Nat /\ i \in Nat /\ e \in Nat /\ i - 1 \in Nat /\ (i - 1) + 1 = i
        /\ i - 1 <= a /\ a <= L /\ a <= b /\ b <= L /\ b <= e /\ e <= L /\ m.next - 1 = e
        /\ e + 1 = m.next /\ i + 1 <= m.next /\ m.next <= L + 1 /\ m.next \in Int
    <3>1. /\ L \in Nat /\ a \in 1 .. L /\ b \in 1 .. L /\ i \in 1 .. L /\ i <= a /\ a < b
          /\ b + (a - i) + 1 <= L
      BY <1>1, <2>1
    <3>2. m.next = b + 1 + a - i + 1
      BY <2>2
    <3> DEFINE next == m.next
    <3> HIDE DEF L, next
    <3>3. next = b + 1 + a - i + 1
      BY <3>2 DEF next
    <3>4. /\ a \in Nat /\ b \in Nat /\ i \in Nat /\ e \in Nat /\ i - 1 \in Nat /\ (i - 1) + 1 = i
          /\ i - 1 <= a /\ a <= L /\ a <= b /\ b <= L /\ b <= e /\ e <= L
      BY ONLY <3>1
    <3>5. /\ next - 1 = e /\ e + 1 = next /\ i + 1 <= next /\ next <= L + 1 /\ next \in Int
      BY ONLY <3>1, <3>3
    <3> QED
      BY ONLY <3>4, <3>5 DEF next
  <2>4. size = Before(text, a) - Before(text, i - 1) /\ size \in Int
    <3>1. /\ TotalSize(SubSeq(text, (i - 1) + 1, a)) = Before(text, a) - Before(text, i - 1)
          /\ TotalSize(SubSeq(text, (i - 1) + 1, a)) \in Int
      BY ONLY <2>3, SizeOfPart, text \in Seq(Pieces) DEF L
    <3> QED
      BY ONLY <2>3, <3>1
  <2>5. TotalSize(word) = Before(text, b) - Before(text, a) /\ TotalSize(word) \in Int
    BY ONLY <2>3, SizeOfPart, text \in Seq(Pieces) DEF L
  <2>6. size = Before(text, e) - Before(text, b)
    <3>1. TotalSize(SubSeq(text, b + 1, e)) = Before(text, e) - Before(text, b)
      <4> HIDE DEF e
      <4> QED
        BY ONLY <2>3, SizeOfPart, text \in Seq(Pieces) DEF L
    <3> QED
      BY <2>1, <3>1
  <2> HIDE DEF size, word, e
  <2>7. /\ IsToken(x) /\ IsSized(x) /\ Weight(x) = size
        /\ IsToken(z) /\ IsSized(z) /\ Weight(z) = size
        /\ IsToken(y) /\ IsSized(y) /\ Weight(y) = TotalSize(word)
    BY <2>4, <2>5, NewSizes
  <2> HIDE DEF x, y, z
  <2>8. Sized(<<x, y, z>>) /\ Counted(<<x, y, z>>) = Weight(x) + Weight(y) + Weight(z)
    BY ONLY <2>7, CountedThree
  <2>9. /\ Before(text, a) \in Int /\ Before(text, b) \in Int /\ Before(text, e) \in Int
        /\ Before(text, i - 1) \in Int
    BY <1>1, <2>3
  <2>10. size + TotalSize(word) + size = Before(text, e) - Before(text, i - 1)
    <3> DEFINE f == Before(text, i - 1)
               g == Before(text, a)
               h == Before(text, b)
               k == Before(text, e)
               u == TotalSize(word)
    <3>1. /\ f \in Int /\ g \in Int /\ h \in Int /\ k \in Int /\ u \in Int
          /\ size = g - f /\ u = h - g /\ size = k - h
      BY ONLY <2>4, <2>5, <2>6, <2>9
    <3> HIDE DEF f, g, h, k, u
    <3>2. size + u + size = k - f
      BY ONLY <3>1
    <3> QED
      BY ONLY <3>2 DEF f, k, u
  <2>11. Counted(m.tokens) = Before(text, e) - Before(text, i - 1) /\ Sized(m.tokens)
    BY ONLY <2>2, <2>7, <2>8, <2>10
  <2> QED
    BY <1>1, <2>3, <2>11
<1>3. CASE ~MidWord(text, i, p)
  <2> DEFINE n == text[i].n
             w == Marker(MayOpen(text, i), text[i].c, n)
  <2>1. m.tokens = <<w>> /\ m.next = i + 1
    BY <1>3 DEF MatchAt
  <2>2. Before(text, i) = Before(text, i - 1) + n /\ n \in Int
    <3> DEFINE l == Sizes(text)
    <3>1. l \in Seq(Int) /\ Len(l) = L /\ l[i] = n /\ l[i] \in Int
      BY <1>1, SizesList DEF IsRun
    <3>2. Sums(l)[i] = Sums(l)[i - 1] + l[i]
      BY <1>1, <3>1, SumsDefined
    <3> QED
      BY <3>1, <3>2 DEF Before
  <2> HIDE DEF n
  <2>3. IsToken(w) /\ IsSized(w) /\ Weight(w) = n
    BY <2>2, NewSizes, SizeOfNothing
  <2> HIDE DEF w
  <2>4. Sized(<<w>>) /\ Counted(<<w>>) = n
    BY ONLY <2>3, CountedOne
  <2>5. n = Before(text, i) - Before(text, i - 1)
    <3> DEFINE f == Before(text, i - 1)
               g == Before(text, i)
    <3>1. f \in Int /\ n \in Int /\ g = f + n
      BY <1>1, <2>2
    <3> HIDE DEF f, g
    <3>2. n = g - f
      BY ONLY <3>1
    <3> QED
      BY ONLY <3>2 DEF f, g
  <2>6. m.next - 1 = i /\ m.next \in i + 1 .. L + 1
    BY <1>1, <2>1
  <2> QED
    BY <2>1, <2>4, <2>5, <2>6
<1> QED
  BY <1>2, <1>3

\* TextUpTo takes what is between two markers.
LEMMA TextSizes ==
    ASSUME src \in Seq(Pieces), prev \in 1 .. Len(src) + 1, NEW i \in prev .. Len(src) + 1
    PROVE  /\ Sized(TextUpTo(i))
           /\ Counted(TextUpTo(i)) = Before(src, i - 1) - Before(src, prev - 1)
<1>1. /\ prev - 1 \in Nat /\ i - 1 \in Nat /\ prev - 1 <= i - 1 /\ i - 1 <= Len(src)
      /\ (prev - 1) + 1 = prev
  OBVIOUS
<1>2. CASE i = prev
  <2>1. TextUpTo(i) = <<>>
    BY <1>2 DEF TextUpTo
  <2>2. i - 1 \in 0 .. Len(src)
    BY <1>1
  <2>3. Before(src, i - 1) \in Int
    BY <2>2, SizesList
  <2>4. Before(src, i - 1) - Before(src, i - 1) = 0
    BY ONLY <2>3
  <2> QED
    BY <1>2, <2>1, <2>4, CountedNone
<1>3. CASE i # prev
  <2> DEFINE part == SubSeq(src, prev, i - 1)
  <2>1. TextUpTo(i) = <<Text(part)>>
    BY <1>3 DEF TextUpTo
  <2>2. TotalSize(part) = Before(src, i - 1) - Before(src, prev - 1) /\ TotalSize(part) \in Int
    <3>1. /\ TotalSize(SubSeq(src, (prev - 1) + 1, i - 1)) = Before(src, i - 1) - Before(src, prev - 1)
          /\ TotalSize(SubSeq(src, (prev - 1) + 1, i - 1)) \in Int
      BY ONLY <1>1, SizeOfPart, src \in Seq(Pieces)
    <3> QED
      BY ONLY <1>1, <3>1
  <2> HIDE DEF part
  <2>3. IsToken(Text(part)) /\ IsSized(Text(part)) /\ Weight(Text(part)) = TotalSize(part)
    BY <2>2, 0 \in Int, NewSizes
  <2> QED
    BY <2>1, <2>2, <2>3, CountedOne
<1> QED
  BY <1>2, <1>3

(***************************************************************************)
(* The steps.                                                              *)
(***************************************************************************)

\* What has become tokens has the characters of the text so far, and the
\* tokens have all of them while they are matched and unmatched.
ConservedInv ==
    /\ at = "tokens" => /\ src \in Seq(Pieces) /\ prev \in 1 .. Len(src) + 1
                        /\ Sized(tgt) /\ Counted(tgt) = Before(src, prev - 1)
    /\ at \in {"match", "unmatch"} => Sized(tgt) /\ Counted(tgt) = TotalSize(src)

\* The search finds a run, from where it starts on.
LEMMA Finds ==
    ASSUME NEW text \in Seq(Pieces), NEW p \in 1 .. Len(text) + 1, NextMatch(text, p) <= Len(text)
    PROVE  NextMatch(text, p) \in p .. Len(text) /\ IsRun(text, NextMatch(text, p))
<1> DEFINE L == Len(text)
           S == {i \in p .. L : /\ IsRun(text, i)
                                /\ MidWord(text, i, p) \/ MayOpen(text, i) \/ MayClose(text, i, p)}
           T == {L + 1} \cup S
<1>1. L \in Nat /\ T \subseteq Nat /\ T # {}
  OBVIOUS
<1>2. NextMatch(text, p) = Min(T)
  BY DEF NextMatch
<1>3. \A i \in T : i = L + 1 \/ (i \in p .. L /\ IsRun(text, i))
  OBVIOUS
<1> HIDE DEF T
<1>4. Min(T) \in T
  BY <1>1, MinIs
<1> HIDE DEF L
<1>5. Min(T) # L + 1
  BY <1>1, <1>2 DEF L
<1> QED
  BY <1>2, <1>3, <1>4, <1>5 DEF L

\* A marker is found.
LEMMA NextMarkerConserves ==
    ASSUME EmphasisInv, ConservedInv, NextMarker
    PROVE  ConservedInv'
<1>1. /\ at = "tokens" /\ at' = "tokens" /\ src' = src
      /\ src \in Seq(Pieces) /\ prev \in 1 .. Len(src) + 1
      /\ Sized(tgt) /\ Counted(tgt) = Before(src, prev - 1)
  BY DEF ConservedInv, NextMarker
<1> DEFINE i == NextMatch(src, prev)
           m == MatchAt(src, i, prev)
           x == TextUpTo(i)
           y == m.tokens
           L == Len(src)
<1>2. i <= L /\ tgt' = tgt \o x \o y /\ prev' = m.next
  BY DEF NextMarker
<1>3. i \in prev .. L /\ IsRun(src, i)
  BY <1>1, <1>2, Finds
<1>4. L \in Nat /\ i \in 1 .. L /\ i \in prev .. L + 1 /\ i - 1 \in 0 .. L /\ prev - 1 \in 0 .. L
  <2>1. L \in Nat /\ prev \in 1 .. L + 1 /\ i \in prev .. L
    BY <1>1, <1>3
  <2> HIDE DEF i, L
  <2> QED
    BY ONLY <2>1
<1>5. Sized(x) /\ Counted(x) = Before(src, i - 1) - Before(src, prev - 1)
  <2> HIDE DEF i
  <2> QED
    BY <1>1, <1>4, TextSizes
<1>6. m.next \in i + 1 .. L + 1 /\ Sized(y) /\ Counted(y) = Before(src, m.next - 1) - Before(src, i - 1)
  <2> HIDE DEF i
  <2>1. m = MatchAt(src, i, prev)
    OBVIOUS
  <2> HIDE DEF m
  <2> QED
    BY <1>1, <1>3, <1>4, <2>1, MatchSizes
<1> HIDE DEF i, m, x, y
<1>7. Sized(tgt \o x) /\ Counted(tgt \o x) = Counted(tgt) + Counted(x)
  BY <1>1, <1>5, ListOfBoth, CountedBoth DEF Sized
<1> DEFINE tx == tgt \o x
<1>8. Sized(tx)
  BY <1>7
<1> HIDE DEF tx
<1>9. Sized(tx \o y) /\ Counted(tx \o y) = Counted(tx) + Counted(y)
  BY <1>6, <1>8, ListOfBoth, CountedBoth DEF Sized
<1>10. m.next \in 1 .. L + 1 /\ m.next - 1 \in 0 .. L
  BY <1>4, <1>6
<1>11. Counted(tx \o y) = Before(src, m.next - 1)
  <2> DEFINE a == Before(src, prev - 1)
             b == Before(src, i - 1)
             c == Before(src, m.next - 1)
  <2>1. a \in Int /\ b \in Int /\ c \in Int
    BY <1>1, <1>4, <1>10, SizesList
  <2>2. Counted(tx \o y) = (a + (b - a)) + (c - b)
    BY <1>1, <1>5, <1>6, <1>7, <1>9 DEF tx
  <2> HIDE DEF a, b, c
  <2>3. (a + (b - a)) + (c - b) = c
    BY ONLY <2>1
  <2> QED
    BY ONLY <2>2, <2>3 DEF c
<1>12. Sized(tgt') /\ Counted(tgt') = Before(src', prev' - 1) /\ prev' \in 1 .. Len(src') + 1
  BY <1>1, <1>2, <1>9, <1>10, <1>11 DEF tx, L
<1> QED
  BY <1>1, <1>12 DEF ConservedInv

\* There is none any more.
LEMMA LastMarkerConserves ==
    ASSUME EmphasisInv, ConservedInv, LastMarker
    PROVE  ConservedInv'
<1>1. /\ at = "tokens" /\ src' = src /\ at' \in {"match", "unmatch"}
      /\ src \in Seq(Pieces) /\ prev \in 1 .. Len(src) + 1
      /\ Sized(tgt) /\ Counted(tgt) = Before(src, prev - 1)
  BY DEF ConservedInv, LastMarker
<1> DEFINE L == Len(src)
           x == TextUpTo(L + 1)
<1>2. tgt' = tgt \o x
  BY DEF LastMarker
<1>3. L \in Nat /\ L + 1 \in prev .. L + 1 /\ (L + 1) - 1 = L /\ L \in 0 .. L /\ prev - 1 \in 0 .. L
  <2>1. L \in Nat /\ prev \in 1 .. L + 1
    BY <1>1
  <2> HIDE DEF L
  <2> QED
    BY ONLY <2>1
<1>4. Sized(x) /\ Counted(x) = Before(src, L) - Before(src, prev - 1)
  <2>1. Sized(x) /\ Counted(x) = Before(src, (L + 1) - 1) - Before(src, prev - 1)
    BY <1>1, <1>3, TextSizes
  <2> QED
    BY <1>3, <2>1
<1> HIDE DEF x
<1>5. Sized(tgt \o x) /\ Counted(tgt \o x) = Counted(tgt) + Counted(x)
  BY <1>1, <1>4, ListOfBoth, CountedBoth DEF Sized
<1>6. Counted(tgt \o x) = TotalSize(src)
  <2> DEFINE a == Before(src, prev - 1)
             b == Before(src, L)
  <2>1. a \in Int /\ b \in Int /\ TotalSize(src) = b
    BY <1>1, <1>3, SizesList
  <2>2. Counted(tgt \o x) = a + (b - a)
    BY <1>1, <1>4, <1>5
  <2> HIDE DEF a, b
  <2>3. a + (b - a) = b
    BY ONLY <2>1
  <2> QED
    BY ONLY <2>1, <2>2, <2>3
<1> QED
  BY <1>1, <1>2, <1>5, <1>6 DEF ConservedInv

\* A marker is split in two of its size.
LEMMA SplitConserves ==
    ASSUME NEW n \in DOMAIN tgt, Sized(tgt), IsMarker(tgt[n]), ~tgt[n].off,
           NEW size1 \in Int, NEW size2 \in Int, size1 + size2 = tgt[n].size
    PROVE  Sized(Split(n, size1, size2)) /\ Counted(Split(n, size1, size2)) = Counted(tgt)
<1> DEFINE t == tgt[n]
           x == Disabled(t)
           y == Marker(t.open, t.c, size1)
           z == Marker(t.open, t.c, size2)
<1>1. IsToken(t) /\ IsSized(t)
  BY TokenLists DEF Sized
<1>2. Split(n, size1, size2) = Splice(tgt, n, x, y, z)
  BY DEF Split, Splice
<1>3. Weight(t) = t.size /\ t.size \in Int /\ TotalSize(t.text) = 0
  BY <1>1 DEF Weight, IsSized
<1> HIDE DEF t
<1>4. IsToken(x) /\ x.off /\ x.size = t.size /\ x.text = t.text
  <2>1. IsToken(x)
    BY <1>1, 0 \in Int, TokenChanges
  <2> QED
    BY <1>1, <2>1 DEF IsToken, Disabled
<1>5. /\ IsToken(y) /\ IsSized(y) /\ Weight(y) = size1
      /\ IsToken(z) /\ IsSized(z) /\ Weight(z) = size2
  <2>1. TotalSize(<<>>) \in Int
    BY SizeOfNothing
  <2> QED
    BY <2>1, NewSizes
<1> HIDE DEF x, y, z
<1>6. IsSized(x) /\ Weight(x) = 0
  BY <1>3, <1>4 DEF IsSized, Weight
<1>7. 0 + size1 + size2 = t.size
  BY DEF t
<1>8. Weight(x) + Weight(y) + Weight(z) = Weight(tgt[n])
  BY <1>3, <1>5, <1>6, <1>7 DEF t
<1>9. /\ Sized(Splice(tgt, n, x, y, z)) /\ Counted(Splice(tgt, n, x, y, z)) = Counted(tgt)
  BY <1>4, <1>5, <1>6, <1>8, CountedSplice
<1> QED
  BY <1>2, <1>9

\* One of the markers that are compared is split.
LEMMA SplitsConserve ==
    ASSUME EmphasisInv, ConservedInv, SplitClose \/ SplitOpen
    PROVE  ConservedInv'
<1>1. /\ at = "match" /\ at' = "match" /\ src' = src
      /\ Sized(tgt) /\ Counted(tgt) = TotalSize(src)
      /\ ii \in Nat \ {0} /\ iii \in Nat /\ ii < iii
      /\ ii <= Len(tgt) /\ iii <= Len(tgt) /\ UnmatchedOpen(tgt[ii]) /\ UnmatchedClose(tgt[iii])
  BY DEF ConservedInv, EmphasisInv, SplitClose, SplitOpen, Comparing, matchVars
<1>2. ii \in DOMAIN tgt /\ iii \in DOMAIN tgt
  <2>1. Len(tgt) \in Nat /\ DOMAIN tgt = 1 .. Len(tgt)
    BY <1>1, WeightsList
  <2> QED
    BY <1>1, <2>1
<1> DEFINE p == tgt[ii].size
           q == tgt[iii].size
<1>3. p \in Int /\ q \in Int
  BY <1>1, <1>2 DEF Sized, IsSized
<1>4. /\ IsMarker(tgt[ii]) /\ ~tgt[ii].off /\ IsMarker(tgt[iii]) /\ ~tgt[iii].off
  BY <1>1 DEF UnmatchedOpen, UnmatchedClose
<1>5. CASE SplitClose
  <2>1. tgt' = Split(iii, q - p, p)
    BY <1>5 DEF SplitClose
  <2> HIDE DEF p
  <2>2. q - p \in Int /\ (q - p) + p = tgt[iii].size
    <3>1. q = tgt[iii].size
      OBVIOUS
    <3> HIDE DEF q
    <3> QED
      BY ONLY <1>3, <3>1
  <2>3. Sized(tgt') /\ Counted(tgt') = Counted(tgt)
    BY <1>1, <1>2, <1>3, <1>4, <2>1, <2>2, SplitConserves
  <2> QED
    BY <1>1, <2>3 DEF ConservedInv
<1>6. CASE SplitOpen
  <2>1. tgt' = Split(ii, p - q, q)
    BY <1>6 DEF SplitOpen
  <2> HIDE DEF q
  <2>2. p - q \in Int /\ (p - q) + q = tgt[ii].size
    <3>1. p = tgt[ii].size
      OBVIOUS
    <3> HIDE DEF p
    <3> QED
      BY ONLY <1>3, <3>1
  <2>3. Sized(tgt') /\ Counted(tgt') = Counted(tgt)
    BY <1>1, <1>2, <1>3, <1>4, <2>1, <2>2, SplitConserves
  <2> QED
    BY <1>1, <2>3 DEF ConservedInv
<1> QED
  BY <1>5, <1>6

\* A token under another id counts as before.
LEMMA SameWeight ==
    ASSUME NEW t, IsToken(t), IsSized(t), NEW k \in Int
    PROVE  IsSized([t EXCEPT !.id = k]) /\ Weight([t EXCEPT !.id = k]) = Weight(t)
<1> DEFINE u == [t EXCEPT !.id = k]
<1>1. u.size = t.size /\ u.text = t.text /\ u.off = t.off /\ u.c = t.c
  BY DEF IsToken
<1> HIDE DEF u
<1>2. IsSized(u)
  BY <1>1 DEF IsSized, IsMarker
<1>3. Weight(u) = Weight(t)
  BY <1>1 DEF Weight
<1> QED
  BY <1>2, <1>3 DEF u

\* Matching and unmatching change nothing but ids.
LEMMA IdsConserve ==
    ASSUME EmphasisInv, EmphasisInv', ConservedInv, Match \/ Unmatch
    PROVE  ConservedInv'
<1>1. /\ Sized(tgt) /\ Counted(tgt) = TotalSize(src) /\ src' = src
      /\ at' \in {"match", "unmatch"} /\ IsTokenList(tgt')
  BY DEF ConservedInv, EmphasisInv, Match, Unmatch, Comparing, matchVars
<1>2. \A n \in DOMAIN tgt : IsToken(tgt[n]) /\ IsSized(tgt[n])
  BY <1>1, TokenLists DEF Sized
<1>3. \/ tgt' = tgt
      \/ \E k \in Int : /\ DOMAIN tgt' = DOMAIN tgt
                        /\ \A n \in DOMAIN tgt : tgt'[n] \in {tgt[n], [tgt[n] EXCEPT !.id = k]}
  <2>1. CASE Match
    <3>1. id \in Int
      BY <2>1 DEF EmphasisInv, Match, Comparing
    <3>2. tgt' = [tgt EXCEPT ![ii].id = id, ![iii].id = id]
      BY <2>1 DEF Match
    <3>3. ii # iii
      BY <2>1 DEF EmphasisInv, Match, Comparing
    <3>4. DOMAIN tgt' = DOMAIN tgt /\ \A n \in DOMAIN tgt : tgt'[n] \in {tgt[n], [tgt[n] EXCEPT !.id = id]}
      BY <3>2, <3>3
    <3> QED
      BY <3>1, <3>4
  <2>2. CASE Unmatch
    <3>1. tgt' = tgt \/ tgt' = Unmatched(tgt[ii].id)
      BY <2>2 DEF Unmatch
    <3>2. CASE tgt' = Unmatched(tgt[ii].id)
      <4>1. /\ DOMAIN tgt' = DOMAIN tgt
            /\ \A n \in DOMAIN tgt : tgt'[n] \in {tgt[n], [tgt[n] EXCEPT !.id = -1]}
        BY <3>2 DEF Unmatched
      <4>2. -1 \in Int
        OBVIOUS
      <4> QED
        BY <4>1, <4>2
    <3> QED
      BY <3>1, <3>2
  <2> QED
    BY <2>1, <2>2
<1>4. Sized(tgt') /\ Counted(tgt') = Counted(tgt)
  <2>1. CASE tgt' = tgt
    BY <1>1, <2>1
  <2>2. CASE tgt' # tgt
    <3>1. PICK k \in Int :
               /\ DOMAIN tgt' = DOMAIN tgt
               /\ \A n \in DOMAIN tgt : tgt'[n] \in {tgt[n], [tgt[n] EXCEPT !.id = k]}
      BY <1>3, <2>2
    <3>2. \A n \in DOMAIN tgt : IsSized(tgt'[n]) /\ Weight(tgt'[n]) = Weight(tgt[n])
      <4> TAKE n \in DOMAIN tgt
      <4>1. IsToken(tgt[n]) /\ IsSized(tgt[n])
        BY <1>2
      <4>2. IsSized([tgt[n] EXCEPT !.id = k]) /\ Weight([tgt[n] EXCEPT !.id = k]) = Weight(tgt[n])
        BY <4>1, SameWeight
      <4>3. tgt'[n] = tgt[n] \/ tgt'[n] = [tgt[n] EXCEPT !.id = k]
        BY <3>1
      <4> QED
        BY <4>1, <4>2, <4>3
    <3> QED
      BY <1>1, <3>1, <3>2, CountedSame
  <2> QED
    BY <2>1, <2>2
<1> QED
  BY <1>1, <1>4 DEF ConservedInv

\* The invariant of the characters holds of every text.
THEOREM ConservedInvariant == EmphasisSpec => []ConservedInv
<1>1. EmphasisInit => ConservedInv
  BY DEF EmphasisInit, ConservedInv, Phases
<1>2. EmphasisInv /\ EmphasisInv' /\ ConservedInv /\ [EmphasisNext]_emphasisVars => ConservedInv'
  <2> SUFFICES ASSUME EmphasisInv, EmphasisInv', ConservedInv, [EmphasisNext]_emphasisVars
               PROVE  ConservedInv'
    OBVIOUS
  <2>1. CASE Begin
    <3>1. at' = "tokens" /\ src' \in Seq(Pieces) /\ prev' = 1 /\ tgt' = <<>>
      BY <2>1 DEF Begin
    <3>2. Sized(tgt') /\ Counted(tgt') = 0
      BY <3>1, CountedNone
    <3>3. Before(src', 0) = 0 /\ Len(src') \in Nat
      BY <3>1, SizesList
    <3>4. prev' \in 1 .. Len(src') + 1 /\ prev' - 1 = 0
      BY <3>1, <3>3
    <3>5. Counted(tgt') = Before(src', prev' - 1)
      BY <3>2, <3>3, <3>4
    <3> QED
      BY <3>1, <3>2, <3>4, <3>5 DEF ConservedInv
  <2>2. CASE NextMarker
    BY <2>2, NextMarkerConserves
  <2>3. CASE LastMarker
    BY <2>3, LastMarkerConserves
  <2>4. CASE SplitClose \/ SplitOpen
    BY <2>4, SplitsConserve
  <2>5. CASE Match \/ Unmatch
    BY <2>5, IdsConserve
  <2>6. CASE NextClose \/ NextOpen \/ AllCompared
    <3>1. at = "match" /\ at' \in {"match", "unmatch"} /\ src' = src /\ tgt' = tgt
      BY <2>6 DEF NextClose, NextOpen, AllCompared, matchVars
    <3> QED
      BY <3>1 DEF ConservedInv
  <2>7. CASE Finish
    BY <2>7 DEF Finish, ConservedInv
  <2>8. CASE Elsewhere
    BY <2>8 DEF Elsewhere, Phases, ConservedInv
  <2>9. CASE UNCHANGED emphasisVars
    BY <2>9 DEF emphasisVars, ConservedInv
  <2> QED
    BY <2>1, <2>2, <2>3, <2>4, <2>5, <2>6, <2>7, <2>8, <2>9 DEF EmphasisNext, Round
<1> QED
  BY <1>1, <1>2, EmphasisInvariant, PTL DEF EmphasisSpec

\* However markers are split, matched and unmatched, as many emphasis
\* characters are in the tokens as the text has.
THEOREM CharactersKept == EmphasisSpec => []MarkersConserved
<1>1. ConservedInv => MarkersConserved
  BY DEF ConservedInv, MarkersConserved
<1> QED
  BY <1>1, ConservedInvariant, PTL
=============================================================================

---------------------------- MODULE MarkdownProofs ----------------------------
(***************************************************************************)
(* Proofs about MarkdownPosts, for any number of workers, posts, texts and *)
(* files, any width of int, and any contents of an uninitialized one.      *)
(***************************************************************************)
EXTENDS MarkdownPosts, FileSystemProofs

(***************************************************************************)
(* Texts and numbers of posts.                                             *)
(***************************************************************************)

\* max_id + 1 is an int again: it wraps around at the largest one.  Unless
\* it does, it exceeds every post of the listing.
LEMMA NextPostFresh ==
    ASSUME NEW list \in SUBSET Names, NEW g \in Garbage
    PROVE  /\ NextPost(list, g) \in Names
           /\ NextPost(list, g) # MinInt => \A n \in list : NextPost(list, g) > n
<1> DEFINE S == {0, g} \cup list
<1>0. MaxInt \in Nat \ {0} /\ MinInt = -(MaxInt + 1) /\ Names = MinInt .. MaxInt
  BY MarkdownAssumption DEF MinInt
<1>1. S \subseteq MinInt .. MaxInt /\ S # {} /\ list \subseteq S /\ 0 \in S
  BY <1>0, MarkdownAssumption
<1>2. NextPost(list, g) = IF list = {} THEN 1
                          ELSE IF Max(S) = MaxInt THEN MinInt ELSE Max(S) + 1
  BY DEF NextPost
<1> HIDE DEF S
<1>3. MinInt \in Int /\ MaxInt \in Int
  BY <1>0
<1>4. Max(S) \in S /\ \A x \in S : Max(S) >= x
  BY <1>1, <1>3, MaxIsGreatest
<1>5. 0 <= Max(S) /\ Max(S) \in MinInt .. MaxInt
  BY <1>1, <1>4
<1> QED
  BY <1>0, <1>1, <1>2, <1>4, <1>5

\* A part of a text up to its last byte that is no end of line.
LEMMA TextEnd ==
    ASSUME NEW t \in Data
    PROVE  \E m \in 0 .. Len(t) :
              /\ ExtractText(t) = SubSeq(t, 1, m)
              /\ m # 0 => t[m] # NL
              /\ \A n \in m + 1 .. Len(t) : t[n] = NL
<1> DEFINE S == {0} \cup {n \in 1 .. Len(t) : t[n] # NL}
<1>1. Len(t) \in Nat /\ 0 \in Int /\ Len(t) \in Int
  BY DEF Data
<1>2. S \subseteq 0 .. Len(t) /\ S # {}
  BY <1>1
<1>3. Max(S) \in S /\ \A x \in S : Max(S) >= x
  <2> HIDE DEF S
  <2> QED
    BY <1>1, <1>2, MaxIsGreatest
<1>4. \A n \in Max(S) + 1 .. Len(t) : t[n] = NL
  <2> SUFFICES ASSUME NEW n \in Max(S) + 1 .. Len(t), t[n] # NL PROVE FALSE
    OBVIOUS
  <2>1. Max(S) \in 0 .. Len(t)
    BY <1>2, <1>3
  <2>2. n \in S
    BY <1>1, <2>1
  <2> QED
    BY <1>1, <1>3, <2>1, <2>2
<1>5. ExtractText(t) = SubSeq(t, 1, Max(S))
  BY DEF ExtractText
<1> QED
  BY <1>1, <1>2, <1>3, <1>4, <1>5

\* A text has no end of line at its end, as one that has been saved.
Ended(e) == e = <<>> \/ e[Len(e)] # NL

\* Saving takes the ends of line off a text, and nothing else.
LEMMA ExtractTextType ==
    ASSUME NEW t \in Data
    PROVE  ExtractText(t) \in Data /\ Ended(ExtractText(t))
<1>1. PICK m \in 0 .. Len(t) : ExtractText(t) = SubSeq(t, 1, m) /\ (m # 0 => t[m] # NL)
  BY TextEnd
<1>2. Len(t) \in Nat /\ 1 \in 1 .. Len(t) + 1
  BY DEF Data
<1>3. SubSeq(t, 1, m) \in Data
  BY <1>2, PartType
<1>4. \A i \in 1 .. m : t[i] \in Byte
  BY <1>2 DEF Data
<1>5. /\ Len(SubSeq(t, 1, m)) = IF 1 <= m THEN m - 1 + 1 ELSE 0
      /\ \A i \in 1 .. m - 1 + 1 : SubSeq(t, 1, m)[i] = t[1 + i - 1]
  BY <1>2, <1>4, SubSeqProperties
<1>6. m # 0 => Len(SubSeq(t, 1, m)) = m /\ SubSeq(t, 1, m)[m] = t[m]
  BY <1>2, <1>5
<1>7. m = 0 => SubSeq(t, 1, m) = <<>>
  BY <1>3, <1>5, EmptySeq DEF Data
<1> QED
  BY <1>1, <1>3, <1>6, <1>7 DEF Ended

\* What has been saved comes back from the page of an edit: the ends of line
\* that reading and the form add are those that saving takes off.
LEMMA ExtractTextAgain ==
    ASSUME NEW e \in Data, Ended(e)
    PROVE  ExtractText(Append(Lines(e), NL)) = e
<1> DEFINE t == Append(Lines(e), NL)
<1>1. e \in Seq(Byte) /\ NL \in Byte /\ Len(e) \in Nat
  BY FileSystemAssumption DEF Data
<1>2. Lines(e) = IF e = <<>> THEN e ELSE Append(e, NL)
  BY DEF Lines, Ended
<1>3. /\ t \in Seq(Byte) /\ Len(t) = IF e = <<>> THEN 1 ELSE Len(e) + 2
      /\ \A i \in 1 .. Len(e) : t[i] = e[i]
      /\ \A i \in Len(e) + 1 .. Len(t) : t[i] = NL
  BY <1>1, <1>2
<1>4. PICK m \in 0 .. Len(t) : /\ ExtractText(t) = SubSeq(t, 1, m)
                               /\ m # 0 => t[m] # NL
                               /\ \A n \in m + 1 .. Len(t) : t[n] = NL
  BY <1>3, TextEnd DEF Data
<1>5. Len(t) \in Nat /\ Len(e) <= Len(t)
  BY <1>1, <1>3
<1>6. m = Len(e)
  <2>1. e # <<>> => Len(e) \in 1 .. Len(t) /\ t[Len(e)] # NL
    BY <1>1, <1>3, <1>5, EmptySeq DEF Ended
  <2>2. ~ (m < Len(e))
    BY <1>1, <1>4, <1>5, <2>1
  <2>3. ~ (m > Len(e))
    BY <1>1, <1>3, <1>4, <1>5
  <2> QED
    BY <1>1, <1>4, <1>5, <2>2, <2>3
<1> HIDE DEF t
<1>7. \A i \in 1 .. m : t[i] \in Byte
  BY <1>3, <1>4, <1>5
<1>8. /\ SubSeq(t, 1, m) \in Seq(Byte)
      /\ Len(SubSeq(t, 1, m)) = IF 1 <= m THEN m - 1 + 1 ELSE 0
      /\ \A i \in 1 .. m - 1 + 1 : SubSeq(t, 1, m)[i] = t[1 + i - 1]
  BY <1>4, <1>5, <1>7, SubSeqProperties
<1>9. Len(SubSeq(t, 1, m)) = Len(e) /\ \A i \in 1 .. Len(e) : SubSeq(t, 1, m)[i] = e[i]
  BY <1>1, <1>3, <1>5, <1>6, <1>8
<1> QED
  BY <1>1, <1>4, <1>8, <1>9, SeqEqual DEF t

\* A nonempty set of natural numbers has a minimum.
LEMMA MinIsLeast ==
    ASSUME NEW S, S \subseteq Nat, S # {}
    PROVE  Min(S) \in S /\ \A x \in S : Min(S) <= x
<1>1. PICK x \in S : \A y \in S : ~ <<y, x>> \in OpToRel(<, Nat)
  BY NatLessThanWellFounded, WFMin
<1>2. \A y \in S : x <= y
  <2> SUFFICES ASSUME NEW y \in S PROVE x <= y
    OBVIOUS
  <2>1. y \in Nat /\ x \in Nat
    OBVIOUS
  <2>2. ~ (y < x)
    BY <1>1, <2>1 DEF OpToRel
  <2> QED
    BY <2>1, <2>2
<1> QED
  BY <1>2 DEF Min

\* The first byte of a text is an end of line.
StartsNewLine(t) == t # <<>> /\ t[1] = NL

\* What a browser shows of a text: no reference, nothing from an end tag on, no
\* end of line at its start, and if there is none of these all of it.
LEMMA TextareaShows ==
    ASSUME NEW t \in Data
    PROVE  /\ Textarea(t) \in Data
           /\ \A n \in 1 .. Len(Textarea(t)) : Textarea(t)[n] # Reference
           /\ \A n \in 1 .. Len(t) : t[n] = EndTag => Len(Textarea(t)) < n
           /\ (\A n \in 1 .. Len(t) : t[n] \notin {EndTag, Reference}) =>
                Textarea(t) = IF StartsNewLine(t) THEN Tail(t) ELSE t
<1> DEFINE text == IF StartsNewLine(t) THEN Tail(t) ELSE t
           off == IF StartsNewLine(t) THEN 1 ELSE 0
           ends == {n \in DOMAIN text : text[n] = EndTag}
           last == IF ends = {} THEN Len(text) ELSE Min(ends) - 1
           shown == IF ends = {} THEN text ELSE SubSeq(text, 1, Min(ends) - 1)
<1>1. t \in Seq(Byte) /\ Len(t) \in Nat /\ NL # EndTag
      /\ Referred \in Byte /\ Referred # Reference
  BY MarkdownAssumption DEF Data
<1>2. /\ text \in Seq(Byte) /\ Len(text) = Len(t) - off /\ Len(text) \in Nat
      /\ \A n \in 1 .. Len(text) : text[n] = t[n + off]
  <2>1. CASE StartsNewLine(t)
    BY <1>1, <2>1, EmptySeq, HeadTailProperties DEF StartsNewLine
  <2>2. CASE ~ StartsNewLine(t)
    BY <1>1, <2>2
  <2> QED
    BY <2>1, <2>2
<1> HIDE DEF text
<1>3. ends \subseteq Nat /\ ends \subseteq 1 .. Len(text)
  BY <1>2
<1> HIDE DEF ends
<1>4. ends # {} => Min(ends) \in ends /\ \A x \in ends : Min(ends) <= x
  BY <1>3, MinIsLeast
<1>5. last \in 0 .. Len(text) /\ \A n \in ends : last < n
  <2>1. CASE ends = {}
    BY <1>2, <2>1
  <2>2. CASE ends # {}
    <3> DEFINE first == Min(ends)
    <3>1. last = first - 1 /\ first \in 1 .. Len(text) /\ \A n \in ends : first <= n
      BY <1>3, <1>4, <2>2
    <3> HIDE DEF first, last
    <3> QED
      BY <1>2, <1>3, <3>1
  <2> QED
    BY <2>1, <2>2
<1>6. shown \in Seq(Byte) /\ Len(shown) = last /\ \A n \in 1 .. last : shown[n] = text[n]
  <2>1. CASE ends = {}
    BY <1>2, <2>1
  <2>2. CASE ends # {}
    <3>1. last = Min(ends) - 1 /\ shown = SubSeq(text, 1, last)
      BY <2>2
    <3> HIDE DEF last, shown
    <3>2. \A i \in 1 .. last : text[i] \in Byte
      BY <1>2, <1>5
    <3>3. /\ SubSeq(text, 1, last) \in Seq(Byte)
          /\ Len(SubSeq(text, 1, last)) = IF 1 <= last THEN last - 1 + 1 ELSE 0
          /\ \A i \in 1 .. last - 1 + 1 : SubSeq(text, 1, last)[i] = text[1 + i - 1]
      BY <1>2, <1>5, <3>2, SubSeqProperties
    <3> QED
      BY <1>2, <1>5, <3>1, <3>3
  <2> QED
    BY <2>1, <2>2
<1>7. Textarea(t) = [n \in DOMAIN shown |->
                       IF shown[n] = Reference THEN Referred ELSE shown[n]]
  BY DEF Textarea, text, ends, shown, StartsNewLine
<1> HIDE DEF shown, last
<1>8. /\ Textarea(t) \in Seq(Byte) /\ Len(Textarea(t)) = last
      /\ \A n \in 1 .. last :
           Textarea(t)[n] = IF shown[n] = Reference THEN Referred ELSE shown[n]
  <2>1. DOMAIN shown = 1 .. last /\ last \in Nat
    BY <1>2, <1>5, <1>6
  <2>2. \A n \in 1 .. last : shown[n] \in Byte
    BY <1>6
  <2>3. Textarea(t) \in [1 .. last -> Byte]
    BY <1>1, <1>7, <2>1, <2>2
  <2> QED
    BY <1>7, <2>1, <2>3
<1>9. \A n \in 1 .. Len(t) : t[n] = EndTag => n - off \in ends /\ last < n
  <2> SUFFICES ASSUME NEW n \in 1 .. Len(t), t[n] = EndTag
               PROVE  n - off \in ends /\ last < n
    OBVIOUS
  <2>1. n - off \in 1 .. Len(text) /\ text[n - off] = EndTag
    BY <1>1, <1>2 DEF StartsNewLine
  <2>2. n - off \in ends
    BY <1>2, <2>1 DEF ends
  <2> QED
    BY <1>1, <1>2, <1>5, <2>2
<1>10. ASSUME \A n \in 1 .. Len(t) : t[n] \notin {EndTag, Reference}
       PROVE  Textarea(t) = text
  <2>1. \A n \in 1 .. Len(text) : text[n] \notin {EndTag, Reference}
    BY <1>1, <1>2, <1>10
  <2>2. ends = {}
    BY <1>2, <2>1 DEF ends
  <2>3. last = Len(text)
    BY <2>2 DEF last
  <2>4. \A n \in 1 .. Len(text) : Textarea(t)[n] = text[n]
    BY <1>6, <1>8, <2>1, <2>3
  <2> QED
    BY <1>2, <1>8, <2>3, <2>4, SeqEqual
<1>11. text = IF StartsNewLine(t) THEN Tail(t) ELSE t
  BY DEF text
<1> QED
  BY <1>1, <1>5, <1>8, <1>9, <1>10, <1>11 DEF Data

\* The number of the post goes into the form's own hole unless the text has one.
LEMMA FormFilled ==
    ASSUME NEW t \in Data
    PROVE  EditForm(Lines(t)).filled = 0 <=> \A n \in DOMAIN t : t[n] # PostIdHole
<1> DEFINE holes == {n \in DOMAIN Lines(t) : Lines(t)[n] = PostIdHole}
<1>1. t \in Seq(Byte) /\ Len(t) \in Nat /\ NL \in Byte /\ NL # PostIdHole
  BY FileSystemAssumption, MarkdownAssumption DEF Data
<1>2. holes = {n \in DOMAIN t : t[n] = PostIdHole}
  <2>1. CASE Lines(t) = t
    BY <2>1
  <2>2. CASE Lines(t) = Append(t, NL)
    BY <1>1, <2>2
  <2> QED
    BY <2>1, <2>2 DEF Lines
<1>3. holes \subseteq Nat /\ 0 \notin holes
  BY <1>1, <1>2
<1>4. EditForm(Lines(t)).filled = IF holes = {} THEN 0 ELSE Min(holes)
  BY DEF EditForm
<1> HIDE DEF holes
<1>5. holes = {} <=> EditForm(Lines(t)).filled = 0
  BY <1>3, <1>4, MinIsLeast
<1> QED
  BY <1>2, <1>5

\* A saved text survives the textarea exactly if it has nothing in it that a
\* browser changes.
LEMMA FormSame ==
    ASSUME NEW t \in Data, Ended(t)
    PROVE  ExtractText(Append(Textarea(Lines(t)), NL)) = t <=>
             /\ \A n \in DOMAIN t : t[n] \notin {EndTag, Reference}
             /\ t # <<>> => t[1] # NL
<1> DEFINE f == Lines(t)
           b == Textarea(f)
           u == Append(b, NL)
<1>1. t \in Seq(Byte) /\ Len(t) \in Nat /\ NL \in Byte /\ DOMAIN t = 1 .. Len(t)
      /\ NL # EndTag /\ NL # Reference
  BY FileSystemAssumption, MarkdownAssumption DEF Data
<1>2. f = IF t = <<>> THEN t ELSE Append(t, NL)
  BY DEF Lines, Ended
<1>3. f \in Data /\ (t # <<>> => Len(t) >= 1 /\ Len(f) = Len(t) + 1 /\ f[Len(t) + 1] = NL)
      /\ \A n \in 1 .. Len(t) : n \in 1 .. Len(f) /\ f[n] = t[n]
  BY <1>1, <1>2, EmptySeq DEF Data
<1>4. StartsNewLine(f) <=> t # <<>> /\ t[1] = NL
  BY <1>1, <1>2, <1>3 DEF StartsNewLine
<1> HIDE DEF f
<1>5. /\ b \in Data
      /\ \A n \in 1 .. Len(b) : b[n] # Reference
      /\ \A n \in 1 .. Len(f) : f[n] = EndTag => Len(b) < n
      /\ (\A n \in 1 .. Len(f) : f[n] \notin {EndTag, Reference}) =>
           b = IF StartsNewLine(f) THEN Tail(f) ELSE f
  BY <1>3, TextareaShows
<1> HIDE DEF b
<1>6. /\ u \in Data /\ Len(b) \in Nat /\ Len(u) = Len(b) + 1 /\ u[Len(b) + 1] = NL
      /\ \A n \in 1 .. Len(b) : u[n] = b[n]
  BY <1>1, <1>5 DEF Data
<1> HIDE DEF u
<1>7. PICK m \in 0 .. Len(u) : ExtractText(u) = SubSeq(u, 1, m) /\ (m # 0 => u[m] # NL)
  BY <1>6, TextEnd
<1>8. m \in 0 .. Len(b)
  BY <1>6, <1>7
<1>9. Len(SubSeq(u, 1, m)) = m /\ \A n \in 1 .. m : SubSeq(u, 1, m)[n] = u[n]
  <2>1. \A i \in 1 .. m : u[i] \in Byte
    BY <1>6, <1>8 DEF Data
  <2>2. /\ Len(SubSeq(u, 1, m)) = IF 1 <= m THEN m - 1 + 1 ELSE 0
        /\ \A i \in 1 .. m - 1 + 1 : SubSeq(u, 1, m)[i] = u[1 + i - 1]
    BY <1>6, <1>8, <2>1, SubSeqProperties
  <2> QED
    BY <1>6, <1>8, <2>2
<1>10. ASSUME NEW k \in 1 .. Len(t), t[k] = EndTag
       PROVE  ExtractText(u) # t
  <2>1. Len(b) < k
    BY <1>3, <1>5, <1>10
  <2> QED
    BY <1>1, <1>6, <1>7, <1>8, <1>9, <2>1
<1>11. ASSUME NEW k \in 1 .. Len(t), t[k] = Reference
       PROVE  ExtractText(u) # t
  <2>1. \A n \in 1 .. m : u[n] # Reference
    BY <1>5, <1>6, <1>8
  <2> QED
    BY <1>1, <1>7, <1>8, <1>9, <1>11, <2>1
<1>12. ASSUME \A n \in 1 .. Len(t) : t[n] \notin {EndTag, Reference}
       PROVE  b = IF StartsNewLine(f) THEN Tail(f) ELSE f
  <2>1. \A n \in 1 .. Len(f) : f[n] \notin {EndTag, Reference}
    <3>1. CASE t = <<>>
      BY <1>2, <3>1 DEF f
    <3>2. CASE t # <<>>
      <4>1. \A n \in 1 .. Len(f) : n \in 1 .. Len(t) \/ n = Len(t) + 1
        BY <1>1, <1>3, <3>2
      <4> QED
        BY <1>1, <1>3, <1>12, <3>2, <4>1
    <3> QED
      BY <3>1, <3>2
  <2> QED
    BY <1>5, <2>1
<1>13. ASSUME \A n \in 1 .. Len(t) : t[n] \notin {EndTag, Reference},
              t # <<>>, t[1] = NL
       PROVE  ExtractText(u) # t
  <2>1. b = Tail(f)
    BY <1>4, <1>12, <1>13
  <2>2. Len(b) = Len(t) /\ b[Len(t)] = NL
    <3>1. f \in Seq(Byte) /\ f # <<>> /\ Len(f) = Len(t) + 1
      BY <1>3, <1>13, EmptySeq DEF Data
    <3>2. Len(Tail(f)) = Len(f) - 1 /\ \A i \in 1 .. Len(f) - 1 : Tail(f)[i] = f[i + 1]
      BY <3>1, HeadTailProperties
    <3> QED
      BY <1>1, <1>3, <1>13, <2>1, <3>1, <3>2
  <2>3. m # Len(t)
    BY <1>3, <1>6, <1>7, <1>8, <1>13, <2>2
  <2> QED
    BY <1>7, <1>9, <2>3
<1>14. ASSUME \A n \in 1 .. Len(t) : t[n] \notin {EndTag, Reference},
              t # <<>> => t[1] # NL
       PROVE  ExtractText(u) = t
  <2>1. b = f
    BY <1>4, <1>12, <1>14
  <2> QED
    BY <2>1, ExtractTextAgain DEF u, f
<1>15. u = Append(Textarea(Lines(t)), NL)
  BY DEF u, b, f
<1> QED
  BY <1>1, <1>10, <1>11, <1>13, <1>14, <1>15

(***************************************************************************)
(* Type correctness.                                                       *)
(***************************************************************************)

\* A request as serve reads it.
LEMMA RequestType ==
    ASSUME NEW r \in Requests
    PROVE  /\ r # NoRequest /\ r.text \in Data
           /\ r.action \in {"list", "create", "other", "short", "convert", "edit",
                            "delete", "view", "save"}
           /\ r.action \in {"edit", "delete"} => r.post \in Names
           /\ r.action \in {"view", "save"} /\ r.post # NoName => r.post \in Names
           /\ r.action \in {"list", "create", "other", "short", "convert"} => r.post = NoName
           /\ r.action = "save" => r.text \in Texts \cup {<<>>}
<1>1. <<>> \in Data
  BY DEF Data
<1>2. r.text \in Data
  BY <1>1, MarkdownAssumption DEF Requests
<1>3. /\ r.action \in {"list", "create", "other", "short", "convert", "edit",
                       "delete", "view", "save"}
      /\ r.action \in {"edit", "delete"} => r.post \in Posts
      /\ r.action \in {"view", "save"} => r.post \in Posts \cup {NoName}
      /\ r.action \in {"list", "create", "other", "short", "convert"} => r.post = NoName
      /\ r.action = "save" => r.text \in Texts \cup {<<>>}
  BY DEF Requests
<1>4. r # NoRequest
  BY <1>3 DEF NoRequest
<1> QED
  BY <1>2, <1>3, <1>4, MarkdownAssumption

\* The fields that matter of the calls as they are made.
LEMMA CallFields ==
    ASSUME NEW n, NEW d
    PROVE  /\ readFile(n).fn = "readFile" /\ readFile(n).name = n
           /\ readFile(n).at = "open"
           /\ writeFile(n, d).fn = "writeFile" /\ writeFile(n, d).name = n
           /\ writeFile(n, d).at = "mkdir" /\ writeFile(n, d).data = d
           /\ deleteFile(n).fn = "deleteFile" /\ deleteFile(n).name = n
           /\ deleteFile(n).at = "open"
           /\ listFiles.fn = "listFiles" /\ listFiles.at = "open"
           /\ listFiles.list = {} /\ listFiles.name = NoName
           /\ NoCall.fn = "none" /\ NoCall.at = "idle" /\ ~NoCall.ok
BY DEF readFile, writeFile, deleteFile, listFiles, NoCall

\* An idle worker makes no call.
LEMMA NoCallType ==
    NoCall \in Calls /\ WellFormed(NoCall) /\ Serves(NoCall, NoRequest)
<1>1. <<>> \in Data
  BY DEF Data
<1>2. PICK n \in Names : TRUE
  BY MarkdownAssumption
<1>3. NoCall \in Calls /\ WellFormed(NoCall)
  BY <1>1, CallTypes
<1>4. Serves(NoCall, NoRequest)
  BY CallFields DEF Serves, NoRequest
<1> QED
  BY <1>3, <1>4

\* A request's first call is well formed and serves it.
LEMMA FirstCallType ==
    ASSUME NEW r \in Requests
    PROVE  /\ FirstCall(r) \in Calls
           /\ WellFormed(FirstCall(r))
           /\ Serves(FirstCall(r), r)
<1>1. /\ r.text \in Data
      /\ r.action \in {"list", "create", "other", "short", "convert", "edit",
                       "delete", "view", "save"}
      /\ r.action \in {"edit", "delete"} => r.post \in Names
      /\ r.action \in {"view", "save"} /\ r.post # NoName => r.post \in Names
      /\ r.action \in {"list", "create", "other", "short", "convert"} => r.post = NoName
  BY RequestType
<1>2. \A n \in Names : n # NoName
  BY FileSystemAssumption
<1>3. PICK n0 \in Names : TRUE
  BY MarkdownAssumption
<1>4. ExtractText(r.text) \in Data
  BY <1>1, ExtractTextType
<1>5. CASE r.action \in {"list", "create"}
  <2>1. FirstCall(r) = listFiles
    BY <1>5 DEF FirstCall
  <2>2. listFiles \in Calls /\ WellFormed(listFiles)
    BY <1>1, <1>3, CallTypes
  <2> QED
    BY <1>1, <1>5, <2>1, <2>2, CallFields DEF Serves
<1>6. CASE r.action \in {"view", "edit"} /\ r.post # NoName
  <2>1. FirstCall(r) = readFile(r.post)
    BY <1>6 DEF FirstCall
  <2>2. readFile(r.post) \in Calls /\ WellFormed(readFile(r.post))
    BY <1>1, <1>6, CallTypes
  <2> QED
    BY <1>1, <1>6, <2>1, <2>2, CallFields DEF Serves
<1>7. CASE r.action = "save" /\ r.post # NoName
  <2> DEFINE c == writeFile(r.post, ExtractText(r.text))
  <2>1. FirstCall(r) = c
    BY <1>7 DEF FirstCall
  <2>2. c \in Calls /\ WellFormed(c)
    BY <1>1, <1>4, <1>7, CallTypes
  <2>3. c.fn = "writeFile" /\ c.name = r.post /\ c.data = ExtractText(r.text)
    BY CallFields
  <2> HIDE DEF c
  <2> QED
    BY <1>1, <1>7, <2>1, <2>2, <2>3 DEF Serves
<1>8. CASE r.action = "delete"
  <2>1. FirstCall(r) = deleteFile(r.post)
    BY <1>8 DEF FirstCall
  <2>2. deleteFile(r.post) \in Calls /\ WellFormed(deleteFile(r.post))
    BY <1>1, <1>8, CallTypes
  <2> QED
    BY <1>1, <1>8, <2>1, <2>2, CallFields DEF Serves
<1>9. CASE \/ r.action \in {"other", "short", "convert"}
           \/ r.action \in {"view", "save"} /\ r.post = NoName
  <2>1. FirstCall(r) = NoCall
    BY <1>9 DEF FirstCall
  <2>2. Serves(NoCall, r)
    BY <1>1, <1>9, CallFields DEF Serves
  <2> QED
    BY <2>1, <2>2, NoCallType
<1> QED
  BY <1>1, <1>2, <1>5, <1>6, <1>7, <1>8, <1>9

\* The three ways on from a call that was not the last one.
LEMMA NextCallCases ==
    ASSUME MarkdownTypeOK, NEW w \in Workers, NextCall(w)
    PROVE  \/ /\ req[w].action = "create" /\ call[w].fn = "listFiles"
              /\ \E id \in Names :
                   /\ \E g \in Garbage : id = NextPost(call[w].list, g)
                   /\ call' = [call EXCEPT ![w] = writeFile(id, <<>>)]
           \/ /\ req[w].action \in {"create", "save"}
              /\ call[w].fn = "writeFile" /\ call[w].ok
              /\ call[w].name \in Names
              /\ call' = [call EXCEPT ![w] = readFile(call[w].name)]
           \/ /\ req[w].action = "delete" /\ call[w].fn = "deleteFile"
              /\ call' = [call EXCEPT ![w] = listFiles]
<1>1. /\ call[w] \in Calls /\ WellFormed(call[w]) /\ Serves(call[w], req[w])
      /\ req[w] \in Requests \cup {NoRequest}
  BY DEF MarkdownTypeOK, FsTypeOK
<1>2. req[w] \in Requests
  <2>1. CASE req[w] = NoRequest
    <3>1. call[w].fn = "none"
      BY <1>1, <2>1 DEF Serves, NoRequest
    <3> QED
      BY <3>1 DEF NextCall
  <2> QED
    BY <1>1, <2>1
<1>3. req[w].action \in {"list", "create", "other", "short", "convert", "edit",
                         "delete", "view", "save"}
  BY <1>2, RequestType
<1>4. call[w].ok \in BOOLEAN /\ call[w].list \in SUBSET Names
  BY <1>1 DEF Calls
<1>5. CASE call[w].fn = "listFiles"
  <2>1. PICK g \in Garbage :
           call' = [call EXCEPT ![w] = writeFile(NextPost(call[w].list, g), <<>>)]
    BY <1>5 DEF NextCall
  <2>2. NextPost(call[w].list, g) \in Names
    BY <1>4, NextPostFresh
  <2>3. req[w].action = "create"
    BY <1>1, <1>3, <1>5 DEF NextCall, Final, Serves
  <2> QED
    BY <1>5, <2>1, <2>2, <2>3
<1>6. CASE call[w].fn = "writeFile"
  <2>1. req[w].action \in {"create", "save"} /\ call[w].ok
    BY <1>1, <1>3, <1>4, <1>6 DEF NextCall, Final, Serves
  <2>2. call[w].name \in Names
    BY <1>1, <1>6 DEF WellFormed, Calls
  <2> QED
    BY <1>6, <2>1, <2>2 DEF NextCall
<1>7. CASE call[w].fn = "deleteFile"
  <2>1. req[w].action = "delete"
    BY <1>1, <1>3, <1>7 DEF Serves
  <2> QED
    BY <1>7, <2>1 DEF NextCall
<1> QED
  BY <1>5, <1>6, <1>7 DEF NextCall

\* Every step of the handler keeps the types.
LEMMA MarkdownTypeStep ==
    ASSUME MarkdownTypeOK, [MarkdownNext]_markdownVars
    PROVE  MarkdownTypeOK'
<1>a. FsTypeOK /\ call \in [Workers -> Calls]
      /\ req \in [Workers -> Requests \cup {NoRequest}]
      /\ \A v \in Workers : WellFormed(call[v]) /\ Serves(call[v], req[v])
  BY DEF MarkdownTypeOK, FsTypeOK
<1>b. NoCall \in Calls /\ WellFormed(NoCall) /\ Serves(NoCall, NoRequest)
  BY NoCallType
<1>1. ASSUME NEW w \in Workers, Receive(w)
      PROVE  MarkdownTypeOK'
  <2>1. PICK r \in Requests : /\ req' = [req EXCEPT ![w] = r]
                              /\ call' = [call EXCEPT ![w] = FirstCall(r)]
    BY <1>1 DEF Receive
  <2>2. FsTypeOK'
    BY <1>1, <1>a, <2>1, FirstCallType, CallUpdate DEF Receive, FsTypeOK
  <2>3. \A v \in Workers : Serves(call'[v], req'[v])
    BY <1>a, <2>1, FirstCallType
  <2> QED
    BY <1>a, <2>1, <2>2, <2>3 DEF MarkdownTypeOK
<1>2. ASSUME NEW w \in Workers, CallStep(w)
      PROVE  MarkdownTypeOK'
  <2>1. FsStep(w) /\ req' = req
    BY <1>2 DEF CallStep
  <2>2. FsTypeOK'
    BY <1>a, <2>1, FsStepType
  <2>3. \A v \in Workers : Serves(call'[v], req'[v])
    <3>1. \A v \in Workers \ {w} : call'[v] = call[v]
      BY <1>a, <2>1, FsStepFrame
    <3>2. /\ call[w].at # "idle" /\ call'[w].fn = call[w].fn
          /\ call'[w].name = call[w].name /\ call'[w].data = call[w].data
      BY <1>a, <2>1, FsStepFrame
    <3>3. call[w].fn # "none"
      BY <1>a, <3>2 DEF WellFormed
    <3>4. Serves(call'[w], req[w])
      BY <1>a, <3>2, <3>3 DEF Serves
    <3> QED
      BY <1>a, <2>1, <3>1, <3>4
  <2> QED
    BY <1>a, <2>1, <2>2, <2>3 DEF MarkdownTypeOK
<1>3. ASSUME NEW w \in Workers, NextCall(w)
      PROVE  MarkdownTypeOK'
  <2>1. req' = req /\ UNCHANGED <<dirExists, dir, disk>>
    BY <1>3 DEF NextCall
  <2>2. /\ req[w].action = "create" => req[w].post = NoName
        /\ req[w].action = "save" /\ call[w].fn = "writeFile" => req[w].post = call[w].name
    <3>1. req[w] \in Requests \/ req[w].action = "none"
      BY <1>a DEF NoRequest
    <3>2. req[w].action = "create" => req[w].post = NoName
      BY <3>1, RequestType
    <3> QED
      BY <1>a, <3>2 DEF Serves
  <2>3. PICK c \in Calls : /\ WellFormed(c) /\ Serves(c, req[w])
                           /\ call' = [call EXCEPT ![w] = c]
    <3>1. <<>> \in Data
      BY DEF Data
    <3>2. CASE /\ req[w].action = "create" /\ call[w].fn = "listFiles"
               /\ \E id \in Names : call' = [call EXCEPT ![w] = writeFile(id, <<>>)]
      <4>1. PICK id \in Names : call' = [call EXCEPT ![w] = writeFile(id, <<>>)]
        BY <3>2
      <4>2. writeFile(id, <<>>) \in Calls /\ WellFormed(writeFile(id, <<>>))
        BY <3>1, CallTypes
      <4>3. Serves(writeFile(id, <<>>), req[w])
        BY <2>2, <3>2, CallFields DEF Serves
      <4> QED
        BY <4>1, <4>2, <4>3
    <3>3. CASE /\ req[w].action \in {"create", "save"}
               /\ call[w].fn = "writeFile" /\ call[w].name \in Names
               /\ call' = [call EXCEPT ![w] = readFile(call[w].name)]
      <4> DEFINE c == readFile(call[w].name)
      <4>1. c \in Calls /\ WellFormed(c)
        BY <3>1, <3>3, CallTypes
      <4>2. call[w].name # NoName
        BY <3>3, FileSystemAssumption
      <4>3. Serves(c, req[w])
        BY <1>a, <2>2, <3>3, <4>2, CallFields DEF Serves
      <4> QED
        BY <3>3, <4>1, <4>3
    <3>4. CASE /\ req[w].action = "delete" /\ call[w].fn = "deleteFile"
               /\ call' = [call EXCEPT ![w] = listFiles]
      <4>1. PICK n \in Names : TRUE
        BY MarkdownAssumption
      <4>2. listFiles \in Calls /\ WellFormed(listFiles)
        BY <3>1, <4>1, CallTypes
      <4>3. Serves(listFiles, req[w])
        BY <3>4, CallFields DEF Serves
      <4> QED
        BY <3>4, <4>2, <4>3
    <3> QED
      BY <1>3, <3>2, <3>3, <3>4, NextCallCases
  <2>4. FsTypeOK'
    BY <1>a, <2>1, <2>3, CallUpdate DEF FsTypeOK
  <2> QED
    BY <1>a, <2>1, <2>3, <2>4 DEF MarkdownTypeOK
<1>4. ASSUME NEW w \in Workers, Reply(w)
      PROVE  MarkdownTypeOK'
  <2>1. FsTypeOK'
    BY <1>4, <1>a, <1>b, CallUpdate DEF Reply, FsTypeOK
  <2> QED
    BY <1>4, <1>a, <1>b, <2>1 DEF Reply, MarkdownTypeOK
<1>5. ASSUME NEW w \in Workers, Abandon(w)
      PROVE  MarkdownTypeOK'
  <2>1. FsTypeOK'
    BY <1>5, <1>a, <1>b, CallUpdate DEF Abandon, FsTypeOK
  <2> QED
    BY <1>5, <1>a, <1>b, <2>1 DEF Abandon, MarkdownTypeOK
<1>6. CASE Exit
  BY <1>6, <1>a, <1>b DEF Exit, MarkdownTypeOK, FsTypeOK
<1>7. CASE UNCHANGED markdownVars
  BY <1>7, <1>a DEF markdownVars, fsVars, MarkdownTypeOK, FsTypeOK
<1> QED
  BY <1>1, <1>2, <1>3, <1>4, <1>5, <1>6, <1>7 DEF MarkdownNext, MarkdownStep

\* A worker's call against its request: which post it is about, and that the
\* data of a write are what the request leaves in its post.
LEMMA Requested ==
    ASSUME MarkdownTypeOK, NEW w \in Workers
    PROVE  /\ req[w].action \in {"none", "list", "create", "other", "short", "convert",
                                 "edit", "delete", "view", "save"}
           /\ req[w].action = "none" <=> req[w] = NoRequest
           /\ call[w].fn = "none" => call[w] = NoCall
           /\ call[w].fn = "writeFile" =>
                /\ req[w].action \in {"save", "create"} /\ call[w].data = Left(w)
                /\ call[w].name \in Names /\ Owns(w, call[w].name)
           /\ call[w].fn = "deleteFile" =>
                req[w].action = "delete" /\ call[w].name = req[w].post
           /\ req[w].action = "delete" =>
                /\ req[w].post \in Names /\ Owns(w, req[w].post)
                /\ call[w].fn \in {"deleteFile", "listFiles"}
           /\ req[w].action = "edit" => call[w].fn = "readFile" /\ call[w].name = req[w].post
           /\ call[w].fn = "readFile" => call[w].name \in Names
           /\ call[w].fn = "readFile" /\ req[w].action \in {"save", "create", "edit"}
                => Owns(w, call[w].name)
           /\ \A n \in Names : Owns(w, n) /\ call[w].fn # "listFiles" => call[w].name = n
<1>1. /\ call[w] \in Calls /\ WellFormed(call[w]) /\ Serves(call[w], req[w])
      /\ req[w] \in Requests \cup {NoRequest}
  BY DEF MarkdownTypeOK, FsTypeOK
<1>2. call[w].fn \in {"writeFile", "deleteFile", "readFile"} => call[w].name \in Names
  BY <1>1 DEF WellFormed, Calls
<1>3. /\ req[w] = NoRequest \/ req[w] \in Requests
      /\ NoRequest.action = "none" /\ NoRequest.post = NoName
  BY <1>1 DEF NoRequest
<1>4. /\ req[w].action \in {"none", "list", "create", "other", "short", "convert",
                            "edit", "delete", "view", "save"}
      /\ req[w].action = "none" <=> req[w] = NoRequest
      /\ req[w].action \in {"edit", "delete"} => req[w].post \in Names
      /\ req[w].action \in {"list", "create", "other", "short", "convert"} => req[w].post = NoName
  BY <1>3, RequestType
<1>5. \A n \in Names : n # NoName
  BY FileSystemAssumption
<1>6. /\ call[w].fn \in CASE req[w].action = "list" -> {"listFiles"}
              [] req[w].action = "create" -> {"listFiles", "writeFile", "readFile"}
              [] req[w].action = "delete" -> {"deleteFile", "listFiles"}
              [] req[w].action = "save" /\ req[w].post # NoName -> {"writeFile", "readFile"}
              [] req[w].action \in {"view", "edit"} /\ req[w].post # NoName -> {"readFile"}
              [] OTHER -> {"none"}
      /\ call[w].fn = "none" => call[w] = NoCall
      /\ req[w].post # NoName /\ call[w].fn # "listFiles" => call[w].name = req[w].post
      /\ call[w].fn = "writeFile" =>
           call[w].data = IF req[w].action = "create" THEN <<>> ELSE ExtractText(req[w].text)
  BY <1>1 DEF Serves
<1> QED
  BY <1>2, <1>4, <1>5, <1>6 DEF Owns, Left

\* What users see changes with the handler's own steps.
LEMMA PostsTypeStep ==
    ASSUME PostsTypeOK, [PostsNext]_vars
    PROVE  PostsTypeOK'
<1> DEFINE SavedTexts == {ExtractText(t) : t \in Texts \cup {<<>>}}
           GhostsOK == /\ saved \in [Names -> SUBSET SavedTexts]
                       /\ rivals \in [Workers -> SUBSET {"writeFile", "deleteFile"}]
                       /\ seen \in [Workers -> SUBSET Names]
                       /\ failed \in [Workers -> BOOLEAN]
<1>a. MarkdownTypeOK /\ GhostsOK
  BY DEF PostsTypeOK
<1>b. [MarkdownNext]_markdownVars
  BY DEF PostsNext, PostsReceive, PostsNextCall, PostsReply, PostsAbandon,
         PostsExit, MarkdownNext, MarkdownStep, vars
<1>c. MarkdownTypeOK'
  BY <1>a, <1>b, MarkdownTypeStep
<1>d. \A w \in Workers : \A n \in Names : RivalsOf(w, n) \subseteq {"writeFile", "deleteFile"}
  BY DEF RivalsOf, Touches
<1>e. ASSUME NEW w \in Workers, NEW n \in Names,
             NEW fn \in {"writeFile", "deleteFile"}, Touch(w, n, fn)
      PROVE  /\ saved' \in [Names -> SUBSET SavedTexts]
             /\ rivals' \in [Workers -> SUBSET {"writeFile", "deleteFile"}]
             /\ seen' \in [Workers -> SUBSET Names]
  <2> HIDE DEF SavedTexts
  <2>1. \A v \in Workers : rivals'[v] \subseteq {"writeFile", "deleteFile"}
    BY <1>a, <1>d, <1>e DEF Touch
  <2> QED
    BY <1>a, <1>e, <2>1 DEF Touch
<1>1. ASSUME NEW w \in Workers, PostsReceive(w)
      PROVE  GhostsOK'
  <2> DEFINE r == req'[w]
  <2>1. r \in Requests
    BY <1>1, <1>a DEF PostsReceive, Receive, MarkdownTypeOK
  <2>2. /\ r.action \in {"edit", "delete"} => r.post \in Names
        /\ r.action = "save" /\ r.post # NoName => r.post \in Names
    BY <2>1, RequestType
  <2>3. failed' = failed
    BY <1>1 DEF PostsReceive
  <2> HIDE DEF SavedTexts
  <2>4. CASE r.action = "save" /\ r.post # NoName
    BY <1>1, <1>a, <1>e, <2>2, <2>3, <2>4 DEF PostsReceive
  <2>5. CASE r.action = "delete"
    BY <1>1, <1>a, <1>e, <2>2, <2>3, <2>5 DEF PostsReceive
  <2>6. CASE r.action = "edit"
    BY <1>1, <1>a, <1>d, <2>2, <2>3, <2>6 DEF PostsReceive
  <2>7. CASE r.action = "create"
    BY <1>1, <1>a, <2>3, <2>7 DEF PostsReceive
  <2>8. CASE /\ r.action \notin {"delete", "edit", "create"}
             /\ ~ (r.action = "save" /\ r.post # NoName)
    BY <1>1, <1>a, <2>3, <2>8 DEF PostsReceive
  <2> QED
    BY <2>4, <2>5, <2>6, <2>7, <2>8
<1>2. ASSUME NEW w \in Workers, PostsNextCall(w)
      PROVE  GhostsOK'
  <2>1. failed' \in [Workers -> BOOLEAN]
    BY <1>2, <1>a DEF PostsNextCall
  <2>2. CASE call[w].fn = "listFiles"
    <3>1. PICK id \in Names : call' = [call EXCEPT ![w] = writeFile(id, <<>>)]
      BY <1>2, <1>a, <2>2, NextCallCases DEF PostsNextCall
    <3>2. call'[w].name = id
      BY <1>a, <3>1, CallFields DEF MarkdownTypeOK, FsTypeOK
    <3> QED
      BY <1>2, <1>e, <2>1, <2>2, <3>2 DEF PostsNextCall
  <2>3. CASE call[w].fn # "listFiles"
    BY <1>2, <1>a, <2>1, <2>3 DEF PostsNextCall
  <2> QED
    BY <2>2, <2>3
<1>3. ASSUME NEW w \in Workers, PostsReply(w)
      PROVE  GhostsOK'
  <2>1. call[w].fn = "readFile" => call[w].name \in Names
    BY <1>a, Requested
  <2>2. req[w].action = "save" => req[w].text \in Texts \cup {<<>>}
    <3>1. req[w] \in Requests \/ req[w].action = "none"
      BY <1>a DEF MarkdownTypeOK, NoRequest
    <3> QED
      BY <3>1, RequestType
  <2>3. Left(w) \in SavedTexts
    <3>1. <<>> \in Data /\ Len(<<>>) = 0
      BY DEF Data
    <3>2. PICK m \in 0 .. Len(<<>>) : ExtractText(<<>>) = SubSeq(<<>>, 1, m)
      BY <3>1, TextEnd
    <3>3. ExtractText(<<>>) = <<>>
      BY <3>1, <3>2, SubSeqEmpty
    <3> QED
      BY <2>2, <3>3 DEF Left
  <2> HIDE DEF SavedTexts
  <2> QED
    BY <1>3, <1>a, <2>1, <2>3 DEF PostsReply
<1>4. ASSUME UNCHANGED ghosts PROVE GhostsOK'
  BY <1>4, <1>a DEF ghosts
<1>5. ASSUME PostsExit PROVE GhostsOK'
  BY <1>5, <1>a DEF PostsExit
<1>6. ASSUME NEW w \in Workers, PostsAbandon(w) PROVE GhostsOK'
  BY <1>6, <1>a DEF PostsAbandon
<1>7. GhostsOK'
  BY <1>1, <1>2, <1>3, <1>4, <1>5, <1>6 DEF PostsNext, vars
<1> QED
  BY <1>c, <1>7 DEF PostsTypeOK

\* No request, no call, no file.
LEMMA PostsTypeInit == PostsInit => PostsTypeOK
<1> SUFFICES ASSUME PostsInit PROVE PostsTypeOK
  OBVIOUS
<1>1. <<>> \in Data
  BY DEF Data
<1>2. MarkdownTypeOK
  BY <1>1, NoCallType DEF PostsInit, MarkdownInit, FsInit, MarkdownTypeOK, FsTypeOK
<1> QED
  BY <1>2 DEF PostsInit, PostsTypeOK

\* Type correctness of the handler and of what its users see on their pages:
\* a worker's calls always fit its request, between any two of them.
THEOREM PostsTypeCorrect == PostsSpec => []PostsTypeOK
<1>1. PostsInit => PostsTypeOK
  BY PostsTypeInit
<1>2. PostsTypeOK /\ [PostsNext]_vars => PostsTypeOK'
  BY PostsTypeStep
<1> QED
  BY <1>1, <1>2, PTL DEF PostsSpec

(***************************************************************************)
(* Which posts are there.                                                  *)
(***************************************************************************)

\* The request of w keeps a text in its post.
Saves(w) == req[w].action \in {"save", "create"}

\* Every write or removal of a post while another request owns it is a rival
\* of that one.
Rivalry ==
    \A w, v \in Workers : \A n \in Names :
        w # v /\ Owns(w, n) /\ Touches(v, n) => call[v].fn \in rivals[w]

\* A post that is known to be saved is there, and no call is about to change it.
SavedHolds(n) ==
    saved[n] # {} => dir[n] # NoFile /\ \A w \in Workers : ~ Touches(w, n)

\* A save or create without a rival has its post there, once it has opened it.
PostHolds(w) ==
    /\ Saves(w) /\ rivals[w] = {}
    /\ \/ call[w].fn = "writeFile" /\ call[w].at = "write"
       \/ call[w].fn = "writeFile" /\ call[w].at = "done" /\ call[w].ok
       \/ call[w].fn = "readFile"
    => dir[call[w].name] # NoFile

\* The post of a delete without a rival is gone, and stays so while the posts
\* that are left get listed.
DeleteHolds(w) ==
    req[w].action = "delete" /\ rivals[w] = {} =>
        /\ call[w].fn = "deleteFile" /\ call[w].at = "done" /\ call[w].ok
             => dir[req[w].post] = NoFile
        /\ call[w].fn = "listFiles" /\ ~failed[w]
             => dir[req[w].post] = NoFile /\ req[w].post \notin call[w].list

\* What a create has seen is there, is being deleted by nobody, is in the
\* listing once that is made, and is not the number chosen from it.
SeenHolds(w) ==
    \A n \in seen[w] :
        /\ req[w].action = "create"
        /\ dir[n] # NoFile
        /\ \A v \in Workers : Touches(v, n) => call[v].fn = "writeFile"
        /\ call[w].fn = "listFiles" /\ call[w].at = "done" /\ call[w].ok
             => n \in call[w].list
        /\ call[w].fn # "listFiles" /\ ~failed[w]
             => call[w].name \in {MinInt} \cup (Names \ {n})

Kept(w) == PostHolds(w) /\ DeleteHolds(w)

PostsInv ==
    /\ PostsTypeOK /\ NoDirectory /\ Rivalry
    /\ \A n \in Names : SavedHolds(n)
    /\ \A w \in Workers : Kept(w) /\ SeenHolds(w)

\* A step of w that makes no system call.
OthersKeep(w) ==
    /\ UNCHANGED <<dirExists, dir, disk>>
    /\ \A v \in Workers \ {w} :
         call'[v] = call[v] /\ req'[v] = req[v] /\ failed'[v] = failed[v]

\* Such a step in which w begins to touch the post n.
Begins(w, n, fn) ==
    /\ OthersKeep(w) /\ Touch(w, n, fn)
    /\ fn \in {"writeFile", "deleteFile"}
    /\ call'[w].fn = fn /\ call'[w].name = n /\ call'[w].at \in {"mkdir", "open"}
    /\ \A m \in Names : ~ Touches(w, m) /\ (Owns(w, m)' => m = n)

\* Such a step in which w does not, and nothing about the others' posts changes.
Passes(w) ==
    /\ OthersKeep(w)
    /\ call'[w].fn \in {"none", "readFile", "listFiles"}
    /\ call'[w].at \in {"idle", "open"}
    /\ \A v \in Workers \ {w} : rivals'[v] = rivals[v]
    /\ \A n \in Names : \A v \in Workers \ {w} :
         Owns(w, n)' /\ Touches(v, n) => call[v].fn \in rivals'[w]

\* What the arrival of a request does.
LEMMA ReceiveCases ==
    ASSUME PostsTypeOK, Rivalry, NEW w \in Workers, PostsReceive(w)
    PROVE  /\ req[w] = NoRequest /\ req'[w] \in Requests
           /\ \/ \E n \in Names : /\ Begins(w, n, "writeFile")
                                  /\ req'[w].action = "save"
              \/ \E n \in Names : /\ Begins(w, n, "deleteFile")
                                  /\ req'[w].action = "delete" /\ req'[w].post = n
              \/ /\ Passes(w) /\ UNCHANGED <<saved, seen>>
                 /\ req'[w].action = "edit"
                 /\ call'[w].fn = "readFile" /\ call'[w].at = "open"
              \/ /\ Passes(w) /\ UNCHANGED <<saved, rivals>>
                 /\ req'[w].action = "create"
                 /\ call'[w].fn = "listFiles" /\ call'[w].at = "open"
                 /\ seen' = [seen EXCEPT ![w] = {n \in Names : saved[n] # {}}]
              \/ /\ Passes(w) /\ UNCHANGED <<saved, rivals, seen>>
                 /\ req'[w].action \notin {"edit", "create", "delete"}
                 /\ req'[w].action = "save" => call'[w].fn = "none"
<1> DEFINE r == req'[w]
           c == FirstCall(r)
<1>a. /\ call \in [Workers -> Calls] /\ req \in [Workers -> Requests \cup {NoRequest}]
      /\ rivals \in [Workers -> SUBSET {"writeFile", "deleteFile"}]
      /\ seen \in [Workers -> SUBSET Names]
      /\ MarkdownTypeOK
  BY DEF PostsTypeOK, MarkdownTypeOK, FsTypeOK
<1>1. PICK q \in Requests : /\ req' = [req EXCEPT ![w] = q]
                            /\ call' = [call EXCEPT ![w] = FirstCall(q)]
  BY DEF PostsReceive, Receive
<1>2. /\ req[w] = NoRequest /\ r \in Requests
      /\ call'[w] = c /\ OthersKeep(w)
  BY <1>1, <1>a DEF PostsReceive, Receive, OthersKeep
<1>3. /\ r.action \in {"list", "create", "other", "short", "convert", "edit",
                       "delete", "view", "save"}
      /\ r.action \in {"edit", "delete"} => r.post \in Names
      /\ r.action \in {"view", "save"} /\ r.post # NoName => r.post \in Names
  BY <1>2, RequestType
<1>4. call[w] = NoCall /\ \A m \in Names : ~ Touches(w, m)
  <2>1. call[w].fn = "none" /\ call[w] = NoCall
    BY <1>a, <1>2 DEF MarkdownTypeOK, Serves, NoRequest
  <2> QED
    BY <2>1 DEF Touches
<1>5. \A n \in Names : n # NoName
  BY FileSystemAssumption
<1> HIDE DEF c, r
<1>6. CASE r.action = "save" /\ r.post # NoName
  <2>1. c.fn = "writeFile" /\ c.name = r.post /\ c.at = "mkdir"
    BY <1>6, CallFields DEF c, FirstCall
  <2>2. Touch(w, r.post, "writeFile")
    BY <1>6 DEF PostsReceive, r
  <2>3. \A m \in Names : Owns(w, m)' => m = r.post
    BY <1>6 DEF Owns, r
  <2>4. Begins(w, r.post, "writeFile")
    BY <1>2, <1>4, <2>1, <2>2, <2>3 DEF Begins
  <2> QED
    BY <1>2, <1>3, <1>6, <2>4 DEF r
<1>7. CASE r.action = "delete"
  <2>1. c.fn = "deleteFile" /\ c.name = r.post /\ c.at = "open"
    BY <1>7, CallFields DEF c, FirstCall
  <2>2. Touch(w, r.post, "deleteFile")
    BY <1>7 DEF PostsReceive, r
  <2>3. \A m \in Names : Owns(w, m)' => m = r.post
    BY <1>7 DEF Owns, r
  <2>4. Begins(w, r.post, "deleteFile")
    BY <1>2, <1>4, <2>1, <2>2, <2>3 DEF Begins
  <2> QED
    BY <1>2, <1>3, <1>7, <2>4 DEF r
<1>8. CASE r.action = "edit"
  <2>1. c.fn = "readFile" /\ c.name = r.post /\ c.at = "open"
    BY <1>3, <1>5, <1>8, CallFields DEF c, FirstCall
  <2>2. rivals' = [rivals EXCEPT ![w] = RivalsOf(w, r.post)] /\ UNCHANGED <<saved, seen>>
    BY <1>8 DEF PostsReceive, r
  <2>3. \A m \in Names : Owns(w, m)' => m = r.post
    BY <1>8 DEF Owns, r
  <2>4. Passes(w)
    BY <1>2, <1>a, <2>1, <2>2, <2>3 DEF Passes, RivalsOf
  <2> QED
    BY <1>2, <1>8, <2>1, <2>2, <2>4 DEF r
<1>9. CASE r.action = "create"
  <2>1. c.fn = "listFiles" /\ c.at = "open"
    BY <1>9, CallFields DEF c, FirstCall
  <2>2. /\ seen' = [seen EXCEPT ![w] = {n \in Names : saved[n] # {}}]
        /\ UNCHANGED <<saved, rivals>>
    BY <1>9 DEF PostsReceive, r
  <2>3. \A m \in Names : ~ Owns(w, m)'
    BY <1>2, <1>9, <2>1 DEF Owns, r
  <2>4. Passes(w)
    BY <1>2, <2>1, <2>2, <2>3 DEF Passes
  <2> QED
    BY <1>2, <1>9, <2>1, <2>2, <2>4 DEF r
<1>10. CASE \/ r.action \in {"list", "other", "short", "convert", "view"}
            \/ r.action = "save" /\ r.post = NoName
  <2>1. /\ c.fn \in {"none", "readFile", "listFiles"} /\ c.at \in {"idle", "open"}
        /\ r.action = "save" => c.fn = "none"
    BY <1>10, CallFields DEF c, FirstCall
  <2>2. UNCHANGED <<saved, rivals, seen>>
    BY <1>10 DEF PostsReceive, r
  <2>3. \A m \in Names : ~ Owns(w, m)'
    BY <1>5, <1>10 DEF Owns, r
  <2>4. Passes(w)
    BY <1>2, <2>1, <2>2, <2>3 DEF Passes
  <2> QED
    BY <1>2, <1>10, <2>1, <2>2, <2>4 DEF r
<1> QED
  BY <1>3, <1>6, <1>7, <1>8, <1>9, <1>10

\* What going on from one call of a request to the next does.
LEMMA NextCases ==
    ASSUME PostsTypeOK, Rivalry, NEW w \in Workers, PostsNextCall(w)
    PROVE  /\ UNCHANGED req /\ failed'[w] = (failed[w] \/ ~call[w].ok)
           /\ call[w].at = "done"
           /\ \/ \E n \in Names :
                    /\ Begins(w, n, "writeFile")
                    /\ req[w].action = "create" /\ call[w].fn = "listFiles"
                    /\ \E g \in Garbage : n = NextPost(call[w].list, g)
              \/ /\ Passes(w) /\ UNCHANGED <<saved, rivals, seen>>
                 /\ Saves(w) /\ call[w].fn = "writeFile" /\ call[w].ok
                 /\ call[w].name \in Names
                 /\ call'[w].fn = "readFile" /\ call'[w].name = call[w].name
                 /\ call'[w].at = "open"
              \/ /\ Passes(w) /\ UNCHANGED <<saved, rivals, seen>>
                 /\ req[w].action = "delete" /\ call[w].fn = "deleteFile"
                 /\ call'[w].fn = "listFiles" /\ call'[w].list = {}
                 /\ call'[w].at = "open"
<1>a. /\ call \in [Workers -> Calls] /\ failed \in [Workers -> BOOLEAN]
      /\ MarkdownTypeOK
  BY DEF PostsTypeOK, MarkdownTypeOK, FsTypeOK
<1>1. NextCall(w) /\ UNCHANGED <<dirExists, dir, disk, req>> /\ call[w].at = "done"
  BY DEF PostsNextCall, NextCall
<1>2. failed'[w] = (failed[w] \/ ~call[w].ok)
      /\ \A v \in Workers \ {w} : failed'[v] = failed[v]
  BY <1>a DEF PostsNextCall
<1>3. CASE /\ req[w].action = "create" /\ call[w].fn = "listFiles"
           /\ \E id \in Names :
                /\ \E g \in Garbage : id = NextPost(call[w].list, g)
                /\ call' = [call EXCEPT ![w] = writeFile(id, <<>>)]
  <2>1. PICK n \in Names :
           /\ \E g \in Garbage : n = NextPost(call[w].list, g)
           /\ call' = [call EXCEPT ![w] = writeFile(n, <<>>)]
    BY <1>3
  <2>2. /\ call'[w].fn = "writeFile" /\ call'[w].name = n /\ call'[w].at = "mkdir"
        /\ \A v \in Workers \ {w} : call'[v] = call[v]
    BY <1>a, <2>1, CallFields
  <2>3. Touch(w, n, "writeFile")
    BY <1>3, <2>2 DEF PostsNextCall
  <2>4. \A m \in Names : ~ Touches(w, m) /\ (Owns(w, m)' => m = n)
    BY <1>1, <1>3, <2>2 DEF Touches, Owns
  <2>5. OthersKeep(w)
    BY <1>1, <1>2, <2>2 DEF OthersKeep
  <2>6. Begins(w, n, "writeFile")
    BY <2>2, <2>3, <2>4, <2>5 DEF Begins
  <2> QED
    BY <1>1, <1>2, <1>3, <2>1, <2>6
<1>4. CASE /\ req[w].action \in {"create", "save"}
           /\ call[w].fn = "writeFile" /\ call[w].ok
           /\ call[w].name \in Names
           /\ call' = [call EXCEPT ![w] = readFile(call[w].name)]
  <2>1. /\ call'[w].fn = "readFile" /\ call'[w].name = call[w].name /\ call'[w].at = "open"
        /\ \A v \in Workers \ {w} : call'[v] = call[v]
    BY <1>a, <1>4, CallFields
  <2>2. UNCHANGED <<saved, rivals, seen>>
    BY <1>4 DEF PostsNextCall
  <2>3. \A n \in Names : Owns(w, n)' => Owns(w, n)
    BY <1>1, <1>4, <2>1 DEF Owns
  <2>4. Passes(w)
    BY <1>1, <1>2, <2>1, <2>2, <2>3 DEF Passes, OthersKeep, Rivalry
  <2> QED
    BY <1>1, <1>2, <1>4, <2>1, <2>2, <2>4 DEF Saves
<1>5. CASE /\ req[w].action = "delete" /\ call[w].fn = "deleteFile"
           /\ call' = [call EXCEPT ![w] = listFiles]
  <2>1. /\ call'[w].fn = "listFiles" /\ call'[w].list = {} /\ call'[w].at = "open"
        /\ \A v \in Workers \ {w} : call'[v] = call[v]
    BY <1>a, <1>5, CallFields
  <2>2. UNCHANGED <<saved, rivals, seen>>
    BY <1>5 DEF PostsNextCall
  <2>3. \A n \in Names : Owns(w, n)' => Owns(w, n)
    BY <1>1, <1>5 DEF Owns
  <2>4. Passes(w)
    BY <1>1, <1>2, <2>1, <2>2, <2>3 DEF Passes, OthersKeep, Rivalry
  <2> QED
    BY <1>1, <1>2, <1>5, <2>1, <2>2, <2>4
<1> QED
  BY <1>a, <1>1, <1>3, <1>4, <1>5, NextCallCases

\* A worker whose own call and request a step leaves alone keeps what it
\* knows of the posts, unless the step makes a rival of it.
LEMMA BystanderKept ==
    ASSUME NEW v \in Workers, Kept(v), UNCHANGED <<dir, disk>>,
           call'[v] = call[v], req'[v] = req[v], failed'[v] = failed[v],
           rivals'[v] = {} => rivals[v] = {}
    PROVE  Kept(v)'
BY DEF Kept, PostHolds, DeleteHolds, Saves

\* The first call of a save or delete, or the write of a create: the post it is
\* about is not known to be saved any more, and all who own it get a rival.
LEMMA BeginStep ==
    ASSUME PostsInv, NEW w \in Workers, NEW n \in Names,
           NEW fn \in {"writeFile", "deleteFile"}, Begins(w, n, fn)
    PROVE  /\ NoDirectory' /\ Rivalry'
           /\ \A m \in Names : SavedHolds(m)'
           /\ \A v \in Workers : Kept(v)' /\ (rivals'[v] = {} => v = w \/ rivals[v] = {})
<1>a. /\ saved \in [Names -> SUBSET {ExtractText(t) : t \in Texts \cup {<<>>}}]
      /\ UNCHANGED <<dirExists, dir, disk>>
  BY DEF PostsInv, PostsTypeOK, Begins, OthersKeep
<1>b. \A v \in Workers \ {w} : call'[v] = call[v] /\ req'[v] = req[v]
                                 /\ failed'[v] = failed[v]
  BY DEF Begins, OthersKeep
<1>c. /\ call'[w].fn = fn /\ call'[w].name = n /\ call'[w].at \in {"mkdir", "open"}
      /\ \A m \in Names : ~ Touches(w, m) /\ (Owns(w, m)' => m = n)
  BY DEF Begins
<1>d. /\ saved' = [saved EXCEPT ![n] = {}]
      /\ rivals' = [v \in Workers |->
                     IF v = w THEN RivalsOf(w, n)
                     ELSE IF Owns(v, n) THEN rivals[v] \cup {fn} ELSE rivals[v]]
  BY DEF Begins, Touch
<1>e. \A v \in Workers \ {w} : rivals[v] \subseteq rivals'[v]
                                 /\ (Owns(v, n) => fn \in rivals'[v])
  BY <1>d
<1>f. \A v \in Workers \ {w} : Touches(v, n) => call[v].fn \in rivals'[w]
  BY <1>d DEF RivalsOf
<1>1. NoDirectory'
  BY <1>a DEF PostsInv, NoDirectory
<1>2. Rivalry'
  <2> SUFFICES ASSUME NEW v \in Workers, NEW u \in Workers, NEW m \in Names,
                      v # u, Owns(v, m)', Touches(u, m)'
               PROVE  call'[u].fn \in rivals'[v]
    BY DEF Rivalry
  <2>1. CASE v = w
    BY <1>b, <1>c, <1>f, <2>1 DEF Touches
  <2>2. CASE v # w /\ u = w
    BY <1>b, <1>c, <1>e, <2>2 DEF Touches, Owns
  <2>3. CASE v # w /\ u # w
    BY <1>b, <1>e, <2>3 DEF PostsInv, Rivalry, Touches, Owns
  <2> QED
    BY <2>1, <2>2, <2>3
<1>3. \A m \in Names : SavedHolds(m)'
  <2> SUFFICES ASSUME NEW m \in Names, saved'[m] # {}
               PROVE  dir'[m] # NoFile /\ \A v \in Workers : ~ Touches(v, m)'
    BY DEF SavedHolds
  <2>1. m # n /\ saved[m] # {}
    BY <1>a, <1>d
  <2>2. dir[m] # NoFile /\ \A v \in Workers : ~ Touches(v, m)
    BY <2>1 DEF PostsInv, SavedHolds
  <2> QED
    BY <1>a, <1>b, <1>c, <2>1, <2>2 DEF Touches
<1>4. \A v \in Workers \ {w} : rivals'[v] = {} => rivals[v] = {}
  BY <1>e
<1>5. \A v \in Workers \ {w} : Kept(v)'
  BY <1>a, <1>b, <1>4, BystanderKept DEF PostsInv
<1>6. Kept(w)'
  BY <1>c DEF Kept, PostHolds, DeleteHolds
<1> QED
  BY <1>1, <1>2, <1>3, <1>4, <1>5, <1>6

\* The other steps between system calls, up to what w itself knows.
LEMMA PassStep ==
    ASSUME PostsInv, NEW w \in Workers, Passes(w), UNCHANGED saved, Kept(w)'
    PROVE  /\ NoDirectory' /\ Rivalry'
           /\ \A m \in Names : SavedHolds(m)'
           /\ \A v \in Workers : Kept(v)'
<1>a. UNCHANGED <<dirExists, dir, disk, saved>>
  BY DEF Passes, OthersKeep
<1>b. \A v \in Workers \ {w} : call'[v] = call[v] /\ req'[v] = req[v]
                                 /\ failed'[v] = failed[v] /\ rivals'[v] = rivals[v]
  BY DEF Passes, OthersKeep
<1>c. \A m \in Names : ~ Touches(w, m)'
  BY DEF Passes, Touches
<1>1. NoDirectory'
  BY <1>a DEF PostsInv, NoDirectory
<1>2. Rivalry'
  <2> SUFFICES ASSUME NEW v \in Workers, NEW u \in Workers, NEW m \in Names,
                      v # u, Owns(v, m)', Touches(u, m)'
               PROVE  call'[u].fn \in rivals'[v]
    BY DEF Rivalry
  <2>1. u # w /\ Touches(u, m) /\ call'[u] = call[u]
    BY <1>b, <1>c DEF Touches
  <2>2. CASE v = w
    BY <2>1, <2>2 DEF Passes
  <2>3. CASE v # w
    BY <1>b, <2>1, <2>3 DEF PostsInv, Rivalry, Owns
  <2> QED
    BY <2>2, <2>3
<1>3. \A m \in Names : SavedHolds(m)'
  BY <1>a, <1>b, <1>c DEF PostsInv, SavedHolds, Touches
<1>4. \A v \in Workers \ {w} : Kept(v)'
  BY <1>a, <1>b, BystanderKept DEF PostsInv
<1> QED
  BY <1>1, <1>2, <1>3, <1>4

\* A system call of w changes no post that a request without a rival is about,
\* other than that of w's own, and none that is known to be saved.
LEMMA PostsCallStep ==
    ASSUME PostsInv, NEW w \in Workers, CallStep(w), UNCHANGED ghosts
    PROVE  /\ NoDirectory' /\ Rivalry'
           /\ \A n \in Names : SavedHolds(n)'
           /\ \A v \in Workers : Kept(v)'
<1>a. /\ call \in [Workers -> Calls] /\ FsTypeOK /\ NoDirectory /\ MarkdownTypeOK
      /\ \A v \in Workers : WellFormed(call[v])
  BY DEF PostsInv, PostsTypeOK, MarkdownTypeOK, FsTypeOK
<1>1. FsStep(w) /\ UNCHANGED <<req, saved, rivals, failed>>
  BY DEF CallStep, ghosts
<1>2. /\ \A v \in Workers \ {w} : call'[v] = call[v]
      /\ call'[w].fn = call[w].fn /\ call'[w].name = call[w].name
  BY <1>a, <1>1, FsStepFrame
<1>3. \A v \in Workers : call'[v].fn = call[v].fn /\ call'[v].name = call[v].name
  BY <1>2
<1>4. /\ NoDirectory'
      /\ \A n \in Names : dir[n] # NoFile /\ dir'[n] = NoFile
           => call[w].fn = "deleteFile" /\ call[w].name = n
      /\ \A n \in Names : dir[n] = NoFile /\ dir'[n] # NoFile => Touches(w, n)
      /\ call'[w].at = "write" => dir'[call[w].name] # NoFile
      /\ call[w].fn = "writeFile" /\ call'[w].at = "done" /\ call'[w].ok
           => call[w].at = "write"
      /\ call[w].fn = "deleteFile" /\ call'[w].at = "done"
           => ("open" \notin Faults \/ call'[w].ok => dir'[call[w].name] = NoFile)
  BY <1>a, <1>1, FsStepDir
<1>5. \A v \in Workers : \A n \in Names : Owns(v, n)' <=> Owns(v, n)
  BY <1>1, <1>3 DEF Owns
<1>6. Rivalry'
  BY <1>1, <1>3, <1>5 DEF PostsInv, Rivalry, Touches
<1>7. ASSUME NEW n \in Names PROVE SavedHolds(n)'
  <2> SUFFICES ASSUME saved[n] # {}
               PROVE  dir'[n] # NoFile /\ \A v \in Workers : ~ Touches(v, n)'
    BY <1>1 DEF SavedHolds
  <2>1. dir[n] # NoFile /\ \A v \in Workers : ~ Touches(v, n)
    BY DEF PostsInv, SavedHolds
  <2> QED
    BY <1>3, <1>4, <2>1 DEF Touches
<1>8. ASSUME NEW v \in Workers PROVE PostHolds(v)'
  <2> DEFINE n == call[v].name
  <2> SUFFICES ASSUME Saves(v), rivals[v] = {},
                      \/ call[v].fn = "writeFile" /\ call'[v].at = "write"
                      \/ call[v].fn = "writeFile" /\ call'[v].at = "done" /\ call'[v].ok
                      \/ call[v].fn = "readFile"
               PROVE  dir'[n] # NoFile
    BY <1>1, <1>3 DEF PostHolds, Saves
  <2>1. n \in Names /\ Owns(v, n)
    BY <1>a, Requested DEF Saves
  <2>2. CASE v = w
    <3>1. CASE call[w].fn = "writeFile" /\ call'[w].at = "write"
      BY <1>4, <2>2, <3>1
    <3>2. CASE \/ call[w].fn = "writeFile" /\ call'[w].at = "done" /\ call'[w].ok
               \/ call[w].fn = "readFile"
      <4>1. dir[n] # NoFile
        BY <1>4, <2>2, <3>2 DEF PostsInv, Kept, PostHolds
      <4> QED
        BY <1>4, <2>1, <2>2, <3>2, <4>1
    <3> QED
      BY <2>2, <3>1, <3>2
  <2>3. CASE v # w
    <3>1. dir[n] # NoFile
      BY <1>2, <2>3 DEF PostsInv, Kept, PostHolds
    <3>2. ~ Touches(w, n)
      BY <2>1, <2>3 DEF PostsInv, Rivalry
    <3> QED
      BY <1>4, <2>1, <3>1, <3>2 DEF Touches
  <2> QED
    BY <2>2, <2>3
<1>9. ASSUME NEW v \in Workers PROVE DeleteHolds(v)'
  <2> DEFINE n == req[v].post
  <2> SUFFICES ASSUME req[v].action = "delete", rivals[v] = {}
               PROVE  /\ call[v].fn = "deleteFile" /\ call'[v].at = "done" /\ call'[v].ok
                           => dir'[n] = NoFile
                      /\ call[v].fn = "listFiles" /\ ~failed[v]
                           => dir'[n] = NoFile /\ n \notin call'[v].list
    BY <1>1, <1>3 DEF DeleteHolds
  <2>1. n \in Names /\ Owns(v, n) /\ (call[v].fn = "deleteFile" => call[v].name = n)
    BY <1>a, Requested
  <2>2. CASE v = w
    <3>1. CASE call[w].fn = "deleteFile"
      BY <1>4, <2>1, <2>2, <3>1
    <3>2. CASE call[w].fn = "listFiles" /\ ~failed[w]
      <4>1. dir[n] = NoFile
        BY <2>2, <3>2 DEF PostsInv, Kept, DeleteHolds
      <4>2. UNCHANGED dir /\ call'[w].list = IF call'[w].ok THEN Present ELSE {}
        BY <1>a, <1>1, <3>2, FsStepList
      <4> QED
        BY <2>2, <3>2, <4>1, <4>2 DEF Present
    <3> QED
      BY <2>2, <3>1, <3>2
  <2>3. CASE v # w
    <3>1. ~ Touches(w, n)
      BY <2>1, <2>3 DEF PostsInv, Rivalry
    <3> QED
      BY <1>2, <1>4, <2>1, <2>3, <3>1 DEF PostsInv, Kept, DeleteHolds
  <2> QED
    BY <2>2, <2>3
<1> QED
  BY <1>4, <1>6, <1>7, <1>8, <1>9 DEF Kept

\* The page that tells its user that the post has been saved.
LEMMA PostsReplyStep ==
    ASSUME PostsInv, NEW w \in Workers, PostsReply(w)
    PROVE  /\ NoDirectory' /\ Rivalry'
           /\ \A n \in Names : SavedHolds(n)'
           /\ \A v \in Workers : Kept(v)'
<1>a. /\ call \in [Workers -> Calls] /\ req \in [Workers -> Requests \cup {NoRequest}]
      /\ rivals \in [Workers -> SUBSET {"writeFile", "deleteFile"}]
      /\ seen \in [Workers -> SUBSET Names]
      /\ failed \in [Workers -> BOOLEAN] /\ MarkdownTypeOK
      /\ saved \in [Names -> SUBSET {ExtractText(t) : t \in Texts \cup {<<>>}}]
  BY DEF PostsInv, PostsTypeOK, MarkdownTypeOK, FsTypeOK
<1>1. /\ UNCHANGED <<dirExists, dir, disk>>
      /\ call'[w].fn = "none" /\ req'[w].action = "none" /\ req'[w].post = NoName
      /\ \A v \in Workers \ {w} : /\ call'[v] = call[v] /\ req'[v] = req[v]
                                  /\ failed'[v] = failed[v] /\ rivals'[v] = rivals[v]
  BY <1>a DEF PostsReply, Reply, NoCall, NoRequest
<1>2. \A v \in Workers : \A m \in Names :
         /\ Touches(v, m)' => v # w /\ Touches(v, m)
         /\ Owns(v, m)' => v # w /\ Owns(v, m)
  BY <1>1 DEF Touches, Owns
<1>3. NoDirectory'
  BY <1>1 DEF PostsInv, NoDirectory
<1>4. Rivalry'
  BY <1>1, <1>2 DEF PostsInv, Rivalry
<1>5. \A v \in Workers \ {w} : Kept(v)'
  BY <1>1, BystanderKept DEF PostsInv
<1>6. Kept(w)'
  BY <1>1 DEF Kept, PostHolds, DeleteHolds, Saves
<1>7. \A n \in Names : SavedHolds(n)'
  <2> DEFINE n == call[w].name
             sure == Saves(w) /\ call[w].fn = "readFile" /\ call[w].ok /\ rivals[w] = {}
  <2>1. saved' = IF sure THEN [saved EXCEPT ![n] = {Left(w)}] ELSE saved
    BY DEF PostsReply, Saves
  <2>2. CASE sure
    <3>1. n \in Names /\ Owns(w, n) /\ dir[n] # NoFile
      BY <1>a, <2>2, Requested DEF PostsInv, Kept, PostHolds, Saves
    <3>2. \A v \in Workers \ {w} : ~ Touches(v, n)
      BY <2>2, <3>1 DEF PostsInv, Rivalry
    <3> HIDE DEF n, sure
    <3>3. \A m \in Names \ {n} : saved'[m] = saved[m]
      BY <1>a, <2>1, <2>2, <3>1
    <3> QED
      BY <1>1, <1>2, <3>1, <3>2, <3>3 DEF PostsInv, SavedHolds
  <2>3. CASE ~ sure
    BY <1>1, <1>2, <2>1, <2>3 DEF PostsInv, SavedHolds
  <2> QED
    BY <2>2, <2>3
<1> QED
  BY <1>3, <1>4, <1>5, <1>6, <1>7

\* Between system calls, what a create has seen stays there, and its calls are
\* its own.
LEMMA SeenBystander ==
    ASSUME PostsInv, NEW w \in Workers, NEW v \in Workers \ {w}, OthersKeep(w),
           seen'[v] \subseteq seen[v],
           \A n \in seen'[v] : Touches(w, n)' => call'[w].fn = "writeFile"
    PROVE  SeenHolds(v)'
<1> SUFFICES ASSUME NEW n \in seen'[v]
             PROVE  /\ req'[v].action = "create"
                    /\ dir'[n] # NoFile
                    /\ \A u \in Workers : Touches(u, n)' => call'[u].fn = "writeFile"
                    /\ call'[v].fn = "listFiles" /\ call'[v].at = "done" /\ call'[v].ok
                         => n \in call'[v].list
                    /\ call'[v].fn # "listFiles" /\ ~failed'[v]
                         => call'[v].name \in {MinInt} \cup (Names \ {n})
  BY DEF SeenHolds
<1>1. /\ call'[v] = call[v] /\ req'[v] = req[v] /\ failed'[v] = failed[v] /\ dir' = dir
      /\ \A u \in Workers \ {w} : call'[u] = call[u]
  BY DEF OthersKeep
<1>2. n \in seen[v]
  OBVIOUS
<1>3. \A u \in Workers \ {w} : Touches(u, n)' => call'[u].fn = "writeFile"
  BY <1>1, <1>2 DEF PostsInv, SeenHolds, Touches
<1> QED
  BY <1>1, <1>2, <1>3 DEF PostsInv, SeenHolds

\* What a create has seen when it arrives is what is known to be saved.
LEMMA SeenReceive ==
    ASSUME PostsInv, NEW w \in Workers, PostsReceive(w)
    PROVE  \A v \in Workers : SeenHolds(v)'
<1>a. PostsTypeOK /\ Rivalry /\ seen \in [Workers -> SUBSET Names]
  BY DEF PostsInv, PostsTypeOK
<1>b. req[w] = NoRequest /\ seen[w] = {}
  <2>1. req[w] = NoRequest
    BY <1>a, ReceiveCases
  <2> QED
    BY <2>1 DEF PostsInv, SeenHolds, NoRequest
<1>c. OthersKeep(w)
  BY <1>a, ReceiveCases DEF Begins, Passes
<1>1. CASE \E n \in Names : \E fn \in {"writeFile", "deleteFile"} : Begins(w, n, fn)
  <2>1. PICK n \in Names, fn \in {"writeFile", "deleteFile"} : Begins(w, n, fn)
    BY <1>1
  <2>2. \A v \in Workers : seen'[v] = IF fn = "writeFile" THEN seen[v] ELSE seen[v] \ {n}
    BY <2>1 DEF Begins, Touch
  <2>3. \A v \in Workers : \A m \in seen'[v] : Touches(w, m)' => call'[w].fn = "writeFile"
    BY <2>1, <2>2 DEF Begins, Touches
  <2>4. \A v \in Workers \ {w} : SeenHolds(v)'
    BY <1>c, <2>2, <2>3, SeenBystander
  <2>5. SeenHolds(w)'
    BY <1>b, <2>2 DEF SeenHolds
  <2> QED
    BY <2>4, <2>5
<1>2. CASE Passes(w) /\ UNCHANGED seen
  <2>1. \A m \in Names : ~ Touches(w, m)'
    BY <1>2 DEF Passes, Touches
  <2>2. \A v \in Workers \ {w} : SeenHolds(v)'
    BY <1>2, <1>a, <1>c, <2>1, SeenBystander
  <2>3. SeenHolds(w)'
    BY <1>2, <1>b DEF SeenHolds
  <2> QED
    BY <2>2, <2>3
<1>3. CASE /\ Passes(w) /\ req'[w].action = "create"
           /\ call'[w].fn = "listFiles" /\ call'[w].at = "open"
           /\ seen' = [seen EXCEPT ![w] = {n \in Names : saved[n] # {}}]
  <2>1. \A m \in Names : ~ Touches(w, m)'
    BY <1>3 DEF Passes, Touches
  <2>2. \A v \in Workers \ {w} : seen'[v] = seen[v]
    BY <1>a, <1>3
  <2>3. \A v \in Workers \ {w} : SeenHolds(v)'
    BY <1>a, <1>c, <2>1, <2>2, SeenBystander
  <2>4. \A m \in seen'[w] : m \in Names /\ saved[m] # {}
    BY <1>a, <1>3
  <2>5. \A m \in seen'[w] : dir[m] # NoFile /\ \A v \in Workers : ~ Touches(v, m)
    BY <2>4 DEF PostsInv, SavedHolds
  <2>6. UNCHANGED dir /\ \A v \in Workers \ {w} : call'[v] = call[v]
    BY <1>c DEF OthersKeep
  <2>7. \A m \in seen'[w] : \A v \in Workers : ~ Touches(v, m)'
    BY <2>1, <2>4, <2>5, <2>6 DEF Touches
  <2>8. SeenHolds(w)'
    BY <1>3, <2>5, <2>6, <2>7 DEF SeenHolds
  <2> QED
    BY <2>3, <2>8
<1> QED
  BY <1>a, <1>1, <1>2, <1>3, ReceiveCases

\* The number that a create chooses is none that it has seen in its listing.
LEMMA SeenNextCall ==
    ASSUME PostsInv, NEW w \in Workers, PostsNextCall(w)
    PROVE  \A v \in Workers : SeenHolds(v)'
<1>a. /\ PostsTypeOK /\ Rivalry /\ seen \in [Workers -> SUBSET Names]
      /\ call[w] \in Calls
  BY DEF PostsInv, PostsTypeOK, MarkdownTypeOK, FsTypeOK
<1>b. /\ UNCHANGED req /\ failed'[w] = (failed[w] \/ ~call[w].ok)
      /\ call[w].at = "done" /\ OthersKeep(w)
  BY <1>a, NextCases DEF Begins, Passes
<1>c. UNCHANGED dir /\ \A v \in Workers \ {w} : call'[v] = call[v]
  BY <1>b DEF OthersKeep
<1>1. CASE \E n \in Names : /\ Begins(w, n, "writeFile")
                            /\ req[w].action = "create" /\ call[w].fn = "listFiles"
                            /\ \E g \in Garbage : n = NextPost(call[w].list, g)
  <2>1. PICK n \in Names, g \in Garbage :
           Begins(w, n, "writeFile") /\ n = NextPost(call[w].list, g)
    BY <1>1
  <2>2. UNCHANGED seen
    <3>1. seen' = [v \in Workers |-> seen[v]]
      BY <2>1 DEF Begins, Touch
    <3> QED
      BY <1>a, <3>1
  <2>3. call'[w].fn = "writeFile" /\ call'[w].name = n
    BY <2>1 DEF Begins
  <2>4. \A v \in Workers \ {w} : SeenHolds(v)'
    BY <1>b, <2>2, <2>3, SeenBystander
  <2>5. n # MinInt => \A m \in call[w].list : n > m
    BY <1>a, <2>1, NextPostFresh DEF Calls
  <2>6. \A m \in Names : m \in Int
    BY MarkdownAssumption DEF MinInt
  <2>7. \A m \in seen[w] : ~failed'[w] => n \in {MinInt} \cup (Names \ {m})
    <3> SUFFICES ASSUME NEW m \in seen[w], ~failed'[w], n # MinInt PROVE n # m
      OBVIOUS
    <3>1. m \in call[w].list /\ m \in Names
      BY <1>1, <1>a, <1>b DEF PostsInv, SeenHolds
    <3> QED
      BY <2>5, <2>6, <3>1
  <2>8. SeenHolds(w)'
    BY <1>b, <1>c, <2>2, <2>3, <2>7 DEF PostsInv, SeenHolds, Touches
  <2> QED
    BY <2>4, <2>8
<1>2. CASE /\ Passes(w) /\ UNCHANGED seen
           /\ \/ /\ call[w].fn = "writeFile" /\ call'[w].fn = "readFile"
                 /\ call'[w].name = call[w].name /\ call'[w].at = "open"
              \/ req[w].action = "delete"
  <2>1. \A m \in Names : ~ Touches(w, m)'
    BY <1>2 DEF Passes, Touches
  <2>2. \A v \in Workers \ {w} : SeenHolds(v)'
    BY <1>2, <1>a, <1>b, <2>1, SeenBystander
  <2>3. CASE req[w].action = "delete"
    <3>1. seen'[w] = {}
      BY <1>2, <2>3 DEF PostsInv, SeenHolds
    <3> QED
      BY <2>2, <3>1 DEF SeenHolds
  <2>4. CASE /\ call[w].fn = "writeFile" /\ call'[w].fn = "readFile"
             /\ call'[w].name = call[w].name /\ call'[w].at = "open"
    <3>1. \A m \in seen[w] : \A v \in Workers : Touches(v, m)' => call'[v].fn = "writeFile"
      BY <1>a, <1>c, <2>1 DEF PostsInv, SeenHolds, Touches
    <3>2. \A m \in seen[w] : /\ req[w].action = "create" /\ dir[m] # NoFile
                             /\ ~failed[w] => call[w].name \in {MinInt} \cup (Names \ {m})
      BY <2>4 DEF PostsInv, SeenHolds
    <3>3. SeenHolds(w)'
      BY <1>2, <1>b, <1>c, <2>4, <3>1, <3>2 DEF SeenHolds
    <3> QED
      BY <2>2, <3>3
  <2> QED
    BY <1>2, <2>3, <2>4
<1> QED
  BY <1>a, <1>1, <1>2, NextCases

\* A listing that is made while a post is there has it.
LEMMA SeenCallStep ==
    ASSUME PostsInv, NEW w \in Workers, CallStep(w), UNCHANGED ghosts
    PROVE  \A v \in Workers : SeenHolds(v)'
<1>a. /\ call \in [Workers -> Calls] /\ FsTypeOK /\ NoDirectory
      /\ seen \in [Workers -> SUBSET Names]
  BY DEF PostsInv, PostsTypeOK, MarkdownTypeOK, FsTypeOK
<1>1. FsStep(w) /\ UNCHANGED <<req, seen, failed>>
  BY DEF CallStep, ghosts
<1>2. /\ \A v \in Workers \ {w} : call'[v] = call[v]
      /\ call'[w].fn = call[w].fn /\ call'[w].name = call[w].name
  BY <1>a, <1>1, FsStepFrame
<1>3. \A n \in Names : dir[n] # NoFile /\ dir'[n] = NoFile
         => call[w].fn = "deleteFile" /\ call[w].name = n
  BY <1>a, <1>1, FsStepDir
<1>4. call[w].fn = "listFiles" /\ call'[w].ok => call'[w].list = Present
  BY <1>a, <1>1, FsStepList
<1> SUFFICES ASSUME NEW v \in Workers, NEW n \in seen[v]
             PROVE  /\ req[v].action = "create"
                    /\ dir'[n] # NoFile
                    /\ \A u \in Workers : Touches(u, n)' => call'[u].fn = "writeFile"
                    /\ call'[v].fn = "listFiles" /\ call'[v].at = "done" /\ call'[v].ok
                         => n \in call'[v].list
                    /\ call'[v].fn # "listFiles" /\ ~failed[v]
                         => call'[v].name \in {MinInt} \cup (Names \ {n})
  BY <1>1 DEF SeenHolds
<1>5. /\ n \in Names /\ dir[n] # NoFile /\ req[v].action = "create"
      /\ \A u \in Workers : Touches(u, n) => call[u].fn = "writeFile"
      /\ call[v].fn = "listFiles" /\ call[v].at = "done" /\ call[v].ok => n \in call[v].list
      /\ call[v].fn # "listFiles" /\ ~failed[v]
           => call[v].name \in {MinInt} \cup (Names \ {n})
  BY <1>a DEF PostsInv, SeenHolds
<1>6. \A u \in Workers : Touches(u, n)' => call'[u].fn = "writeFile"
  BY <1>2, <1>5 DEF Touches
<1>7. dir'[n] # NoFile
  BY <1>3, <1>5 DEF Touches
<1>8. v = w /\ call'[w].fn = "listFiles" /\ call'[w].ok => n \in call'[w].list
  BY <1>2, <1>4, <1>5 DEF Present
<1> QED
  BY <1>2, <1>5, <1>6, <1>7, <1>8

\* A request that is dropped leaves all posts as they are.
LEMMA AbandonStep ==
    ASSUME PostsTypeOK, NEW w \in Workers, PostsAbandon(w)
    PROVE  /\ Passes(w) /\ UNCHANGED saved /\ seen'[w] = {}
           /\ call'[w].fn = "none" /\ req'[w].action = "none"
           /\ \A v \in Workers \ {w} : seen'[v] = seen[v]
<1>a. /\ call \in [Workers -> Calls] /\ req \in [Workers -> Requests \cup {NoRequest}]
      /\ rivals \in [Workers -> SUBSET {"writeFile", "deleteFile"}]
      /\ seen \in [Workers -> SUBSET Names]
      /\ failed \in [Workers -> BOOLEAN]
  BY DEF PostsTypeOK, MarkdownTypeOK, FsTypeOK
<1>1. /\ OthersKeep(w) /\ UNCHANGED saved /\ seen'[w] = {}
      /\ \A v \in Workers \ {w} : rivals'[v] = rivals[v] /\ seen'[v] = seen[v]
      /\ call'[w] = NoCall /\ req'[w] = NoRequest
  BY <1>a DEF PostsAbandon, Abandon, OthersKeep
<1>2. /\ call'[w].fn = "none" /\ call'[w].at = "idle"
      /\ req'[w].action = "none"
  BY <1>1, CallFields DEF NoRequest
<1>3. \A n \in Names : ~ Owns(w, n)'
  BY <1>2 DEF Owns
<1> QED
  BY <1>1, <1>2, <1>3 DEF Passes

\* Every step keeps the invariant.
LEMMA PostsStepInv ==
    ASSUME PostsInv, [PostsNext]_vars
    PROVE  PostsInv'
<1>0. PostsTypeOK /\ PostsTypeOK' /\ Rivalry
  BY PostsTypeStep DEF PostsInv
<1> SUFFICES /\ NoDirectory' /\ Rivalry'
             /\ \A n \in Names : SavedHolds(n)'
             /\ \A v \in Workers : Kept(v)' /\ SeenHolds(v)'
  BY <1>0 DEF PostsInv
<1>1. ASSUME NEW w \in Workers, PostsReceive(w)
      PROVE  /\ NoDirectory' /\ Rivalry'
             /\ \A n \in Names : SavedHolds(n)'
             /\ \A v \in Workers : Kept(v)' /\ SeenHolds(v)'
  <2>1. \A v \in Workers : SeenHolds(v)'
    BY <1>1, SeenReceive
  <2>2. CASE \E n \in Names : \E fn \in {"writeFile", "deleteFile"} : Begins(w, n, fn)
    BY <2>1, <2>2, BeginStep
  <2>3. CASE /\ Passes(w) /\ UNCHANGED saved /\ req'[w].action # "delete"
             /\ Saves(w)' => call'[w].fn \notin {"readFile", "writeFile"}
    <3>1. Kept(w)'
      BY <2>3 DEF Kept, PostHolds, DeleteHolds
    <3> QED
      BY <2>1, <2>3, <3>1, PassStep
  <2> QED
    BY <1>0, <1>1, <2>2, <2>3, ReceiveCases DEF Saves
<1>2. ASSUME NEW w \in Workers, PostsNextCall(w)
      PROVE  /\ NoDirectory' /\ Rivalry'
             /\ \A n \in Names : SavedHolds(n)'
             /\ \A v \in Workers : Kept(v)' /\ SeenHolds(v)'
  <2>1. \A v \in Workers : SeenHolds(v)'
    BY <1>2, SeenNextCall
  <2>2. CASE \E n \in Names : Begins(w, n, "writeFile")
    BY <2>1, <2>2, BeginStep
  <2>3. CASE Passes(w) /\ UNCHANGED <<saved, rivals>>
    <3>1. UNCHANGED <<req, dir>> /\ failed'[w] = (failed[w] \/ ~call[w].ok)
          /\ call[w].at = "done"
      BY <1>0, <1>2, <2>3, NextCases DEF Passes, OthersKeep
    <3>0. PostHolds(w) /\ DeleteHolds(w) /\ req' = req /\ dir' = dir /\ rivals' = rivals
      BY <2>3, <3>1 DEF PostsInv, Kept
    <3>2. ASSUME Saves(w), call[w].fn = "writeFile", call[w].ok,
                 call'[w].fn = "readFile", call'[w].name = call[w].name
          PROVE  Kept(w)'
      <4>1. PostHolds(w)'
        BY <3>0, <3>1, <3>2 DEF PostHolds, Saves
      <4>2. DeleteHolds(w)'
        BY <3>0, <3>2 DEF DeleteHolds, Saves
      <4> QED
        BY <4>1, <4>2 DEF Kept
    <3>3. ASSUME req[w].action = "delete", call[w].fn = "deleteFile",
                 call'[w].fn = "listFiles", call'[w].list = {}
          PROVE  Kept(w)'
      <4>1. PostHolds(w)'
        BY <3>0, <3>3 DEF PostHolds, Saves
      <4>2. DeleteHolds(w)'
        BY <3>0, <3>1, <3>3 DEF DeleteHolds
      <4> QED
        BY <4>1, <4>2 DEF Kept
    <3>4. ~ \E n \in Names : Begins(w, n, "writeFile")
      BY <2>3 DEF Passes, Begins
    <3>5. Kept(w)'
      BY <1>0, <1>2, <3>2, <3>3, <3>4, NextCases
    <3> QED
      BY <2>1, <2>3, <3>5, PassStep
  <2> QED
    BY <1>0, <1>2, <2>2, <2>3, NextCases
<1>3. ASSUME NEW w \in Workers, PostsReply(w)
      PROVE  /\ NoDirectory' /\ Rivalry'
             /\ \A n \in Names : SavedHolds(n)'
             /\ \A v \in Workers : Kept(v)' /\ SeenHolds(v)'
  <2>1. /\ call'[w].fn = "none" /\ seen'[w] = {} /\ UNCHANGED <<dirExists, dir, disk>>
        /\ \A v \in Workers \ {w} : /\ call'[v] = call[v] /\ req'[v] = req[v]
                                    /\ seen'[v] = seen[v] /\ failed'[v] = failed[v]
    BY <1>0, <1>3 DEF PostsTypeOK, MarkdownTypeOK, FsTypeOK, PostsReply, Reply, NoCall
  <2>2. OthersKeep(w)
    BY <2>1 DEF OthersKeep
  <2>3. \A v \in Workers \ {w} : SeenHolds(v)'
    BY <2>1, <2>2, SeenBystander DEF Touches
  <2>4. SeenHolds(w)'
    BY <2>1 DEF SeenHolds
  <2> QED
    BY <1>3, <2>3, <2>4, PostsReplyStep
<1>4. ASSUME NEW w \in Workers, CallStep(w), UNCHANGED ghosts
      PROVE  /\ NoDirectory' /\ Rivalry'
             /\ \A n \in Names : SavedHolds(n)'
             /\ \A v \in Workers : Kept(v)' /\ SeenHolds(v)'
  BY <1>4, PostsCallStep, SeenCallStep
<1>5. CASE PostsExit
  <2>1. /\ UNCHANGED <<dirExists, dir, saved>>
        /\ \A v \in Workers : /\ call'[v].fn = "none" /\ req'[v].action = "none"
                              /\ seen'[v] = {}
    BY <1>5 DEF PostsExit, Exit, NoCall, NoRequest
  <2> QED
    BY <2>1 DEF PostsInv, NoDirectory, Rivalry, SavedHolds, Kept, PostHolds,
                DeleteHolds, SeenHolds, Saves, Touches
<1>6. CASE UNCHANGED vars
  <2>1. /\ UNCHANGED <<dirExists, dir, disk, call, req>>
        /\ UNCHANGED <<saved, rivals, seen, failed>>
    BY <1>6 DEF vars, markdownVars, fsVars, ghosts
  <2> QED
    BY <2>1 DEF PostsInv, NoDirectory, Rivalry, SavedHolds, Kept, PostHolds,
                DeleteHolds, SeenHolds, Saves, Touches, Owns
<1>7. ASSUME NEW w \in Workers, PostsAbandon(w)
      PROVE  /\ NoDirectory' /\ Rivalry'
             /\ \A n \in Names : SavedHolds(n)'
             /\ \A v \in Workers : Kept(v)' /\ SeenHolds(v)'
  <2>1. /\ Passes(w) /\ UNCHANGED saved /\ seen'[w] = {}
        /\ call'[w].fn = "none" /\ req'[w].action = "none"
        /\ \A v \in Workers \ {w} : seen'[v] = seen[v]
    BY <1>0, <1>7, AbandonStep
  <2>2. Kept(w)'
    BY <2>1 DEF Kept, PostHolds, DeleteHolds, Saves
  <2>3. \A v \in Workers \ {w} : SeenHolds(v)'
    BY <2>1, SeenBystander DEF Passes, Touches
  <2>4. SeenHolds(w)'
    BY <2>1 DEF SeenHolds
  <2> QED
    BY <2>1, <2>2, <2>3, <2>4, PassStep
<1> QED
  BY <1>1, <1>2, <1>3, <1>4, <1>5, <1>6, <1>7 DEF PostsNext

\* The invariant about which posts are there holds in every state.
LEMMA PostsInvariant == PostsSpec => []PostsInv
<1>1. PostsInit => PostsInv
  <2> SUFFICES ASSUME PostsInit PROVE PostsInv
    OBVIOUS
  <2>1. \A w \in Workers : call[w].fn = "none" /\ req[w].action = "none" /\ seen[w] = {}
    BY DEF PostsInit, MarkdownInit, FsInit, NoCall, NoRequest
  <2>2. \A n \in Names : dir[n] = NoFile /\ saved[n] = {}
    BY DEF PostsInit, MarkdownInit, FsInit
  <2> QED
    BY <2>1, <2>2, PostsTypeInit
    DEF PostsInv, NoDirectory, Rivalry, SavedHolds, Kept, PostHolds, DeleteHolds,
        SeenHolds, Saves, Touches
<1>2. PostsInv /\ [PostsNext]_vars => PostsInv'
  BY PostsStepInv
<1> QED
  BY <1>1, <1>2, PTL DEF PostsSpec

\* A delete without a rival is followed by a list without its post, whatever
\* goes wrong with opens and writes, unless the delete itself failed.
THEOREM DeletedStaysGone == PostsSpec => []DeletedNotListed
<1>1. PostsInv => DeletedNotListed
  <2> SUFFICES ASSUME PostsInv, NEW w \in Workers, Handled(w), rivals[w] = {},
                      req[w].action = "delete", ~failed[w]
               PROVE  req[w].post \notin call[w].list
    BY DEF DeletedNotListed
  <2>1. MarkdownTypeOK
    BY DEF PostsInv, PostsTypeOK
  <2>2. call[w].fn = "listFiles"
    BY <2>1, Requested DEF Handled, Final
  <2> QED
    BY <2>2 DEF PostsInv, Kept, DeleteHolds
<1> QED
  BY <1>1, PostsInvariant, PTL

\* A create never takes over a post that was known to be saved when it arrived,
\* however its listing and its write interleave with other requests and whatever
\* the uninitialized int held, until the numbers wrap around or a listing fails.
THEOREM CreateTakesFreePost == PostsSpec => []CreateSparesSaved
<1>1. PostsInv => CreateSparesSaved
  BY DEF PostsInv, SeenHolds, CreateSparesSaved
<1> QED
  BY <1>1, PostsInvariant, PTL

(***************************************************************************)
(* What is in the posts, and on the pages: as long as the disk takes what  *)
(* is written to it.                                                       *)
(***************************************************************************)

\* A save or create without a rival finds its post as it truncated it, and
\* leaves its text in it, for the read that follows.
TextHolds(w) ==
    Saves(w) /\ rivals[w] = {} =>
        /\ call[w].fn = "writeFile" /\ call[w].at = "write"
             => dir[call[w].name] = call[w].ino /\ disk[call[w].ino] = <<>>
        /\ (\/ call[w].fn = "writeFile" /\ call[w].at = "done" /\ call[w].ok
            \/ call[w].fn = "readFile")
             => dir[call[w].name] # NoFile /\ disk[dir[call[w].name]] = Left(w)

\* The read of a save, create or edit without a rival has the post open as it
\* is, and has read nothing of it yet or all.
ReadHolds(w) ==
    Saves(w) \/ req[w].action = "edit" =>
    (call[w].fn = "readFile" /\ rivals[w] = {} =>
        /\ call[w].at = "read" => /\ call[w].ino = dir[call[w].name]
                                  /\ call[w].out \in {<<>>, disk[call[w].ino]}
        /\ call[w].at = "done" /\ call[w].ok =>
             /\ dir[call[w].name] # NoFile
             /\ call[w].out = Lines(disk[dir[call[w].name]]))

\* A text that is known to be saved is on the disk.
SavedContent(n) == \A t \in saved[n] : disk[dir[n]] = t

Content(w) == TextHolds(w) /\ ReadHolds(w)

ContentInv ==
    /\ PostsInv /\ Linked /\ OwnFile
    /\ \A n \in Names : SavedContent(n)
    /\ \A w \in Workers : Content(w)

\* A worker whose own call and request a step leaves alone still has its text.
LEMMA BystanderContent ==
    ASSUME NEW v \in Workers, Content(v), UNCHANGED <<dir, disk>>,
           call'[v] = call[v], req'[v] = req[v],
           rivals'[v] = {} => rivals[v] = {}
    PROVE  Content(v)'
<1>1. TextHolds(v)'
  BY DEF Content, TextHolds, Saves, Left
<1>2. ReadHolds(v)'
  BY DEF Content, ReadHolds, Saves
<1> QED
  BY <1>1, <1>2 DEF Content

\* Between system calls no file is opened or written to.
LEMMA FilesKept ==
    ASSUME ContentInv, NEW w \in Workers, OthersKeep(w),
           call'[w].at \notin {"write", "remove"}
    PROVE  Linked' /\ OwnFile'
BY DEF ContentInv, OthersKeep, Linked, OwnFile

\* What is in the posts when a request begins to touch one.
LEMMA BeginContent ==
    ASSUME ContentInv, NEW w \in Workers, NEW n \in Names,
           NEW fn \in {"writeFile", "deleteFile"}, Begins(w, n, fn)
    PROVE  /\ Linked' /\ OwnFile' /\ \A m \in Names : SavedContent(m)'
           /\ \A v \in Workers : Content(v)'
<1>a. /\ saved \in [Names -> SUBSET {ExtractText(t) : t \in Texts \cup {<<>>}}]
      /\ UNCHANGED <<dirExists, dir, disk>> /\ OthersKeep(w)
      /\ \A v \in Workers \ {w} : call'[v] = call[v] /\ req'[v] = req[v]
  BY DEF ContentInv, PostsInv, PostsTypeOK, Begins, OthersKeep
<1>b. /\ call'[w].fn = fn /\ call'[w].at \in {"mkdir", "open"}
      /\ saved' = [saved EXCEPT ![n] = {}]
  BY DEF Begins, Touch
<1>1. \A v \in Workers : rivals'[v] = {} => v = w \/ rivals[v] = {}
  BY BeginStep DEF ContentInv
<1>2. \A v \in Workers \ {w} : Content(v)'
  BY <1>a, <1>1, BystanderContent DEF ContentInv
<1>3. Content(w)'
  BY <1>b DEF Content, TextHolds, ReadHolds
<1>4. Linked' /\ OwnFile'
  BY <1>a, <1>b, FilesKept
<1>5. \A m \in Names : SavedContent(m)'
  BY <1>a, <1>b DEF ContentInv, SavedContent
<1> QED
  BY <1>2, <1>3, <1>4, <1>5

\* What is in the posts at the other steps between system calls.
LEMMA PassContent ==
    ASSUME ContentInv, NEW w \in Workers, Passes(w), UNCHANGED saved, TextHolds(w)'
    PROVE  /\ Linked' /\ OwnFile' /\ \A m \in Names : SavedContent(m)'
           /\ \A v \in Workers : Content(v)'
<1>a. /\ UNCHANGED <<dirExists, dir, disk>> /\ OthersKeep(w)
      /\ \A v \in Workers \ {w} : /\ call'[v] = call[v] /\ req'[v] = req[v]
                                  /\ rivals'[v] = rivals[v]
      /\ call'[w].at \in {"idle", "open"}
  BY DEF Passes, OthersKeep
<1>1. \A v \in Workers \ {w} : Content(v)'
  BY <1>a, BystanderContent DEF ContentInv
<1>2. Content(w)'
  BY <1>a DEF Content, ReadHolds
<1>3. Linked' /\ OwnFile'
  BY <1>a, FilesKept
<1>4. \A m \in Names : SavedContent(m)'
  BY <1>a DEF ContentInv, SavedContent
<1> QED
  BY <1>1, <1>2, <1>3, <1>4

\* A system call changes the text of no post but of one that it touches.
LEMMA ContentCallStep ==
    ASSUME ContentInv, "write" \notin Faults, NEW w \in Workers, CallStep(w),
           UNCHANGED ghosts
    PROVE  /\ Linked' /\ OwnFile' /\ \A n \in Names : SavedContent(n)'
           /\ \A v \in Workers : Content(v)'
<1>0. PostsInv /\ Linked /\ OwnFile /\ Rivalry
  BY DEF ContentInv, PostsInv
<1>a. /\ call \in [Workers -> Calls] /\ FsTypeOK /\ NoDirectory /\ MarkdownTypeOK
      /\ \A v \in Workers : WellFormed(call[v])
  BY <1>0 DEF PostsInv, PostsTypeOK, MarkdownTypeOK, FsTypeOK
<1>1. FsStep(w) /\ UNCHANGED <<req, saved, rivals, failed>>
  BY DEF CallStep, ghosts
<1>2. /\ \A v \in Workers \ {w} : call'[v] = call[v]
      /\ call'[w].fn = call[w].fn /\ call'[w].name = call[w].name
  BY <1>a, <1>1, FsStepFrame
<1>3. /\ Linked' /\ OwnFile'
      /\ \A n \in Names : dir[n] # NoFile /\ ~ Touches(w, n)
           => dir'[n] = dir[n] /\ disk'[dir[n]] = disk[dir[n]]
      /\ call[w].fn = "writeFile" /\ call'[w].at = "write"
           => dir'[call[w].name] = call'[w].ino /\ disk'[call'[w].ino] = <<>>
      /\ call[w].fn = "writeFile" /\ call'[w].at = "done" /\ call'[w].ok
           => /\ call[w].at = "write" /\ dir' = dir
              /\ disk'[call[w].ino] = Overlay(disk[call[w].ino], call[w].data)
  BY <1>0, <1>a, <1>1, FsStepDisk
<1>4. ASSUME NEW n \in Names PROVE SavedContent(n)'
  <2> SUFFICES ASSUME NEW t \in saved[n] PROVE disk'[dir'[n]] = t
    BY <1>1 DEF SavedContent
  <2>1. dir[n] # NoFile /\ ~ Touches(w, n) /\ disk[dir[n]] = t
    BY DEF ContentInv, PostsInv, SavedHolds, SavedContent
  <2> QED
    BY <1>3, <2>1
<1>5. ASSUME NEW v \in Workers, Saves(v) \/ req[v].action = "edit",
             call[v].fn \in {"writeFile", "readFile"}
      PROVE  /\ call[v].name \in Names
             /\ v # w /\ rivals[v] = {} => ~ Touches(w, call[v].name)
  <2>1. call[v].name \in Names /\ Owns(v, call[v].name)
    BY <1>a, <1>5, Requested DEF Saves
  <2> QED
    BY <1>0, <2>1 DEF Rivalry
<1>6. ASSUME NEW v \in Workers PROVE TextHolds(v)'
  <2> DEFINE n == call[v].name
  <2>0. Left(v)' = Left(v) /\ Saves(v)' = Saves(v)
    BY <1>1 DEF Left, Saves
  <2>1. SUFFICES ASSUME Saves(v), rivals[v] = {}
        PROVE  /\ call'[v].fn = "writeFile" /\ call'[v].at = "write"
                    => dir'[n] = call'[v].ino /\ disk'[call'[v].ino] = <<>>
               /\ (\/ call'[v].fn = "writeFile" /\ call'[v].at = "done" /\ call'[v].ok
                   \/ call'[v].fn = "readFile")
                    => dir'[n] # NoFile /\ disk'[dir'[n]] = Left(v)
    BY <1>1, <1>2, <2>0 DEF TextHolds
  <2>2. TextHolds(v)
    BY DEF ContentInv, Content
  <2>3. CASE v = w /\ call[w].fn = "writeFile"
    <3>1. CASE call'[w].at = "write"
      BY <1>2, <1>3, <2>3, <3>1
    <3>2. CASE call'[w].at = "done" /\ call'[w].ok
      <4>1. /\ call[w].at = "write" /\ dir[n] = call[w].ino /\ disk[call[w].ino] = <<>>
            /\ call[w].ino # NoFile
        BY <1>3, <1>a, <2>1, <2>2, <2>3, <3>2 DEF TextHolds, WellFormed
      <4>2. call[w].data \in Data /\ call[w].data = Left(w)
        BY <1>a, <2>3, Requested DEF Calls
      <4>3. disk'[call[w].ino] = call[w].data
        BY <1>3, <2>3, <3>2, <4>1, <4>2, OverlayEmpty
      <4> QED
        BY <1>2, <1>3, <2>3, <3>2, <4>1, <4>2, <4>3
    <3> QED
      BY <1>2, <2>3, <3>1, <3>2
  <2>4. CASE v = w /\ call[w].fn = "readFile"
    <3>1. UNCHANGED <<dir, disk>>
      BY <1>a, <1>1, <2>4, FsStepRead
    <3> QED
      BY <1>2, <2>1, <2>2, <2>4, <3>1 DEF TextHolds
  <2>5. CASE v = w /\ call[w].fn \notin {"writeFile", "readFile"}
    BY <1>2, <2>5
  <2>6. CASE v # w /\ call[v].fn \in {"writeFile", "readFile"}
    <3>1. n \in Names /\ ~ Touches(w, n)
      BY <1>5, <2>1, <2>6
    <3>2. call[v].at = "write" => call[v].ino # NoFile
      BY <1>a DEF WellFormed
    <3> QED
      BY <1>2, <1>3, <2>1, <2>2, <2>6, <3>1, <3>2 DEF TextHolds
  <2>7. CASE v # w /\ call[v].fn \notin {"writeFile", "readFile"}
    BY <1>2, <2>7
  <2> QED
    BY <2>3, <2>4, <2>5, <2>6, <2>7
<1>7. ASSUME NEW v \in Workers PROVE ReadHolds(v)'
  <2> DEFINE n == call[v].name
  <2>0. Saves(v)' = Saves(v)
    BY <1>1 DEF Saves
  <2>1. SUFFICES ASSUME Saves(v) \/ req[v].action = "edit",
                        call[v].fn = "readFile", rivals[v] = {}
        PROVE  /\ call'[v].at = "read" => /\ call'[v].ino = dir'[n]
                                          /\ call'[v].out \in {<<>>, disk'[call'[v].ino]}
               /\ call'[v].at = "done" /\ call'[v].ok =>
                    dir'[n] # NoFile /\ call'[v].out = Lines(disk'[dir'[n]])
    BY <1>1, <1>2, <2>0 DEF ReadHolds
  <2>2. /\ call[v].at = "read" => /\ call[v].ino = dir[n] /\ call[v].ino # NoFile
                                  /\ call[v].out \in {<<>>, disk[call[v].ino]}
        /\ call[v].at = "done" /\ call[v].ok =>
             dir[n] # NoFile /\ call[v].out = Lines(disk[dir[n]])
    BY <1>a, <2>1 DEF ContentInv, Content, ReadHolds, WellFormed
  <2>3. CASE v = w
    <3>1. call[w].at \in {"open", "read"}
      <4>1. call[w].at \notin {"idle", "done"}
        BY <1>a, <1>1, FsStepFrame
      <4> QED
        BY <1>a, <2>1, <2>3, <4>1 DEF WellFormed, Calls
    <3>2. /\ UNCHANGED <<dir, disk>>
          /\ call'[w].at \in {"read", "done"}
          /\ call[w].at = "open" /\ call'[w].at = "read" =>
               /\ call'[w].ino = dir[n] /\ dir[n] # NoFile /\ call'[w].out = <<>>
          /\ call[w].at = "open" /\ call'[w].at = "done" => ~call'[w].ok
          /\ call[w].at = "read" /\ call[w].out \in {<<>>, disk[call[w].ino]} =>
               /\ call'[w].at = "read" => /\ call'[w].ino = call[w].ino
                                         /\ call'[w].out = disk[call[w].ino]
               /\ call'[w].at = "done" => call'[w].out = Lines(disk[call[w].ino])
      BY <1>a, <1>1, <2>1, <2>3, FsStepRead
    <3> QED
      BY <2>2, <2>3, <3>1, <3>2
  <2>4. CASE v # w
    <3>1. n \in Names /\ ~ Touches(w, n)
      BY <1>5, <2>1, <2>4
    <3> QED
      BY <1>2, <1>3, <2>2, <2>4, <3>1
  <2> QED
    BY <2>3, <2>4
<1> QED
  BY <1>3, <1>4, <1>6, <1>7 DEF Content

\* The page of a save or create tells what is in the post.
LEMMA ContentReply ==
    ASSUME ContentInv, NEW w \in Workers, PostsReply(w)
    PROVE  /\ Linked' /\ OwnFile' /\ \A m \in Names : SavedContent(m)'
           /\ \A v \in Workers : Content(v)'
<1>a. /\ call \in [Workers -> Calls] /\ req \in [Workers -> Requests \cup {NoRequest}]
      /\ rivals \in [Workers -> SUBSET {"writeFile", "deleteFile"}]
      /\ failed \in [Workers -> BOOLEAN] /\ MarkdownTypeOK
      /\ saved \in [Names -> SUBSET {ExtractText(t) : t \in Texts \cup {<<>>}}]
  BY DEF ContentInv, PostsInv, PostsTypeOK, MarkdownTypeOK, FsTypeOK
<1>1. /\ UNCHANGED <<dirExists, dir, disk>>
      /\ call'[w].fn = "none" /\ call'[w].at = "idle"
      /\ \A v \in Workers \ {w} : /\ call'[v] = call[v] /\ req'[v] = req[v]
                                  /\ failed'[v] = failed[v] /\ rivals'[v] = rivals[v]
  BY <1>a DEF PostsReply, Reply, NoCall
<1>2. OthersKeep(w)
  BY <1>1 DEF OthersKeep
<1>3. Linked' /\ OwnFile'
  BY <1>1, <1>2, FilesKept
<1>4. \A v \in Workers \ {w} : Content(v)'
  BY <1>1, BystanderContent DEF ContentInv
<1>5. Content(w)'
  BY <1>1 DEF Content, TextHolds, ReadHolds
<1>6. ASSUME NEW m \in Names PROVE SavedContent(m)'
  <2> DEFINE n == call[w].name
             sure == Saves(w) /\ call[w].fn = "readFile" /\ call[w].ok /\ rivals[w] = {}
  <2>1. saved' = IF sure THEN [saved EXCEPT ![n] = {Left(w)}] ELSE saved
    BY DEF PostsReply, Saves
  <2>2. CASE sure /\ m = n
    <3>1. disk[dir[n]] = Left(w)
      BY <2>2 DEF ContentInv, Content, TextHolds
    <3>2. saved'[m] = {Left(w)}
      BY <1>a, <2>1, <2>2
    <3> QED
      BY <1>1, <2>2, <3>1, <3>2 DEF SavedContent
  <2>3. CASE ~ (sure /\ m = n)
    <3> HIDE DEF n, sure
    <3>1. saved'[m] = saved[m]
      BY <1>a, <2>1, <2>3
    <3> QED
      BY <1>1, <3>1 DEF ContentInv, SavedContent
  <2> QED
    BY <2>2, <2>3
<1> QED
  BY <1>3, <1>4, <1>5, <1>6

\* Every step keeps the invariant about texts.
LEMMA ContentStepInv ==
    ASSUME ContentInv, "write" \notin Faults, [PostsNext]_vars
    PROVE  ContentInv'
<1>0. PostsInv /\ PostsInv' /\ PostsTypeOK /\ Rivalry /\ Linked /\ OwnFile
  BY PostsStepInv DEF ContentInv, PostsInv
<1> SUFFICES /\ Linked' /\ OwnFile' /\ \A m \in Names : SavedContent(m)'
             /\ \A v \in Workers : Content(v)'
  BY <1>0 DEF ContentInv
<1>1. ASSUME NEW w \in Workers, PostsReceive(w)
      PROVE  /\ Linked' /\ OwnFile' /\ \A m \in Names : SavedContent(m)'
             /\ \A v \in Workers : Content(v)'
  <2>1. CASE \E n \in Names : \E fn \in {"writeFile", "deleteFile"} : Begins(w, n, fn)
    BY <2>1, BeginContent
  <2>2. CASE /\ Passes(w) /\ UNCHANGED saved
             /\ Saves(w)' => call'[w].fn \notin {"readFile", "writeFile"}
    <3>1. TextHolds(w)'
      BY <2>2 DEF TextHolds
    <3> QED
      BY <2>2, <3>1, PassContent
  <2> QED
    BY <1>0, <1>1, <2>1, <2>2, ReceiveCases DEF Saves
<1>2. ASSUME NEW w \in Workers, PostsNextCall(w)
      PROVE  /\ Linked' /\ OwnFile' /\ \A m \in Names : SavedContent(m)'
             /\ \A v \in Workers : Content(v)'
  <2>0. UNCHANGED req /\ call[w].at = "done"
    BY <1>0, <1>2, NextCases
  <2>1. CASE \E n \in Names : Begins(w, n, "writeFile")
    BY <2>1, BeginContent
  <2>2. CASE /\ Passes(w) /\ UNCHANGED <<saved, rivals, seen>>
             /\ Saves(w) /\ call[w].fn = "writeFile" /\ call[w].ok
             /\ call'[w].fn = "readFile" /\ call'[w].name = call[w].name
    <3>1. UNCHANGED <<dir, disk>>
      BY <2>2 DEF Passes, OthersKeep
    <3>2. TextHolds(w)
      BY DEF ContentInv, Content
    <3>3. TextHolds(w)'
      BY <2>0, <2>2, <3>1, <3>2 DEF TextHolds, Saves, Left
    <3> QED
      BY <2>2, <3>3, PassContent
  <2>3. CASE Passes(w) /\ UNCHANGED saved /\ call'[w].fn = "listFiles"
    <3>1. TextHolds(w)'
      BY <2>3 DEF TextHolds
    <3> QED
      BY <2>3, <3>1, PassContent
  <2> QED
    BY <1>0, <1>2, <2>1, <2>2, <2>3, NextCases
<1>3. ASSUME NEW w \in Workers, PostsReply(w)
      PROVE  /\ Linked' /\ OwnFile' /\ \A m \in Names : SavedContent(m)'
             /\ \A v \in Workers : Content(v)'
  BY <1>3, ContentReply
<1>4. ASSUME NEW w \in Workers, CallStep(w), UNCHANGED ghosts
      PROVE  /\ Linked' /\ OwnFile' /\ \A m \in Names : SavedContent(m)'
             /\ \A v \in Workers : Content(v)'
  BY <1>4, ContentCallStep
<1>5. CASE PostsExit
  <2>1. /\ UNCHANGED <<dir, disk, saved>>
        /\ \A v \in Workers : call'[v].fn = "none" /\ call'[v].at = "idle"
    BY <1>5 DEF PostsExit, Exit, NoCall
  <2> QED
    BY <1>0, <2>1 DEF ContentInv, Linked, OwnFile, SavedContent, Content, TextHolds, ReadHolds
<1>6. CASE UNCHANGED vars
  <2>1. UNCHANGED <<dir, disk, call, req, saved, rivals>>
    BY <1>6 DEF vars, markdownVars, fsVars, ghosts
  <2>2. \A v \in Workers : Content(v)'
    BY <2>1, BystanderContent DEF ContentInv
  <2> QED
    BY <1>0, <2>1, <2>2 DEF ContentInv, Linked, OwnFile, SavedContent
<1>7. ASSUME NEW w \in Workers, PostsAbandon(w)
      PROVE  /\ Linked' /\ OwnFile' /\ \A m \in Names : SavedContent(m)'
             /\ \A v \in Workers : Content(v)'
  <2>1. /\ Passes(w) /\ UNCHANGED saved /\ req'[w].action = "none"
    BY <1>0, <1>7, AbandonStep
  <2>2. TextHolds(w)'
    BY <2>1 DEF TextHolds, Saves
  <2> QED
    BY <2>1, <2>2, PassContent
<1> QED
  BY <1>1, <1>2, <1>3, <1>4, <1>5, <1>6, <1>7 DEF PostsNext

\* The invariant about texts holds in every state, if the disk takes all that
\* is written to it.
LEMMA ContentInvariant ==
    ASSUME "write" \notin Faults
    PROVE  PostsSpec => []ContentInv
<1>1. PostsInit /\ PostsInv => ContentInv
  <2> SUFFICES ASSUME PostsInit, PostsInv PROVE ContentInv
    OBVIOUS
  <2>1. \A w \in Workers : call[w].fn = "none" /\ call[w].at = "idle"
    BY DEF PostsInit, MarkdownInit, FsInit, NoCall
  <2>2. \A n \in Names : dir[n] = NoFile /\ saved[n] = {}
    BY DEF PostsInit, MarkdownInit, FsInit
  <2> QED
    BY <2>1, <2>2 DEF ContentInv, Linked, OwnFile, SavedContent, Content, TextHolds, ReadHolds
<1>2. ContentInv /\ [PostsNext]_vars => ContentInv'
  BY ContentStepInv
<1> QED
  BY <1>1, <1>2, PostsInvariant, PTL DEF PostsSpec

\* A post whose save or create was acknowledged without a rival keeps exactly
\* its text until the next request that is to change it, whatever else the
\* server does, and across its exit, even if opens fail.
THEOREM SavedTextSurvives ==
    ASSUME "write" \notin Faults
    PROVE  PostsSpec => []SavedTextKept
<1>1. ContentInv => SavedTextKept
  BY DEF ContentInv, PostsInv, SavedHolds, SavedContent, SavedTextKept
<1> QED
  BY <1>1, ContentInvariant, PTL

\* The page that a save or create replies with shows what it wrote, read back
\* by a second call, if nobody else touched the post in between.
THEOREM PageShowsWhatWasSaved ==
    ASSUME "write" \notin Faults
    PROVE  PostsSpec => []PageShowsOwnText
<1>1. ContentInv => PageShowsOwnText
  <2> SUFFICES ASSUME ContentInv, NEW w \in Workers, Handled(w), rivals[w] = {},
                      Saves(w), Status(req[w], call[w]) = 200
               PROVE  call[w].out = Lines(Left(w))
    BY DEF PageShowsOwnText, Saves
  <2>1. /\ MarkdownTypeOK /\ call[w] \in Calls /\ WellFormed(call[w])
        /\ Serves(call[w], req[w])
    BY DEF ContentInv, PostsInv, PostsTypeOK, MarkdownTypeOK, FsTypeOK
  <2>2. call[w].fn # "writeFile" /\ call[w].ok
    BY <2>1 DEF Status, Saves, Calls
  <2>3. call[w].fn # "none"
    BY <2>1, <2>2, Requested, CallFields
  <2>4. call[w].fn = "readFile"
    BY <2>1, <2>2, <2>3 DEF Handled, Final, Saves, Serves
  <2>5. call[w].at = "done"
    BY <2>1, <2>4 DEF Handled, WellFormed
  <2> QED
    BY <2>2, <2>4, <2>5 DEF ContentInv, Content, TextHolds, ReadHolds
<1> QED
  BY <1>1, ContentInvariant, PTL

\* Exactly the texts that neither the edit page nor a browser changes are still
\* what a post holds when the page that an edit shows of it, with the number
\* filled in, is sent back and saved: such a text does not grow by an end of
\* line either, and every other text is changed.
THEOREM EditedPageSavesSame ==
    ASSUME "write" \notin Faults
    PROVE  PostsSpec => []EditSaveIdentity
<1>1. ContentInv => EditSaveIdentity
  <2> SUFFICES ASSUME ContentInv, NEW w \in Workers, Handled(w), rivals[w] = {},
                      req[w].action = "edit", Status(req[w], call[w]) = 200,
                      NEW t \in saved[req[w].post]
               PROVE  ComesBack(t) <=>
                        /\ EditForm(call[w].out).filled = 0
                        /\ ExtractText(Append(Textarea(EditForm(call[w].out).text), NL)) = t
    BY DEF EditSaveIdentity
  <2>1. /\ MarkdownTypeOK /\ call[w] \in Calls /\ WellFormed(call[w])
        /\ saved \in [Names -> SUBSET {ExtractText(u) : u \in Texts \cup {<<>>}}]
    BY DEF ContentInv, PostsInv, PostsTypeOK, MarkdownTypeOK, FsTypeOK
  <2>2. /\ call[w].fn = "readFile" /\ call[w].name = req[w].post
        /\ req[w].post \in Names
    BY <2>1, Requested
  <2>3. call[w].at = "done" /\ call[w].ok
    BY <2>1, <2>2 DEF Handled, WellFormed, Status, Calls
  <2>4. call[w].out = Lines(disk[dir[req[w].post]])
    BY <2>2, <2>3 DEF ContentInv, Content, ReadHolds
  <2>5. disk[dir[req[w].post]] = t
    BY <2>2 DEF ContentInv, SavedContent
  <2>6. t \in Data /\ Ended(t)
    <3>1. <<>> \in Data
      BY DEF Data
    <3>2. PICK u \in Texts \cup {<<>>} : t = ExtractText(u)
      BY <2>1, <2>2
    <3> QED
      BY <3>1, <3>2, ExtractTextType, MarkdownAssumption
  <2>7. EditForm(call[w].out).text = Lines(t)
    BY <2>4, <2>5 DEF EditForm
  <2>8. EditForm(call[w].out).filled = 0 <=> \A n \in DOMAIN t : t[n] # PostIdHole
    BY <2>4, <2>5, <2>6, FormFilled
  <2>9. (\A n \in DOMAIN t : t[n] # PostIdHole) =>
          (ComesBack(t) <=> ExtractText(Append(Textarea(Lines(t)), NL)) = t)
    BY <2>6, FormSame DEF ComesBack
  <2>10. ComesBack(t) => \A n \in DOMAIN t : t[n] # PostIdHole
    BY DEF ComesBack
  <2> QED
    BY <2>7, <2>8, <2>9, <2>10
<1> QED
  BY <1>1, ContentInvariant, PTL
=============================================================================

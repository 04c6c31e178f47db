------------------------- MODULE EpollFraming_proofs -------------------------
(***************************************************************************)
(* isRequestComplete, std::stoi and the body part of parseHttpRequest      *)
(* agree with EpollServer's count of segments, for any number of segments  *)
(* and any way to cut a request into them.                                 *)
(*                                                                         *)
(* HeadAndRest is the heart of it: what find sees of a text that has come  *)
(* in part is what it would see of the whole, so a head that names a       *)
(* length decides alone when its request is complete, whatever text it is  *)
(* and whatever follows. BodyAfterHead says the same of the body. The rest *)
(* shows that the requests of EpollFraming have such heads, and that       *)
(* std::stoi reads their lengths as they were written.                     *)
(***************************************************************************)
EXTENDS EpollFraming, EpollServer_proofs, SequenceTheorems, WellFoundedInduction

-----------------------------------------------------------------------------
(* Searching: std::string::find.                                           *)

(* A set of numbers that is not empty has a least one, and Min returns it. *)
LEMMA LeastExists ==
    ASSUME NEW P \in SUBSET Nat, P # {}
    PROVE  Min(P) \in P /\ \A j \in P : Min(P) <= j
<1>1. PICK m \in P : \A k \in P : <<k, m>> \notin OpToRel(<, Nat)
  BY NatLessThanWellFounded, WFMin, Zenon
<1>2. \A k \in P : ~(k < m)
  BY <1>1, Zenon DEF OpToRel
<1>3. \A k \in P : m =< k
  BY <1>2
<1>. QED  BY <1>3, Zenon DEF Min

(* What is below every member of a set that it belongs to is its Min.      *)
LEMMA LeastIs ==
    ASSUME NEW P \in SUBSET Nat, NEW m \in P, \A j \in P : m <= j
    PROVE  Min(P) = m
<1>1. Min(P) \in P /\ \A j \in P : Min(P) <= j
  BY LeastExists
<1>2. Min(P) \in Nat /\ m \in Nat /\ Min(P) <= m /\ m <= Min(P)
  BY <1>1
<1>. QED  BY <1>2

(* part stands in text at place i.                                         *)
At(text, part, i) == \A j \in 1..Len(part) : text[i + j - 1] = part[j]

Places(text, part, from) ==
    {i \in from..(Len(text) - Len(part) + 1) : At(text, part, i)}

(* std::string::find returns the first place where the part stands.        *)
LEMMA FindPlaces ==
    ASSUME NEW S, NEW text \in Seq(S), NEW part \in Seq(S), NEW from \in Nat \ {0}
    PROVE  Find(text, part, from) =
               IF Places(text, part, from) = {} THEN 0 ELSE Min(Places(text, part, from))
<1>1. ASSUME NEW i \in from..(Len(text) - Len(part) + 1)
      PROVE  SubSeq(text, i, i + Len(part) - 1) = part <=> At(text, part, i)
  <2>1. /\ i \in Int /\ i + Len(part) - 1 \in Int
        /\ \A j \in i..(i + Len(part) - 1) : text[j] \in S
    OBVIOUS
  <2> DEFINE cut == SubSeq(text, i, i + Len(part) - 1)
  <2>2. /\ cut \in Seq(S) /\ Len(cut) = Len(part)
        /\ \A j \in 1..Len(part) : cut[j] = text[i + j - 1]
    <3>1. /\ cut \in Seq(S)
          /\ Len(cut) = IF i <= i + Len(part) - 1 THEN (i + Len(part) - 1) - i + 1 ELSE 0
          /\ \A j \in 1..((i + Len(part) - 1) - i + 1) : cut[j] = text[i + j - 1]
      BY <2>1, SubSeqProperties
    <3>. QED  BY <3>1
  <2> HIDE DEF cut
  <2>3. CASE At(text, part, i)
    <3>1. \A j \in 1..Len(cut) : cut[j] = part[j]
      BY <2>2, <2>3 DEF At
    <3>2. cut = part
      BY <2>2, <3>1, SeqEqual
    <3>. QED  BY <2>3, <3>2 DEF cut
  <2>4. CASE cut = part
    <3>1. At(text, part, i)
      BY <2>2, <2>4 DEF At
    <3>. QED  BY <3>1, <2>4 DEF cut
  <2>. QED  BY <2>3, <2>4 DEF cut
<1>2. Places(text, part, from) =
          {i \in from..(Len(text) - Len(part) + 1) : SubSeq(text, i, i + Len(part) - 1) = part}
  BY <1>1 DEF Places
<1>. QED  BY <1>2, Zenon DEF Find

(* std::string::find returns the first place, and 0 when there is none.    *)
LEMMA FindFirst ==
    ASSUME NEW S, NEW text \in Seq(S), NEW part \in Seq(S), NEW from \in Nat \ {0}
    PROVE  \/ /\ Find(text, part, from) = 0
              /\ Places(text, part, from) = {}
           \/ /\ Find(text, part, from) \in Places(text, part, from)
              /\ \A j \in Places(text, part, from) : Find(text, part, from) <= j
<1> DEFINE P == Places(text, part, from)
<1>1. P \in SUBSET Nat
  BY DEF Places
<1>2. Find(text, part, from) = IF P = {} THEN 0 ELSE Min(P)
  BY FindPlaces
<1> HIDE DEF P
<1>3. CASE P = {}
  BY <1>2, <1>3 DEF P
<1>4. CASE P # {}
  <2>1. Min(P) \in P /\ \A j \in P : Min(P) <= j
    BY <1>1, <1>4, LeastExists
  <2>. QED  BY <1>2, <1>4, <2>1 DEF P
<1>. QED  BY <1>3, <1>4

(* A place before which the part stands nowhere is the one that is found.  *)
LEMMA FindIs ==
    ASSUME NEW S, NEW text \in Seq(S), NEW part \in Seq(S), NEW from \in Nat \ {0},
           NEW i \in from..(Len(text) - Len(part) + 1), At(text, part, i),
           \A j \in from..(i - 1) : ~At(text, part, j)
    PROVE  Find(text, part, from) = i
<1>1. i \in Places(text, part, from) /\ \A j \in Places(text, part, from) : i <= j
  BY DEF Places
<1>2. Places(text, part, from) \subseteq Nat
  BY DEF Places
<1>. QED  BY <1>1, <1>2, FindFirst

Agree(s, t) == \A i \in 1..Len(s) : s[i] = t[i]

(* What is found in the first part of a text is found in all of it.        *)
LEMMA FindInMore ==
    ASSUME NEW S, NEW text \in Seq(S), NEW more \in Seq(S), NEW part \in Seq(S),
           NEW from \in Nat \ {0},
           Len(text) <= Len(more), Agree(text, more), Find(text, part, from) # 0
    PROVE  Find(more, part, from) = Find(text, part, from)
<1> DEFINE f == Find(text, part, from)
<1>1. f \in Places(text, part, from) /\ \A j \in Places(text, part, from) : f <= j
  BY FindFirst
<1>2. f \in from..(Len(text) - Len(part) + 1)
  BY <1>1 DEF Places
<1>3. ASSUME NEW i \in from..f
      PROVE  At(more, part, i) <=> At(text, part, i)
  <2>1. \A j \in 1..Len(part) : i + j - 1 \in 1..Len(text)
    BY <1>2
  <2>. QED  BY <2>1 DEF At, Agree
<1>4. At(more, part, f)
  BY <1>1, <1>2, <1>3 DEF Places
<1>5. \A j \in from..(f - 1) : ~At(more, part, j)
  BY <1>1, <1>2, <1>3 DEF Places
<1>6. f \in from..(Len(more) - Len(part) + 1)
  BY <1>2
<1> HIDE DEF f
<1>7. Find(more, part, from) = f
  BY <1>4, <1>5, <1>6, FindIs
<1>. QED  BY <1>7 DEF f

(* What is found at the end of a text is not found before it has all come. *)
LEMMA FindInLess ==
    ASSUME NEW S, NEW text \in Seq(S), NEW less \in Seq(S), NEW part \in Seq(S),
           Len(part) > 0,
           Len(less) < Len(text), Agree(less, text),
           Find(text, part, 1) = Len(text) - Len(part) + 1
    PROVE  Find(less, part, 1) = 0
<1>1. ASSUME NEW i \in Places(less, part, 1) PROVE FALSE
  <2>1. i \in 1..(Len(less) - Len(part) + 1) /\ At(less, part, i)
    BY DEF Places
  <2>2. \A j \in 1..Len(part) : i + j - 1 \in 1..Len(less)
    BY <2>1
  <2>3. At(text, part, i)
    BY <2>1, <2>2 DEF At, Agree
  <2>4. i \in Places(text, part, 1) /\ i < Len(text) - Len(part) + 1
    BY <2>1, <2>3 DEF Places
  <2>5. Find(text, part, 1) <= i
    BY <2>4, FindFirst
  <2> DEFINE l == Len(text)
             m == Len(part)
  <2>6. l \in Nat /\ m \in Nat /\ i < l - m + 1 /\ l - m + 1 <= i
    BY <2>4, <2>5
  <2>7. i \in Nat
    BY <2>1
  <2> HIDE DEF l, m
  <2>. QED  BY <2>6, <2>7
<1>. QED  BY <1>1, FindFirst

-----------------------------------------------------------------------------
(* Head of a request that ends with its first blank line.                  *)
BlankLine == CRLF \o CRLF
FieldName == <<ContentLength>>
NameAt(head) == Find(head, FieldName, 1)
LineEnd(head) == Find(head, CRLF, NameAt(head) + 1)
ValueOf(head) == SubSeq(head, NameAt(head) + 1, LineEnd(head) - 1)

EndsOnce(head) ==
    Len(head) > 3 /\ Find(head, BlankLine, 1) = Len(head) - 3

(* The three marks that isRequestComplete searches for are texts.          *)
LEMMA Marks ==
    ASSUME NEW S, {CR, LF, ContentLength} \subseteq S
    PROVE  CRLF \in Seq(S) /\ BlankLine \in Seq(S) /\ FieldName \in Seq(S)
<1>1. CRLF \in Seq(S)
  BY DEF CRLF
<1>2. BlankLine \in Seq(S)
  BY <1>1, ConcatProperties DEF BlankLine
<1>. QED  BY <1>1, <1>2 DEF FieldName

(* Where they stand, token by token.                                       *)
LEMMA AtMarks ==
    ASSUME NEW S, NEW text \in Seq(S), NEW i \in Nat
    PROVE  /\ Len(CRLF) = 2 /\ Len(BlankLine) = 4 /\ Len(FieldName) = 1
           /\ At(text, FieldName, i) <=> text[i] = ContentLength
           /\ At(text, CRLF, i) <=> text[i] = CR /\ text[i + 1] = LF
           /\ At(text, BlankLine, i) <=> /\ text[i] = CR /\ text[i + 1] = LF
                                        /\ text[i + 2] = CR /\ text[i + 3] = LF
<1>1. /\ Len(CRLF) = 2 /\ Len(BlankLine) = 4 /\ Len(FieldName) = 1
  BY DEF CRLF, BlankLine, FieldName
<1>2. /\ CRLF[1] = CR /\ CRLF[2] = LF /\ FieldName[1] = ContentLength
      /\ BlankLine[1] = CR /\ BlankLine[2] = LF /\ BlankLine[3] = CR /\ BlankLine[4] = LF
  BY DEF CRLF, BlankLine, FieldName
<1>3. At(text, FieldName, i) <=> text[i] = ContentLength
  <2>1. At(text, FieldName, i) <=> \A j \in 1..1 : text[i + j - 1] = FieldName[j]
    BY <1>1 DEF At
  <2>2. i + 1 - 1 = i
    OBVIOUS
  <2>. QED  BY <1>2, <2>1, <2>2
<1>4. At(text, CRLF, i) <=> text[i] = CR /\ text[i + 1] = LF
  <2>1. At(text, CRLF, i) <=> \A j \in 1..2 : text[i + j - 1] = CRLF[j]
    BY <1>1 DEF At
  <2>2. i + 1 - 1 = i /\ i + 2 - 1 = i + 1
    OBVIOUS
  <2>. QED  BY <1>2, <2>1, <2>2
<1>5. At(text, BlankLine, i) <=> /\ text[i] = CR /\ text[i + 1] = LF
                                 /\ text[i + 2] = CR /\ text[i + 3] = LF
  <2>1. At(text, BlankLine, i) <=> \A j \in 1..4 : text[i + j - 1] = BlankLine[j]
    BY <1>1 DEF At
  <2>2. i + 1 - 1 = i /\ i + 2 - 1 = i + 1 /\ i + 3 - 1 = i + 2 /\ i + 4 - 1 = i + 3
    OBVIOUS
  <2>. QED  BY <1>2, <2>1, <2>2
<1>. QED  BY <1>1, <1>3, <1>4, <1>5

(* The same, of the places of a text from which find chooses.              *)
LEMMA MarkPlaces ==
    ASSUME NEW S, NEW text \in Seq(S), NEW from \in Nat \ {0}, NEW i
    PROVE  /\ i \in Places(text, FieldName, from)
                  <=> i \in from..Len(text) /\ text[i] = ContentLength
           /\ i \in Places(text, CRLF, from)
                  <=> i \in from..(Len(text) - 1) /\ text[i] = CR /\ text[i + 1] = LF
<1> DEFINE l == Len(text)
           m == Len(CRLF)
           n == Len(FieldName)
<1>1. m = 2 /\ n = 1 /\ l \in Nat
  BY AtMarks
<1>2. i \in Places(text, FieldName, from) <=> i \in from..(l - n + 1) /\ At(text, FieldName, i)
  BY DEF Places
<1>3. i \in Places(text, CRLF, from) <=> i \in from..(l - m + 1) /\ At(text, CRLF, i)
  BY DEF Places
<1> HIDE DEF l, m, n
<1>4. l - n + 1 = l /\ l - m + 1 = l - 1
  BY <1>1
<1>5. i \in from..l => i \in Nat
  BY <1>1
<1>6. i \in from..(l - 1) => i \in Nat
  BY <1>1
<1>7. i \in Places(text, FieldName, from) <=> i \in from..l /\ text[i] = ContentLength
  BY <1>2, <1>4, <1>5, AtMarks
<1>8. i \in Places(text, CRLF, from) <=> i \in from..(l - 1) /\ text[i] = CR /\ text[i + 1] = LF
  BY <1>3, <1>4, <1>6, AtMarks
<1>. QED  BY <1>7, <1>8 DEF l

(* Prefixes of a text. *)
LEMMA Received ==
    ASSUME NEW S, NEW text \in Seq(S), NEW k \in 0..Len(text)
    PROVE  /\ SubSeq(text, 1, k) \in Seq(S) /\ Len(SubSeq(text, 1, k)) = k
           /\ \A i \in 1..k : SubSeq(text, 1, k)[i] = text[i]
<1>1. \A i \in 1..k : text[i] \in S
  OBVIOUS
<1>. QED  BY <1>1, SubSeqProperties

(* A cut through the first part of a text is a cut through all of it.      *)
LEMMA SameValue ==
    ASSUME NEW S, NEW text \in Seq(S), NEW more \in Seq(S),
           Len(text) <= Len(more), Agree(text, more),
           NEW m \in Nat \ {0}, NEW n \in Int, n <= Len(text)
    PROVE  SubSeq(more, m, n) = SubSeq(text, m, n)
<1>1. \A i \in m..n : text[i] \in S /\ more[i] = text[i]
  BY DEF Agree
<1> DEFINE a == SubSeq(more, m, n)
           b == SubSeq(text, m, n)
<1>2. /\ a \in Seq(S) /\ b \in Seq(S) /\ Len(a) = Len(b)
      /\ Len(a) = IF m <= n THEN n - m + 1 ELSE 0
      /\ \A i \in 1..(n - m + 1) : a[i] = more[m + i - 1] /\ b[i] = text[m + i - 1]
  BY <1>1, SubSeqProperties
<1> HIDE DEF a, b
<1>3. ASSUME NEW i \in 1..Len(a) PROVE a[i] = b[i]
  <2>1. i \in 1..(n - m + 1)
    BY <1>2
  <2>2. m + i - 1 \in m..n
    BY <2>1
  <2>. QED  BY <1>1, <1>2, <2>1, <2>2
<1>4. a = b
  BY <1>2, <1>3, SeqEqual
<1>. QED  BY <1>4 DEF a, b

(* isRequestComplete on any request whose head ends with its first blank   *)
(* line.                                                                   *)
LEMMA HeadDecides ==
    ASSUME NEW S, {CR, LF, ContentLength} \subseteq S,
           NEW head \in Seq(S), NEW buffer \in Seq(S),
           EndsOnce(head), NameAt(head) # 0,
           Len(head) <= Len(buffer), Agree(head, buffer)
    PROVE  IsRequestComplete(buffer)
               <=> \A n \in Stoi(ValueOf(head)) : LongEnough(Len(buffer) - Len(head), n)
<1> DEFINE h == Len(head)
           c == NameAt(head)
           e == LineEnd(head)
<1>1. h \in Nat /\ h > 3 /\ h - 3 > 0 /\ Find(head, BlankLine, 1) = h - 3
  BY DEF EndsOnce
<1>2. /\ Find(head, BlankLine, 1) # 0
      /\ Find(buffer, BlankLine, 1) = Find(head, BlankLine, 1)
  BY <1>1, Marks, FindInMore
<1>3. Find(buffer, FieldName, 1) = c
  BY Marks, FindInMore DEF NameAt
<1>4. c \in 1..h /\ head[c] = ContentLength
  <2>1. c \in Places(head, FieldName, 1)
    BY Marks, FindFirst DEF NameAt
  <2>. QED  BY <2>1, MarkPlaces
<1>5. head[h - 3] = CR /\ head[h - 2] = LF /\ head[h - 1] = CR /\ head[h] = LF
  <2>1. h - 3 \in Places(head, BlankLine, 1)
    BY <1>1, <1>2, Marks, FindFirst
  <2>2. At(head, BlankLine, h - 3) /\ h - 3 \in Nat
    BY <1>1, <2>1 DEF Places
  <2>3. (h - 3) + 1 = h - 2 /\ (h - 3) + 2 = h - 1 /\ (h - 3) + 3 = h
    BY <1>1
  <2> HIDE DEF h
  <2>. QED  BY <2>2, <2>3, AtMarks
<1>6. c + 1 \in 1..(h - 1) /\ c + 1 \in Nat \ {0}
  <2>1. CR # ContentLength /\ LF # ContentLength
    BY DEF CR, LF, ContentLength
  <2> HIDE DEF c, h
  <2>2. c # h /\ c # h - 1
    BY <1>4, <1>5, <2>1
  <2>. QED  BY <1>1, <1>4, <2>2
<1>7. e # 0 /\ e \in (c + 1)..(h - 1)
  <2>1. h - 1 \in (c + 1)..(h - 1) /\ (h - 1) + 1 = h
    BY <1>1, <1>6
  <2>2. h - 1 \in Places(head, CRLF, c + 1)
    BY <1>5, <1>6, <2>1, MarkPlaces
  <2>3. e \in Places(head, CRLF, c + 1)
    BY <1>6, <2>2, Marks, FindFirst DEF LineEnd
  <2>4. e \in (c + 1)..(h - 1)
    BY <1>6, <2>3, MarkPlaces
  <2>. QED  BY <1>6, <2>4
<1>8. Find(buffer, CRLF, c + 1) = e
  BY <1>6, <1>7, Marks, FindInMore DEF LineEnd
<1>9. SubSeq(buffer, c + 1, e - 1) = ValueOf(head)
  <2>1. e - 1 \in Int /\ e - 1 <= Len(head)
    BY <1>1, <1>6, <1>7
  <2>2. SubSeq(buffer, c + 1, e - 1) = SubSeq(head, c + 1, e - 1)
    BY <1>6, <2>1, SameValue
  <2>. QED  BY <2>2 DEF ValueOf
<1>10. Len(buffer) - (BodyStart(h - 3) - 1) = Len(buffer) - h
  BY <1>1 DEF BodyStart
<1>11. Find(buffer, BlankLine, 1) = h - 3 /\ h - 3 # 0
  <2> HIDE DEF h
  <2>. QED  BY <1>1, <1>2
<1>12. c # 0
  OBVIOUS
<1> HIDE DEF h, c, e
<1>13. IsRequestComplete(buffer)
          <=> \A n \in Stoi(ValueOf(head)) : LongEnough(Len(buffer) - h, n)
  BY <1>3, <1>7, <1>8, <1>9, <1>10, <1>11, <1>12
  DEF IsRequestComplete, BlankLine, FieldName
<1>. QED  BY <1>13 DEF h

(* Before all of its head has come a request is not complete: what is      *)
(* missing of it is at least the last character of the blank line          *)
(* (server_epoll.cpp:397).                                                 *)
LEMMA NotWithoutHead ==
    ASSUME NEW S, {CR, LF, ContentLength} \subseteq S,
           NEW head \in Seq(S), NEW buffer \in Seq(S),
           EndsOnce(head), Len(buffer) < Len(head), Agree(buffer, head)
    PROVE  ~IsRequestComplete(buffer)
<1>1. Len(BlankLine) = 4
  BY AtMarks
<1>2. Find(head, BlankLine, 1) = Len(head) - Len(BlankLine) + 1 /\ Len(BlankLine) > 0
  BY <1>1 DEF EndsOnce
<1>3. Find(buffer, BlankLine, 1) = 0
  BY <1>2, Marks, FindInLess
<1>. QED  BY <1>3, Zenon DEF IsRequestComplete, BlankLine

(* Without the field, a request is complete with its head                  *)
(* (server_epoll.cpp:402).                                                 *)
LEMMA NoLengthNamed ==
    ASSUME NEW S, {CR, LF, ContentLength} \subseteq S,
           NEW head \in Seq(S), NEW buffer \in Seq(S),
           EndsOnce(head), Find(buffer, FieldName, 1) = 0,
           Len(head) <= Len(buffer), Agree(head, buffer)
    PROVE  IsRequestComplete(buffer)
<1>1. Find(head, BlankLine, 1) > 0
  BY DEF EndsOnce
<1>2. /\ Find(head, BlankLine, 1) # 0
      /\ Find(buffer, BlankLine, 1) = Find(head, BlankLine, 1)
  BY <1>1, Marks, FindInMore
<1>. QED  BY <1>2, Zenon DEF IsRequestComplete, BlankLine, FieldName

(* A head with a Content-Length decides alone when its request is          *)
(* complete, whatever has come after it.                                   *)
THEOREM HeadAndRest ==
    ASSUME NEW S, {CR, LF, ContentLength} \subseteq S,
           NEW head \in Seq(S), NEW rest \in Seq(S), NEW k \in 0..Len(head \o rest),
           EndsOnce(head), NameAt(head) # 0
    PROVE  IsRequestComplete(SubSeq(head \o rest, 1, k))
               <=> /\ k >= Len(head)
                   /\ \A n \in Stoi(ValueOf(head)) : LongEnough(k - Len(head), n)
<1> DEFINE text == head \o rest
           buffer == SubSeq(text, 1, k)
<1>1. /\ text \in Seq(S) /\ Len(text) = Len(head) + Len(rest)
      /\ \A i \in 1..Len(head) : text[i] = head[i]
  <2>1. \A i \in 1..Len(head) : i \in 1..(Len(head) + Len(rest)) /\ i <= Len(head)
    OBVIOUS
  <2>. QED  BY <2>1, ConcatProperties
<1> HIDE DEF text
<1>2. /\ buffer \in Seq(S) /\ Len(buffer) = k
      /\ \A i \in 1..k : buffer[i] = text[i]
  BY <1>1, Received DEF text
<1> HIDE DEF buffer
<1>3. CASE k >= Len(head)
  <2>1. Agree(head, buffer) /\ Len(head) <= Len(buffer)
    BY <1>1, <1>2, <1>3 DEF Agree
  <2>2. IsRequestComplete(buffer)
            <=> \A n \in Stoi(ValueOf(head)) : LongEnough(Len(buffer) - Len(head), n)
    BY <1>2, <2>1, HeadDecides
  <2>. QED  BY <1>2, <1>3, <2>2 DEF buffer, text
<1>4. CASE ~(k >= Len(head))
  <2>1. Agree(buffer, head) /\ Len(buffer) < Len(head)
    BY <1>1, <1>2, <1>4 DEF Agree
  <2>2. ~IsRequestComplete(buffer)
    BY <1>2, <2>1, NotWithoutHead
  <2>. QED  BY <1>4, <2>2 DEF buffer, text
<1>. QED  BY <1>3, <1>4

(* Without one, the request ends with its head.                            *)
LEMMA HeadAlone ==
    ASSUME NEW S, {CR, LF, ContentLength} \subseteq S,
           NEW head \in Seq(S), NEW k \in 0..Len(head),
           EndsOnce(head), NameAt(head) = 0
    PROVE  IsRequestComplete(SubSeq(head, 1, k)) <=> k = Len(head)
<1> DEFINE buffer == SubSeq(head, 1, k)
<1>1. /\ buffer \in Seq(S) /\ Len(buffer) = k
      /\ \A i \in 1..k : buffer[i] = head[i]
  BY Received
<1> HIDE DEF buffer
<1>2. CASE k = Len(head)
  <2>1. Len(buffer) = Len(head) /\ \A i \in 1..Len(buffer) : buffer[i] = head[i]
    BY <1>1, <1>2
  <2>2. buffer = head
    BY <1>1, <2>1, SeqEqual
  <2>3. Agree(head, head) /\ Len(head) <= Len(head)
    BY DEF Agree
  <2>4. IsRequestComplete(head)
    BY <2>3, NoLengthNamed DEF NameAt
  <2>. QED  BY <1>2, <2>2, <2>4 DEF buffer
<1>3. CASE k # Len(head)
  <2>1. Agree(buffer, head) /\ Len(buffer) < Len(head)
    BY <1>1, <1>3 DEF Agree
  <2>2. ~IsRequestComplete(buffer)
    BY <1>1, <2>1, NotWithoutHead
  <2>. QED  BY <1>3, <2>2 DEF buffer
<1>. QED  BY <1>2, <1>3

-----------------------------------------------------------------------------
(* parseHttpRequest finds the body where isRequestComplete has counted     *)
(* it from.                                                                *)
LinesEndInCrLf(head) ==
    \A i \in 1..Len(head) : head[i] = LF => i > 1 /\ head[i - 1] = CR

(* parseHttpRequest takes for the body exactly what isRequestComplete has  *)
(* counted as the body, though one of them looks for CR LF CR LF and the   *)
(* other for an empty line, but for a newline at its end                   *)
(* (request_handler.cpp:342-353).                                          *)
THEOREM BodyAfterHead ==
    ASSUME NEW S, {CR, LF, ContentLength} \subseteq S,
           NEW head \in Seq(S), NEW body \in Seq(S),
           EndsOnce(head), LinesEndInCrLf(head)
    PROVE  BodyOf(head \o body) = WithoutLastNewline(body)
<1> DEFINE text == head \o body
           h == Len(head)
           ends == {i \in 2..Len(text) : EndsHead(text, i)}
<1>1. /\ text \in Seq(S) /\ Len(text) = h + Len(body)
      /\ \A i \in 1..(h + Len(body)) : text[i] = IF i <= h THEN head[i] ELSE body[i - h]
  BY ConcatProperties
<1> HIDE DEF text
<1>2. h \in Nat /\ h > 3 /\ Len(body) \in Nat
  BY DEF EndsOnce
<1>12. /\ \A i \in 1..h : text[i] = head[i]
       /\ \A i \in 1..Len(body) : text[h + i] = body[i]
  <2>1. \A i \in 1..h : i \in 1..(h + Len(body)) /\ i <= h
    BY <1>2
  <2>2. \A i \in 1..Len(body) : h + i \in 1..(h + Len(body)) /\ ~(h + i <= h) /\ (h + i) - h = i
    BY <1>2
  <2> HIDE DEF h
  <2>. QED  BY <1>1, <2>1, <2>2
<1>3. /\ h - 3 \in Places(head, BlankLine, 1)
      /\ \A j \in Places(head, BlankLine, 1) : h - 3 <= j
  <2>1. Find(head, BlankLine, 1) = h - 3 /\ h - 3 > 0
    BY <1>2 DEF EndsOnce
  <2> HIDE DEF h
  <2>. QED  BY <1>2, <2>1, Marks, FindFirst
<1>4. ASSUME NEW j \in 1..(h - 4), head[j] = CR, head[j + 1] = LF,
             head[j + 2] = CR, head[j + 3] = LF
      PROVE  FALSE
  <2>1. At(head, BlankLine, j)
    BY <1>2, <1>4, AtMarks
  <2>2. j \in Places(head, BlankLine, 1)
    <3> DEFINE m == Len(BlankLine)
    <3>1. m = 4
      BY AtMarks
    <3>2. Places(head, BlankLine, 1) = {i \in 1..(h - m + 1) : At(head, BlankLine, i)}
      BY DEF Places
    <3> HIDE DEF m, h
    <3>3. j \in 1..(h - m + 1)
      BY <1>2, <3>1
    <3>. QED  BY <2>1, <3>2, <3>3
  <2>. QED  BY <1>2, <1>3, <2>2
<1>5. head[h - 2] = LF /\ head[h - 1] = CR /\ head[h] = LF
  <2>1. At(head, BlankLine, h - 3) /\ h - 3 \in Nat
    BY <1>2, <1>3 DEF Places
  <2>2. (h - 3) + 1 = h - 2 /\ (h - 3) + 2 = h - 1 /\ (h - 3) + 3 = h
    BY <1>2
  <2> HIDE DEF h
  <2>. QED  BY <2>1, <2>2, AtMarks
<1>6. h \in ends
  <2>1. h \in 2..Len(text) /\ h > 2
    BY <1>1, <1>2
  <2>2. text[h] = LF /\ text[h - 1] = CR /\ text[h - 2] = LF
    <3>1. h \in 1..h /\ h - 1 \in 1..h /\ h - 2 \in 1..h
      BY <1>2
    <3>. QED  BY <1>5, <1>12, <3>1
  <2> HIDE DEF h
  <2>. QED  BY <2>1, <2>2 DEF EndsHead
<1>7. \A i \in ends : h <= i
  <2>1. SUFFICES ASSUME NEW i \in ends, i < h PROVE FALSE
    BY <1>1, <1>2
  <2>2. i \in 2..(h - 1) /\ EndsHead(text, i)
    BY <1>1, <1>2, <2>1
  <2>3. /\ text[i] = head[i] /\ text[i - 1] = head[i - 1]
        /\ i > 2 => text[i - 2] = head[i - 2]
    <3>1. i \in 1..h /\ i - 1 \in 1..h /\ (i > 2 => i - 2 \in 1..h)
      BY <1>2, <2>2
    <3>. QED  BY <1>12, <3>1
  <2>4. head[i] = LF => head[i - 1] = CR
    BY <1>2, <2>2 DEF LinesEndInCrLf
  <2>5. CR # LF
    BY DEF CR, LF
  <2>6. /\ head[i] = LF /\ i > 2
        /\ head[i - 1] = CR /\ head[i - 2] = LF
    BY <2>2, <2>3, <2>4, <2>5 DEF EndsHead
  <2>7. i - 2 > 1 /\ head[i - 3] = CR
    <3>1. i - 2 \in 1..h /\ (i - 2) - 1 = i - 3
      BY <1>2, <2>2, <2>6
    <3>. QED  BY <2>6, <3>1 DEF LinesEndInCrLf
  <2>8. /\ i - 3 \in 1..(h - 4)
        /\ (i - 3) + 1 = i - 2 /\ (i - 3) + 2 = i - 1 /\ (i - 3) + 3 = i
    BY <1>2, <2>2, <2>7
  <2> HIDE DEF h
  <2>. QED  BY <1>4, <2>6, <2>7, <2>8
<1>8. ends \in SUBSET Nat /\ ends # {}
  BY <1>6
<1>9. Min(ends) = h
  <2> HIDE DEF ends, h
  <2>. QED  BY <1>6, <1>7, <1>8, LeastIs
<1>10. SubSeq(text, h + 1, Len(text)) = body
  <2> DEFINE cut == SubSeq(text, h + 1, Len(text))
  <2>1. /\ h + 1 \in Int /\ Len(text) \in Int
        /\ \A i \in (h + 1)..Len(text) : text[i] \in S
    BY <1>1, <1>2
  <2>2. /\ cut \in Seq(S)
        /\ Len(cut) = IF h + 1 <= Len(text) THEN Len(text) - (h + 1) + 1 ELSE 0
        /\ \A i \in 1..(Len(text) - (h + 1) + 1) : cut[i] = text[h + 1 + i - 1]
    BY <2>1, SubSeqProperties
  <2> HIDE DEF cut
  <2>3. /\ Len(cut) = Len(body)
        /\ \A i \in 1..Len(cut) : cut[i] = body[i]
    <3> DEFINE l == Len(text)
               b == Len(body)
    <3>1. l = h + b /\ b \in Nat
      BY <1>1, <1>2
    <3> HIDE DEF l, b, h
    <3>2. Len(cut) = b
      BY <1>2, <2>2, <3>1 DEF l
    <3>3. \A i \in 1..b : i \in 1..(l - (h + 1) + 1) /\ h + 1 + i - 1 = h + i
      BY <1>2, <3>1
    <3>. QED  BY <1>12, <2>2, <3>2, <3>3 DEF l, b
  <2>4. cut = body
    BY <2>2, <2>3, SeqEqual
  <2>. QED  BY <2>4 DEF cut
<1>11. BodyOf(text) = WithoutLastNewline(SubSeq(text, h + 1, Len(text)))
  <2>1. BodyOf(text) = IF ends = {} THEN <<>>
                       ELSE WithoutLastNewline(SubSeq(text, Min(ends) + 1, Len(text)))
    BY Zenon DEF BodyOf
  <2> HIDE DEF ends, h
  <2>. QED  BY <1>8, <1>9, <2>1
<1>. QED  BY <1>10, <1>11 DEF text

-----------------------------------------------------------------------------
(* std::stoi, whose running number is a recursive function.                *)

(* Induction over the naturals, for a set of them: the library's theorem   *)
(* takes an operator, which the provers cannot instantiate.                *)
LEMMA SetInduction ==
    ASSUME NEW T, 0 \in T, \A n \in Nat : n \in T => n + 1 \in T
    PROVE  \A n \in Nat : n \in T
<1> DEFINE Out == Nat \ T
<1>1. SUFFICES ASSUME Out # {} PROVE FALSE
  OBVIOUS
<1>2. Out \in SUBSET Nat
  OBVIOUS
<1> HIDE DEF Out
<1>3. Min(Out) \in Out /\ \A j \in Out : Min(Out) <= j
  BY <1>1, <1>2, LeastExists
<1> DEFINE m == Min(Out)
<1>4. m \in Nat /\ m \notin T /\ m # 0
  BY <1>3 DEF Out
<1>5. m - 1 \in Nat /\ m - 1 \in T
  <2> HIDE DEF m
  <2>1. m - 1 \in Nat /\ ~(m <= m - 1)
    BY <1>4
  <2>2. m - 1 \notin Out
    BY <1>3, <2>1 DEF m
  <2>. QED  BY <2>1, <2>2 DEF Out
<1> HIDE DEF m
<1>6. (m - 1) + 1 = m
  BY <1>4
<1>. QED  BY <1>4, <1>5, <1>6

(* What is above every member of a set that it belongs to is its Max.      *)
LEMMA GreatestIs ==
    ASSUME NEW P \in SUBSET Nat, NEW m \in P, \A j \in P : j <= m
    PROVE  Max(P) = m
<1>1. \A j \in P : m >= j
  OBVIOUS
<1>2. Max(P) \in P /\ \A j \in P : Max(P) >= j
  BY <1>1, Zenon DEF Max
<1>3. Max(P) \in Nat /\ m \in Nat /\ Max(P) <= m /\ m <= Max(P)
  BY <1>2
<1>. QED  BY <1>3

(* The leading run of some kinds ends where another kind follows.          *)
LEMMA RunIs ==
    ASSUME NEW S, NEW text \in Seq(S), NEW kinds, NEW k \in 0..Len(text),
           \A i \in 1..k : text[i] \in kinds,
           k < Len(text) => text[k + 1] \notin kinds
    PROVE  LeadingRun(text, kinds) = SubSeq(text, 1, k)
<1> DEFINE P == {n \in 0..Len(text) : \A i \in 1..n : text[i] \in kinds}
<1>1. P \in SUBSET Nat /\ k \in P
  OBVIOUS
<1>2. \A j \in P : j <= k
  <2>1. SUFFICES ASSUME NEW j \in P, j > k PROVE FALSE
    OBVIOUS
  <2>2. j \in 0..Len(text) /\ k + 1 \in 1..j /\ k < Len(text)
    BY <2>1
  <2>. QED  BY <2>1, <2>2
<1>3. Max(P) = k
  <2> HIDE DEF P
  <2>. QED  BY <1>1, <1>2, GreatestIs
<1>4. LeadingRun(text, kinds) = SubSeq(text, 1, Max(P))
  BY DEF LeadingRun
<1> HIDE DEF P
<1>. QED  BY <1>3, <1>4

Running(val, digits) ==
    val = [n \in 0..Len(digits) |-> IF n = 0 THEN 0 ELSE Append10(val[n - 1], digits[n])]

(* The function that Stoi computes its number with exists, for any digits. *)
LEMMA RunningExists ==
    ASSUME NEW digits, Len(digits) \in Nat
    PROVE  \E val : Running(val, digits)
<1> DEFINE Upto(val, m) ==
               val = [n \in 0..m |-> IF n = 0 THEN 0 ELSE Append10(val[n - 1], digits[n])]
           T == {m \in Nat : \E val : Upto(val, m)}
<1>1. 0 \in T
  <2>1. Upto([n \in 0..0 |-> 0], 0)
    OBVIOUS
  <2>. QED  BY <2>1
<1>2. ASSUME NEW m \in Nat, m \in T PROVE m + 1 \in T
  <2>1. PICK val : Upto(val, m)
    BY <1>2
  <2> DEFINE g == [n \in 0..(m + 1) |->
                      IF n <= m THEN val[n] ELSE Append10(val[m], digits[n])]
             h == [n \in 0..(m + 1) |-> IF n = 0 THEN 0 ELSE Append10(g[n - 1], digits[n])]
  <2>2. ASSUME NEW n \in 0..(m + 1) PROVE g[n] = h[n]
    <3>1. CASE n <= m
      <4>1. n \in 0..m /\ (n # 0 => n - 1 \in 0..m /\ n - 1 <= m /\ n - 1 \in 0..(m + 1))
        BY <3>1
      <4>2. val[n] = IF n = 0 THEN 0 ELSE Append10(val[n - 1], digits[n])
        BY <2>1, <4>1
      <4>. QED  BY <3>1, <4>1, <4>2
    <3>2. CASE n = m + 1
      BY <3>2
    <3>. QED  BY <3>1, <3>2
  <2>3. Upto(g, m + 1)
    <3>1. g = h
      BY <2>2
    <3>. QED  BY <3>1
  <2>4. \E f : Upto(f, m + 1)
    <3> HIDE DEF g, Upto
    <3>. QED  BY <2>3
  <2>. QED  BY <2>4
<1> HIDE DEF T
<1>3. \A m \in Nat : m \in T
  BY <1>1, <1>2, SetInduction
<1>. QED  BY <1>3 DEF T, Running

Steps(val, digits) ==
    /\ val[0] = 0
    /\ \A n \in 1..Len(digits) : val[n] = Append10(val[n - 1], digits[n])

(* It starts with 0 and appends the digits one by one.                     *)
LEMMA RunningSteps ==
    ASSUME NEW val, NEW digits, Len(digits) \in Nat, Running(val, digits)
    PROVE  Steps(val, digits)
<1> DEFINE m == Len(digits)
<1>1. val = [n \in 0..m |-> IF n = 0 THEN 0 ELSE Append10(val[n - 1], digits[n])]
  BY DEF Running
<1> HIDE DEF m
<1>2. /\ val[0] = 0
      /\ \A n \in 1..m : val[n] = Append10(val[n - 1], digits[n])
  BY <1>1 DEF m
<1>. QED  BY <1>2 DEF m, Steps

Word(text) == SubSeq(text, Len(LeadingRun(text, {Blank})) + 1, Len(text))
Signed(text) == Len(Word(text)) > 0 /\ Head(Word(text)) = Minus
Number(text) == LeadingRun(IF Signed(text) THEN Tail(Word(text)) ELSE Word(text), ToSet(Digits))

(* What std::stoi returns, by its word, sign, digits and running number.   *)
LEMMA StoiIs ==
    ASSUME NEW text, Len(Number(text)) \in Nat
    PROVE  \E val :
               /\ Steps(val, Number(text))
               /\ Stoi(text) = IF Number(text) = <<>> \/ val[Len(Number(text))] = -1 THEN {}
                               ELSE IF Signed(text) THEN {-val[Len(Number(text))]}
                               ELSE {val[Len(Number(text))]}
<1> DEFINE val == CHOOSE f : Running(f, Number(text))
<1>1. Running(val, Number(text))
  BY RunningExists
<1>2. Stoi(text) = IF Number(text) = <<>> \/ val[Len(Number(text))] = -1 THEN {}
                   ELSE IF Signed(text) THEN {-val[Len(Number(text))]}
                   ELSE {val[Len(Number(text))]}
  BY Zenon DEF Stoi, Running, Number, Signed, Word
<1>3. Steps(val, Number(text))
  BY <1>1, RunningSteps
<1>. QED  BY <1>2, <1>3, Zenon

-----------------------------------------------------------------------------
(* The tokens of which the requests of EpollFraming are made.              *)
Digit == ToSet(Digits)
Token == {CR, LF, Blank, Minus, ContentLength, "x"} \cup Digit

(* The tokens differ from one another.                                     *)
LEMMA Tokens ==
    /\ {CR, LF, Blank, Minus, ContentLength, "x"} \subseteq Token /\ Digit \subseteq Token
    /\ CR # LF /\ ContentLength \notin {CR, LF} /\ Blank \notin {CR, LF, ContentLength}
    /\ Minus \notin {CR, LF, ContentLength, Blank}
    /\ "x" \notin {CR, LF, ContentLength, Blank, Minus}
    /\ Digit \cap {CR, LF, ContentLength, Blank, Minus, "x"} = {}
<1>1. Digit = {"0", "1", "2", "3", "4", "5", "6", "7", "8", "9"}
  BY DEF Digit, ToSet, Digits
<1>. QED  BY <1>1 DEF Token, CR, LF, Blank, Minus, ContentLength

(* A digit that is appended counts for what it is named.                   *)
LEMMA DigitValue ==
    ASSUME NEW k \in 0..9, NEW n
    PROVE  /\ Digits[k + 1] \in Digit
           /\ Append10(n, Digits[k + 1]) =
                  IF n < 0 \/ n > (IntMax - k) \div 10 THEN -1 ELSE 10 * n + k
<1>1. Digits[k + 1] \in Digit
  BY DEF Digit, Digits, ToSet
<1>2. \A v \in 0..9 : Digits[v + 1] = Digits[k + 1] => v = k
  BY DEF Digits
<1>3. (CHOOSE v \in 0..9 : Digits[v + 1] = Digits[k + 1]) = k
  BY <1>2
<1> DEFINE d == CHOOSE v \in 0..9 : Digits[v + 1] = Digits[k + 1]
<1>4. Append10(n, Digits[k + 1]) =
          IF n < 0 \/ n > (IntMax - d) \div 10 THEN -1 ELSE 10 * n + d
  BY Zenon DEF Append10
<1>5. d = k
  BY <1>3
<1> HIDE DEF d
<1>. QED  BY <1>1, <1>4, <1>5

(* The blank after the colon is skipped.                                   *)
LEMMA BlankThen ==
    ASSUME NEW S, Blank \in S, NEW v \in Seq(S), Len(v) > 0 => v[1] # Blank
    PROVE  Word(<<Blank>> \o v) = v
<1> DEFINE text == <<Blank>> \o v
           one == <<Blank>>
           m == Len(one)
<1>1. one \in Seq(S) /\ m = 1 /\ one[1] = Blank
  OBVIOUS
<1> HIDE DEF one
<1>2. /\ one \o v \in Seq(S) /\ Len(one \o v) = m + Len(v)
      /\ \A i \in 1..(m + Len(v)) : (one \o v)[i] = IF i <= m THEN one[i] ELSE v[i - m]
  BY <1>1, ConcatProperties
<1> HIDE DEF m
<1>3. /\ text \in Seq(S) /\ Len(text) = 1 + Len(v)
      /\ \A i \in 1..(1 + Len(v)) : text[i] = IF i <= 1 THEN Blank ELSE v[i - 1]
  BY <1>1, <1>2 DEF one
<1> HIDE DEF text
<1> DEFINE n == Len(v)
<1>4. n \in Nat
  OBVIOUS
<1>5. LeadingRun(text, {Blank}) = SubSeq(text, 1, 1)
  <2>1. 1 \in 0..Len(text) /\ \A i \in 1..1 : text[i] \in {Blank}
    BY <1>3, <1>4
  <2>2. 1 < Len(text) => text[1 + 1] \notin {Blank}
    <3>1. SUFFICES ASSUME n > 0 PROVE text[2] # Blank
      BY <1>3, <1>4
    <3>. QED  BY <1>3, <1>4, <3>1
  <2>. QED  BY <1>3, <2>1, <2>2, RunIs
<1>6. Len(SubSeq(text, 1, 1)) + 1 = 2
  <2>1. 1 \in 0..Len(text)
    BY <1>3, <1>4
  <2>2. Len(SubSeq(text, 1, 1)) = 1
    BY <1>3, <2>1, Received
  <2>. QED  BY <2>2
<1>7. SubSeq(text, 2, Len(text)) = v
  <2> DEFINE cut == SubSeq(text, 2, Len(text))
             l == Len(text)
  <2>1. l = 1 + n
    BY <1>3
  <2>2. /\ 2 \in Int /\ l \in Int
        /\ \A i \in 2..l : text[i] \in S
    BY <1>3, <1>4, <2>1
  <2>3. /\ cut \in Seq(S)
        /\ Len(cut) = IF 2 <= l THEN l - 2 + 1 ELSE 0
        /\ \A i \in 1..(l - 2 + 1) : cut[i] = text[2 + i - 1]
    BY <2>2, SubSeqProperties
  <2> HIDE DEF cut, l
  <2>4. Len(cut) = n
    BY <1>4, <2>1, <2>3
  <2>5. ASSUME NEW i \in 1..n PROVE cut[i] = v[i]
    <3>1. i \in 1..(l - 2 + 1) /\ 2 + i - 1 = i + 1 /\ i + 1 \in 1..(1 + n)
          /\ ~(i + 1 <= 1) /\ (i + 1) - 1 = i
      BY <1>4, <2>1
    <3>. QED  BY <1>3, <2>3, <3>1
  <2>6. Len(cut) = Len(v) /\ \A i \in 1..Len(cut) : cut[i] = v[i]
    BY <2>4, <2>5
  <2>7. cut = v
    BY <2>3, <2>6, SeqEqual
  <2>. QED  BY <2>7 DEF cut, l
<1>8. Word(text) = SubSeq(text, Len(LeadingRun(text, {Blank})) + 1, Len(text))
  BY DEF Word
<1>. QED  BY <1>5, <1>6, <1>7, <1>8 DEF text

(* A text of one kind is its own leading run.                              *)
LEMMA WholeRun ==
    ASSUME NEW S, NEW kinds \in SUBSET S, NEW v \in Seq(kinds)
    PROVE  LeadingRun(v, kinds) = v
<1>1. LeadingRun(v, kinds) = SubSeq(v, 1, Len(v))
  BY RunIs
<1> DEFINE a == SubSeq(v, 1, Len(v))
<1>2. a \in Seq(kinds) /\ Len(a) = Len(v) /\ \A i \in 1..Len(v) : a[i] = v[i]
  BY Received
<1> HIDE DEF a
<1>3. a = v
  BY <1>2, SeqEqual
<1>. QED  BY <1>1, <1>3 DEF a

(* Of digits after a blank std::stoi returns the running number, if it is  *)
(* one.                                                                    *)
LEMMA StoiUnsigned ==
    ASSUME NEW v \in Seq(Digit), Len(v) > 0
    PROVE  \E val : /\ Steps(val, v)
                    /\ Stoi(<<Blank>> \o v) = IF val[Len(v)] = -1 THEN {} ELSE {val[Len(v)]}
<1> DEFINE text == <<Blank>> \o v
<1>1. v \in Seq(Token) /\ v[1] \in Digit
  BY Tokens
<1>2. Word(text) = v
  BY <1>1, Tokens, BlankThen
<1>3. Head(v) = v[1]
  OBVIOUS
<1>4. ~Signed(text)
  BY <1>1, <1>2, <1>3, Tokens DEF Signed
<1>5. Number(text) = v
  BY <1>2, <1>4, WholeRun DEF Number, Digit
<1>6. v # <<>> /\ Len(v) \in Nat
  OBVIOUS
<1> HIDE DEF text
<1>. QED  BY <1>4, <1>5, <1>6, StoiIs DEF text

(* The same behind a minus.                                                *)
LEMMA StoiSigned ==
    ASSUME NEW v \in Seq(Token), NEW w \in Seq(Digit), Len(v) > 0, Len(w) > 0,
           v[1] = Minus, Tail(v) = w
    PROVE  \E val : /\ Steps(val, w)
                    /\ Stoi(<<Blank>> \o v) = IF val[Len(w)] = -1 THEN {} ELSE {-val[Len(w)]}
<1> DEFINE text == <<Blank>> \o v
<1>1. Word(text) = v
  BY Tokens, BlankThen
<1>2. Head(v) = v[1]
  OBVIOUS
<1>3. Signed(text)
  BY <1>1, <1>2 DEF Signed
<1>4. Number(text) = w
  BY <1>1, <1>3, Tokens, WholeRun DEF Number, Digit
<1>5. w # <<>> /\ Len(w) \in Nat
  OBVIOUS
<1> HIDE DEF text
<1>. QED  BY <1>3, <1>4, <1>5, StoiIs DEF text

(* Without a digit std::stoi throws.                                       *)
LEMMA StoiNothing ==
    ASSUME NEW text, Number(text) = <<>>
    PROVE  Stoi(text) = {}
<1>1. Len(Number(text)) \in Nat
  <2>1. Len(<<>>) \in Nat
    OBVIOUS
  <2>. QED  BY <2>1
<1>. QED  BY <1>1, StoiIs

(* A text that starts with another kind has an empty leading run.          *)
LEMMA NoRun ==
    ASSUME NEW S, NEW v \in Seq(S), NEW kinds, Len(v) > 0 => v[1] \notin kinds
    PROVE  LeadingRun(v, kinds) = <<>>
<1>1. LeadingRun(v, kinds) = SubSeq(v, 1, 0)
  BY RunIs
<1>. QED  BY <1>1, SubSeqEmpty

(* Neither a letter, a blank nor a lone minus is a number.                 *)
LEMMA StoiNone ==
    ASSUME NEW v \in {<<"x">>, <<Blank>>, <<Minus>>}
    PROVE  Stoi(<<Blank>> \o v) = {}
<1> DEFINE text == <<Blank>> \o v
<1>1. CASE v = <<"x">>
  <2>1. v \in Seq(Token) /\ v[1] = "x" /\ Head(v) = "x"
    BY <1>1, Tokens
  <2>2. Word(text) = v
    BY <2>1, Tokens, BlankThen
  <2>3. ~Signed(text)
    BY <2>1, <2>2, Tokens DEF Signed
  <2>4. LeadingRun(v, Digit) = <<>>
    BY <2>1, Tokens, NoRun
  <2>5. Number(text) = <<>>
    BY <2>2, <2>3, <2>4 DEF Number, Digit
  <2> HIDE DEF text
  <2>. QED  BY <2>5, StoiNothing DEF text
<1>2. CASE v = <<Minus>>
  <2>1. v \in Seq(Token) /\ v[1] = Minus /\ Head(v) = Minus /\ Len(v) > 0 /\ Tail(v) = <<>>
    BY <1>2, Tokens
  <2>2. Word(text) = v
    BY <2>1, Tokens, BlankThen
  <2>3. Signed(text)
    BY <2>1, <2>2 DEF Signed
  <2>4. LeadingRun(<<>>, Digit) = <<>>
    <3>1. <<>> \in Seq(Token) /\ ~(Len(<<>>) > 0)
      OBVIOUS
    <3>. QED  BY <3>1, NoRun
  <2>5. Number(text) = <<>>
    BY <2>1, <2>2, <2>3, <2>4 DEF Number, Digit
  <2> HIDE DEF text
  <2>. QED  BY <2>5, StoiNothing DEF text
<1>3. CASE v = <<Blank>>
  <2>1. text \in Seq({Blank})
    <3>1. <<Blank>> \in Seq({Blank})
      OBVIOUS
    <3>. QED  BY <1>3, <3>1, ConcatProperties
  <2>2. LeadingRun(text, {Blank}) = text
    <3>1. {Blank} \in SUBSET Token
      BY Tokens
    <3> HIDE DEF text
    <3>. QED  BY <2>1, <3>1, WholeRun
  <2>3. Word(text) = <<>>
    <3>1. Word(text) = SubSeq(text, Len(text) + 1, Len(text))
      BY <2>2 DEF Word
    <3>2. Len(text) + 1 \in Int /\ Len(text) \in Int /\ Len(text) < Len(text) + 1
      BY <2>1
    <3> HIDE DEF text
    <3>. QED  BY <3>1, <3>2, SubSeqEmpty
  <2>4. ~Signed(text)
    BY <2>3 DEF Signed
  <2>5. LeadingRun(<<>>, Digit) = <<>>
    <3>1. <<>> \in Seq(Token) /\ ~(Len(<<>>) > 0)
      OBVIOUS
    <3>. QED  BY <3>1, NoRun
  <2>6. Number(text) = <<>>
    BY <2>3, <2>4, <2>5 DEF Number, Digit
  <2> HIDE DEF text
  <2>. QED  BY <2>6, StoiNothing DEF text
<1>. QED  BY <1>1, <1>2, <1>3

(* A digit is read as its value.                                           *)
LEMMA StoiOneDigit ==
    ASSUME NEW k \in 0..9
    PROVE  Stoi(<<Blank>> \o <<Digits[k + 1]>>) = {k}
<1> DEFINE v == <<Digits[k + 1]>>
<1>1. v \in Seq(Digit) /\ Len(v) = 1 /\ Len(v) > 0 /\ v[1] = Digits[k + 1]
  BY DigitValue
<1> HIDE DEF v
<1>2. PICK val : /\ Steps(val, v)
                 /\ Stoi(<<Blank>> \o v) = IF val[Len(v)] = -1 THEN {} ELSE {val[Len(v)]}
  BY <1>1, StoiUnsigned
<1>3. val[0] = 0 /\ val[1] = Append10(val[0], v[1])
  <2>1. \A n \in 1..1 : val[n] = Append10(val[n - 1], v[n])
    BY <1>1, <1>2 DEF Steps
  <2>2. 1 - 1 = 0 /\ 1 \in 1..1
    OBVIOUS
  <2>3. val[0] = 0
    BY <1>2 DEF Steps
  <2>. QED  BY <2>1, <2>2, <2>3
<1>4. Append10(0, Digits[k + 1]) = k
  <2>1. ~(0 < 0 \/ 0 > (IntMax - k) \div 10) /\ 10 * 0 + k = k
    BY DEF IntMax
  <2>. QED  BY <2>1, DigitValue
<1>5. val[1] = k /\ k # -1
  BY <1>1, <1>3, <1>4
<1>. QED  BY <1>1, <1>2, <1>5 DEF v

(* The running number of two digits.                                       *)
LEMMA RunningTwo ==
    ASSUME NEW j \in 0..9, NEW k \in 0..9, NEW val,
           Steps(val, <<Digits[j + 1], Digits[k + 1]>>)
    PROVE  val[1] = j /\ val[2] = 10 * j + k
<1> DEFINE v == <<Digits[j + 1], Digits[k + 1]>>
<1>1. Len(v) = 2 /\ v[1] = Digits[j + 1] /\ v[2] = Digits[k + 1] /\ Steps(val, v)
  OBVIOUS
<1> HIDE DEF v
<1>2. val[0] = 0 /\ \A n \in 1..2 : val[n] = Append10(val[n - 1], v[n])
  BY <1>1 DEF Steps
<1>3. val[1] = Append10(val[0], v[1]) /\ val[2] = Append10(val[1], v[2])
  <2>1. 1 \in 1..2 /\ 2 \in 1..2 /\ 1 - 1 = 0 /\ 2 - 1 = 1
    OBVIOUS
  <2>. QED  BY <1>2, <2>1
<1>4. Append10(0, Digits[j + 1]) = j
  <2>1. ~(0 < 0 \/ 0 > (IntMax - j) \div 10) /\ 10 * 0 + j = j
    BY DEF IntMax
  <2>. QED  BY <2>1, DigitValue
<1>5. Append10(j, Digits[k + 1]) = 10 * j + k
  <2>1. ~(j < 0 \/ j > (IntMax - k) \div 10)
    BY DEF IntMax
  <2>. QED  BY <2>1, DigitValue
<1>. QED  BY <1>1, <1>2, <1>3, <1>4, <1>5

(* Two digits are read as tens and ones.                                   *)
LEMMA StoiTwoDigits ==
    ASSUME NEW j \in 0..9, NEW k \in 0..9
    PROVE  Stoi(<<Blank>> \o <<Digits[j + 1], Digits[k + 1]>>) = {10 * j + k}
<1> DEFINE v == <<Digits[j + 1], Digits[k + 1]>>
<1>1. v \in Seq(Digit) /\ Len(v) = 2 /\ Len(v) > 0
  BY DigitValue
<1> HIDE DEF v
<1>2. PICK val : /\ Steps(val, v)
                 /\ Stoi(<<Blank>> \o v) = IF val[Len(v)] = -1 THEN {} ELSE {val[Len(v)]}
  BY <1>1, StoiUnsigned
<1>3. val[2] = 10 * j + k
  BY <1>2, RunningTwo DEF v
<1>4. val[2] # -1
  BY <1>3
<1>. QED  BY <1>1, <1>2, <1>3, <1>4 DEF v

(* A length below 100 is read as it was written.                           *)
LEMMA StoiDecimal ==
    ASSUME NEW n \in 0..99
    PROVE  /\ Stoi(<<Blank>> \o Decimal(n)) = {n}
           /\ Decimal(n) \in Seq(Digit)
<1>1. CASE n < 10
  <2>1. n \in 0..9 /\ Decimal(n) = <<Digits[n + 1]>>
    BY <1>1 DEF Decimal
  <2>2. <<Digits[n + 1]>> \in Seq(Digit)
    BY <2>1, DigitValue
  <2>. QED  BY <2>1, <2>2, StoiOneDigit
<1>2. CASE ~(n < 10)
  <2> DEFINE j == n \div 10
             k == n % 10
  <2>1. j \in 0..9 /\ k \in 0..9 /\ 10 * j + k = n
    BY <1>2
  <2>2. Decimal(n) = <<Digits[j + 1], Digits[k + 1]>>
    BY <1>2 DEF Decimal
  <2> HIDE DEF j, k
  <2>3. <<Digits[j + 1], Digits[k + 1]>> \in Seq(Digit)
    BY <2>1, DigitValue
  <2>. QED  BY <2>1, <2>2, <2>3, StoiTwoDigits
<1>. QED  BY <1>1, <1>2

(* The negative values are read as numbers below 0.                        *)
LEMMA StoiNegative ==
    ASSUME NEW v \in Negative
    PROVE  /\ \E n \in Int : n < 0 /\ Stoi(<<Blank>> \o v) = {n}
           /\ v \in Seq(Digit \cup {Minus})
<1>0. Digits[2] = "1" /\ Digits[1] = "0" /\ "1" \in Digit /\ "0" \in Digit
  BY DEF Digits, Digit, ToSet
<1>1. CASE v = <<Minus, "1">>
  <2> DEFINE w == <<Digits[1 + 1]>>
  <2>1. /\ w \in Seq(Digit) /\ Len(w) = 1 /\ Len(w) > 0 /\ w[1] = Digits[1 + 1]
        /\ v \in Seq(Token) /\ v[1] = Minus /\ Len(v) > 0 /\ Tail(v) = w
    BY <1>0, <1>1, Tokens
  <2> HIDE DEF w
  <2>2. PICK val : /\ Steps(val, w)
                   /\ Stoi(<<Blank>> \o v) = IF val[Len(w)] = -1 THEN {} ELSE {-val[Len(w)]}
    BY <2>1, StoiSigned
  <2>3. val[0] = 0 /\ \A n \in 1..1 : val[n] = Append10(val[n - 1], w[n])
    BY <2>1, <2>2 DEF Steps
  <2>4. val[1] = Append10(0, Digits[1 + 1])
    <3>1. 1 \in 1..1 /\ 1 - 1 = 0
      OBVIOUS
    <3>. QED  BY <2>1, <2>3, <3>1
  <2>5. Append10(0, Digits[1 + 1]) = 1
    <3>1. ~(0 < 0 \/ 0 > (IntMax - 1) \div 10) /\ 10 * 0 + 1 = 1 /\ 1 \in 0..9
      BY DEF IntMax
    <3>. QED  BY <3>1, DigitValue
  <2>6. Stoi(<<Blank>> \o v) = {-1}
    BY <2>1, <2>2, <2>4, <2>5
  <2>. QED  BY <1>0, <1>1, <2>6
<1>2. CASE v = <<Minus, "1", "0">>
  <2>1. PICK j \in 0..9, k \in 0..9 : j = 1 /\ k = 0
    OBVIOUS
  <2> DEFINE w == <<Digits[j + 1], Digits[k + 1]>>
  <2>2. /\ w \in Seq(Digit) /\ Len(w) = 2 /\ Len(w) > 0
        /\ v \in Seq(Token) /\ v[1] = Minus /\ Len(v) > 0 /\ Tail(v) = w
    BY <1>0, <1>2, <2>1, Tokens
  <2> HIDE DEF w
  <2>3. PICK val : /\ Steps(val, w)
                   /\ Stoi(<<Blank>> \o v) = IF val[Len(w)] = -1 THEN {} ELSE {-val[Len(w)]}
    BY <2>2, StoiSigned
  <2>4. val[2] = 10 * j + k
    BY <2>3, RunningTwo DEF w
  <2>5. Stoi(<<Blank>> \o v) = {-10}
    BY <2>1, <2>2, <2>3, <2>4
  <2>. QED  BY <1>0, <1>2, <2>5
<1>. QED  BY <1>1, <1>2 DEF Negative

(* A number of eleven nines is too large for an int.                       *)
LEMMA StoiTooLarge ==
    ASSUME NEW v, v = [i \in 1..11 |-> "9"]
    PROVE  Stoi(<<Blank>> \o v) = {} /\ v \in Seq(Digit)
<1>1. /\ v \in Seq(Digit) /\ Len(v) = 11 /\ Len(v) > 0
      /\ \A i \in 1..11 : v[i] = Digits[9 + 1]
  BY DEF Digits, Digit, ToSet
<1>2. PICK val : /\ Steps(val, v)
                 /\ Stoi(<<Blank>> \o v) = IF val[Len(v)] = -1 THEN {} ELSE {val[Len(v)]}
  BY <1>1, StoiUnsigned
<1>3. val[0] = 0 /\ \A n \in 1..11 : val[n] = Append10(val[n - 1], Digits[9 + 1])
  <2>1. \A n \in 1..11 : val[n] = Append10(val[n - 1], v[n])
    BY <1>1, <1>2 DEF Steps
  <2>2. val[0] = 0
    BY <1>2 DEF Steps
  <2>. QED  BY <1>1, <2>1, <2>2
<1>4. \A n \in 0..10 : val[n + 1] = Append10(val[n], Digits[9 + 1])
  <2>1. \A n \in 0..10 : n + 1 \in 1..11 /\ (n + 1) - 1 = n
    OBVIOUS
  <2>. QED  BY <1>3, <2>1
<1>5. \A n : Append10(n, Digits[9 + 1]) =
                 IF n < 0 \/ n > (IntMax - 9) \div 10 THEN -1 ELSE 10 * n + 9
  <2>1. 9 \in 0..9
    OBVIOUS
  <2>. QED  BY <2>1, DigitValue
<1>6. (IntMax - 9) \div 10 = 214748363
  BY DEF IntMax
<1>7. \A n \in 0..10 :
          val[n + 1] = IF val[n] < 0 \/ val[n] > 214748363 THEN -1 ELSE 10 * val[n] + 9
  BY <1>4, <1>5, <1>6
<1>8. val[1] = 9 /\ val[2] = 99 /\ val[3] = 999 /\ val[4] = 9999
  <2>1. val[0 + 1] = 9
    BY <1>3, <1>7
  <2>2. val[1 + 1] = 99
    BY <1>7, <2>1
  <2>3. val[2 + 1] = 999
    BY <1>7, <2>2
  <2>4. val[3 + 1] = 9999
    BY <1>7, <2>3
  <2>. QED  BY <2>1, <2>2, <2>3, <2>4
<1>9. val[8] = 99999999
  <2>1. val[4 + 1] = 99999
    BY <1>7, <1>8
  <2>2. val[5 + 1] = 999999
    BY <1>7, <2>1
  <2>3. val[6 + 1] = 9999999
    BY <1>7, <2>2
  <2>4. val[7 + 1] = 99999999
    BY <1>7, <2>3
  <2>. QED  BY <2>4
<1>10. val[11] = -1
  <2>1. val[8 + 1] = 999999999
    BY <1>7, <1>9
  <2>2. val[9 + 1] = -1
    BY <1>7, <2>1
  <2>3. val[10 + 1] = -1
    BY <1>7, <2>2
  <2>. QED  BY <2>3
<1>. QED  BY <1>1, <1>2, <1>10

-----------------------------------------------------------------------------
(* The heads of EpollFraming, described token by token: what may stand in  *)
(* a field's value, and what a head is made of.                            *)
Plain == Token \ {CR, LF, ContentLength}

(* The Content-Length field, token by token.                               *)
LEMMA SpelledField ==
    ASSUME NEW v \in Seq(Token)
    PROVE  LET m == Len(v)
               f == LengthField(v)
           IN /\ f \in Seq(Token) /\ Len(f) = m + 4
              /\ f[1] = ContentLength /\ f[2] = Blank
              /\ \A i \in 1..m : f[i + 2] = v[i]
              /\ f[m + 3] = CR /\ f[m + 4] = LF
<1> DEFINE a == <<ContentLength, Blank>>
           k == Len(a)
           l == Len(CRLF)
           m == Len(v)
           f == LengthField(v)
<1>1. a \in Seq(Token) /\ k = 2 /\ a[1] = ContentLength /\ a[2] = Blank
  BY Tokens
<1>2. CRLF \in Seq(Token) /\ l = 2 /\ CRLF[1] = CR /\ CRLF[2] = LF
  BY Tokens DEF CRLF
<1>3. f = (a \o v) \o CRLF
  BY DEF LengthField
<1> HIDE DEF a, f
<1>4. /\ a \o v \in Seq(Token) /\ Len(a \o v) = k + m
      /\ \A i \in 1..(k + m) : (a \o v)[i] = IF i <= k THEN a[i] ELSE v[i - k]
  BY <1>1, ConcatProperties
<1> DEFINE b == a \o v
           n == Len(b)
<1> HIDE DEF b
<1>5. /\ f \in Seq(Token) /\ Len(f) = n + l
      /\ \A i \in 1..(n + l) : f[i] = IF i <= n THEN b[i] ELSE CRLF[i - n]
  <2>1. f = b \o CRLF /\ b \in Seq(Token)
    BY <1>3, <1>4 DEF b
  <2>2. CRLF \in Seq(Token)
    BY <1>2
  <2>. QED  BY <2>1, <2>2, ConcatProperties
<1>6. /\ n = k + m /\ m \in Nat
      /\ \A i \in 1..(k + m) : b[i] = IF i <= k THEN a[i] ELSE v[i - k]
  BY <1>4 DEF b
<1> HIDE DEF k, l, m, n
<1>7. Len(f) = m + 4
  BY <1>1, <1>2, <1>5, <1>6
<1>8. /\ f[1] = ContentLength /\ f[2] = Blank
      /\ f[m + 3] = CR /\ f[m + 4] = LF
  BY <1>1, <1>2, <1>5, <1>6
<1>9. ASSUME NEW i \in 1..m PROVE f[i + 2] = v[i]
  <2>1. i + 2 \in 1..(n + l) /\ i + 2 <= n /\ i + 2 \in 1..(k + m)
        /\ ~(i + 2 <= k) /\ (i + 2) - k = i
    BY <1>1, <1>2, <1>6
  <2>2. f[i + 2] = b[i + 2]
    BY <1>5, <2>1
  <2>3. b[i + 2] = v[(i + 2) - k]
    BY <1>6, <2>1
  <2>. QED  BY <2>1, <2>2, <2>3
<1>. QED  BY <1>5, <1>7, <1>8, <1>9 DEF f, m

(* A head around its fields, token by token.                               *)
LEMMA SpelledHead ==
    ASSUME NEW f \in Seq(Token)
    PROVE  LET m == Len(f)
               head == HeadWith(f)
           IN /\ head \in Seq(Token) /\ Len(head) = m + 5
              /\ head[1] = "x" /\ head[2] = CR /\ head[3] = LF
              /\ \A i \in 1..m : head[i + 3] = f[i]
              /\ head[m + 4] = CR /\ head[m + 5] = LF
<1> DEFINE o == <<"x">>
           a == o \o CRLF
           j == Len(o)
           k == Len(a)
           l == Len(CRLF)
           m == Len(f)
           head == HeadWith(f)
<1>0. o \in Seq(Token) /\ j = 1 /\ o[1] = "x"
  BY Tokens
<1>2. CRLF \in Seq(Token) /\ l = 2 /\ CRLF[1] = CR /\ CRLF[2] = LF
  BY Tokens DEF CRLF
<1>3. head = (a \o f) \o CRLF
  BY DEF HeadWith
<1> HIDE DEF o, head
<1>1. a \in Seq(Token) /\ k = 3 /\ a[1] = "x" /\ a[2] = CR /\ a[3] = LF
  <2>1. /\ a \in Seq(Token) /\ k = j + l
        /\ \A i \in 1..(j + l) : a[i] = IF i <= j THEN o[i] ELSE CRLF[i - j]
    BY <1>0, <1>2, ConcatProperties
  <2> HIDE DEF a, j, k, l
  <2>. QED  BY <1>0, <1>2, <2>1
<1> HIDE DEF a
<1>4. /\ a \o f \in Seq(Token) /\ Len(a \o f) = k + m
      /\ \A i \in 1..(k + m) : (a \o f)[i] = IF i <= k THEN a[i] ELSE f[i - k]
  BY <1>1, ConcatProperties
<1> DEFINE b == a \o f
           n == Len(b)
<1> HIDE DEF b
<1>5. /\ head \in Seq(Token) /\ Len(head) = n + l
      /\ \A i \in 1..(n + l) : head[i] = IF i <= n THEN b[i] ELSE CRLF[i - n]
  <2>1. head = b \o CRLF /\ b \in Seq(Token)
    BY <1>3, <1>4 DEF b
  <2>2. CRLF \in Seq(Token)
    BY <1>2
  <2>. QED  BY <2>1, <2>2, ConcatProperties
<1>6. /\ n = k + m /\ m \in Nat
      /\ \A i \in 1..(k + m) : b[i] = IF i <= k THEN a[i] ELSE f[i - k]
  BY <1>4 DEF b
<1> HIDE DEF k, l, m, n
<1>7. Len(head) = m + 5
  BY <1>1, <1>2, <1>5, <1>6
<1>8. /\ head[1] = "x" /\ head[2] = CR /\ head[3] = LF
      /\ head[m + 4] = CR /\ head[m + 5] = LF
  <2>1. /\ 1 \in 1..(k + m) /\ 2 \in 1..(k + m) /\ 3 \in 1..(k + m)
        /\ 1 <= k /\ 2 <= k /\ 3 <= k /\ 1 <= n /\ 2 <= n /\ 3 <= n
        /\ 1 \in 1..(n + l) /\ 2 \in 1..(n + l) /\ 3 \in 1..(n + l)
    BY <1>1, <1>2, <1>6
  <2>2. head[1] = b[1] /\ head[2] = b[2] /\ head[3] = b[3]
    BY <1>5, <2>1
  <2>3. b[1] = a[1] /\ b[2] = a[2] /\ b[3] = a[3]
    BY <1>6, <2>1
  <2>4. /\ m + 4 \in 1..(n + l) /\ ~(m + 4 <= n) /\ (m + 4) - n = 1
        /\ m + 5 \in 1..(n + l) /\ ~(m + 5 <= n) /\ (m + 5) - n = 2
    BY <1>1, <1>2, <1>6
  <2>5. head[m + 4] = CRLF[(m + 4) - n] /\ head[m + 5] = CRLF[(m + 5) - n]
    BY <1>5, <2>4
  <2>. QED  BY <1>1, <1>2, <2>2, <2>3, <2>4, <2>5
<1>9. \A i \in 1..m : head[i + 3] = f[i]
  BY <1>1, <1>2, <1>5, <1>6
<1>. QED  BY <1>5, <1>7, <1>8, <1>9 DEF head, m

(* Another field, token by token.                                          *)
LEMMA SpelledOther ==
    /\ OtherField \in Seq(Token) /\ Len(OtherField) = 3
    /\ OtherField[1] = "x" /\ OtherField[2] = CR /\ OtherField[3] = LF
<1> DEFINE o == <<"x">>
           j == Len(o)
           l == Len(CRLF)
<1>1. o \in Seq(Token) /\ j = 1 /\ o[1] = "x"
  BY Tokens
<1>2. CRLF \in Seq(Token) /\ l = 2 /\ CRLF[1] = CR /\ CRLF[2] = LF
  BY Tokens DEF CRLF
<1>3. OtherField = o \o CRLF
  BY DEF OtherField
<1> HIDE DEF o
<1>4. /\ OtherField \in Seq(Token) /\ Len(OtherField) = j + l
      /\ \A i \in 1..(j + l) : OtherField[i] = IF i <= j THEN o[i] ELSE CRLF[i - j]
  <2>1. o \in Seq(Token) /\ CRLF \in Seq(Token)
    BY <1>1, <1>2
  <2>. QED  BY <1>3, <2>1, ConcatProperties
<1> HIDE DEF j, l
<1>. QED  BY <1>1, <1>2, <1>4

(* The name of the field stands at c, its value v behind a blank, and the  *)
(* only blank line at the end.                                             *)
Spelled(head, c, v) ==
    LET m == Len(v)
        h == Len(head)
    IN /\ head \in Seq(Token)
       /\ c \in Nat /\ c > 0 /\ c + m + 5 <= h
       /\ head[c] = ContentLength
       /\ \A i \in 1..(c - 1) : head[i] # ContentLength
       /\ head[c + 1] = Blank
       /\ \A i \in 1..m : head[c + 1 + i] = v[i]
       /\ head[c + m + 2] = CR /\ head[c + m + 3] = LF
       /\ head[h - 3] = CR /\ head[h - 2] = LF /\ head[h - 1] = CR /\ head[h] = LF
       /\ \A i \in 1..(h - 3) : head[i] = LF => head[i + 1] # CR
       /\ LinesEndInCrLf(head)

(* A head of the field alone is such a head,                               *)
LEMMA FirstForm ==
    ASSUME NEW v \in Seq(Plain), NEW f, f = LengthField(v)
    PROVE  Spelled(HeadWith(f), 4, v)
<1> DEFINE head == HeadWith(f)
           m == Len(v)
           h == Len(head)
<1>1. v \in Seq(Token) /\ m \in Nat /\ \A i \in 1..m : v[i] \in Plain
  BY DEF Plain
<1>2. /\ f \in Seq(Token) /\ Len(f) = m + 4
      /\ f[1] = ContentLength /\ f[2] = Blank
      /\ \A i \in 1..m : f[i + 2] = v[i]
      /\ f[m + 3] = CR /\ f[m + 4] = LF
  BY <1>1, SpelledField
<1>3. /\ head \in Seq(Token) /\ h = m + 4 + 5
      /\ head[1] = "x" /\ head[2] = CR /\ head[3] = LF
      /\ \A i \in 1..(m + 4) : head[i + 3] = f[i]
      /\ head[m + 4 + 4] = CR /\ head[m + 4 + 5] = LF
  BY <1>2, SpelledHead, SMTT(30)
<1> HIDE DEF head, m, h
<1>4. /\ h = m + 9 /\ head[4] = ContentLength /\ head[5] = Blank
      /\ head[m + 6] = CR /\ head[m + 7] = LF /\ head[m + 8] = CR /\ head[m + 9] = LF
  <2>1. /\ 1 \in 1..(m + 4) /\ 2 \in 1..(m + 4) /\ m + 3 \in 1..(m + 4) /\ m + 4 \in 1..(m + 4)
        /\ 1 + 3 = 4 /\ 2 + 3 = 5 /\ (m + 3) + 3 = m + 6 /\ (m + 4) + 3 = m + 7
        /\ m + 4 + 4 = m + 8 /\ m + 4 + 5 = m + 9
    BY <1>1
  <2>2. head[1 + 3] = f[1] /\ head[2 + 3] = f[2]
        /\ head[(m + 3) + 3] = f[m + 3] /\ head[(m + 4) + 3] = f[m + 4]
    BY <1>3, <2>1
  <2>. QED  BY <1>2, <1>3, <2>1, <2>2
<1>5. ASSUME NEW i \in 6..(m + 5) PROVE head[i] = v[i - 5] /\ head[i] \in Plain
  <2>1. i - 5 \in 1..m /\ i - 3 \in 1..(m + 4) /\ (i - 3) + 3 = i /\ (i - 5) + 2 = i - 3
    BY <1>1
  <2>2. head[(i - 3) + 3] = f[i - 3] /\ f[(i - 5) + 2] = v[i - 5]
    BY <1>2, <1>3, <2>1
  <2>. QED  BY <1>1, <2>1, <2>2
<1>6. \A i \in 1..h : \/ i \in {1, 2, 3, 4, 5} \/ i \in 6..(m + 5)
                       \/ i \in {m + 6, m + 7, m + 8, m + 9}
  BY <1>1, <1>4
<1>7. \A i \in 1..m : head[5 + i] = v[i]
  <2>1. \A i \in 1..m : 5 + i \in 6..(m + 5) /\ (5 + i) - 5 = i
    BY <1>1
  <2>. QED  BY <1>5, <2>1
<1>8. \A p \in Plain : p # CR /\ p # LF /\ p # ContentLength
  BY DEF Plain
<1>9. \A i \in 1..(4 - 1) : head[i] # ContentLength
  BY <1>3, Tokens
<1>10. ASSUME NEW i \in 1..h, head[i] = LF
       PROVE  i \in {3, m + 7, m + 9}
  BY <1>3, <1>4, <1>5, <1>6, <1>8, <1>10, Tokens
<1>11. LinesEndInCrLf(head)
  <2>1. ASSUME NEW i \in 1..h, head[i] = LF PROVE i > 1 /\ head[i - 1] = CR
    <3>1. /\ 3 > 1 /\ 3 - 1 = 2 /\ m + 7 > 1 /\ (m + 7) - 1 = m + 6
          /\ m + 9 > 1 /\ (m + 9) - 1 = m + 8
      BY <1>1
    <3>. QED  BY <1>3, <1>4, <1>10, <2>1, <3>1
  <2>. QED  BY <2>1 DEF LinesEndInCrLf, h
<1>12. ASSUME NEW i \in 1..(h - 3), head[i] = LF PROVE head[i + 1] # CR
  <2>1. i \in 1..h /\ i # m + 9 /\ i # m + 7
    BY <1>1, <1>4
  <2>2. i = 3 /\ i + 1 = 4
    BY <1>10, <1>12, <2>1
  <2>. QED  BY <1>4, <2>2, Tokens
<1>13. /\ 4 + m + 5 <= h /\ 4 + 1 = 5 /\ 4 + m + 2 = m + 6 /\ 4 + m + 3 = m + 7
       /\ h - 3 = m + 6 /\ h - 2 = m + 7 /\ h - 1 = m + 8 /\ h = m + 9
  BY <1>1, <1>4
<1>14. \A i \in 1..m : head[4 + 1 + i] = v[i]
  BY <1>7, <1>13
<1>. QED  BY <1>3, <1>4, <1>9, <1>11, <1>12, <1>13, <1>14 DEF Spelled, h, m, head

(* a head in which another field precedes it is one,                       *)
LEMMA SecondForm ==
    ASSUME NEW v \in Seq(Plain), NEW f, f = OtherField \o LengthField(v)
    PROVE  Spelled(HeadWith(f), 7, v)
<1> DEFINE field == LengthField(v)
           head == HeadWith(f)
           k == Len(OtherField)
           n == Len(field)
           m == Len(v)
           h == Len(head)
<1>1. v \in Seq(Token) /\ m \in Nat /\ \A i \in 1..m : v[i] \in Plain
  BY DEF Plain
<1>2. /\ field \in Seq(Token) /\ n = m + 4
      /\ field[1] = ContentLength /\ field[2] = Blank
      /\ \A i \in 1..m : field[i + 2] = v[i]
      /\ field[m + 3] = CR /\ field[m + 4] = LF
  BY <1>1, SpelledField
<1>3. k = 3
  BY SpelledOther
<1>4. /\ f \in Seq(Token) /\ Len(f) = k + n
      /\ \A i \in 1..(k + n) : f[i] = IF i <= k THEN OtherField[i] ELSE field[i - k]
  <2>1. OtherField \in Seq(Token)
    BY SpelledOther
  <2> HIDE DEF field
  <2>. QED  BY <1>2, <2>1, ConcatProperties DEF field
<1>5. /\ head \in Seq(Token) /\ h = Len(f) + 5
      /\ head[1] = "x" /\ head[2] = CR /\ head[3] = LF
      /\ \A i \in 1..Len(f) : head[i + 3] = f[i]
      /\ head[Len(f) + 4] = CR /\ head[Len(f) + 5] = LF
  BY <1>4, SpelledHead
<1> HIDE DEF field, head, k, n, m, h
<1>6. /\ h = m + 12 /\ Len(f) = m + 7
      /\ head[m + 11] = CR /\ head[m + 12] = LF
      /\ \A i \in 1..3 : f[i] = OtherField[i]
      /\ \A i \in 1..(m + 4) : f[i + 3] = field[i]
  <2>1. Len(f) = m + 7 /\ h = m + 12 /\ (m + 7) + 4 = m + 11 /\ (m + 7) + 5 = m + 12
    BY <1>1, <1>2, <1>3, <1>4, <1>5
  <2>2. \A i \in 1..3 : i \in 1..(k + n) /\ i <= k
    BY <1>1, <1>2, <1>3
  <2>3. \A i \in 1..(m + 4) : i + 3 \in 1..(k + n) /\ ~(i + 3 <= k) /\ (i + 3) - k = i
    BY <1>1, <1>2, <1>3
  <2>4. head[m + 11] = CR /\ head[m + 12] = LF
    BY <1>5, <2>1
  <2>5. ASSUME NEW i \in 1..3 PROVE f[i] = OtherField[i]
    BY <1>4, <2>2
  <2>6. ASSUME NEW i \in 1..(m + 4) PROVE f[i + 3] = field[i]
    <3>1. f[i + 3] = field[(i + 3) - k]
      BY <1>4, <2>3
    <3>. QED  BY <2>3, <3>1
  <2>. QED  BY <2>1, <2>4, <2>5, <2>6
<1>7. \A i \in 1..(m + 4) : head[i + 6] = field[i]
  <2>1. \A i \in 1..(m + 4) : i + 3 \in 1..Len(f) /\ (i + 3) + 3 = i + 6
    BY <1>1, <1>6
  <2>2. \A i \in 1..(m + 4) : head[(i + 3) + 3] = f[i + 3]
    BY <1>5, <2>1
  <2>. QED  BY <1>6, <2>1, <2>2
<1>8. /\ head[4] = "x" /\ head[5] = CR /\ head[6] = LF
      /\ head[7] = ContentLength /\ head[8] = Blank
      /\ head[m + 9] = CR /\ head[m + 10] = LF
  <2>1. /\ 1 \in 1..Len(f) /\ 2 \in 1..Len(f) /\ 3 \in 1..Len(f)
        /\ 1 + 3 = 4 /\ 2 + 3 = 5 /\ 3 + 3 = 6
        /\ 1 \in 1..3 /\ 2 \in 1..3 /\ 3 \in 1..3
    BY <1>1, <1>6
  <2>2. head[1 + 3] = f[1] /\ head[2 + 3] = f[2] /\ head[3 + 3] = f[3]
    BY <1>5, <2>1
  <2>3. /\ 1 \in 1..(m + 4) /\ 2 \in 1..(m + 4) /\ m + 3 \in 1..(m + 4) /\ m + 4 \in 1..(m + 4)
        /\ 1 + 6 = 7 /\ 2 + 6 = 8 /\ (m + 3) + 6 = m + 9 /\ (m + 4) + 6 = m + 10
    BY <1>1
  <2>4. /\ head[1 + 6] = field[1] /\ head[2 + 6] = field[2]
        /\ head[(m + 3) + 6] = field[m + 3] /\ head[(m + 4) + 6] = field[m + 4]
    BY <1>7, <2>3
  <2>5. f[1] = "x" /\ f[2] = CR /\ f[3] = LF
    BY <1>6, <2>1, SpelledOther
  <2>6. head[4] = "x" /\ head[5] = CR /\ head[6] = LF
    BY <2>1, <2>2, <2>5
  <2>. QED  BY <1>2, <2>3, <2>4, <2>6
<1>9. ASSUME NEW i \in 1..m PROVE head[8 + i] = v[i]
  <2>1. i + 2 \in 1..(m + 4) /\ (i + 2) + 6 = 8 + i
    BY <1>1
  <2>2. head[(i + 2) + 6] = field[i + 2]
    BY <1>7, <2>1
  <2>. QED  BY <1>2, <2>1, <2>2
<1>10. ASSUME NEW i \in 9..(m + 8) PROVE head[i] \in Plain
  <2>1. i - 8 \in 1..m /\ 8 + (i - 8) = i
    BY <1>1
  <2>2. head[8 + (i - 8)] = v[i - 8]
    BY <1>9, <2>1
  <2>. QED  BY <1>1, <2>1, <2>2
<1>11. \A i \in 1..h : \/ i \in {1, 2, 3, 4, 5, 6, 7, 8} \/ i \in 9..(m + 8)
                        \/ i \in {m + 9, m + 10, m + 11, m + 12}
  BY <1>1, <1>6
<1>12. \A p \in Plain : p # CR /\ p # LF /\ p # ContentLength
  BY DEF Plain
<1>13. ASSUME NEW i \in 1..h, head[i] = LF
       PROVE  i \in {3, 6, m + 10, m + 12}
  <2>1. i \notin 9..(m + 8)
    BY <1>10, <1>12, <1>13
  <2>2. CASE i \in {1, 2, 3, 4, 5, 6, 7, 8}
    BY <1>5, <1>8, <1>13, <2>2, Tokens
  <2>3. CASE i \notin {1, 2, 3, 4, 5, 6, 7, 8}
    <3>1. i \in {m + 9, m + 10, m + 11, m + 12}
      BY <1>11, <2>1, <2>3
    <3>2. CR # LF /\ head[m + 9] = CR
      BY <1>8, Tokens
    <3>3. i # m + 9
      BY <1>13, <3>2
    <3>4. i # m + 11
      BY <1>6, <1>13, <3>2
    <3>. QED  BY <3>1, <3>3, <3>4
  <2>. QED  BY <2>2, <2>3
<1>14. LinesEndInCrLf(head)
  <2>1. ASSUME NEW i \in 1..h, head[i] = LF PROVE i > 1 /\ head[i - 1] = CR
    <3>1. /\ 3 > 1 /\ 3 - 1 = 2 /\ 6 > 1 /\ 6 - 1 = 5
          /\ m + 10 > 1 /\ (m + 10) - 1 = m + 9
          /\ m + 12 > 1 /\ (m + 12) - 1 = m + 11
      BY <1>1
    <3>. QED  BY <1>5, <1>6, <1>8, <1>13, <2>1, <3>1
  <2>. QED  BY <2>1 DEF LinesEndInCrLf, h
<1>15. ASSUME NEW i \in 1..(h - 3), head[i] = LF PROVE head[i + 1] # CR
  <2>1. i \in 1..h /\ i # m + 10 /\ i # m + 12 /\ 3 + 1 = 4 /\ 6 + 1 = 7
    BY <1>1, <1>6
  <2>2. i = 3 \/ i = 6
    BY <1>13, <1>15, <2>1
  <2>. QED  BY <1>8, <2>1, <2>2, Tokens
<1>16. \A i \in 1..(7 - 1) : head[i] # ContentLength
  <2>1. \A i \in 1..(7 - 1) : i \in {1, 2, 3, 4, 5, 6}
    OBVIOUS
  <2>. QED  BY <1>5, <1>8, <2>1, Tokens
<1>17. /\ 7 + m + 5 <= h /\ 7 + 1 = 8 /\ 7 + m + 2 = m + 9 /\ 7 + m + 3 = m + 10
       /\ h - 3 = m + 9 /\ h - 2 = m + 10 /\ h - 1 = m + 11 /\ h = m + 12
  <2>1. m \in Nat
    BY <1>1
  <2>2. h = m + 12
    BY <1>6
  <2>. QED  BY <2>1, <2>2
<1>18. \A i \in 1..m : head[7 + 1 + i] = v[i]
  BY <1>9, <1>17
<1>. QED  BY <1>5, <1>6, <1>8, <1>14, <1>15, <1>16, <1>17, <1>18 DEF Spelled, h, m, head

(* and so is a head in which another field follows it.                     *)
LEMMA ThirdForm ==
    ASSUME NEW v \in Seq(Plain), NEW f, f = LengthField(v) \o OtherField
    PROVE  Spelled(HeadWith(f), 4, v)
<1> DEFINE field == LengthField(v)
           head == HeadWith(f)
           k == Len(OtherField)
           n == Len(field)
           m == Len(v)
           h == Len(head)
<1>1. v \in Seq(Token) /\ m \in Nat /\ \A i \in 1..m : v[i] \in Plain
  BY DEF Plain
<1>2. /\ field \in Seq(Token) /\ n = m + 4
      /\ field[1] = ContentLength /\ field[2] = Blank
      /\ \A i \in 1..m : field[i + 2] = v[i]
      /\ field[m + 3] = CR /\ field[m + 4] = LF
  BY <1>1, SpelledField
<1>3. k = 3
  BY SpelledOther
<1>4. /\ f \in Seq(Token) /\ Len(f) = n + k
      /\ \A i \in 1..(n + k) : f[i] = IF i <= n THEN field[i] ELSE OtherField[i - n]
  <2>1. OtherField \in Seq(Token)
    BY SpelledOther
  <2> HIDE DEF field
  <2>. QED  BY <1>2, <2>1, ConcatProperties DEF field
<1>5. /\ head \in Seq(Token) /\ h = Len(f) + 5
      /\ head[1] = "x" /\ head[2] = CR /\ head[3] = LF
      /\ \A i \in 1..Len(f) : head[i + 3] = f[i]
      /\ head[Len(f) + 4] = CR /\ head[Len(f) + 5] = LF
  BY <1>4, SpelledHead
<1> HIDE DEF field, head, k, n, m, h
<1>6. /\ h = m + 12 /\ Len(f) = m + 7
      /\ head[m + 11] = CR /\ head[m + 12] = LF
      /\ \A i \in 1..(m + 4) : f[i] = field[i]
      /\ \A i \in 1..3 : f[m + 4 + i] = OtherField[i]
  <2>1. Len(f) = m + 7 /\ h = m + 12 /\ (m + 7) + 4 = m + 11 /\ (m + 7) + 5 = m + 12
    BY <1>1, <1>2, <1>3, <1>4, <1>5
  <2>2. \A i \in 1..(m + 4) : i \in 1..(n + k) /\ i <= n
    BY <1>1, <1>2, <1>3
  <2>3. \A i \in 1..3 : m + 4 + i \in 1..(n + k) /\ ~(m + 4 + i <= n) /\ (m + 4 + i) - n = i
    BY <1>1, <1>2, <1>3
  <2>4. head[m + 11] = CR /\ head[m + 12] = LF
    BY <1>5, <2>1
  <2>5. ASSUME NEW i \in 1..(m + 4) PROVE f[i] = field[i]
    BY <1>4, <2>2
  <2>6. ASSUME NEW i \in 1..3 PROVE f[m + 4 + i] = OtherField[i]
    <3>1. f[m + 4 + i] = OtherField[(m + 4 + i) - n]
      BY <1>4, <2>3
    <3>. QED  BY <2>3, <3>1
  <2>. QED  BY <2>1, <2>4, <2>5, <2>6
<1>7. \A i \in 1..(m + 4) : head[i + 3] = field[i]
  <2>1. \A i \in 1..(m + 4) : i \in 1..Len(f)
    BY <1>1, <1>6
  <2>. QED  BY <1>5, <1>6, <2>1
<1>8. /\ head[4] = ContentLength /\ head[5] = Blank
      /\ head[m + 6] = CR /\ head[m + 7] = LF
      /\ head[m + 8] = "x" /\ head[m + 9] = CR /\ head[m + 10] = LF
  <2>1. /\ m + 4 + 1 \in 1..Len(f) /\ m + 4 + 2 \in 1..Len(f) /\ m + 4 + 3 \in 1..Len(f)
        /\ (m + 4 + 1) + 3 = m + 8 /\ (m + 4 + 2) + 3 = m + 9 /\ (m + 4 + 3) + 3 = m + 10
        /\ 1 \in 1..3 /\ 2 \in 1..3 /\ 3 \in 1..3
    BY <1>1, <1>6
  <2>2. /\ head[(m + 4 + 1) + 3] = f[m + 4 + 1] /\ head[(m + 4 + 2) + 3] = f[m + 4 + 2]
        /\ head[(m + 4 + 3) + 3] = f[m + 4 + 3]
    BY <1>5, <2>1
  <2>3. /\ 1 \in 1..(m + 4) /\ 2 \in 1..(m + 4) /\ m + 3 \in 1..(m + 4) /\ m + 4 \in 1..(m + 4)
        /\ 1 + 3 = 4 /\ 2 + 3 = 5 /\ (m + 3) + 3 = m + 6 /\ (m + 4) + 3 = m + 7
    BY <1>1
  <2>4. /\ head[1 + 3] = field[1] /\ head[2 + 3] = field[2]
        /\ head[(m + 3) + 3] = field[m + 3] /\ head[(m + 4) + 3] = field[m + 4]
    BY <1>7, <2>3
  <2>5. f[m + 4 + 1] = "x" /\ f[m + 4 + 2] = CR /\ f[m + 4 + 3] = LF
    BY <1>6, <2>1, SpelledOther
  <2>6. head[m + 8] = "x" /\ head[m + 9] = CR /\ head[m + 10] = LF
    BY <2>1, <2>2, <2>5
  <2>. QED  BY <1>2, <2>3, <2>4, <2>6
<1>9. ASSUME NEW i \in 1..m PROVE head[5 + i] = v[i]
  <2>1. i + 2 \in 1..(m + 4) /\ (i + 2) + 3 = 5 + i
    BY <1>1
  <2>2. head[(i + 2) + 3] = field[i + 2]
    BY <1>7, <2>1
  <2>. QED  BY <1>2, <2>1, <2>2
<1>10. ASSUME NEW i \in 6..(m + 5) PROVE head[i] \in Plain
  <2>1. i - 5 \in 1..m /\ 5 + (i - 5) = i
    BY <1>1
  <2>2. head[5 + (i - 5)] = v[i - 5]
    BY <1>9, <2>1
  <2>. QED  BY <1>1, <2>1, <2>2
<1>11. \A i \in 1..h : \/ i \in {1, 2, 3, 4, 5} \/ i \in 6..(m + 5)
                        \/ i \in {m + 6, m + 7, m + 8, m + 9, m + 10, m + 11, m + 12}
  BY <1>1, <1>6
<1>12. \A p \in Plain : p # CR /\ p # LF /\ p # ContentLength
  BY DEF Plain
<1>13. ASSUME NEW i \in 1..h, head[i] = LF
       PROVE  i \in {3, m + 7, m + 10, m + 12}
  <2>1. i \notin 6..(m + 5)
    BY <1>10, <1>12, <1>13
  <2>2. CASE i \in {1, 2, 3, 4, 5}
    BY <1>5, <1>8, <1>13, <2>2, Tokens
  <2>3. CASE i \notin {1, 2, 3, 4, 5}
    <3>1. i \in {m + 6, m + 7, m + 8, m + 9, m + 10, m + 11, m + 12}
      BY <1>11, <2>1, <2>3
    <3>2. /\ CR # LF /\ "x" # LF
          /\ head[m + 6] = CR /\ head[m + 8] = "x" /\ head[m + 9] = CR
      BY <1>8, Tokens
    <3>3. i # m + 6 /\ i # m + 8 /\ i # m + 9
      BY <1>13, <3>2
    <3>4. i # m + 11
      BY <1>6, <1>13, <3>2
    <3>. QED  BY <3>1, <3>3, <3>4
  <2>. QED  BY <2>2, <2>3
<1>14. LinesEndInCrLf(head)
  <2>1. ASSUME NEW i \in 1..h, head[i] = LF PROVE i > 1 /\ head[i - 1] = CR
    <3>1. /\ 3 > 1 /\ 3 - 1 = 2 /\ m + 7 > 1 /\ (m + 7) - 1 = m + 6
          /\ m + 10 > 1 /\ (m + 10) - 1 = m + 9
          /\ m + 12 > 1 /\ (m + 12) - 1 = m + 11
      BY <1>1
    <3>. QED  BY <1>5, <1>6, <1>8, <1>13, <2>1, <3>1
  <2>. QED  BY <2>1 DEF LinesEndInCrLf, h
<1>15. ASSUME NEW i \in 1..(h - 3), head[i] = LF PROVE head[i + 1] # CR
  <2>1. i \in 1..h /\ i # m + 10 /\ i # m + 12 /\ 3 + 1 = 4 /\ (m + 7) + 1 = m + 8
    <3>1. h = m + 12
      BY <1>6
    <3>. QED  BY <1>1, <3>1
  <2>2. i = 3 \/ i = m + 7
    BY <1>13, <1>15, <2>1
  <2>. QED  BY <1>8, <2>1, <2>2, Tokens
<1>16. \A i \in 1..(4 - 1) : head[i] # ContentLength
  <2>1. \A i \in 1..(4 - 1) : i \in {1, 2, 3}
    OBVIOUS
  <2>. QED  BY <1>5, <2>1, Tokens
<1>17. /\ 4 + m + 5 <= h /\ 4 + 1 = 5 /\ 4 + m + 2 = m + 6 /\ 4 + m + 3 = m + 7
       /\ h - 3 = m + 9 /\ h - 2 = m + 10 /\ h - 1 = m + 11 /\ h = m + 12
  <2>1. m \in Nat
    BY <1>1
  <2>2. h = m + 12
    BY <1>6
  <2>. QED  BY <2>1, <2>2
<1>18. \A i \in 1..m : head[4 + 1 + i] = v[i]
  BY <1>9, <1>17
<1>. QED  BY <1>5, <1>6, <1>8, <1>14, <1>15, <1>16, <1>17, <1>18 DEF Spelled, h, m, head

(* A head whose only blank line is at its end ends once.                   *)
LEMMA LastFour ==
    ASSUME NEW head \in Seq(Token), NEW h, h = Len(head), h > 4,
           head[h - 3] = CR, head[h - 2] = LF, head[h - 1] = CR, head[h] = LF,
           \A i \in 1..(h - 3) : head[i] = LF => head[i + 1] # CR
    PROVE  EndsOnce(head)
<1> DEFINE i == h - 3
           n == Len(BlankLine)
<1>1. n = 4
  BY AtMarks
<1>2. h \in Nat
  OBVIOUS
<1>3. BlankLine \in Seq(Token)
  BY Tokens, Marks
<1> HIDE DEF n
<1>4. i \in Nat \ {0} /\ i + 1 = h - 2 /\ i + 2 = h - 1 /\ i + 3 = h
  BY <1>2
<1>5. At(head, BlankLine, i)
  <2> HIDE DEF i
  <2>. QED  BY <1>4, AtMarks DEF i
<1>6. i \in 1..(h - n + 1)
  BY <1>1, <1>2, <1>4
<1>7. ASSUME NEW j \in 1..(i - 1) PROVE ~At(head, BlankLine, j)
  <2>1. j \in Nat /\ j + 1 \in 1..(h - 3) /\ (j + 1) + 1 = j + 2
    BY <1>2, <1>4
  <2>2. head[j + 1] = LF => head[(j + 1) + 1] # CR
    BY <2>1
  <2>. QED  BY <2>1, <2>2, AtMarks
<1>8. Find(head, BlankLine, 1) = i
  <2> HIDE DEF i
  <2>. QED  BY <1>3, <1>5, <1>6, <1>7, FindIs DEF n
<1>9. h > 3
  BY <1>2
<1>. QED  BY <1>8, <1>9 DEF EndsOnce

(* What isRequestComplete finds in such a head.                            *)
LEMMA SpelledMeans ==
    ASSUME NEW v \in Seq(Plain), NEW head, NEW c, Spelled(head, c, v)
    PROVE  /\ head \in Seq(Token)
           /\ EndsOnce(head)
           /\ NameAt(head) # 0
           /\ ValueOf(head) = <<Blank>> \o v
           /\ LinesEndInCrLf(head)
<1> DEFINE m == Len(v)
           h == Len(head)
<1>1. v \in Seq(Token) /\ m \in Nat /\ \A i \in 1..m : v[i] \in Plain
  BY DEF Plain
<1>2. /\ head \in Seq(Token)
      /\ c \in Nat /\ c > 0 /\ c + m + 5 <= h
      /\ head[c] = ContentLength
      /\ \A i \in 1..(c - 1) : head[i] # ContentLength
      /\ head[c + 1] = Blank
      /\ \A i \in 1..m : head[c + 1 + i] = v[i]
      /\ head[c + m + 2] = CR /\ head[c + m + 3] = LF
      /\ head[h - 3] = CR /\ head[h - 2] = LF /\ head[h - 1] = CR /\ head[h] = LF
      /\ \A i \in 1..(h - 3) : head[i] = LF => head[i + 1] # CR
      /\ LinesEndInCrLf(head)
  BY DEF Spelled
<1>3. h \in Nat
  BY <1>2
<1>4. CRLF \in Seq(Token) /\ BlankLine \in Seq(Token) /\ FieldName \in Seq(Token)
  BY Tokens, Marks
<1>5. EndsOnce(head)
  <2>1. h > 4
    <3>1. c > 0 /\ c \in Nat /\ c + m + 5 <= h
      BY <1>2
    <3>2. m \in Nat
      BY <1>1
    <3> HIDE DEF h, m
    <3>. QED  BY <1>3, <3>1, <3>2
  <2> HIDE DEF h, m
  <2>. QED  BY <1>2, <2>1, LastFour DEF h
<1>6. NameAt(head) = c
  <2> DEFINE n == Len(FieldName)
  <2>1. n = 1
    BY AtMarks
  <2> HIDE DEF n, m, h
  <2>2. c \in 1..(h - n + 1)
    BY <1>1, <1>2, <1>3, <2>1
  <2>3. At(head, FieldName, c)
    BY <1>2, AtMarks
  <2>4. ASSUME NEW j \in 1..(c - 1) PROVE ~At(head, FieldName, j)
    <3>1. j \in Nat
      BY <1>2
    <3>2. head[j] # ContentLength
      BY <1>2
    <3>3. At(head, FieldName, j) <=> head[j] = ContentLength
      BY <1>2, <3>1, AtMarks
    <3>. QED  BY <3>2, <3>3
  <2>. QED  BY <1>2, <1>4, <2>2, <2>3, <2>4, FindIs DEF NameAt, h, n
<1>7. LineEnd(head) = c + m + 2
  <2> DEFINE n == Len(CRLF)
             e == c + m + 2
  <2>1. n = 2
    BY AtMarks
  <2>2. e \in Nat /\ e + 1 = c + m + 3 /\ c + 1 \in Nat \ {0}
    BY <1>1, <1>2
  <2> HIDE DEF n, m, h
  <2>3. e \in (c + 1)..(h - n + 1)
    BY <1>1, <1>2, <1>3, <2>1
  <2>4. At(head, CRLF, e)
    <3> HIDE DEF e
    <3>. QED  BY <1>2, <2>2, AtMarks DEF e
  <2>5. ASSUME NEW j \in (c + 1)..(e - 1) PROVE ~At(head, CRLF, j)
    <3>1. j = c + 1 \/ (j - (c + 1) \in 1..m /\ c + 1 + (j - (c + 1)) = j)
      BY <1>1, <1>2
    <3>2. head[j] # CR
      BY <1>1, <1>2, <3>1, Tokens DEF Plain
    <3>3. j \in Nat
      BY <1>2
    <3>. QED  BY <1>2, <3>2, <3>3, AtMarks
  <2> HIDE DEF e
  <2>6. Find(head, CRLF, c + 1) = e
    BY <1>2, <1>4, <2>2, <2>3, <2>4, <2>5, FindIs DEF h, n
  <2>. QED  BY <1>6, <2>6 DEF LineEnd, e
<1>11. ValueOf(head) = SubSeq(head, c + 1, c + m + 1)
  <2> DEFINE e == LineEnd(head)
             n == NameAt(head)
  <2>1. e = c + m + 2
    BY <1>7
  <2>2. n = c
    BY <1>6
  <2>3. ValueOf(head) = SubSeq(head, n + 1, e - 1)
    BY DEF ValueOf
  <2> HIDE DEF e, m, n
  <2>4. m \in Nat /\ c \in Nat
    BY <1>1, <1>2
  <2>5. e - 1 = c + m + 1
    BY <2>1, <2>4
  <2>. QED  BY <2>2, <2>3, <2>5
<1>8. ValueOf(head) = <<Blank>> \o v
  <2> DEFINE one == <<Blank>>
             k == Len(one)
             a == one \o v
             b == SubSeq(head, c + 1, c + m + 1)
  <2>1. one \in Seq(Token) /\ k = 1 /\ one[1] = Blank
    BY Tokens
  <2> HIDE DEF one
  <2>2. /\ a \in Seq(Token) /\ Len(a) = k + m
        /\ \A i \in 1..(k + m) : a[i] = IF i <= k THEN one[i] ELSE v[i - k]
    <3>1. one \in Seq(Token)
      BY <2>1
    <3>. QED  BY <1>1, <3>1, ConcatProperties
  <2>3. /\ b \in Seq(Token)
        /\ Len(b) = m + 1
        /\ \A i \in 1..(m + 1) : b[i] = head[c + 1 + i - 1]
    <3>1. /\ c + 1 \in Int /\ c + m + 1 \in Int
          /\ \A i \in (c + 1)..(c + m + 1) : head[i] \in Token
      BY <1>1, <1>2
    <3>2. /\ b \in Seq(Token)
          /\ Len(b) = IF c + 1 <= c + m + 1 THEN (c + m + 1) - (c + 1) + 1 ELSE 0
          /\ \A i \in 1..((c + m + 1) - (c + 1) + 1) : b[i] = head[c + 1 + i - 1]
      BY <3>1, SubSeqProperties
    <3>3. c + 1 <= c + m + 1 /\ (c + m + 1) - (c + 1) + 1 = m + 1
      BY <1>1, <1>2
    <3> HIDE DEF b
    <3>. QED  BY <3>2, <3>3
  <2> HIDE DEF a, b, k, m, h
  <2>4. Len(a) = Len(b) /\ Len(b) = m + 1
    BY <1>1, <2>1, <2>2, <2>3
  <2>5. ASSUME NEW i \in 1..(m + 1) PROVE a[i] = b[i]
    <3>1. b[i] = head[c + i]
      <4>1. c + 1 + i - 1 = c + i
        BY <1>2
      <4>. QED  BY <2>3, <4>1
    <3>2. CASE i = 1
      BY <1>1, <1>2, <2>1, <2>2, <3>1, <3>2
    <3>3. CASE i # 1
      <4>1. i - 1 \in 1..m /\ c + 1 + (i - 1) = c + i /\ i \in 1..(k + m) /\ ~(i <= k) /\ i - k = i - 1
        BY <1>1, <1>2, <2>1, <3>3
      <4>2. head[c + 1 + (i - 1)] = v[i - 1]
        BY <1>2, <4>1
      <4>3. a[i] = v[i - k]
        BY <2>2, <4>1
      <4>. QED  BY <3>1, <4>1, <4>2, <4>3
    <3>. QED  BY <3>2, <3>3
  <2>6. \A i \in 1..Len(a) : a[i] = b[i]
    BY <2>4, <2>5
  <2>7. a = b
    BY <2>2, <2>3, <2>4, <2>6, SeqEqual
  <2>8. ValueOf(head) = b
    BY <1>11 DEF b
  <2>. QED  BY <2>7, <2>8 DEF a, one
<1>9. NameAt(head) # 0
  BY <1>2, <1>6
<1>. QED  BY <1>2, <1>5, <1>8, <1>9

(* A head without the field.                                               *)
Nameless(head) ==
    LET h == Len(head)
    IN /\ head \in Seq(Token) /\ h > 4
       /\ \A i \in 1..h : head[i] # ContentLength
       /\ head[h - 3] = CR /\ head[h - 2] = LF /\ head[h - 1] = CR /\ head[h] = LF
       /\ \A i \in 1..(h - 3) : head[i] = LF => head[i + 1] # CR
       /\ LinesEndInCrLf(head)

(* A request line alone is such a head,                                    *)
LEMMA ShortHead == Nameless(HeadWith(<<>>))
<1> DEFINE e == <<>>
           m == Len(e)
           head == HeadWith(e)
           h == Len(head)
<1>1. e \in Seq(Token) /\ m = 0
  OBVIOUS
<1>2. /\ head \in Seq(Token) /\ h = m + 5
      /\ head[1] = "x" /\ head[2] = CR /\ head[3] = LF
      /\ head[m + 4] = CR /\ head[m + 5] = LF
  <2> HIDE DEF e
  <2>. QED  BY <1>1, SpelledHead
<1> HIDE DEF e, m, head, h
<1>3. /\ h = 5 /\ h > 4 /\ h - 3 = 2 /\ h - 2 = 3 /\ h - 1 = 4
      /\ m + 4 = 4 /\ m + 5 = 5
  BY <1>1, <1>2
<1>4. head[1] = "x" /\ head[2] = CR /\ head[3] = LF /\ head[4] = CR /\ head[5] = LF
  BY <1>2, <1>3
<1>5. \A i \in 1..h : i \in {1, 2, 3, 4, 5}
  BY <1>3
<1>6. \A i \in 1..h : head[i] # ContentLength
  BY <1>4, <1>5, Tokens
<1>7. ASSUME NEW i \in 1..h, head[i] = LF PROVE i > 1 /\ head[i - 1] = CR
  <2>1. i = 3 \/ i = 5
    BY <1>4, <1>5, <1>7, Tokens
  <2>2. (i = 3 => i - 1 = 2) /\ (i = 5 => i - 1 = 4)
    OBVIOUS
  <2>. QED  BY <1>4, <2>1, <2>2
<1>8. ASSUME NEW i \in 1..(h - 3), head[i] = LF PROVE head[i + 1] # CR
  <2>1. i \in {1, 2}
    BY <1>3
  <2>. QED  BY <1>4, <1>8, <2>1, Tokens
<1>9. LinesEndInCrLf(head)
  BY <1>7 DEF LinesEndInCrLf, h
<1>10. head[h - 3] = CR /\ head[h - 2] = LF /\ head[h - 1] = CR /\ head[h] = LF
  BY <1>3, <1>4
<1>11. Nameless(head)
  BY <1>2, <1>3, <1>6, <1>8, <1>9, <1>10 DEF Nameless, h
<1>. QED  BY <1>11 DEF head, e

(* and so is one with another field.                                       *)
LEMMA OtherHead == Nameless(HeadWith(OtherField))
<1> DEFINE m == Len(OtherField)
           head == HeadWith(OtherField)
           h == Len(head)
<1>1. OtherField \in Seq(Token) /\ m = 3
      /\ OtherField[1] = "x" /\ OtherField[2] = CR /\ OtherField[3] = LF
  BY SpelledOther
<1>2. /\ head \in Seq(Token) /\ h = m + 5
      /\ head[1] = "x" /\ head[2] = CR /\ head[3] = LF
      /\ \A i \in 1..m : head[i + 3] = OtherField[i]
      /\ head[m + 4] = CR /\ head[m + 5] = LF
  BY <1>1, SpelledHead
<1> HIDE DEF m, head, h
<1>3. /\ h = 8 /\ h > 4 /\ h - 3 = 5 /\ h - 2 = 6 /\ h - 1 = 7
      /\ m + 4 = 7 /\ m + 5 = 8
      /\ 1 \in 1..m /\ 2 \in 1..m /\ 3 \in 1..m /\ 1 + 3 = 4 /\ 2 + 3 = 5 /\ 3 + 3 = 6
  BY <1>1, <1>2
<1>12. head[1 + 3] = "x" /\ head[2 + 3] = CR /\ head[3 + 3] = LF
  BY <1>1, <1>2, <1>3
<1>4. /\ head[1] = "x" /\ head[2] = CR /\ head[3] = LF
      /\ head[4] = "x" /\ head[5] = CR /\ head[6] = LF /\ head[7] = CR /\ head[8] = LF
  BY <1>2, <1>3, <1>12
<1>5. \A i \in 1..h : i \in {1, 2, 3, 4, 5, 6, 7, 8}
  BY <1>3
<1>6. \A i \in 1..h : head[i] # ContentLength
  BY <1>4, <1>5, Tokens
<1>7. ASSUME NEW i \in 1..h, head[i] = LF PROVE i > 1 /\ head[i - 1] = CR
  <2>1. i = 3 \/ i = 6 \/ i = 8
    BY <1>4, <1>5, <1>7, Tokens
  <2>2. (i = 3 => i - 1 = 2) /\ (i = 6 => i - 1 = 5) /\ (i = 8 => i - 1 = 7)
    OBVIOUS
  <2>. QED  BY <1>4, <2>1, <2>2
<1>8. ASSUME NEW i \in 1..(h - 3), head[i] = LF PROVE head[i + 1] # CR
  <2>1. i \in {1, 2, 3, 4, 5}
    BY <1>3
  <2>2. i = 3
    BY <1>4, <1>8, <2>1, Tokens
  <2>3. i + 1 = 4
    BY <2>2
  <2>. QED  BY <1>4, <2>3, Tokens
<1>9. LinesEndInCrLf(head)
  BY <1>7 DEF LinesEndInCrLf, h
<1>10. head[h - 3] = CR /\ head[h - 2] = LF /\ head[h - 1] = CR /\ head[h] = LF
  BY <1>3, <1>4
<1>. QED  BY <1>2, <1>3, <1>6, <1>8, <1>9, <1>10 DEF Nameless, h, head

(* What isRequestComplete finds in such a head.                            *)
LEMMA NamelessMeans ==
    ASSUME NEW head, Nameless(head)
    PROVE  /\ head \in Seq(Token)
           /\ EndsOnce(head)
           /\ NameAt(head) = 0
           /\ LinesEndInCrLf(head)
<1> DEFINE h == Len(head)
<1>1. /\ head \in Seq(Token) /\ h > 4
      /\ \A i \in 1..h : head[i] # ContentLength
      /\ head[h - 3] = CR /\ head[h - 2] = LF /\ head[h - 1] = CR /\ head[h] = LF
      /\ \A i \in 1..(h - 3) : head[i] = LF => head[i + 1] # CR
      /\ LinesEndInCrLf(head)
  BY DEF Nameless
<1>2. EndsOnce(head)
  <2> HIDE DEF h
  <2>. QED  BY <1>1, LastFour DEF h
<1>3. NameAt(head) = 0
  <2>1. FieldName \in Seq(Token)
    BY Tokens, Marks
  <2>2. 1 \in Nat \ {0}
    OBVIOUS
  <2>3. \A i : i \notin Places(head, FieldName, 1)
    BY <1>1, <2>2, MarkPlaces
  <2>. QED  BY <1>1, <2>1, <2>2, <2>3, FindFirst DEF NameAt
<1>. QED  BY <1>1, <1>2, <1>3

-----------------------------------------------------------------------------
(* The requests of EpollFraming, complete and malformed.                   *)

(* A head with a Content-Length field, wherever the field stands in it,    *)
(* ends once and names the value that was written, if the value is no      *)
(* line's end or field name.                                               *)
LEMMA LengthHead ==
    ASSUME NEW v \in Seq(Plain), NEW f \in Around(LengthField(v))
    PROVE  LET head == HeadWith(f)
           IN /\ head \in Seq(Token)
              /\ EndsOnce(head)
              /\ NameAt(head) # 0
              /\ ValueOf(head) = <<Blank>> \o v
              /\ LinesEndInCrLf(head)
<1> DEFINE head == HeadWith(f)
<1>1. \/ f = LengthField(v)
      \/ f = OtherField \o LengthField(v)
      \/ f = LengthField(v) \o OtherField
  BY DEF Around
<1>2. \E c : Spelled(head, c, v)
  BY <1>1, FirstForm, SecondForm, ThirdForm
<1> HIDE DEF head
<1>3. PICK c : Spelled(head, c, v)
  BY <1>2
<1>4. QED  BY <1>3, SpelledMeans DEF head

(* The bodies are texts, with lengths of at most two digits.               *)
LEMMA BodiesAre ==
    ASSUME NEW b \in Bodies
    PROVE  b \in Seq(Token) /\ Len(b) \in 0..99
<1>1. CASE b \in {[i \in 1..n |-> "x"] : n \in {0, 1, 2, 11}}
  <2>1. PICK n \in {0, 1, 2, 11} : b = [i \in 1..n |-> "x"]
    BY <1>1
  <2>2. "x" \in Token
    BY Tokens
  <2>3. n \in Nat /\ n \in 0..99
    BY <2>1
  <2> HIDE DEF Token
  <2>4. b \in Seq(Token) /\ Len(b) = n
    BY <2>1, <2>2, <2>3
  <2>. QED  BY <2>3, <2>4
<1>2. CASE b = <<"x", LF>>
  BY <1>2, Tokens
<1>3. CASE b = <<"x", LF, "x">>
  BY <1>3, Tokens
<1>4. CASE b = <<"x">> \o CRLF \o CRLF \o <<"x">>
  <2> DEFINE o == <<"x">>
             j == Len(o)
             l == Len(CRLF)
             a == o \o CRLF
  <2>1. o \in Seq(Token) /\ j = 1
    BY Tokens
  <2>2. CRLF \in Seq(Token) /\ l = 2
    BY Tokens DEF CRLF
  <2>3. b = (a \o CRLF) \o o
    BY <1>4
  <2> HIDE DEF o
  <2>4. a \in Seq(Token) /\ Len(a) = j + l
    BY <2>1, <2>2, ConcatProperties
  <2> HIDE DEF a
  <2>5. a \o CRLF \in Seq(Token) /\ Len(a \o CRLF) = Len(a) + l
    BY <2>2, <2>4, ConcatProperties
  <2> DEFINE c == a \o CRLF
  <2> HIDE DEF c
  <2>6. c \in Seq(Token) /\ Len(c) = Len(a) + l /\ b = c \o o
    BY <2>3, <2>5 DEF c
  <2>7. b \in Seq(Token) /\ Len(b) = Len(c) + j
    BY <2>1, <2>6, ConcatProperties
  <2> HIDE DEF j, l
  <2>. QED  BY <2>1, <2>2, <2>4, <2>6, <2>7
<1>. QED  BY <1>1, <1>2, <1>3, <1>4 DEF Bodies

(* Digits, blanks, minus signs and letters may stand in a value.           *)
LEMMA DigitsPlain == Digit \subseteq Plain /\ {Blank, Minus, "x"} \subseteq Plain
BY Tokens DEF Plain

(* What a client sends: a head that ends once and counts the body, or      *)
(* names no length and has none.                                           *)
LEMMA RequestsAre ==
    ASSUME NEW r \in Requests
    PROVE  /\ r.head \in Seq(Token) /\ r.body \in Seq(Token)
           /\ EndsOnce(r.head) /\ LinesEndInCrLf(r.head)
           /\ \/ NameAt(r.head) # 0 /\ Stoi(ValueOf(r.head)) = {Len(r.body)}
              \/ NameAt(r.head) = 0 /\ r.body = <<>>
<1>1. CASE r \in WithBody
  <2>0. PICK b \in Bodies :
            r \in {[head |-> HeadWith(f), body |-> b] : f \in Around(LengthField(Decimal(Len(b))))}
    BY <1>1 DEF WithBody
  <2>1. PICK f \in Around(LengthField(Decimal(Len(b)))) : r = [head |-> HeadWith(f), body |-> b]
    BY <2>0
  <2> DEFINE v == Decimal(Len(b))
             head == HeadWith(f)
  <2>2. r.head = head /\ r.body = b
    BY <2>1
  <2>3. b \in Seq(Token) /\ Len(b) \in 0..99
    BY BodiesAre
  <2>4. Stoi(<<Blank>> \o v) = {Len(b)} /\ v \in Seq(Digit)
    BY <2>3, StoiDecimal
  <2>5. v \in Seq(Plain)
    BY <2>4, DigitsPlain
  <2> HIDE DEF v, head
  <2>6. /\ head \in Seq(Token) /\ EndsOnce(head) /\ NameAt(head) # 0
        /\ ValueOf(head) = <<Blank>> \o v /\ LinesEndInCrLf(head)
    <3>1. f \in Around(LengthField(v))
      BY <2>1 DEF v
    <3>. QED  BY <2>5, <3>1, LengthHead DEF head
  <2>. QED  BY <2>2, <2>3, <2>4, <2>6
<1>2. CASE r \in WithoutBody
  <2>1. PICK f \in {<<>>, OtherField} : r = [head |-> HeadWith(f), body |-> <<>>]
    BY <1>2 DEF WithoutBody
  <2> DEFINE head == HeadWith(f)
             none == <<>>
  <2>2. r.head = head /\ r.body = none
    BY <2>1
  <2>3. Nameless(head)
    BY <2>1, ShortHead, OtherHead
  <2>4. none \in Seq(Token)
    OBVIOUS
  <2> HIDE DEF head
  <2>5. head \in Seq(Token) /\ EndsOnce(head) /\ NameAt(head) = 0 /\ LinesEndInCrLf(head)
    BY <2>3, NamelessMeans
  <2>. QED  BY <2>2, <2>4, <2>5
<1>. QED  BY <1>1, <1>2 DEF Requests

(* Such a request is complete when its last character has come, and not    *)
(* before.                                                                 *)
LEMMA CompleteAtItsEnd ==
    ASSUME NEW r \in Requests, NEW k \in 0..Len(r.head \o r.body)
    PROVE  IsRequestComplete(SubSeq(r.head \o r.body, 1, k)) <=> k = Len(r.head \o r.body)
<1> DEFINE head == r.head
           body == r.body
           text == head \o body
           h == Len(head)
           b == Len(body)
<1>1. /\ head \in Seq(Token) /\ body \in Seq(Token) /\ EndsOnce(head)
      /\ \/ NameAt(head) # 0 /\ Stoi(ValueOf(head)) = {b}
         \/ NameAt(head) = 0 /\ body = <<>>
  BY RequestsAre
<1>2. {CR, LF, ContentLength} \subseteq Token
  BY Tokens
<1> HIDE DEF head, body
<1>3. CASE NameAt(head) # 0 /\ Stoi(ValueOf(head)) = {b}
  <2>1. Len(text) = h + b /\ h \in Nat /\ b \in Nat
    BY <1>1
  <2>2. k \in 0..Len(text)
    BY DEF head, body
  <2>3. IsRequestComplete(SubSeq(text, 1, k))
            <=> /\ k >= h
                /\ \A n \in Stoi(ValueOf(head)) : LongEnough(k - h, n)
    BY <1>1, <1>2, <1>3, <2>2, HeadAndRest
  <2>4. (\A n \in Stoi(ValueOf(head)) : LongEnough(k - h, n)) <=> LongEnough(k - h, b)
    BY <1>3
  <2> HIDE DEF h, b
  <2>5. k >= h /\ LongEnough(k - h, b) <=> k = h + b
    BY <2>1, <2>2 DEF LongEnough
  <2>. QED  BY <2>1, <2>3, <2>4, <2>5 DEF head, body
<1>4. CASE NameAt(head) = 0 /\ body = <<>>
  <2>1. text = head
    BY <1>1, <1>4
  <2>2. k \in 0..Len(head)
    BY <2>1 DEF head, body
  <2>3. IsRequestComplete(SubSeq(head, 1, k)) <=> k = Len(head)
    BY <1>1, <1>2, <1>4, <2>2, HeadAlone
  <2>. QED  BY <2>1, <2>3 DEF head, body
<1>. QED  BY <1>1, <1>3, <1>4

(* However a request is cut, the texts agree with the count of segments.   *)
LEMMA SegmentsFramed == \A n \in 0..ReqLen : FramedRight[n]
<1> SUFFICES ASSUME NEW n \in 0..ReqLen,
                    NEW r \in Requests, NEW k \in CutAfter(n, Len(r.head \o r.body))
             PROVE  IsRequestComplete(SubSeq(r.head \o r.body, 1, k)) <=> RequestComplete(n)
  BY DEF FramedRight
<1> DEFINE length == Len(r.head \o r.body)
<1>1. ReqLen \in Nat \ {0} /\ n \in Nat
  BY ConstantsAssumption
<1>2. length \in Nat
  <2>1. r.head \in Seq(Token) /\ r.body \in Seq(Token)
    BY RequestsAre
  <2> DEFINE text == r.head \o r.body
  <2>2. text \in Seq(Token)
    BY <2>1
  <2> HIDE DEF text
  <2>3. Len(text) \in Nat
    BY <2>2
  <2>. QED  BY <2>3 DEF text
<1>3. k \in n..(length - (ReqLen - n)) /\ (n = ReqLen => k = length)
  BY DEF CutAfter
<1>4. IsRequestComplete(SubSeq(r.head \o r.body, 1, k)) <=> k = length
  <2>1. k \in 0..length
    <3> HIDE DEF length
    <3>. QED  BY <1>1, <1>2, <1>3
  <2>. QED  BY <2>1, CompleteAtItsEnd
<1> HIDE DEF length
<1>5. k = length <=> n = ReqLen
  BY <1>1, <1>2, <1>3
<1>6. n = ReqLen <=> RequestComplete(n)
  BY <1>1 DEF RequestComplete
<1>. QED  BY <1>4, <1>5, <1>6

(* The handler gets the body that was sent.                                *)
LEMMA BodiesIntact == BodyRight
<1> SUFFICES ASSUME NEW r \in Requests
             PROVE  BodyOf(r.head \o r.body) = WithoutLastNewline(r.body)
  BY DEF BodyRight
<1> DEFINE head == r.head
           body == r.body
<1>1. head \in Seq(Token) /\ body \in Seq(Token) /\ EndsOnce(head) /\ LinesEndInCrLf(head)
  BY RequestsAre
<1>2. {CR, LF, ContentLength} \subseteq Token
  BY Tokens
<1> HIDE DEF head, body
<1>3. BodyOf(head \o body) = WithoutLastNewline(body)
  BY <1>1, <1>2, BodyAfterHead
<1>. QED  BY <1>3 DEF head, body

(* The values that are no int can stand in a head, and std::stoi throws on *)
(* them.                                                                   *)
LEMMA UnparsableMeans ==
    ASSUME NEW v \in Unparsable
    PROVE  v \in Seq(Plain) /\ Stoi(<<Blank>> \o v) = {}
<1>1. CASE v \in {<<"x">>, <<Blank>>, <<Minus>>}
  <2>1. PICK w \in {"x", Blank, Minus} : v = <<w>>
    BY <1>1
  <2>2. w \in Plain
    BY DigitsPlain
  <2>3. v \in Seq(Plain)
    BY <2>1, <2>2
  <2>. QED  BY <1>1, <2>3, StoiNone
<1>2. CASE v = [i \in 1..11 |-> "9"]
  <2>1. Stoi(<<Blank>> \o v) = {} /\ v \in Seq(Digit)
    BY <1>2, StoiTooLarge
  <2>. QED  BY <2>1, DigitsPlain
<1>. QED  BY <1>1, <1>2 DEF Unparsable

(* The negative values can stand in a head, and are read as negative.      *)
LEMMA NegativeMeans ==
    ASSUME NEW v \in Negative
    PROVE  v \in Seq(Plain) /\ \E n \in Int : n < 0 /\ Stoi(<<Blank>> \o v) = {n}
<1>1. v \in Seq(Digit \cup {Minus})
  BY StoiNegative
<1>2. Digit \cup {Minus} \subseteq Plain
  BY DigitsPlain
<1>. QED  BY <1>1, <1>2, StoiNegative

(* However a request with a malformed length is cut, it ends with its head *)
(* if the length is no int and never if it is negative.                    *)
LEMMA SegmentsMalformed == \A n \in 0..ReqLen : MalformedRight[n]
<1> SUFFICES ASSUME NEW n \in 0..ReqLen, NEW m \in 0..2, NEW rest, rest = [i \in 1..m |-> "x"]
             PROVE
                 /\ \A head \in HeadsOf(Unparsable) : \A k \in CutAfter(n, Len(head \o rest)) :
                        IsRequestComplete(SubSeq(head \o rest, 1, k)) <=> k >= Len(head)
                 /\ \A head \in HeadsOf(Negative) : \A k \in CutAfter(n, Len(head \o rest)) :
                        ~IsRequestComplete(SubSeq(head \o rest, 1, k))
  BY DEF MalformedRight
<1>1. rest \in Seq(Token)
  <2>1. "x" \in Token /\ m \in Nat
    BY Tokens
  <2>. QED  BY <2>1
<1>2. {CR, LF, ContentLength} \subseteq Token
  BY Tokens
<1>3. ASSUME NEW v \in Seq(Plain), NEW f \in Around(LengthField(v)),
             NEW head, head = HeadWith(f), NEW k \in CutAfter(n, Len(head \o rest))
      PROVE  IsRequestComplete(SubSeq(head \o rest, 1, k))
                 <=> /\ k >= Len(head)
                     /\ \A l \in Stoi(<<Blank>> \o v) : LongEnough(k - Len(head), l)
  <2>1. /\ head \in Seq(Token) /\ EndsOnce(head) /\ NameAt(head) # 0
        /\ ValueOf(head) = <<Blank>> \o v
    BY <1>3, LengthHead
  <2> DEFINE length == Len(head \o rest)
  <2>2. length \in Nat
    BY <1>1, <2>1
  <2>3. k \in n..(length - (ReqLen - n)) /\ ReqLen \in Nat
    BY ConstantsAssumption DEF CutAfter
  <2>4. k \in 0..length
    <3> HIDE DEF length
    <3>. QED  BY <2>2, <2>3
  <2>. QED  BY <1>1, <1>2, <2>1, <2>4, HeadAndRest
<1>4. ASSUME NEW head \in HeadsOf(Unparsable), NEW k \in CutAfter(n, Len(head \o rest))
      PROVE  IsRequestComplete(SubSeq(head \o rest, 1, k)) <=> k >= Len(head)
  <2>0. PICK v \in Unparsable : head \in {HeadWith(f) : f \in Around(LengthField(v))}
    BY DEF HeadsOf
  <2>1. PICK f \in Around(LengthField(v)) : head = HeadWith(f)
    BY <2>0
  <2>2. v \in Seq(Plain) /\ Stoi(<<Blank>> \o v) = {}
    BY UnparsableMeans
  <2>3. IsRequestComplete(SubSeq(head \o rest, 1, k))
            <=> /\ k >= Len(head)
                /\ \A l \in Stoi(<<Blank>> \o v) : LongEnough(k - Len(head), l)
    BY <1>3, <2>1, <2>2
  <2>. QED  BY <2>2, <2>3
<1>5. ASSUME NEW head \in HeadsOf(Negative), NEW k \in CutAfter(n, Len(head \o rest))
      PROVE  ~IsRequestComplete(SubSeq(head \o rest, 1, k))
  <2>0. PICK v \in Negative : head \in {HeadWith(f) : f \in Around(LengthField(v))}
    BY DEF HeadsOf
  <2>1. PICK f \in Around(LengthField(v)) : head = HeadWith(f)
    BY <2>0
  <2>2. v \in Seq(Plain) /\ \E l \in Int : l < 0 /\ Stoi(<<Blank>> \o v) = {l}
    BY NegativeMeans
  <2>3. IsRequestComplete(SubSeq(head \o rest, 1, k))
            <=> /\ k >= Len(head)
                /\ \A l \in Stoi(<<Blank>> \o v) : LongEnough(k - Len(head), l)
    BY <1>3, <2>1, <2>2
  <2>4. PICK l \in Int : l < 0 /\ Stoi(<<Blank>> \o v) = {l}
    BY <2>2
  <2>5. ~LongEnough(k - Len(head), l)
    BY <2>4 DEF LongEnough
  <2>. QED  BY <2>3, <2>4, <2>5
<1>. QED  BY <1>4, <1>5

-----------------------------------------------------------------------------
(* A connection's request is taken for complete when all of it has come    *)
(* and never before, wherever its bytes are cut (server_epoll.cpp:392-429).*)
THEOREM RequestsFramed == Spec => []FramedAsCounted
<1>1. TypeOK => FramedAsCounted
  <2>1. ASSUME TypeOK, NEW fd \in clients PROVE conn[fd].got \in 0..ReqLen
    BY <2>1 DEF TypeOK, Connection
  <2>. QED  BY <2>1, SegmentsFramed DEF FramedAsCounted
<1>. QED  BY <1>1, TypeCorrect, PTL

(* After a Content-Length that is no int the request ends with its head,   *)
(* after a negative one it never ends (server_epoll.cpp:412-424).          *)
THEOREM MalformedFramed == Spec => []MalformedEnds
<1>1. TypeOK => MalformedEnds
  <2>1. ASSUME TypeOK, NEW fd \in clients PROVE conn[fd].got \in 0..ReqLen
    BY <2>1 DEF TypeOK, Connection
  <2>. QED  BY <2>1, SegmentsMalformed DEF MalformedEnds
<1>. QED  BY <1>1, TypeCorrect, PTL

(* From a request that is complete the handler takes the body that was     *)
(* sent (request_handler.cpp:342-353).                                     *)
THEOREM BodiesKept == Spec => []BodyIntact
<1>1. BodyIntact
  BY BodiesIntact DEF BodyIntact
<1>. QED  BY <1>1, PTL

===============================================================================

-------------------------- MODULE ImageNamesProofs ---------------------------
(***************************************************************************)
(* Proofs about the names of images, for any words and any depth.  A name  *)
(* is cut at its first slash, at its last colon or at an "@"; the first    *)
(* part says what the cuts return for a name that is put together around   *)
(* such a separator, and everything after it is rewriting.                 *)
(***************************************************************************)
EXTENDS ImageNames, SequenceTheorems, FiniteSetTheorems, TLAPS

Separators == {"/", ":", "@"}

Words ==
    Dotted \cup Numbers \cup Hosts \cup Components \cup Tags \cup Separators
        \cup {defaultRegistry, defaultTag, officialPrefix, hubHost}

(* Words that hold no separator: what a tag or a registry is made of.      *)
Plain == Words \ Separators

Names == Seq(Words)

(* The name with b after a and the separator w between them.               *)
Join(a, w, b) == a \o <<w>> \o b

-----------------------------------------------------------------------------
(* The words that the code names are no separators, and separators differ. *)
LEMMA FixedWords ==
    /\ defaultRegistry \in Plain /\ defaultTag \in Plain
    /\ officialPrefix \in Plain /\ hubHost \in Plain
    /\ "/" \in Words /\ ":" \in Words /\ "@" \in Words
    /\ "/" # ":" /\ "/" # "@" /\ ":" # "@"
<1>1. {defaultRegistry, defaultTag, officialPrefix, hubHost} \cap Separators = {}
  BY DEF defaultRegistry, defaultTag, officialPrefix, hubHost, Separators
<1>2. {defaultRegistry, defaultTag, officialPrefix, hubHost} \subseteq Words
  BY DEF Words
<1>3. "/" \in Words /\ ":" \in Words /\ "@" \in Words
  BY DEF Words, Separators
<1>4. "/" # ":" /\ "/" # "@" /\ ":" # "@"
  OBVIOUS
<1> QED
  BY <1>1, <1>2, <1>3, <1>4, Zenon DEF Plain

(* A plain word is a name without separators.                              *)
LEMMA PlainWord ==
    ASSUME NEW t \in Plain
    PROVE  t \in Words /\ t # "/" /\ t # ":" /\ t # "@"
  BY DEF Plain, Separators

(* What users write is plain.                                              *)
LEMMA UserWords ==
    /\ Dotted \cup Numbers \cup Hosts \cup Components \cup Tags \subseteq Plain
    /\ defaultRegistry \in Dotted
    /\ hubHost \in Dotted
    /\ None \notin Hosts \cup Tags \cup Numbers
<1>1. \A w \in Separators :
        w \notin Dotted \cup Numbers \cup Hosts \cup Components \cup Tags
  BY WordAssumption, Zenon DEF Separators
<1> QED
  BY <1>1, WordAssumption DEF Plain, Words, defaultRegistry, hubHost

-----------------------------------------------------------------------------
(* Two names one after the other, position by position.                    *)
LEMMA Cat ==
    ASSUME NEW a \in Names, NEW b \in Names
    PROVE  /\ a \o b \in Names
           /\ Len(a \o b) = Len(a) + Len(b)
           /\ \A i \in 1..Len(a) : (a \o b)[i] = a[i]
           /\ \A i \in 1..Len(b) : (a \o b)[Len(a) + i] = b[i]
<1>1. /\ a \o b \in Names
      /\ Len(a \o b) = Len(a) + Len(b)
      /\ \A i \in 1 .. Len(a) + Len(b) :
            (a \o b)[i] = IF i <= Len(a) THEN a[i] ELSE b[i - Len(a)]
  BY ConcatProperties, Zenon DEF Names
<1>2. Len(a) \in Nat /\ Len(b) \in Nat
  BY LenProperties DEF Names
<1>3. \A i \in 1..Len(a) : (a \o b)[i] = a[i]
  BY <1>1, <1>2
<1>4. \A i \in 1..Len(b) : (a \o b)[Len(a) + i] = b[i]
  <2> TAKE i \in 1..Len(b)
  <2>1. /\ Len(a) + i \in 1..(Len(a) + Len(b))
        /\ ~(Len(a) + i <= Len(a))
        /\ (Len(a) + i) - Len(a) = i
    BY <1>2
  <2> QED
    BY <2>1, <1>1
<1> QED
  BY <1>1, <1>3, <1>4

(* Concatenation of names is associative.                                  *)
LEMMA CatAssociative ==
    ASSUME NEW a \in Names, NEW b \in Names, NEW c \in Names
    PROVE  (a \o b) \o c = a \o (b \o c)
  BY ConcatAssociative DEF Names

(* The empty name is its unit.                                             *)
LEMMA CatEmpty ==
    ASSUME NEW a \in Names
    PROVE  a \o << >> = a /\ << >> \o a = a
  BY ConcatEmptySeq, Zenon DEF Names

(* One word is a name.                                                     *)
LEMMA OneWord ==
    ASSUME NEW w \in Words
    PROVE  /\ <<w>> \in Names
           /\ Len(<<w>>) = 1
           /\ <<w>>[1] = w
           /\ \A v : Has(<<w>>, v) <=> v = w
           /\ HasDot(<<w>>) <=> w \in Dotted
  BY DEF Names, Has, HasDot

(* The length and the positions of a name.                                 *)
LEMMA NameDomain ==
    ASSUME NEW s \in Names
    PROVE  /\ Len(s) \in Nat
           /\ DOMAIN s = 1..Len(s)
           /\ \A i \in 1..Len(s) : s[i] \in Words
  BY LenProperties, ElementOfSeq DEF Names

(* Names with the same words in the same places are the same.              *)
LEMMA SameName ==
    ASSUME NEW s \in Names, NEW t \in Names,
           Len(s) = Len(t), \A i \in 1..Len(s) : s[i] = t[i]
    PROVE  s = t
  BY SeqEqual, Zenon DEF Names

(* A word or a dot in two names one after the other is in one of them.     *)
LEMMA CatHas ==
    ASSUME NEW a \in Names, NEW b \in Names, NEW w
    PROVE  /\ Has(a \o b, w) <=> Has(a, w) \/ Has(b, w)
           /\ HasDot(a \o b) <=> HasDot(a) \/ HasDot(b)
<1> PICK c : c = a \o b
  OBVIOUS
<1>1. /\ c \in Names
      /\ Len(c) = Len(a) + Len(b)
      /\ \A i \in 1..Len(a) : c[i] = a[i]
      /\ \A i \in 1..Len(b) : c[Len(a) + i] = b[i]
  BY Cat
<1>2. /\ Len(a) \in Nat /\ Len(b) \in Nat
      /\ DOMAIN a = 1..Len(a) /\ DOMAIN b = 1..Len(b)
      /\ DOMAIN c = 1..(Len(a) + Len(b))
  BY <1>1, NameDomain
<1>3. \A i \in DOMAIN c : \/ i \in DOMAIN a /\ c[i] = a[i]
                          \/ i - Len(a) \in DOMAIN b /\ c[i] = b[i - Len(a)]
  <2> TAKE i \in DOMAIN c
  <2>1. CASE i <= Len(a)
    BY <2>1, <1>1, <1>2
  <2>2. CASE i > Len(a)
    <3>1. i - Len(a) \in 1..Len(b) /\ Len(a) + (i - Len(a)) = i
      BY <2>2, <1>2
    <3> QED
      BY <3>1, <1>1, <1>2
  <2> QED
    BY <2>1, <2>2, <1>2
<1>4. \A i \in DOMAIN a : i \in DOMAIN c /\ c[i] = a[i]
  BY <1>1, <1>2
<1>5. \A i \in DOMAIN b : Len(a) + i \in DOMAIN c /\ c[Len(a) + i] = b[i]
  BY <1>1, <1>2
<1>6. Has(c, w) <=> Has(a, w) \/ Has(b, w)
  <2>1. ASSUME NEW i \in DOMAIN c, c[i] = w PROVE Has(a, w) \/ Has(b, w)
    BY <2>1, <1>3 DEF Has
  <2>2. ASSUME NEW i \in DOMAIN a, a[i] = w PROVE Has(c, w)
    BY <2>2, <1>4 DEF Has
  <2>3. ASSUME NEW i \in DOMAIN b, b[i] = w PROVE Has(c, w)
    BY <2>3, <1>5 DEF Has
  <2> QED
    BY <2>1, <2>2, <2>3 DEF Has
<1>7. HasDot(c) <=> HasDot(a) \/ HasDot(b)
  BY <1>3, <1>4, <1>5, Zenon DEF HasDot
<1> QED
  BY <1>6, <1>7

-----------------------------------------------------------------------------
(* Position by position, d is a, then w, then b.                           *)
Consists(d, a, w, b) ==
    /\ d \in Names
    /\ Len(d) = Len(a) + 1 + Len(b)
    /\ \A i \in 1..Len(a) : d[i] = a[i]
    /\ d[Len(a) + 1] = w
    /\ \A i \in 1..Len(b) : d[Len(a) + 1 + i] = b[i]

(* Join puts the parts in that order.                                      *)
LEMMA Joined ==
    ASSUME NEW a \in Names, NEW w \in Words, NEW b \in Names
    PROVE  Consists(Join(a, w, b), a, w, b)
<1> DEFINE c == a \o <<w>>
           d == c \o b
<1>1. /\ c \in Names
      /\ Len(c) = Len(a) + 1
      /\ \A i \in 1..Len(a) : c[i] = a[i]
      /\ \A i \in 1..1 : c[Len(a) + i] = <<w>>[i]
  <2>1. <<w>> \in Names /\ Len(<<w>>) = 1
    BY OneWord
  <2> QED
    BY <2>1, Cat
<1> HIDE DEF c
<1>2. /\ d \in Names
      /\ Len(d) = Len(c) + Len(b)
      /\ \A i \in 1..Len(c) : d[i] = c[i]
      /\ \A i \in 1..Len(b) : d[Len(c) + i] = b[i]
  BY <1>1, Cat
<1> HIDE DEF d
<1>3. Len(a) \in Nat /\ Len(b) \in Nat
  BY NameDomain
<1>4. c[Len(a) + 1] = w
  BY <1>1, OneWord
<1>5. /\ Len(d) = Len(a) + 1 + Len(b)
      /\ \A i \in 1..Len(a) : d[i] = a[i]
      /\ d[Len(a) + 1] = w
      /\ \A i \in 1..Len(b) : d[Len(a) + 1 + i] = b[i]
  BY <1>1, <1>2, <1>3, <1>4
<1> QED
  BY <1>2, <1>5 DEF Consists, Join, c, d

(* What is in such a name.                                                 *)
LEMMA JoinedHas ==
    ASSUME NEW a \in Names, NEW w \in Words, NEW b \in Names
    PROVE  /\ Join(a, w, b) \in Names
           /\ \A v : Has(Join(a, w, b), v) <=> v = w \/ Has(a, v) \/ Has(b, v)
           /\ HasDot(Join(a, w, b))
                <=> w \in Dotted \/ HasDot(a) \/ HasDot(b)
<1> PICK c : c = a \o <<w>>
  OBVIOUS
<1>1. c \in Names
  BY Cat, OneWord
<1>2. \A v : Has(c \o b, v) <=> v = w \/ Has(a, v) \/ Has(b, v)
  BY <1>1, OneWord, CatHas
<1>3. HasDot(c \o b) <=> w \in Dotted \/ HasDot(a) \/ HasDot(b)
  BY <1>1, OneWord, CatHas
<1>4. c \o b \in Names
  BY <1>1, Cat
<1> QED
  BY <1>2, <1>3, <1>4 DEF Join

(* The n words of a name after its first k.                                *)
IsSlice(u, s, k, n) ==
    /\ u \in Names
    /\ Len(u) = n
    /\ \A i \in 1..n : u[i] = s[k + i]

(* SubSeq returns such a slice.                                            *)
LEMMA Slice ==
    ASSUME NEW s \in Names, NEW k \in Nat, NEW n \in Nat, k + n <= Len(s)
    PROVE  IsSlice(SubSeq(s, k + 1, k + n), s, k, n)
<1> DEFINE l == k + 1
           h == k + n
           u == SubSeq(s, l, h)
<1>1. Len(s) \in Nat /\ \A i \in 1..Len(s) : s[i] \in Words
  BY NameDomain
<1>2. l \in Int /\ h \in Int /\ \A i \in l..h : s[i] \in Words
  BY <1>1
<1>3. /\ u \in Names
      /\ Len(u) = IF l <= h THEN h - l + 1 ELSE 0
      /\ \A i \in 1 .. h - l + 1 : u[i] = s[l + i - 1]
  <2> HIDE DEF l, h
  <2> QED
    BY <1>2, SubSeqProperties DEF Names
<1> HIDE DEF u
<1>4. Len(u) = n
  BY <1>3
<1>5. \A i \in 1..n : u[i] = s[k + i]
  <2> TAKE i \in 1..n
  <2>1. i \in 1 .. h - l + 1 /\ l + i - 1 = k + i
    OBVIOUS
  <2> HIDE DEF h, l
  <2> QED
    BY <2>1, <1>3
<1> QED
  BY <1>3, <1>4, <1>5 DEF IsSlice, u

(* The same from the start of the name.                                    *)
LEMMA Prefix ==
    ASSUME NEW s \in Names, NEW n \in Nat, n <= Len(s)
    PROVE  IsSlice(SubSeq(s, 1, n), s, 0, n)
<1>1. Len(s) \in Nat /\ 0 \in Nat /\ 0 + n <= Len(s) /\ 0 + 1 = 1 /\ 0 + n = n
  BY NameDomain
<1>2. IsSlice(SubSeq(s, 0 + 1, 0 + n), s, 0, n)
  BY <1>1, Slice, Zenon
<1> QED
  BY <1>1, <1>2

(* Cutting at a separator gives back what it was put between.              *)
LEMMA CutAtJoin ==
    ASSUME NEW a \in Names, NEW w \in Words, NEW b \in Names
    PROVE  /\ Upto(Join(a, w, b), Len(a) + 1) = a
           /\ From(Join(a, w, b), Len(a) + 1) = b
<1> DEFINE d == Join(a, w, b)
           k == Len(a) + 1
<1>0. Consists(d, a, w, b)
  BY Joined
<1> HIDE DEF d
<1>1. /\ d \in Names
      /\ Len(d) = k + Len(b)
      /\ \A i \in 1..Len(a) : d[i] = a[i]
      /\ \A i \in 1..Len(b) : d[k + i] = b[i]
  BY <1>0, Zenon DEF Consists
<1>2. Len(a) \in Nat /\ Len(b) \in Nat /\ k \in Nat /\ k - 1 = Len(a)
  BY NameDomain
<1> HIDE DEF k
<1>3. SubSeq(d, 1, k - 1) = a
  <2> DEFINE u == SubSeq(d, 1, Len(a))
  <2>0. Len(a) <= Len(d)
    BY <1>1, <1>2
  <2>1. IsSlice(u, d, 0, Len(a))
    BY <2>0, <1>1, <1>2, Prefix
  <2> HIDE DEF u
  <2>2. u \in Names /\ Len(u) = Len(a) /\ \A i \in 1..Len(u) : u[i] = a[i]
    BY <2>1, <1>1, <1>2 DEF IsSlice
  <2>3. u = a
    BY <2>2, SameName
  <2> QED
    BY <2>3, <1>2 DEF u
<1>4. SubSeq(d, k + 1, Len(d)) = b
  <2> DEFINE u == SubSeq(d, k + 1, k + Len(b))
  <2>0. k + Len(b) <= Len(d)
    BY <1>1, <1>2
  <2>1. IsSlice(u, d, k, Len(b))
    BY <2>0, <1>1, <1>2, Slice
  <2> HIDE DEF u
  <2>2. u \in Names /\ Len(u) = Len(b) /\ \A i \in 1..Len(u) : u[i] = b[i]
    BY <2>1, <1>1, <1>2 DEF IsSlice
  <2>3. u = b
    BY <2>2, SameName
  <2> QED
    BY <2>3, <1>1 DEF u
<1> QED
  BY <1>3, <1>4 DEF Upto, From, d, k

(* The first, or the last, such separator is found there.                  *)
LEMMA FoundAtJoin ==
    ASSUME NEW a \in Names, NEW w \in Words, NEW b \in Names
    PROVE  /\ ~Has(a, w) => FirstAt(Join(a, w, b), w) = Len(a) + 1
           /\ ~Has(b, w) => LastAt(Join(a, w, b), w) = Len(a) + 1
<1> DEFINE d == Join(a, w, b)
<1>0. Consists(d, a, w, b)
  BY Joined
<1> HIDE DEF d
<1>1. /\ d \in Names
      /\ Len(d) = Len(a) + 1 + Len(b)
      /\ \A i \in 1..Len(a) : d[i] = a[i]
      /\ d[Len(a) + 1] = w
      /\ \A i \in 1..Len(b) : d[Len(a) + 1 + i] = b[i]
  BY <1>0, Zenon DEF Consists
<1>2. /\ Len(a) \in Nat /\ Len(b) \in Nat
      /\ DOMAIN d = 1..Len(d) /\ DOMAIN a = 1..Len(a) /\ DOMAIN b = 1..Len(b)
  BY <1>1, NameDomain
<1> DEFINE S == {i \in DOMAIN d : d[i] = w}
<1>3. Len(a) + 1 \in S /\ S \subseteq Nat
  BY <1>1, <1>2
<1>4. ASSUME ~Has(a, w) PROVE Min(S) = Len(a) + 1
  <2>1. \A y \in S : Len(a) + 1 =< y
    BY <1>4, <1>1, <1>2 DEF Has
  <2>2. \A x \in S : (\A y \in S : x =< y) => x = Len(a) + 1
    BY <2>1, <1>2, <1>3
  <2> QED
    BY <2>1, <2>2, <1>3 DEF Min
<1>5. ASSUME ~Has(b, w) PROVE Max(S) = Len(a) + 1
  <2>1. \A y \in S : Len(a) + 1 >= y
    <3> TAKE y \in S
    <3>1. SUFFICES ASSUME y > Len(a) + 1 PROVE FALSE
      BY <1>2, <1>3
    <3> DEFINE z == y - (Len(a) + 1)
    <3>0. y \in Nat /\ y <= Len(a) + 1 + Len(b)
      BY <1>1, <1>2
    <3>2. z \in 1..Len(b) /\ Len(a) + 1 + z = y
      BY <3>0, <3>1, <1>2
    <3> HIDE DEF z
    <3>3. b[z] = w
      BY <3>2, <1>1
    <3> QED
      BY <3>2, <3>3, <1>5, <1>2 DEF Has
  <2>2. \A x \in S : (\A y \in S : x >= y) => x = Len(a) + 1
    BY <2>1, <1>2, <1>3
  <2> QED
    BY <2>1, <2>2, <1>3 DEF Max
<1> QED
  BY <1>4, <1>5 DEF FirstAt, LastAt, d

(* A set of naturals has a least element.                                  *)
LEMMA FirstOfNaturals ==
    ASSUME NEW S, S # {}, S \subseteq Nat
    PROVE  \E k \in S : \A j \in S : k <= j
<1> DEFINE R == {p \in Nat \X Nat : p[1] < p[2]}
<1>0. IsWellFoundedOn(R, Nat)
  BY NatLessThanWellFounded, Zenon DEF OpToRel
<1>2. \A j, k \in S : j < k => <<j, k>> \in R
  OBVIOUS
<1> HIDE DEF R
<1>1. PICK k \in S : \A j \in S : ~(<<j, k>> \in R)
  BY <1>0, WFMin, Zenon
<1>3. ASSUME NEW j \in S PROVE k <= j
  <2>1. ~(j < k)
    BY <1>1, <1>2, Zenon
  <2>2. j \in Nat /\ k \in Nat
    OBVIOUS
  <2> QED
    BY <2>1, <2>2
<1> QED
  BY <1>3, Zenon

(* Every name that has the word is such a name around its first one.       *)
LEMMA Splits ==
    ASSUME NEW s \in Names, NEW w \in Words, Has(s, w)
    PROVE  \E a, b \in Names : s = Join(a, w, b) /\ ~Has(a, w)
<1>1. Len(s) \in Nat /\ DOMAIN s = 1..Len(s)
  BY NameDomain
<1>2. PICK n \in Nat : /\ n + 1 \in 1..Len(s)
                       /\ s[n + 1] = w
                       /\ \A j \in 1..n : s[j] # w
  <2> PICK S : S = {i \in 1..Len(s) : s[i] = w}
    OBVIOUS
  <2>1. S # {} /\ S \subseteq Nat
    BY <1>1 DEF Has
  <2>2. PICK k \in S : \A j \in S : k <= j
    BY <2>1, FirstOfNaturals
  <2> PICK n : n = k - 1
    OBVIOUS
  <2>3. n \in Nat /\ n + 1 = k
    BY <1>1
  <2>4. \A j \in 1..n : s[j] # w
    BY <2>2, <2>3, <1>1
  <2> QED
    BY <2>3, <2>4
<1> DEFINE k == n + 1
           m == Len(s) - k
           a == SubSeq(s, 1, n)
           b == SubSeq(s, k + 1, k + m)
           d == Join(a, w, b)
<1>3. /\ m \in Nat /\ k \in Nat /\ n \in Nat
      /\ k + m <= Len(s) /\ k + m = Len(s) /\ n <= Len(s)
  BY <1>1, <1>2
<1>a. IsSlice(a, s, 0, n)
  BY <1>3, Prefix
<1>b. IsSlice(b, s, k, m)
  <2> HIDE DEF k, m
  <2> QED
    BY <1>3, Slice
<1> HIDE DEF a, b, m
<1>4. a \in Names /\ Len(a) = n /\ \A i \in 1..n : a[i] = s[i]
  BY <1>a, <1>3 DEF IsSlice
<1>5. b \in Names /\ Len(b) = m /\ \A i \in 1..m : b[i] = s[k + i]
  BY <1>b DEF IsSlice
<1>c. Consists(d, a, w, b)
  BY <1>4, <1>5, Joined
<1> HIDE DEF d
<1>6. /\ d \in Names
      /\ Len(d) = Len(a) + 1 + Len(b)
      /\ \A i \in 1..Len(a) : d[i] = a[i]
      /\ d[Len(a) + 1] = w
      /\ \A i \in 1..Len(b) : d[Len(a) + 1 + i] = b[i]
  BY <1>c, Zenon DEF Consists
<1>7. \A i \in 1..Len(s) : d[i] = s[i]
  <2> TAKE i \in 1..Len(s)
  <2>1. CASE i <= n
    BY <2>1, <1>1, <1>4, <1>6
  <2>2. CASE i = n + 1
    BY <2>2, <1>2, <1>4, <1>6
  <2>3. CASE i > n + 1
    <3> DEFINE j == i - (n + 1)
    <3>1. j \in 1..m /\ n + 1 + j = i /\ k + j = i
      BY <2>3, <1>1, <1>3
    <3> HIDE DEF j
    <3>2. b[j] = s[i]
      BY <3>1, <1>5
    <3>3. d[i] = b[j]
      BY <3>1, <1>4, <1>5, <1>6
    <3> QED
      BY <3>2, <3>3
  <2> QED
    BY <2>1, <2>2, <2>3, <1>1
<1>8. d = s
  <2>1. Len(d) = Len(s)
    BY <1>3, <1>4, <1>5, <1>6
  <2> QED
    BY <2>1, <1>6, <1>7, SameName
<1>9. ~Has(a, w)
  BY <1>2, <1>4, NameDomain DEF Has
<1> QED
  BY <1>4, <1>5, <1>8, <1>9 DEF d

-----------------------------------------------------------------------------
(* What the functions of package strings return.                           *)

(* Without a slash there is one part.                                      *)
LEMMA OnePart ==
    ASSUME NEW s \in Names, ~Has(s, "/")
    PROVE  FirstPart(s) = s /\ Parts(s) = 1
<1>1. {i \in DOMAIN s : s[i] = "/"} = {}
  BY DEF Has
<1>2. Parts(s) = Min({3, 1 + 0})
  BY <1>1, FS_EmptySet DEF Parts
<1>3. Min({3, 1}) = 1
  BY DEF Min
<1> QED
  BY <1>2, <1>3 DEF FirstPart

(* A finite set with two elements in it has at least two.                  *)
LEMMA TwoElements ==
    ASSUME NEW S, IsFiniteSet(S), NEW x \in S, NEW y \in S, x # y
    PROVE  Cardinality(S) >= 2
<1>1. IsFiniteSet(S \ {x}) /\ Cardinality(S \ {x}) = Cardinality(S) - 1
  BY FS_RemoveElement
<1>2. Cardinality(S \ {x}) # 0
  BY <1>1, FS_EmptySet
<1>3. Cardinality(S \ {x}) \in Nat /\ Cardinality(S) \in Nat
  BY <1>1, FS_CardinalityType
<1> QED
  BY <1>1, <1>2, <1>3

(* With one there are two or three, the first before the first slash.      *)
LEMMA MoreParts ==
    ASSUME NEW a \in Names, NEW b \in Names, ~Has(a, "/")
    PROVE  /\ Join(a, "/", b) \in Names
           /\ Has(Join(a, "/", b), "/")
           /\ FirstPart(Join(a, "/", b)) = a
           /\ OtherParts(Join(a, "/", b)) = b
           /\ Parts(Join(a, "/", b)) = IF Has(b, "/") THEN 3 ELSE 2
<1> DEFINE d == Join(a, "/", b)
<1>0. "/" \in Words
  BY FixedWords
<1>1. d \in Names /\ Has(d, "/")
  BY <1>0, JoinedHas
<1>2. FirstAt(d, "/") = Len(a) + 1
  BY <1>0, FoundAtJoin
<1>3. Upto(d, Len(a) + 1) = a /\ From(d, Len(a) + 1) = b
  BY <1>0, CutAtJoin
<1>4. Consists(d, a, "/", b)
  BY <1>0, Joined
<1> HIDE DEF d
<1>5. Len(a) \in Nat /\ Len(b) \in Nat /\ DOMAIN d = 1..Len(d)
      /\ DOMAIN a = 1..Len(a) /\ DOMAIN b = 1..Len(b)
  BY <1>1, NameDomain
<1> DEFINE S == {i \in DOMAIN d : d[i] = "/"}
           k == Len(a) + 1
<1>6. k \in S /\ S \subseteq 1..Len(d) /\ Len(d) \in Nat
  BY <1>4, <1>5 DEF Consists
<1>7. IsFiniteSet(S) /\ Cardinality(S) \in Nat
  <2>1. IsFiniteSet(1..Len(d))
    BY <1>6, FS_Interval
  <2> HIDE DEF S
  <2>2. IsFiniteSet(S)
    BY <2>1, <1>6, FS_Subset
  <2> QED
    BY <2>2, FS_CardinalityType
<1>8. ASSUME Has(b, "/") PROVE Parts(d) = 3
  <2>1. PICK j \in 1..Len(b) : b[j] = "/"
    BY <1>8, <1>5 DEF Has
  <2>2. k + j \in S /\ k + j # k
    BY <2>1, <1>4, <1>5 DEF Consists
  <2>3. Cardinality(S) >= 2
    BY <2>2, <1>6, <1>7, TwoElements
  <2>4. Min({3, 1 + Cardinality(S)}) = 3
    BY <2>3, <1>7 DEF Min
  <2> QED
    BY <2>4 DEF Parts
<1>9. ASSUME ~Has(b, "/") PROVE Parts(d) = 2
  <2>1. S = {k}
    <3> SUFFICES ASSUME NEW y \in S PROVE y = k
      BY <1>6
    <3>1. y \in Nat /\ y <= Len(a) + 1 + Len(b) /\ y >= 1
      BY <1>4, <1>5 DEF Consists
    <3>2. CASE y <= Len(a)
      BY <3>1, <3>2, <1>4, <1>5 DEF Has, Consists
    <3>3. CASE y > Len(a) + 1
      <4> DEFINE z == y - (Len(a) + 1)
      <4>1. z \in 1..Len(b) /\ Len(a) + 1 + z = y
        BY <3>1, <3>3, <1>5
      <4> HIDE DEF z
      <4>2. b[z] = "/"
        BY <4>1, <1>4 DEF Consists
      <4> QED
        BY <4>1, <4>2, <1>9, <1>5 DEF Has
    <3> QED
      BY <3>1, <3>2, <3>3, <1>5
  <2>2. Cardinality(S) = 1
    BY <2>1, FS_Singleton
  <2>3. Min({3, 1 + 1}) = 2
    BY DEF Min
  <2> QED
    BY <2>2, <2>3 DEF Parts
<1> QED
  BY <1>1, <1>2, <1>3, <1>8, <1>9 DEF FirstPart, OtherParts, d

(* A tag is what follows the last colon; the name before it is stem.       *)
LEMMA CutTag ==
    ASSUME NEW stem \in Names, NEW t \in Plain
    PROVE  /\ Join(stem, ":", <<t>>) \in Names
           /\ Has(Join(stem, ":", <<t>>), ":")
           /\ LastAt(Join(stem, ":", <<t>>), ":") = Len(stem) + 1
           /\ Upto(Join(stem, ":", <<t>>), Len(stem) + 1) = stem
           /\ From(Join(stem, ":", <<t>>), Len(stem) + 1) = <<t>>
           /\ ~Has(<<t>>, "/") /\ ~Has(<<t>>, ":") /\ ~Has(<<t>>, "@")
           /\ Has(Join(stem, ":", <<t>>), "@") <=> Has(stem, "@")
<1>1. t \in Words /\ t # "/" /\ t # ":" /\ t # "@" /\ ":" \in Words /\ ":" # "@"
  BY PlainWord, FixedWords, Zenon
<1>2. <<t>> \in Names /\ ~Has(<<t>>, "/") /\ ~Has(<<t>>, ":") /\ ~Has(<<t>>, "@")
  BY <1>1, OneWord
<1> DEFINE u == <<t>>
<1> HIDE DEF u
<1>3. u \in Names /\ ~Has(u, "/") /\ ~Has(u, ":") /\ ~Has(u, "@")
  BY <1>2 DEF u
<1>4. /\ Join(stem, ":", u) \in Names
      /\ Has(Join(stem, ":", u), ":")
      /\ Has(Join(stem, ":", u), "@") <=> Has(stem, "@")
  BY <1>1, <1>3, JoinedHas
<1>5. LastAt(Join(stem, ":", u), ":") = Len(stem) + 1
  BY <1>1, <1>3, FoundAtJoin
<1>6. /\ Upto(Join(stem, ":", u), Len(stem) + 1) = stem
      /\ From(Join(stem, ":", u), Len(stem) + 1) = u
  BY <1>1, <1>3, CutAtJoin
<1> QED
  BY <1>3, <1>4, <1>5, <1>6, Zenon DEF u

(* nerdctl, docker and the daemon all cut such a name there.               *)
LEMMA TagIsCut ==
    ASSUME NEW stem \in Names, NEW t \in Plain
    PROVE  /\ Untagged(Join(stem, ":", <<t>>)) = stem
           /\ TagOf(Join(stem, ":", <<t>>)) = <<t>>
           /\ ~Has(stem, "@") =>
                Parse(Join(stem, ":", <<t>>)) = Official(Located(stem, <<t>>))
<1> DEFINE u == <<t>>
           s == Join(stem, ":", u)
           k == Len(stem) + 1
<1>1. /\ s \in Names /\ Has(s, ":") /\ LastAt(s, ":") = k
      /\ Upto(s, k) = stem /\ From(s, k) = u /\ ~Has(u, "/")
      /\ Has(s, "@") <=> Has(stem, "@")
  BY CutTag, Zenon
<1>2. Len(stem) \in Nat /\ k # 0 /\ Len(s) = k + 1
  <2>1. t \in Words /\ ":" \in Words /\ u \in Names /\ Len(u) = 1
    BY PlainWord, FixedWords, OneWord
  <2>2. Consists(s, stem, ":", u)
    <3> HIDE DEF u
    <3> QED
      BY <2>1, Joined
  <2> QED
    BY <2>1, <2>2, NameDomain DEF Consists
<1>k. k # Len(s)
  BY <1>2
<1> HIDE DEF s, u, k
<1>3. Tagged(s)
  BY <1>1, Zenon DEF Tagged
<1>4. Untagged(s) = stem /\ TagOf(s) = u
  BY <1>1, <1>3, Zenon DEF Untagged, TagOf
<1>5. lastNonPortColon(s) = k
  BY <1>1 DEF lastNonPortColon
<1>6. ASSUME ~Has(stem, "@") PROVE Parse(s) = Official(Located(stem, u))
  <2>1. splitTag(s) = k
    BY <1>1, <1>k, <1>5, <1>6 DEF splitTag
  <2> QED
    BY <2>1, <1>1, <1>2 DEF Parse
<1> QED
  BY <1>4, <1>6, Zenon DEF s, u

-----------------------------------------------------------------------------
(* Places: what Parse returns.                                             *)

Place(g, q, t) == [registry |-> g, repo |-> q, tag |-> <<t>>]

(* What Official makes of a place.                                         *)
LEMMA OfficialOf ==
    ASSUME NEW g, NEW q, NEW t
    PROVE  Official(Place(g, q, t)) =
              IF g = <<defaultRegistry>> /\ ~Has(q, "/")
              THEN Place(g, <<officialPrefix, "/">> \o q, t)
              ELSE Place(g, q, t)
<1>1. Place(g, q, t).registry = g /\ Place(g, q, t).repo = q
  BY DEF Place
<1>2. \A x : [Place(g, q, t) EXCEPT !.repo = x] = Place(g, x, t)
  BY DEF Place
<1> QED
  BY <1>1, <1>2 DEF Official

(* A registry and a repository that Parse takes for themselves.            *)
Canonical(g, q) ==
    /\ g \in Names /\ q \in Names
    /\ ~Has(g, "/")
    /\ HasDot(g) \/ Has(g, ":")
    /\ g = <<defaultRegistry>> => Has(q, "/")
    /\ ~Has(g, "@") /\ ~Has(q, "@")

(* Parse takes such a registry and repository for themselves.              *)
LEMMA CanonicalStays ==
    ASSUME NEW g, NEW q, NEW t, Canonical(g, q)
    PROVE  Official(Located(Join(g, "/", q), <<t>>)) = Place(g, q, t)
<1>1. /\ FirstPart(Join(g, "/", q)) = g
      /\ OtherParts(Join(g, "/", q)) = q
      /\ Parts(Join(g, "/", q)) >= 2
  BY MoreParts DEF Canonical
<1>2. Located(Join(g, "/", q), <<t>>) = Place(g, q, t)
  BY <1>1 DEF Located, Canonical, Place
<1> QED
  BY <1>2 DEF Official, Canonical, Place

(* The library prefix, and the registry before a name.                     *)
LEMMA Prefixed ==
    ASSUME NEW w \in Words, NEW s \in Names
    PROVE  <<w, "/">> \o s = Join(<<w>>, "/", s)
<1>1. <<w, "/">> = <<w>> \o <<"/">>
  OBVIOUS
<1> QED
  BY <1>1 DEF Join

(* A repository under library/ has a slash, and no digest of its own.      *)
LEMMA UnderLibrary ==
    ASSUME NEW q \in Names
    PROVE  /\ <<officialPrefix, "/">> \o q = Join(<<officialPrefix>>, "/", q)
           /\ <<officialPrefix, "/">> \o q \in Names
           /\ Has(<<officialPrefix, "/">> \o q, "/")
           /\ Has(<<officialPrefix, "/">> \o q, "@") <=> Has(q, "@")
<1> DEFINE lib == <<officialPrefix>>
<1>1. /\ lib \in Names /\ ~Has(lib, "@") /\ officialPrefix \in Words
      /\ "/" \in Words /\ "/" # "@"
  BY FixedWords, PlainWord, OneWord
<1>2. <<officialPrefix, "/">> \o q = Join(lib, "/", q)
  BY <1>1, Prefixed
<1> HIDE DEF lib
<1>3. /\ Join(lib, "/", q) \in Names
      /\ Has(Join(lib, "/", q), "/")
      /\ Has(Join(lib, "/", q), "@") <=> Has(q, "@")
  BY <1>1, JoinedHas
<1> QED
  BY <1>2, <1>3 DEF lib

-----------------------------------------------------------------------------
(* References and how they are written.                                    *)

(* What is written before the tag, and the tag the reference stands for.   *)
Stem(r) ==
    (IF r.host = None THEN << >> ELSE Registry(r) \o <<"/">>) \o Path(r)

TagWord(r) == IF r.tag = None THEN defaultTag ELSE r.tag

(* The fields of a reference and what Reference says of them.              *)
LEMMA ReferenceType ==
    ASSUME NEW r \in Reference
    PROVE  /\ r.host = None \/ r.host \in Hosts
           /\ r.port = None \/ r.port \in Numbers
           /\ r.tag = None \/ r.tag \in Tags
           /\ Len(r.path) \in Nat \ {0}
           /\ r.path \in [1..Len(r.path) -> Components]
           /\ r.host = None =>
                 r.port = None /\ (Len(r.path) > 1 => r.path[1] \notin Dotted)
           /\ r.host # None => r.host \in Dotted \/ r.port # None
<1>1. PICK n \in 1..MaxDepth : r.path \in [1..n -> Components]
  BY DEF Reference
<1>2. n \in Nat \ {0}
  BY WordAssumption
<1>3. Len(r.path) = n
  BY <1>1, <1>2
<1>4. r.host \in Hosts \cup {None} /\ r.port \in Numbers \cup {None}
      /\ r.tag \in Tags \cup {None}
  BY DEF Reference
<1>5. IF r.host = None
      THEN r.port = None /\ (Len(r.path) > 1 => r.path[1] \notin Dotted)
      ELSE r.host \in Dotted \/ r.port # None
  BY Zenon DEF Reference
<1> QED
  BY <1>1, <1>2, <1>3, <1>4, <1>5

(* The components of a path with slashes between them.                     *)
LEMMA PathWords ==
    ASSUME NEW r \in Reference
    PROVE  /\ Path(r) \in Names
           /\ Len(Path(r)) = 2 * Len(r.path) - 1
           /\ \A i \in 1..Len(Path(r)) : Path(r)[i] \in Components \cup {"/"}
           /\ Path(r)[1] = r.path[1]
           /\ Len(r.path) > 1 => Path(r)[2] = "/"
           /\ Len(r.path) = 2 => Path(r)[3] \in Components
           /\ Len(r.path) > 2 => Path(r)[4] = "/"
<1> DEFINE n == Len(r.path)
           C == Components \cup {"/"}
           e(i) == IF i % 2 = 0 THEN "/" ELSE r.path[(i + 1) \div 2]
           P == [i \in 1..(2 * n - 1) |-> e(i)]
<1>1. n \in Nat \ {0} /\ r.path \in [1..n -> Components]
  BY ReferenceType
<1>2. C \subseteq Words
  BY FixedWords DEF Words
<1> HIDE DEF n
<1>3. ASSUME NEW i \in 1..(2 * n - 1) PROVE e(i) \in C
  <2>1. CASE i % 2 = 0
    BY <2>1
  <2>2. CASE i % 2 # 0
    <3> DEFINE m == (i + 1) \div 2
    <3>1. m \in 1..n
      BY <1>1
    <3> HIDE DEF m
    <3>2. r.path[m] \in Components
      BY <3>1, <1>1
    <3> QED
      BY <3>2, <2>2 DEF m
  <2> QED
    BY <2>1, <2>2
<1>4. 2 * n - 1 \in Nat
  BY <1>1
<1> DEFINE h == 2 * n - 1
<1>5. P \in Seq(Words) /\ Len(P) = h /\ \A i \in 1..h : P[i] = e(i)
  <2> HIDE DEF h, e
  <2>1. \A i \in 1..h : e(i) \in Words
    BY <1>2, <1>3 DEF h
  <2> QED
    BY <2>1, <1>4 DEF h
<1>6. Path(r) = P
  BY DEF Path, n
<1>7. P[1] = r.path[1]
  <2>1. 1 \in 1..h /\ 1 % 2 = 1 /\ (1 + 1) \div 2 = 1
    BY <1>1
  <2> QED
    BY <2>1, <1>5
<1>8. n > 1 => P[2] = "/"
  <2>1. n > 1 => 2 \in 1..h
    BY <1>1
  <2> QED
    BY <2>1, <1>5
<1>9. n = 2 => P[3] \in Components
  <2>1. n = 2 => 3 \in 1..h /\ (3 + 1) \div 2 = 2 /\ 2 \in 1..n
    BY <1>1
  <2> QED
    BY <2>1, <1>1, <1>5
<1>10. n > 2 => P[4] = "/"
  <2>1. n > 2 => 4 \in 1..h
    BY <1>1
  <2> QED
    BY <2>1, <1>5
<1>11. \A i \in 1..h : P[i] \in C
  BY <1>3, <1>5
<1> HIDE DEF P
<1> QED
  BY <1>5, <1>6, <1>7, <1>8, <1>9, <1>10, <1>11 DEF Names, n

(* A path has one component or more than one.                              *)
LEMMA OneOrMore ==
    ASSUME NEW r \in Reference
    PROVE  /\ Len(r.path) = 1 <=> ~(Len(r.path) > 1)
           /\ Len(r.path) >= 2 <=> Len(r.path) > 1
<1> DEFINE n == Len(r.path)
<1>1. n \in Nat /\ n # 0
  BY ReferenceType
<1> HIDE DEF n
<1>2. (n = 1 <=> ~(n > 1)) /\ (n >= 2 <=> n > 1)
  BY <1>1
<1> QED
  BY <1>2 DEF n

(* A path has no colon and no digest, and a slash when it has two          *)
(* components or more.                                                     *)
LEMMA PathHas ==
    ASSUME NEW r \in Reference
    PROVE  /\ Path(r) \in Names
           /\ ~Has(Path(r), ":") /\ ~Has(Path(r), "@")
           /\ Has(Path(r), "/") <=> Len(r.path) > 1
<1> DEFINE P == Path(r)
<1>1. /\ P \in Names
      /\ Len(P) = 2 * Len(r.path) - 1
      /\ \A i \in 1..Len(P) : P[i] \in Components \cup {"/"}
      /\ P[1] = r.path[1]
      /\ Len(r.path) > 1 => P[2] = "/"
  BY PathWords, Zenon
<1> HIDE DEF P
<1>2. /\ DOMAIN P = 1..Len(P)
      /\ Len(r.path) \in Nat \ {0} /\ r.path \in [1..Len(r.path) -> Components]
  BY <1>1, NameDomain, ReferenceType
<1>3. ":" \notin Components \cup {"/"} /\ "@" \notin Components \cup {"/"}
      /\ "/" \notin Components
  BY UserWords, FixedWords DEF Plain, Separators
<1>4. ~Has(P, ":") /\ ~Has(P, "@")
  BY <1>1, <1>2, <1>3 DEF Has
<1>5. ASSUME Len(r.path) > 1 PROVE Has(P, "/")
  <2>1. 2 \in DOMAIN P
    BY <1>1, <1>2, <1>5
  <2> QED
    BY <2>1, <1>1, <1>5 DEF Has
<1>6. ASSUME ~(Len(r.path) > 1) PROVE ~Has(P, "/")
  <2>1. Len(r.path) = 1
    BY <1>6, OneOrMore
  <2>2. DOMAIN P = 1..1 /\ P[1] \in Components
    BY <2>1, <1>1, <1>2
  <2> QED
    BY <2>2, <1>3 DEF Has
<1> QED
  BY <1>1, <1>4, <1>5, <1>6 DEF P

(* Its first part is its first component.                                  *)
LEMMA PathParts ==
    ASSUME NEW r \in Reference, Len(r.path) > 1
    PROVE  /\ FirstPart(Path(r)) = <<r.path[1]>>
           /\ Parts(Path(r)) = IF Len(r.path) = 2 THEN 2 ELSE 3
<1> DEFINE P == Path(r)
<1>1. /\ P \in Names
      /\ Len(P) = 2 * Len(r.path) - 1
      /\ P[1] = r.path[1]
      /\ Len(r.path) > 1 => P[2] = "/"
      /\ Len(r.path) = 2 => P[3] \in Components
      /\ Len(r.path) > 2 => P[4] = "/"
  BY PathWords, Zenon
<1>2. Has(P, "/")
  BY PathHas
<1> HIDE DEF P
<1>3. Len(r.path) \in Nat \ {0} /\ r.path[1] \in Components
  <2>1. Len(r.path) \in Nat \ {0} /\ r.path \in [1..Len(r.path) -> Components]
    BY ReferenceType
  <2>2. 1 \in 1..Len(r.path)
    BY <2>1
  <2> QED
    BY <2>1, <2>2
<1>4. "/" \notin Components /\ "/" \in Words /\ r.path[1] \in Words
  BY <1>3, UserWords, FixedWords DEF Plain, Separators
<1>5. PICK a, b \in Names : P = Join(a, "/", b) /\ ~Has(a, "/")
  BY <1>1, <1>2, <1>4, Splits
<1>6. Consists(P, a, "/", b)
  BY <1>4, <1>5, Joined
<1>7. Len(a) \in Nat /\ Len(b) \in Nat /\ DOMAIN a = 1..Len(a) /\ DOMAIN b = 1..Len(b)
  BY NameDomain
<1>8. Len(a) = 1
  <2>1. CASE Len(a) = 0
    BY <2>1, <1>1, <1>3, <1>4, <1>6 DEF Consists
  <2>2. CASE Len(a) > 1
    <3>1. 2 \in DOMAIN a
      BY <2>2, <1>7
    <3>2. a[2] = "/"
      BY <3>1, <1>1, <1>6, <1>7 DEF Consists
    <3> QED
      BY <3>1, <3>2, <1>5 DEF Has
  <2> QED
    BY <2>1, <2>2, <1>7
<1>9. a = <<r.path[1]>>
  <2> DEFINE c == <<r.path[1]>>
  <2>1. c \in Names /\ Len(c) = 1 /\ c[1] = r.path[1]
    BY <1>4, OneWord
  <2>2. a[1] = r.path[1]
    BY <1>1, <1>6, <1>8 DEF Consists
  <2> HIDE DEF c
  <2>3. a = c
    BY <2>1, <2>2, <1>8, SameName
  <2> QED
    BY <2>3 DEF c
<1>10. Len(b) = 2 * Len(r.path) - 3
  BY <1>1, <1>3, <1>6, <1>7, <1>8 DEF Consists
<1>11. ASSUME Len(r.path) = 2 PROVE ~Has(b, "/")
  <2>1. Len(b) = 1
    BY <1>10, <1>11
  <2>2. P[3] = b[1]
    BY <2>1, <1>6, <1>8 DEF Consists
  <2> QED
    BY <2>1, <2>2, <1>1, <1>4, <1>7, <1>11 DEF Has
<1>12. ASSUME Len(r.path) # 2 PROVE Has(b, "/")
  <2> DEFINE n == Len(r.path)
  <2>0. n \in Nat /\ n > 1 /\ n # 2 /\ Len(b) = 2 * n - 3
    BY <1>3, <1>10, <1>12
  <2> HIDE DEF n
  <2>1. 2 \in 1..Len(b) /\ n > 2
    BY <2>0
  <2>2. P[4] = b[2]
    BY <2>1, <1>6, <1>8 DEF Consists
  <2> QED
    BY <2>1, <2>2, <1>1, <1>7 DEF Has, n
<1>13. FirstPart(P) = a /\ Parts(P) = IF Has(b, "/") THEN 3 ELSE 2
  BY <1>5, MoreParts
<1> QED
  BY <1>9, <1>11, <1>12, <1>13 DEF P

(* A registry is one word, or two around a colon, and is taken for one.    *)
LEMMA RegistryHas ==
    ASSUME NEW r \in Reference, r.host # None
    PROVE  /\ Registry(r) \in Names
           /\ Registry(r) = IF r.port = None THEN <<r.host>>
                                             ELSE Join(<<r.host>>, ":", <<r.port>>)
           /\ ~Has(Registry(r), "/") /\ ~Has(Registry(r), "@")
           /\ Has(Registry(r), ":") <=> r.port # None
           /\ HasDot(Registry(r)) \/ Has(Registry(r), ":")
           /\ r.host \in Dotted => HasDot(Registry(r))
<1>1. /\ r.host \in Plain
      /\ r.port # None => r.port \in Plain
      /\ r.host \in Dotted \/ r.port # None
  BY ReferenceType, UserWords
<1>2. /\ r.host \in Words /\ r.host # "/" /\ r.host # ":" /\ r.host # "@"
      /\ ":" \in Words /\ ":" # "/" /\ ":" # "@"
  BY <1>1, PlainWord, FixedWords
<1> DEFINE h == <<r.host>>
           q == <<r.port>>
<1>3. h \in Names /\ ~Has(h, "/") /\ ~Has(h, ":") /\ ~Has(h, "@")
      /\ (HasDot(h) <=> r.host \in Dotted)
  BY <1>2, OneWord
<1>4. CASE r.port = None
  <2>1. Registry(r) = h
    BY <1>4, <1>3, CatEmpty DEF Registry
  <2> HIDE DEF h
  <2> QED
    BY <2>1, <1>1, <1>3, <1>4 DEF h
<1>5. CASE r.port # None
  <2>1. r.port \in Words /\ r.port # "/" /\ r.port # ":" /\ r.port # "@"
    BY <1>1, <1>5, PlainWord
  <2>2. q \in Names /\ ~Has(q, "/") /\ ~Has(q, ":") /\ ~Has(q, "@")
    BY <2>1, OneWord
  <2>3. Registry(r) = Join(h, ":", q)
    <3>1. <<":", r.port>> = <<":">> \o <<r.port>>
      OBVIOUS
    <3>2. <<":">> \in Names
      BY <1>2, OneWord
    <3> QED
      BY <3>1, <3>2, <2>2, <1>3, <1>5, CatAssociative DEF Registry, Join
  <2> HIDE DEF h, q
  <2>4. /\ Join(h, ":", q) \in Names
        /\ Has(Join(h, ":", q), ":")
        /\ ~Has(Join(h, ":", q), "/") /\ ~Has(Join(h, ":", q), "@")
        /\ HasDot(h) => HasDot(Join(h, ":", q))
    BY <1>2, <1>3, <2>2, JoinedHas
  <2> QED
    BY <2>3, <2>4, <1>3, <1>5 DEF h, q
<1> QED
  BY <1>4, <1>5

(* A stem has no digest, and a colon only before a port.                   *)
LEMMA StemHas ==
    ASSUME NEW r \in Reference
    PROVE  /\ Stem(r) = IF r.host = None THEN Path(r)
                                         ELSE Join(Registry(r), "/", Path(r))
           /\ Stem(r) \in Names
           /\ ~Has(Stem(r), "@")
           /\ Has(Stem(r), ":") => r.host # None /\ r.port # None
<1>1. Path(r) \in Names /\ ~Has(Path(r), ":") /\ ~Has(Path(r), "@")
  BY PathHas
<1>2. "/" \in Words /\ "/" # "@" /\ "/" # ":"
  BY FixedWords
<1>3. CASE r.host = None
  <2>1. Stem(r) = Path(r)
    BY <1>1, <1>3, CatEmpty DEF Stem
  <2> QED
    BY <2>1, <1>1, <1>3
<1>4. CASE r.host # None
  <2>1. Stem(r) = Join(Registry(r), "/", Path(r))
    BY <1>4 DEF Stem, Join
  <2>2. Registry(r) \in Names /\ ~Has(Registry(r), "@")
        /\ (Has(Registry(r), ":") <=> r.port # None)
    BY <1>4, RegistryHas
  <2>3. /\ Join(Registry(r), "/", Path(r)) \in Names
        /\ ~Has(Join(Registry(r), "/", Path(r)), "@")
        /\ Has(Join(Registry(r), "/", Path(r)), ":") <=> r.port # None
    BY <2>2, <1>1, <1>2, JoinedHas
  <2> QED
    BY <2>1, <2>3, <1>4
<1> QED
  BY <1>3, <1>4

(* The tag holds no separator.                                             *)
LEMMA TagWordIsPlain ==
    ASSUME NEW r \in Reference
    PROVE  TagWord(r) \in Plain
  BY ReferenceType, UserWords, FixedWords DEF TagWord

(* What the user writes is the stem, and the tag after a colon.            *)
LEMMA WrittenIs ==
    ASSUME NEW r \in Reference, ~r.pinned
    PROVE  Written(r) = IF r.tag = None THEN Stem(r) ELSE Join(Stem(r), ":", <<r.tag>>)
<1> DEFINE w == Stem(r) \o (IF r.tag = None THEN << >> ELSE <<":", r.tag>>)
<1>1. Stem(r) \in Names
  BY StemHas
<1>2. w = IF r.tag = None THEN Stem(r) ELSE Join(Stem(r), ":", <<r.tag>>)
  <2>1. CASE r.tag = None
    BY <2>1, <1>1, CatEmpty
  <2>2. CASE r.tag # None
    <3> DEFINE c == <<":">>
               u == <<r.tag>>
    <3>1. TagWord(r) = r.tag /\ r.tag \in Words /\ ":" \in Words
      BY <2>2, TagWordIsPlain, PlainWord, FixedWords DEF TagWord
    <3>2. c \in Names /\ u \in Names
      BY <3>1, OneWord
    <3>3. <<":", r.tag>> = c \o u
      OBVIOUS
    <3> HIDE DEF c, u
    <3>4. (Stem(r) \o c) \o u = Stem(r) \o (c \o u)
      BY <1>1, <3>2, CatAssociative
    <3> QED
      BY <2>2, <3>3, <3>4 DEF Join, c, u
  <2> QED
    BY <2>1, <2>2
<1>3. w \in Names
  <2>1. CASE r.tag = None
    BY <2>1, <1>1, <1>2
  <2>2. CASE r.tag # None
    <3>1. r.tag \in Plain
      BY <2>2, TagWordIsPlain DEF TagWord
    <3>2. Join(Stem(r), ":", <<r.tag>>) \in Names
      BY <3>1, <1>1, CutTag, Zenon
    <3> HIDE DEF w
    <3> QED
      BY <3>2, <2>2, <1>2
  <2> QED
    BY <2>1, <2>2
<1>4. Written(r) = w \o << >>
  BY Zenon DEF Written, Stem
<1> HIDE DEF w
<1>5. w \o << >> = w
  BY <1>3, CatEmpty
<1> QED
  BY <1>2, <1>4, <1>5

Three(a, b, c) == a \in Names /\ b \in Names /\ c \in Names

(* The same, for three names that are named as such.                       *)
LEMMA Reassociated ==
    ASSUME NEW a, NEW b, NEW c, Three(a, b, c)
    PROVE  (a \o b) \o c = a \o (b \o c)
<1>1. a \in Names /\ b \in Names /\ c \in Names
  BY DEF Three
<1> QED
  BY <1>1, CatAssociative, Zenon

(* It makes no difference which of two separators is put in first.         *)
LEMMA JoinAssociative ==
    ASSUME NEW a \in Names, NEW b \in Names, NEW c \in Names,
           NEW v \in Words, NEW w \in Words
    PROVE  Join(Join(a, v, b), w, c) = Join(a, v, Join(b, w, c))
<1> DEFINE y == <<w>>
           ax == a \o <<v>>
           by == b \o y
<1>1. y \in Names
  BY OneWord
<1>2. ax \in Names
  BY OneWord, Cat
<1> HIDE DEF ax, y
<1>3. by \in Names
  BY <1>1, Cat
<1>4. Three(ax, b, y)
  BY <1>1, <1>2 DEF Three
<1>5. (ax \o b) \o y = ax \o by
  BY <1>4, Reassociated
<1> HIDE DEF by
<1>6. Three(ax, by, c)
  BY <1>2, <1>3 DEF Three
<1>7. (ax \o by) \o c = ax \o (by \o c)
  BY <1>6, Reassociated
<1>8. ((ax \o b) \o y) \o c = ax \o (by \o c)
  BY <1>5, <1>7
<1> QED
  BY <1>8 DEF Join, ax, by, y

(* The colon of a port is not taken for the one before a tag.              *)
LEMMA StemIsUncut ==
    ASSUME NEW r \in Reference
    PROVE  /\ Untagged(Stem(r)) = Stem(r)
           /\ TagOf(Stem(r)) = <<defaultTag>>
           /\ Parse(Stem(r)) = Official(Located(Stem(r), <<defaultTag>>))
<1> DEFINE s == Stem(r)
<1>1. s \in Names /\ ~Has(s, "@") /\ (Has(s, ":") => r.host # None /\ r.port # None)
  BY StemHas
<1>2. ~Tagged(s) /\ lastNonPortColon(s) = 0
  <2>1. CASE ~Has(s, ":")
    BY <2>1 DEF Tagged, lastNonPortColon
  <2>2. CASE Has(s, ":")
    <3> DEFINE h == <<r.host>>
               q == <<r.port>>
               after == Join(q, "/", Path(r))
    <3>1. /\ r.host \in Words /\ r.host # ":"
          /\ r.port \in Words /\ r.port # ":" /\ r.port # "/" /\ r.port \in Numbers
          /\ ":" \in Words /\ "/" \in Words /\ ":" # "/"
      BY <2>2, <1>1, ReferenceType, UserWords, PlainWord, FixedWords
    <3>2. h \in Names /\ q \in Names /\ ~Has(h, ":") /\ ~Has(q, ":") /\ ~Has(q, "/")
      BY <3>1, OneWord
    <3>3. Path(r) \in Names /\ ~Has(Path(r), ":")
      BY PathHas
    <3>4. isPort(q)
      BY <3>1 DEF isPort
    <3>5. Stem(r) = Join(Join(h, ":", q), "/", Path(r))
      BY <2>2, <1>1, StemHas, RegistryHas
    <3> HIDE DEF h, q
    <3>6. s = Join(h, ":", after)
      BY <3>1, <3>2, <3>3, <3>5, JoinAssociative
    <3>7. after \in Names /\ Has(after, "/") /\ ~Has(after, ":")
      BY <3>1, <3>2, <3>3, JoinedHas
    <3>8. FirstAt(after, "/") = Len(q) + 1 /\ Upto(after, Len(q) + 1) = q
      BY <3>1, <3>2, <3>3, FoundAtJoin, CutAtJoin
    <3> HIDE DEF after, s
    <3>9. /\ LastAt(s, ":") = Len(h) + 1
          /\ Upto(s, Len(h) + 1) = h /\ From(s, Len(h) + 1) = after
      BY <3>1, <3>2, <3>6, <3>7, FoundAtJoin, CutAtJoin
    <3>10. ~Tagged(s)
      BY <3>7, <3>9 DEF Tagged
    <3>11. lastNonPortColon(s) = 0
      BY <2>2, <3>2, <3>4, <3>7, <3>8, <3>9 DEF lastNonPortColon
    <3> QED
      BY <3>10, <3>11
  <2> QED
    BY <2>1, <2>2
<1> HIDE DEF s
<1>3. splitTag(s) = 0
  BY <1>1, <1>2 DEF splitTag
<1>4. Parse(s) = Official(Located(s, <<defaultTag>>))
  BY <1>3 DEF Parse
<1>5. Untagged(s) = s /\ TagOf(s) = <<defaultTag>>
  BY <1>2 DEF Untagged, TagOf
<1> QED
  BY <1>4, <1>5 DEF s

(* Every parser cuts what the user wrote into its stem and its tag.        *)
LEMMA WrittenIsCut ==
    ASSUME NEW r \in Reference, ~r.pinned
    PROVE  /\ Untagged(Written(r)) = Stem(r)
           /\ TagOf(Written(r)) = <<TagWord(r)>>
           /\ Parse(Written(r)) = Official(Located(Stem(r), <<TagWord(r)>>))
<1>1. CASE r.tag = None
  BY <1>1, WrittenIs, StemIsUncut DEF TagWord
<1>2. CASE r.tag # None
  <2>1. Written(r) = Join(Stem(r), ":", <<r.tag>>) /\ TagWord(r) = r.tag
    BY <1>2, WrittenIs DEF TagWord
  <2>2. r.tag \in Plain
    BY <2>1, TagWordIsPlain
  <2>3. Stem(r) \in Names /\ ~Has(Stem(r), "@")
    BY StemHas
  <2> QED
    BY <2>1, <2>2, <2>3, TagIsCut
<1> QED
  BY <1>1, <1>2

-----------------------------------------------------------------------------
(* What a reference denotes is what Parse finds in it.                     *)

(* The fields of what a reference denotes.                                 *)
LEMMA DenotedIs ==
    ASSUME NEW r \in Reference
    PROVE  /\ Denoted(r) = Place(Denoted(r).registry, Denoted(r).repo, TagWord(r))
           /\ Denoted(r).registry =
                 IF r.host = None THEN <<defaultRegistry>> ELSE Registry(r)
           /\ Denoted(r).repo =
                 IF r.host \in {None, defaultRegistry} /\ r.port = None /\ Len(r.path) = 1
                 THEN <<officialPrefix, "/">> \o Path(r)
                 ELSE Path(r)
  BY Zenon DEF Denoted, Place, TagWord

(* Only docker.io without a port is the default registry.                  *)
LEMMA DefaultRegistryIs ==
    ASSUME NEW r \in Reference, r.host # None
    PROVE  Registry(r) = <<defaultRegistry>> <=> r.host = defaultRegistry /\ r.port = None
<1>1. Registry(r) = IF r.port = None THEN <<r.host>>
                                     ELSE Join(<<r.host>>, ":", <<r.port>>)
  BY RegistryHas
<1>2. CASE r.port = None
  BY <1>1, <1>2
<1>3. CASE r.port # None
  <2>1. Has(Registry(r), ":")
    BY <1>3, RegistryHas
  <2>2. ~Has(<<defaultRegistry>>, ":")
    BY FixedWords, PlainWord, OneWord
  <2> QED
    BY <2>1, <2>2, <1>3
<1> QED
  BY <1>2, <1>3

(* What a reference denotes is canonical.                                  *)
LEMMA DenotedIsCanonical ==
    ASSUME NEW r \in Reference
    PROVE  Canonical(Denoted(r).registry, Denoted(r).repo)
<1> DEFINE g == Denoted(r).registry
           q == Denoted(r).repo
           hub == <<defaultRegistry>>
<1>1. /\ g = IF r.host = None THEN hub ELSE Registry(r)
      /\ q = IF r.host \in {None, defaultRegistry} /\ r.port = None /\ Len(r.path) = 1
             THEN <<officialPrefix, "/">> \o Path(r)
             ELSE Path(r)
  BY DenotedIs
<1>2. hub \in Names /\ ~Has(hub, "/") /\ ~Has(hub, "@") /\ HasDot(hub)
  BY FixedWords, PlainWord, UserWords, OneWord
<1>3. r.host # None => /\ Registry(r) \in Names
                       /\ ~Has(Registry(r), "/") /\ ~Has(Registry(r), "@")
                       /\ HasDot(Registry(r)) \/ Has(Registry(r), ":")
                       /\ Registry(r) = hub <=> r.host = defaultRegistry /\ r.port = None
  BY RegistryHas, DefaultRegistryIs
<1>4. Path(r) \in Names /\ ~Has(Path(r), "@") /\ (Has(Path(r), "/") <=> Len(r.path) > 1)
  BY PathHas
<1>5. /\ <<officialPrefix, "/">> \o Path(r) \in Names
      /\ Has(<<officialPrefix, "/">> \o Path(r), "/")
      /\ ~Has(<<officialPrefix, "/">> \o Path(r), "@")
  BY <1>4, UnderLibrary
<1>6. Len(r.path) \in Nat \ {0} /\ (r.host = None => r.port = None)
  BY ReferenceType
<1> HIDE DEF g, q, hub
<1>7. g \in Names /\ ~Has(g, "/") /\ ~Has(g, "@") /\ (HasDot(g) \/ Has(g, ":"))
  BY <1>1, <1>2, <1>3
<1>8. q \in Names /\ ~Has(q, "@")
  BY <1>1, <1>4, <1>5
<1>9. ASSUME g = hub PROVE Has(q, "/")
  <2>1. r.host \in {None, defaultRegistry} /\ r.port = None
    BY <1>1, <1>3, <1>6, <1>9
  <2>2. CASE Len(r.path) = 1
    BY <2>1, <2>2, <1>1, <1>5
  <2>3. CASE Len(r.path) # 1
    <3>1. Len(r.path) > 1
      BY <2>3, OneOrMore
    <3> QED
      BY <3>1, <2>3, <1>1, <1>4
  <2> QED
    BY <2>2, <2>3
<1> QED
  BY <1>7, <1>8, <1>9 DEF Canonical, g, q, hub

(* Parse finds the registry and the repository in the stem.                *)
LEMMA StemDenotes ==
    ASSUME NEW r \in Reference, NEW t
    PROVE  Official(Located(Stem(r), <<t>>))
             = Place(Denoted(r).registry, Denoted(r).repo, t)
<1> DEFINE g == Denoted(r).registry
           q == Denoted(r).repo
           hub == <<defaultRegistry>>
           lib == <<officialPrefix, "/">> \o Path(r)
<1>1. /\ g = IF r.host = None THEN hub ELSE Registry(r)
      /\ q = IF r.host \in {None, defaultRegistry} /\ r.port = None /\ Len(r.path) = 1
             THEN lib ELSE Path(r)
  BY DenotedIs
<1>2. Path(r) \in Names /\ ~Has(Path(r), ":") /\ (Has(Path(r), "/") <=> Len(r.path) > 1)
  BY PathHas
<1>3. lib \in Names /\ Has(lib, "/")
  BY <1>2, UnderLibrary
<1>4. /\ Len(r.path) \in Nat \ {0} /\ r.path \in [1..Len(r.path) -> Components]
      /\ r.host = None =>
            r.port = None /\ (Len(r.path) > 1 => r.path[1] \notin Dotted)
  BY ReferenceType
<1>5. Len(r.path) = 1 <=> ~(Len(r.path) > 1)
  BY OneOrMore
<1>6. CASE r.host = None /\ Len(r.path) = 1
  <2>1. Stem(r) = Path(r) /\ ~Has(Path(r), "/")
    BY <1>2, <1>5, <1>6, StemHas
  <2>2. Parts(Path(r)) = 1
    BY <2>1, <1>2, OnePart
  <2>3. Located(Path(r), <<t>>) = Place(hub, lib, t)
    BY <2>2 DEF Located, Place
  <2>4. g = hub /\ q = lib
    BY <1>1, <1>4, <1>6
  <2> HIDE DEF g, q, hub, lib
  <2> QED
    BY <2>1, <2>3, <2>4, <1>3, OfficialOf DEF g, q
<1>7. CASE r.host = None /\ Len(r.path) # 1
  <2>1. Stem(r) = Path(r) /\ Has(Path(r), "/") /\ Len(r.path) > 1
    BY <1>2, <1>5, <1>7, StemHas
  <2>2. FirstPart(Path(r)) = <<r.path[1]>> /\ Parts(Path(r)) \in {2, 3}
    BY <2>1, PathParts
  <2>3. r.path[1] \in Plain /\ r.path[1] \notin Dotted
    <3>1. 1 \in 1..Len(r.path)
      BY <1>4
    <3> QED
      BY <3>1, <2>1, <1>4, <1>7, UserWords
  <2>4. ~HasDot(<<r.path[1]>>) /\ ~Has(<<r.path[1]>>, ":")
    BY <2>3, PlainWord, OneWord
  <2>5. Located(Path(r), <<t>>) = Place(hub, Path(r), t)
    BY <2>2, <2>4 DEF Located, Place
  <2>6. g = hub /\ q = Path(r)
    BY <1>1, <1>7
  <2> HIDE DEF g, q, hub, lib
  <2> QED
    BY <2>1, <2>5, <2>6, OfficialOf DEF g, q
<1>8. CASE r.host # None
  <2>1. Stem(r) = Join(Registry(r), "/", Path(r))
    BY <1>8, StemHas
  <2>2. /\ Registry(r) \in Names
        /\ ~Has(Registry(r), "/")
        /\ HasDot(Registry(r)) \/ Has(Registry(r), ":")
    BY <1>8, RegistryHas
  <2>3. /\ FirstPart(Stem(r)) = Registry(r) /\ OtherParts(Stem(r)) = Path(r)
        /\ Parts(Stem(r)) >= 2
    BY <2>1, <2>2, <1>2, MoreParts
  <2>4. Located(Stem(r), <<t>>) = Place(Registry(r), Path(r), t)
    BY <2>2, <2>3 DEF Located, Place
  <2>5. Registry(r) = hub <=> r.host = defaultRegistry /\ r.port = None
    BY <1>8, DefaultRegistryIs
  <2>6. g = Registry(r)
        /\ q = IF Registry(r) = hub /\ ~Has(Path(r), "/") THEN lib ELSE Path(r)
    BY <2>5, <1>1, <1>2, <1>5, <1>8
  <2>7. Official(Place(Registry(r), Path(r), t))
          = IF Registry(r) = hub /\ ~Has(Path(r), "/")
            THEN Place(Registry(r), lib, t) ELSE Place(Registry(r), Path(r), t)
    BY OfficialOf
  <2> HIDE DEF g, q, hub, lib
  <2> QED
    BY <2>4, <2>6, <2>7 DEF g, q
<1> QED
  BY <1>6, <1>7, <1>8

-----------------------------------------------------------------------------
(* Names that are cut in the same place by every parser: into stem and t.  *)

CutAs(n, stem, t) ==
    /\ Untagged(n) = stem
    /\ TagOf(n) = <<t>>
    /\ Parse(n) = Official(Located(stem, <<t>>))

Clean(stem) == stem \in Names /\ ~Has(stem, "@")

(* A clean stem with a tag is cut before the tag.                          *)
LEMMA TaggedIsCut ==
    ASSUME NEW stem, Clean(stem), NEW t \in Plain
    PROVE  CutAs(Join(stem, ":", <<t>>), stem, t)
  BY TagIsCut DEF CutAs, Clean

(* What the user wrote is cut so.                                          *)
LEMMA UserNameIsCut ==
    ASSUME NEW r \in Reference, ~r.pinned
    PROVE  CutAs(Written(r), Stem(r), TagWord(r)) /\ Clean(Stem(r))
  BY WrittenIsCut, StemHas DEF CutAs, Clean

(* The name that nerdctl stores for a place.                               *)
Full(g, q, t) == Join(Join(g, "/", q), ":", <<t>>)

(* Normalize writes the place that Parse found.                            *)
LEMMA NormalizeIsFull ==
    ASSUME NEW n, NEW g, NEW q, NEW t, Parse(n) = Place(g, q, t)
    PROVE  Normalize(n) = Full(g, q, t)
  BY DEF Normalize, Place, Full, Join

(* A canonical registry and repository make a clean stem.                  *)
LEMMA CanonicalStem ==
    ASSUME NEW g, NEW q, Canonical(g, q)
    PROVE  Clean(Join(g, "/", q))
<1>1. g \in Names /\ q \in Names /\ ~Has(g, "@") /\ ~Has(q, "@")
  BY DEF Canonical
<1>2. "/" \in Words /\ "/" # "@"
  BY FixedWords
<1> QED
  BY <1>1, <1>2, JoinedHas DEF Clean

(* It is cut where it was put together, and parsed to the same place.      *)
LEMMA FullStays ==
    ASSUME NEW g, NEW q, Canonical(g, q), NEW t \in Plain
    PROVE  /\ CutAs(Full(g, q, t), Join(g, "/", q), t)
           /\ Parse(Full(g, q, t)) = Place(g, q, t)
           /\ Normalize(Full(g, q, t)) = Full(g, q, t)
<1>1. CutAs(Full(g, q, t), Join(g, "/", q), t)
  BY CanonicalStem, TaggedIsCut DEF Full
<1>2. Parse(Full(g, q, t)) = Place(g, q, t)
  BY <1>1, CanonicalStays DEF CutAs
<1> QED
  BY <1>1, <1>2, NormalizeIsFull

(* What mini-docker puts before the tag.                                   *)
DockerStem(s) ==
    IF OnHub(s) THEN <<defaultRegistry, "/">> \o HubRepo(s)
                ELSE Alias(FirstPart(s)) \o <<"/">> \o OtherParts(s)

(* normalizeRef keeps the tag and rewrites the stem.                       *)
LEMMA NormalizeRefIs ==
    ASSUME NEW n, NEW stem, NEW t, CutAs(n, stem, t)
    PROVE  normalizeRef(n) = Join(DockerStem(stem), ":", <<t>>)
  BY DEF normalizeRef, CutAs, DockerStem, Join

(* docker.io and the host behind it are registries with a dot.             *)
LEMMA HubWords ==
    /\ <<defaultRegistry>> \in Names /\ ~Has(<<defaultRegistry>>, "/")
    /\ ~Has(<<defaultRegistry>>, "@") /\ HasDot(<<defaultRegistry>>)
    /\ <<hubHost>> \in Names /\ ~Has(<<hubHost>>, "/")
    /\ ~Has(<<hubHost>>, "@") /\ HasDot(<<hubHost>>)
<1>1. /\ defaultRegistry \in Words /\ defaultRegistry # "/" /\ defaultRegistry # "@"
      /\ hubHost \in Words /\ hubHost # "/" /\ hubHost # "@"
  BY FixedWords, PlainWord
<1>2. defaultRegistry \in Dotted /\ hubHost \in Dotted
  BY UserWords
<1> QED
  BY <1>1, <1>2, OneWord

(* mini-docker makes clean stems of clean ones.                            *)
LEMMA DockerStemIsClean ==
    ASSUME NEW s, Clean(s)
    PROVE  Clean(DockerStem(s))
<1>1. s \in Names /\ ~Has(s, "@") /\ "/" \in Words /\ "/" # "@"
  BY FixedWords DEF Clean
<1>2. CASE OnHub(s)
  <2>1. HubRepo(s) \in Names /\ ~Has(HubRepo(s), "@")
    BY <1>1, UnderLibrary DEF HubRepo
  <2> DEFINE hub == <<defaultRegistry>>
             q == HubRepo(s)
  <2>2. DockerStem(s) = Join(hub, "/", q)
    BY <2>1, <1>2, FixedWords, PlainWord, Prefixed DEF DockerStem
  <2>3. hub \in Names /\ ~Has(hub, "@")
    BY HubWords
  <2> HIDE DEF hub, q
  <2>4. Join(hub, "/", q) \in Names /\ ~Has(Join(hub, "/", q), "@")
    BY <2>1, <2>3, <1>1, JoinedHas DEF q
  <2> QED
    BY <2>2, <2>4 DEF Clean
<1>3. CASE ~OnHub(s)
  <2>1. Has(s, "/")
    BY <1>1, <1>3, OnePart DEF OnHub
  <2>2. PICK a, b \in Names : s = Join(a, "/", b) /\ ~Has(a, "/")
    BY <2>1, <1>1, Splits
  <2>3. FirstPart(s) = a /\ OtherParts(s) = b
    BY <2>2, MoreParts
  <2>4. ~Has(a, "@") /\ ~Has(b, "@")
    BY <2>2, <1>1, JoinedHas
  <2> DEFINE g == Alias(a)
  <2>5. g \in Names /\ ~Has(g, "@")
    BY <2>4, HubWords DEF Alias
  <2> HIDE DEF g
  <2>6. Join(g, "/", b) \in Names /\ ~Has(Join(g, "/", b), "@")
    BY <2>4, <2>5, <1>1, JoinedHas
  <2> QED
    BY <2>3, <2>6, <1>3 DEF DockerStem, Clean, Join, g
<1> QED
  BY <1>2, <1>3

-----------------------------------------------------------------------------
(* The names of a common reference: its own stem, or the place it denotes, *)
(* with docker.io or with the host that serves it.                         *)

Stems(r) ==
    {Stem(r), Join(Denoted(r).registry, "/", Denoted(r).repo),
              Join(Alias(Denoted(r).registry), "/", Denoted(r).repo)}

Means(n, r) == \E stem \in Stems(r) : CutAs(n, stem, TagWord(r))

(* parseRef and normalizeRef find in the stem what r denotes.              *)
Resolves(stem, r) ==
    IF OnHub(stem)
    THEN Denoted(r).registry = <<defaultRegistry>> /\ HubRepo(stem) = Denoted(r).repo
    ELSE /\ Alias(FirstPart(stem)) = Alias(Denoted(r).registry)
         /\ OtherParts(stem) = Denoted(r).repo

(* The host behind docker.io is as good a registry.                        *)
LEMMA AliasIsCanonical ==
    ASSUME NEW g, NEW q, Canonical(g, q)
    PROVE  /\ Canonical(Alias(g), q)
           /\ Alias(Alias(g)) = Alias(g)
           /\ HasDot(g) => HasDot(Alias(g))
<1>1. CASE g = <<defaultRegistry>>
  <2>1. Alias(g) = <<hubHost>>
    BY <1>1 DEF Alias
  <2>2. Has(q, "/") /\ q \in Names /\ ~Has(q, "@")
    BY <1>1 DEF Canonical
  <2>3. Canonical(<<hubHost>>, q)
    BY <2>2, HubWords DEF Canonical
  <2>4. Alias(<<hubHost>>) = <<hubHost>>
    BY DEF Alias
  <2> QED
    BY <2>1, <2>3, <2>4, HubWords
<1>2. CASE g # <<defaultRegistry>>
  BY <1>2 DEF Alias
<1> QED
  BY <1>1, <1>2

(* A registry with a dot, or a path of two, is not taken for Docker Hub.   *)
LEMMA PlaceIsFound ==
    ASSUME NEW g, NEW q, Canonical(g, q), HasDot(g) \/ Has(q, "/")
    PROVE  /\ ~OnHub(Join(g, "/", q))
           /\ FirstPart(Join(g, "/", q)) = g
           /\ OtherParts(Join(g, "/", q)) = q
<1>1. /\ FirstPart(Join(g, "/", q)) = g
      /\ OtherParts(Join(g, "/", q)) = q
      /\ Parts(Join(g, "/", q)) = IF Has(q, "/") THEN 3 ELSE 2
  BY MoreParts DEF Canonical
<1> QED
  BY <1>1 DEF OnHub

(* What a common reference denotes has a dot or two components.            *)
LEMMA CommonIsFound ==
    ASSUME NEW r \in Reference, Common(r)
    PROVE  HasDot(Denoted(r).registry) \/ Has(Denoted(r).repo, "/")
<1>1. /\ Denoted(r).registry =
            IF r.host = None THEN <<defaultRegistry>> ELSE Registry(r)
      /\ Denoted(r).repo =
            IF r.host \in {None, defaultRegistry} /\ r.port = None /\ Len(r.path) = 1
            THEN <<officialPrefix, "/">> \o Path(r)
            ELSE Path(r)
  BY DenotedIs
<1>2. CASE r.host = None
  BY <1>1, <1>2, HubWords
<1>3. CASE r.host # None /\ r.host \in Dotted
  BY <1>1, <1>3, RegistryHas
<1>4. CASE r.host # None /\ r.host \notin Dotted
  <2>1. Len(r.path) >= 2
    BY <1>4 DEF Common
  <2>2. Len(r.path) > 1 /\ Len(r.path) # 1
    BY <2>1, OneOrMore, Zenon
  <2>3. Denoted(r).repo = Path(r)
    BY <2>2, <1>1
  <2> QED
    BY <2>2, <2>3, PathHas
<1> QED
  BY <1>2, <1>3, <1>4

(* parseRef finds in the stem of a common reference what it denotes.       *)
LEMMA StemResolves ==
    ASSUME NEW r \in Reference, Common(r)
    PROVE  Resolves(Stem(r), r)
<1> DEFINE g == Denoted(r).registry
           q == Denoted(r).repo
           lib == <<officialPrefix, "/">> \o Path(r)
<1>1. /\ g = IF r.host = None THEN <<defaultRegistry>> ELSE Registry(r)
      /\ q = IF r.host \in {None, defaultRegistry} /\ r.port = None /\ Len(r.path) = 1
             THEN lib ELSE Path(r)
  BY DenotedIs
<1>2. Path(r) \in Names /\ (Has(Path(r), "/") <=> Len(r.path) > 1)
      /\ (Len(r.path) = 1 <=> ~(Len(r.path) > 1))
  BY PathHas, OneOrMore
<1>3. CASE r.host = None /\ Len(r.path) = 1
  <2>1. Stem(r) = Path(r) /\ ~Has(Path(r), "/") /\ r.port = None
    BY <1>2, <1>3, StemHas, ReferenceType
  <2>2. Parts(Path(r)) = 1
    BY <2>1, <1>2, OnePart
  <2>3. OnHub(Stem(r)) /\ HubRepo(Stem(r)) = lib
    BY <2>1, <2>2 DEF OnHub, HubRepo
  <2>4. q = lib /\ g = <<defaultRegistry>>
    BY <2>1, <1>1, <1>3
  <2> HIDE DEF lib, q, g
  <2> QED
    BY <2>3, <2>4 DEF Resolves, q, g
<1>4. CASE r.host = None /\ Len(r.path) # 1
  <2>1. Stem(r) = Path(r) /\ Len(r.path) > 1
    BY <1>2, <1>4, StemHas
  <2>2. Len(r.path) = 2
    <3> DEFINE n == Len(r.path)
    <3>1. n \in Nat /\ n > 1 /\ n <= 2
      BY <2>1, <1>4, ReferenceType DEF Common
    <3> HIDE DEF n
    <3>2. n = 2
      BY <3>1
    <3> QED
      BY <3>2 DEF n
  <2>3. FirstPart(Path(r)) = <<r.path[1]>> /\ Parts(Path(r)) = 2
    BY <2>1, <2>2, PathParts
  <2>4. r.path[1] \in Plain /\ r.path[1] \notin Dotted
    <3>1. r.path \in [1..Len(r.path) -> Components] /\ r.path[1] \notin Dotted
      BY <2>1, <1>4, ReferenceType
    <3>2. 1 \in 1..Len(r.path)
      BY <2>2
    <3> QED
      BY <3>1, <3>2, UserWords
  <2>5. ~HasDot(<<r.path[1]>>)
    BY <2>4, PlainWord, OneWord
  <2>6. OnHub(Stem(r)) /\ HubRepo(Stem(r)) = Path(r)
    BY <2>1, <2>3, <2>5 DEF OnHub, HubRepo
  <2>7. q = Path(r) /\ g = <<defaultRegistry>>
    BY <1>1, <1>4
  <2> HIDE DEF lib, q, g
  <2> QED
    BY <2>6, <2>7 DEF Resolves, q, g
<1>5. CASE r.host # None
  <2>1. q = Path(r)
    <3>1. r.host = defaultRegistry /\ r.port = None => Len(r.path) >= 2
      BY <1>5 DEF Common
    <3>2. r.host = defaultRegistry /\ r.port = None => Len(r.path) # 1
      BY <3>1, OneOrMore, Zenon
    <3> QED
      BY <3>2, <1>1, <1>5
  <2>2. g = Registry(r) /\ Stem(r) = Join(g, "/", q)
    BY <2>1, <1>1, <1>5, StemHas
  <2>3. Canonical(g, q) /\ (HasDot(g) \/ Has(q, "/"))
    BY DenotedIsCanonical, CommonIsFound
  <2>4. ~OnHub(Stem(r)) /\ FirstPart(Stem(r)) = g /\ OtherParts(Stem(r)) = q
    <3> HIDE DEF g, q
    <3> QED
      BY <2>2, <2>3, PlaceIsFound
  <2> QED
    BY <2>4 DEF Resolves
<1> QED
  BY <1>3, <1>4, <1>5

(* And in the two other stems.                                             *)
LEMMA StemsResolve ==
    ASSUME NEW r \in Reference, Common(r), NEW stem \in Stems(r)
    PROVE  Resolves(stem, r)
<1> DEFINE g == Denoted(r).registry
           q == Denoted(r).repo
<1>1. Canonical(g, q) /\ (HasDot(g) \/ Has(q, "/"))
  BY DenotedIsCanonical, CommonIsFound
<1>2. Canonical(Alias(g), q) /\ (HasDot(Alias(g)) \/ Has(q, "/"))
      /\ Alias(Alias(g)) = Alias(g)
  <2> HIDE DEF g, q
  <2> QED
    BY <1>1, AliasIsCanonical
<1>3. CASE stem = Stem(r)
  BY <1>3, StemResolves
<1>4. CASE stem = Join(g, "/", q)
  <2> HIDE DEF g, q
  <2>1. ~OnHub(stem) /\ FirstPart(stem) = g /\ OtherParts(stem) = q
    BY <1>1, <1>4, PlaceIsFound
  <2> QED
    BY <2>1 DEF Resolves, g, q
<1>5. CASE stem = Join(Alias(g), "/", q)
  <2> HIDE DEF g, q
  <2>1. ~OnHub(stem) /\ FirstPart(stem) = Alias(g) /\ OtherParts(stem) = q
    BY <1>2, <1>5, PlaceIsFound
  <2> QED
    BY <2>1, <1>2 DEF Resolves, g, q
<1> QED
  BY <1>3, <1>4, <1>5 DEF Stems

(* All stems are clean, and nerdctl makes one of them of each.             *)
LEMMA StemsAreClean ==
    ASSUME NEW r \in Reference, NEW stem \in Stems(r), NEW t
    PROVE  /\ Clean(stem)
           /\ \E g \in {Denoted(r).registry, Alias(Denoted(r).registry)} :
                 Official(Located(stem, <<t>>)) = Place(g, Denoted(r).repo, t)
<1> DEFINE g == Denoted(r).registry
           q == Denoted(r).repo
<1>1. Canonical(g, q) /\ Canonical(Alias(g), q)
  BY DenotedIsCanonical, AliasIsCanonical
<1>2. CASE stem = Stem(r)
  BY <1>2, StemHas, StemDenotes DEF Clean
<1>3. CASE stem = Join(g, "/", q)
  <2> HIDE DEF g, q
  <2>1. Clean(stem) /\ Official(Located(stem, <<t>>)) = Place(g, q, t)
    BY <1>1, <1>3, CanonicalStem, CanonicalStays
  <2> QED
    BY <2>1 DEF g, q
<1>4. CASE stem = Join(Alias(g), "/", q)
  <2> HIDE DEF g, q
  <2>1. Clean(stem) /\ Official(Located(stem, <<t>>)) = Place(Alias(g), q, t)
    BY <1>1, <1>4, CanonicalStem, CanonicalStays
  <2> QED
    BY <2>1 DEF g, q
<1> QED
  BY <1>2, <1>3, <1>4 DEF Stems

(* What such a name stands for, and what the clients make of it.           *)
LEMMA MeaningIsKept ==
    ASSUME NEW r \in Reference, Common(r), NEW n, Means(n, r)
    PROVE  /\ parseRef(n) = Place(Alias(Denoted(r).registry), Denoted(r).repo, TagWord(r))
           /\ daemonParseRef(n) = parseRef(n)
           /\ Means(Normalize(n), r)
           /\ Means(normalizeRef(n), r)
<1> DEFINE g == Denoted(r).registry
           q == Denoted(r).repo
           t == TagWord(r)
<1>1. PICK stem \in Stems(r) : CutAs(n, stem, t)
  BY DEF Means
<1>2. Resolves(stem, r)
  BY StemsResolve
<1>3. /\ Clean(stem)
      /\ \E h \in {g, Alias(g)} : Official(Located(stem, <<t>>)) = Place(h, q, t)
  BY StemsAreClean
<1>4. Canonical(g, q) /\ Canonical(Alias(g), q) /\ t \in Plain
  BY DenotedIsCanonical, AliasIsCanonical, TagWordIsPlain
<1>5. Join(g, "/", q) \in Stems(r) /\ Join(Alias(g), "/", q) \in Stems(r)
  BY DEF Stems
<1>6. Resolves(stem, r) <=>
        IF OnHub(stem)
        THEN g = <<defaultRegistry>> /\ HubRepo(stem) = q
        ELSE Alias(FirstPart(stem)) = Alias(g) /\ OtherParts(stem) = q
  BY Zenon DEF Resolves
<1>m. ASSUME NEW m, NEW x \in Stems(r), CutAs(m, x, t) PROVE Means(m, r)
  BY <1>m DEF Means
<1> HIDE DEF g, q, t
<1>7. parseRef(n) = Place(Alias(g), q, t)
  <2>1. Untagged(n) = stem /\ TagOf(n) = <<t>>
    BY <1>1 DEF CutAs
  <2>2. CASE OnHub(stem)
    <3>1. Alias(g) = <<hubHost>>
      BY <2>2, <1>2, <1>6 DEF Alias
    <3> QED
      BY <2>1, <2>2, <3>1, <1>2, <1>6 DEF parseRef, Place
  <2>3. CASE ~OnHub(stem)
    BY <2>1, <2>3, <1>2, <1>6 DEF parseRef, Place
  <2> QED
    BY <2>2, <2>3
<1>8. daemonParseRef(n) = parseRef(n)
  BY <1>1, <1>3 DEF daemonParseRef, CutAs, Clean
<1>9. Means(Normalize(n), r)
  <2>1. PICK h \in {g, Alias(g)} : Official(Located(stem, <<t>>)) = Place(h, q, t)
    BY <1>3
  <2>2. Parse(n) = Place(h, q, t)
    BY <2>1, <1>1 DEF CutAs
  <2>3. Normalize(n) = Full(h, q, t)
    BY <2>2, NormalizeIsFull
  <2>4. Canonical(h, q) /\ Join(h, "/", q) \in Stems(r)
    BY <1>4, <1>5
  <2>5. CutAs(Normalize(n), Join(h, "/", q), t)
    BY <2>3, <2>4, <1>4, FullStays
  <2> QED
    BY <2>4, <2>5, <1>m
<1>10. Means(normalizeRef(n), r)
  <2>1. normalizeRef(n) = Join(DockerStem(stem), ":", <<t>>)
    BY <1>1, NormalizeRefIs
  <2>2. Clean(DockerStem(stem))
    BY <1>3, DockerStemIsClean
  <2>3. CutAs(normalizeRef(n), DockerStem(stem), t)
    BY <2>1, <2>2, <1>4, TaggedIsCut
  <2>4. CASE OnHub(stem)
    <3>1. g = <<defaultRegistry>> /\ HubRepo(stem) = q
      BY <2>4, <1>2, <1>6
    <3>2. q \in Names /\ defaultRegistry \in Words
      BY <1>4, FixedWords, PlainWord DEF Canonical
    <3>3. <<defaultRegistry, "/">> \o q = Join(g, "/", q)
      BY <3>1, <3>2, Prefixed
    <3>4. DockerStem(stem) = Join(g, "/", q)
      BY <2>4, <3>1, <3>3 DEF DockerStem
    <3> QED
      BY <3>4, <2>3, <1>5, <1>m
  <2>5. CASE ~OnHub(stem)
    <3>1. Alias(FirstPart(stem)) = Alias(g) /\ OtherParts(stem) = q
      BY <2>5, <1>2, <1>6
    <3>2. DockerStem(stem) = Join(Alias(g), "/", q)
      BY <2>5, <3>1 DEF DockerStem, Join
    <3> QED
      BY <3>2, <2>3, <1>5, <1>m
  <2> QED
    BY <2>4, <2>5
<1> QED
  BY <1>7, <1>8, <1>9, <1>10 DEF g, q, t

-----------------------------------------------------------------------------
(* The inductive invariant.                                                *)

NameInv ==
    /\ meant \in Reference
    /\ Common(meant) => Means(name, meant)

(* It holds at first, and both pulls keep it.                              *)
LEMMA NameInvHolds == Spec => []NameInv
<1>1. Init => NameInv
  <2> SUFFICES ASSUME Init PROVE NameInv
    OBVIOUS
  <2>1. meant \in Reference /\ name = Written(meant)
    BY DEF Init
  <2>2. ASSUME ~meant.pinned
        PROVE  CutAs(name, Stem(meant), TagWord(meant)) /\ Clean(Stem(meant))
    BY <2>1, <2>2, UserNameIsCut
  <2>4. Common(meant) => Means(name, meant)
    BY <2>2 DEF Common, Means, Stems
  <2> QED
    BY <2>1, <2>4 DEF NameInv
<1>2. NameInv /\ [Next]_vars => NameInv'
  <2> SUFFICES ASSUME NameInv, [Next]_vars PROVE NameInv'
    OBVIOUS
  <2>1. CASE NerdctlPull
    <3>1. name' = Normalize(name) /\ meant' = meant
      BY <2>1 DEF NerdctlPull
    <3>3. Common(meant) => Means(Normalize(name), meant)
      BY MeaningIsKept DEF NameInv
    <3> QED
      BY <3>1, <3>3 DEF NameInv
  <2>2. CASE DockerPull
    <3>1. name' = normalizeRef(name) /\ meant' = meant
      BY <2>2 DEF DockerPull
    <3>3. Common(meant) => Means(normalizeRef(name), meant)
      BY MeaningIsKept DEF NameInv
    <3> QED
      BY <3>1, <3>3 DEF NameInv
  <2>3. CASE UNCHANGED vars
    BY <2>3 DEF NameInv, vars
  <2> QED
    BY <2>1, <2>2, <2>3 DEF Next
<1> QED
  BY <1>1, <1>2, PTL DEF Spec

(* Parse of reference.go finds in every reference without a digest, and in *)
(* its normalized form, the registry, the repository and the tag that the  *)
(* rules above Normalize say, whatever the words and however deep the path.*)
THEOREM ParsesAreDenoted == Spec => []ParseIsDenoted
<1>1. NameInv => ParseIsDenoted
  <2> SUFFICES ASSUME NameInv, ~meant.pinned,
                      name \in {Written(meant), Normalize(Written(meant))}
               PROVE  Parse(name) = Denoted(meant)
    BY DEF ParseIsDenoted
  <2>0. meant \in Reference
    BY DEF NameInv
  <2> DEFINE g == Denoted(meant).registry
             q == Denoted(meant).repo
             t == TagWord(meant)
  <2>1. Parse(Written(meant)) = Place(g, q, t)
    BY <2>0, UserNameIsCut, StemDenotes DEF CutAs
  <2>2. Denoted(meant) = Place(g, q, t)
    BY <2>0, DenotedIs, Zenon
  <2>3. Canonical(g, q) /\ t \in Plain
    BY <2>0, DenotedIsCanonical, TagWordIsPlain
  <2>4. Normalize(Written(meant)) = Full(g, q, t)
    BY <2>1, NormalizeIsFull
  <2>5. Parse(Full(g, q, t)) = Place(g, q, t)
    BY <2>3, FullStays
  <2> HIDE DEF g, q, t
  <2> QED
    BY <2>1, <2>2, <2>4, <2>5
<1> QED
  BY <1>1, NameInvHolds, PTL

(* However nerdctl and docker rewrote the name of a reference that all     *)
(* parsers are to agree on, each of them and the daemon fetch from it the  *)
(* image that the user meant.                                              *)
THEOREM NamesKeepTheirMeaning == Spec => []NamesKeepMeaning
<1>1. NameInv => NamesKeepMeaning
  <2> SUFFICES ASSUME NameInv, Common(meant)
               PROVE  LET place == [Denoted(meant) EXCEPT !.registry = Alias(@)]
                      IN  /\ parseRef(Normalize(name)) = place
                          /\ parseRef(normalizeRef(name)) = place
                          /\ parseRef(name) = place
                          /\ daemonParseRef(name) = place
    BY Zenon DEF NamesKeepMeaning
  <2>0. meant \in Reference /\ Means(name, meant)
    BY DEF NameInv
  <2> DEFINE g == Denoted(meant).registry
             q == Denoted(meant).repo
             t == TagWord(meant)
             place == Place(Alias(g), q, t)
  <2>1. [Denoted(meant) EXCEPT !.registry = Alias(@)] = place
    <3>1. Denoted(meant) = Place(g, q, t)
      BY <2>0, DenotedIs, Zenon
    <3>2. g = Denoted(meant).registry
      OBVIOUS
    <3> HIDE DEF g, q, t
    <3> QED
      BY <3>1 DEF Place
  <2>2. /\ parseRef(name) = place /\ daemonParseRef(name) = place
        /\ Means(Normalize(name), meant) /\ Means(normalizeRef(name), meant)
    BY <2>0, MeaningIsKept
  <2>3. parseRef(Normalize(name)) = place /\ parseRef(normalizeRef(name)) = place
    BY <2>0, <2>2, MeaningIsKept
  <2> HIDE DEF place
  <2> QED
    BY <2>1, <2>2, <2>3
<1> QED
  BY <1>1, NameInvHolds, PTL
=============================================================================

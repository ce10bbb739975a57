--------------------------- MODULE ReferenceProofs ---------------------------
(***************************************************************************)
(* References of any length, mirrors and registries: what a reference is   *)
(* rewritten to, and which image a caller gets.                            *)
(***************************************************************************)
EXTENDS Reference, NatLemmas, SequenceTheorems

\* ---------------------------------------------------------------------------
\* Sequences: what stands before the first mark, and from it on.

LEMMA ConcatIs ==
  ASSUME NEW S, NEW a \in Seq(S), NEW t \in Seq(S), NEW s \in Seq(S),
         Len(s) = Len(a) + Len(t), \A k \in 1..Len(a) : s[k] = a[k],
         \A k \in 1..Len(t) : s[Len(a) + k] = t[k]
  PROVE  s = a \o t
<1>1. a \o t \in Seq(S) /\ Len(a \o t) = Len(a) + Len(t) /\ Len(a) \in Nat /\ Len(t) \in Nat
  BY ConcatProperties, LenProperties
<1>2. ASSUME NEW k \in 1..Len(s) PROVE s[k] = (a \o t)[k]
  <2>1. k \in 1..Len(a) + Len(t)
    OBVIOUS
  <2>2. (a \o t)[k] = IF k <= Len(a) THEN a[k] ELSE t[k - Len(a)]
    BY <2>1, ConcatProperties
  <2>3. CASE k <= Len(a)
    BY <2>2, <2>3, <1>1
  <2>4. CASE ~(k <= Len(a))
    <3>1. k - Len(a) \in 1..Len(t) /\ Len(a) + (k - Len(a)) = k
      BY <1>1, <2>1, <2>4
    <3>2. s[Len(a) + (k - Len(a))] = t[k - Len(a)]
      BY <3>1
    <3>3. QED
      BY <2>2, <2>4, <3>1, <3>2
  <2>5. QED
    BY <2>3, <2>4
<1>3. QED
  BY <1>1, <1>2, SeqEqual

LEMMA OneWord ==
  ASSUME NEW S, NEW x \in S
  PROVE  <<x>> \in Seq(S) /\ Len(<<x>>) = 1 /\ <<x>>[1] = x /\ <<x>> # << >>
OBVIOUS

LEMMA LeastIn ==
  ASSUME NEW T, T \subseteq Nat, T # {}
  PROVE  Min(T) \in T /\ \A y \in T : Min(T) <= y
<1>1. PICK x \in T : \A y \in T : x <= y
  BY LeastNat
<1>2. \A y \in T : x =< y
  BY <1>1
<1>3. QED
  BY <1>2 DEF Min

LEMMA GreatestIn ==
  ASSUME NEW n \in Nat, NEW T, T \subseteq 1..n, T # {}
  PROVE  Max(T) \in T /\ \A y \in T : y <= Max(T)
<1> DEFINE U == {n - y : y \in T}
<1>1. U \subseteq Nat /\ U # {}
  <2>1. \A y \in T : n - y \in Nat
    OBVIOUS
  <2>2. QED
    BY <2>1
<1>2. PICK u \in U : \A v \in U : u <= v
  BY <1>1, LeastNat
<1>3. PICK x \in T : u = n - x
  BY <1>2
<1>4. \A y \in T : x >= y
  <2>1. ASSUME NEW y \in T PROVE x >= y
    <3>1. n - x <= n - y
      BY <1>2, <1>3
    <3>2. QED
      BY <3>1
  <2>2. QED
    BY <2>1
<1>5. Max(T) \in T /\ \A y \in T : Max(T) >= y
  BY <1>4 DEF Max
<1>6. QED
  BY <1>5

Unmarked(s, marks) == \A k \in 1..Len(s) : s[k] \notin marks

LEMMA FirstOfMark ==
  ASSUME NEW s \in Seq(Words), NEW marks
  PROVE  \/ FirstOf(s, marks) = 0 /\ Unmarked(s, marks)
         \/ /\ FirstOf(s, marks) \in 1..Len(s) /\ s[FirstOf(s, marks)] \in marks
            /\ \A k \in 1..FirstOf(s, marks) - 1 : s[k] \notin marks
<1> DEFINE I == {i \in 1..Len(s) : s[i] \in marks}
<1>1. FirstOf(s, marks) = IF I # {} THEN Min(I) ELSE 0
  BY DEF FirstOf, SelectInSeq
<1>2. CASE I = {}
  BY <1>1, <1>2 DEF Unmarked
<1>3. CASE I # {}
  <2>1. I \subseteq Nat
    OBVIOUS
  <2>2. Min(I) \in I /\ \A y \in I : Min(I) <= y
    BY <1>3, <2>1, LeastIn
  <2>3. Min(I) \in 1..Len(s) /\ s[Min(I)] \in marks
    BY <2>2
  <2>4. ASSUME NEW k \in 1..Min(I) - 1 PROVE s[k] \notin marks
    <3>1. k \in 1..Len(s) /\ ~(Min(I) <= k)
      BY <2>3
    <3>2. k \notin I
      BY <2>2, <3>1
    <3>3. QED
      BY <3>1, <3>2
  <2>5. QED
    BY <1>1, <1>3, <2>3, <2>4
<1>4. QED
  BY <1>2, <1>3

\* A sequence is what stands before its first mark followed by the rest.
LEMMA Split ==
  ASSUME NEW s \in Seq(Words), NEW marks
  PROVE  /\ Before(s, marks) \in Seq(Words) /\ From(s, marks) \in Seq(Words)
         /\ s = Before(s, marks) \o From(s, marks)
         /\ Unmarked(Before(s, marks), marks)
         /\ From(s, marks) = << >> \/ From(s, marks)[1] \in marks
         /\ Unmarked(s, marks) => From(s, marks) = << >>
<1> DEFINE n == FirstOf(s, marks)
           b == Before(s, marks)
           f == From(s, marks)
<1>1. CASE n = 0
  <2>1. Unmarked(s, marks)
    BY <1>1, FirstOfMark
  <2>2. b = s
    BY <1>1 DEF Before
  <2>3. f = << >>
    BY <2>2 DEF From
  <2> HIDE DEF n, b, f
  <2>4. QED
    BY <2>1, <2>2, <2>3 DEF b, f
<1>2. CASE n # 0
  <2>1. n \in 1..Len(s) /\ s[n] \in marks /\ \A k \in 1..n - 1 : s[k] \notin marks
    BY <1>2, FirstOfMark
  <2>2. b = SubSeq(s, 1, n - 1)
    BY <1>2 DEF Before
  <2> HIDE DEF n
  <2>3. b \in Seq(Words) /\ Len(b) = n - 1 /\ \A k \in 1..n - 1 : b[k] = s[k]
    BY <2>1, <2>2
  <2>4. f = SubSeq(s, n, Len(s))
    BY <2>1, <2>3 DEF From
  <2> HIDE DEF b, f
  <2>5. f \in Seq(Words) /\ Len(f) = Len(s) - n + 1 /\ \A k \in 1..Len(s) - n + 1 : f[k] = s[n + k - 1]
    BY <2>1, <2>4
  <2>6. s = b \o f
    <3>1. Len(s) = Len(b) + Len(f) /\ \A k \in 1..Len(b) : s[k] = b[k]
      BY <2>1, <2>3, <2>5
    <3>2. \A k \in 1..Len(f) : s[Len(b) + k] = f[k]
      BY <2>1, <2>3, <2>5
    <3>3. QED
      BY <2>3, <2>5, <3>1, <3>2, ConcatIs
  <2>7. f[1] = s[n]
    BY <2>1, <2>5
  <2>8. Unmarked(b, marks) /\ ~Unmarked(s, marks)
    BY <2>1, <2>3 DEF Unmarked
  <2>9. QED
    BY <2>1, <2>3, <2>5, <2>6, <2>7, <2>8 DEF b, f
<1> HIDE DEF n
<1>3. QED
  BY <1>1, <1>2

\* There is one way to take a sequence apart at its first mark.
LEMMA SplitUnique ==
  ASSUME NEW a \in Seq(Words), NEW t \in Seq(Words), NEW marks,
         Unmarked(a, marks), t = << >> \/ t[1] \in marks
  PROVE  Before(a \o t, marks) = a /\ From(a \o t, marks) = t
<1> DEFINE s == a \o t
           n == FirstOf(s, marks)
<1>1. /\ s \in Seq(Words) /\ Len(s) = Len(a) + Len(t) /\ Len(a) \in Nat /\ Len(t) \in Nat
      /\ \A k \in 1..Len(a) : s[k] = a[k]
      /\ t # << >> => Len(t) > 0 /\ s[Len(a) + 1] = t[1]
  OBVIOUS
<1>2. \A k \in 1..Len(a) : s[k] \notin marks
  BY <1>1 DEF Unmarked
<1>3. CASE t = << >>
  <2>1. s = a
    BY <1>3
  <2>2. n = 0
    BY <1>1, <1>2, <2>1, FirstOfMark
  <2>3. Before(s, marks) = s
    BY <2>2 DEF Before
  <2>4. From(s, marks) = << >>
    BY <2>3 DEF From
  <2> HIDE DEF s
  <2>5. QED
    BY <1>3, <2>1, <2>3, <2>4 DEF s
<1>4. CASE t # << >>
  <2>1. Len(a) + 1 \in 1..Len(s) /\ s[Len(a) + 1] \in marks
    BY <1>1, <1>4
  <2> HIDE DEF s
  <2>2. n # 0
    BY <2>1, <1>1, FirstOfMark DEF Unmarked
  <2>3. n \in 1..Len(s) /\ s[n] \in marks /\ \A k \in 1..n - 1 : s[k] \notin marks
    BY <1>1, <2>2, FirstOfMark
  <2> HIDE DEF n
  <2>4. n = Len(a) + 1
    <3>1. n \notin 1..Len(a)
      BY <1>2, <2>3
    <3>2. Len(a) + 1 \notin 1..n - 1
      BY <2>1, <2>3
    <3>3. QED
      BY <1>1, <2>1, <2>3, <3>1, <3>2
  <2>5. Before(s, marks) = SubSeq(s, 1, Len(a))
    BY <1>1, <2>2, <2>4 DEF Before, n
  <2>6. Before(s, marks) = a
    BY <2>5 DEF s
  <2>7. From(s, marks) = t
    BY <2>6 DEF s, From
  <2>8. QED
    BY <2>6, <2>7 DEF s
<1>5. QED
  BY <1>3, <1>4

\* Taking away a sequence that stands in front.
LEMMA DropFront ==
  ASSUME NEW a \in Seq(Words), NEW t \in Seq(Words)
  PROVE  Drop(a \o t, Len(a)) = t /\ IsPrefix(a, a \o t)
BY DEF Drop, IsPrefix

LEMMA PrefixDrop ==
  ASSUME NEW a \in Seq(Words), NEW s \in Seq(Words), IsPrefix(a, s)
  PROVE  s = a \o Drop(s, Len(a)) /\ Drop(s, Len(a)) \in Seq(Words)
<1> DEFINE n == Len(a)
           d == Drop(s, n)
<1>1. n \in Nat /\ n <= Len(s) /\ SubSeq(a, 1, n) = SubSeq(s, 1, n) /\ SubSeq(a, 1, n) = a
  BY DEF IsPrefix
<1>2. \A k \in 1..n : a[k] = s[k]
  BY <1>1
<1>3. d \in Seq(Words) /\ Len(d) = Len(s) - n /\ \A k \in 1..Len(s) - n : d[k] = s[n + k]
  BY <1>1 DEF Drop
<1> HIDE DEF d
<1>4. s = a \o d
  <2>1. Len(s) = Len(a) + Len(d)
    BY <1>1, <1>3
  <2>2. QED
    BY <1>2, <1>3, <2>1, ConcatIs
<1>5. QED
  BY <1>3, <1>4 DEF d

LEMMA FirstIn ==
  ASSUME NEW t \in Seq(Words), t # << >>, NEW x \in Words, t[1] = x
  PROVE  t = <<x>> \o Drop(t, 1) /\ Drop(t, 1) \in Seq(Words)
<1>1. Len(<<x>>) = 1 /\ <<x>> \in Seq(Words) /\ <<x>>[1] = x
  BY OneWord
<1>2. Len(t) >= 1 /\ Len(t) \in Nat /\ \A k \in 1..1 : <<x>>[k] = t[k]
  BY <1>1
<1>3. IsPrefix(<<x>>, t)
  <2>1. SubSeq(<<x>>, 1, 1) = SubSeq(t, 1, 1)
    BY <1>1, <1>2
  <2>2. QED
    BY <1>1, <1>2, <2>1 DEF IsPrefix
<1>4. QED
  BY <1>1, <1>3, PrefixDrop

\* A sequence with an x in it, taken apart there.
LEMMA Cut ==
  ASSUME NEW s \in Seq(Words), NEW x \in Words, Contains(s, x)
  PROVE  /\ Before(s, {x}) \in Seq(Words) /\ Unmarked(Before(s, {x}), {x})
         /\ Drop(From(s, {x}), 1) \in Seq(Words)
         /\ s = Before(s, {x}) \o (<<x>> \o Drop(From(s, {x}), 1))
<1> DEFINE b == Before(s, {x})
           f == From(s, {x})
<1>1. b \in Seq(Words) /\ f \in Seq(Words) /\ s = b \o f /\ Unmarked(b, {x})
      /\ (f = << >> \/ f[1] = x)
  BY Split
<1> HIDE DEF b, f
<1>2. f # << >>
  <2>1. SUFFICES ASSUME f = << >> PROVE FALSE
    OBVIOUS
  <2>2. s = b
    BY <1>1, <2>1
  <2>3. QED
    BY <1>1, <2>2 DEF Contains, Unmarked
<1>3. f = <<x>> \o Drop(f, 1) /\ Drop(f, 1) \in Seq(Words)
  BY <1>1, <1>2, FirstIn
<1>4. QED
  BY <1>1, <1>3 DEF b, f

\* What NewRepository makes of a reference in full.
Tagged(t) == IF t = << >> THEN <<":", "latest">> ELSE t

LEMMA ParsedParts ==
  ASSUME NEW h \in Seq(Words), NEW p \in Seq(Words), Unmarked(h, {"/"})
  PROVE  Parsed(h \o (<<"/">> \o p)) =
           [host |-> h, name |-> Before(p, {":", "@"}), tag |-> Tagged(From(p, {":", "@"}))]
<1> DEFINE t == <<"/">> \o p
           c == h \o t
<1>1. <<"/">> \in Seq(Words) /\ Len(<<"/">>) = 1 /\ <<"/">>[1] = "/"
  BY OneWord, WordAssumption
<1>2. t \in Seq(Words) /\ t # << >> /\ t[1] \in {"/"}
  BY <1>1
<1>3. Before(c, {"/"}) = h /\ From(c, {"/"}) = t
  BY <1>2, SplitUnique
<1>4. Drop(t, 1) = p
  BY <1>1, DropFront
<1> HIDE DEF t, c
<1>5. Parsed(c) =
        [host |-> h, name |-> Before(p, {":", "@"}), tag |-> Tagged(From(p, {":", "@"}))]
  BY <1>3, <1>4 DEF Parsed, Tagged
<1>6. QED
  BY <1>5 DEF c, t

LEMMA Assoc == \A a, b, c \in Seq(Words) : (a \o b) \o c = a \o (b \o c)
BY ConcatAssociative

LEMMA ConcatWords == \A a, b \in Seq(Words) : a \o b \in Seq(Words) /\ Len(a \o b) = Len(a) + Len(b)
BY ConcatProperties

\* What has no mark in it may be put in front.
LEMMA InFront ==
  ASSUME NEW a \in Seq(Words), NEW s \in Seq(Words), NEW marks, Unmarked(a, marks)
  PROVE  Before(a \o s, marks) = a \o Before(s, marks) /\ From(a \o s, marks) = From(s, marks)
<1> DEFINE b == Before(s, marks)
           f == From(s, marks)
<1>1. b \in Seq(Words) /\ f \in Seq(Words) /\ s = b \o f /\ Unmarked(b, marks)
      /\ (f = << >> \/ f[1] \in marks)
  BY Split
<1> HIDE DEF b, f
<1>2. a \o b \in Seq(Words) /\ Len(a \o b) = Len(a) + Len(b)
      /\ \A k \in 1..Len(a) + Len(b) : (a \o b)[k] = IF k <= Len(a) THEN a[k] ELSE b[k - Len(a)]
  BY <1>1, ConcatProperties
<1>3. Unmarked(a \o b, marks)
  <2>1. ASSUME NEW k \in 1..Len(a \o b) PROVE (a \o b)[k] \notin marks
    BY <1>1, <1>2 DEF Unmarked
  <2>2. QED
    BY <2>1 DEF Unmarked
<1>4. a \o s = (a \o b) \o f
  <2>1. \A y, z \in Seq(Words) : (a \o y) \o z = a \o (y \o z)
    BY Assoc, Zenon
  <2>2. QED
    BY <1>1, <2>1, Zenon
<1>5. QED
  <2>1. Before((a \o b) \o f, marks) = a \o b /\ From((a \o b) \o f, marks) = f
    BY <1>1, <1>2, <1>3, SplitUnique
  <2>2. QED
    BY <1>4, <2>1 DEF b, f

LEMMA PartOf ==
  ASSUME NEW s \in Seq(Words), NEW i \in 1..Len(s), NEW j \in 1..Len(s)
  PROVE  SubSeq(s, i, j) \in Seq(Words)
<1>1. \A k \in i..j : s[k] \in Words
  BY ElementOfSeq
<1>2. QED
  BY <1>1, SubSeqProperties

LEMMA TwoWords ==
  ASSUME NEW S, NEW x \in S, NEW y \in S
  PROVE  /\ <<x, y>> = <<x>> \o <<y>>
         /\ <<x, y, x>> = <<x>> \o <<y, x>>
<1>1. <<x>> \in Seq(S) /\ <<y>> \in Seq(S) /\ <<x, y>> \in Seq(S) /\ <<y, x>> \in Seq(S)
      /\ <<x, y, x>> \in Seq(S)
  OBVIOUS
<1>2. <<x, y>> = <<x>> \o <<y>>
  <2>1. Len(<<x, y>>) = 2 /\ Len(<<x>>) = 1 /\ Len(<<y>>) = 1
        /\ <<x, y>>[1] = x /\ <<x, y>>[2] = y /\ <<x>>[1] = x /\ <<y>>[1] = y
    OBVIOUS
  <2>2. \A k \in 1..Len(<<x>>) : <<x, y>>[k] = <<x>>[k]
    BY <2>1
  <2>3. \A k \in 1..Len(<<y>>) : <<x, y>>[Len(<<x>>) + k] = <<y>>[k]
    BY <2>1
  <2>4. QED
    BY <1>1, <2>1, <2>2, <2>3, ConcatIs
<1>3. <<x, y, x>> = <<x>> \o <<y, x>>
  <2>1. Len(<<x, y, x>>) = 3 /\ Len(<<x>>) = 1 /\ Len(<<y, x>>) = 2 /\ <<x>>[1] = x
        /\ <<x, y, x>>[1] = x /\ <<x, y, x>>[2] = y /\ <<x, y, x>>[3] = x
        /\ <<y, x>>[1] = y /\ <<y, x>>[2] = x
    OBVIOUS
  <2>2. \A k \in 1..Len(<<x>>) : <<x, y, x>>[k] = <<x>>[k]
    BY <2>1
  <2>3. \A k \in 1..Len(<<y, x>>) : <<x, y, x>>[Len(<<x>>) + k] = <<y, x>>[k]
    BY <2>1
  <2>4. QED
    BY <1>1, <2>1, <2>2, <2>3, ConcatIs
<1>4. QED
  BY <1>2, <1>3

LEMMA Literals ==
  /\ <<"/">> \in Seq(Words) /\ <<"docker.io">> \in Seq(Words) /\ DockerHub \in Seq(Words)
  /\ <<"library", "/">> \in Seq(Words) /\ <<"docker.io", "/">> \in Seq(Words)
  /\ Len(<<"docker.io">>) = 1 /\ Len(<<"docker.io", "/">>) = 2
  /\ <<"docker.io">> \o <<"/">> = <<"docker.io", "/">>
  /\ Unmarked(DockerHub, {"/"}) /\ Unmarked(<<"docker.io">>, {"/"})
  /\ Unmarked(<<"library", "/">>, {":", "@"})
<1>1. "/" \in Words /\ "docker.io" \in Words /\ "registry-1.docker.io" \in Words /\ "library" \in Words
  BY WordAssumption
<1>2. <<"library", "/">> \in Seq(Words) /\ <<"docker.io", "/">> \in Seq(Words)
  BY <1>1
<1>3. Unmarked(<<"library", "/">>, {":", "@"})
  BY DEF Unmarked
<1>4. <<"docker.io">> \o <<"/">> = <<"docker.io", "/">>
  BY <1>1, TwoWords
<1>5. QED
  BY <1>1, <1>2, <1>3, <1>4, OneWord DEF Unmarked, DockerHub

Regrouped(h, x, l, s) ==
  /\ (h \o (x \o l)) \o (x \o s) = h \o (x \o ((l \o x) \o s))
  /\ (h \o (x \o (l \o x))) \o s = h \o (x \o ((l \o x) \o s))

LEMMA Regroup ==
  ASSUME NEW h \in Seq(Words), NEW x \in Seq(Words), NEW l \in Seq(Words), NEW s \in Seq(Words)
  PROVE  Regrouped(h, x, l, s)
<1>1. \A y, z \in Seq(Words) : (h \o y) \o z = h \o (y \o z)
  BY Assoc, Zenon
<1>2. \A y, z \in Seq(Words) : (x \o y) \o z = x \o (y \o z)
  BY Assoc, Zenon
<1>3. x \o l \in Seq(Words) /\ l \o x \in Seq(Words) /\ x \o s \in Seq(Words)
  BY ConcatWords
<1>4. x \o (l \o x) \in Seq(Words)
  BY <1>3, ConcatWords
<1>5. l \o (x \o s) = (l \o x) \o s
  <2>1. \A y, z \in Seq(Words) : (l \o y) \o z = l \o (y \o z)
    BY Assoc, Zenon
  <2>2. QED
    BY <2>1, Zenon
<1>7. (h \o (x \o l)) \o (x \o s) = h \o ((x \o l) \o (x \o s))
  BY <1>1, <1>3, Zenon
<1>8. (x \o l) \o (x \o s) = x \o (l \o (x \o s))
  BY <1>2, <1>3, Zenon
<1>9. (h \o (x \o (l \o x))) \o s = h \o ((x \o (l \o x)) \o s)
  BY <1>1, <1>4, Zenon
<1>10. (x \o (l \o x)) \o s = x \o ((l \o x) \o s)
  BY <1>2, <1>3, Zenon
<1>11. QED
  BY <1>5, <1>7, <1>8, <1>9, <1>10, Zenon DEF Regrouped

LEMMA Library ==
  ASSUME NEW s \in Seq(Words)
  PROVE  /\ (DockerHub \o <<"/", "library">>) \o (<<"/">> \o s)
            = DockerHub \o (<<"/">> \o (<<"library", "/">> \o s))
         /\ (DockerHub \o <<"/", "library", "/">>) \o s
            = DockerHub \o (<<"/">> \o (<<"library", "/">> \o s))
<1> DEFINE x == <<"/">>
           l == <<"library">>
<1>1. x \in Seq(Words) /\ l \in Seq(Words) /\ DockerHub \in Seq(Words)
  <2>1. "/" \in Words /\ "library" \in Words /\ "registry-1.docker.io" \in Words
    BY WordAssumption
  <2>2. QED
    BY <2>1, OneWord DEF DockerHub
<1>2. <<"/", "library">> = x \o l /\ <<"library", "/">> = l \o x
      /\ <<"/", "library", "/">> = x \o <<"library", "/">>
  <2>1. "/" \in Words /\ "library" \in Words
    BY WordAssumption
  <2>2. QED
    BY <2>1, TwoWords
<1> HIDE DEF x, l
<1>3. Regrouped(DockerHub, x, l, s)
  BY <1>1, Regroup
<1>4. (DockerHub \o <<"/", "library">>) \o (x \o s) = DockerHub \o (x \o (<<"library", "/">> \o s))
  BY <1>2, <1>3, Zenon DEF Regrouped
<1>5. (DockerHub \o <<"/", "library", "/">>) \o s = DockerHub \o (x \o (<<"library", "/">> \o s))
  BY <1>2, <1>3, Zenon DEF Regrouped
<1>6. QED
  BY <1>4, <1>5, Zenon DEF x

\* ---------------------------------------------------------------------------
\* The shorthand.

\* c is a reference in full: a registry, then p, which has the meaning's parts.
InFull(c, p, meant) ==
  /\ c = meant.host \o (<<"/">> \o p)
  /\ meant.host \in Seq(Words) /\ Unmarked(meant.host, {"/"})
  /\ Before(p, {":", "@"}) = meant.name /\ Tagged(From(p, {":", "@"})) = meant.tag

LEMMA LibraryParts ==
  \A q \in Seq(Words) :
    LET p == <<"library", "/">> \o q
    IN  /\ p \in Seq(Words) /\ From(p, {":", "@"}) = From(q, {":", "@"})
        /\ Before(p, {":", "@"}) = <<"library", "/">> \o Before(q, {":", "@"})
<1> DEFINE l == <<"library", "/">>
<1>1. l \in Seq(Words) /\ Unmarked(l, {":", "@"})
  BY Literals
<1> HIDE DEF l
<1>2. ASSUME NEW q \in Seq(Words)
      PROVE  /\ l \o q \in Seq(Words) /\ From(l \o q, {":", "@"}) = From(q, {":", "@"})
             /\ Before(l \o q, {":", "@"}) = l \o Before(q, {":", "@"})
  BY <1>1, InFront, ConcatProperties
<1>3. QED
  BY <1>2 DEF l

\* What Meant is made of: the registry in the reference, and what follows it.
HostIn(r) ==
  IF Contains(r, "/") /\ NamesHost(Before(r, {"/"})) THEN Before(r, {"/"}) ELSE <<"docker.io">>
RestOf(r) ==
  IF IsPrefix(HostIn(r) \o <<"/">>, r) THEN Drop(r, Len(HostIn(r)) + 1) ELSE r
MeantOf(host, rest) ==
  LET b == Before(rest, {":", "@"})
  IN  [host |-> IF host = <<"docker.io">> THEN DockerHub ELSE host,
       name |-> IF host = <<"docker.io">> /\ ~Contains(b, "/")
                THEN <<"library", "/">> \o b ELSE b,
       tag |-> Tagged(From(rest, {":", "@"}))]

LEMMA MeantParts == \A r : Meant(r) = MeantOf(HostIn(r), RestOf(r))
BY DEF Meant, MeantOf, HostIn, RestOf, Tagged

LEMMA HasParts ==
  ASSUME NEW c, NEW p, NEW meant, NEW h \in Seq(Words), NEW n, NEW t,
         meant = [host |-> h, name |-> n, tag |-> t], Unmarked(h, {"/"}),
         c = h \o (<<"/">> \o p), Before(p, {":", "@"}) = n, Tagged(From(p, {":", "@"})) = t
  PROVE  InFull(c, p, meant)
<1>1. meant.host = h /\ meant.name = n /\ meant.tag = t
  OBVIOUS
<1>2. QED
  BY <1>1 DEF InFull

LEMMA HubPrefix ==
  ASSUME NEW r \in Seq(Words), IsPrefix(<<"docker.io", "/">>, r)
  PROVE  \E p \in Seq(Words) : InFull(ExpandDockerHubShorthand(r), p, Meant(r))
<1> DEFINE io == <<"docker.io">>
           x == <<"/">>
           q == Drop(r, 2)
           b == Before(q, {":", "@"})
<1>1. x \in Seq(Words) /\ io \in Seq(Words) /\ io \o x \in Seq(Words) /\ Len(io) = 1 /\ Len(io \o x) = 2
      /\ Unmarked(io, {"/"}) /\ x # << >> /\ x[1] = "/" /\ Len(x) = 1
  BY Literals, OneWord, WordAssumption
<1>2. IsPrefix(io \o x, r)
  BY Literals
<1> HIDE DEF io, x
<1>3. q \in Seq(Words) /\ r = (io \o x) \o q
  BY <1>1, <1>2, PrefixDrop
<1> HIDE DEF q
<1>4. r = io \o (x \o q) /\ x \o q \in Seq(Words) /\ (x \o q)[1] = "/" /\ Len(x \o q) > 0
  BY <1>1, <1>3, Assoc, ConcatProperties
<1>5. Before(r, {"/"}) = io
  BY <1>1, <1>4, SplitUnique
<1>6. Drop(r, 1) = x \o q
  BY <1>1, <1>4, DropFront
<1>7. Meant(r) = [host |-> DockerHub,
                  name |-> IF ~Contains(b, "/") THEN <<"library", "/">> \o b ELSE b,
                  tag |-> Tagged(From(q, {":", "@"}))]
  <2>1. HostIn(r) = io
    BY <1>5 DEF HostIn, io
  <2>2. RestOf(r) = q
    BY <1>1, <1>2, <2>1 DEF RestOf, q, x
  <2>3. MeantOf(io, q) = [host |-> DockerHub,
                  name |-> IF ~Contains(b, "/") THEN <<"library", "/">> \o b ELSE b,
                  tag |-> Tagged(From(q, {":", "@"}))]
    BY DEF MeantOf, io
  <2>4. QED
    BY <2>1, <2>2, <2>3, MeantParts
<1>8. CASE Contains(b, "/")
  <2>1. ExpandDockerHubShorthand(r) = DockerHub \o (x \o q)
    BY <1>6, <1>8 DEF ExpandDockerHubShorthand, q
  <2>2. InFull(ExpandDockerHubShorthand(r), q, Meant(r))
    BY <1>7, <1>8, <2>1, Literals DEF InFull, x
  <2>3. QED
    BY <1>3, <2>2
<1>9. CASE ~Contains(b, "/")
  <2> DEFINE p == <<"library", "/">> \o q
  <2>1. ExpandDockerHubShorthand(r) = (DockerHub \o <<"/", "library">>) \o (x \o q)
    BY <1>6, <1>9 DEF ExpandDockerHubShorthand, q
  <2>2. ExpandDockerHubShorthand(r) = DockerHub \o (x \o p)
    BY <1>3, <2>1, Library DEF x
  <2>3. p \in Seq(Words) /\ Before(p, {":", "@"}) = <<"library", "/">> \o b
        /\ From(p, {":", "@"}) = From(q, {":", "@"})
    BY <1>3, LibraryParts
  <2> HIDE DEF p
  <2>4. InFull(ExpandDockerHubShorthand(r), p, Meant(r))
    <3>1. Meant(r) = [host |-> DockerHub, name |-> <<"library", "/">> \o b,
                      tag |-> Tagged(From(q, {":", "@"}))]
      BY <1>7, <1>9
    <3>2. ExpandDockerHubShorthand(r) = DockerHub \o (<<"/">> \o p)
      BY <2>2 DEF x
    <3>3. QED
      BY <2>3, <3>1, <3>2, Literals, HasParts
  <2>5. QED
    BY <2>3, <2>4
<1>10. QED
  BY <1>8, <1>9

LEMMA NoSlash ==
  ASSUME NEW r \in Seq(Words), ~Contains(r, "/")
  PROVE  \E p \in Seq(Words) : InFull(ExpandDockerHubShorthand(r), p, Meant(r))
<1> DEFINE b == Before(r, {":", "@"})
           f == From(r, {":", "@"})
           p == <<"library", "/">> \o r
<1>1. ASSUME NEW a \in Seq(Words), IsPrefix(a \o <<"/">>, r) PROVE FALSE
  <2>1. a \o <<"/">> \in Seq(Words) /\ Len(a \o <<"/">>) = Len(a) + 1 /\ Len(a) \in Nat
        /\ (a \o <<"/">>)[Len(a) + 1] = "/"
    BY Literals, OneWord, ConcatProperties
  <2> DEFINE z == a \o <<"/">>
             d == Drop(r, Len(z))
  <2>2. d \in Seq(Words) /\ r = z \o d
    BY <1>1, <2>1, PrefixDrop
  <2> HIDE DEF z, d
  <2>3. Len(z) = Len(a) + 1 /\ z[Len(a) + 1] = "/" /\ z \in Seq(Words)
    BY <2>1 DEF z
  <2>4. Len(a) + 1 \in 1..Len(r) /\ r[Len(a) + 1] = "/"
    BY <2>1, <2>2, <2>3
  <2>5. QED
    BY <2>4 DEF Contains
<1>2. HostIn(r) = <<"docker.io">>
  BY DEF HostIn
<1>3. RestOf(r) = r
  BY <1>1, <1>2, Literals DEF RestOf
<1>4. ~Contains(b, "/")
  <2>1. b \in Seq(Words) /\ f \in Seq(Words) /\ r = b \o f
    BY Split
  <2> HIDE DEF b, f
  <2>2. \A k \in 1..Len(b) : k \in 1..Len(r) /\ b[k] = r[k]
    BY <2>1
  <2>3. QED
    BY <2>2 DEF Contains
<1>5. MeantOf(<<"docker.io">>, r) =
        [host |-> DockerHub, name |-> <<"library", "/">> \o b, tag |-> Tagged(f)]
  BY <1>4 DEF MeantOf
<1>6. ExpandDockerHubShorthand(r) = (DockerHub \o <<"/", "library", "/">>) \o r
  <2>1. ~IsPrefix(<<"docker.io">> \o <<"/">>, r)
    BY <1>1, Literals
  <2>2. ~IsPrefix(<<"docker.io", "/">>, r)
    BY <2>1, Literals
  <2>3. QED
    BY <2>2 DEF ExpandDockerHubShorthand
<1>7. ExpandDockerHubShorthand(r) = DockerHub \o (<<"/">> \o p)
  BY <1>6, Library
<1>8. p \in Seq(Words) /\ Before(p, {":", "@"}) = <<"library", "/">> \o b /\ From(p, {":", "@"}) = f
  BY LibraryParts
<1> HIDE DEF p, b, f
<1>9. InFull(ExpandDockerHubShorthand(r), p, Meant(r))
  <2>1. Meant(r) = [host |-> DockerHub, name |-> <<"library", "/">> \o b, tag |-> Tagged(f)]
    BY <1>2, <1>3, <1>5, MeantParts
  <2>2. QED
    BY <1>7, <1>8, <2>1, Literals, HasParts
<1>10. QED
  BY <1>8, <1>9

LEMMA OwnHost ==
  ASSUME NEW r \in Seq(Words), Contains(r, "/"), NamesHost(Before(r, {"/"})),
         ~IsPrefix(<<"docker.io", "/">>, r)
  PROVE  \E p \in Seq(Words) : InFull(ExpandDockerHubShorthand(r), p, Meant(r))
<1> DEFINE h == Before(r, {"/"})
           q == Drop(From(r, {"/"}), 1)
           b == Before(q, {":", "@"})
           f == From(q, {":", "@"})
           x == <<"/">>
<1>1. h \in Seq(Words) /\ Unmarked(h, {"/"}) /\ q \in Seq(Words) /\ r = h \o (x \o q)
  BY Cut, WordAssumption
<1>2. HostIn(r) = h
  BY DEF HostIn
<1>3. ExpandDockerHubShorthand(r) = r
  BY DEF ExpandDockerHubShorthand
<1>4. x \in Seq(Words) /\ Len(x) = 1
  BY OneWord, WordAssumption
<1> HIDE DEF h, q, x
<1>5. r = (h \o x) \o q /\ h \o x \in Seq(Words) /\ Len(h \o x) = Len(h) + 1
  <2>1. (h \o x) \o q = h \o (x \o q)
    BY <1>1, <1>4, Assoc
  <2>2. h \o x \in Seq(Words) /\ Len(h \o x) = Len(h) + 1
    <3>1. h \o x \in Seq(Words) /\ Len(h \o x) = Len(h) + Len(x)
      BY <1>1, <1>4, ConcatWords, Zenon
    <3>2. QED
      BY <1>4, <3>1
  <2>3. QED
    BY <1>1, <2>1, <2>2
<1>6. IsPrefix(h \o x, r) /\ Drop(r, Len(h) + 1) = q
  BY <1>1, <1>5, DropFront
<1>7. h # <<"docker.io">>
  BY <1>6, Literals DEF x
<1>8. RestOf(r) = q
  BY <1>2, <1>6 DEF RestOf, x
<1>9. MeantOf(h, q) = [host |-> h, name |-> b, tag |-> Tagged(f)]
  BY <1>7 DEF MeantOf
<1> HIDE DEF b, f
<1>10. InFull(ExpandDockerHubShorthand(r), q, Meant(r))
  <2>1. r = h \o (<<"/">> \o q)
    BY <1>1 DEF x
  <2>2. QED
    <3>1. Meant(r) = [host |-> h, name |-> b, tag |-> Tagged(f)]
      BY <1>2, <1>8, <1>9, MeantParts
    <3>2. ExpandDockerHubShorthand(r) = h \o (<<"/">> \o q)
      BY <1>3, <2>1
    <3>3. Before(q, {":", "@"}) = b /\ Tagged(From(q, {":", "@"})) = Tagged(f)
      BY DEF b, f
    <3>4. QED
      BY <1>1, <3>1, <3>2, <3>3, HasParts
<1>11. QED
  BY <1>1, <1>10

\* No mark that ends a name comes before the first slash.
LEMMA SlashFirst ==
  ASSUME NEW r \in Refs, Contains(r, "/"), ~NamesHost(Before(r, {"/"}))
  PROVE  Contains(Before(r, {":", "@"}), "/")
<1> DEFINE h == Before(r, {"/"})
           g == From(r, {"/"})
           b == Before(r, {":", "@"})
           f == From(r, {":", "@"})
           a == Before(r, {"@"})
           d == From(r, {"@"})
<1>1. r \in Seq(Words)
  BY RefAssumption
<1>2. h \in Seq(Words) /\ g \in Seq(Words) /\ r = h \o g /\ g # << >> /\ g[1] = "/"
  <2>1. h \in Seq(Words) /\ g \in Seq(Words) /\ r = h \o g /\ Unmarked(h, {"/"})
        /\ (g = << >> \/ g[1] \in {"/"})
    BY <1>1, Split
  <2> HIDE DEF h, g
  <2>2. g = << >> => r = h
    BY <2>1
  <2>3. g # << >>
    BY <2>1, <2>2 DEF Contains, Unmarked
  <2>4. QED
    BY <2>1, <2>3
<1>3. b \in Seq(Words) /\ f \in Seq(Words) /\ r = b \o f /\ (f = << >> \/ f[1] \in {":", "@"})
  BY <1>1, Split
<1>4. a \in Seq(Words) /\ d \in Seq(Words) /\ r = a \o d /\ Unmarked(a, {"@"})
  BY <1>1, Split
<1>5. ~Contains(d, "/")
  BY DigestAssumption
<1>6. \A k \in 1..Len(h) : h[k] # ":"
  BY DEF NamesHost
<1> HIDE DEF h, g, b, f, a, d
<1>7. Len(h) + 1 \in 1..Len(r) /\ r[Len(h) + 1] = "/" /\ Len(h) \in Nat /\ Len(g) > 0
      /\ \A k \in 1..Len(h) : r[k] = h[k]
  BY <1>2
<1>8. Len(b) \in Nat /\ Len(r) = Len(b) + Len(f) /\ \A k \in 1..Len(b) : b[k] = r[k]
  BY <1>3
<1>9. CASE Len(h) < Len(b)
  <2>1. Len(h) + 1 \in 1..Len(b) /\ b[Len(h) + 1] = "/"
    BY <1>7, <1>8, <1>9
  <2>2. QED
    BY <2>1 DEF Contains, b
<1>10. CASE ~(Len(h) < Len(b))
  <2>1. f # << >> /\ Len(f) > 0
    BY <1>3, <1>7, <1>8, <1>10
  <2>2. r[Len(b) + 1] \in {":", "@"} /\ Len(b) + 1 \in 1..Len(r)
    BY <1>3, <2>1
  <2>3. Len(b) + 1 \in 1..Len(h)
    <3>1. Len(b) # Len(h)
      BY <1>7, <2>2
    <3>2. QED
      BY <1>7, <1>8, <1>10, <3>1
  <2>4. r[Len(b) + 1] = "@"
    BY <1>6, <1>7, <2>2, <2>3
  <2>5. Len(a) \in Nat /\ Len(a) <= Len(b)
    BY <1>4, <1>8, <2>2, <2>4 DEF Unmarked
  <2>6. Len(h) + 1 - Len(a) \in 1..Len(d) /\ d[Len(h) + 1 - Len(a)] = "/"
    BY <1>4, <1>7, <2>3, <2>5, <1>8
  <2>7. QED
    BY <1>5, <2>6 DEF Contains
<1>11. QED
  BY <1>7, <1>8, <1>9, <1>10

LEMMA HubName ==
  ASSUME NEW r \in Refs, Contains(r, "/"), ~NamesHost(Before(r, {"/"})),
         ~IsPrefix(<<"docker.io", "/">>, r)
  PROVE  \E p \in Seq(Words) : InFull(ExpandDockerHubShorthand(r), p, Meant(r))
<1> DEFINE b == Before(r, {":", "@"})
           f == From(r, {":", "@"})
<1>1. HostIn(r) = <<"docker.io">>
  BY DEF HostIn
<1>2. <<"docker.io">> \o <<"/">> = <<"docker.io", "/">>
  BY Literals
<1>3. RestOf(r) = r
  BY <1>1, <1>2 DEF RestOf
<1>4. MeantOf(<<"docker.io">>, r) = [host |-> DockerHub, name |-> b, tag |-> Tagged(f)]
  BY SlashFirst DEF MeantOf
<1>5. ExpandDockerHubShorthand(r) = DockerHub \o (<<"/">> \o r)
  <2>1. ExpandDockerHubShorthand(r) = (DockerHub \o <<"/">>) \o r
    BY DEF ExpandDockerHubShorthand
  <2>2. QED
    BY <2>1, Literals, RefAssumption, Assoc
<1>6. InFull(ExpandDockerHubShorthand(r), r, Meant(r))
  <2>1. Meant(r) = [host |-> DockerHub, name |-> b, tag |-> Tagged(f)]
    BY <1>1, <1>3, <1>4, MeantParts
  <2>2. QED
    BY <1>5, <2>1, Literals, HasParts
<1>7. QED
  BY <1>6, RefAssumption

\* The shorthand is expanded to the registry, the name and the tag that are meant.
LEMMA Expanded ==
  ASSUME NEW r \in Refs
  PROVE  \E p \in Seq(Words) : InFull(ExpandDockerHubShorthand(r), p, Meant(r))
BY RefAssumption, HubPrefix, NoSlash, OwnHost, HubName

\* ---------------------------------------------------------------------------
\* The mirror.

LEMMA MirrorWords ==
  ASSUME NEW m \in Mirrors
  PROVE  MirrorHost(m) \in Seq(Words) /\ Unmarked(MirrorHost(m), {"/"})
<1> DEFINE host == IF Contains(m, "://") THEN Drop(From(m, {"://"}), 1) ELSE m
           kept == {k \in 1..Len(host) : host[k] # "/"}
<1>1. m \in Seq(Words)
  BY RefAssumption
<1>2. host \in Seq(Words)
  <2>1. From(m, {"://"}) \in Seq(Words)
    BY <1>1, Split
  <2>2. Drop(From(m, {"://"}), 1) \in Seq(Words)
    BY <2>1 DEF Drop
  <2>3. QED
    BY <1>1, <2>2
<1>3. MirrorHost(m) = IF kept = {} THEN << >> ELSE SubSeq(host, Min(kept), Max(kept))
  BY DEF MirrorHost
<1> HIDE DEF host
<1>4. MirrorHost(m) \in Seq(Words)
  <2>1. CASE kept = {}
    BY <1>3, <2>1
  <2>2. CASE kept # {}
    <3>1. Len(host) \in Nat /\ kept \subseteq Nat /\ kept \subseteq 1..Len(host)
      BY <1>2
    <3>2. Min(kept) \in kept /\ Max(kept) \in kept
      BY <2>2, <3>1, LeastIn, GreatestIn
    <3>3. Min(kept) \in 1..Len(host) /\ Max(kept) \in 1..Len(host)
      BY <3>1, <3>2
    <3>4. SubSeq(host, Min(kept), Max(kept)) \in Seq(Words)
      BY <1>2, <3>3, PartOf
    <3>5. QED
      BY <1>3, <2>2, <3>4
  <2>3. QED
    BY <2>1, <2>2
<1>5. QED
  BY <1>4, MirrorAssumption DEF Contains, Unmarked

\* What is asked for is what the reference means, at the mirror if there is one.
Asked(r, m) ==
  IF MirrorHost(m) = << >> THEN Meaning[r] ELSE [Meaning[r] EXCEPT !.host = MirrorHost(m)]

LEMMA Rewritten ==
  ASSUME NEW r \in Refs, NEW m \in Mirrors
  PROVE  Request[r][m] = Asked(r, m)
<1> DEFINE c == ExpandDockerHubShorthand(r)
           h == Meant(r).host
           w == MirrorHost(m)
           x == <<"/">>
<1>1. PICK p \in Seq(Words) : InFull(c, p, Meant(r))
  BY Expanded
<1>2. /\ c = h \o (x \o p) /\ h \in Seq(Words) /\ Unmarked(h, {"/"})
      /\ Before(p, {":", "@"}) = Meant(r).name /\ Tagged(From(p, {":", "@"})) = Meant(r).tag
  BY <1>1 DEF InFull
<1>3. w \in Seq(Words) /\ Unmarked(w, {"/"})
  BY MirrorWords
<1>4. Meant(r) = [host |-> h, name |-> Meant(r).name, tag |-> Meant(r).tag]
  BY DEF Meant
<1>5. Request[r][m] = Parsed(RewriteForMirror(m, c))
  BY DEF Request, Canonical
<1>6. Parsed(h \o (x \o p)) = [host |-> h, name |-> Meant(r).name, tag |-> Meant(r).tag]
  BY <1>2, ParsedParts
<1>7. Parsed(w \o (x \o p)) = [host |-> w, name |-> Meant(r).name, tag |-> Meant(r).tag]
  BY <1>2, <1>3, ParsedParts
<1>8. x \o p \in Seq(Words) /\ (x \o p)[1] = "/" /\ Len(x \o p) > 0
  BY OneWord, WordAssumption, ConcatProperties
<1> HIDE DEF c, h, w, x
<1>9. Before(c, {"/"}) = h /\ From(c, {"/"}) = x \o p
  BY <1>2, <1>8, SplitUnique
<1>10. Contains(c, "/")
  <2>1. Len(h) + 1 \in 1..Len(c) /\ c[Len(h) + 1] = "/"
    BY <1>2, <1>8
  <2>2. QED
    BY <2>1 DEF Contains
<1>11. RewriteForMirror(m, c) = IF w = << >> \/ h = w THEN c ELSE w \o (x \o p)
  BY <1>9, <1>10 DEF RewriteForMirror, w
<1>12. Asked(r, m) = [host |-> IF w = << >> THEN h ELSE w, name |-> Meant(r).name, tag |-> Meant(r).tag]
  BY <1>4 DEF Asked, Meaning, w
<1>13. QED
  BY <1>2, <1>5, <1>6, <1>7, <1>11, <1>12

\* ---------------------------------------------------------------------------
\* The calls.

LEMMA ImageFacts ==
  /\ \A i \in Images : i = [host |-> i.host, name |-> i.name, tag |-> i.tag]
  /\ \A r \in Refs : Meaning[r] \in Images /\ Label(Meaning[r]) \in Labels /\ Key[r] \in Keys
  /\ \A r \in Refs, m \in Mirrors : Label(Asked(r, m)) = Label(Meaning[r])
  /\ None \notin Images
<1>1. \A r \in Refs : Meaning[r] = [host |-> Meaning[r].host, name |-> Meaning[r].name, tag |-> Meaning[r].tag]
  BY DEF Meaning, Meant
<1>2. \A i \in Images : i = [host |-> i.host, name |-> i.name, tag |-> i.tag]
  BY <1>1 DEF Images
<1>3. \A r \in Refs : Meaning[r] \in Images /\ Label(Meaning[r]) \in Labels /\ Key[r] \in Keys
  BY DEF Images, Labels, Keys, Label
<1>4. ASSUME NEW r \in Refs, NEW m \in Mirrors PROVE Label(Asked(r, m)) = Label(Meaning[r])
  <2> DEFINE i == Meaning[r]
             j == [i EXCEPT !.host = MirrorHost(m)]
  <2>1. i = [host |-> i.host, name |-> i.name, tag |-> i.tag]
    BY <1>1
  <2> HIDE DEF i
  <2>2. j.name = i.name /\ j.tag = i.tag
    BY <2>1
  <2>3. QED
    BY <2>2 DEF Asked, Label, i
<1>5. QED
  BY <1>2, <1>3, <1>4, NoneAssumption

LEMMA SourceIsImage ==
  ASSUME TypeOK, NEW image, NEW from \in Source(image)
  PROVE  from \in Images
<1>1. CASE image.host \notin SyncHosts
  BY <1>1 DEF Source
<1>2. CASE image.host \in SyncHosts
  BY <1>2 DEF Source, TypeOK
<1>3. QED
  BY <1>1, <1>2

\* What Fetch does, told apart from what it asks for.
Fetched(r, m, from, d, good) ==
  /\ entries[Key[r]] = None /\ from \in Source(Asked(r, m)) /\ d \in Descriptors
  /\ good = (ResolvePlatform(d) # None /\ ResolvePlatform(d).kind = "manifest")
  /\ synced' = [s \in SyncHosts |-> IF s = Asked(r, m).host
                  THEN [synced[s] EXCEPT ![Label(Asked(r, m))] = from] ELSE synced[s]]
  /\ Made(r, m, d, IF good THEN from ELSE None)
  /\ entries' = IF good THEN [entries EXCEPT ![Key[r]] = from] ELSE entries

LEMMA FetchSteps ==
  ASSUME NEW r \in Refs, NEW m \in Mirrors, Fetch(r, m)
  PROVE  \E from, d : \E good \in BOOLEAN : Fetched(r, m, from, d, good)
<1>1. Request[r][m] = Asked(r, m)
  BY Rewritten
<1>2. PICK from \in Source(Asked(r, m)), d \in Descriptors :
        /\ synced' = [s \in SyncHosts |-> IF s = Asked(r, m).host
                        THEN [synced[s] EXCEPT ![Label(Asked(r, m))] = from] ELSE synced[s]]
        /\ LET good == ResolvePlatform(d) # None /\ ResolvePlatform(d).kind = "manifest"
           IN  /\ Made(r, m, d, IF good THEN from ELSE None)
               /\ entries' = IF good THEN [entries EXCEPT ![Key[r]] = from] ELSE entries
  BY <1>1 DEF Fetch
<1> DEFINE good == ResolvePlatform(d) # None /\ ResolvePlatform(d).kind = "manifest"
<1>3. good \in BOOLEAN
  OBVIOUS
<1>4. entries[Key[r]] = None
  BY DEF Fetch
<1>5. Fetched(r, m, from, d, good)
  BY <1>2, <1>4 DEF Fetched
<1>6. QED
  BY <1>3, <1>5

\* The images that a reference may lead to.
MayBe(r, image) ==
  \/ image = Meaning[r]
  \/ Twin(r) /\ Label(image) = Label(Meaning[r])

\* What an entry holds was fetched for a reference of that entry, and what a
\* mirror holds under a name and a tag has them.
Lineage ==
  /\ \A k \in Keys : entries[k] # None => \E r \in Refs : Key[r] = k /\ MayBe(r, entries[k])
  /\ \A s \in SyncHosts : \A l \in Labels : synced[s][l] # None => Label(synced[s][l]) = l

RInv == TypeOK /\ Lineage /\ OwnImage /\ OwnPlatform

LEMMA SourceMayBe ==
  ASSUME TypeOK, Lineage, NEW r \in Refs, NEW m \in Mirrors, NEW from \in Source(Asked(r, m))
  PROVE  MayBe(r, from)
<1> DEFINE image == Asked(r, m)
           own == Meaning[r]
<1>1. from \in Images /\ own \in Images /\ Label(image) = Label(own) /\ Label(own) \in Labels
  BY SourceIsImage, ImageFacts
<1>2. \A i, j \in Images : Label(i) = Label(j) /\ i.host = j.host => i = j
  <2>1. ASSUME NEW i \in Images, NEW j \in Images, Label(i) = Label(j), i.host = j.host
        PROVE  i = j
    <3>1. i = [host |-> i.host, name |-> i.name, tag |-> i.tag]
          /\ j = [host |-> j.host, name |-> j.name, tag |-> j.tag]
      BY ImageFacts
    <3>2. i.name = j.name /\ i.tag = j.tag
      BY <2>1 DEF Label
    <3>3. QED
      BY <2>1, <3>1, <3>2
  <2>2. QED
    BY <2>1
<1>3. MirrorHost(m) = << >> => image = own
  BY DEF Asked
<1>4. CASE image.host \notin SyncHosts
  <2>1. from = image
    BY <1>4 DEF Source
  <2>2. CASE MirrorHost(m) = << >>
    BY <1>3, <2>1, <2>2 DEF MayBe
  <2>3. CASE MirrorHost(m) # << >> /\ from # own
    <3>1. from.host # own.host /\ Label(from) = Label(own)
      BY <1>1, <1>2, <2>1, <2>3
    <3>2. Twin(r)
      BY <1>1, <2>3, <3>1 DEF Twin
    <3>3. QED
      BY <3>1, <3>2 DEF MayBe
  <2>4. QED
    BY <2>2, <2>3 DEF MayBe
<1>5. CASE image.host \in SyncHosts
  <2>1. Label(from) = Label(image)
    <3>1. CASE synced[image.host][Label(image)] # None
      <4>1. from = synced[image.host][Label(image)]
        BY <1>1, <1>5, <3>1 DEF Source
      <4>2. QED
        BY <1>1, <1>5, <3>1, <4>1 DEF Lineage
    <3>2. CASE synced[image.host][Label(image)] = None
      BY <1>1, <1>5, <3>2 DEF Source
    <3>3. QED
      BY <3>1, <3>2
  <2>2. CASE from # own
    <3>1. from.host # own.host /\ Label(from) = Label(own)
      BY <1>1, <1>2, <2>1, <2>2
    <3>2. MirrorHost(m) # << >> \/ own.host \in SyncHosts
      BY <1>3, <1>5
    <3>3. Twin(r)
      BY <1>1, <3>1, <3>2 DEF Twin
    <3>4. QED
      BY <3>1, <3>3 DEF MayBe
  <2>3. QED
    BY <2>2 DEF MayBe
<1>6. QED
  BY <1>4, <1>5

LEMMA RInit == Init => RInv
<1> SUFFICES ASSUME Init PROVE RInv
  OBVIOUS
<1>1. TypeOK
  BY ImageFacts, BoundAssumption DEF Init, TypeOK
<1>2. Lineage
  BY DEF Init, Lineage
<1>3. OwnImage /\ OwnPlatform
  BY DEF Init, OwnImage, OwnPlatform
<1>4. QED
  BY <1>1, <1>2, <1>3 DEF RInv

\* What an index gives, whatever it lists.
Platform(d, got) ==
  d.kind = "index" =>
    LET mine(k) == d.of[k].arch = Arch /\ (d.of[k].os = "linux" \/ d.of[k].os = "")
        listed == {d.of[k].kind : k \in {j \in 1..Len(d.of) : mine(j)}}
    IN  /\ listed = {"manifest"} => got # None
        /\ "manifest" \notin listed => got = None

LEMMA IndexGives ==
  ASSUME NEW d \in Descriptors, NEW from, from # None, NEW good \in BOOLEAN,
         good = (ResolvePlatform(d) # None /\ ResolvePlatform(d).kind = "manifest")
  PROVE  Platform(d, IF good THEN from ELSE None)
<1> SUFFICES ASSUME d.kind = "index"
             PROVE  Platform(d, IF good THEN from ELSE None)
  BY DEF Platform
<1> DEFINE fits == {k \in 1..Len(d.of) : d.of[k].arch = Arch /\ d.of[k].os \in {"", "linux"}}
           mine(k) == d.of[k].arch = Arch /\ (d.of[k].os = "linux" \/ d.of[k].os = "")
           listed == {d.of[k].kind : k \in {j \in 1..Len(d.of) : mine(j)}}
<1>1. Len(d.of) \in Nat /\ \A k \in 1..Len(d.of) : d.of[k] # None
  <2>1. d.of \in Seq([kind : {"manifest", "index"}, arch : STRING, os : STRING])
    BY DescriptorAssumption
  <2>2. QED
    BY <2>1, NoneAssumption
<1>2. listed = {d.of[k].kind : k \in fits}
  OBVIOUS
<1>3. ResolvePlatform(d) = IF fits = {} THEN None ELSE d.of[Min(fits)]
  BY DEF ResolvePlatform
<1>4. CASE fits = {}
  <2>1. ~good /\ listed = {}
    BY <1>2, <1>3, <1>4
  <2>2. QED
    BY <2>1 DEF Platform
<1>5. CASE fits # {}
  <2>1. Min(fits) \in fits
    <3>1. fits \subseteq Nat
      <4>1. 1..Len(d.of) \subseteq Nat
        BY <1>1
      <4>2. \A k \in fits : k \in 1..Len(d.of)
        BY Zenon
      <4> HIDE DEF fits
      <4>3. QED
        BY <4>1, <4>2
    <3> HIDE DEF fits
    <3>2. QED
      BY <1>5, <3>1, LeastIn
  <2> DEFINE x == d.of[Min(fits)]
  <2>2. x # None /\ x.kind \in listed /\ ResolvePlatform(d) = x
    BY <1>1, <1>2, <1>3, <1>5, <2>1
  <2>3. good <=> x.kind = "manifest"
    BY <2>2
  <2>4. (listed = {"manifest"} => good) /\ ("manifest" \notin listed => ~good)
    BY <2>2, <2>3
  <2>5. QED
    BY <2>4 DEF Platform
<1>6. QED
  BY <1>4, <1>5

LEMMA CachedStep ==
  ASSUME RInv, NEW r \in Refs, NEW m \in Mirrors, Cached(r, m)
  PROVE  RInv'
<1> DEFINE got == entries[Key[r]]
           new == [ref |-> r, mirror |-> m, at |-> None, got |-> got]
<1>1. got # None /\ got \in Images /\ call' = new /\ count' \in 0..MaxCalls
      /\ entries' = entries /\ synced' = synced
  BY ImageFacts, BoundAssumption DEF RInv, Cached, Made, TypeOK
<1>2. TypeOK'
  <2>1. new \in Call
    BY <1>1 DEF Call
  <2>2. QED
    BY <1>1, <2>1 DEF RInv, TypeOK
<1>3. Lineage'
  BY <1>1 DEF RInv, Lineage
<1>4. OwnImage'
  <2>1. PICK s \in Refs : Key[s] = Key[r] /\ MayBe(s, got)
    BY <1>1, ImageFacts DEF RInv, Lineage
  <2>2. CASE Meaning[s] # Meaning[r]
    <3>1. Shared(r)
      BY <2>1, <2>2 DEF Shared
    <3>2. QED
      BY <1>1, <3>1 DEF OwnImage
  <2>3. CASE Meaning[s] = Meaning[r]
    <3>1. Twin(s) => Twin(r)
      BY <2>3 DEF Twin
    <3>2. MayBe(r, got)
      BY <2>1, <2>3, <3>1 DEF MayBe
    <3>3. QED
      BY <1>1, <3>2 DEF OwnImage, MayBe
  <2>4. QED
    BY <2>2, <2>3
<1>5. OwnPlatform'
  BY <1>1 DEF OwnPlatform
<1>6. QED
  BY <1>2, <1>3, <1>4, <1>5 DEF RInv

LEMMA FetchStep ==
  ASSUME RInv, NEW r \in Refs, NEW m \in Mirrors, NEW from, NEW d, NEW good \in BOOLEAN,
         Fetched(r, m, from, d, good)
  PROVE  RInv'
<1> DEFINE image == Asked(r, m)
           got == IF good THEN from ELSE None
           new == [ref |-> r, mirror |-> m, at |-> d, got |-> got]
<1>1. from \in Images /\ from # None /\ d \in Descriptors /\ d # None /\ Key[r] \in Keys
      /\ Label(image) \in Labels /\ TypeOK /\ Lineage
  BY SourceIsImage, ImageFacts, NoneAssumption DEF Fetched, RInv
<1>2. MayBe(r, from)
  BY <1>1, SourceMayBe DEF Fetched
<1>3. call' = new /\ count' \in 0..MaxCalls
  BY <1>1, BoundAssumption DEF Fetched, Made, TypeOK
<1>4. entries' = IF good THEN [entries EXCEPT ![Key[r]] = from] ELSE entries
  BY DEF Fetched
<1>5. synced' = [s \in SyncHosts |-> IF s = image.host
                   THEN [synced[s] EXCEPT ![Label(image)] = from] ELSE synced[s]]
  BY DEF Fetched
<1> HIDE DEF image
<1>6. TypeOK'
  <2>1. new \in Call
    BY <1>1 DEF Call
  <2>2. entries' \in [Keys -> Images \cup {None}]
    BY <1>1, <1>4 DEF TypeOK
  <2>3. synced' \in [SyncHosts -> [Labels -> Images \cup {None}]]
    BY <1>1, <1>5 DEF TypeOK
  <2>4. QED
    BY <1>3, <2>1, <2>2, <2>3 DEF TypeOK
<1>7. Lineage'
  <2>1. ASSUME NEW k \in Keys, entries'[k] # None
        PROVE  \E s \in Refs : Key[s] = k /\ MayBe(s, entries'[k])
    <3>1. CASE good /\ k = Key[r]
      BY <1>1, <1>2, <1>4, <3>1 DEF TypeOK
    <3>2. CASE ~(good /\ k = Key[r])
      <4>1. entries'[k] = entries[k]
        BY <1>1, <1>4, <3>2 DEF TypeOK
      <4>2. QED
        BY <1>1, <2>1, <4>1 DEF Lineage
    <3>3. QED
      BY <3>1, <3>2
  <2>2. Label(from) = Label(image)
    BY <1>2, ImageFacts DEF MayBe, image
  <2>3. ASSUME NEW s \in SyncHosts, NEW l \in Labels, synced'[s][l] # None
        PROVE  Label(synced'[s][l]) = l
    <3>1. CASE s = image.host /\ l = Label(image)
      BY <1>1, <1>5, <2>2, <3>1 DEF TypeOK
    <3>2. CASE ~(s = image.host /\ l = Label(image))
      <4>1. synced'[s][l] = synced[s][l]
        BY <1>1, <1>5, <3>2 DEF TypeOK
      <4>2. QED
        BY <1>1, <2>3, <4>1 DEF Lineage
    <3>3. QED
      BY <3>1, <3>2
  <2>4. QED
    BY <2>1, <2>3 DEF Lineage, MayBe, Twin
<1>8. OwnImage'
  BY <1>2, <1>3 DEF OwnImage, MayBe
<1>9. OwnPlatform'
  <2>1. Platform(d, got)
    BY <1>1, IndexGives DEF Fetched
  <2>2. call'.at = d /\ call'.got = got
    BY <1>3
  <2> HIDE DEF got, new
  <2>3. QED
    BY <2>1, <2>2 DEF OwnPlatform, Platform
<1>10. QED
  BY <1>6, <1>7, <1>8, <1>9 DEF RInv

LEMMA RefusedStep ==
  ASSUME RInv, NEW r \in Refs, NEW m \in Mirrors, Refused(r, m)
  PROVE  RInv'
<1> DEFINE new == [ref |-> r, mirror |-> m, at |-> None, got |-> None]
<1>1. call' = new /\ new \in Call /\ count' \in 0..MaxCalls /\ entries' = entries /\ synced' = synced
  BY BoundAssumption DEF RInv, Refused, Made, TypeOK, Call
<1>2. TypeOK' /\ Lineage'
  BY <1>1 DEF RInv, TypeOK, Lineage
<1>3. OwnImage' /\ OwnPlatform'
  BY <1>1 DEF OwnImage, OwnPlatform
<1>4. QED
  BY <1>2, <1>3 DEF RInv

LEMMA ForgetStep ==
  ASSUME RInv, NEW k \in Keys, Forget(k)
  PROVE  RInv'
<1>1. TypeOK' /\ OwnImage' /\ OwnPlatform'
  BY DEF RInv, Forget, TypeOK, OwnImage, OwnPlatform
<1>2. \A j \in Keys : entries'[j] # None => entries'[j] = entries[j]
  BY DEF RInv, Forget, TypeOK
<1>3. Lineage'
  BY <1>2 DEF RInv, Forget, Lineage
<1>4. QED
  BY <1>1, <1>3 DEF RInv

LEMMA RStep == RInv /\ [Next]_vars => RInv'
<1> SUFFICES ASSUME RInv, [Next]_vars PROVE RInv'
  OBVIOUS
<1>1. CASE \E r \in Refs, m \in Mirrors : Cached(r, m) \/ Fetch(r, m) \/ Refused(r, m)
  <2>1. PICK r \in Refs, m \in Mirrors : Cached(r, m) \/ Fetch(r, m) \/ Refused(r, m)
    BY <1>1
  <2>2. QED
    BY <2>1, CachedStep, FetchSteps, FetchStep, RefusedStep
<1>2. CASE \E k \in Keys : Forget(k)
  BY <1>2, ForgetStep
<1>3. CASE UNCHANGED vars
  <2>1. TypeOK' /\ OwnImage' /\ OwnPlatform'
    BY <1>3 DEF vars, RInv, TypeOK, OwnImage, OwnPlatform
  <2>2. Lineage'
    BY <1>3 DEF vars, RInv, Lineage
  <2>3. QED
    BY <2>1, <2>2 DEF RInv
<1>4. QED
  BY <1>1, <1>2, <1>3 DEF Next

\* The entries, the mirrors and the calls have the form that TypeOK gives them.
THEOREM TypeCorrect == Spec => []TypeOK
<1>1. RInv => TypeOK
  BY DEF RInv
<1>2. QED
  BY <1>1, RInit, RStep, PTL DEF Spec

\* A caller gets the image its reference means (pullImage), unless another
\* reference has its cache entry or a mirror may have a twin of the image.
THEOREM ImageIsOwn == Spec => []OwnImage
<1>1. RInv => OwnImage
  BY DEF RInv
<1>2. QED
  BY <1>1, RInit, RStep, PTL DEF Spec

\* resolvePlatform takes what an index lists for the host, and nothing else.
THEOREM PlatformIsOwn == Spec => []OwnPlatform
<1>1. RInv => OwnPlatform
  BY DEF RInv
<1>2. QED
  BY <1>1, RInit, RStep, PTL DEF Spec

\* With a mirror set every request goes to it, for the name and the tag meant:
\* expandDockerHubShorthand and rewriteForMirror agree on every reference.
THEOREM StaysInCluster == Spec => []InCluster
<1>1. TypeOK => InCluster
  <2> SUFFICES ASSUME TypeOK, call # None PROVE InCluster
    BY DEF InCluster
  <2>1. call.ref \in Refs /\ call.mirror \in Mirrors
    BY DEF TypeOK, Call
  <2>2. Request[call.ref][call.mirror] = Asked(call.ref, call.mirror)
    BY <2>1, Rewritten
  <2>3. QED
    BY <2>2 DEF InCluster, Asked
<1>2. QED
  BY <1>1, TypeCorrect, PTL
=============================================================================

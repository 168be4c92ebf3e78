-------------------------- MODULE CollectorsProofs --------------------------
(***************************************************************************)
(* Proofs about Collectors, for any listing, page size, limits and number  *)
(* of changes during a scan.  What a loop over a page takes is defined by  *)
(* recursion over the page; the facts about it come first, by induction    *)
(* over the natural numbers in the form of their well-foundedness.         *)
(***************************************************************************)
EXTENDS Collectors, SequenceTheorems, WellFoundedInduction, TLAPS

-----------------------------------------------------------------------------
(* Sequences *)

(* Induction up to n, for a set. *)
LEMMA Ascend ==
  ASSUME NEW n \in Nat, NEW T, 0 \in T, \A i \in 0..(n - 1) : i \in T => i + 1 \in T
  PROVE  \A i \in 0..n : i \in T
<1> DEFINE Out == {i \in 0..n : i \notin T}
<1> SUFFICES ASSUME Out # {} PROVE FALSE
  OBVIOUS
<1>0. Out \subseteq Nat
  OBVIOUS
<1>1. PICK x \in Out : \A y \in Out : ~(<<y, x>> \in OpToRel(<, Nat))
  <2> HIDE DEF Out
  <2> QED  BY <1>0, WFMin, NatLessThanWellFounded
<1>2. x \in Nat /\ x # 0 /\ x - 1 \in 0..n /\ x - 1 \in 0..(n - 1)
  OBVIOUS
<1>3. x - 1 \notin Out
  <2>1. <<x - 1, x>> \in OpToRel(<, Nat)
    BY <1>2 DEF OpToRel
  <2> QED  BY <1>1, <2>1
<1>4. x - 1 \in T
  BY <1>2, <1>3
<1> QED  BY <1>2, <1>4

(* The recursion of Without has a solution up to every place of the page. *)
LEMMA WithoutDefined ==
  ASSUME NEW page, Len(page) \in Nat, NEW passed
  PROVE  \E taken : taken = [i \in 0..Len(page) |->
           IF i = 0 THEN <<>>
           ELSE IF page[i] \in passed THEN taken[i - 1] ELSE Append(taken[i - 1], page[i])]
<1> DEFINE Solves(t, n) == t = [i \in 0..n |->
             IF i = 0 THEN <<>>
             ELSE IF page[i] \in passed THEN t[i - 1] ELSE Append(t[i - 1], page[i])]
           T == {n \in Nat : \E t : Solves(t, n)}
<1>1. 0 \in T
  <2> DEFINE t == [i \in 0..0 |-> <<>>]
  <2>1. Solves(t, 0)
    OBVIOUS
  <2> QED  BY <2>1
<1>2. ASSUME NEW n \in Nat, n \in T PROVE n + 1 \in T
  <2>1. PICK t : Solves(t, n)
    BY <1>2
  <2> DEFINE u == [i \in 0..(n + 1) |->
                     IF i <= n THEN t[i]
                     ELSE IF page[n + 1] \in passed THEN t[n] ELSE Append(t[n], page[n + 1])]
  <2>2. \A i \in 0..n : u[i] = t[i]
    OBVIOUS
  <2>3. \A i \in 0..(n + 1) : u[i] = IF i = 0 THEN <<>>
           ELSE IF page[i] \in passed THEN u[i - 1] ELSE Append(u[i - 1], page[i])
    <3>1. ASSUME NEW i \in 0..n
          PROVE  u[i] = IF i = 0 THEN <<>>
             ELSE IF page[i] \in passed THEN u[i - 1] ELSE Append(u[i - 1], page[i])
      <4>1. t[i] = IF i = 0 THEN <<>>
             ELSE IF page[i] \in passed THEN t[i - 1] ELSE Append(t[i - 1], page[i])
        BY <2>1, Zenon
      <4>2. i # 0 => i - 1 \in 0..n
        OBVIOUS
      <4> HIDE DEF u
      <4> QED  BY <2>2, <4>1, <4>2
    <3>2. u[n + 1] = IF page[n + 1] \in passed THEN u[n] ELSE Append(u[n], page[n + 1])
      OBVIOUS
    <3> HIDE DEF u
    <3>3. ASSUME NEW i \in 0..(n + 1) PROVE i \in 0..n \/ (i = n + 1 /\ i # 0 /\ i - 1 = n)
      OBVIOUS
    <3> QED  BY <3>1, <3>2, <3>3
  <2>4. Solves(u, n + 1)
    <3> DEFINE v == [i \in 0..(n + 1) |-> IF i = 0 THEN <<>>
             ELSE IF page[i] \in passed THEN u[i - 1] ELSE Append(u[i - 1], page[i])]
    <3>1. \A i \in 0..(n + 1) : u[i] = v[i]
      BY <2>3, Zenon
    <3>2. u = v
      BY <3>1
    <3> QED  BY <3>2
  <2> HIDE DEF Solves, u
  <2> QED  BY <2>4
<1>3. Len(page) \in T
  <2> HIDE DEF Solves, T
  <2>1. \A i \in 0..(Len(page) - 1) : i \in T => i + 1 \in T
    BY <1>2
  <2>2. \A i \in 0..Len(page) : i \in T
    BY <1>1, <2>1, Ascend
  <2> QED  BY <2>2
<1> QED  BY <1>3

(* Without is what its recursion says. *)
LEMMA WithoutSolved ==
  ASSUME NEW page, Len(page) \in Nat, NEW passed
  PROVE  \E taken :
           /\ taken = [i \in 0..Len(page) |->
                IF i = 0 THEN <<>>
                ELSE IF page[i] \in passed THEN taken[i - 1] ELSE Append(taken[i - 1], page[i])]
           /\ Without(page, passed) = taken[Len(page)]
<1> DEFINE Solves(t) == t = [i \in 0..Len(page) |->
             IF i = 0 THEN <<>>
             ELSE IF page[i] \in passed THEN t[i - 1] ELSE Append(t[i - 1], page[i])]
           choice == CHOOSE t : Solves(t)
<1>1. \E t : Solves(t)
  BY WithoutDefined
<1>2. Without(page, passed) = choice[Len(page)]
  BY Zenon DEF Without
<1>3. Solves(choice)
  <2> HIDE DEF Solves
  <2> QED  BY <1>1, Zenon
<1> HIDE DEF choice
<1> QED  BY <1>2, <1>3, Zenon

(* taken[i] is what the loop has taken after i places of the page. *)
Steps(taken, page, passed) ==
  /\ taken[0] = <<>> /\ Without(page, passed) = taken[Len(page)]
  /\ \A i \in 0..(Len(page) - 1) :
       taken[i + 1] = IF page[i + 1] \in passed THEN taken[i] ELSE Append(taken[i], page[i + 1])

(* The same, place by place. *)
LEMMA WithoutSteps ==
  ASSUME NEW page, Len(page) \in Nat, NEW passed
  PROVE  \E taken : Steps(taken, page, passed)
<1>2. PICK taken : /\ taken = [i \in 0..Len(page) |->
                        IF i = 0 THEN <<>>
                        ELSE IF page[i] \in passed THEN taken[i - 1]
                                                   ELSE Append(taken[i - 1], page[i])]
                   /\ Without(page, passed) = taken[Len(page)]
  BY WithoutSolved
<1>3. taken[0] = <<>>
  BY <1>2
<1>4. ASSUME NEW i \in 0..(Len(page) - 1)
      PROVE  taken[i + 1] = IF page[i + 1] \in passed THEN taken[i] ELSE Append(taken[i], page[i + 1])
  <2>1. i + 1 \in 0..Len(page) /\ i + 1 # 0 /\ (i + 1) - 1 = i
    OBVIOUS
  <2>2. taken[i + 1] = IF i + 1 = 0 THEN <<>>
          ELSE IF page[i + 1] \in passed THEN taken[(i + 1) - 1]
                                         ELSE Append(taken[(i + 1) - 1], page[i + 1])
    BY <1>2, <2>1, Zenon
  <2> QED  BY <2>1, <2>2
<1>5. Steps(taken, page, passed)
  BY <1>2, <1>3, <1>4 DEF Steps
<1> QED  BY <1>5

(* Appending an element adds it to the range, and keeps a sequence that has *)
(* not got it free of repeats.                                             *)
LEMMA AppendFacts ==
  ASSUME NEW S, NEW s \in Seq(S), NEW e \in S
  PROVE  /\ Append(s, e) \in Seq(S) /\ Range(Append(s, e)) = Range(s) \cup {e}
         /\ IsInjective(s) /\ e \notin Range(s) => IsInjective(Append(s, e))
<1>1. /\ Append(s, e) \in Seq(S) /\ Len(Append(s, e)) = Len(s) + 1 /\ Len(s) \in Nat
      /\ DOMAIN Append(s, e) = 1..(Len(s) + 1) /\ DOMAIN s = 1..Len(s)
      /\ \A i \in 1..Len(s) : Append(s, e)[i] = s[i]
      /\ Append(s, e)[Len(s) + 1] = e
  BY AppendProperties, LenProperties
<1>2. Range(Append(s, e)) = Range(s) \cup {e}
  <2>1. ASSUME NEW x \in Range(Append(s, e)) PROVE x \in Range(s) \cup {e}
    BY <1>1, <2>1 DEF Range
  <2>2. ASSUME NEW x \in Range(s) PROVE x \in Range(Append(s, e))
    BY <1>1, <2>2 DEF Range
  <2>3. e \in Range(Append(s, e))
    BY <1>1 DEF Range
  <2> QED  BY <2>1, <2>2, <2>3
<1>3. ASSUME IsInjective(s), e \notin Range(s) PROVE IsInjective(Append(s, e))
  <2>1. \A i \in 1..Len(s) : s[i] # e
    BY <1>1, <1>3 DEF Range
  <2>2. \A i, j \in 1..(Len(s) + 1) : Append(s, e)[i] = Append(s, e)[j] => i = j
    BY <1>1, <1>3, <2>1 DEF IsInjective
  <2> QED  BY <1>1, <2>2 DEF IsInjective
<1> QED  BY <1>1, <1>2, <1>3

(* What a loop takes of a page: what is not passed over, each as often as   *)
(* it is there and in order.                                               *)
LEMMA WithoutFacts ==
  ASSUME NEW S, NEW page \in Seq(S), NEW passed
  PROVE  /\ Without(page, passed) \in Seq(S)
         /\ Range(Without(page, passed)) = Range(page) \ passed
         /\ IsInjective(page) => IsInjective(Without(page, passed))
         /\ Range(page) \cap passed = {} => Without(page, passed) = page
<1>1. Len(page) \in Nat /\ DOMAIN page = 1..Len(page) /\ \A i \in 1..Len(page) : page[i] \in S
  BY LenProperties, ElementOfSeq
<1>2. PICK taken : Steps(taken, page, passed)
  BY <1>1, WithoutSteps
<1>3. taken[0] = <<>> /\ Without(page, passed) = taken[Len(page)]
  BY <1>2 DEF Steps
<1>4. \A i \in 0..(Len(page) - 1) :
        taken[i + 1] = IF page[i + 1] \in passed THEN taken[i] ELSE Append(taken[i], page[i + 1])
  BY <1>2 DEF Steps
<1> DEFINE Before(i) == {page[j] : j \in 1..i}
           Good(i) == /\ taken[i] \in Seq(S)
                      /\ Range(taken[i]) = Before(i) \ passed
                      /\ IsInjective(page) => IsInjective(taken[i])
                      /\ Range(page) \cap passed = {} => taken[i] = SubSeq(page, 1, i)
           T == {i \in 0..Len(page) : Good(i)}
<1>5. Good(0)
  <2>1. Range(<<>>) = {} /\ Before(0) = {} /\ IsInjective(<<>>) /\ <<>> \in Seq(S)
    BY EmptySeq DEF Range, IsInjective
  <2>2. SubSeq(page, 1, 0) = <<>>
    BY SubSeqEmpty
  <2> QED  BY <1>3, <2>1, <2>2
<1>6. ASSUME NEW i \in 0..(Len(page) - 1), Good(i) PROVE Good(i + 1)
  <2>1. page[i + 1] \in S /\ page[i + 1] \in Range(page) /\ i + 1 \in 1..Len(page)
    BY <1>1 DEF Range
  <2>2. Before(i + 1) = Before(i) \cup {page[i + 1]}
    <3>1. 1..(i + 1) = 1..i \cup {i + 1}
      BY <1>1
    <3> QED  BY <3>1
  <2>3. IsInjective(page) => page[i + 1] \notin Before(i)
    BY <1>1 DEF IsInjective
  <2>4. SubSeq(page, 1, i + 1) = Append(SubSeq(page, 1, i), page[i + 1])
    <3>1. SubSeq(page, 1, i + 1) = SubSeq(page, 1, (i + 1) - 1) \o << page[i + 1] >>
      BY <1>1, <2>1, SubSeqRecursiveSecond
    <3>2. SubSeq(page, 1, i) \in Seq(S)
      BY <1>1, SubSeqProperties
    <3> QED  BY <2>1, <3>1, <3>2, AppendIsConcat
  <2>5. CASE page[i + 1] \in passed
    <3>1. taken[i + 1] = taken[i]
      BY <1>4, <2>5
    <3>2. Range(page) \cap passed # {}
      BY <2>1, <2>5
    <3> HIDE DEF Before
    <3> QED  BY <1>6, <2>2, <2>5, <3>1, <3>2
  <2>6. CASE page[i + 1] \notin passed
    <3>1. taken[i + 1] = Append(taken[i], page[i + 1])
      BY <1>4, <2>6
    <3>2. /\ taken[i + 1] \in Seq(S) /\ Range(taken[i + 1]) = Range(taken[i]) \cup {page[i + 1]}
          /\ IsInjective(taken[i]) /\ page[i + 1] \notin Range(taken[i]) => IsInjective(taken[i + 1])
      BY <1>6, <2>1, <3>1, AppendFacts
    <3> HIDE DEF Before
    <3> QED  BY <1>6, <2>2, <2>3, <2>4, <2>6, <3>1, <3>2
  <2> QED  BY <2>5, <2>6
<1>7. Good(Len(page))
  <2> HIDE DEF Good
  <2>1. 0 \in T /\ \A i \in 0..(Len(page) - 1) : i \in T => i + 1 \in T
    BY <1>1, <1>5, <1>6
  <2> HIDE DEF T
  <2>2. \A i \in 0..Len(page) : i \in T
    BY <1>1, <2>1, Ascend
  <2> QED  BY <1>1, <2>2 DEF T
<1>8. Before(Len(page)) = Range(page) /\ SubSeq(page, 1, Len(page)) = page
  BY <1>1, SubSeqFull DEF Range
<1> QED  BY <1>3, <1>7, <1>8

(* Two sequences that share nothing may be joined. *)
LEMMA ConcatFacts ==
  ASSUME NEW S, NEW s \in Seq(S), NEW t \in Seq(S)
  PROVE  /\ s \o t \in Seq(S) /\ Range(s \o t) = Range(s) \cup Range(t)
         /\ IsInjective(s) /\ IsInjective(t) /\ Range(s) \cap Range(t) = {} => IsInjective(s \o t)
<1>1. /\ s \o t \in Seq(S) /\ Len(s \o t) = Len(s) + Len(t) /\ Len(s) \in Nat /\ Len(t) \in Nat
      /\ DOMAIN (s \o t) = 1..(Len(s) + Len(t)) /\ DOMAIN s = 1..Len(s) /\ DOMAIN t = 1..Len(t)
      /\ \A i \in 1..(Len(s) + Len(t)) : (s \o t)[i] = IF i <= Len(s) THEN s[i] ELSE t[i - Len(s)]
  BY ConcatProperties, LenProperties
<1>2. ASSUME IsInjective(s), IsInjective(t), Range(s) \cap Range(t) = {}
      PROVE  IsInjective(s \o t)
  <2> SUFFICES ASSUME NEW i \in 1..(Len(s) + Len(t)), NEW j \in 1..(Len(s) + Len(t)),
                      (s \o t)[i] = (s \o t)[j]
               PROVE  i = j
    BY <1>1 DEF IsInjective
  <2>1. \A k \in 1..Len(s) : s[k] \in Range(s)
    BY <1>1 DEF Range
  <2>2. \A k \in 1..Len(t) : t[k] \in Range(t)
    BY <1>1 DEF Range
  <2>3. CASE i <= Len(s) /\ j <= Len(s)
    BY <1>1, <1>2, <2>3 DEF IsInjective
  <2>4. CASE i > Len(s) /\ j > Len(s)
    <3>1. i - Len(s) \in 1..Len(t) /\ j - Len(s) \in 1..Len(t)
      BY <1>1, <2>4
    <3>2. t[i - Len(s)] = t[j - Len(s)]
      BY <1>1, <2>4
    <3>3. i - Len(s) = j - Len(s)
      BY <1>1, <1>2, <3>1, <3>2 DEF IsInjective
    <3> QED  BY <1>1, <3>3
  <2>5. CASE i <= Len(s) /\ j > Len(s)
    BY <1>1, <1>2, <2>1, <2>2, <2>5
  <2>6. CASE i > Len(s) /\ j <= Len(s)
    BY <1>1, <1>2, <2>1, <2>2, <2>6
  <2> QED  BY <1>1, <2>3, <2>4, <2>5, <2>6
<1> QED  BY <1>1, <1>2, RangeConcatenation

(* A piece of a sequence. *)
LEMMA PieceFacts ==
  ASSUME NEW S, NEW s \in Seq(S), NEW m \in Nat \ {0}, NEW n \in Int, n <= Len(s)
  PROVE  /\ SubSeq(s, m, n) \in Seq(S) /\ Len(SubSeq(s, m, n)) = IF m <= n THEN n - m + 1 ELSE 0
         /\ Range(SubSeq(s, m, n)) = {s[i] : i \in m..n}
         /\ Range(SubSeq(s, m, n)) \subseteq Range(s)
         /\ IsInjective(s) => IsInjective(SubSeq(s, m, n))
<1>1. Len(s) \in Nat /\ DOMAIN s = 1..Len(s) /\ \A i \in m..n : i \in 1..Len(s) /\ s[i] \in S
  BY LenProperties, ElementOfSeq
<1>2. /\ SubSeq(s, m, n) \in Seq(S) /\ Len(SubSeq(s, m, n)) = IF m <= n THEN n - m + 1 ELSE 0
      /\ \A i \in 1..(n - m + 1) : SubSeq(s, m, n)[i] = s[m + i - 1]
  BY <1>1, SubSeqProperties
<1>3. DOMAIN SubSeq(s, m, n) = 1..(n - m + 1)
  BY <1>2, LenProperties
<1>4. Range(SubSeq(s, m, n)) = {s[i] : i \in m..n}
  <2>1. ASSUME NEW i \in m..n
        PROVE  i - m + 1 \in 1..(n - m + 1) /\ SubSeq(s, m, n)[i - m + 1] = s[i]
    <3>1. i - m + 1 \in 1..(n - m + 1) /\ m + (i - m + 1) - 1 = i
      OBVIOUS
    <3>2. SubSeq(s, m, n)[i - m + 1] = s[m + (i - m + 1) - 1]
      BY <1>2, <3>1
    <3> QED  BY <3>1, <3>2
  <2>2. ASSUME NEW x \in Range(SubSeq(s, m, n)) PROVE x \in {s[i] : i \in m..n}
    <3>1. PICK k \in 1..(n - m + 1) : x = SubSeq(s, m, n)[k]
      BY <1>3, <2>2 DEF Range
    <3>2. m + k - 1 \in m..n /\ x = s[m + k - 1]
      BY <1>2, <3>1
    <3> QED  BY <3>2
  <2>3. ASSUME NEW i \in m..n PROVE s[i] \in Range(SubSeq(s, m, n))
    BY <1>3, <2>1 DEF Range
  <2> QED  BY <2>2, <2>3
<1>5. ASSUME IsInjective(s) PROVE IsInjective(SubSeq(s, m, n))
  <2> SUFFICES ASSUME NEW i \in 1..(n - m + 1), NEW j \in 1..(n - m + 1),
                      SubSeq(s, m, n)[i] = SubSeq(s, m, n)[j]
               PROVE  i = j
    BY <1>3 DEF IsInjective
  <2>1. s[m + i - 1] = s[m + j - 1] /\ m + i - 1 \in 1..Len(s) /\ m + j - 1 \in 1..Len(s)
    BY <1>1, <1>2
  <2>2. m + i - 1 = m + j - 1
    BY <1>1, <1>5, <2>1 DEF IsInjective
  <2> QED  BY <2>2
<1> QED  BY <1>1, <1>2, <1>4, <1>5 DEF Range


(* The recursion of FlattenSeq has a solution, too. *)
LEMMA FlattenDefined ==
  ASSUME NEW f, Len(f) \in Nat
  PROVE  \E flat : flat = [i \in 1..Len(f) |-> IF i = 1 THEN f[i] ELSE flat[i - 1] \o f[i]]
<1> DEFINE Solves(t, n) == t = [i \in 1..n |-> IF i = 1 THEN f[i] ELSE t[i - 1] \o f[i]]
           T == {n \in Nat : \E t : Solves(t, n)}
<1>1. 0 \in T
  <2> DEFINE t == [i \in 1..0 |-> <<>>]
  <2>1. Solves(t, 0)
    OBVIOUS
  <2> QED  BY <2>1
<1>2. ASSUME NEW n \in Nat, n \in T PROVE n + 1 \in T
  <2>1. PICK t : Solves(t, n)
    BY <1>2
  <2> DEFINE u == [i \in 1..(n + 1) |->
                     IF i <= n THEN t[i] ELSE IF n = 0 THEN f[n + 1] ELSE t[n] \o f[n + 1]]
  <2>2. \A i \in 1..n : u[i] = t[i]
    OBVIOUS
  <2>3. \A i \in 1..(n + 1) : u[i] = IF i = 1 THEN f[i] ELSE u[i - 1] \o f[i]
    <3>1. ASSUME NEW i \in 1..n PROVE u[i] = IF i = 1 THEN f[i] ELSE u[i - 1] \o f[i]
      <4>1. t[i] = IF i = 1 THEN f[i] ELSE t[i - 1] \o f[i]
        BY <2>1, Zenon
      <4>2. i # 1 => i - 1 \in 1..n
        OBVIOUS
      <4> HIDE DEF u
      <4> QED  BY <2>2, <4>1, <4>2
    <3>2. u[n + 1] = IF n + 1 = 1 THEN f[n + 1] ELSE u[n] \o f[n + 1]
      OBVIOUS
    <3> HIDE DEF u
    <3>3. ASSUME NEW i \in 1..(n + 1) PROVE i \in 1..n \/ (i = n + 1 /\ i - 1 = n)
      OBVIOUS
    <3> QED  BY <3>1, <3>2, <3>3
  <2>4. Solves(u, n + 1)
    <3> DEFINE v == [i \in 1..(n + 1) |-> IF i = 1 THEN f[i] ELSE u[i - 1] \o f[i]]
    <3>1. \A i \in 1..(n + 1) : u[i] = v[i]
      BY <2>3, Zenon
    <3>2. u = v
      BY <3>1
    <3> QED  BY <3>2
  <2> HIDE DEF Solves, u
  <2> QED  BY <2>4
<1>3. Len(f) \in T
  <2> HIDE DEF Solves, T
  <2>1. \A i \in 0..(Len(f) - 1) : i \in T => i + 1 \in T
    BY <1>2
  <2>2. \A i \in 0..Len(f) : i \in T
    BY <1>1, <2>1, Ascend
  <2> QED  BY <2>2
<1> QED  BY <1>3

(* FlattenSeq is what its recursion says. *)
LEMMA FlattenSolved ==
  ASSUME NEW f, Len(f) \in Nat, Len(f) # 0
  PROVE  \E flat : /\ flat = [i \in 1..Len(f) |-> IF i = 1 THEN f[i] ELSE flat[i - 1] \o f[i]]
                   /\ FlattenSeq(f) = flat[Len(f)]
<1> DEFINE Solves(t) == t = [i \in 1..Len(f) |-> IF i = 1 THEN f[i] ELSE t[i - 1] \o f[i]]
           choice == CHOOSE t : Solves(t)
<1>1. \E t : Solves(t)
  BY FlattenDefined
<1>2. FlattenSeq(f) = choice[Len(f)]
  BY Zenon DEF FlattenSeq
<1>3. Solves(choice)
  <2> HIDE DEF Solves
  <2> QED  BY <1>1, Zenon
<1> HIDE DEF choice
<1> QED  BY <1>2, <1>3, Zenon

(* Sequences that share nothing with each other may be joined.             *)
LEMMA FlattenFacts ==
  ASSUME NEW S, NEW f \in Seq(Seq(S)),
         \A i \in 1..Len(f) : IsInjective(f[i]),
         \A i, j \in 1..Len(f) : i # j => Range(f[i]) \cap Range(f[j]) = {}
  PROVE  FlattenSeq(f) \in Seq(S) /\ IsInjective(FlattenSeq(f))
<1>1. Len(f) \in Nat /\ \A i \in 1..Len(f) : f[i] \in Seq(S)
  BY LenProperties, ElementOfSeq
<1>2. CASE Len(f) = 0
  <2>1. f = <<>>
    BY <1>2, EmptySeq
  <2>2. FlattenSeq(f) = <<>>
    BY <1>2, <2>1, Zenon DEF FlattenSeq
  <2> QED  BY <2>2, EmptySeq DEF IsInjective
<1>3. CASE Len(f) # 0
  <2>1. PICK flat : /\ flat = [i \in 1..Len(f) |-> IF i = 1 THEN f[i] ELSE flat[i - 1] \o f[i]]
                    /\ FlattenSeq(f) = flat[Len(f)]
    BY <1>1, <1>3, FlattenSolved
  <2>2. flat[1] = f[1]
    BY <1>1, <1>3, <2>1
  <2>3. ASSUME NEW i \in 1..(Len(f) - 1) PROVE flat[i + 1] = flat[i] \o f[i + 1]
    <3>1. i + 1 \in 1..Len(f) /\ i + 1 # 1 /\ (i + 1) - 1 = i
      BY <1>1
    <3>2. flat[i + 1] = IF i + 1 = 1 THEN f[i + 1] ELSE flat[(i + 1) - 1] \o f[i + 1]
      BY <2>1, <3>1, Zenon
    <3> QED  BY <3>1, <3>2
  <2> DEFINE Good(i) == /\ flat[i] \in Seq(S) /\ IsInjective(flat[i])
                        /\ \A j \in (i + 1)..Len(f) : Range(flat[i]) \cap Range(f[j]) = {}
             T == {i \in 0..Len(f) : i = 0 \/ Good(i)}
  <2>4. Good(1)
    <3>1. 1 \in 1..Len(f) /\ flat[1] \in Seq(S) /\ IsInjective(flat[1])
      BY <1>1, <1>3, <2>2
    <3>2. ASSUME NEW j \in (1 + 1)..Len(f) PROVE Range(flat[1]) \cap Range(f[j]) = {}
      <4>1. j \in 1..Len(f) /\ j # 1
        BY <1>1
      <4> QED  BY <2>2, <3>1, <4>1
    <3> QED  BY <3>1, <3>2
  <2>5. ASSUME NEW i \in 1..(Len(f) - 1), Good(i) PROVE Good(i + 1)
    <3>1. i + 1 \in (i + 1)..Len(f) /\ i + 1 \in 1..Len(f)
      BY <1>1
    <3>2. f[i + 1] \in Seq(S) /\ IsInjective(f[i + 1]) /\ Range(flat[i]) \cap Range(f[i + 1]) = {}
      BY <1>1, <2>5, <3>1
    <3>3. /\ flat[i + 1] \in Seq(S) /\ Range(flat[i + 1]) = Range(flat[i]) \cup Range(f[i + 1])
          /\ IsInjective(flat[i + 1])
      <4>1. flat[i] \in Seq(S) /\ IsInjective(flat[i]) /\ flat[i + 1] = flat[i] \o f[i + 1]
        BY <2>3, <2>5
      <4> HIDE DEF Good
      <4> QED  BY <3>2, <4>1, ConcatFacts
    <3>4. ASSUME NEW j \in (i + 1 + 1)..Len(f) PROVE Range(flat[i + 1]) \cap Range(f[j]) = {}
      <4>1. j \in (i + 1)..Len(f) /\ j \in 1..Len(f) /\ j # i + 1
        BY <1>1
      <4>2. Range(flat[i]) \cap Range(f[j]) = {} /\ Range(f[i + 1]) \cap Range(f[j]) = {}
        BY <2>5, <3>1, <4>1
      <4> QED  BY <3>3, <4>2
    <3> QED  BY <3>3, <3>4
  <2>6. Good(Len(f))
    <3> HIDE DEF Good
    <3>1. 0 \in T /\ \A i \in 0..(Len(f) - 1) : i \in T => i + 1 \in T
      BY <1>1, <2>4, <2>5
    <3> HIDE DEF T
    <3>2. \A i \in 0..Len(f) : i \in T
      BY <1>1, <3>1, Ascend
    <3> QED  BY <1>1, <1>3, <3>2 DEF T
  <2> QED  BY <2>1, <2>6
<1> QED  BY <1>2, <1>3


-----------------------------------------------------------------------------
(* The scan *)

(* The listings, and what has been collected of them. *)
ListsInv ==
  1..3 \subseteq DOMAIN site /\ \A f \in DOMAIN site : site[f] \in Seq(Items) /\ IsInjective(site[f])

ShapeInv ==
  /\ ListsInv /\ got \in Seq(Items) /\ added \in Nat /\ gone \in Nat
  /\ pos \in Nat /\ (scan # "gigs" => pos # 0)
  /\ scan \in DOMAIN Sources /\ status = "scanning" => pos <= Sources[scan].reads
  /\ status = "cards" => scan \in Catalogs

(* Why nothing is there twice: a scan that does not look whether it has an  *)
(* item already collects from one page, or starts with nothing, or, for a   *)
(* seller's gigs, has collected what is up to its offset.                   *)
DistinctInv ==
  /\ scan # "gigs" => IsInjective(got)
  /\ scan = "gigs" /\ added + gone = 0 => pos <= Len(site[1]) /\ got = SubSeq(site[1], 1, pos)
  /\ scan \in {"habr", "superjob", "youdo"} /\ status = "scanning" => got = <<>>
  /\ scan = "scroll" => last \in Nat \ {0} /\ (last = 1 => got = <<>>)

(* The cutoff and the limit of the reviews hold from page to page. *)
RecentInv == scan = "recent" /\ via = "http" => Len(got) <= Limit /\ Range(got) \cap Old = {}

CleanInv == ShapeInv /\ DistinctInv /\ RecentInv

(* The numbers among the constants. *)
LEMMA CollectNumbers ==
  /\ Per \in Nat \ {0} /\ MaxPages \in Nat \ {0} /\ ShownPages \in Nat \ {0}
  /\ Limit \in Nat \ {0} /\ ScrollLimit \in Nat \ {0} /\ Cards \in Nat /\ MaxChanges \in Nat
  BY CollectAssumption

(* A page lists items of the first feed, each once. *)
LEMMA PageFacts ==
  ASSUME ListsInv, NEW p \in Nat \ {0}
  PROVE  /\ SitePage(p) \in Seq(Items) /\ IsInjective(SitePage(p))
         /\ Range(SitePage(p)) = {site[1][i] : i \in ((p - 1) * Per + 1)..Least(p * Per, Len(site[1]))}
<1>1. site[1] \in Seq(Items) /\ IsInjective(site[1]) /\ Len(site[1]) \in Nat
  BY LenProperties DEF ListsInv
<1> DEFINE m == (p - 1) * Per + 1
           n == Least(p * Per, Len(site[1]))
<1>2. m \in Nat \ {0} /\ p * Per \in Nat
  BY CollectNumbers
<1>3. n \in Int /\ n <= Len(site[1])
  BY <1>1, <1>2 DEF Least
<1>4. SitePage(p) = SubSeq(site[1], m, n)
  BY DEF SitePage
<1> HIDE DEF m, n
<1>5. /\ SubSeq(site[1], m, n) \in Seq(Items) /\ IsInjective(SubSeq(site[1], m, n))
      /\ Range(SubSeq(site[1], m, n)) = {site[1][i] : i \in m..n}
  BY <1>1, <1>2, <1>3, PieceFacts
<1> QED  BY <1>4, <1>5 DEF m, n

(* A product grows with its factor. *)
LEMMA ProductGrows ==
  ASSUME NEW a \in Nat, NEW b \in Nat, NEW n \in Nat
  PROVE  a * n \in Nat /\ b * n \in Nat /\ (a <= b => a * n <= b * n)
<1>1. ASSUME a <= b PROVE a * n <= b * n
  <2> DEFINE d == b - a
  <2>1. d \in Nat /\ b = a + d
    BY <1>1
  <2> HIDE DEF d
  <2>2. b * n = (a + d) * n
    BY <2>1
  <2>3. (a + d) * n = a * n + d * n
    BY <2>1
  <2>4. a * n \in Nat /\ d * n \in Nat
    BY <2>1
  <2> QED  BY <2>2, <2>3, <2>4
<1> QED  BY <1>1

(* A quotient and its remainder. *)
LEMMA QuotientFacts ==
  ASSUME NEW x \in Nat, NEW d \in Nat \ {0}
  PROVE  x \div d \in Nat /\ (x \div d) * d <= x /\ x < (x \div d) * d + d
OBVIOUS

(* Pages of one moment share nothing. *)
LEMMA PagesApart ==
  ASSUME ListsInv, NEW p \in Nat \ {0}, NEW q \in Nat \ {0}, p # q
  PROVE  Range(SitePage(p)) \cap Range(SitePage(q)) = {}
<1>1. DOMAIN site[1] = 1..Len(site[1]) /\ Len(site[1]) \in Nat /\ IsInjective(site[1])
  BY LenProperties DEF ListsInv
<1>2. ASSUME NEW a \in Nat \ {0}, NEW b \in Nat \ {0}, a < b
      PROVE  Range(SitePage(a)) \cap Range(SitePage(b)) = {}
  <2>1. a * Per <= (b - 1) * Per /\ a * Per \in Nat /\ (b - 1) * Per \in Nat
        /\ b * Per \in Nat /\ (a - 1) * Per \in Nat
    <3>1. Per \in Nat /\ a \in Nat /\ b - 1 \in Nat /\ a <= b - 1 /\ b \in Nat /\ a - 1 \in Nat
      BY <1>2, CollectNumbers
    <3> QED  BY <3>1, ProductGrows
  <2>2. ASSUME NEW i \in ((a - 1) * Per + 1)..Least(a * Per, Len(site[1])),
               NEW j \in ((b - 1) * Per + 1)..Least(b * Per, Len(site[1]))
        PROVE  site[1][i] # site[1][j]
    <3> DEFINE from == (a - 1) * Per
               to == a * Per
               from2 == (b - 1) * Per
               to2 == b * Per
    <3>1. /\ i \in (from + 1)..Least(to, Len(site[1])) /\ j \in (from2 + 1)..Least(to2, Len(site[1]))
          /\ from \in Nat /\ to \in Nat /\ from2 \in Nat /\ to2 \in Nat /\ to <= from2
      BY <2>1
    <3> HIDE DEF from, to, from2, to2
    <3>2. i \in 1..Len(site[1]) /\ j \in 1..Len(site[1]) /\ i < j
      BY <1>1, <3>1 DEF Least
    <3> QED  BY <1>1, <3>2 DEF IsInjective
  <2>3. /\ Range(SitePage(a)) = {site[1][i] : i \in ((a - 1) * Per + 1)..Least(a * Per, Len(site[1]))}
        /\ Range(SitePage(b)) = {site[1][i] : i \in ((b - 1) * Per + 1)..Least(b * Per, Len(site[1]))}
    BY PageFacts
  <2> QED  BY <2>2, <2>3, Zenon
<1>3. p < q \/ q < p
  OBVIOUS
<1> QED  BY <1>2, <1>3

(* What is new of a page joins what is collected without a repeat. *)
LEMMA NewFacts ==
  ASSUME got \in Seq(Items), NEW page \in Seq(Items), IsInjective(page)
  PROVE  /\ New(page) \in Seq(Items) /\ IsInjective(New(page)) /\ got \o New(page) \in Seq(Items)
         /\ Range(New(page)) \cap Range(got) = {}
         /\ IsInjective(got) => IsInjective(got \o New(page))
<1>1. New(page) \in Seq(Items) /\ IsInjective(New(page)) /\ Range(New(page)) \cap Range(got) = {}
  BY WithoutFacts DEF New
<1> QED  BY <1>1, ConcatFacts


(* The listing sources by name, and what they read. *)
LEMMA SourceFacts ==
  /\ DOMAIN Sources = {"fl", "kwork", "habr", "hh", "superjob", "youdo", "zarplata"}
  /\ \A s \in DOMAIN Sources :
       /\ Sources[s].reads \in 1..3
       /\ Sources[s].distinct \/ (s \in {"habr", "superjob", "youdo"} /\ Sources[s].reads = 1)
BY DEF Sources, Fl, Kwork, Habr, Youdo, Hh, Superjob, Zarplata

(* What a step of any scan but a seller's gigs has to show. *)
LEMMA Onward ==
  ASSUME CleanInv, UNCHANGED <<scan, site, added, gone>>, scan # "gigs",
         got' \in Seq(Items), IsInjective(got'), pos' \in Nat \ {0},
         status' = "cards" => scan \in Catalogs,
         scan \in DOMAIN Sources /\ status' = "scanning"
           => pos' <= Sources[scan].reads /\ (scan \in {"habr", "superjob", "youdo"} => got' = <<>>),
         scan = "scroll" => last' \in Nat \ {0} /\ (last' = 1 => got' = <<>>),
         scan = "recent" /\ via' = "http" => Len(got') <= Limit /\ Range(got') \cap Old = {}
  PROVE  CleanInv'
<1>1. ListsInv'
  BY DEF CleanInv, ShapeInv, ListsInv
<1>2. ShapeInv'
  BY <1>1 DEF CleanInv, ShapeInv, Sources, Catalogs
<1>3. DistinctInv'
  <2>1. scan \in {"habr", "superjob", "youdo"} => scan \in DOMAIN Sources
    BY SourceFacts
  <2> QED  BY <2>1 DEF DistinctInv
<1>4. RecentInv'
  BY DEF RecentInv
<1> QED  BY <1>2, <1>3, <1>4 DEF CleanInv

(* Nothing collected is a sequence without repeats, and outside of every set. *)
LEMMA NothingFacts == <<>> \in Seq(Items) /\ IsInjective(<<>>) /\ Len(<<>>) = 0 /\ Range(<<>>) = {}
BY EmptySeq DEF IsInjective, Range

(* A scan begins with nothing. *)
LEMMA CollectInitClean == CollectInit => CleanInv
<1> SUFFICES ASSUME CollectInit PROVE CleanInv
  OBVIOUS
<1>1. ListsInv /\ got = <<>> /\ added = 0 /\ gone = 0 /\ last = 1 /\ status = "scanning"
  BY SitesAssumption DEF CollectInit, ListsInv
<1>2. pos = IF scan = "gigs" THEN 0 ELSE 1
  BY DEF CollectInit
<1>3. ShapeInv
  BY <1>1, <1>2, NothingFacts, SourceFacts DEF ShapeInv
<1>4. scan = "gigs" => pos <= Len(site[1]) /\ got = SubSeq(site[1], 1, pos)
  <2>1. site[1] \in Seq(Items)
    BY <1>1 DEF ListsInv
  <2>2. Len(site[1]) \in Nat /\ SubSeq(site[1], 1, 0) = <<>>
    BY <2>1, LenProperties, SubSeqEmpty
  <2> QED  BY <1>1, <1>2, <2>2
<1>5. DistinctInv
  BY <1>1, <1>4, NothingFacts DEF DistinctInv
<1>6. RecentInv
  BY <1>1, NothingFacts, CollectNumbers DEF RecentInv
<1> QED  BY <1>3, <1>5, <1>6 DEF CleanInv

(* The site may change between two requests: no list gets an item twice, and *)
(* nothing that was collected is touched.                                   *)
LEMMA ChangeClean ==
  ASSUME CleanInv, NEW f \in DOMAIN site, NEW list \in Seq(Items), IsInjective(list), Change(f, list),
         added' \in Nat, gone' \in Nat, added' + gone' # 0
  PROVE  CleanInv'
<1>1. site' = [site EXCEPT ![f] = list] /\ UNCHANGED <<scan, pos, last, got, status, via>>
  BY DEF Change, progress
<1>2. ListsInv'
  <2>1. DOMAIN site' = DOMAIN site
    BY <1>1
  <2>2. \A g \in DOMAIN site : site'[g] = IF g = f THEN list ELSE site[g]
    BY <1>1
  <2> QED  BY <2>1, <2>2 DEF CleanInv, ShapeInv, ListsInv
<1>3. ShapeInv'
  BY <1>1, <1>2 DEF CleanInv, ShapeInv, Sources, Catalogs
<1>4. DistinctInv'
  BY <1>1 DEF CleanInv, DistinctInv
<1>5. RecentInv'
  BY <1>1 DEF CleanInv, RecentInv
<1> QED  BY <1>3, <1>4, <1>5 DEF CleanInv

(* An item is published at the head of a feed. *)
LEMMA PublishClean == ASSUME CleanInv, Publish PROVE CleanInv'
<1>1. PICK f \in DOMAIN site, x \in (Items \ Old) \ Listed : Change(f, <<x>> \o site[f])
  BY DEF Publish
<1>2. site[f] \in Seq(Items) /\ IsInjective(site[f])
  BY DEF CleanInv, ShapeInv, ListsInv
<1>3. x \in Items /\ x \notin Range(site[f])
  BY <1>1 DEF Listed
<1>4. <<x>> \in Seq(Items) /\ IsInjective(<<x>>) /\ Range(<<x>>) = {x}
  BY <1>3 DEF IsInjective, Range
<1>5. <<x>> \o site[f] \in Seq(Items) /\ IsInjective(<<x>> \o site[f])
  BY <1>2, <1>3, <1>4, ConcatFacts
<1>6. added' \in Nat /\ gone' \in Nat /\ added' + gone' # 0
  BY DEF CleanInv, ShapeInv, Publish
<1> QED  BY <1>1, <1>5, <1>6, ChangeClean

(* An item is withdrawn from a feed. *)
LEMMA WithdrawClean == ASSUME CleanInv, Withdraw PROVE CleanInv'
<1>1. PICK f \in DOMAIN site : \E i \in DOMAIN site[f] : Change(f, RemoveAt(site[f], i))
  BY DEF Withdraw
<1>2. PICK i \in DOMAIN site[f] : Change(f, RemoveAt(site[f], i))
  BY <1>1
<1> DEFINE s == site[f]
<1>3. /\ s \in Seq(Items) /\ IsInjective(s) /\ Len(s) \in Nat /\ DOMAIN s = 1..Len(s)
  BY LenProperties DEF CleanInv, ShapeInv, ListsInv
<1>4. i \in 1..Len(s)
  BY <1>3
<1> HIDE DEF s
<1>5. /\ SubSeq(s, 1, i - 1) \in Seq(Items) /\ IsInjective(SubSeq(s, 1, i - 1))
      /\ Range(SubSeq(s, 1, i - 1)) = {s[j] : j \in 1..(i - 1)}
  BY <1>3, <1>4, PieceFacts
<1>6. /\ SubSeq(s, i + 1, Len(s)) \in Seq(Items) /\ IsInjective(SubSeq(s, i + 1, Len(s)))
      /\ Range(SubSeq(s, i + 1, Len(s))) = {s[j] : j \in (i + 1)..Len(s)}
  BY <1>3, <1>4, PieceFacts
<1>7. \A j \in 1..(i - 1), k \in (i + 1)..Len(s) : s[j] # s[k]
  BY <1>3, <1>4 DEF IsInjective
<1>8. Range(SubSeq(s, 1, i - 1)) \cap Range(SubSeq(s, i + 1, Len(s))) = {}
  BY <1>5, <1>6, <1>7, Zenon
<1>9. RemoveAt(s, i) \in Seq(Items) /\ IsInjective(RemoveAt(s, i))
  BY <1>5, <1>6, <1>8, ConcatFacts DEF RemoveAt
<1>10. added' \in Nat /\ gone' \in Nat /\ added' + gone' # 0
  BY DEF CleanInv, ShapeInv, Withdraw
<1> QED  BY <1>2, <1>9, <1>10, ChangeClean DEF s


(* A page of a catalog. *)
LEMMA CatalogClean ==
  ASSUME CleanInv, CatalogPage \/ CatalogPageFails PROVE CleanInv'
<1>1. /\ scan \in {"services", "freelancers"} /\ scan \notin DOMAIN Sources
      /\ UNCHANGED <<scan, site, added, gone, via>>
  BY SourceFacts DEF CatalogPage, CatalogPageFails, Keep, Lose, Catalogs
<1>0. scan \in Catalogs
  BY <1>1 DEF Catalogs
<1>2. ListsInv /\ got \in Seq(Items) /\ IsInjective(got) /\ pos \in Nat \ {0}
  BY <1>1 DEF CleanInv, ShapeInv, DistinctInv
<1>3. pos' \in Nat \ {0}
  BY <1>2 DEF CatalogPage, CatalogPageFails
<1>4. got' = got \/ got' = got \o New(SitePage(pos))
  BY DEF CatalogPage, CatalogPageFails
<1>5. got' \in Seq(Items) /\ IsInjective(got')
  BY <1>2, <1>4, PageFacts, NewFacts
<1> QED  BY <1>0, <1>1, <1>3, <1>5, Onward

(* The cards are fetched after the listing, and leave what was found alone. *)
LEMMA CardsClean ==
  ASSUME CleanInv, NEW ok \in BOOLEAN, CardFetched(ok) \/ CardsDone PROVE CleanInv'
<1>1. /\ UNCHANGED <<scan, site, added, gone, got>> /\ status' # "scanning"
      /\ status = "cards" /\ (pos' = pos + 1 \/ pos' = pos)
  BY DEF CardFetched, CardsDone, Stop, Keep
<1>2. scan \in Catalogs /\ scan \notin {"gigs", "scroll", "recent"}
  BY <1>1 DEF CleanInv, ShapeInv, Catalogs
<1>3. got \in Seq(Items) /\ IsInjective(got) /\ pos' \in Nat \ {0}
  BY <1>1, <1>2 DEF CleanInv, ShapeInv, DistinctInv
<1> QED  BY <1>1, <1>2, <1>3, Onward

(* A batch of a seller's gigs: while nothing changes, what was received is *)
(* what is listed up to the offset.                                        *)
LEMMA GigsClean == ASSUME CleanInv, GigBatch \/ GigBatchFails PROVE CleanInv'
<1>1. /\ scan = "gigs" /\ UNCHANGED <<scan, site, added, gone, via, last>>
      /\ scan \notin DOMAIN Sources /\ status' # "cards"
  BY SourceFacts DEF GigBatch, GigBatchFails, Keep, Lose, Stop
<1> DEFINE s == site[1]
           n == Least(pos + Per, Len(s))
<1>2. /\ ListsInv /\ s \in Seq(Items) /\ Len(s) \in Nat /\ pos \in Nat /\ got \in Seq(Items)
      /\ added \in Nat /\ gone \in Nat
  BY LenProperties DEF CleanInv, ShapeInv, ListsInv
<1>3. n \in Nat /\ n <= Len(s) /\ (pos <= Len(s) => pos <= n)
  BY <1>2, CollectNumbers DEF Least
<1>4. CASE GigBatch
  <2>1. got' = got \o SubSeq(s, pos + 1, n) /\ pos' = pos + Len(SubSeq(s, pos + 1, n))
    BY <1>4 DEF GigBatch
  <2> HIDE DEF s, n
  <2>2. /\ SubSeq(s, pos + 1, n) \in Seq(Items)
        /\ Len(SubSeq(s, pos + 1, n)) = IF pos + 1 <= n THEN n - (pos + 1) + 1 ELSE 0
    BY <1>2, <1>3, PieceFacts
  <2>3. got' \in Seq(Items) /\ pos' \in Nat
    BY <1>2, <1>3, <2>1, <2>2, ConcatProperties
  <2>4. ASSUME added + gone = 0 PROVE pos' <= Len(s) /\ got' = SubSeq(s, 1, pos')
    <3>1. pos <= Len(s) /\ got = SubSeq(s, 1, pos)
      BY <1>1, <2>4 DEF CleanInv, DistinctInv, s
    <3>2. pos' = n
      BY <1>2, <1>3, <2>1, <2>2, <3>1
    <3>3. SubSeq(s, 1, pos) \o SubSeq(s, pos + 1, n) = SubSeq(s, 1, n)
      <4>1. 1 \in 1..(Len(s) + 1) /\ pos \in (1 - 1)..Len(s) /\ n \in pos..Len(s)
        BY <1>2, <1>3, <3>1
      <4> QED  BY <1>2, <4>1, ConcatAdjacentSubSeq
    <3> QED  BY <1>3, <2>1, <3>1, <3>2, <3>3
  <2>5. ShapeInv'
    <3>1. ListsInv'
      BY <1>1, <1>2 DEF ListsInv
    <3> QED  BY <1>1, <1>2, <2>3, <3>1 DEF ShapeInv, Sources
  <2>6. DistinctInv'
    BY <1>1, <2>4 DEF DistinctInv, s
  <2>7. RecentInv'
    BY <1>1 DEF RecentInv
  <2> QED  BY <2>5, <2>6, <2>7 DEF CleanInv
<1>5. CASE GigBatchFails
  <2>1. got' = got /\ pos' = pos
    BY <1>5 DEF GigBatchFails, Stop
  <2>2. ListsInv'
    BY <1>1, <1>2 DEF ListsInv
  <2>3. ShapeInv'
    BY <1>1, <1>2, <2>1, <2>2 DEF ShapeInv, Sources
  <2>4. DistinctInv'
    BY <1>1, <2>1 DEF CleanInv, DistinctInv
  <2>5. RecentInv'
    BY <1>1 DEF RecentInv
  <2> QED  BY <2>3, <2>4, <2>5 DEF CleanInv
<1> QED  BY <1>4, <1>5

(* A page of reviews: what is taken of it is new, and with a cutoff in the   *)
(* window and within the limit.                                            *)
LEMMA ReviewsClean == ASSUME CleanInv, ReviewPage \/ ReviewPageFails PROVE CleanInv'
<1>1. /\ scan \in {"reviews", "recent"} /\ UNCHANGED <<scan, site, added, gone, via>>
      /\ scan \notin DOMAIN Sources /\ status' # "cards"
  BY SourceFacts DEF ReviewPage, ReviewPageFails, Keep, Lose, Stop
<1>2. ListsInv /\ got \in Seq(Items) /\ IsInjective(got) /\ pos \in Nat \ {0} /\ Len(got) \in Nat
  BY <1>1, LenProperties DEF CleanInv, ShapeInv, DistinctInv
<1>3. CASE ReviewPage
  <2> DEFINE passed == IF scan = "recent" THEN Old ELSE {}
             fresh == New(SitePage(pos))
             fit == InWindow(SitePage(pos))
             n == Least(Len(fit), Limit - Len(got))
             taken == SubSeq(fit, 1, n)
  <2>1. got' = got \o taken /\ pos' = pos + 1
    BY <1>3 DEF ReviewPage
  <2>2. fresh \in Seq(Items) /\ IsInjective(fresh) /\ Range(fresh) \cap Range(got) = {}
    BY <1>2, PageFacts, NewFacts
  <2>3. fit = Without(fresh, passed)
    BY DEF InWindow
  <2> HIDE DEF fresh, fit, passed
  <2>4. fit \in Seq(Items) /\ IsInjective(fit) /\ Range(fit) = Range(fresh) \ passed
    BY <2>2, <2>3, WithoutFacts
  <2>5. n \in Int /\ n <= Len(fit) /\ n <= Limit - Len(got) /\ Len(fit) \in Nat
    BY <1>2, <2>4, CollectNumbers, LenProperties DEF Least
  <2> HIDE DEF n
  <2>6. /\ taken \in Seq(Items) /\ Len(taken) = (IF 1 <= n THEN n - 1 + 1 ELSE 0)
        /\ Range(taken) \subseteq Range(fit) /\ IsInjective(taken)
    BY <2>4, <2>5, PieceFacts
  <2> HIDE DEF taken
  <2>7. Range(taken) \cap Range(got) = {}
    BY <2>2, <2>4, <2>6
  <2>8. /\ got' \in Seq(Items) /\ IsInjective(got') /\ Range(got') = Range(got) \cup Range(taken)
        /\ Len(got') = Len(got) + Len(taken)
    BY <1>2, <2>1, <2>6, <2>7, ConcatFacts, ConcatProperties
  <2>9. ASSUME scan = "recent" /\ via' = "http" PROVE Len(got') <= Limit /\ Range(got') \cap Old = {}
    <3>1. Len(got) <= Limit /\ Range(got) \cap Old = {}
      BY <1>1, <2>9 DEF CleanInv, RecentInv
    <3>2. Range(taken) \cap Old = {}
      BY <2>4, <2>6, <2>9 DEF passed
    <3>3. Len(got') <= Limit
      BY <1>2, <2>5, <2>6, <2>8, <3>1, CollectNumbers
    <3> QED  BY <2>8, <3>1, <3>2, <3>3
  <2>10. pos' \in Nat \ {0}
    BY <1>2, <2>1
  <2> QED  BY <1>1, <2>8, <2>9, <2>10, Onward
<1>4. CASE ReviewPageFails
  <2>1. got' = <<>> /\ pos' = pos
    BY <1>4 DEF ReviewPageFails, Stop
  <2> QED  BY <1>1, <1>2, <2>1, NothingFacts, CollectNumbers, Onward
<1> QED  BY <1>3, <1>4

(* The replayed pages of the captcha fallback are pages of one moment.      *)
LEMMA ReplayedFacts ==
  ASSUME ListsInv, NEW pages
  PROVE  Replayed(pages) \in Seq(Items) /\ IsInjective(Replayed(pages))
<1> DEFINE n == Pages(Limit)
           held(p) == IF p \in pages THEN SitePage(p) ELSE <<>>
           f == [p \in 1..n |-> held(p)]
<1>1. n \in Nat
  BY CollectNumbers DEF Pages
<1>2. Replayed(pages) = FlattenSeq(f)
  BY DEF Replayed
<1> HIDE DEF n
<1>3. \A p \in 1..n : held(p) \in Seq(Items) /\ IsInjective(held(p))
  <2>1. \A p \in 1..n : p \in Nat \ {0}
    BY <1>1
  <2> QED  BY <2>1, PageFacts, NothingFacts
<1>4. \A p, q \in 1..n : p # q => Range(held(p)) \cap Range(held(q)) = {}
  <2>1. \A p \in 1..n : p \in Nat \ {0}
    BY <1>1
  <2> QED  BY <2>1, PagesApart, NothingFacts
<1> HIDE DEF held
<1>5. f \in Seq(Seq(Items)) /\ Len(f) = n /\ \A p \in 1..n : f[p] = held(p)
  <2>1. f \in Seq(Seq(Items))
    BY <1>1, <1>3, IsASeq
  <2>2. DOMAIN f = 1..n
    OBVIOUS
  <2> HIDE DEF f
  <2>3. Len(f) = n
    BY <1>1, <2>1, <2>2, LenProperties
  <2> QED  BY <2>1, <2>3 DEF f
<1> HIDE DEF f
<1> QED  BY <1>2, <1>3, <1>4, <1>5, FlattenFacts

(* A captcha starts over in the browser. *)
LEMMA CaptchaClean == ASSUME CleanInv, ReviewCaptcha PROVE CleanInv'
<1>1. /\ scan \in {"reviews", "recent"} /\ UNCHANGED <<scan, site, added, gone>>
      /\ scan \notin DOMAIN Sources /\ via' = "browser" /\ status' # "cards"
  BY SourceFacts DEF ReviewCaptcha, Stop
<1>2. ListsInv /\ pos \in Nat \ {0} /\ pos' = pos
  BY <1>1 DEF CleanInv, ShapeInv, ReviewCaptcha, Stop
<1>3. (\E pages \in SUBSET (1..Pages(Limit)) : got' = Replayed(pages)) \/ got' = <<>>
  BY DEF ReviewCaptcha
<1>4. got' \in Seq(Items) /\ IsInjective(got')
  BY <1>2, <1>3, ReplayedFacts, NothingFacts
<1> QED  BY <1>1, <1>2, <1>4, Onward


(* A scroll of the search: the entries of the script are the first to be     *)
(* read, what the responses add is deduplicated.                            *)
LEMMA ScrollClean ==
  ASSUME CleanInv, NEW grows \in BOOLEAN, NEW read \in BOOLEAN, Scroll(grows, read) PROVE CleanInv'
<1>1. /\ scan = "scroll" /\ scan \notin DOMAIN Sources /\ UNCHANGED <<scan, site, added, gone>>
      /\ status' # "cards" /\ last' = last + 1 /\ (pos' = pos \/ pos' = pos + 1)
  BY SourceFacts DEF Scroll
<1>2. /\ ListsInv /\ got \in Seq(Items) /\ IsInjective(got) /\ pos \in Nat \ {0}
      /\ last \in Nat \ {0} /\ (last = 1 => got = <<>>)
  BY <1>1 DEF CleanInv, ShapeInv, DistinctInv
<1>3. pos' \in Nat \ {0} /\ last' \in Nat \ {0} /\ last' # 1
  BY <1>1, <1>2
<1>4. SitePage(pos) \in Seq(Items) /\ IsInjective(SitePage(pos))
  BY <1>2, PageFacts
<1>5. got' = got \o IF last = 1 THEN SsrItems(read) ELSE Captured(read)
  BY DEF Scroll
<1>6. CASE last = 1
  <2>1. SsrItems(read) \in Seq(Items) /\ IsInjective(SsrItems(read))
    BY <1>4, NothingFacts DEF SsrItems
  <2>2. got' = <<>> \o SsrItems(read)
    BY <1>2, <1>5, <1>6
  <2>3. got' = SsrItems(read)
    BY <2>1, <2>2, ConcatEmptySeq
  <2> QED  BY <1>1, <1>3, <2>1, <2>3, Onward
<1>7. CASE last # 1
  <2>1. got' = got \o New(SitePage(pos)) \/ got' = got \o <<>>
    BY <1>5, <1>7 DEF Captured
  <2>2. got \o <<>> = got
    BY <1>2, ConcatEmptySeq
  <2>3. got' \in Seq(Items) /\ IsInjective(got')
    BY <1>2, <1>4, <2>1, <2>2, NewFacts
  <2> QED  BY <1>1, <1>3, <2>3, Onward
<1> QED  BY <1>6, <1>7

(* The end of a collect: nothing, or the first of what was found. *)
LEMMA FinishFacts ==
  ASSUME NEW items \in Seq(Items), IsInjective(items), Finish(items)
  PROVE  got' \in Seq(Items) /\ IsInjective(got') /\ status' \in {"done", "raised"}
<1>1. CASE items = <<>>
  BY <1>1, NothingFacts DEF Finish
<1>2. CASE items # <<>>
  <2> DEFINE n == Least(Len(items), Limit)
  <2>1. n \in Int /\ n <= Len(items)
    BY CollectNumbers, LenProperties DEF Least
  <2>2. got' = SubSeq(items, 1, n) /\ status' = "done"
    BY <1>2 DEF Finish
  <2> HIDE DEF n
  <2> QED  BY <2>1, <2>2, PieceFacts
<1> QED  BY <1>1, <1>2

(* To the next feed of a source, or to its end. *)
LEMMA NextFeedClean ==
  ASSUME CleanInv, scan \in DOMAIN Sources, status = "scanning", UNCHANGED <<scan, site, added, gone>>,
         NEW items \in Seq(Items), IsInjective(items),
         NextFeed(items)
  PROVE  CleanInv'
<1>1. /\ Sources[scan].reads \in 1..3 /\ pos \in Nat \ {0} /\ pos <= Sources[scan].reads
      /\ scan \notin {"gigs", "scroll", "recent"}
      /\ scan \in {"habr", "superjob", "youdo"} => Sources[scan].reads = 1
  BY SourceFacts DEF CleanInv, ShapeInv, Sources, Habr, Superjob, Youdo
<1>2. CASE pos < Sources[scan].reads
  <2>1. pos' = pos + 1 /\ got' = items /\ status' = "scanning"
    BY <1>2 DEF NextFeed
  <2>2. scan \notin {"habr", "superjob", "youdo"} /\ pos' \in Nat \ {0} /\ pos' <= Sources[scan].reads
    BY <1>1, <1>2, <2>1
  <2> QED  BY <1>1, <2>1, <2>2, Onward
<1>3. CASE ~(pos < Sources[scan].reads)
  <2>1. pos' = pos /\ Finish(items)
    BY <1>3 DEF NextFeed
  <2>2. got' \in Seq(Items) /\ IsInjective(got') /\ status' \in {"done", "raised"}
    BY <2>1, FinishFacts
  <2> QED  BY <1>1, <2>1, <2>2, Onward
<1> QED  BY <1>2, <1>3

(* A feed of a source: those that take theirs as it is read one. *)
LEMMA FeedClean == ASSUME CleanInv, Feed \/ FeedFails PROVE CleanInv'
<1>1. /\ scan \in DOMAIN Sources /\ status = "scanning" /\ UNCHANGED <<scan, site, added, gone>>
  BY DEF Feed, FeedFails, Keep, Lose
<1>2. /\ pos \in 1..3 /\ scan \notin {"gigs", "scroll", "recent"}
      /\ ListsInv /\ got \in Seq(Items) /\ IsInjective(got)
      /\ Sources[scan].distinct \/ got = <<>>
  BY <1>1, SourceFacts DEF CleanInv, ShapeInv, DistinctInv
<1>3. site[pos] \in Seq(Items) /\ IsInjective(site[pos])
  BY <1>2 DEF ListsInv
<1>4. CASE Feed
  <2> DEFINE items == got \o IF Sources[scan].distinct THEN New(site[pos]) ELSE site[pos]
  <2>1. NextFeed(items)
    BY <1>4 DEF Feed
  <2>2. items = got \o New(site[pos]) \/ items = site[pos]
    BY <1>2, <1>3, ConcatEmptySeq
  <2>3. items \in Seq(Items) /\ IsInjective(items)
    <3> HIDE DEF items
    <3> QED  BY <1>2, <1>3, <2>2, NewFacts
  <2> HIDE DEF items
  <2> QED  BY <1>1, <2>1, <2>3, NextFeedClean
<1>5. CASE FeedFails
  <2>1. CASE Sources[scan].tolerant
    BY <1>1, <1>2, <1>5, <2>1, NextFeedClean DEF FeedFails
  <2>2. CASE ~Sources[scan].tolerant
    <3>1. pos' = pos /\ status' = "raised" /\ got' = <<>>
      BY <1>5, <2>2 DEF FeedFails
    <3> QED  BY <1>1, <1>2, <3>1, NothingFacts, Onward
  <2> QED  BY <2>1, <2>2
<1> QED  BY <1>4, <1>5

(* A page of avito: the answer is one filtered page, or what is new and      *)
(* relevant of the pages of the whole listing.                             *)
LEMMA AvitoClean == ASSUME CleanInv, AvitoPage \/ AvitoPageFails PROVE CleanInv'
<1>1. /\ scan = "avito" /\ scan \notin DOMAIN Sources /\ status = "scanning"
      /\ UNCHANGED <<scan, site, added, gone>>
  BY SourceFacts DEF AvitoPage, AvitoPageFails, Keep, Lose
<1>2. ListsInv /\ got \in Seq(Items) /\ IsInjective(got) /\ pos \in Nat \ {0}
  BY <1>1 DEF CleanInv, ShapeInv, DistinctInv
<1>3. CASE AvitoPage /\ pos <= 2 /\ site[pos + 1] # <<>>
  <2>1. pos' = pos /\ Finish(site[pos + 1])
    BY <1>3 DEF AvitoPage
  <2>2. pos + 1 \in 1..3
    BY <1>2, <1>3
  <2>3. site[pos + 1] \in Seq(Items) /\ IsInjective(site[pos + 1])
    BY <1>2, <2>2 DEF ListsInv
  <2>4. got' \in Seq(Items) /\ IsInjective(got') /\ status' \in {"done", "raised"}
    BY <2>1, <2>3, FinishFacts
  <2> QED  BY <1>1, <1>2, <2>1, <2>4, Onward
<1>4. CASE AvitoPage /\ pos <= 2 /\ site[pos + 1] = <<>>
  <2>1. pos' = pos + 1 /\ got' = got /\ status' = status
    BY <1>4 DEF AvitoPage
  <2> QED  BY <1>1, <1>2, <2>1, Onward
<1>5. CASE AvitoPage /\ ~(pos <= 2)
  <2> DEFINE p == pos - 2
             fresh == New(SitePage(p))
             found == Without(fresh, Items \ Relevant)
             all == got \o found
  <2>1. p \in Nat \ {0}
    BY <1>2, <1>5
  <2>2. \/ pos' = pos /\ Finish(all)
        \/ pos' = pos + 1 /\ got' = all /\ status' = status
    BY <1>5 DEF AvitoPage, Filtered
  <2> HIDE DEF p
  <2>3. fresh \in Seq(Items) /\ IsInjective(fresh) /\ Range(fresh) \cap Range(got) = {}
    BY <1>2, <2>1, PageFacts, NewFacts
  <2> HIDE DEF fresh
  <2>4. found \in Seq(Items) /\ IsInjective(found) /\ Range(found) \cap Range(got) = {}
    BY <2>3, WithoutFacts
  <2> HIDE DEF found
  <2>5. all \in Seq(Items) /\ IsInjective(all)
    BY <1>2, <2>4, ConcatFacts
  <2> HIDE DEF all
  <2>6. CASE pos' = pos /\ Finish(all)
    <3>1. got' \in Seq(Items) /\ IsInjective(got') /\ status' \in {"done", "raised"}
      BY <2>5, <2>6, FinishFacts
    <3> QED  BY <1>1, <1>2, <2>6, <3>1, Onward
  <2>7. CASE pos' = pos + 1 /\ got' = all /\ status' = status
    BY <1>1, <1>2, <2>5, <2>7, Onward
  <2> QED  BY <2>2, <2>6, <2>7
<1>6. CASE AvitoPageFails
  <2>1. pos' = pos /\ got' = <<>> /\ status' = "raised"
    BY <1>6 DEF AvitoPageFails, Stop
  <2> QED  BY <1>1, <1>2, <2>1, NothingFacts, Onward
<1> QED  BY <1>3, <1>4, <1>5, <1>6

(* Every step of a scan keeps the invariant. *)
LEMMA CollectStepClean == CleanInv /\ [CollectNext]_scanVars => CleanInv'
<1> SUFFICES ASSUME CleanInv, [CollectNext]_scanVars PROVE CleanInv'
  OBVIOUS
<1>1. CASE CatalogPage \/ CatalogPageFails
  BY <1>1, CatalogClean
<1>2. CASE (\E ok \in BOOLEAN : CardFetched(ok)) \/ CardsDone
  BY <1>2, CardsClean
<1>3. CASE GigBatch \/ GigBatchFails
  BY <1>3, GigsClean
<1>4. CASE ReviewPage \/ ReviewPageFails
  BY <1>4, ReviewsClean
<1>5. CASE ReviewCaptcha
  BY <1>5, CaptchaClean
<1>6. CASE \E grows, read \in BOOLEAN : Scroll(grows, read)
  BY <1>6, ScrollClean
<1>7. CASE Feed \/ FeedFails
  BY <1>7, FeedClean
<1>8. CASE AvitoPage \/ AvitoPageFails
  BY <1>8, AvitoClean
<1>9. CASE Publish
  BY <1>9, PublishClean
<1>10. CASE Withdraw
  BY <1>10, WithdrawClean
<1>11. CASE UNCHANGED scanVars
  BY <1>11 DEF CleanInv, ShapeInv, ListsInv, DistinctInv, RecentInv, Sources, Catalogs,
               scanVars, progress
<1> QED  BY <1>1, <1>2, <1>3, <1>4, <1>5, <1>6, <1>7, <1>8, <1>9, <1>10, <1>11
         DEF CollectNext, ScanStep

(* A scan that keeps the invariant returns a clean result. *)
LEMMA CleanIsClean == CleanInv => ResultIsClean
<1> SUFFICES ASSUME CleanInv PROVE ResultIsClean
  OBVIOUS
<1>1. ASSUME scan = "gigs", added + gone = 0 PROVE IsInjective(got)
  <2>1. site[1] \in Seq(Items) /\ IsInjective(site[1]) /\ pos \in Nat
    BY DEF CleanInv, ShapeInv, ListsInv
  <2>2. pos <= Len(site[1]) /\ got = SubSeq(site[1], 1, pos)
    BY <1>1 DEF CleanInv, DistinctInv
  <2> QED  BY <2>1, <2>2, PieceFacts
<1>2. scan # "gigs" => IsInjective(got)
  BY DEF CleanInv, DistinctInv
<1>3. scan = "recent" /\ via = "http" => Len(got) <= Limit /\ Range(got) \cap Old = {}
  BY DEF CleanInv, RecentInv
<1> QED  BY <1>1, <1>2, <1>3 DEF ResultIsClean

(* Whatever a site publishes and withdraws while it is scanned: no scan       *)
(* returns an item twice, but for a seller's gigs, and then only if they      *)
(* changed; and the reviews since a date keep to the date and to max_count.   *)
THEOREM ScansReturnNothingTwice == CollectSpec => []ResultIsClean
<1>1. CollectInit => CleanInv
  BY CollectInitClean
<1>2. CleanInv /\ [CollectNext]_scanVars => CleanInv'
  BY CollectStepClean
<1>3. CleanInv => ResultIsClean
  BY CleanIsClean
<1> QED  BY <1>1, <1>2, <1>3, PTL DEF CollectSpec


-----------------------------------------------------------------------------
(* What is read of a listing that holds still is a prefix of it *)

(* A prefix of a sequence. *)
LEMMA PrefixFacts ==
  ASSUME NEW S, NEW s \in Seq(S), NEW n \in Nat
  PROVE  /\ FirstOf(n, s) \in Seq(S) /\ Len(FirstOf(n, s)) = Least(n, Len(s)) /\ Len(s) \in Nat
         /\ \A i \in 1..Least(n, Len(s)) : FirstOf(n, s)[i] = s[i]
         /\ Range(FirstOf(n, s)) = {s[i] : i \in 1..Least(n, Len(s))}
         /\ Len(s) <= n => FirstOf(n, s) = s
         /\ n = 0 => FirstOf(n, s) = <<>>
<1> DEFINE m == Least(n, Len(s))
<1>1. Len(s) \in Nat /\ m \in Nat /\ m <= Len(s) /\ (Len(s) <= n => m = Len(s)) /\ (n = 0 => m = 0)
  BY LenProperties DEF Least
<1>2. FirstOf(n, s) = SubSeq(s, 1, m)
  BY DEF FirstOf
<1> HIDE DEF m
<1>3. /\ SubSeq(s, 1, m) \in Seq(S) /\ Len(SubSeq(s, 1, m)) = (IF 1 <= m THEN m - 1 + 1 ELSE 0)
      /\ Range(SubSeq(s, 1, m)) = {s[i] : i \in 1..m}
  BY <1>1, PieceFacts
<1>4. \A i \in 1..m : SubSeq(s, 1, m)[i] = s[i]
  <2>1. \A i \in 1..m : s[i] \in S
    BY <1>1, ElementOfSeq
  <2>2. \A i \in 1..(m - 1 + 1) : SubSeq(s, 1, m)[i] = s[1 + i - 1]
    BY <1>1, <2>1, SubSeqProperties
  <2> QED  BY <1>1, <2>2
<1>5. Len(s) <= n => SubSeq(s, 1, m) = s
  BY <1>1, SubSeqFull
<1>6. n = 0 => SubSeq(s, 1, m) = <<>>
  BY <1>1, SubSeqEmpty
<1> QED  BY <1>1, <1>2, <1>3, <1>4, <1>5, <1>6 DEF m

(* A longer prefix is a shorter one and the piece between the two. *)
LEMMA PrefixSplit ==
  ASSUME NEW S, NEW s \in Seq(S), NEW a \in Nat, NEW b \in Nat, a <= b
  PROVE  FirstOf(b, s) = FirstOf(a, s) \o SubSeq(s, a + 1, Least(b, Len(s)))
<1> DEFINE n == Least(b, Len(s))
<1>1. Len(s) \in Nat /\ n \in Nat /\ n <= Len(s) /\ (a <= Len(s) => a <= n)
  BY LenProperties DEF Least
<1>2. FirstOf(b, s) = SubSeq(s, 1, n)
  BY DEF FirstOf
<1>3. CASE a <= Len(s)
  <2>1. FirstOf(a, s) = SubSeq(s, 1, a)
    BY <1>1, <1>3 DEF FirstOf, Least
  <2> HIDE DEF n
  <2>2. 1 \in 1..(Len(s) + 1) /\ a \in (1 - 1)..Len(s) /\ n \in a..Len(s)
    BY <1>1, <1>3
  <2>3. SubSeq(s, 1, a) \o SubSeq(s, a + 1, n) = SubSeq(s, 1, n)
    BY <2>2, ConcatAdjacentSubSeq
  <2> QED  BY <1>2, <2>1, <2>3 DEF n
<1>4. CASE a > Len(s)
  <2>0. Len(s) <= a /\ Len(s) <= b
    BY <1>1, <1>4
  <2>1. FirstOf(a, s) = s /\ FirstOf(b, s) = s
    BY <2>0, PrefixFacts
  <2> HIDE DEF n
  <2>2. SubSeq(s, a + 1, n) = <<>>
    BY <1>1, <1>4, SubSeqEmpty
  <2> QED  BY <2>1, <2>2, ConcatEmptySeq DEF n
<1> QED  BY <1>1, <1>3, <1>4

(* A prefix of two sequences joined. *)
LEMMA PrefixOfConcat ==
  ASSUME NEW S, NEW s \in Seq(S), NEW t \in Seq(S), NEW n \in Nat
  PROVE  /\ n <= Len(s) => FirstOf(n, s \o t) = FirstOf(n, s)
         /\ Len(s) <= n => FirstOf(n, s \o t) = s \o FirstOf(n - Len(s), t)
<1> DEFINE left == FirstOf(n, s \o t)
<1>1. /\ s \o t \in Seq(S) /\ Len(s \o t) = Len(s) + Len(t) /\ Len(s) \in Nat /\ Len(t) \in Nat
      /\ \A i \in 1..(Len(s) + Len(t)) : (s \o t)[i] = IF i <= Len(s) THEN s[i] ELSE t[i - Len(s)]
  BY ConcatProperties, LenProperties
<1>2. /\ left \in Seq(S) /\ Len(left) = Least(n, Len(s) + Len(t))
      /\ \A i \in 1..Least(n, Len(s) + Len(t)) : left[i] = (s \o t)[i]
  BY <1>1, PrefixFacts
<1> HIDE DEF left
<1>3. ASSUME n <= Len(s) PROVE left = FirstOf(n, s)
  <2> DEFINE right == FirstOf(n, s)
  <2>1. right \in Seq(S) /\ Len(right) = Least(n, Len(s)) /\ \A i \in 1..Least(n, Len(s)) : right[i] = s[i]
    BY PrefixFacts
  <2> HIDE DEF right
  <2>2. Len(left) = Len(right) /\ \A i \in 1..Len(left) : left[i] = right[i]
    BY <1>1, <1>2, <1>3, <2>1 DEF Least
  <2> QED  BY <1>2, <2>1, <2>2, SeqEqual DEF right
<1>4. ASSUME Len(s) <= n PROVE left = s \o FirstOf(n - Len(s), t)
  <2> DEFINE rest == FirstOf(n - Len(s), t)
             right == s \o rest
  <2>1. n - Len(s) \in Nat
    BY <1>1, <1>4
  <2>2. /\ rest \in Seq(S) /\ Len(rest) = Least(n - Len(s), Len(t))
        /\ \A i \in 1..Least(n - Len(s), Len(t)) : rest[i] = t[i]
    BY <2>1, PrefixFacts
  <2> HIDE DEF rest
  <2>3. /\ right \in Seq(S) /\ Len(right) = Len(s) + Len(rest)
        /\ \A i \in 1..(Len(s) + Len(rest)) : right[i] = IF i <= Len(s) THEN s[i] ELSE rest[i - Len(s)]
    BY <2>2, ConcatProperties
  <2> HIDE DEF right
  <2>4. Len(left) = Len(right)
    BY <1>1, <1>2, <1>4, <2>2, <2>3 DEF Least
  <2>5. ASSUME NEW i \in 1..Len(left) PROVE left[i] = right[i]
    <3>1. i \in 1..(Len(s) + Len(t)) /\ left[i] = (s \o t)[i] /\ i \in 1..(Len(s) + Len(rest))
      BY <1>1, <1>2, <1>4, <2>2, <2>3 DEF Least
    <3>2. CASE i <= Len(s)
      BY <1>1, <2>3, <3>1, <3>2
    <3>3. CASE i > Len(s)
      <4>1. i - Len(s) \in 1..Least(n - Len(s), Len(t))
        BY <1>1, <1>2, <1>4, <3>3, <3>1 DEF Least
      <4> QED  BY <1>1, <2>2, <2>3, <3>1, <3>3, <4>1
    <3> QED  BY <1>1, <3>2, <3>3
  <2> QED  BY <1>2, <2>3, <2>4, <2>5, SeqEqual DEF right, rest
<1> QED  BY <1>3, <1>4 DEF left

(* What is taken of a page that has one item more. *)
LEMMA WithoutAppend ==
  ASSUME NEW S, NEW s \in Seq(S), NEW e \in S, NEW passed
  PROVE  Without(Append(s, e), passed) =
           IF e \in passed THEN Without(s, passed) ELSE Append(Without(s, passed), e)
<1> DEFINE more == Append(s, e)
<1>1. /\ Len(s) \in Nat /\ Len(more) = Len(s) + 1 /\ more[Len(s) + 1] = e
      /\ \A i \in 1..Len(s) : more[i] = s[i]
  BY AppendProperties, LenProperties
<1> HIDE DEF more
<1>2. PICK t : Steps(t, s, passed)
  BY <1>1, WithoutSteps
<1>3. PICK u : Steps(u, more, passed)
  BY <1>1, WithoutSteps
<1> DEFINE T == {i \in 0..Len(s) : u[i] = t[i]}
<1>4. 0 \in T
  BY <1>1, <1>2, <1>3 DEF Steps
<1>5. ASSUME NEW i \in 0..(Len(s) - 1), i \in T PROVE i + 1 \in T
  <2>1. i + 1 \in 1..Len(s) /\ i \in 0..(Len(more) - 1) /\ u[i] = t[i]
    BY <1>1, <1>5
  <2>2. t[i + 1] = IF s[i + 1] \in passed THEN t[i] ELSE Append(t[i], s[i + 1])
    BY <1>2 DEF Steps
  <2>3. u[i + 1] = IF more[i + 1] \in passed THEN u[i] ELSE Append(u[i], more[i + 1])
    BY <1>3, <2>1 DEF Steps
  <2> QED  BY <1>1, <2>1, <2>2, <2>3
<1>6. u[Len(s)] = t[Len(s)]
  <2> HIDE DEF T
  <2>1. \A i \in 0..Len(s) : i \in T
    BY <1>1, <1>4, <1>5, Ascend
  <2> QED  BY <1>1, <2>1 DEF T
<1>7. u[Len(s) + 1] = IF e \in passed THEN u[Len(s)] ELSE Append(u[Len(s)], e)
  <2>1. Len(s) \in 0..(Len(more) - 1)
    BY <1>1
  <2> QED  BY <1>1, <1>3, <2>1 DEF Steps
<1>8. Without(s, passed) = t[Len(s)] /\ Without(more, passed) = u[Len(s) + 1]
  BY <1>1, <1>2, <1>3 DEF Steps
<1> QED  BY <1>6, <1>7, <1>8 DEF more

(* What is taken of two pages is what is taken of each. *)
LEMMA WithoutConcat ==
  ASSUME NEW S, NEW s \in Seq(S), NEW t \in Seq(S), NEW passed
  PROVE  Without(s \o t, passed) = Without(s, passed) \o Without(t, passed)
<1>1. Len(t) \in Nat /\ Without(s, passed) \in Seq(S)
  BY LenProperties, WithoutFacts
<1> DEFINE front(i) == SubSeq(t, 1, i)
           Good(i) == Without(s \o front(i), passed) = Without(s, passed) \o Without(front(i), passed)
           T == {i \in 0..Len(t) : Good(i)}
<1>2. Good(0)
  <2>1. front(0) = <<>> /\ s \o <<>> = s /\ Without(s, passed) \o <<>> = Without(s, passed)
    BY <1>1, SubSeqEmpty, ConcatEmptySeq
  <2>2. Without(<<>>, passed) = <<>>
    <3>1. <<>> \in Seq(S) /\ Range(<<>>) = {}
      BY EmptySeq DEF Range
    <3> QED  BY <3>1, WithoutFacts
  <2> QED  BY <2>1, <2>2
<1>3. ASSUME NEW i \in 0..(Len(t) - 1), Good(i) PROVE Good(i + 1)
  <2> DEFINE f == front(i)
             e == t[i + 1]
  <2>1. f \in Seq(S) /\ e \in S
    BY <1>1, ElementOfSeq, PieceFacts
  <2>2. front(i + 1) = Append(f, e)
    <3>1. SubSeq(t, 1, i + 1) = SubSeq(t, 1, (i + 1) - 1) \o <<t[i + 1]>>
      BY <1>1, SubSeqRecursiveSecond
    <3> QED  BY <2>1, <3>1, AppendIsConcat
  <2>3. Without(s \o f, passed) = Without(s, passed) \o Without(f, passed)
    BY <1>3
  <2> HIDE DEF f, e, front
  <2>4. s \o f \in Seq(S) /\ Without(f, passed) \in Seq(S)
    BY <2>1, ConcatProperties, WithoutFacts
  <2>5. s \o Append(f, e) = Append(s \o f, e)
    <3>1. <<e>> \in Seq(S)
      BY <2>1
    <3>2. Append(f, e) = f \o <<e>> /\ Append(s \o f, e) = (s \o f) \o <<e>>
      BY <2>1, <2>4, AppendIsConcat
    <3> QED  BY <2>1, <3>1, <3>2, ConcatAssociative
  <2> DEFINE ws == Without(s, passed)
             wf == Without(f, passed)
  <2>6. ws \o Append(wf, e) = Append(ws \o wf, e)
    <3>1. <<e>> \in Seq(S) /\ ws \in Seq(S) /\ wf \in Seq(S)
      BY <1>1, <2>1, <2>4
    <3> HIDE DEF ws, wf
    <3>2. ws \o wf \in Seq(S)
      BY <3>1, ConcatProperties
    <3>3. Append(wf, e) = wf \o <<e>> /\ Append(ws \o wf, e) = (ws \o wf) \o <<e>>
      BY <2>1, <3>1, <3>2, AppendIsConcat
    <3> QED  BY <3>1, <3>3, ConcatAssociative
  <2>7. Without(Append(f, e), passed) = IF e \in passed THEN wf ELSE Append(wf, e)
    BY <2>1, WithoutAppend
  <2>9. Without(Append(s \o f, e), passed) =
          IF e \in passed THEN Without(s \o f, passed) ELSE Append(Without(s \o f, passed), e)
    <3> DEFINE both == s \o f
    <3>1. both \in Seq(S)
      BY <2>4
    <3> HIDE DEF both
    <3>2. Without(Append(both, e), passed) =
            IF e \in passed THEN Without(both, passed) ELSE Append(Without(both, passed), e)
      BY <2>1, <3>1, WithoutAppend
    <3> QED  BY <3>2 DEF both
  <2>8. Without(s \o Append(f, e), passed) = Without(s, passed) \o Without(Append(f, e), passed)
    BY <2>3, <2>5, <2>6, <2>7, <2>9
  <2> QED  BY <2>2, <2>8
<1>4. Good(Len(t))
  <2> HIDE DEF Good
  <2>1. 0 \in T /\ \A i \in 0..(Len(t) - 1) : i \in T => i + 1 \in T
    BY <1>1, <1>2, <1>3
  <2> HIDE DEF T
  <2>2. \A i \in 0..Len(t) : i \in T
    BY <1>1, <2>1, Ascend
  <2> QED  BY <1>1, <2>2 DEF T
<1>5. front(Len(t)) = t
  BY SubSeqFull
<1> QED  BY <1>4, <1>5

(* As many pages as Pages says hold n items, and one less does not. *)
LEMMA PagesFacts ==
  ASSUME NEW n \in Nat
  PROVE  /\ Pages(n) \in Nat /\ n <= Pages(n) * Per /\ (n = 0 => Pages(n) = 0)
         /\ n # 0 => Pages(n) # 0 /\ (Pages(n) - 1) * Per < n
<1>1. Per \in Nat \ {0} /\ n + Per - 1 \in Nat
  BY CollectNumbers
<1> DEFINE x == n + Per - 1
           q == x \div Per
<1>2. q \in Nat /\ q * Per <= x /\ x < q * Per + Per
  BY <1>1, QuotientFacts
<1>3. Pages(n) = q
  BY DEF Pages
<1> HIDE DEF q
<1>4. q * Per \in Nat /\ (q - 1) * Per = q * Per - Per
  BY <1>1, <1>2
<1>5. n = 0 => q = 0
  <2> SUFFICES ASSUME n = 0, q # 0 PROVE FALSE
    OBVIOUS
  <2>1. 1 \in Nat /\ 1 <= q /\ Per \in Nat
    BY <1>1, <1>2
  <2>2. 1 * Per <= q * Per
    BY <1>2, <2>1, ProductGrows
  <2> QED  BY <1>1, <1>2, <2>2
<1>6. n # 0 => q # 0
  BY <1>1, <1>2
<1> QED  BY <1>1, <1>2, <1>3, <1>4, <1>5, <1>6


-----------------------------------------------------------------------------
(* The scan of a listing that holds still *)

(* Nothing failed, nothing changed, no captcha, and the listing is one the scan *)
(* can tell the end of.                                                         *)
Hold == lost = 0 /\ via = "http" /\ added + gone = 0 /\ Legible
(* What the pages before pos hold, and the pages a catalog is to get. *)
Read == FirstOf((pos - 1) * Per, site0[1])
Target == Least(MaxPages, Announced)

(* The listing is the one the scan began with. *)
TrackInv ==
  /\ lost \in Nat /\ site0 \in Sites
  /\ added + gone = 0 => site = site0

(* What each kind of scan has collected of the pages it has read, and that it *)
(* is not past its end.                                                       *)
CatalogInv == scan \in Catalogs =>
  got = Read /\ streak = 0 /\ (pos # 1 => last = Target /\ pos <= last)

ReviewsInv == scan \in {"reviews", "recent"} =>
  /\ got = Without(Read, IF scan = "recent" THEN Old ELSE {})
  /\ Len(got) < Limit /\ pos <= MaxPages

ScrollInv == scan = "scroll" =>
  /\ got = Read /\ entries = Len(got) /\ entries < Limit
  /\ pos <= last /\ last <= ScrollLimit + 1
  /\ pos < last => Len(site0[1]) <= (pos - 1) * Per

FeedInv == scan \in DOMAIN Sources => got = AllOnce(site0, pos - 1)

AvitoInv == scan = "avito" =>
  /\ pos <= 2 => got = <<>> /\ (pos = 2 => site0[2] = <<>>)
  /\ pos > 2 =>
       /\ site0[2] = <<>> /\ site0[3] = <<>>
       /\ got = Without(FirstOf((pos - 3) * Per, site0[1]), Items \ Relevant)
       /\ Len(got) < Limit /\ pos - 2 <= MaxPages

ReadInv == Hold /\ status = "scanning" =>
  CatalogInv /\ ReviewsInv /\ ScrollInv /\ FeedInv /\ AvitoInv

(* What the listing is scanned into once the scan is over. *)
EndedInv == Hold /\ status \in {"cards", "done"} => got = Wanted

(* The cards follow the ranking. *)
CardsInv == scan \in Catalogs /\ lost = 0 =>
  /\ status = "scanning" => cards = <<>>
  /\ status = "cards" => pos <= Len(Ranked) + 1 /\ cards = SubSeq(Ranked, 1, pos - 1)
  /\ status = "done" => cards = Ranked

(* A listing that only grows moves what was there behind the offset, never past *)
(* it unread.                                                                   *)
GigsInv == scan = "gigs" /\ lost = 0 /\ gone = 0 =>
  /\ Range(site0[1]) \subseteq Range(site[1])
  /\ \A i \in 1..Len(site[1]) :
       i <= pos /\ site[1][i] \in Range(site0[1]) => site[1][i] \in Range(got)
  /\ status = "done" => Len(site[1]) <= pos

KeptInv == TrackInv /\ ReadInv /\ EndedInv /\ CardsInv /\ GigsInv

(* As long as nothing changed, the listing is one of the assumption. *)
LEMMA HoldFacts ==
  ASSUME CleanInv, TrackInv, Hold
  PROVE  site = site0 /\ ListsInv /\ site0[1] \in Seq(Items) /\ Len(site0[1]) \in Nat
         /\ IsInjective(site0[1]) /\ DOMAIN site0[1] = 1..Len(site0[1]) /\ site0 \in Sites
<1>1. site = site0 /\ ListsInv /\ site0 \in Sites
  BY DEF CleanInv, ShapeInv, TrackInv, Hold
<1>2. site0[1] \in Seq(Items) /\ IsInjective(site0[1])
  BY <1>1 DEF ListsInv
<1> QED  BY <1>1, <1>2, LenProperties

(* The bounds of a page. *)
LEMMA PageBounds ==
  ASSUME NEW p \in Nat \ {0}
  PROVE  (p - 1) * Per \in Nat /\ p * Per \in Nat /\ p * Per = (p - 1) * Per + Per
         /\ (p - 1) * Per < p * Per
<1>1. Per \in Nat \ {0} /\ p - 1 \in Nat
  BY CollectNumbers
<1>2. (p - 1) * Per \in Nat
  BY <1>1
<1>3. p * Per = (p - 1) * Per + Per
  <2>1. ((p - 1) + 1) * Per = (p - 1) * Per + 1 * Per
    BY <1>1
  <2> QED  BY <1>1, <2>1
<1> DEFINE from == (p - 1) * Per
           to == p * Per
<1> HIDE DEF from, to
<1>4. from \in Nat /\ to = from + Per
  BY <1>2, <1>3 DEF from, to
<1>5. to \in Nat /\ from < to
  BY <1>1, <1>4
<1> QED  BY <1>4, <1>5 DEF from, to

(* A page continues what the pages before it hold, and shares nothing with it. *)
LEMMA PageReads ==
  ASSUME ListsInv, NEW p \in Nat \ {0}
  PROVE  /\ FirstOf(p * Per, site[1]) = FirstOf((p - 1) * Per, site[1]) \o SitePage(p)
         /\ Range(FirstOf((p - 1) * Per, site[1])) \cap Range(SitePage(p)) = {}
         /\ FirstOf((p - 1) * Per, site[1]) \in Seq(Items)
         /\ SitePage(p) = <<>> <=> Len(site[1]) <= (p - 1) * Per
<1> DEFINE s == site[1]
           from == (p - 1) * Per
           to == p * Per
           n == Least(to, Len(s))
<1>1. from \in Nat /\ to \in Nat /\ from < to
  BY PageBounds
<1>2. s \in Seq(Items) /\ IsInjective(s) /\ Len(s) \in Nat /\ DOMAIN s = 1..Len(s)
  BY LenProperties DEF ListsInv
<1>3. SitePage(p) = SubSeq(s, from + 1, n)
  BY DEF SitePage
<1> HIDE DEF s, from, to
<1>4. n \in Nat /\ n <= Len(s) /\ from + 1 \in Nat \ {0}
  BY <1>1, <1>2 DEF Least
<1>5. FirstOf(to, s) = FirstOf(from, s) \o SubSeq(s, from + 1, n)
  <2>1. from <= to
    BY <1>1
  <2> QED  BY <1>1, <1>2, <2>1, PrefixSplit
<1>6. /\ FirstOf(from, s) \in Seq(Items)
      /\ Range(FirstOf(from, s)) = {s[i] : i \in 1..Least(from, Len(s))}
  <2> HIDE DEF n
  <2>1. FirstOf(from, s) \in Seq(Items)
    BY <1>1, <1>2, PrefixFacts
  <2>0. s \in Seq(Items) /\ from \in Nat
    BY <1>1, <1>2
  <2>2. Range(FirstOf(from, s)) = {s[i] : i \in 1..Least(from, Len(s))}
    BY <2>0, PrefixFacts, Zenon
  <2> QED  BY <2>1, <2>2
<1>7. /\ Range(SubSeq(s, from + 1, n)) = {s[i] : i \in (from + 1)..n}
      /\ SubSeq(s, from + 1, n) \in Seq(Items)
      /\ Len(SubSeq(s, from + 1, n)) = IF from + 1 <= n THEN n - (from + 1) + 1 ELSE 0
  <2> HIDE DEF n
  <2> QED  BY <1>2, <1>4, PieceFacts
<1>8. \A i \in 1..Least(from, Len(s)), j \in (from + 1)..n : s[i] # s[j]
  BY <1>1, <1>2, <1>4 DEF IsInjective, Least
<1>9. Range(FirstOf(from, s)) \cap Range(SubSeq(s, from + 1, n)) = {}
  BY <1>6, <1>7, <1>8, Zenon
<1>10. SubSeq(s, from + 1, n) = <<>> <=> Len(s) <= from
  <2>1. SubSeq(s, from + 1, n) = <<>> <=> ~(from + 1 <= n)
    <3> DEFINE piece == SubSeq(s, from + 1, n)
    <3>1. piece \in Seq(Items) /\ Len(piece) = IF from + 1 <= n THEN n - (from + 1) + 1 ELSE 0
      BY <1>7
    <3> HIDE DEF piece, n
    <3>2. piece = <<>> <=> Len(piece) = 0
      BY <3>1, EmptySeq
    <3>3. Len(piece) = 0 <=> ~(from + 1 <= n)
      BY <1>1, <1>4, <3>1
    <3> QED  BY <3>2, <3>3 DEF piece
  <2>2. ~(from + 1 <= n) <=> Len(s) <= from
    BY <1>1, <1>2 DEF Least
  <2> QED  BY <2>1, <2>2
<1> QED  BY <1>3, <1>5, <1>6, <1>9, <1>10 DEF s, from, to

(* All of a page is new to a scan that has collected from the pages before. *)
LEMMA PageIsNew ==
  ASSUME ListsInv, NEW p \in Nat \ {0},
         Range(got) \subseteq Range(FirstOf((p - 1) * Per, site[1]))
  PROVE  New(SitePage(p)) = SitePage(p)
<1>1. Range(SitePage(p)) \cap Range(got) = {}
  BY PageReads
<1> QED  BY <1>1, PageFacts, WithoutFacts DEF New

(* Prefixes that both reach the end are the same. *)
LEMMA SamePrefix ==
  ASSUME NEW S, NEW s \in Seq(S), NEW a \in Nat, NEW b \in Nat,
         a = b \/ (Len(s) <= a /\ Len(s) <= b)
  PROVE  FirstOf(a, s) = FirstOf(b, s)
BY PrefixFacts

(* What a filtering scan has after a page is what passes of the pages so far. *)
LEMMA PageTaken ==
  ASSUME ListsInv, NEW p \in Nat \ {0}, NEW passed,
         got = Without(FirstOf((p - 1) * Per, site[1]), passed)
  PROVE  /\ New(SitePage(p)) = SitePage(p) /\ Without(SitePage(p), passed) \in Seq(Items)
         /\ got \o Without(SitePage(p), passed) = Without(FirstOf(p * Per, site[1]), passed)
<1> DEFINE before == FirstOf((p - 1) * Per, site[1])
           page == SitePage(p)
<1>1. /\ before \in Seq(Items) /\ page \in Seq(Items)
      /\ FirstOf(p * Per, site[1]) = before \o page
  BY PageReads, PageFacts
<1>2. got = Without(before, passed)
  OBVIOUS
<1> HIDE DEF before, page
<1>3. Range(got) \subseteq Range(before)
  BY <1>1, <1>2, WithoutFacts
<1>4. New(page) = page
  BY <1>3, PageIsNew DEF before, page
<1>5. Without(page, passed) \in Seq(Items)
  BY <1>1, WithoutFacts
<1>6. Without(before \o page, passed) = Without(before, passed) \o Without(page, passed)
  BY <1>1, WithoutConcat
<1> QED  BY <1>1, <1>2, <1>4, <1>5, <1>6 DEF page

(* Such a scan may end once it has its limit, or nothing that is left passes. *)
LEMMA EndTaken ==
  ASSUME NEW S, NEW s \in Seq(S), NEW p \in Nat, p <= MaxPages, NEW passed,
         \/ Limit <= Len(Without(FirstOf(p * Per, s), passed))
         \/ \A i \in (p * Per + 1)..Len(s) : i <= MaxPages * Per => s[i] \in passed
  PROVE  FirstOf(Limit, Without(FirstOf(p * Per, s), passed))
           = FirstOf(Limit, Without(FirstOf(MaxPages * Per, s), passed))
<1> DEFINE a == p * Per
           b == MaxPages * Per
           rest == SubSeq(s, a + 1, Least(b, Len(s)))
           head == FirstOf(a, s)
           all == Without(head, passed)
           more == Without(rest, passed)
<1>1. a \in Nat /\ b \in Nat /\ a <= b /\ Limit \in Nat
  BY CollectNumbers, ProductGrows
<1>2. Len(s) \in Nat
  BY LenProperties
<1>3. Limit <= Len(all) \/ \A i \in (a + 1)..Len(s) : i <= b => s[i] \in passed
  OBVIOUS
<1> HIDE DEF a, b
<1>4. head \in Seq(S) /\ FirstOf(b, s) = head \o rest
  BY <1>1, PrefixFacts, PrefixSplit
<1>5. Least(b, Len(s)) \in Nat /\ Least(b, Len(s)) <= Len(s) /\ Least(b, Len(s)) <= b
  BY <1>1, <1>2 DEF Least
<1>6. rest \in Seq(S) /\ Range(rest) = {s[i] : i \in (a + 1)..Least(b, Len(s))}
  <2> DEFINE n == Least(b, Len(s))
  <2> HIDE DEF n
  <2>1. SubSeq(s, a + 1, n) \in Seq(S) /\ Range(SubSeq(s, a + 1, n)) = {s[i] : i \in (a + 1)..n}
    BY <1>1, <1>2, <1>5, PieceFacts DEF n
  <2> QED  BY <2>1 DEF n
<1>9. /\ all \in Seq(S) /\ more \in Seq(S) /\ Range(more) = Range(rest) \ passed
      /\ Without(head \o rest, passed) = all \o more
  <2> HIDE DEF head, rest
  <2>1. all \in Seq(S)
    BY <1>4, WithoutFacts
  <2>2. more \in Seq(S) /\ Range(more) = Range(rest) \ passed
    BY <1>6, WithoutFacts
  <2>3. Without(head \o rest, passed) = all \o more
    BY <1>4, <1>6, WithoutConcat
  <2> QED  BY <2>1, <2>2, <2>3
<1>7. CASE Limit <= Len(all)
  <2> HIDE DEF head, rest
  <2>1. all \in Seq(S) /\ more \in Seq(S) /\ Without(head \o rest, passed) = all \o more
    BY <1>9
  <2> HIDE DEF all, more
  <2>2. FirstOf(Limit, all \o more) = FirstOf(Limit, all)
    BY <1>1, <1>7, <2>1, PrefixOfConcat
  <2> QED  BY <1>4, <2>1, <2>2 DEF a, b, all, head
<1>8. CASE \A i \in (a + 1)..Len(s) : i <= b => s[i] \in passed
  <2>1. \A i \in (a + 1)..Least(b, Len(s)) : s[i] \in passed
    BY <1>1, <1>2, <1>5, <1>8
  <2>2. Range(rest) \ passed = {}
    BY <1>6, <2>1
  <2> HIDE DEF head, rest
  <2>3. /\ all \in Seq(S) /\ more \in Seq(S) /\ Range(more) = {}
        /\ Without(head \o rest, passed) = all \o more
    BY <1>9, <2>2
  <2> HIDE DEF all, more
  <2>4. more = <<>>
    <3>1. DOMAIN more = {}
      BY <2>3 DEF Range
    <3>2. Len(more) \in Nat /\ DOMAIN more = 1..Len(more)
      BY <2>3, LenProperties
    <3>3. Len(more) = 0
      BY <3>1, <3>2
    <3> QED  BY <2>3, <3>3, EmptySeq
  <2>5. all \o more = all
    BY <2>3, <2>4, ConcatEmptySeq
  <2> QED  BY <1>4, <2>3, <2>5 DEF a, b, all, head
<1> QED  BY <1>3, <1>7, <1>8


(* Feeds read one after the other. *)
LEMMA AllOnceFacts ==
  ASSUME NEW feeds
  PROVE  /\ AllOnce(feeds, 0) = <<>>
         /\ \A n \in 1..3 :
              AllOnce(feeds, n) =
                AllOnce(feeds, n - 1) \o Without(feeds[n], Range(AllOnce(feeds, n - 1)))
<1> DEFINE join(all, f) == all \o Without(feeds[f], Range(all))
           one == join(<<>>, 1)
           two == join(one, 2)
           three == join(two, 3)
           value(n) == IF n = 0 THEN <<>> ELSE IF n = 1 THEN one ELSE IF n = 2 THEN two ELSE three
<1>1. ASSUME NEW n \in 0..3 PROVE AllOnce(feeds, n) = value(n)
  <2> DEFINE Solves(t) == t = [f \in 0..n |->
               IF f = 0 THEN <<>> ELSE t[f - 1] \o Without(feeds[f], Range(t[f - 1]))]
             choice == CHOOSE t : Solves(t)
  <2>1. AllOnce(feeds, n) = choice[n]
    BY Zenon DEF AllOnce
  <2>2. \E t : Solves(t)
    <3> DEFINE t == [f \in 0..n |-> value(f)]
    <3>1. \A f \in 0..n : t[f] = value(f)
      BY Zenon
    <3>2. \A f \in 0..n : f # 0 => f - 1 \in 0..n /\ f \in 1..3
      OBVIOUS
    <3>3. \A f \in 1..3 : value(f) = join(value(f - 1), f)
      <4> HIDE DEF join
      <4> QED  OBVIOUS
    <3> HIDE DEF t, value, one, two, three
    <3>4. \A f \in 0..n : t[f] = IF f = 0 THEN <<>> ELSE join(t[f - 1], f)
      <4>1. value(0) = <<>>
        BY DEF value
      <4> HIDE DEF join
      <4> QED  BY <3>1, <3>2, <3>3, <4>1
    <3> DEFINE v == [f \in 0..n |-> IF f = 0 THEN <<>> ELSE t[f - 1] \o Without(feeds[f], Range(t[f - 1]))]
    <3>5. \A f \in 0..n : t[f] = v[f]
      BY <3>4, Zenon
    <3>6. t = v
      BY <3>5 DEF t
    <3> QED  BY <3>6
  <2>3. Solves(choice)
    <3> HIDE DEF Solves
    <3> QED  BY <2>2, Zenon
  <2> HIDE DEF choice
  <2>4. \A f \in 0..n : choice[f] = IF f = 0 THEN <<>> ELSE join(choice[f - 1], f)
    BY <2>3, Zenon
  <2>5. choice[n] = value(n)
    <3> HIDE DEF join, Solves
    <3>1. choice[0] = <<>> /\ (n >= 1 => choice[1] = one) /\ (n >= 2 => choice[2] = join(choice[1], 2))
          /\ (n >= 3 => choice[3] = join(choice[2], 3))
      BY <2>4
    <3> QED  BY <3>1
  <2> QED  BY <2>1, <2>5
<1>2. \A n \in 1..3 : value(n) = join(value(n - 1), n)
  <2> HIDE DEF join
  <2> QED  OBVIOUS
<1>3. value(0) = <<>>
  OBVIOUS
<1>4. \A n \in 1..3 : n \in 0..3 /\ n - 1 \in 0..3
  OBVIOUS
<1> HIDE DEF value, one, two, three
<1>5. \A n \in 1..3 : AllOnce(feeds, n) = join(AllOnce(feeds, n - 1), n)
  <2> HIDE DEF join
  <2> QED  BY <1>1, <1>2, <1>4
<1>6. AllOnce(feeds, 0) = <<>>
  BY <1>1, <1>3
<1> QED  BY <1>5, <1>6, Zenon

(* What a step of a scan has to show of what it reads and returns. *)
LEMMA KeepRead ==
  ASSUME TrackInv, UNCHANGED <<scan, site, site0, added, gone>>,
         lost' = lost \/ lost' = lost + 1, via' = via \/ via' = "browser",
         Hold /\ lost' = lost /\ via' = via /\ status' = "scanning"
           => (CatalogInv /\ ReviewsInv /\ ScrollInv /\ FeedInv /\ AvitoInv)',
         Hold /\ lost' = lost /\ via' = via /\ status' \in {"cards", "done"} => got' = Wanted
  PROVE  TrackInv' /\ ReadInv' /\ EndedInv'
<1>1. TrackInv'
  BY DEF TrackInv
<1>2. Hold' => Hold /\ lost' = lost /\ via' = via
  BY DEF TrackInv, Hold, Legible
<1>3. Wanted' = Wanted
  BY DEF Wanted, Reach, Sources
<1> QED  BY <1>1, <1>2, <1>3 DEF ReadInv, EndedInv


(* After a failed request, or in the browser, there is nothing to show. *)
LEMMA StrayKeeps ==
  ASSUME CleanInv, KeptInv, UNCHANGED <<scan, site, site0, added, gone>>,
         \/ lost' = lost + 1 /\ via' = via
         \/ lost' = lost /\ via' = "browser" /\ scan \in {"reviews", "recent"}
  PROVE  KeptInv'
<1>1. lost \in Nat /\ TrackInv
  BY DEF KeptInv, TrackInv
<1>2. ~Hold'
  BY <1>1 DEF Hold
<1>3. TrackInv'
  BY <1>1 DEF TrackInv
<1>4. CardsInv' /\ GigsInv'
  BY <1>1 DEF CardsInv, GigsInv, Catalogs
<1> QED  BY <1>2, <1>3, <1>4 DEF KeptInv, ReadInv, EndedInv

(* A change of the listing leaves only the gigs to be looked at. *)
LEMMA ChangesKeep == ASSUME CleanInv, KeptInv, Publish \/ Withdraw PROVE KeptInv'
<1>1. /\ UNCHANGED <<scan, pos, got, cards, status, site0, lost>> /\ status = "scanning"
      /\ added \in Nat /\ gone \in Nat /\ lost \in Nat
      /\ \/ added' = added + 1 /\ gone' = gone
         \/ gone' = gone + 1 /\ added' = added
  BY DEF Publish, Withdraw, Change, progress, CleanInv, ShapeInv, KeptInv, TrackInv
<1>2. TrackInv' /\ ~Hold'
  BY <1>1 DEF KeptInv, TrackInv, Hold
<1>3. CardsInv'
  BY <1>1 DEF KeptInv, CardsInv
<1>4. GigsInv'
  <2> SUFFICES ASSUME scan = "gigs", lost = 0, gone' = 0
               PROVE  /\ Range(site0[1]) \subseteq Range(site'[1])
                      /\ \A i \in 1..Len(site'[1]) : i <= pos /\ site'[1][i] \in Range(site0[1])
                           => site'[1][i] \in Range(got)
    BY <1>1 DEF GigsInv
  <2>1. Publish /\ gone = 0
    BY <1>1 DEF Withdraw
  <2>2. /\ Range(site0[1]) \subseteq Range(site[1])
        /\ \A i \in 1..Len(site[1]) : i <= pos /\ site[1][i] \in Range(site0[1])
             => site[1][i] \in Range(got)
    BY <2>1 DEF KeptInv, GigsInv
  <2>3. PICK f \in DOMAIN site, x \in (Items \ Old) \ Listed :
          site' = [site EXCEPT ![f] = <<x>> \o site[f]]
    BY <2>1 DEF Publish, Change
  <2>4. /\ 1 \in DOMAIN site /\ site[1] \in Seq(Items) /\ pos \in Nat
        /\ Len(site[1]) \in Nat /\ DOMAIN site[1] = 1..Len(site[1])
    BY LenProperties DEF CleanInv, ShapeInv, ListsInv
  <2>5. x \in Items /\ x \notin Range(site0[1])
    BY <2>3, <2>4 DEF Listed
  <2>6. CASE f # 1
    <3>1. site'[1] = site[1]
      BY <2>3, <2>4, <2>6
    <3> QED  BY <2>2, <3>1
  <2>7. CASE f = 1
    <3> DEFINE s == site[1]
    <3>1. site'[1] = <<x>> \o s
      BY <2>3, <2>4, <2>7
    <3>2. <<x>> \in Seq(Items) /\ Len(<<x>>) = 1 /\ <<x>>[1] = x
      BY <2>5
    <3> HIDE DEF s
    <3>3. /\ Range(<<x>> \o s) = Range(<<x>>) \cup Range(s) /\ Len(<<x>> \o s) = 1 + Len(s)
          /\ \A i \in 1..(1 + Len(s)) : (<<x>> \o s)[i] = IF i <= 1 THEN <<x>>[1] ELSE s[i - 1]
      <4> DEFINE e == <<x>>
      <4>1. s \in Seq(Items) /\ e \in Seq(Items)
        BY <2>4, <3>2 DEF s
      <4>2. Len(e) = 1
        BY <3>2
      <4> HIDE DEF e
      <4>3. Range(e \o s) = Range(e) \cup Range(s)
        BY <4>1, ConcatFacts
      <4>4. /\ Len(e \o s) = Len(e) + Len(s)
            /\ \A i \in 1..(Len(e) + Len(s)) : (e \o s)[i] = IF i <= Len(e) THEN e[i] ELSE s[i - Len(e)]
        BY <4>1, ConcatProperties
      <4>5. \A i \in 1..(1 + Len(s)) : (e \o s)[i] = IF i <= 1 THEN e[1] ELSE s[i - 1]
        <5>1. Len(s) \in Nat
          BY <4>1, LenProperties
        <5> QED  BY <4>2, <4>4, <5>1
      <4> QED  BY <4>2, <4>3, <4>4, <4>5 DEF e
    <3>4. Range(site0[1]) \subseteq Range(site'[1])
      BY <2>2, <3>1, <3>3 DEF s
    <3>5. ASSUME NEW i \in 1..Len(site'[1]), i <= pos, site'[1][i] \in Range(site0[1])
          PROVE  site'[1][i] \in Range(got)
      <4>1. i \in 1..(1 + Len(s)) /\ i # 1
        BY <2>4, <2>5, <3>1, <3>2, <3>3, <3>5
      <4>2. i - 1 \in 1..Len(s) /\ i - 1 <= pos /\ site'[1][i] = s[i - 1]
        BY <2>4, <3>1, <3>3, <3>5, <4>1 DEF s
      <4> QED  BY <2>2, <3>5, <4>2 DEF s
    <3> QED  BY <3>4, <3>5
  <2> QED  BY <2>6, <2>7
<1> QED  BY <1>2, <1>3, <1>4 DEF KeptInv, ReadInv, EndedInv

(* How many pages a catalog announces. *)
LEMMA AnnouncedFacts ==
  ASSUME ListsInv, scan \in Catalogs
  PROVE  /\ Len(site[1]) \in Nat /\ Pages(Len(site[1])) \in Nat /\ Announced \in Nat
         /\ scan = "services" => Announced = IF Pages(Len(site[1])) = 0 THEN 1 ELSE Pages(Len(site[1]))
         /\ scan = "freelancers" => Announced = Least(Pages(Len(site[1])), ShownPages + 1)
<1>1. Len(site[1]) \in Nat
  BY LenProperties DEF ListsInv
<1> DEFINE pages == Pages(Len(site[1]))
<1>2. pages \in Nat /\ ShownPages \in Nat
  BY <1>1, PagesFacts, CollectNumbers
<1>3. Announced = IF scan = "services" THEN IF pages = 0 THEN 1 ELSE pages
                  ELSE Least(pages, ShownPages) + (IF pages > ShownPages THEN 1 ELSE 0)
  BY DEF Announced
<1> HIDE DEF pages
<1>4. scan = "services" \/ scan = "freelancers"
  BY DEF Catalogs
<1>5. scan = "freelancers" => Announced = Least(pages, ShownPages + 1)
  BY <1>2, <1>3 DEF Least
<1>6. Announced \in Nat
  BY <1>2, <1>3 DEF Least
<1> QED  BY <1>1, <1>2, <1>3, <1>4, <1>5, <1>6 DEF pages

(* The pages a catalog gets are all the listing has, up to its limits. *)
LEMMA CatalogGetsAll ==
  ASSUME ListsInv, site = site0, scan \in Catalogs, Legible, NEW p \in Nat \ {0}, p <= MaxPages,
         p = Target \/ (p = 1 /\ Target = 0)
  PROVE  FirstOf(p * Per, site[1]) = Wanted
<1> DEFINE s == site[1]
           n == Pages(Len(s))
<1>1. s \in Seq(Items) /\ Len(s) \in Nat
  BY LenProperties DEF ListsInv
<1>2. n \in Nat /\ Len(s) <= n * Per /\ (n = 0 => Len(s) = 0)
  <2>1. n \in Nat /\ Len(s) <= n * Per
    BY <1>1, PagesFacts
  <2>2. Len(s) # 0 => n # 0
    BY <1>1, PagesFacts
  <2> QED  BY <2>1, <2>2
<1>3. /\ MaxPages \in Nat \ {0} /\ ShownPages \in Nat \ {0} /\ Per \in Nat
      /\ p * Per \in Nat /\ MaxPages * Per \in Nat
  BY CollectNumbers, ProductGrows
<1>4. ASSUME NEW q \in Nat, n <= q PROVE Len(s) <= q * Per
  <2>1. n * Per <= q * Per /\ n * Per \in Nat /\ q * Per \in Nat
    BY <1>2, <1>3, <1>4, ProductGrows
  <2> HIDE DEF n, s
  <2> DEFINE x == n * Per
             y == q * Per
  <2>2. x <= y /\ x \in Nat /\ y \in Nat /\ Len(s) <= x /\ Len(s) \in Nat
    BY <1>1, <1>2, <2>1
  <2> HIDE DEF x, y
  <2>3. Len(s) <= y
    BY <2>2
  <2> QED  BY <2>3 DEF y
<1>5. Reach = FirstOf(MaxPages * Per, s)
  BY DEF Reach
<1>6. Wanted = FirstOf(MaxPages * Per, s)
  BY <1>5 DEF Wanted, Sources, Catalogs
<1>7. p = MaxPages \/ (n <= p /\ n <= MaxPages)
  <2>1. CASE scan = "services"
    <3>1. Target = Least(MaxPages, IF n = 0 THEN 1 ELSE n)
      BY <2>1, AnnouncedFacts DEF Target
    <3> HIDE DEF n
    <3> QED  BY <1>2, <1>3, <3>1 DEF Least
  <2>2. CASE scan = "freelancers"
    <3>1. Target = Least(MaxPages, Least(n, ShownPages + 1))
      BY <2>2, AnnouncedFacts DEF Target
    <3>2. Least(MaxPages, n) <= ShownPages + 1
      BY <2>2 DEF Legible, LinksSuffice
    <3> HIDE DEF n
    <3> QED  BY <1>2, <1>3, <3>1, <3>2 DEF Least
  <2> QED  BY <2>1, <2>2 DEF Catalogs
<1>8. p * Per = MaxPages * Per \/ (Len(s) <= p * Per /\ Len(s) <= MaxPages * Per)
  BY <1>3, <1>4, <1>7
<1> QED  BY <1>1, <1>3, <1>6, <1>8, SamePrefix

(* A page of a catalog. *)
LEMMA CatalogKeeps == ASSUME CleanInv, CleanInv', KeptInv, CatalogPage PROVE KeptInv'
<1>1. /\ scan \in Catalogs /\ scan \in {"services", "freelancers"} /\ scan \notin DOMAIN Sources
      /\ status = "scanning" /\ UNCHANGED <<scan, site, site0, added, gone, lost, via, cards>>
  BY SourceFacts DEF CatalogPage, Keep, Catalogs
<1>2. TrackInv /\ ListsInv /\ pos \in Nat \ {0}
  BY <1>1 DEF KeptInv, CleanInv, ShapeInv
<1>3. ASSUME Hold
      PROVE  /\ status' = "scanning" => CatalogInv'
             /\ status' \in {"cards", "done"} => got' = Wanted
  <2>0. site = site0
    BY <1>2, <1>3 DEF TrackInv, Hold
  <2>1. /\ got = FirstOf((pos - 1) * Per, site[1]) /\ streak = 0
        /\ pos # 1 => last = Target /\ pos <= last
    BY <1>1, <1>3, <2>0 DEF KeptInv, ReadInv, CatalogInv, Read
  <2>2. New(SitePage(pos)) = SitePage(pos) /\ got \o SitePage(pos) = FirstOf(pos * Per, site[1])
    BY <1>2, <2>1, PageIsNew, PageReads
  <2>3. got' = FirstOf(pos * Per, site[1])
    BY <2>2 DEF CatalogPage
  <2>4. PagesToGet = Target /\ Target' = Target
    BY <1>1, <2>1 DEF PagesToGet, Target, Announced
  <2>5. Target \in Nat /\ Target <= MaxPages /\ MaxPages \in Nat \ {0}
        /\ Target <= (IF Pages(Len(site[1])) = 0 THEN 1 ELSE Pages(Len(site[1])))
        /\ Pages(Len(site[1])) \in Nat /\ Len(site[1]) \in Nat
    <3> DEFINE n == Pages(Len(site[1]))
    <3>1. /\ n \in Nat /\ Announced \in Nat /\ Len(site[1]) \in Nat
          /\ scan = "services" => Announced = IF n = 0 THEN 1 ELSE n
          /\ scan = "freelancers" => Announced = Least(n, ShownPages + 1)
      BY <1>1, <1>2, AnnouncedFacts
    <3> HIDE DEF n
    <3>2. Announced <= (IF n = 0 THEN 1 ELSE n)
      BY <1>1, <3>1, CollectNumbers DEF Least
    <3>3. Target \in Nat /\ Target <= MaxPages /\ Target <= (IF n = 0 THEN 1 ELSE n)
      BY <3>1, <3>2, CollectNumbers DEF Target, Least
    <3> QED  BY <3>1, <3>3, CollectNumbers DEF n
  <2>6. pos > 1 => SitePage(pos) # <<>>
    <3> SUFFICES ASSUME pos > 1 PROVE ~(Len(site[1]) <= (pos - 1) * Per)
      BY <1>2, PageReads
    <3> DEFINE n == Pages(Len(site[1]))
    <3>1. pos <= n /\ n # 0 /\ n \in Nat
      BY <1>2, <2>1, <2>5
    <3>2. Len(site[1]) # 0
      BY <2>5, <3>1, PagesFacts
    <3>3. (n - 1) * Per < Len(site[1])
      BY <2>5, <3>2, PagesFacts
    <3> HIDE DEF n
    <3>4. pos - 1 \in Nat /\ n - 1 \in Nat /\ pos - 1 <= n - 1 /\ Per \in Nat
      BY <1>2, <3>1, CollectNumbers
    <3>5. (pos - 1) * Per <= (n - 1) * Per /\ (pos - 1) * Per \in Nat /\ (n - 1) * Per \in Nat
      BY <3>4, ProductGrows
    <3> DEFINE a == (pos - 1) * Per
               b == (n - 1) * Per
    <3>6. a <= b /\ b < Len(site[1]) /\ a \in Nat /\ b \in Nat /\ Len(site[1]) \in Nat
      BY <2>5, <3>3, <3>5
    <3> HIDE DEF a, b
    <3>7. ~(Len(site[1]) <= a)
      BY <3>6
    <3> QED  BY <3>7 DEF a
  <2>7. /\ last' = Target /\ streak' = 0
        /\ IF pos >= Target THEN status' = "cards" /\ pos' = 1
                            ELSE status' = "scanning" /\ pos' = pos + 1
    <3>1. Patience >= 1 /\ ~(0 >= Patience)
      BY DEF Patience
    <3> QED  BY <1>1, <2>2, <2>4, <2>6, <3>1 DEF CatalogPage
  <2>8. CASE pos >= Target
    <3>1. pos <= MaxPages /\ (pos = Target \/ (pos = 1 /\ Target = 0))
      BY <1>2, <2>1, <2>5, <2>8
    <3>2. FirstOf(pos * Per, site[1]) = Wanted
      BY <1>1, <1>2, <1>3, <2>0, <3>1, CatalogGetsAll DEF Hold
    <3> QED  BY <2>3, <2>7, <2>8, <3>2
  <2>9. CASE ~(pos >= Target)
    <3>1. pos' = pos + 1 /\ status' = "scanning" /\ pos' - 1 = pos /\ pos' <= Target
      BY <1>2, <2>5, <2>7, <2>9
    <3>2. Read' = FirstOf(pos * Per, site[1])
      BY <1>1, <2>0, <3>1 DEF Read
    <3> QED  BY <2>3, <2>4, <2>7, <3>1, <3>2 DEF CatalogInv
  <2> QED  BY <2>8, <2>9
<1>4. TrackInv' /\ ReadInv' /\ EndedInv'
  <2>1. Hold /\ status' = "scanning" => (CatalogInv /\ ReviewsInv /\ ScrollInv /\ FeedInv /\ AvitoInv)'
    BY <1>1, <1>3 DEF ReviewsInv, ScrollInv, FeedInv, AvitoInv, Sources
  <2> QED  BY <1>1, <1>2, <1>3, <2>1, KeepRead
<1>5. CardsInv'
  <2>1. (status' = "cards" /\ pos' = 1) \/ status' = "scanning"
    BY <1>1 DEF CatalogPage
  <2>2. lost = 0 => cards' = <<>>
    BY <1>1 DEF KeptInv, CardsInv
  <2>3. Len(Ranked') \in Nat /\ SubSeq(Ranked', 1, 0) = <<>>
    <3>1. got' \in Seq(Items)
      BY DEF CleanInv, ShapeInv
    <3>2. Ranked' = SubSeq(got', 1, Least(Cards, Len(got')))
      BY DEF Ranked
    <3>3. Least(Cards, Len(got')) \in Int /\ Least(Cards, Len(got')) <= Len(got')
      BY <3>1, LenProperties, CollectNumbers DEF Least
    <3> DEFINE n == Least(Cards, Len(got'))
    <3> HIDE DEF n
    <3>4. SubSeq(got', 1, n) \in Seq(Items)
      BY <3>1, <3>3, PieceFacts DEF n
    <3>5. Ranked' \in Seq(Items)
      BY <3>2, <3>4 DEF n
    <3> QED  BY <3>5, LenProperties, SubSeqEmpty
  <2> QED  BY <1>1, <2>1, <2>2, <2>3 DEF CardsInv
<1>6. GigsInv'
  BY <1>1 DEF GigsInv
<1> QED  BY <1>4, <1>5, <1>6 DEF KeptInv


(* The cards of what was found. *)
LEMMA CardsKeep ==
  ASSUME CleanInv, KeptInv, NEW ok \in BOOLEAN, CardFetched(ok) \/ CardsDone PROVE KeptInv'
<1>1. /\ UNCHANGED <<scan, site, site0, added, gone, got, via>> /\ status = "cards"
      /\ lost' = lost \/ lost' = lost + 1
      /\ status' \in {"cards", "done"}
  BY DEF CardFetched, CardsDone, Stop, Keep
<1>2. /\ scan \in Catalogs /\ scan # "gigs" /\ got \in Seq(Items) /\ pos \in Nat \ {0}
      /\ TrackInv /\ lost \in Nat
  BY <1>1 DEF CleanInv, ShapeInv, KeptInv, TrackInv, Catalogs
<1>3. TrackInv' /\ ReadInv' /\ EndedInv'
  <2>1. Hold => got' = Wanted
    BY <1>1 DEF KeptInv, EndedInv
  <2> QED  BY <1>1, <1>2, <2>1, KeepRead
<1>4. CardsInv'
  <2> DEFINE n == Least(Cards, Len(got))
             r == Ranked
  <2>1. Ranked' = Ranked
    BY <1>1 DEF Ranked
  <2>2. r \in Seq(Items) /\ Len(r) \in Nat
    <3>1. n \in Int /\ n <= Len(got)
      BY <1>2, LenProperties, CollectNumbers DEF Least
    <3> HIDE DEF n
    <3>2. SubSeq(got, 1, n) \in Seq(Items)
      BY <1>2, <3>1, PieceFacts
    <3> QED  BY <3>2, LenProperties DEF n, Ranked
  <2> HIDE DEF r
  <2>3. ASSUME lost' = 0 PROVE lost = 0 /\ lost' = lost
    BY <1>1, <1>2, <2>3
  <2>4. lost = 0 => pos <= Len(r) + 1 /\ cards = SubSeq(r, 1, pos - 1)
    BY <1>1, <1>2 DEF KeptInv, CardsInv, r
  <2>5. ASSUME CardFetched(ok), lost' = 0
        PROVE  status' = "cards" /\ pos' <= Len(r) + 1 /\ cards' = SubSeq(r, 1, pos' - 1)
    <3>1. pos <= Len(r) /\ pos' = pos + 1 /\ status' = "cards" /\ cards' = Append(cards, r[pos])
      <4>1. ok
        BY <1>1, <1>2, <2>3, <2>5 DEF CardFetched
      <4> QED  BY <1>1, <2>5, <4>1 DEF CardFetched, r
    <3>2. pos \in 1..Len(r) /\ pos' - 1 = pos
      BY <1>2, <2>2, <3>1
    <3>3. SubSeq(r, 1, pos) = SubSeq(r, 1, pos - 1) \o <<r[pos]>>
      BY <2>2, <3>2, SubSeqRecursiveSecond
    <3>4. SubSeq(r, 1, pos - 1) \in Seq(Items) /\ r[pos] \in Items
      BY <1>2, <2>2, <3>2, PieceFacts, ElementOfSeq
    <3>5. Append(SubSeq(r, 1, pos - 1), r[pos]) = SubSeq(r, 1, pos)
      BY <3>3, <3>4, AppendIsConcat
    <3>6. cards = SubSeq(r, 1, pos - 1)
      BY <2>3, <2>4, <2>5
    <3> QED  BY <1>2, <2>2, <3>1, <3>2, <3>5, <3>6
  <2>6. ASSUME CardsDone, lost' = 0 PROVE status' = "done" /\ cards' = r
    <3>1. pos > Len(r) /\ cards' = cards /\ status' = "done"
      BY <2>6 DEF CardsDone, Stop, Keep, r
    <3>2. pos - 1 = Len(r) /\ cards = SubSeq(r, 1, pos - 1)
      BY <1>2, <2>2, <2>3, <2>4, <2>6, <3>1
    <3> QED  BY <2>2, <3>1, <3>2, SubSeqFull
  <2> QED  BY <1>1, <1>2, <2>1, <2>5, <2>6 DEF CardsInv, r
<1>5. GigsInv'
  BY <1>1, <1>2 DEF GigsInv
<1> QED  BY <1>3, <1>4, <1>5 DEF KeptInv

(* A batch of a seller's gigs. *)
LEMMA GigsKeep == ASSUME CleanInv, CleanInv', KeptInv, GigBatch PROVE KeptInv'
<1>1. /\ scan = "gigs" /\ scan \notin DOMAIN Sources /\ scan \notin Catalogs
      /\ UNCHANGED <<scan, site, site0, added, gone, lost, via>> /\ status = "scanning"
  BY SourceFacts DEF GigBatch, Keep, Catalogs
<1> DEFINE s == site[1]
           n == Least(pos + Per, Len(s))
           batch == SubSeq(s, pos + 1, n)
<1>2. /\ TrackInv /\ s \in Seq(Items) /\ Len(s) \in Nat /\ pos \in Nat /\ got \in Seq(Items)
  BY LenProperties DEF CleanInv, ShapeInv, ListsInv, KeptInv
<1>3. n \in Nat /\ n <= Len(s) /\ (n = Len(s) \/ n > pos) /\ (pos <= Len(s) => pos <= n)
  BY <1>2, CollectNumbers DEF Least
<1>4. /\ got' = got \o batch /\ pos' = pos + Len(batch)
      /\ status' = IF batch = <<>> \/ pos + Len(batch) >= Len(s) THEN "done" ELSE "scanning"
  BY DEF GigBatch
<1> HIDE DEF s, n
<1>5. /\ batch \in Seq(Items) /\ Len(batch) = IF pos + 1 <= n THEN n - (pos + 1) + 1 ELSE 0
      /\ Range(batch) = {s[i] : i \in (pos + 1)..n}
  BY <1>2, <1>3, PieceFacts
<1> HIDE DEF batch
<1>6. batch = <<>> <=> Len(batch) = 0
  BY <1>5, EmptySeq
<1>7. pos' = (IF pos + 1 <= n THEN n ELSE pos) /\ pos' \in Nat
  BY <1>2, <1>3, <1>4, <1>5
<1>8. status' = "done" => Len(s) <= pos'
  BY <1>2, <1>3, <1>4, <1>5, <1>6, <1>7
<1>9. Range(got') = Range(got) \cup Range(batch)
  BY <1>2, <1>4, <1>5, ConcatFacts
<1>10. ASSUME Hold, status' \in {"cards", "done"} PROVE got' = Wanted
  <2>1. pos' <= Len(s) /\ got' = SubSeq(s, 1, pos')
    BY <1>1, <1>10 DEF CleanInv, DistinctInv, Hold, s
  <2>2. status' = "done"
    BY <1>4, <1>10
  <2>3. pos' = Len(s)
    BY <1>2, <1>7, <1>8, <2>1, <2>2
  <2>4. got' = s
    BY <1>2, <2>1, <2>3, SubSeqFull
  <2>5. site = site0
    BY <1>2, <1>10 DEF TrackInv, Hold
  <2> QED  BY <1>1, <2>4, <2>5 DEF Wanted, s, Sources
<1>11. TrackInv' /\ ReadInv' /\ EndedInv'
  <2>1. (CatalogInv /\ ReviewsInv /\ ScrollInv /\ FeedInv /\ AvitoInv)'
    BY <1>1 DEF CatalogInv, ReviewsInv, ScrollInv, FeedInv, AvitoInv, Sources
  <2> QED  BY <1>1, <1>2, <1>10, <2>1, KeepRead
<1>12. CardsInv'
  BY <1>1 DEF CardsInv
<1>13. GigsInv'
  <2> SUFFICES ASSUME lost = 0, gone = 0
               PROVE  /\ Range(site0[1]) \subseteq Range(s)
                      /\ \A i \in 1..Len(s) : i <= pos' /\ s[i] \in Range(site0[1]) => s[i] \in Range(got')
    BY <1>1, <1>8 DEF GigsInv, s
  <2>1. /\ Range(site0[1]) \subseteq Range(s)
        /\ \A i \in 1..Len(s) : i <= pos /\ s[i] \in Range(site0[1]) => s[i] \in Range(got)
    BY <1>1 DEF KeptInv, GigsInv, s
  <2>2. ASSUME NEW i \in 1..Len(s), i <= pos', s[i] \in Range(site0[1]) PROVE s[i] \in Range(got')
    <3>1. CASE i <= pos
      BY <1>9, <2>1, <2>2, <3>1
    <3>2. CASE i > pos
      <4>1. i \in (pos + 1)..n
        BY <1>2, <1>3, <1>7, <2>2, <3>2
      <4> QED  BY <1>5, <1>9, <4>1
    <3> QED  BY <1>2, <3>1, <3>2
  <2> QED  BY <2>1, <2>2
<1> QED  BY <1>11, <1>12, <1>13 DEF KeptInv

(* Nothing of the reviews behind a page without a dated one in the window is *)
(* in the window.                                                           *)
LEMMA OldBehind ==
  ASSUME ListsInv, site = site0, ByTime(site0[1]), NEW p \in Nat \ {0},
         \A x \in Range(Without(SitePage(p), Old)) : x \in Undated
  PROVE  \A i \in (p * Per + 1)..Len(site[1]) : site[1][i] \in Old
<1> DEFINE s == site[1]
           from == (p - 1) * Per
           to == p * Per
<1>1. /\ from \in Nat /\ to \in Nat /\ to = from + Per /\ from < to /\ Per \in Nat \ {0}
  BY PageBounds, CollectNumbers
<1>2. s \in Seq(Items) /\ Len(s) \in Nat /\ DOMAIN s = 1..Len(s)
  BY LenProperties DEF ListsInv
<1>3. /\ \A i, j \in 1..Len(s) : i < j /\ s[i] \in Old => s[j] \in Old
      /\ \A i \in 1..Len(s) : \E k \in i..(i + Per - 1) : k \notin 1..Len(s) \/ s[k] \notin Undated
  BY <1>2 DEF ByTime
<1>4. Range(SitePage(p)) = {s[i] : i \in (from + 1)..Least(to, Len(s))}
  BY PageFacts
<1>5. Range(Without(SitePage(p), Old)) = Range(SitePage(p)) \ Old
  BY PageFacts, WithoutFacts
<1>6. SUFFICES ASSUME NEW i \in (to + 1)..Len(s) PROVE s[i] \in Old
  OBVIOUS
<1> HIDE DEF from, to, s
<1>7. from + 1 \in 1..Len(s)
  BY <1>1, <1>2
<1>8. PICK k \in (from + 1)..(from + 1 + Per - 1) : k \notin 1..Len(s) \/ s[k] \notin Undated
  BY <1>3, <1>7
<1>9. k \in 1..Len(s) /\ k \in (from + 1)..Least(to, Len(s)) /\ k < i /\ i \in 1..Len(s)
  BY <1>1, <1>2 DEF Least
<1>10. s[k] \in Range(SitePage(p)) /\ s[k] \notin Undated
  BY <1>4, <1>8, <1>9
<1>11. s[k] \in Old
  BY <1>5, <1>10
<1> QED  BY <1>3, <1>9, <1>11

(* A page of reviews. *)
LEMMA ReviewsKeep == ASSUME CleanInv, KeptInv, ReviewPage PROVE KeptInv'
<1>1. /\ scan \in {"reviews", "recent"} /\ scan \notin DOMAIN Sources /\ scan \notin Catalogs
      /\ UNCHANGED <<scan, site, site0, added, gone, lost, via>> /\ status = "scanning"
  BY SourceFacts DEF ReviewPage, Keep, Catalogs
<1>2. TrackInv /\ ListsInv /\ pos \in Nat \ {0} /\ site[1] \in Seq(Items)
  BY <1>1 DEF CleanInv, ShapeInv, ListsInv, KeptInv
<1>3. ASSUME Hold
      PROVE  /\ status' = "scanning" => ReviewsInv'
             /\ status' \in {"cards", "done"} => got' = Wanted
  <2> DEFINE passed == IF scan = "recent" THEN Old ELSE {}
             page == SitePage(pos)
             fit == Without(page, passed)
             all == Without(FirstOf(pos * Per, site[1]), passed)
             dated == {x \in Range(fit) : x \notin Undated}
  <2>0. site = site0 /\ site0 \in Sites
    BY <1>2, <1>3 DEF TrackInv, Hold
  <2>1. /\ got = Without(FirstOf((pos - 1) * Per, site[1]), passed)
        /\ Len(got) < Limit /\ pos <= MaxPages
    BY <1>1, <1>3, <2>0 DEF KeptInv, ReadInv, ReviewsInv, Read
  <2>2. New(page) = page /\ fit \in Seq(Items) /\ got \o fit = all
    <3> HIDE DEF passed
    <3> QED  BY <1>2, <2>1, PageTaken
  <2>3. InWindow(page) = fit
    BY <2>2 DEF InWindow
  <2>4. got \in Seq(Items) /\ Len(got) \in Nat /\ Len(fit) \in Nat /\ Limit \in Nat \ {0}
        /\ MaxPages \in Nat
    BY <2>2, LenProperties, CollectNumbers DEF CleanInv, ShapeInv
  <2> DEFINE taken == SubSeq(fit, 1, Least(Len(fit), Limit - Len(got)))
  <2>5. /\ got' = got \o taken /\ pos' = pos + 1
        /\ status' = IF \/ page = <<>> \/ Len(got) + Len(taken) >= Limit
                        \/ scan = "recent" /\ dated = {}
                        \/ pos >= MaxPages
                       THEN "done" ELSE "scanning"
    <3> HIDE DEF fit, page
    <3> QED  BY <2>3 DEF ReviewPage, page
  <2> HIDE DEF passed, page, fit, dated
  <2>6. taken = FirstOf(Limit - Len(got), fit) /\ Limit - Len(got) \in Nat
    <3>1. Least(Len(fit), Limit - Len(got)) = Least(Limit - Len(got), Len(fit))
      BY <2>4 DEF Least
    <3>2. taken = FirstOf(Limit - Len(got), fit)
      BY <3>1, Zenon DEF FirstOf
    <3>3. Limit - Len(got) \in Nat
      BY <2>1, <2>4
    <3> QED  BY <3>2, <3>3
  <2>7. taken \in Seq(Items) /\ Len(taken) \in Nat
    BY <2>2, <2>6, PrefixFacts, LenProperties
  <2> HIDE DEF taken
  <2>8. got' = FirstOf(Limit, all)
    <3>1. FirstOf(Limit, got \o fit) = got \o FirstOf(Limit - Len(got), fit)
      <4>1. Len(got) <= Limit
        BY <2>1, <2>4
      <4> QED  BY <2>2, <2>4, <4>1, PrefixOfConcat
    <3> QED  BY <2>2, <2>5, <2>6, <3>1
  <2>9. all \in Seq(Items) /\ Len(all) \in Nat
    BY <2>2, <2>4, ConcatProperties, LenProperties
  <2>10. Len(got) + Len(taken) = Least(Limit, Len(all))
    <3>1. Len(got') = Len(got) + Len(taken)
      BY <2>4, <2>5, <2>7, ConcatProperties
    <3> HIDE DEF all
    <3>2. Len(FirstOf(Limit, all)) = Least(Limit, Len(all))
      BY <2>4, <2>9, PrefixFacts
    <3> QED  BY <2>8, <3>1, <3>2
  <2>11. Wanted = FirstOf(Limit, Without(FirstOf(MaxPages * Per, site[1]), passed))
    <3>1. MaxPages * Per \in Nat
      BY CollectNumbers, ProductGrows
    <3>2. Reach = FirstOf(MaxPages * Per, site[1]) /\ Reach \in Seq(Items)
      BY <1>2, <2>0, <3>1, PrefixFacts DEF Reach
    <3>3. Without(Reach, {}) = Reach
      BY <3>2, WithoutFacts
    <3>4. CASE scan = "recent"
      BY <2>0, <3>2, <3>4 DEF Wanted, Sources, passed
    <3>5. CASE scan = "reviews"
      BY <2>0, <3>2, <3>3, <3>5 DEF Wanted, Sources, passed
    <3> QED  BY <1>1, <3>4, <3>5
  <2>12. ASSUME status' = "scanning" PROVE ReviewsInv'
    <3>1. Len(got) + Len(taken) < Limit /\ pos < MaxPages
      BY <1>2, <2>4, <2>5, <2>7, <2>12
    <3>2. Len(all) <= Limit /\ Len(all) < Limit
      BY <2>4, <2>9, <2>10, <3>1 DEF Least
    <3> HIDE DEF all
    <3>3. got' = all
      BY <2>4, <2>8, <2>9, <3>2, PrefixFacts
    <3>4. pos' - 1 = pos /\ pos' <= MaxPages
      BY <1>2, <2>4, <2>5, <3>1
    <3>5. Read' = FirstOf(pos * Per, site[1])
      BY <1>1, <2>0, <3>4 DEF Read
    <3>6. got' = Without(Read', IF scan' = "recent" THEN Old ELSE {})
      BY <1>1, <3>3, <3>5 DEF all, passed
    <3> QED  BY <3>2, <3>3, <3>4, <3>6 DEF ReviewsInv
  <2>13. ASSUME status' \in {"cards", "done"} PROVE got' = Wanted
    <3>1. \/ page = <<>> \/ Len(got) + Len(taken) >= Limit
          \/ scan = "recent" /\ dated = {}
          \/ pos >= MaxPages
      BY <2>5, <2>13
    <3> DEFINE to == pos * Per
               end == MaxPages * Per
    <3>2. to \in Nat /\ end \in Nat /\ Len(site[1]) \in Nat
      BY <1>2, CollectNumbers, ProductGrows, LenProperties
    <3>3. \/ Limit <= Len(all)
          \/ \A i \in (to + 1)..Len(site[1]) : i <= end => site[1][i] \in passed
      <4>1. CASE page = <<>>
        <5>1. Len(site[1]) <= (pos - 1) * Per /\ (pos - 1) * Per \in Nat /\ (pos - 1) * Per < pos * Per
          BY <1>2, <4>1, PageReads, PageBounds DEF page
        <5> DEFINE from == (pos - 1) * Per
        <5>2. Len(site[1]) <= from /\ from \in Nat /\ from < to
          BY <5>1
        <5> HIDE DEF from, to
        <5> QED  BY <3>2, <5>2
      <4>2. CASE Len(got) + Len(taken) >= Limit
        <5> HIDE DEF all
        <5> QED  BY <2>4, <2>9, <2>10, <4>2 DEF Least
      <4>3. CASE scan = "recent" /\ dated = {}
        <5>1. passed = Old
          BY <4>3 DEF passed
        <5>2. \A x \in Range(Without(SitePage(pos), Old)) : x \in Undated
          BY <4>3, <5>1 DEF dated, fit, page
        <5>3. \A i \in (pos * Per + 1)..Len(site[1]) : site[1][i] \in Old
          BY <1>2, <1>3, <2>0, <4>3, <5>2, OldBehind DEF Hold, Legible
        <5> QED  BY <5>1, <5>3
      <4>4. CASE pos >= MaxPages
        <5>1. to = end
          BY <1>2, <2>1, <2>4, <4>4
        <5> HIDE DEF to, end
        <5> QED  BY <3>2, <5>1
      <4> QED  BY <3>1, <4>1, <4>2, <4>3, <4>4
    <3>4. FirstOf(Limit, Without(FirstOf(pos * Per, site[1]), passed))
            = FirstOf(Limit, Without(FirstOf(MaxPages * Per, site[1]), passed))
      BY <1>2, <2>1, <3>3, EndTaken
    <3> QED  BY <2>8, <2>11, <3>4
  <2> QED  BY <2>12, <2>13
<1>4. TrackInv' /\ ReadInv' /\ EndedInv'
  <2>1. Hold /\ status' = "scanning" => (CatalogInv /\ ReviewsInv /\ ScrollInv /\ FeedInv /\ AvitoInv)'
    BY <1>1, <1>3 DEF CatalogInv, ScrollInv, FeedInv, AvitoInv, Sources
  <2> QED  BY <1>1, <1>2, <1>3, <2>1, KeepRead
<1>5. CardsInv' /\ GigsInv'
  BY <1>1 DEF CardsInv, GigsInv
<1> QED  BY <1>4, <1>5 DEF KeptInv


(* A scroll that is answered. *)
LEMMA ScrollKeeps ==
  ASSUME CleanInv, KeptInv, NEW grows \in BOOLEAN, NEW read \in BOOLEAN, Scroll(grows, read)
  PROVE  KeptInv'
<1>1. /\ scan = "scroll" /\ scan \notin DOMAIN Sources /\ scan \notin Catalogs
      /\ UNCHANGED <<scan, site, site0, added, gone, via>> /\ status = "scanning"
      /\ lost' = IF read THEN lost ELSE lost + 1
  BY SourceFacts DEF Scroll, Catalogs
<1>2. TrackInv /\ ListsInv /\ pos \in Nat \ {0} /\ last \in Nat \ {0} /\ got \in Seq(Items)
  BY <1>1 DEF CleanInv, ShapeInv, DistinctInv, KeptInv
<1>3. CASE ~read
  BY <1>1, <1>3, StrayKeeps
<1>4. CASE read
  <2>1. grows /\ lost' = lost
    BY <1>1, <1>4 DEF Scroll
  <2>2. ASSUME Hold
        PROVE  /\ status' = "scanning" => ScrollInv'
               /\ status' \in {"cards", "done"} => got' = Wanted
    <3> DEFINE s == site[1]
               page == SitePage(pos)
               from == (pos - 1) * Per
               to == pos * Per
               stale == IF Len(page) = 0 THEN streak + 1 ELSE 0
               n == Pages(Limit)
               goal == Least(n, ScrollLimit + 1)
    <3>0. site = site0 /\ s \in Seq(Items) /\ Len(s) \in Nat
      BY <1>2, <2>2, HoldFacts
    <3>1. /\ got = FirstOf(from, s) /\ entries = Len(got) /\ entries < Limit
          /\ pos <= last /\ last <= ScrollLimit + 1 /\ (pos < last => Len(s) <= from)
      BY <1>1, <2>2, <3>0 DEF KeptInv, ReadInv, ScrollInv, Read
    <3>2. /\ New(page) = page /\ got \o page = FirstOf(to, s)
          /\ page = <<>> <=> Len(s) <= from
      BY <1>2, <3>1, PageIsNew, PageReads
    <3>3. from \in Nat /\ to \in Nat /\ to = from + Per /\ from < to
      BY <1>2, PageBounds
    <3>4. page \in Seq(Items) /\ Len(page) \in Nat /\ (page = <<>> <=> Len(page) = 0)
      BY <1>2, PageFacts, LenProperties, EmptySeq
    <3>5. got' = got \o page
      BY <1>4, <2>1, <3>2 DEF Scroll, SsrItems, Captured
    <3>6. /\ entries' = entries + Len(page) /\ last' = last + 1
          /\ pos' = IF Len(page) = 0 THEN pos ELSE pos + 1
          /\ status' = IF entries + Len(page) >= Limit \/ stale >= 3 \/ last > ScrollLimit
                         THEN "done" ELSE "scanning"
      BY <2>1 DEF Scroll
    <3>7. Limit \in Nat \ {0} /\ ScrollLimit \in Nat \ {0} /\ Per \in Nat \ {0}
      BY CollectNumbers
    <3>8. /\ n \in Nat \ {0} /\ Limit <= n * Per /\ (n - 1) * Per < Limit
          /\ goal \in Nat \ {0} /\ goal <= n /\ goal <= ScrollLimit + 1
          /\ (goal = n \/ goal = ScrollLimit + 1)
      <4>1. n \in Nat \ {0} /\ Limit <= n * Per /\ (n - 1) * Per < Limit
        BY <3>7, PagesFacts
      <4> HIDE DEF n
      <4>2. /\ goal \in Nat \ {0} /\ goal <= n /\ goal <= ScrollLimit + 1
            /\ (goal = n \/ goal = ScrollLimit + 1)
        BY <3>7, <4>1 DEF Least
      <4> QED  BY <4>1, <4>2
    <3>9. Wanted = FirstOf(goal * Per, s)
      BY <1>1, <3>0 DEF Wanted, Sources
    <3>10. entries = Least(from, Len(s)) /\ entries + Len(page) = Least(to, Len(s)) /\ entries \in Nat
      <4> HIDE DEF s, from, to, page
      <4>1. Len(got) = Least(from, Len(s)) /\ Len(got) \in Nat
        BY <1>2, <3>0, <3>1, <3>3, PrefixFacts, LenProperties
      <4>2. Len(got \o page) = Len(got) + Len(page)
        BY <1>2, <3>4, ConcatProperties
      <4>3. Len(got \o page) = Least(to, Len(s))
        BY <3>0, <3>2, <3>3, PrefixFacts
      <4> QED  BY <3>1, <4>1, <4>2, <4>3
    (* as long as the list grows, pos is not past the goal *)
    <3>11. from < Len(s) => pos <= goal
      <4> SUFFICES ASSUME from < Len(s) PROVE pos <= goal
        OBVIOUS
      <4>1. pos <= ScrollLimit + 1
        BY <1>2, <3>1, <3>7
      <4>2. pos <= n
        <5> SUFFICES ASSUME n <= pos - 1 PROVE FALSE
          BY <1>2, <3>8
        <5>1. n * Per <= (pos - 1) * Per
          BY <1>2, <3>7, <3>8, ProductGrows
        <5> DEFINE x == n * Per
        <5>2. x \in Nat /\ Limit <= x /\ x <= from
          BY <3>7, <3>8, <5>1, ProductGrows
        <5> HIDE DEF x, from, s
        <5>3. from < Limit
          BY <3>0, <3>1, <3>3, <3>10 DEF Least
        <5> QED  BY <3>3, <3>7, <5>2, <5>3
      <4> HIDE DEF n, goal
      <4> QED  BY <1>2, <3>8, <4>1, <4>2
    <3>12. \A q \in Nat : q * Per \in Nat
      BY <3>7
    <3>13. ASSUME status' \in {"cards", "done"} PROVE got' = Wanted
      <4>1. entries + Len(page) >= Limit \/ stale >= 3 \/ last > ScrollLimit
        BY <3>6, <3>13
      <4>2. got' = FirstOf(to, s)
        BY <3>2, <3>5
      <4>3. to = goal * Per \/ (Len(s) <= to /\ Len(s) <= goal * Per)
        <5>1. CASE Len(s) <= from
          <6>1. Len(s) < Limit
            <7> HIDE DEF s, from
            <7> QED  BY <3>0, <3>1, <3>3, <3>7, <3>10, <5>1 DEF Least
          <6>2. Len(s) <= n * Per
            <7> DEFINE x == n * Per
            <7>1. x \in Nat /\ Limit <= x
              BY <3>8, <3>12
            <7> HIDE DEF x, s
            <7>2. Len(s) <= x
              BY <3>0, <3>7, <6>1, <7>1
            <7> QED  BY <7>2 DEF x
          <6>3. Len(s) <= (ScrollLimit + 1) * Per
            <7>1. pos - 1 \in Nat /\ ScrollLimit + 1 \in Nat /\ pos - 1 <= ScrollLimit + 1
              BY <1>2, <3>1, <3>7
            <7>2. (pos - 1) * Per <= (ScrollLimit + 1) * Per
              BY <3>7, <7>1, ProductGrows
            <7> DEFINE x == (ScrollLimit + 1) * Per
            <7>3. x \in Nat /\ from <= x
              BY <3>12, <7>1, <7>2
            <7> HIDE DEF x, from, s
            <7>4. Len(s) <= x
              BY <3>0, <3>3, <5>1, <7>3
            <7> QED  BY <7>4 DEF x
          <6>4. Len(s) <= goal * Per
            BY <3>8, <6>2, <6>3
          <6>5. Len(s) <= to
            <7> HIDE DEF from, to, s
            <7> QED  BY <3>0, <3>3, <5>1
          <6> QED  BY <6>4, <6>5
        <5>2. CASE from < Len(s)
          <6>1. pos <= goal /\ Len(page) # 0 /\ pos = last
            <7> HIDE DEF from, goal, s, page
            <7> QED  BY <1>2, <3>0, <3>1, <3>2, <3>3, <3>4, <3>11, <5>2
          <6>2. CASE pos = goal
            BY <6>2
          <6>3. CASE pos # goal
            <7>1. pos + 1 <= goal /\ pos <= n - 1 /\ ~(last > ScrollLimit)
              <8> HIDE DEF goal, n
              <8> QED  BY <1>2, <3>7, <3>8, <6>1, <6>3
            <7>2. entries + Len(page) >= Limit
              BY <4>1, <6>1, <7>1
            <7>3. pos * Per <= (n - 1) * Per
              <8>1. pos \in Nat /\ n - 1 \in Nat /\ Per \in Nat
                BY <1>2, <3>7, <3>8
              <8> QED  BY <7>1, <8>1, ProductGrows
            <7> DEFINE x == (n - 1) * Per
            <7>4. x \in Nat /\ to <= x /\ x < Limit
              <8>1. n - 1 \in Nat
                BY <3>8
              <8> QED  BY <3>8, <3>12, <7>3, <8>1
            <7> HIDE DEF x, to, s, page
            <7>5. FALSE
              BY <3>0, <3>3, <3>7, <3>10, <7>2, <7>4 DEF Least
            <7> QED  BY <7>5
          <6> QED  BY <6>2, <6>3
        <5>3. Len(s) <= from \/ from < Len(s)
          <6> HIDE DEF from, s
          <6> QED  BY <3>0, <3>3
        <5> QED  BY <5>1, <5>2, <5>3
      <4>4. goal * Per \in Nat
        BY <3>8, <3>12
      <4> HIDE DEF s, to, goal
      <4> QED  BY <3>0, <3>3, <3>9, <4>2, <4>3, <4>4, SamePrefix
    <3>14. ASSUME status' = "scanning" PROVE ScrollInv'
      <4>1. entries + Len(page) < Limit /\ ~(last > ScrollLimit)
        BY <3>4, <3>6, <3>7, <3>10, <3>14
      <4>2. entries' = Len(got') /\ entries' < Limit
        <5>1. Len(got') = Len(got) + Len(page)
          BY <1>2, <3>4, <3>5, ConcatProperties
        <5> QED  BY <3>1, <3>6, <4>1, <5>1
      <4>3. last' <= ScrollLimit + 1 /\ pos' <= last'
        BY <1>2, <3>1, <3>6, <3>7, <4>1
      <4>4. CASE Len(page) = 0
        <5>1. pos' = pos /\ got' = got
          BY <1>2, <3>4, <3>5, <3>6, <4>4, ConcatEmptySeq
        <5>2. Read' = FirstOf(from, s) /\ Len(site0'[1]) <= (pos' - 1) * Per
          BY <1>1, <3>0, <3>2, <3>4, <4>4, <5>1 DEF Read
        <5> QED  BY <3>1, <4>2, <4>3, <5>1, <5>2 DEF ScrollInv
      <4>5. CASE Len(page) # 0
        <5>1. pos' = pos + 1 /\ pos' - 1 = pos
          BY <1>2, <3>6, <4>5
        <5>2. Read' = FirstOf(to, s)
          BY <1>1, <3>0, <5>1 DEF Read
        <5>3. ~(pos' < last')
          <6>1. ~(Len(s) <= from)
            BY <3>2, <3>4, <4>5
          <6> QED  BY <1>2, <3>1, <3>6, <5>1, <6>1
        <5> QED  BY <3>2, <3>5, <4>2, <4>3, <5>2, <5>3 DEF ScrollInv
      <4> QED  BY <4>4, <4>5
    <3> QED  BY <3>13, <3>14
  <2>3. TrackInv' /\ ReadInv' /\ EndedInv'
    <3>1. Hold /\ status' = "scanning" => (CatalogInv /\ ReviewsInv /\ ScrollInv /\ FeedInv /\ AvitoInv)'
      BY <1>1, <2>2 DEF CatalogInv, ReviewsInv, FeedInv, AvitoInv, Sources
    <3> QED  BY <1>1, <1>2, <2>1, <2>2, <3>1, KeepRead
  <2>4. CardsInv' /\ GigsInv'
    BY <1>1 DEF CardsInv, GigsInv
  <2> QED  BY <2>3, <2>4 DEF KeptInv
<1> QED  BY <1>3, <1>4

(* The end of a collect returns the first of what was found. *)
LEMMA FinishReturns ==
  ASSUME NEW items \in Seq(Items), Finish(items), status' \in {"cards", "done"}
  PROVE  got' = FirstOf(Limit, items)
<1>1. items # <<>> /\ got' = SubSeq(items, 1, Least(Len(items), Limit))
  BY DEF Finish
<1>2. Least(Len(items), Limit) = Least(Limit, Len(items))
  BY CollectNumbers, LenProperties DEF Least
<1> QED  BY <1>1, <1>2, Zenon DEF FirstOf

(* A feed of a source. *)
LEMMA FeedKeeps == ASSUME CleanInv, KeptInv, Feed PROVE KeptInv'
<1>1. /\ scan \in DOMAIN Sources /\ scan \notin Catalogs /\ scan \notin {"gigs", "reviews", "recent", "scroll", "avito"}
      /\ UNCHANGED <<scan, site, site0, added, gone, lost, via>> /\ status = "scanning"
      /\ Sources[scan].reads \in 1..3
      /\ Sources[scan].distinct \/ Sources[scan].reads = 1
  BY SourceFacts DEF Feed, Keep, Catalogs
<1>2. TrackInv /\ ListsInv /\ got \in Seq(Items) /\ pos \in 1..3 /\ pos <= Sources[scan].reads
  BY <1>1 DEF CleanInv, ShapeInv, KeptInv
<1>3. ASSUME Hold
      PROVE  /\ status' = "scanning" => FeedInv'
             /\ status' \in {"cards", "done"} => got' = Wanted
  <2> DEFINE items == got \o IF Sources[scan].distinct THEN New(site[pos]) ELSE site[pos]
  <2>0. site = site0
    BY <1>2, <1>3 DEF TrackInv, Hold
  <2>1. got = AllOnce(site0, pos - 1)
    BY <1>1, <1>3 DEF KeptInv, ReadInv, FeedInv
  <2>2. site[pos] \in Seq(Items)
    BY <1>2 DEF ListsInv
  <2>3. Sources[scan].distinct \/ New(site[pos]) = site[pos]
    <3> SUFFICES ASSUME Sources[scan].reads = 1 PROVE New(site[pos]) = site[pos]
      BY <1>1
    <3>1. got = <<>>
      <4>1. pos - 1 = 0
        BY <1>2
      <4> QED  BY <2>1, <4>1, AllOnceFacts
    <3> QED  BY <2>2, <3>1, NothingFacts, WithoutFacts DEF New
  <2>4. items = got \o Without(site0[pos], Range(got))
    BY <2>0, <2>3 DEF New
  <2>5. items = AllOnce(site0, pos) /\ items \in Seq(Items)
    <3>1. AllOnce(site0, pos) = AllOnce(site0, pos - 1) \o Without(site0[pos], Range(AllOnce(site0, pos - 1)))
      BY <1>2, AllOnceFacts
    <3>2. Without(site0[pos], Range(got)) \in Seq(Items)
      BY <2>0, <2>2, WithoutFacts
    <3> HIDE DEF items
    <3> QED  BY <1>2, <2>1, <2>4, <3>1, <3>2, ConcatProperties
  <2>6. NextFeed(items)
    BY DEF Feed
  <2> HIDE DEF items
  <2>7. CASE pos < Sources[scan].reads
    <3>1. pos' = pos + 1 /\ got' = items /\ status' = "scanning"
      BY <1>1, <2>6, <2>7 DEF NextFeed
    <3>2. pos' - 1 = pos
      BY <1>2, <3>1
    <3> QED  BY <1>1, <2>5, <3>1, <3>2 DEF FeedInv
  <2>8. CASE ~(pos < Sources[scan].reads)
    <3>1. Finish(items) /\ pos = Sources[scan].reads
      BY <1>1, <1>2, <2>6, <2>8 DEF NextFeed
    <3>2. Wanted = FirstOf(Limit, AllOnce(site0, Sources[scan].reads))
      BY <1>1 DEF Wanted, Sources
    <3>3. status' # "scanning"
      BY <3>1 DEF Finish
    <3> QED  BY <2>5, <3>1, <3>2, <3>3, FinishReturns
  <2> QED  BY <2>7, <2>8
<1>4. TrackInv' /\ ReadInv' /\ EndedInv'
  <2>1. Hold /\ status' = "scanning" => (CatalogInv /\ ReviewsInv /\ ScrollInv /\ FeedInv /\ AvitoInv)'
    BY <1>1, <1>3 DEF CatalogInv, ReviewsInv, ScrollInv, AvitoInv, Sources
  <2> QED  BY <1>1, <1>2, <1>3, <2>1, KeepRead
<1>5. CardsInv' /\ GigsInv'
  BY <1>1 DEF CardsInv, GigsInv
<1> QED  BY <1>4, <1>5 DEF KeptInv


(* A page of avito. *)
LEMMA AvitoKeeps == ASSUME CleanInv, KeptInv, AvitoPage PROVE KeptInv'
<1>1. /\ scan = "avito" /\ scan \notin DOMAIN Sources /\ scan \notin Catalogs
      /\ UNCHANGED <<scan, site, site0, added, gone, lost, via>> /\ status = "scanning"
  BY SourceFacts DEF AvitoPage, Keep, Catalogs
<1>2. TrackInv /\ ListsInv /\ got \in Seq(Items) /\ pos \in Nat \ {0}
  BY <1>1 DEF CleanInv, ShapeInv, KeptInv
<1>3. ASSUME Hold
      PROVE  /\ status' = "scanning" => AvitoInv'
             /\ status' \in {"cards", "done"} => got' = Wanted
  <2> DEFINE passed == Items \ Relevant
             p == pos - 2
             page == SitePage(p)
             all == got \o Without(New(page), passed)
  <2>0. site = site0 /\ Limit \in Nat \ {0} /\ MaxPages \in Nat \ {0} /\ site[1] \in Seq(Items)
        /\ Len(site[1]) \in Nat
    BY <1>2, <1>3, CollectNumbers, LenProperties DEF TrackInv, Hold, ListsInv
  <2>1. /\ pos <= 2 => got = <<>> /\ (pos = 2 => site[2] = <<>>)
        /\ pos > 2 =>
             /\ site[2] = <<>> /\ site[3] = <<>>
             /\ got = Without(FirstOf((pos - 3) * Per, site[1]), passed)
             /\ Len(got) < Limit /\ pos - 2 <= MaxPages
    BY <1>1, <1>3, <2>0 DEF KeptInv, ReadInv, AvitoInv
  <2>2. Wanted = FirstOf(Limit, IF site[2] # <<>> THEN site[2]
                                ELSE IF site[3] # <<>> THEN site[3]
                                ELSE Without(Reach, passed))
    BY <1>1, <2>0 DEF Wanted, Sources
  <2>3. CASE pos <= 2 /\ site[pos + 1] # <<>>
    <3>1. Finish(site[pos + 1]) /\ status' # "scanning"
      BY <2>3 DEF AvitoPage, Finish
    <3>2. pos + 1 \in 1..3 /\ (pos = 1 \/ pos = 2)
      BY <1>2, <2>3
    <3>3. site[pos + 1] \in Seq(Items)
      BY <1>2, <3>2 DEF ListsInv
    <3>4. Wanted = FirstOf(Limit, site[pos + 1])
      BY <2>1, <2>2, <2>3, <3>2
    <3> QED  BY <3>1, <3>3, <3>4, FinishReturns
  <2>4. CASE pos <= 2 /\ site[pos + 1] = <<>>
    <3>1. pos' = pos + 1 /\ got' = got /\ status' = "scanning"
      BY <1>1, <2>4 DEF AvitoPage
    <3>2. got = <<>> /\ (pos = 1 \/ pos = 2)
      BY <1>2, <2>1, <2>4
    <3>3. CASE pos = 1
      BY <1>1, <2>0, <2>4, <3>1, <3>2, <3>3 DEF AvitoInv
    <3>4. CASE pos = 2
      <4>1. site[2] = <<>> /\ site[3] = <<>> /\ pos' = 3
        BY <2>1, <2>4, <3>1, <3>4
      <4>2. Without(FirstOf(0 * Per, site[1]), passed) = <<>>
        <5>1. 0 * Per = 0
          BY CollectNumbers
        <5>2. FirstOf(0, site[1]) = <<>>
          BY <2>0, PrefixFacts
        <5>3. Without(<<>>, passed) = <<>>
          BY NothingFacts, WithoutFacts
        <5> QED  BY <5>1, <5>2, <5>3
      <4>3. got' = Without(FirstOf((pos' - 3) * Per, site[1]), passed)
        <5>1. pos' - 3 = 0
          BY <4>1
        <5> QED  BY <3>1, <3>2, <4>2, <5>1
      <4>4. Len(got') < Limit /\ pos' - 2 <= MaxPages
        BY <2>0, <3>1, <3>2, <4>1, NothingFacts
      <4>5. got' = Without(FirstOf((pos' - 3) * Per, site0'[1]), Items \ Relevant)
        BY <1>1, <2>0, <4>3
      <4>6. site0'[2] = <<>> /\ site0'[3] = <<>> /\ ~(pos' <= 2)
        BY <1>1, <2>0, <4>1
      <4> QED  BY <3>1, <4>4, <4>5, <4>6 DEF AvitoInv
    <3> QED  BY <3>2, <3>3, <3>4
  <2>5. CASE pos > 2
    <3>1. /\ IF page = <<>> \/ Len(all) >= Limit \/ p >= MaxPages
               THEN Finish(all)
               ELSE pos' = pos + 1 /\ got' = all /\ status' = "scanning"
      <4>1. all = got \o Filtered(p) /\ ~(pos <= 2)
        BY <1>2, <2>5 DEF Filtered
      <4> HIDE DEF all
      <4>2. CASE page = <<>> \/ Len(all) >= Limit \/ p >= MaxPages
        BY <4>1, <4>2 DEF AvitoPage
      <4>3. CASE ~(page = <<>> \/ Len(all) >= Limit \/ p >= MaxPages)
        BY <1>1, <4>1, <4>3 DEF AvitoPage
      <4> QED  BY <4>2, <4>3
    <3>2. p \in Nat \ {0} /\ p - 1 = pos - 3 /\ p <= MaxPages
      BY <1>2, <2>1, <2>5
    <3>3. got = Without(FirstOf((p - 1) * Per, site[1]), passed)
      BY <2>1, <2>5, <3>2
    <3>4. pos = p + 2
      BY <1>2
    <3> HIDE DEF p, passed
    <3>5. /\ New(page) = page /\ Without(page, passed) \in Seq(Items)
          /\ all = Without(FirstOf(p * Per, site[1]), passed)
      BY <1>2, <3>2, <3>3, PageTaken
    <3>6. all \in Seq(Items) /\ Len(all) \in Nat
      BY <1>2, <3>5, ConcatProperties, LenProperties
    <3> HIDE DEF page, all
    <3>7. CASE page = <<>> \/ Len(all) >= Limit \/ p >= MaxPages
      <4>1. Finish(all) /\ status' # "scanning"
        BY <3>1, <3>7 DEF Finish
      <4> DEFINE to == p * Per
                 end == MaxPages * Per
      <4>2. to \in Nat /\ end \in Nat
        BY <2>0, <3>2, CollectNumbers, ProductGrows
      <4>3. \/ Limit <= Len(all)
            \/ \A i \in (to + 1)..Len(site[1]) : i <= end => site[1][i] \in passed
        <5>1. CASE page = <<>>
          <6> DEFINE from == (p - 1) * Per
          <6>1. Len(site[1]) <= from /\ from \in Nat /\ from < to
            BY <1>2, <3>2, <5>1, PageReads, PageBounds DEF page
          <6> HIDE DEF from, to
          <6> QED  BY <2>0, <4>2, <6>1
        <5>2. CASE Len(all) >= Limit
          BY <2>0, <3>6, <5>2
        <5>3. CASE p >= MaxPages
          <6>1. to = end
            BY <2>0, <3>2, <5>3
          <6> HIDE DEF to, end
          <6> QED  BY <2>0, <4>2, <6>1
        <5> QED  BY <3>7, <5>1, <5>2, <5>3
      <4>4. FirstOf(Limit, Without(FirstOf(p * Per, site[1]), passed))
              = FirstOf(Limit, Without(FirstOf(MaxPages * Per, site[1]), passed))
        BY <2>0, <3>2, <3>5, <4>3, EndTaken
      <4>5. Wanted = FirstOf(Limit, Without(FirstOf(MaxPages * Per, site[1]), passed))
        BY <2>0, <2>1, <2>2, <2>5 DEF Reach, passed
      <4>6. status' \in {"cards", "done"} => got' = FirstOf(Limit, all)
        BY <3>6, <4>1, FinishReturns
      <4> QED  BY <3>5, <4>1, <4>4, <4>5, <4>6
    <3>8. CASE ~(page = <<>> \/ Len(all) >= Limit \/ p >= MaxPages)
      <4>1. pos' = pos + 1 /\ got' = all /\ status' = "scanning"
        BY <3>1, <3>8
      <4>2. pos' - 3 = p /\ pos' > 2 /\ pos' - 2 <= MaxPages /\ ~(pos' <= 2)
        BY <2>0, <3>2, <3>4, <3>8, <4>1
      <4>3. Len(got') < Limit
        BY <2>0, <3>6, <3>8, <4>1
      <4>4. got' = Without(FirstOf((pos' - 3) * Per, site0'[1]), Items \ Relevant)
        BY <1>1, <2>0, <3>5, <4>1, <4>2 DEF passed
      <4>5. site0'[2] = <<>> /\ site0'[3] = <<>>
        BY <1>1, <2>0, <2>1, <2>5
      <4> QED  BY <4>1, <4>2, <4>3, <4>4, <4>5 DEF AvitoInv
    <3> QED  BY <3>7, <3>8
  <2> QED  BY <1>2, <2>3, <2>4, <2>5
<1>4. TrackInv' /\ ReadInv' /\ EndedInv'
  <2>1. Hold /\ status' = "scanning" => (CatalogInv /\ ReviewsInv /\ ScrollInv /\ FeedInv /\ AvitoInv)'
    BY <1>1, <1>3 DEF CatalogInv, ReviewsInv, ScrollInv, FeedInv, Sources
  <2> QED  BY <1>1, <1>2, <1>3, <2>1, KeepRead
<1>5. CardsInv' /\ GigsInv'
  BY <1>1 DEF CardsInv, GigsInv
<1> QED  BY <1>4, <1>5 DEF KeptInv

(* Requests that fail, and the captcha. *)
LEMMA FailuresKeep ==
  ASSUME CleanInv, KeptInv,
         \/ CatalogPageFails \/ GigBatchFails \/ ReviewPageFails \/ ReviewCaptcha
         \/ FeedFails \/ AvitoPageFails
  PROVE  KeptInv'
<1>1. /\ UNCHANGED <<scan, site, site0, added, gone>>
      /\ \/ lost' = lost + 1 /\ via' = via
         \/ lost' = lost /\ via' = "browser" /\ scan \in {"reviews", "recent"}
  BY DEF CatalogPageFails, GigBatchFails, ReviewPageFails, ReviewCaptcha, FeedFails, AvitoPageFails, Lose
<1> QED  BY <1>1, StrayKeeps

(* A scan begins with nothing read. *)
LEMMA CollectInitKept == CollectInit => KeptInv
<1> SUFFICES ASSUME CollectInit PROVE KeptInv
  OBVIOUS
<1>1. /\ site0 \in Sites /\ site = site0 /\ status = "scanning" /\ got = <<>> /\ cards = <<>>
      /\ last = 1 /\ streak = 0 /\ entries = 0 /\ lost = 0
      /\ pos = IF scan = "gigs" THEN 0 ELSE 1
  BY DEF CollectInit
<1>2. site0[1] \in Seq(Items) /\ Len(site0[1]) \in Nat
  BY <1>1, SitesAssumption, LenProperties
<1>3. Limit \in Nat \ {0} /\ MaxPages \in Nat \ {0} /\ ScrollLimit \in Nat \ {0} /\ 0 * Per = 0
      /\ Len(<<>>) = 0
  BY CollectNumbers
<1>4. TrackInv
  BY <1>1 DEF TrackInv
<1>5. ReadInv
  <2> SUFFICES ASSUME scan # "gigs"
               PROVE  CatalogInv /\ ReviewsInv /\ ScrollInv /\ FeedInv /\ AvitoInv
    <3>1. scan = "gigs" => CatalogInv /\ ReviewsInv /\ ScrollInv /\ FeedInv /\ AvitoInv
      BY SourceFacts DEF CatalogInv, ReviewsInv, ScrollInv, FeedInv, AvitoInv, Catalogs
    <3> QED  BY <3>1 DEF ReadInv
  <2>1. pos = 1 /\ pos - 1 = 0
    BY <1>1
  <2>2. Read = <<>>
    <3>1. FirstOf(0, site0[1]) = <<>>
      BY <1>2, PrefixFacts
    <3> QED  BY <1>3, <2>1, <3>1 DEF Read
  <2>3. \A passed : Without(<<>>, passed) = <<>>
    BY NothingFacts, WithoutFacts
  <2>4. CatalogInv
    BY <1>1, <2>1, <2>2 DEF CatalogInv
  <2>5. ReviewsInv
    BY <1>1, <1>3, <2>1, <2>2, <2>3 DEF ReviewsInv
  <2>6. ScrollInv
    BY <1>1, <1>3, <2>1, <2>2 DEF ScrollInv
  <2>7. FeedInv
    BY <1>1, <2>1, AllOnceFacts DEF FeedInv
  <2>8. AvitoInv
    BY <1>1, <2>1 DEF AvitoInv
  <2> QED  BY <2>4, <2>5, <2>6, <2>7, <2>8
<1>6. EndedInv /\ CardsInv
  BY <1>1 DEF EndedInv, CardsInv
<1>7. GigsInv
  <2>1. scan = "gigs" => \A i \in 1..Len(site[1]) : ~(i <= pos)
    BY <1>1, <1>2
  <2> QED  BY <1>1, <2>1 DEF GigsInv
<1> QED  BY <1>4, <1>5, <1>6, <1>7 DEF KeptInv

(* Every step keeps what was read. *)
LEMMA CollectStepKept == CleanInv /\ KeptInv /\ [CollectNext]_scanVars => KeptInv'
<1> SUFFICES ASSUME CleanInv, KeptInv, [CollectNext]_scanVars PROVE KeptInv'
  OBVIOUS
<1>0. CleanInv'
  BY CollectStepClean
<1>1. CASE CatalogPage
  BY <1>0, <1>1, CatalogKeeps
<1>2. CASE (\E ok \in BOOLEAN : CardFetched(ok)) \/ CardsDone
  BY <1>2, CardsKeep
<1>3. CASE GigBatch
  BY <1>0, <1>3, GigsKeep
<1>4. CASE ReviewPage
  BY <1>4, ReviewsKeep
<1>5. CASE \E grows, read \in BOOLEAN : Scroll(grows, read)
  BY <1>5, ScrollKeeps
<1>6. CASE Feed
  BY <1>6, FeedKeeps
<1>7. CASE AvitoPage
  BY <1>7, AvitoKeeps
<1>8. CASE \/ CatalogPageFails \/ GigBatchFails \/ ReviewPageFails \/ ReviewCaptcha
           \/ FeedFails \/ AvitoPageFails
  BY <1>8, FailuresKeep
<1>9. CASE Publish \/ Withdraw
  BY <1>9, ChangesKeep
<1>10. CASE UNCHANGED scanVars
  <2>1. UNCHANGED <<scan, site, pos, last, streak, got, entries, cards, status, via, site0, lost, added, gone>>
    BY <1>10 DEF scanVars, progress
  <2>2. TrackInv' /\ CardsInv' /\ GigsInv'
    BY <2>1 DEF KeptInv, TrackInv, CardsInv, GigsInv, Ranked
  <2>3. Hold' = Hold /\ (CatalogInv /\ ReviewsInv /\ ScrollInv /\ FeedInv /\ AvitoInv)'
                         = (CatalogInv /\ ReviewsInv /\ ScrollInv /\ FeedInv /\ AvitoInv)
    BY <2>1 DEF Hold, Legible, CatalogInv, ReviewsInv, ScrollInv, FeedInv, AvitoInv, Read, Target, Announced, Sources
  <2>4. Wanted' = Wanted
    BY <2>1 DEF Wanted, Reach, Sources
  <2> QED  BY <2>1, <2>2, <2>3, <2>4 DEF KeptInv, ReadInv, EndedInv
<1> QED  BY <1>1, <1>2, <1>3, <1>4, <1>5, <1>6, <1>7, <1>8, <1>9, <1>10 DEF CollectNext, ScanStep

(* What was read is what was wanted. *)
LEMMA KeptMissesNothing == CleanInv /\ KeptInv => NothingMissed
<1> SUFFICES ASSUME CleanInv, KeptInv, status = "done", lost = 0, via = "http"
             PROVE  /\ added + gone = 0 /\ Legible => got = Wanted
                    /\ scan \in Catalogs => cards = Ranked
                    /\ scan = "gigs" /\ gone = 0 => Range(site0[1]) \subseteq Range(got)
  BY DEF NothingMissed
<1>1. added + gone = 0 /\ Legible => got = Wanted
  BY DEF KeptInv, EndedInv, Hold
<1>2. scan \in Catalogs => cards = Ranked
  BY DEF KeptInv, CardsInv
<1>3. ASSUME scan = "gigs", gone = 0 PROVE Range(site0[1]) \subseteq Range(got)
  <2>1. /\ Range(site0[1]) \subseteq Range(site[1]) /\ Len(site[1]) <= pos
        /\ \A i \in 1..Len(site[1]) :
             i <= pos /\ site[1][i] \in Range(site0[1]) => site[1][i] \in Range(got)
    BY <1>3 DEF KeptInv, GigsInv
  <2>2. Len(site[1]) \in Nat /\ pos \in Nat /\ DOMAIN site[1] = 1..Len(site[1])
    BY LenProperties DEF CleanInv, ShapeInv, ListsInv
  <2>3. ASSUME NEW x \in Range(site0[1]) PROVE x \in Range(got)
    <3>1. PICK i \in 1..Len(site[1]) : x = site[1][i]
      BY <2>1, <2>2, <2>3 DEF Range
    <3> QED  BY <2>1, <2>2, <2>3, <3>1
  <2> QED  BY <2>3
<1> QED  BY <1>1, <1>2, <1>3

(* A scan that loses no request and meets no captcha returns, of a listing    *)
(* that holds still and whose end it can tell (reviews by time for a scan with *)
(* a cutoff, pages that fl.ru links to), all it stands for and in order; its   *)
(* cards are the first of what was found; and a seller's gigs are complete     *)
(* even when others are published meanwhile.                                  *)
THEOREM ScansMissNothing == CollectSpec => []NothingMissed
<1>1. CollectInit => CleanInv /\ KeptInv
  BY CollectInitClean, CollectInitKept
<1>2. CleanInv /\ KeptInv /\ [CollectNext]_scanVars => CleanInv' /\ KeptInv'
  BY CollectStepClean, CollectStepKept
<1>3. CleanInv /\ KeptInv => NothingMissed
  BY KeptMissesNothing
<1> QED  BY <1>1, <1>2, <1>3, PTL DEF CollectSpec


=============================================================================

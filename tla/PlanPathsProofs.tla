--------------------------- MODULE PlanPathsProofs ---------------------------
(* What the operators on paths compute, for paths of any length. *)
EXTENDS PlanPaths, TLAPS, SequenceTheorems, WellFoundedInduction

NoDots(names) == \A i \in DOMAIN names : names[i] # ".."

-----------------------------------------------------------------------------
\* Induction over the numbers and over sequences, as facts about sets.

LEMMA NumbersBelow == OpToRel(<, Nat) = {p \in Nat \X Nat : p[1] < p[2]}
BY DEF OpToRel

\* A set of numbers that is not empty has a least one.
LEMMA LeastNumber ==
  ASSUME NEW S, S \subseteq Nat, S # {}
  PROVE  \E n \in S : \A m \in S : n <= m
<1> DEFINE Less == {p \in Nat \X Nat : p[1] < p[2]}
<1>1. IsWellFoundedOn(Less, Nat)
  BY NatLessThanWellFounded, NumbersBelow, Zenon
<1>2. PICK least \in S : \A n \in S : <<n, least>> \notin Less
  <2> HIDE DEF Less
  <2> QED
    BY <1>1, WFMin
<1>3. ASSUME NEW n \in S PROVE least <= n
  <2>1. least \in Nat /\ n \in Nat /\ ~(n < least)
    BY <1>2
  <2> QED
    BY <2>1
<1> QED
  BY <1>3

\* A set with 0 and with the successor of each of its numbers has every number.
LEMMA NumberInduction ==
  ASSUME NEW S, 0 \in S, \A n \in Nat : n \in S => n + 1 \in S
  PROVE  Nat \subseteq S
<1> DEFINE Rest == Nat \ S
<1>1. SUFFICES ASSUME Rest # {} PROVE FALSE
  OBVIOUS
<1>2. PICK least \in Rest : \A n \in Rest : least <= n
  BY <1>1, LeastNumber
<1>3. least - 1 \in Nat /\ (least - 1) + 1 = least
  OBVIOUS
<1>4. least - 1 \in S
  BY <1>2, <1>3
<1> QED
  BY <1>3, <1>4

\* A set with the empty sequence and with every extension of its sequences by a name
\* has every sequence of names: a loop over the elements of a path reaches its end.
LEMMA SequenceInduction ==
  ASSUME NEW S, <<>> \in S,
         \A s \in Seq(Names), n \in Names : s \in S => Append(s, n) \in S
  PROVE  Seq(Names) \subseteq S
<1> DEFINE Lengths == {k \in Nat : \A s \in Seq(Names) : Len(s) = k => s \in S}
<1>1. 0 \in Lengths
  BY EmptySeq
<1>2. ASSUME NEW k \in Nat, k \in Lengths PROVE k + 1 \in Lengths
  <2> SUFFICES ASSUME NEW s \in Seq(Names), Len(s) = k + 1 PROVE s \in S
    OBVIOUS
  <2>1. PICK t \in Seq(Names), n \in Names : s = Append(t, n)
    <3>1. s # <<>>
      BY EmptySeq
    <3> QED
      BY <3>1, SequenceEmptyOrAppend, Zenon
  <2>2. Len(t) = k
    BY <2>1, AppendProperties, LenProperties
  <2> QED
    BY <1>2, <2>1, <2>2
<1>3. Nat \subseteq Lengths
  <2> HIDE DEF Lengths
  <2> QED BY <1>1, <1>2, NumberInduction
<1> QED
  BY <1>3, LenProperties

-----------------------------------------------------------------------------
\* Sequences of names.

LEMMA AppendFacts ==
  ASSUME NEW S, NEW s \in Seq(S), NEW n \in S
  PROVE  /\ Append(s, n) \in Seq(S)
         /\ Append(s, n) # <<>>
         /\ Len(Append(s, n)) = Len(s) + 1
         /\ \A i \in 1..Len(s) : Append(s, n)[i] = s[i]
         /\ Append(s, n)[Len(s) + 1] = n
         /\ Front(Append(s, n)) = s
         /\ Last(Append(s, n)) = n
<1>1. Append(s, n) \in Seq(S)
  BY AppendProperties
<1>2. Len(Append(s, n)) = Len(s) + 1 /\ Append(s, n) # <<>>
  BY AppendProperties
<1>3. \A i \in 1..Len(s) : Append(s, n)[i] = s[i]
  BY AppendProperties
<1>4. Append(s, n)[Len(s) + 1] = n
  BY AppendProperties
<1>5. Front(Append(s, n)) = s
  BY DEF Front
<1> QED
  BY <1>1, <1>2, <1>3, <1>4, <1>5 DEF Last

\* A sequence that is not empty is its front and its last element.
LEMMA FrontFacts ==
  ASSUME NEW S, NEW s \in Seq(S), s # <<>>
  PROVE  /\ Front(s) \in Seq(S) /\ Last(s) \in S
         /\ s = Append(Front(s), Last(s))
<1>1. PICK t \in Seq(S), n \in S : s = Append(t, n)
  BY SequenceEmptyOrAppend, Zenon
<1> QED
  BY <1>1, AppendFacts

Reassociates(s, t, n) == s \o Append(t, n) = Append(s \o t, n)

\* An element may be appended before or after two sequences are joined.
LEMMA AppendReassociates ==
  ASSUME NEW S, NEW s \in Seq(S), NEW t \in Seq(S), NEW n \in S
  PROVE  Reassociates(s, t, n)
<1>1. <<n>> \in Seq(S)
  OBVIOUS
<1>2. s \o t \in Seq(S)
  BY ConcatProperties
<1>3. Append(t, n) = t \o <<n>> /\ Append(s \o t, n) = (s \o t) \o <<n>>
  BY <1>2, AppendIsConcat
<1> QED
  BY <1>1, <1>3, ConcatAssociative DEF Reassociates

\* The same of names, as an equation to rewrite with.
LEMMA ConcatAppend ==
  ASSUME NEW s \in Seq(Names), NEW t \in Seq(Names), NEW n \in Names
  PROVE  s \o Append(t, n) = Append(s \o t, n)
<1>1. Reassociates(s, t, n)
  BY AppendReassociates
<1> QED
  BY <1>1 DEF Reassociates

Associates(s, t, u) == s \o (t \o u) = (s \o t) \o u

\* Joining is associative.
LEMMA ConcatAssociates ==
  ASSUME NEW S, NEW s \in Seq(S), NEW t \in Seq(S), NEW u \in Seq(S)
  PROVE  Associates(s, t, u)
BY ConcatAssociative DEF Associates

SplitsInTwo(S, s, k, h, t) ==
  /\ h \in Seq(S) /\ Len(h) = k /\ \A i \in 1..k : h[i] = s[i]
  /\ t \in Seq(S) /\ Len(t) = Len(s) - k /\ \A i \in 1..(Len(s) - k) : t[i] = s[k + i]
  /\ s = h \o t

\* A sequence is what comes up to a place and what comes after it.
LEMMA SplitInTwo ==
  ASSUME NEW S, NEW s \in Seq(S), NEW k \in 0..Len(s)
  PROVE  SplitsInTwo(S, s, k, SubSeq(s, 1, k), SubSeq(s, k + 1, Len(s)))
<1>1. Len(s) \in Nat /\ k \in Nat /\ k <= Len(s) /\ \A i \in 1..Len(s) : s[i] \in S
  BY LenProperties, ElementOfSeq
<1> DEFINE t == SubSeq(s, 1, k)
           u == SubSeq(s, k + 1, Len(s))
<1>2. t \in Seq(S) /\ Len(t) = k /\ \A i \in 1..k : t[i] = s[i]
  BY <1>1, SubSeqProperties
<1>3. u \in Seq(S) /\ Len(u) = Len(s) - k /\ \A i \in 1..(Len(s) - k) : u[i] = s[k + i]
  BY <1>1, SubSeqProperties
<1> HIDE DEF t, u
<1>4. s = t \o u
  <2>1. t \o u \in Seq(S) /\ Len(t \o u) = Len(s)
    <3>1. t \o u \in Seq(S)
      BY <1>2, <1>3, ConcatProperties
    <3>2. Len(t \o u) = Len(t) + Len(u)
      BY <1>2, <1>3, ConcatProperties
    <3> QED
      BY <1>1, <1>2, <1>3, <3>1, <3>2
  <2>2. ASSUME NEW i \in 1..Len(s) PROVE (t \o u)[i] = s[i]
    <3>1. (t \o u)[i] = IF i <= k THEN t[i] ELSE u[i - k]
      BY <1>1, <1>2, <1>3, ConcatProperties
    <3> QED
      BY <1>1, <1>2, <1>3, <3>1
  <2> QED
    BY <2>1, <2>2, SeqEqual
<1>5. SplitsInTwo(S, s, k, t, u)
  BY <1>2, <1>3, <1>4, Zenon DEF SplitsInTwo
<1> QED
  BY <1>5, Zenon DEF t, u

\* The same, part by part.
LEMMA Split ==
  ASSUME NEW S, NEW s \in Seq(S), NEW k \in 0..Len(s)
  PROVE  /\ SubSeq(s, 1, k) \in Seq(S) /\ Len(SubSeq(s, 1, k)) = k
         /\ \A i \in 1..k : SubSeq(s, 1, k)[i] = s[i]
         /\ SubSeq(s, k + 1, Len(s)) \in Seq(S)
         /\ Len(SubSeq(s, k + 1, Len(s))) = Len(s) - k
         /\ \A i \in 1..(Len(s) - k) : SubSeq(s, k + 1, Len(s))[i] = s[k + i]
         /\ s = SubSeq(s, 1, k) \o SubSeq(s, k + 1, Len(s))
<1> DEFINE t == SubSeq(s, 1, k)
           u == SubSeq(s, k + 1, Len(s))
<1>1. SplitsInTwo(S, s, k, t, u)
  BY SplitInTwo, Zenon
<1> HIDE DEF t, u
<1>2. t \in Seq(S) /\ Len(t) = k /\ \A i \in 1..k : t[i] = s[i]
  BY <1>1 DEF SplitsInTwo
<1>3. u \in Seq(S) /\ Len(u) = Len(s) - k /\ \A i \in 1..(Len(s) - k) : u[i] = s[k + i]
  BY <1>1 DEF SplitsInTwo
<1>4. s = t \o u
  BY <1>1 DEF SplitsInTwo
<1> QED
  BY <1>2, <1>3, <1>4 DEF t, u

-----------------------------------------------------------------------------
\* Walk is the function that its recursive definition describes.

IsWalk(w, abs, base, names, k) ==
  w = [i \in 0..k |-> IF i = 0 THEN base ELSE Push(abs, w[i - 1], names[i])]

\* A path can be walked up to any of its names.
LEMMA WalkExists ==
  ASSUME NEW abs, NEW base, NEW names, NEW k \in Nat
  PROVE  \E w : IsWalk(w, abs, base, names, k)
<1> DEFINE Is(w, n) == IsWalk(w, abs, base, names, n)
           S == {n \in Nat : \E w : Is(w, n)}
<1>1. 0 \in S
  <2> Is([i \in 0..0 |-> base], 0)
    BY DEF IsWalk
  <2> QED OBVIOUS
<1>2. ASSUME NEW n \in Nat, n \in S PROVE n + 1 \in S
  <2>1. PICK w : Is(w, n)
    BY <1>2
  <2> DEFINE v == [i \in 0..(n + 1) |-> IF i = n + 1 THEN Push(abs, w[n], names[n + 1]) ELSE w[i]]
  <2>2. \A i \in 0..(n + 1) : v[i] = IF i = 0 THEN base ELSE Push(abs, v[i - 1], names[i])
    BY <2>1 DEF IsWalk
  <2>3. \E e : v = [i \in 0..(n + 1) |-> e[i]]
    OBVIOUS
  <2> HIDE DEF v
  <2>4. Is(v, n + 1)
    BY <2>2, <2>3 DEF IsWalk
  <2> QED
    BY <2>4
<1>3. Nat \subseteq S
  <2> HIDE DEF S
  <2> QED BY <1>1, <1>2, NumberInduction
<1> QED
  BY <1>3

\* Walk is what its recursive definition says: the loop of filepath.Clean takes one
\* name at a time.
LEMMA WalkDef ==
  ASSUME NEW abs, NEW base, NEW names \in Seq(Names)
  PROVE  IsWalk(Walk(abs, base, names), abs, base, names, Len(names))
<1>1. Len(names) \in Nat
  BY LenProperties
<1>2. \E w : IsWalk(w, abs, base, names, Len(names))
  BY <1>1, WalkExists
<1>3. Walk(abs, base, names) = CHOOSE w : IsWalk(w, abs, base, names, Len(names))
  BY DEF Walk, IsWalk
<1> QED
  BY <1>2, <1>3

-----------------------------------------------------------------------------
\* The type of a walk, and its last step.

LEMMA PushType ==
  ASSUME NEW abs, NEW names \in Seq(Names), NEW n \in Names
  PROVE  Push(abs, names, n) \in Seq(Names)
BY AppendFacts, FrontFacts DEF Push

\* The loop of filepath.Clean makes sequences of names out of sequences of names.
LEMMA WalkType ==
  ASSUME NEW abs, NEW base \in Seq(Names), NEW names \in Seq(Names)
  PROVE  \A i \in 0..Len(names) : Walk(abs, base, names)[i] \in Seq(Names)
<1> DEFINE w == Walk(abs, base, names)
           S == {i \in Nat : i <= Len(names) => w[i] \in Seq(Names)}
<1>1. Len(names) \in Nat /\ \A i \in 1..Len(names) : names[i] \in Names
  BY LenProperties, ElementOfSeq
<1>2. IsWalk(w, abs, base, names, Len(names))
  BY WalkDef
<1> HIDE DEF w
<1>3. w[0] = base /\ \A i \in 1..Len(names) : w[i] = Push(abs, w[i - 1], names[i])
  BY <1>1, <1>2 DEF IsWalk
<1>4. 0 \in S
  BY <1>3
<1>5. ASSUME NEW i \in Nat, i \in S PROVE i + 1 \in S
  <2> SUFFICES ASSUME i + 1 <= Len(names) PROVE w[i + 1] \in Seq(Names)
    OBVIOUS
  <2>1. w[i + 1] = Push(abs, w[i], names[i + 1]) /\ names[i + 1] \in Names
    BY <1>1, <1>3
  <2>2. w[i] \in Seq(Names)
    BY <1>1, <1>5
  <2> QED
    BY <2>1, <2>2, PushType
<1>6. Nat \subseteq S
  <2> HIDE DEF S
  <2> QED BY <1>4, <1>5, NumberInduction
<1> QED
  BY <1>1, <1>6 DEF w

\* So does the whole of it.
LEMMA PushedType ==
  ASSUME NEW abs, NEW base \in Seq(Names), NEW names \in Seq(Names)
  PROVE  Pushed(abs, base, names) \in Seq(Names)
BY WalkType, LenProperties DEF Pushed

\* The empty path leads nowhere.
LEMMA PushedNothing ==
  ASSUME NEW abs, NEW base
  PROVE  Pushed(abs, base, <<>>) = base
<1>1. <<>> \in Seq(Names) /\ Len(<<>>) = 0
  BY EmptySeq
<1>2. IsWalk(Walk(abs, base, <<>>), abs, base, <<>>, 0)
  BY <1>1, WalkDef
<1> QED
  BY <1>1, <1>2 DEF Pushed, IsWalk

\* The last name of a path is the last that filepath.Clean looks at.
LEMMA PushedAppend ==
  ASSUME NEW abs, NEW base, NEW s \in Seq(Names), NEW n \in Names
  PROVE  Pushed(abs, base, Append(s, n)) = Push(abs, Pushed(abs, base, s), n)
<1> DEFINE t == Append(s, n)
           v == Walk(abs, base, s)
           w == Walk(abs, base, t)
           S == {i \in Nat : i <= Len(s) => w[i] = v[i]}
<1>1. /\ Len(s) \in Nat /\ Len(t) = Len(s) + 1 /\ t \in Seq(Names)
      /\ \A i \in 1..Len(s) : t[i] = s[i]
      /\ t[Len(s) + 1] = n
  <2>1. Len(s) \in Nat
    BY LenProperties
  <2> QED
    BY <2>1, AppendFacts
<1>2. IsWalk(v, abs, base, s, Len(s)) /\ IsWalk(w, abs, base, t, Len(t))
  BY <1>1, WalkDef
<1>3. Pushed(abs, base, t) = w[Len(t)] /\ Pushed(abs, base, s) = v[Len(s)]
  BY DEF Pushed
<1> HIDE DEF t, v, w
<1>4. v[0] = base /\ \A i \in 1..Len(s) : v[i] = Push(abs, v[i - 1], s[i])
  BY <1>1, <1>2 DEF IsWalk
<1>5. w[0] = base /\ \A i \in 1..Len(t) : w[i] = Push(abs, w[i - 1], t[i])
  <2>1. Len(t) \in Nat
    BY <1>1
  <2>2. \A i \in 0..Len(t) : w[i] = IF i = 0 THEN base ELSE Push(abs, w[i - 1], t[i])
    BY <1>2 DEF IsWalk
  <2> QED
    BY <2>1, <2>2
<1>6. 0 \in S
  BY <1>4, <1>5
<1>7. ASSUME NEW i \in Nat, i \in S PROVE i + 1 \in S
  <2> SUFFICES ASSUME i + 1 <= Len(s) PROVE w[i + 1] = v[i + 1]
    OBVIOUS
  <2>1. w[i + 1] = Push(abs, w[i], t[i + 1]) /\ v[i + 1] = Push(abs, v[i], s[i + 1])
    BY <1>1, <1>4, <1>5
  <2>2. w[i] = v[i] /\ t[i + 1] = s[i + 1]
    BY <1>1, <1>7
  <2> QED
    BY <2>1, <2>2
<1>8. Nat \subseteq S
  <2> HIDE DEF S
  <2> QED BY <1>6, <1>7, NumberInduction
<1>9. w[Len(s)] = v[Len(s)]
  BY <1>1, <1>8
<1>10. w[Len(s) + 1] = Push(abs, w[Len(s)], t[Len(s) + 1])
  <2>1. Len(s) + 1 \in 1..Len(t) /\ (Len(s) + 1) - 1 = Len(s)
    BY <1>1
  <2>2. w[Len(s) + 1] = Push(abs, w[(Len(s) + 1) - 1], t[Len(s) + 1])
    BY <1>5, <2>1, Zenon
  <2> QED
    BY <2>1, <2>2
<1> QED
  BY <1>1, <1>3, <1>9, <1>10 DEF t

-----------------------------------------------------------------------------
\* What is pushed: two sequences one after the other, names that are not "..",
\* nothing but "..", and the clean form of a relative path.

LEMMA PushedConcat ==
  ASSUME NEW abs, NEW base \in Seq(Names), NEW s \in Seq(Names), NEW t \in Seq(Names)
  PROVE  Pushed(abs, base, s \o t) = Pushed(abs, Pushed(abs, base, s), t)
<1> DEFINE mid == Pushed(abs, base, s)
           T == {u \in Seq(Names) : Pushed(abs, base, s \o u) = Pushed(abs, mid, u)}
<1>1. <<>> \in T
  BY PushedNothing, ConcatEmptySeq, EmptySeq
<1>2. ASSUME NEW u \in Seq(Names), NEW n \in Names, u \in T PROVE Append(u, n) \in T
  <2>1. s \o u \in Seq(Names) /\ s \o Append(u, n) = Append(s \o u, n)
    <3>1. s \o u \in Seq(Names)
      BY ConcatProperties
    <3>2. s \o Append(u, n) = Append(s \o u, n)
      BY ConcatAppend
    <3> QED
      BY <3>1, <3>2
  <2>2. Pushed(abs, base, s \o Append(u, n)) = Push(abs, Pushed(abs, base, s \o u), n)
    <3> DEFINE v == s \o u
    <3>1. v \in Seq(Names) /\ s \o Append(u, n) = Append(v, n)
      BY <2>1, Zenon
    <3> HIDE DEF v
    <3>2. Pushed(abs, base, Append(v, n)) = Push(abs, Pushed(abs, base, v), n)
      BY <3>1, PushedAppend
    <3> QED
      BY <3>1, <3>2, Zenon DEF v
  <2>3. Pushed(abs, mid, Append(u, n)) = Push(abs, Pushed(abs, mid, u), n)
    BY PushedAppend
  <2>4. Append(u, n) \in Seq(Names)
    BY AppendFacts
  <2> QED
    BY <1>2, <2>2, <2>3, <2>4
<1>3. Seq(Names) \subseteq T
  <2> HIDE DEF T
  <2> QED BY <1>1, <1>2, SequenceInduction
<1> QED
  BY <1>3

PushesInTurn(abs, base, s, t) ==
  Pushed(abs, base, s \o t) = Pushed(abs, Pushed(abs, base, s), t)

\* One path after the other, as an equation to rewrite with.
LEMMA PushedInTurn ==
  ASSUME NEW abs, NEW base \in Seq(Names), NEW s \in Seq(Names), NEW t \in Seq(Names)
  PROVE  PushesInTurn(abs, base, s, t)
BY PushedConcat DEF PushesInTurn

\* A path is without ".." if what comes before its last name is, and the last name.
LEMMA NoDotsAppend ==
  ASSUME NEW s \in Seq(Names), NEW n \in Names
  PROVE  NoDots(Append(s, n)) <=> NoDots(s) /\ n # ".."
<1>1. Len(s) \in Nat /\ DOMAIN s = 1..Len(s) /\ DOMAIN Append(s, n) = 1..(Len(s) + 1)
  BY LenProperties, AppendFacts
<1>2. (\A i \in 1..Len(s) : Append(s, n)[i] = s[i]) /\ Append(s, n)[Len(s) + 1] = n
  BY AppendFacts
<1> QED
  BY <1>1, <1>2 DEF NoDots

\* A path without ".." only adds its names.
LEMMA PushedNames ==
  ASSUME NEW abs, NEW base \in Seq(Names), NEW s \in Seq(Names), NoDots(s)
  PROVE  Pushed(abs, base, s) = base \o s
<1> DEFINE T == {u \in Seq(Names) : NoDots(u) => Pushed(abs, base, u) = base \o u}
<1>1. <<>> \in T
  BY PushedNothing, ConcatEmptySeq, EmptySeq
<1>2. ASSUME NEW u \in Seq(Names), NEW n \in Names, u \in T PROVE Append(u, n) \in T
  <2> SUFFICES ASSUME NoDots(Append(u, n)) PROVE Pushed(abs, base, Append(u, n)) = base \o Append(u, n)
    BY AppendFacts
  <2>1. NoDots(u) /\ n # ".."
    BY NoDotsAppend
  <2>2. Pushed(abs, base, Append(u, n)) = Push(abs, base \o u, n)
    <3>1. Pushed(abs, base, u) = base \o u
      BY <1>2, <2>1
    <3>2. Pushed(abs, base, Append(u, n)) = Push(abs, Pushed(abs, base, u), n)
      BY PushedAppend
    <3> QED
      BY <3>1, <3>2, Zenon
  <2>3. Push(abs, base \o u, n) = Append(base \o u, n)
    BY <2>1 DEF Push
  <2> QED
    <3>1. base \o Append(u, n) = Append(base \o u, n)
      BY ConcatAppend
    <3> QED
      BY <2>2, <2>3, <3>1, Zenon
<1>3. Seq(Names) \subseteq T
  <2> HIDE DEF T
  <2> QED BY <1>1, <1>2, SequenceInduction
<1> QED
  BY <1>3

\* filepath.Clean leaves no ".." in an absolute path.
LEMMA PushedNoDots ==
  ASSUME NEW base \in Seq(Names), NoDots(base), NEW s \in Seq(Names)
  PROVE  NoDots(Pushed(TRUE, base, s))
<1> DEFINE T == {u \in Seq(Names) : NoDots(Pushed(TRUE, base, u))}
<1>1. <<>> \in T
  BY PushedNothing, EmptySeq
<1>2. ASSUME NEW u \in Seq(Names), NEW n \in Names, u \in T PROVE Append(u, n) \in T
  <2> DEFINE v == Pushed(TRUE, base, u)
  <2>1. v \in Seq(Names) /\ NoDots(v)
    BY <1>2, PushedType
  <2>2. Pushed(TRUE, base, Append(u, n)) = Push(TRUE, v, n)
    BY PushedAppend
  <2> HIDE DEF v
  <2>3. NoDots(Push(TRUE, v, n))
    <3>1. CASE n # ".."
      BY <2>1, <3>1, NoDotsAppend DEF Push
    <3>2. CASE n = ".." /\ v # <<>> /\ Last(v) # ".."
      <4>1. Front(v) \in Seq(Names) /\ Last(v) \in Names /\ v = Append(Front(v), Last(v))
        BY <2>1, <3>2, FrontFacts, Zenon
      <4>2. NoDots(Front(v))
        BY <2>1, <4>1, NoDotsAppend, Zenon
      <4>3. Push(TRUE, v, n) = Front(v)
        BY <3>2, Zenon DEF Push
      <4> QED
        BY <4>2, <4>3, Zenon
    <3>3. CASE n = ".." /\ ~(v # <<>> /\ Last(v) # "..")
      BY <2>1, <3>3 DEF Push
    <3> QED
      BY <3>1, <3>2, <3>3
  <2> QED
    BY <2>2, <2>3, AppendFacts
<1>3. Seq(Names) \subseteq T
  <2> HIDE DEF T
  <2> QED BY <1>1, <1>2, SequenceInduction
<1> QED
  BY <1>3

\* A path leads to where its clean form leads, from wherever one starts: filepath.Join
\* of a clean path is that of the path itself, on which resolveWorkspacePath and
\* resolvePlanStepPath rest.
LEMMA PushedClean ==
  ASSUME NEW abs, NEW base \in Seq(Names), NEW s \in Seq(Names)
  PROVE  Pushed(abs, base, Pushed(FALSE, <<>>, s)) = Pushed(abs, base, s)
<1> DEFINE T == {u \in Seq(Names) :
                   Pushed(abs, base, Pushed(FALSE, <<>>, u)) = Pushed(abs, base, u)}
<1>1. <<>> \in T
  BY PushedNothing, EmptySeq
<1>2. ASSUME NEW u \in Seq(Names), NEW n \in Names, u \in T PROVE Append(u, n) \in T
  <2> DEFINE c == Pushed(FALSE, <<>>, u)
             x == Pushed(abs, base, u)
  <2>1. c \in Seq(Names) /\ x \in Seq(Names) /\ Pushed(abs, base, c) = x
    BY <1>2, PushedType, EmptySeq
  <2>2. /\ Pushed(FALSE, <<>>, Append(u, n)) = Push(FALSE, c, n)
        /\ Pushed(abs, base, Append(u, n)) = Push(abs, x, n)
    BY PushedAppend, EmptySeq
  <2> HIDE DEF c, x
  <2>3. Pushed(abs, base, Push(FALSE, c, n)) = Push(abs, x, n)
    <3>1. CASE Push(FALSE, c, n) = Append(c, n)
      <4>1. Pushed(abs, base, Append(c, n)) = Push(abs, Pushed(abs, base, c), n)
        BY <2>1, PushedAppend
      <4> QED
        BY <2>1, <3>1, <4>1, Zenon
    <3>2. CASE n = ".." /\ c # <<>> /\ Last(c) # ".."
      <4> DEFINE f == Front(c)
                 y == Pushed(abs, base, f)
      <4>1. f \in Seq(Names) /\ Last(c) \in Names /\ c = Append(f, Last(c))
        BY <2>1, <3>2, FrontFacts
      <4>2. y \in Seq(Names) /\ x = Push(abs, y, Last(c))
        <5>1. y \in Seq(Names)
          BY <4>1, PushedType
        <5>2. Pushed(abs, base, Append(f, Last(c))) = Push(abs, y, Last(c))
          BY <4>1, PushedAppend, Zenon
        <5> QED
          BY <2>1, <4>1, <5>1, <5>2, Zenon
      <4>3. Push(FALSE, c, n) = f
        BY <3>2 DEF Push
      <4> HIDE DEF f, y
      <4>4. x = Append(y, Last(c))
        BY <3>2, <4>2 DEF Push
      <4>5. Push(abs, x, n) = y
        BY <3>2, <4>1, <4>2, <4>4, AppendFacts DEF Push
      <4> QED
        BY <4>3, <4>5 DEF y
    <3> QED
      BY <3>1, <3>2 DEF Push
  <2> QED
    BY <2>2, <2>3, AppendFacts
<1>3. Seq(Names) \subseteq T
  <2> HIDE DEF T
  <2> QED BY <1>1, <1>2, SequenceInduction
<1> QED
  BY <1>3

Repeat(n, k) == [i \in 1..k |-> n]
Up(k) == Repeat("..", k)

\* A name repeated.
LEMMA RepeatFacts ==
  ASSUME NEW S, NEW n \in S, NEW k \in Nat
  PROVE  /\ Repeat(n, k) \in Seq(S) /\ Len(Repeat(n, k)) = k
         /\ Repeat(n, k + 1) = Append(Repeat(n, k), n)
<1>1. \A j \in Nat : Repeat(n, j) \in Seq(S) /\ Len(Repeat(n, j)) = j
  <2> TAKE j \in Nat
  <2>1. Repeat(n, j) \in [1..j -> S]
    BY DEF Repeat
  <2> QED
    BY <2>1, SeqDef, LenProperties DEF Repeat
<1> DEFINE u == Append(Repeat(n, k), n)
           v == Repeat(n, k + 1)
<1>2. u \in Seq(S) /\ Len(u) = k + 1 /\ u[k + 1] = n
      /\ \A i \in 1..k : u[i] = Repeat(n, k)[i]
  BY <1>1, AppendFacts
<1>3. v \in Seq(S) /\ Len(v) = k + 1 /\ \A i \in 1..(k + 1) : v[i] = n
  BY <1>1 DEF Repeat
<1>4. \A i \in 1..k : Repeat(n, k)[i] = n
  BY DEF Repeat
<1> HIDE DEF u, v
<1>5. \A i \in 1..Len(v) : v[i] = u[i]
  BY <1>2, <1>3, <1>4
<1>6. v = u
  BY <1>2, <1>3, <1>5, SeqEqual
<1> QED
  BY <1>1, <1>6 DEF u, v

\* A number of steps up, as filepath.Rel writes them.
LEMMA UpFacts ==
  ASSUME NEW k \in Nat
  PROVE  Up(k) \in Seq(Names) /\ Len(Up(k)) = k /\ Up(k + 1) = Append(Up(k), "..")
<1>1. ".." \in Names
  BY NamesAssumption
<1>2. /\ Repeat("..", k) \in Seq(Names) /\ Len(Repeat("..", k)) = k
      /\ Repeat("..", k + 1) = Append(Repeat("..", k), "..")
  BY <1>1, RepeatFacts, Zenon
<1> QED
  BY <1>2 DEF Up

\* A step up takes away one name.
LEMMA PushedUp ==
  ASSUME NEW abs, NEW base \in Seq(Names), NoDots(base), NEW k \in 0..Len(base)
  PROVE  Pushed(abs, base, Up(k)) = SubSeq(base, 1, Len(base) - k)
<1> DEFINE S == {j \in Nat : j <= Len(base) =>
                   Pushed(abs, base, Up(j)) = SubSeq(base, 1, Len(base) - j)}
<1>1. Len(base) \in Nat /\ DOMAIN base = 1..Len(base) /\ SubSeq(base, 1, Len(base)) = base
  BY LenProperties, SubSeqFull
<1>2. 0 \in S
  <2>1. Up(0) = <<>>
    BY UpFacts, EmptySeq
  <2>2. Pushed(abs, base, Up(0)) = base
    BY <2>1, PushedNothing
  <2> QED
    BY <1>1, <2>2
<1>3. ASSUME NEW j \in Nat, j \in S PROVE j + 1 \in S
  <2> SUFFICES ASSUME j + 1 <= Len(base)
               PROVE  Pushed(abs, base, Up(j + 1)) = SubSeq(base, 1, Len(base) - (j + 1))
    OBVIOUS
  <2> DEFINE m == Len(base) - j
             t == SubSeq(base, 1, m)
  <2>1. m \in 1..Len(base) /\ m \in 0..Len(base) /\ m - 1 = Len(base) - (j + 1)
    BY <1>1
  <2>2. t \in Seq(Names) /\ Len(t) = m /\ \A i \in 1..m : t[i] = base[i]
    <3> HIDE DEF m
    <3> QED BY <2>1, Split
  <2>3. t # <<>> /\ Last(t) # ".."
    <3>1. t[m] = base[m] /\ base[m] # ".."
      BY <1>1, <2>1, <2>2 DEF NoDots
    <3> HIDE DEF t, m
    <3> QED
      BY <2>1, <2>2, <3>1, EmptySeq DEF Last
  <2>4. Pushed(abs, base, Up(j + 1)) = Push(abs, t, "..")
    <3>1. Pushed(abs, base, Up(j)) = t
      BY <1>1, <1>3
    <3>2. Up(j) \in Seq(Names) /\ Up(j + 1) = Append(Up(j), "..")
      BY UpFacts
    <3>3. Pushed(abs, base, Append(Up(j), "..")) = Push(abs, Pushed(abs, base, Up(j)), "..")
      <4> DEFINE v == Up(j)
      <4>1. v \in Seq(Names) /\ ".." \in Names
        BY <3>2, NamesAssumption
      <4> HIDE DEF v
      <4>2. Pushed(abs, base, Append(v, "..")) = Push(abs, Pushed(abs, base, v), "..")
        BY <4>1, PushedAppend
      <4> QED
        BY <4>2 DEF v
    <3> QED
      BY <3>1, <3>2, <3>3, Zenon
  <2>5. Push(abs, t, "..") = Front(t)
    BY <2>3 DEF Push
  <2>6. Front(t) = SubSeq(base, 1, m - 1)
    <3> DEFINE f == Front(t)
               e == SubSeq(base, 1, m - 1)
    <3>1. f \in Seq(Names) /\ Len(f) = m - 1 /\ \A i \in 1..(m - 1) : f[i] = t[i]
      <4> HIDE DEF t, m
      <4>1. m - 1 \in 0..Len(t)
        BY <2>1, <2>2
      <4> QED
        BY <2>2, <4>1, Split DEF Front
    <3>2. e \in Seq(Names) /\ Len(e) = m - 1 /\ \A i \in 1..(m - 1) : e[i] = base[i]
      <4> HIDE DEF m
      <4>1. m - 1 \in 0..Len(base)
        BY <1>1, <2>1
      <4> QED
        BY <4>1, Split
    <3> HIDE DEF f, e, t, m
    <3>3. \A i \in 1..Len(f) : f[i] = e[i]
      BY <2>1, <2>2, <3>1, <3>2
    <3>4. f = e
      BY <3>1, <3>2, <3>3, SeqEqual
    <3> QED
      BY <3>4 DEF f, e
  <2> QED
    BY <2>1, <2>4, <2>5, <2>6
<1>4. Nat \subseteq S
  <2> HIDE DEF S
  <2> QED BY <1>2, <1>3, NumberInduction
<1> QED
  BY <1>1, <1>4

\* A clean relative path goes up first and then down.
LEMMA CleanShape ==
  ASSUME NEW s \in Seq(Names)
  PROVE  LET c == Pushed(FALSE, <<>>, s) IN c # <<>> /\ ~NoDots(c) => c[1] = ".."
<1> DEFINE UpFirst(c) == \A i \in DOMAIN c : c[i] = ".." => \A j \in 1..i : c[j] = ".."
           T == {u \in Seq(Names) : UpFirst(Pushed(FALSE, <<>>, u))}
<1>1. <<>> \in T
  <2>1. Pushed(FALSE, <<>>, <<>>) = <<>> /\ <<>> \in Seq(Names)
    BY PushedNothing, EmptySeq
  <2>2. UpFirst(<<>>)
    OBVIOUS
  <2> QED
    BY <2>1, <2>2
<1>2. ASSUME NEW u \in Seq(Names), NEW n \in Names, u \in T PROVE Append(u, n) \in T
  <2> DEFINE c == Pushed(FALSE, <<>>, u)
  <2>1. c \in Seq(Names) /\ UpFirst(c)
    BY <1>2, PushedType, EmptySeq
  <2>2. Pushed(FALSE, <<>>, Append(u, n)) = Push(FALSE, c, n)
    BY PushedAppend, EmptySeq
  <2> HIDE DEF c
  <2>3. Len(c) \in Nat /\ DOMAIN c = 1..Len(c)
    BY <2>1, LenProperties
  <2>4. UpFirst(Push(FALSE, c, n))
    <3> DEFINE d == Append(c, n)
               f == Front(c)
    <3>0. /\ Len(d) = Len(c) + 1 /\ DOMAIN d = 1..(Len(c) + 1)
          /\ \A i \in 1..Len(c) : d[i] = c[i]
          /\ d[Len(c) + 1] = n
      BY <2>1, <2>3, AppendFacts, LenProperties
    <3>1. CASE n # ".."
      <4> HIDE DEF d
      <4>1. UpFirst(d)
        BY <2>1, <2>3, <3>0, <3>1
      <4> QED
        BY <3>1, <4>1 DEF Push, d
    <3>2. CASE n = ".." /\ c # <<>> /\ Last(c) # ".."
      <4> DEFINE l == Last(c)
      <4>1. f \in Seq(Names) /\ c = Append(f, l) /\ l \in Names
        BY <2>1, <3>2, FrontFacts
      <4> HIDE DEF f, l
      <4>2. Len(f) \in Nat /\ DOMAIN f = 1..Len(f) /\ Len(c) = Len(f) + 1
            /\ \A i \in 1..Len(f) : f[i] = c[i]
        <5>1. Len(f) \in Nat /\ DOMAIN f = 1..Len(f)
          BY <4>1, LenProperties
        <5>2. Len(Append(f, l)) = Len(f) + 1 /\ \A i \in 1..Len(f) : Append(f, l)[i] = f[i]
          BY <4>1, AppendFacts
        <5> QED
          BY <4>1, <5>1, <5>2
      <4>3. UpFirst(f)
        BY <2>1, <2>3, <4>2
      <4> QED
        BY <3>2, <4>3 DEF Push, f
    <3>3. CASE n = ".." /\ c = <<>>
      <4> HIDE DEF d
      <4>1. UpFirst(d)
        BY <2>3, <3>0, <3>3, EmptySeq
      <4> QED
        BY <3>3, <4>1 DEF Push, d
    <3>4. CASE n = ".." /\ c # <<>> /\ Last(c) = ".."
      <4> HIDE DEF d
      <4>1. Len(c) \in 1..Len(c) /\ c[Len(c)] = ".."
        BY <2>1, <2>3, <3>4, EmptySeq DEF Last
      <4>2. \A j \in 1..Len(c) : c[j] = ".."
        BY <2>1, <2>3, <4>1
      <4>3. UpFirst(d)
        BY <2>3, <3>0, <3>4, <4>2
      <4> QED
        BY <3>4, <4>3 DEF Push, d
    <3> QED
      BY <3>1, <3>2, <3>3, <3>4
  <2> QED
    BY <2>2, <2>4, AppendFacts
<1>3. Seq(Names) \subseteq T
  <2> HIDE DEF T
  <2> QED BY <1>1, <1>2, SequenceInduction
<1> DEFINE c == Pushed(FALSE, <<>>, s)
<1>4. UpFirst(c) /\ c \in Seq(Names)
  BY <1>3, PushedType, EmptySeq
<1> HIDE DEF c
<1>5. c # <<>> /\ ~NoDots(c) => c[1] = ".."
  BY <1>4, LenProperties DEF NoDots
<1> QED
  BY <1>5 DEF c

-----------------------------------------------------------------------------
\* A path within another, and the relative path from one to another.

LEMMA ConcatFacts ==
  ASSUME NEW S, NEW s \in Seq(S), NEW t \in Seq(S)
  PROVE  /\ s \o t \in Seq(S) /\ Len(s) \in Nat /\ Len(t) \in Nat
         /\ Len(s \o t) = Len(s) + Len(t)
         /\ DOMAIN s = 1..Len(s) /\ DOMAIN t = 1..Len(t)
         /\ DOMAIN (s \o t) = 1..(Len(s) + Len(t))
         /\ \A i \in 1..Len(s) : (s \o t)[i] = s[i]
         /\ \A i \in 1..Len(t) : (s \o t)[Len(s) + i] = t[i]
<1> DEFINE u == s \o t
<1>1. u \in Seq(S) /\ Len(u) = Len(s) + Len(t)
  BY ConcatProperties
<1>2. Len(s) \in Nat /\ Len(t) \in Nat /\ DOMAIN s = 1..Len(s) /\ DOMAIN t = 1..Len(t)
  BY LenProperties
<1>3. DOMAIN u = 1..Len(u)
  <2> HIDE DEF u
  <2> QED BY <1>1, LenProperties
<1>4. \A i \in 1..Len(u) : u[i] = IF i <= Len(s) THEN s[i] ELSE t[i - Len(s)]
  <2>1. \A i \in 1..(Len(s) + Len(t)) : (s \o t)[i] = IF i <= Len(s) THEN s[i] ELSE t[i - Len(s)]
    BY ConcatProperties
  <2> QED
    BY <1>1, <2>1
<1> HIDE DEF u
<1>5. \A i \in 1..Len(s) : u[i] = s[i]
  BY <1>1, <1>2, <1>4
<1>6. \A i \in 1..Len(t) : u[Len(s) + i] = t[i]
  <2> TAKE i \in 1..Len(t)
  <2>1. Len(s) + i \in 1..Len(u) /\ ~(Len(s) + i <= Len(s)) /\ (Len(s) + i) - Len(s) = i
    BY <1>1, <1>2
  <2> QED
    BY <1>4, <2>1
<1> QED
  BY <1>1, <1>2, <1>3, <1>5, <1>6 DEF u

\* What is below a folder is within it (isWithinBase).
LEMMA WithinConcat ==
  ASSUME NEW x \in Seq(Names), NEW t \in Seq(Names)
  PROVE  IsWithinBase(x, x \o t)
<1>1. \A i \in DOMAIN x : i \in DOMAIN (x \o t) /\ (x \o t)[i] = x[i]
  BY ConcatFacts
<1> QED
  BY <1>1 DEF IsWithinBase

\* What is within a folder is the folder and a path below it.
LEMMA WithinSplit ==
  ASSUME NEW x \in Seq(Names), NEW y \in Seq(Names), IsWithinBase(x, y)
  PROVE  \E t \in Seq(Names) : y = x \o t
<1>1. Len(x) \in Nat /\ Len(y) \in Nat /\ DOMAIN x = 1..Len(x) /\ DOMAIN y = 1..Len(y)
  BY LenProperties
<1>2. Len(x) <= Len(y) /\ \A i \in 1..Len(x) : y[i] = x[i]
  <2>1. \A i \in 1..Len(x) : i \in 1..Len(y) /\ y[i] = x[i]
    BY <1>1 DEF IsWithinBase
  <2> QED
    BY <1>1, <2>1
<1> DEFINE h == SubSeq(y, 1, Len(x))
           t == SubSeq(y, Len(x) + 1, Len(y))
<1>3. /\ h \in Seq(Names) /\ Len(h) = Len(x) /\ \A i \in 1..Len(x) : h[i] = y[i]
      /\ t \in Seq(Names) /\ y = h \o t
  <2>1. Len(x) \in 0..Len(y)
    BY <1>1, <1>2
  <2>2. SplitsInTwo(Names, y, Len(x), h, t)
    BY <2>1, SplitInTwo, Zenon
  <2> HIDE DEF h, t
  <2> QED
    BY <2>2 DEF SplitsInTwo
<1> HIDE DEF h, t
<1>4. h = x
  <2>1. \A i \in 1..Len(h) : h[i] = x[i]
    BY <1>2, <1>3
  <2> QED
    BY <1>3, <2>1, SeqEqual
<1> QED
  BY <1>3, <1>4

Agrees(base, target, i) == i \in DOMAIN base \cap DOMAIN target /\ base[i] = target[i]
IsCommon(base, target, n) ==
  ~Agrees(base, target, n + 1) /\ \A i \in 1..n : Agrees(base, target, i)

\* Common is the length of what two paths have in common.
LEMMA CommonDef ==
  ASSUME NEW base \in Seq(Names), NEW target \in Seq(Names)
  PROVE  Common(base, target) \in 0..Len(base) /\ IsCommon(base, target, Common(base, target))
<1> DEFINE Parts == {n \in Nat : ~Agrees(base, target, n + 1)}
<1>1. Len(base) \in Nat /\ DOMAIN base = 1..Len(base)
  BY LenProperties
<1>2. Len(base) \in Parts
  BY <1>1 DEF Agrees
<1>3. PICK n \in Parts : \A m \in Parts : n <= m
  BY <1>2, LeastNumber
<1>4. n \in 0..Len(base)
  BY <1>1, <1>2, <1>3
<1>5. IsCommon(base, target, n)
  <2>1. ASSUME NEW i \in 1..n PROVE Agrees(base, target, i)
    <3>1. i - 1 \in Nat /\ ~(n <= i - 1) /\ (i - 1) + 1 = i
      BY <1>4
    <3> QED
      BY <1>3, <3>1
  <2> QED
    BY <2>1 DEF IsCommon
<1>6. Common(base, target) = CHOOSE m \in 0..Len(base) : IsCommon(base, target, m)
  BY DEF Common, IsCommon, Agrees
<1> QED
  BY <1>4, <1>5, <1>6

\* What two paths below x have in common, and the relative path from one to the other.
SplitsAt(x, d, t, m) ==
  /\ m <= Len(t) /\ SubSeq(d, 1, m) = SubSeq(t, 1, m)
  /\ Rel(Abs(x \o d), Abs(x \o t)) = Local(Up(Len(d) - m) \o SubSeq(t, m + 1, Len(t)))

\* filepath.Rel of two paths below a root is as many steps up as the first has names
\* after their common part, and the rest of the second: the root does not show in it.
LEMMA RelSplit ==
  ASSUME NEW x \in Seq(Names), NEW d \in Seq(Names), NEW t \in Seq(Names)
  PROVE  \E m \in 0..Len(d) : SplitsAt(x, d, t, m)
<1> DEFINE base == x \o d
           target == x \o t
           n == Common(base, target)
           m == n - Len(x)
<1>1. /\ base \in Seq(Names) /\ target \in Seq(Names)
      /\ Len(x) \in Nat /\ Len(d) \in Nat /\ Len(t) \in Nat
      /\ Len(base) = Len(x) + Len(d) /\ Len(target) = Len(x) + Len(t)
      /\ DOMAIN base = 1..(Len(x) + Len(d)) /\ DOMAIN target = 1..(Len(x) + Len(t))
      /\ \A i \in 1..Len(x) : base[i] = x[i] /\ target[i] = x[i]
      /\ \A i \in 1..Len(d) : base[Len(x) + i] = d[i]
      /\ \A i \in 1..Len(t) : target[Len(x) + i] = t[i]
  BY ConcatFacts
<1>2. n \in 0..Len(base) /\ IsCommon(base, target, n)
  <2> HIDE DEF base, target
  <2> QED BY <1>1, CommonDef
<1>3. Rel(Abs(base), Abs(target))
        = Local(Up(Len(base) - n) \o SubSeq(target, n + 1, Len(target)))
  BY DEF Rel, Abs, Up, Repeat
<1> HIDE DEF base, target, n
<1>4. \A i \in 1..Len(x) : Agrees(base, target, i)
  BY <1>1 DEF Agrees
<1>5. n \in Nat /\ Len(x) <= n /\ n <= Len(base) /\ n <= Len(target)
  <2>1. n \in Nat /\ n <= Len(base)
    BY <1>1, <1>2
  <2>2. Len(x) <= n
    <3>1. n + 1 \notin 1..Len(x)
      BY <1>2, <1>4 DEF IsCommon
    <3> QED
      BY <1>1, <2>1, <3>1
  <2>3. n # 0 => n \in DOMAIN target
    BY <1>2, <2>1 DEF IsCommon, Agrees
  <2> QED
    BY <1>1, <2>1, <2>2, <2>3
<1>6. m \in 0..Len(d) /\ m \in 0..Len(t)
  BY <1>1, <1>5
<1>7. SubSeq(d, 1, m) = SubSeq(t, 1, m)
  <2> DEFINE e == SubSeq(d, 1, m)
             f == SubSeq(t, 1, m)
  <2>1. e \in Seq(Names) /\ Len(e) = m /\ \A i \in 1..m : e[i] = d[i]
    <3> HIDE DEF m
    <3> QED BY <1>6, Split
  <2>2. f \in Seq(Names) /\ Len(f) = m /\ \A i \in 1..m : f[i] = t[i]
    <3> HIDE DEF m
    <3> QED BY <1>6, Split
  <2>3. \A i \in 1..m : d[i] = t[i]
    <3> TAKE i \in 1..m
    <3>1. Len(x) + i \in 1..n /\ i \in 1..Len(d) /\ i \in 1..Len(t)
      BY <1>1, <1>5
    <3>2. base[Len(x) + i] = target[Len(x) + i]
      BY <1>2, <3>1 DEF IsCommon, Agrees
    <3> QED
      BY <1>1, <3>1, <3>2
  <2> HIDE DEF e, f, m
  <2>4. e = f
    BY <2>1, <2>2, <2>3, SeqEqual
  <2> QED
    BY <2>4 DEF e, f
<1>8. SubSeq(target, n + 1, Len(target)) = SubSeq(t, m + 1, Len(t))
  <2> DEFINE e == SubSeq(target, n + 1, Len(target))
             f == SubSeq(t, m + 1, Len(t))
  <2>1. e \in Seq(Names) /\ Len(e) = Len(target) - n
        /\ \A i \in 1..(Len(target) - n) : e[i] = target[n + i]
    <3>1. n \in 0..Len(target)
      BY <1>1, <1>5
    <3> QED BY <1>1, <3>1, Split
  <2>2. f \in Seq(Names) /\ Len(f) = Len(t) - m
        /\ \A i \in 1..(Len(t) - m) : f[i] = t[m + i]
    <3> HIDE DEF m
    <3> QED BY <1>6, Split
  <2>3. Len(target) - n = Len(t) - m
    BY <1>1, <1>5
  <2>4. \A i \in 1..(Len(t) - m) : target[n + i] = t[m + i]
    <3> TAKE i \in 1..(Len(t) - m)
    <3>1. m + i \in 1..Len(t) /\ Len(x) + (m + i) = n + i
      BY <1>1, <1>5
    <3> QED
      BY <1>1, <3>1
  <2> HIDE DEF e, f, m
  <2>5. e = f
    BY <2>1, <2>2, <2>3, <2>4, SeqEqual
  <2> QED
    BY <2>5 DEF e, f
<1>9. Len(base) - n = Len(d) - m /\ m <= Len(t)
  BY <1>1, <1>5, <1>6
<1>10. Rel(Abs(x \o d), Abs(x \o t)) = Local(Up(Len(d) - m) \o SubSeq(t, m + 1, Len(t)))
  <2> HIDE DEF m
  <2> QED BY <1>3, <1>8, <1>9 DEF base, target
<1> HIDE DEF m
<1> QED
  BY <1>6, <1>7, <1>9, <1>10 DEF SplitsAt

\* filepath.Rel makes a relative path of names.
LEMMA RelType ==
  ASSUME NEW x \in Seq(Names), NEW d \in Seq(Names), NEW t \in Seq(Names)
  PROVE  \E names \in Seq(Names) : Rel(Abs(x \o d), Abs(x \o t)) = Local(names)
<1>1. PICK m \in 0..Len(d) : SplitsAt(x, d, t, m)
  BY RelSplit
<1>2. Len(d) \in Nat /\ Len(t) \in Nat
  BY LenProperties
<1>3. Len(d) - m \in Nat /\ m \in 0..Len(t)
  BY <1>1, <1>2 DEF SplitsAt
<1>4. Up(Len(d) - m) \in Seq(Names)
  BY <1>3, UpFacts
<1>5. SubSeq(t, m + 1, Len(t)) \in Seq(Names)
  BY <1>3, Split
<1>6. Up(Len(d) - m) \o SubSeq(t, m + 1, Len(t)) \in Seq(Names)
  BY <1>4, <1>5, ConcatFacts
<1> QED
  BY <1>1, <1>6 DEF SplitsAt

\* A path below x is, relative to x, what comes after x.
LEMMA RelRoot ==
  ASSUME NEW x \in Seq(Names), NEW t \in Seq(Names)
  PROVE  Rel(Abs(x), Abs(x \o t)) = Local(t)
<1>1. <<>> \in Seq(Names) /\ Len(<<>>) = 0 /\ x \o <<>> = x
  BY EmptySeq, ConcatEmptySeq
<1>2. Rel(Abs(x), Abs(x \o t)) = Local(Up(0) \o SubSeq(t, 1, Len(t)))
  <2> DEFINE e == <<>>
  <2>1. e \in Seq(Names) /\ Len(e) = 0 /\ x \o e = x
    BY <1>1
  <2> HIDE DEF e
  <2>2. PICK m \in 0..Len(e) : SplitsAt(x, e, t, m)
    BY <2>1, RelSplit
  <2>3. m = 0 /\ Len(e) - m = 0 /\ m + 1 = 1
    <3>1. m \in 0..0
      BY <2>1, Zenon
    <3>2. m = 0
      BY <3>1
    <3> QED
      BY <2>1, <3>2
  <2>4. Rel(Abs(x \o e), Abs(x \o t)) = Local(Up(Len(e) - m) \o SubSeq(t, m + 1, Len(t)))
    BY <2>2 DEF SplitsAt
  <2> QED
    BY <2>1, <2>3, <2>4
<1>3. Up(0) = <<>> /\ SubSeq(t, 1, Len(t)) = t /\ <<>> \o t = t
  <2>1. Up(0) = <<>>
    BY UpFacts, EmptySeq
  <2>2. SubSeq(t, 1, Len(t)) = t
    BY SubSeqFull
  <2> QED
    BY <2>1, <2>2, ConcatEmptySeq
<1> QED
  BY <1>2, <1>3

\* Two paths are without ".." if each is.
LEMMA NoDotsConcat ==
  ASSUME NEW s \in Seq(Names), NEW t \in Seq(Names)
  PROVE  NoDots(s \o t) <=> NoDots(s) /\ NoDots(t)
<1> DEFINE u == s \o t
<1>1. /\ Len(s) \in Nat /\ Len(t) \in Nat
      /\ DOMAIN s = 1..Len(s) /\ DOMAIN t = 1..Len(t)
      /\ DOMAIN u = 1..(Len(s) + Len(t))
      /\ \A i \in 1..Len(s) : u[i] = s[i]
      /\ \A i \in 1..Len(t) : u[Len(s) + i] = t[i]
  BY ConcatFacts
<1> HIDE DEF u
<1>2. NoDots(u) => NoDots(s) /\ NoDots(t)
  <2> SUFFICES ASSUME NoDots(u) PROVE NoDots(s) /\ NoDots(t)
    OBVIOUS
  <2>1. \A i \in 1..Len(s) : s[i] # ".."
    BY <1>1 DEF NoDots
  <2>2. \A i \in 1..Len(t) : t[i] # ".."
    BY <1>1 DEF NoDots
  <2> QED
    BY <1>1, <2>1, <2>2 DEF NoDots
<1>3. NoDots(s) /\ NoDots(t) => NoDots(u)
  <2> SUFFICES ASSUME NoDots(s), NoDots(t), NEW i \in 1..(Len(s) + Len(t))
               PROVE  u[i] # ".."
    BY <1>1 DEF NoDots
  <2>1. CASE i <= Len(s)
    BY <1>1, <2>1 DEF NoDots
  <2>2. CASE ~(i <= Len(s))
    <3>1. i - Len(s) \in 1..Len(t) /\ Len(s) + (i - Len(s)) = i
      BY <1>1, <2>2
    <3> QED
      BY <1>1, <3>1 DEF NoDots
  <2> QED
    BY <2>1, <2>2
<1> QED
  BY <1>2, <1>3 DEF u

\* The relative path from one path below x to another leads, from the place below b
\* that mirrors the one, to the place below b that mirrors the other.
MovesBy(x, d, t, b) ==
  Pushed(TRUE, b \o d, Rel(Abs(x \o d), Abs(x \o t)).names) = b \o t

\* filepath.Rel of a folder and a file below a root leads from the same folder to the
\* same file below any other root, which is why cliant may rewrite paths at all
\* (rewriteCommandPath).
LEMMA RelMoves ==
  ASSUME NEW x \in Seq(Names), NEW d \in Seq(Names), NEW t \in Seq(Names),
         NEW b \in Seq(Names), NoDots(b), NoDots(d), NoDots(t)
  PROVE  MovesBy(x, d, t, b)
<1>1. PICK m \in 0..Len(d) : SplitsAt(x, d, t, m)
  BY RelSplit
<1> DEFINE h == SubSeq(d, 1, m)
           e == SubSeq(d, m + 1, Len(d))
           f == SubSeq(t, m + 1, Len(t))
           up == Up(Len(d) - m)
<1>2. Len(d) \in Nat /\ Len(t) \in Nat /\ Len(b) \in Nat
  BY LenProperties
<1>3. m \in 0..Len(t) /\ Len(d) - m \in Nat
  BY <1>1, <1>2 DEF SplitsAt
<1>4. h \in Seq(Names) /\ Len(h) = m /\ e \in Seq(Names) /\ d = h \o e
  <2>1. SplitsInTwo(Names, d, m, h, e)
    BY SplitInTwo, Zenon
  <2> HIDE DEF h, e
  <2> QED
    BY <2>1 DEF SplitsInTwo
<1>5. f \in Seq(Names) /\ t = h \o f
  <2>1. f \in Seq(Names) /\ t = SubSeq(t, 1, m) \o f
    BY <1>3, Split
  <2>2. SubSeq(d, 1, m) = SubSeq(t, 1, m)
    BY <1>1 DEF SplitsAt
  <2> QED
    BY <2>1, <2>2, Zenon
<1>6. up \in Seq(Names) /\ Rel(Abs(x \o d), Abs(x \o t)).names = up \o f
  <2>1. up \in Seq(Names)
    BY <1>3, UpFacts
  <2> DEFINE r == Rel(Abs(x \o d), Abs(x \o t))
             g == up \o f
  <2>2. r = Local(g)
    BY <1>1 DEF SplitsAt
  <2> HIDE DEF r, g
  <2>3. r.names = g
    BY <2>2 DEF Local
  <2> QED
    BY <2>1, <2>3 DEF r, g
<1> HIDE DEF h, e, f, up
<1>7. NoDots(h) /\ NoDots(f)
  BY <1>4, <1>5, NoDotsConcat
<1>8. /\ b \o d \in Seq(Names) /\ b \o h \in Seq(Names) /\ NoDots(b \o d)
      /\ Len(b \o d) = Len(b) + Len(d) /\ Len(b \o h) = Len(b) + m
  <2>1. /\ b \o d \in Seq(Names) /\ b \o h \in Seq(Names)
        /\ Len(b \o d) = Len(b) + Len(d) /\ Len(b \o h) = Len(b) + Len(h)
    BY <1>4, ConcatFacts
  <2>2. NoDots(b \o d)
    BY NoDotsConcat
  <2> QED
    BY <1>4, <2>1, <2>2
<1>9. Pushed(TRUE, b \o d, up) = b \o h
  <2> DEFINE y == b \o d
             z == b \o h
             c == SubSeq(y, 1, Len(b) + m)
  <2>1. y \in Seq(Names) /\ NoDots(y) /\ Len(y) = Len(b) + Len(d)
    BY <1>8
  <2>2. y = z \o e
    <3>1. Associates(b, h, e)
      BY <1>4, ConcatAssociates, Zenon
    <3> QED
      BY <1>4, <3>1, Zenon DEF Associates
  <2>3. z \in Seq(Names) /\ Len(z) = Len(b) + m
    BY <1>8
  <2> HIDE DEF y, z
  <2>4. Len(d) - m \in 0..Len(y) /\ Len(y) - (Len(d) - m) = Len(b) + m /\ Len(b) + m \in 0..Len(y)
    BY <1>2, <1>3, <2>1
  <2>5. Pushed(TRUE, y, up) = c
    BY <2>1, <2>4, PushedUp DEF up
  <2>6. c \in Seq(Names) /\ Len(c) = Len(b) + m /\ \A i \in 1..(Len(b) + m) : c[i] = y[i]
    BY <2>1, <2>4, Split
  <2>7. \A i \in 1..(Len(b) + m) : z[i] = y[i]
    <3>1. \A i \in 1..Len(z) : (z \o e)[i] = z[i]
      BY <1>4, <2>3, ConcatFacts
    <3> QED
      BY <2>2, <2>3, <3>1
  <2> HIDE DEF c
  <2>8. c = z
    BY <2>3, <2>6, <2>7, SeqEqual
  <2> QED
    BY <2>5, <2>8 DEF y, z
<1>10. Pushed(TRUE, b \o d, up \o f) = Pushed(TRUE, b \o h, f)
  <2> DEFINE y == b \o d
  <2>1. y \in Seq(Names) /\ up \in Seq(Names) /\ f \in Seq(Names)
    BY <1>5, <1>6, <1>8
  <2> HIDE DEF y
  <2>2. Pushed(TRUE, y, up \o f) = Pushed(TRUE, Pushed(TRUE, y, up), f)
    <3>1. PushesInTurn(TRUE, y, up, f)
      BY <2>1, PushedInTurn, Zenon
    <3> QED
      BY <3>1 DEF PushesInTurn
  <2> QED
    BY <1>9, <2>2, Zenon DEF y
<1>11. Pushed(TRUE, b \o h, f) = (b \o h) \o f
  BY <1>5, <1>7, <1>8, PushedNames
<1>12. (b \o h) \o f = b \o t
  <2>1. Associates(b, h, f)
    BY <1>4, <1>5, ConcatAssociates, Zenon
  <2> QED
    BY <1>5, <2>1, Zenon DEF Associates
<1> QED
  BY <1>6, <1>10, <1>11, <1>12, Zenon DEF MovesBy

\* A relative path that does not leave x leads from the place below b that mirrors
\* its start to the place that mirrors its end.
LEMMA PathMirrors ==
  ASSUME NEW b \in Seq(Names), NEW d \in Seq(Names), NEW names \in Seq(Names),
         NoDots(b), NoDots(d),
         LET c == Pushed(FALSE, <<>>, d \o names) IN c = <<>> \/ Head(c) # ".."
  PROVE  Pushed(TRUE, b \o d, names) = b \o Pushed(FALSE, <<>>, d \o names)
<1> DEFINE y == d \o names
           c == Pushed(FALSE, <<>>, y)
<1>1. y \in Seq(Names) /\ b \o d \in Seq(Names)
  BY ConcatFacts
<1> HIDE DEF y
<1>2. c \in Seq(Names)
  BY <1>1, PushedType, EmptySeq
<1>3. c # <<>> /\ ~NoDots(c) => c[1] = ".."
  BY <1>1, CleanShape
<1>4. c = <<>> \/ Head(c) # ".."
  BY DEF y
<1> HIDE DEF c
<1>5. NoDots(c)
  <2>1. CASE c = <<>>
    BY <2>1, EmptySeq, LenProperties DEF NoDots
  <2>2. CASE c # <<>>
    <3>1. Head(c) = c[1]
      BY <1>2, <2>2, HeadTailProperties
    <3> QED
      BY <1>3, <1>4, <2>2, <3>1
  <2> QED
    BY <2>1, <2>2
<1>6. Pushed(TRUE, b, d) = b \o d
  BY PushedNames
<1>7. Pushed(TRUE, b, y) = Pushed(TRUE, Pushed(TRUE, b, d), names)
  BY PushedConcat DEF y
<1>8. Pushed(TRUE, b, c) = Pushed(TRUE, b, y)
  BY <1>1, PushedClean DEF c
<1>9. Pushed(TRUE, b, c) = b \o c
  BY <1>2, <1>5, PushedNames
<1> QED
  BY <1>6, <1>7, <1>8, <1>9, Zenon DEF c, y

-----------------------------------------------------------------------------
\* Join, HostPath and the rewriting and resolving of the two programs.

LEMMA JoinAbs ==
  ASSUME NEW b \in Seq(Names), NoDots(b), NEW p \in Path
  PROVE  /\ Join(Abs(b), p) = Abs(Pushed(TRUE, b, p.names))
         /\ Pushed(TRUE, b, p.names) \in Seq(Names)
         /\ NoDots(Pushed(TRUE, b, p.names))
<1> DEFINE n == p.names
           e == <<>>
           y == b \o n
<1>1. n \in Seq(Names) /\ e \in Seq(Names) /\ e \o b = b
  BY EmptySeq, ConcatEmptySeq DEF Path
<1>2. Join(Abs(b), p) = Abs(Pushed(TRUE, e, y))
  <2>1. Join(Abs(b), p) = Clean([abs |-> TRUE, names |-> y])
    BY DEF Join, Abs
  <2> HIDE DEF y
  <2>2. Clean([abs |-> TRUE, names |-> y]) = [abs |-> TRUE, names |-> Pushed(TRUE, e, y)]
    BY DEF Clean
  <2> QED
    BY <2>1, <2>2 DEF Abs
<1> HIDE DEF n, e
<1>3. PushesInTurn(TRUE, e, b, n)
  BY <1>1, PushedInTurn, Zenon
<1>4. Pushed(TRUE, e, b) = b
  <2>1. Pushed(TRUE, e, b) = e \o b
    BY <1>1, PushedNames
  <2> QED
    BY <1>1, <2>1, Zenon
<1>5. Pushed(TRUE, e, y) = Pushed(TRUE, b, n)
  BY <1>3, <1>4, Zenon DEF PushesInTurn
<1>6. Pushed(TRUE, b, n) \in Seq(Names)
  BY <1>1, PushedType
<1>7. NoDots(Pushed(TRUE, b, n))
  BY <1>1, PushedNoDots
<1> QED
  BY <1>2, <1>5, <1>6, <1>7, Zenon DEF n

\* What filepath.Clean makes of a path is a path of the same kind, which leads to the
\* same place.
LEMMA CleanFacts ==
  ASSUME NEW p \in Path
  PROVE  /\ Clean(p) = [abs |-> p.abs, names |-> Pushed(p.abs, <<>>, p.names)]
         /\ Clean(p) \in Path /\ Clean(p).abs = p.abs
         /\ \A b \in Seq(Names) : Pushed(TRUE, b, Clean(p).names) = Pushed(TRUE, b, p.names)
              \/ p.abs
<1> DEFINE c == Pushed(p.abs, <<>>, p.names)
<1>1. p.names \in Seq(Names) /\ p.abs \in BOOLEAN /\ <<>> \in Seq(Names)
  BY EmptySeq DEF Path
<1>2. c \in Seq(Names)
  BY <1>1, PushedType
<1>3. Clean(p) = [abs |-> p.abs, names |-> c]
  BY DEF Clean, Path
<1>4. ASSUME ~p.abs, NEW b \in Seq(Names) PROVE Pushed(TRUE, b, c) = Pushed(TRUE, b, p.names)
  <2> DEFINE n == p.names
  <2>1. c = Pushed(FALSE, <<>>, n) /\ n \in Seq(Names)
    BY <1>1, <1>4
  <2> HIDE DEF c, n
  <2>2. Pushed(TRUE, b, Pushed(FALSE, <<>>, n)) = Pushed(TRUE, b, n)
    BY <2>1, PushedClean
  <2> QED
    BY <2>1, <2>2, Zenon DEF n
<1> HIDE DEF c
<1>5. Clean(p) \in Path
  BY <1>1, <1>2, <1>3 DEF Path
<1>6. Clean(p).names = c /\ Clean(p).abs = p.abs
  BY <1>3
<1> QED
  BY <1>3, <1>4, <1>5, <1>6 DEF c

\* A path of a command, seen from its directory, is an absolute one without ".."
\* (rewriteCommandPath).
LEMMA HostPathFacts ==
  ASSUME NEW b \in Seq(Names), NoDots(b), NEW raw \in Path
  PROVE  \E a \in Seq(Names) : NoDots(a) /\ HostPath(Abs(b), raw) = Abs(a)
<1>1. CASE raw.abs
  <2> DEFINE a == Pushed(TRUE, <<>>, raw.names)
  <2>1. raw.names \in Seq(Names) /\ raw.abs = TRUE /\ <<>> \in Seq(Names) /\ NoDots(<<>>)
    BY <1>1, EmptySeq, LenProperties DEF Path, NoDots
  <2>2. a \in Seq(Names) /\ NoDots(a)
    BY <2>1, PushedType, PushedNoDots
  <2>3. HostPath(Abs(b), raw) = Abs(a)
    BY <1>1, <2>1, CleanFacts DEF HostPath, Abs
  <2> QED
    BY <2>2, <2>3
<1>2. CASE ~raw.abs
  <2>1. HostPath(Abs(b), raw) = Join(Abs(b), raw)
    BY <1>2 DEF HostPath
  <2> QED
    BY <2>1, JoinAbs
<1> QED
  BY <1>1, <1>2

\* What a relative path is, and that it is not a refusal.
LEMMA LocalFacts ==
  ASSUME NEW names \in Seq(Names)
  PROVE  /\ Local(names) \in Path /\ Local(names).names = names /\ ~Local(names).abs
         /\ Abs(names).names = names /\ Abs(names).abs
         /\ Local(names) # Refused
BY DEF Local, Abs, Path, Refused

\* A path that rewriteCommandPath does not refuse lies below the root, and from the
\* place that mirrors the directory of the command it leads to the place that mirrors it.
LEMMA RewriteMirrors ==
  ASSUME NEW x \in Seq(Names), NoDots(x), NEW d \in Seq(Names), NoDots(d), NEW raw \in Path,
         RewriteCommandPath(Abs(x), Abs(x \o d), raw) # Refused
  PROVE  LET r == RewriteCommandPath(Abs(x), Abs(x \o d), raw) IN
         /\ r \in Path /\ ~r.abs
         /\ \E t \in Seq(Names) :
              /\ NoDots(t) /\ HostPath(Abs(x \o d), raw) = Abs(x \o t)
              /\ \A b \in Seq(Names) : NoDots(b) => Join(Abs(b \o d), r) = Abs(b \o t)
<1> DEFINE r == RewriteCommandPath(Abs(x), Abs(x \o d), raw)
           y == x \o d
<1>1. y \in Seq(Names) /\ NoDots(y)
  BY ConcatFacts, NoDotsConcat
<1>2. PICK a \in Seq(Names) : NoDots(a) /\ HostPath(Abs(y), raw) = Abs(a)
  <2> HIDE DEF y
  <2> QED BY <1>1, HostPathFacts
<1>3. IsWithinBase(x, a) /\ r = Rel(Abs(y), Abs(a))
  <2>1. r = IF IsWithinBase(x, a) THEN Rel(Abs(y), Abs(a)) ELSE Refused
    BY <1>2 DEF RewriteCommandPath, Abs
  <2> QED
    BY <2>1
<1>4. PICK t \in Seq(Names) : a = x \o t
  BY <1>3, WithinSplit
<1>5. NoDots(t)
  BY <1>2, <1>4, NoDotsConcat
<1>6. r = Rel(Abs(x \o d), Abs(x \o t))
  BY <1>3, <1>4, Zenon
<1> HIDE DEF r
<1>7. PICK names \in Seq(Names) : r = Local(names)
  <2>1. \E names \in Seq(Names) : Rel(Abs(x \o d), Abs(x \o t)) = Local(names)
    BY RelType
  <2> QED
    BY <1>6, <2>1, Zenon
<1>8. r \in Path /\ ~r.abs
  BY <1>7, LocalFacts
<1>9. ASSUME NEW b \in Seq(Names), NoDots(b) PROVE Join(Abs(b \o d), r) = Abs(b \o t)
  <2> DEFINE z == b \o d
  <2>1. z \in Seq(Names) /\ NoDots(z)
    BY <1>9, ConcatFacts, NoDotsConcat
  <2>2. Pushed(TRUE, z, r.names) = b \o t
    <3>1. MovesBy(x, d, t, b)
      BY <1>5, <1>9, RelMoves
    <3>2. Pushed(TRUE, b \o d, Rel(Abs(x \o d), Abs(x \o t)).names) = b \o t
      BY <3>1 DEF MovesBy
    <3> QED
      BY <1>6, <3>2, Zenon
  <2> HIDE DEF z
  <2>3. Join(Abs(z), r) = Abs(Pushed(TRUE, z, r.names))
    BY <1>8, <2>1, JoinAbs
  <2> QED
    BY <2>2, <2>3, Zenon DEF z
<1>10. HostPath(Abs(x \o d), raw) = Abs(x \o t)
  BY <1>2, <1>4, Zenon
<1>11. \E u \in Seq(Names) :
         /\ NoDots(u) /\ HostPath(Abs(x \o d), raw) = Abs(x \o u)
         /\ \A b \in Seq(Names) : NoDots(b) => Join(Abs(b \o d), r) = Abs(b \o u)
  BY <1>5, <1>9, <1>10, Zenon
<1> QED
  BY <1>8, <1>11 DEF r

\* resolveWorkspacePath refuses a path without further ".." just by its first name, and
\* else takes it below the source directory.
LEMMA ResolveWorkspace ==
  ASSUME NEW b \in Seq(Names), NoDots(b), NEW t \in Seq(Names), NoDots(t)
  PROVE  ResolveWorkspacePath(Abs(b), Local(t))
           = IF IsLocal(Local(t)) THEN Abs(b \o t) ELSE Refused
<1> DEFINE p == Local(t)
           e == <<>>
<1>1. p \in Path /\ p.names = t /\ p.abs = FALSE /\ e \in Seq(Names) /\ e \o t = t
  BY LocalFacts, EmptySeq, ConcatEmptySeq DEF Local
<1>2. Pushed(FALSE, e, t) = t
  <2> HIDE DEF e
  <2>1. Pushed(FALSE, e, t) = e \o t
    BY <1>1, PushedNames
  <2> QED
    BY <1>1, <2>1, Zenon
<1>3. Clean(p) = p
  BY <1>1, <1>2, CleanFacts DEF Local
<1>4. Join(Abs(b), p) = Abs(b \o t)
  <2>1. Join(Abs(b), p) = Abs(Pushed(TRUE, b, t))
    BY <1>1, JoinAbs
  <2>2. Pushed(TRUE, b, t) = b \o t
    BY PushedNames
  <2> QED
    BY <2>1, <2>2, Zenon
<1>5. IsWithinBase(Abs(b).names, Abs(b \o t).names)
  BY WithinConcat DEF Abs
<1> HIDE DEF p
<1> QED
  BY <1>1, <1>3, <1>4, <1>5 DEF ResolveWorkspacePath, p

\* resolvePlanStepPath accepts what leads to a place below the source directory, "."
\* aside; of a relative path it makes the one from the directory of the step.
LEMMA ResolveStep ==
  ASSUME NEW b \in Seq(Names), NEW e \in Seq(Names), NoDots(e), NEW p \in Path, ~p.abs
  PROVE  ResolvePlanStepPath(Abs(b), Abs(e), p)
           = IF Clean(p) # Local(<<>>) /\ IsWithinBase(b, Join(Abs(e), p).names)
             THEN Join(Abs(e), p) ELSE Refused
<1> DEFINE c == Clean(p)
<1>1. c \in Path /\ c.abs = p.abs
  BY CleanFacts
<1>2. Join(Abs(e), c) = Join(Abs(e), p)
  <2>1. Pushed(TRUE, e, c.names) = Pushed(TRUE, e, p.names)
    BY CleanFacts
  <2> HIDE DEF c
  <2>2. Join(Abs(e), c) = Abs(Pushed(TRUE, e, c.names))
    BY <1>1, JoinAbs
  <2>3. Join(Abs(e), p) = Abs(Pushed(TRUE, e, p.names))
    BY JoinAbs
  <2> QED
    BY <2>1, <2>2, <2>3, Zenon
<1>3. ResolvePlanStepPath(Abs(b), Abs(e), p)
        = IF c # Local(<<>>) /\ IsWithinBase(b, Join(Abs(e), c).names)
          THEN Join(Abs(e), c) ELSE Refused
  BY DEF ResolvePlanStepPath, Abs
<1> HIDE DEF c
<1> QED
  BY <1>2, <1>3 DEF c

\* A path of the host that is absolute there is taken from the directory of the step,
\* and is none that sarver refuses (resolvePlanStepPath, for which a path without a
\* drive is not absolute).
LEMMA ResolveRooted ==
  ASSUME NEW b \in Seq(Names), NEW e \in Seq(Names), NoDots(e), IsWithinBase(b, e),
         NEW p \in Path, p.abs
  PROVE  LET q == e \o Clean(p).names IN
         /\ ResolvePlanStepPath(Abs(b), Abs(e), p) = Abs(q)
         /\ q \in Seq(Names) /\ IsWithinBase(b, q)
<1> DEFINE c == Clean(p)
           t == c.names
           q == e \o t
<1>1. c \in Path /\ c.abs /\ t = Pushed(TRUE, <<>>, p.names)
  <2>1. p.abs = TRUE
    BY DEF Path
  <2>2. c = [abs |-> p.abs, names |-> Pushed(p.abs, <<>>, p.names)] /\ c \in Path /\ c.abs = p.abs
    BY CleanFacts
  <2> HIDE DEF c
  <2>3. c.names = Pushed(p.abs, <<>>, p.names)
    BY <2>2
  <2>4. c.names = Pushed(TRUE, <<>>, p.names)
    BY <2>1, <2>3
  <2> QED
    BY <2>1, <2>2, <2>4
<1>2. t \in Seq(Names) /\ NoDots(t)
  <2>1. p.names \in Seq(Names) /\ <<>> \in Seq(Names) /\ NoDots(<<>>)
    BY EmptySeq, LenProperties DEF Path, NoDots
  <2>2. NoDots(Pushed(TRUE, <<>>, p.names)) /\ Pushed(TRUE, <<>>, p.names) \in Seq(Names)
    BY <2>1, PushedNoDots, PushedType
  <2> QED
    BY <1>1, <2>2
<1> HIDE DEF c
<1>3. Join(Abs(e), c) = Abs(q)
  <2>1. Join(Abs(e), c) = Abs(Pushed(TRUE, e, t))
    BY <1>1, JoinAbs
  <2>2. Pushed(TRUE, e, t) = q
    BY <1>2, PushedNames
  <2> QED
    BY <2>1, <2>2, Zenon
<1>4. q \in Seq(Names) /\ IsWithinBase(b, q)
  <2>1. PICK f \in Seq(Names) : e = b \o f
    BY WithinSplit
  <2>2. f \o t \in Seq(Names)
    BY <1>2, ConcatFacts
  <2>3. Associates(b, f, t)
    BY <1>2, ConcatAssociates, Zenon
  <2>4. q = b \o (f \o t)
    BY <2>1, <2>3, Zenon DEF Associates
  <2>5. IsWithinBase(b, b \o (f \o t))
    BY <2>2, WithinConcat
  <2>6. q \in Seq(Names)
    BY <1>2, ConcatFacts
  <2> QED
    BY <2>4, <2>5, <2>6, Zenon
<1> HIDE DEF t, q
<1>5. Abs(q).names = q
  BY <1>4, LocalFacts
<1>6. c # Local(<<>>)
  BY <1>1 DEF Local
<1>7. ResolvePlanStepPath(Abs(b), Abs(e), p)
        = IF c # Local(<<>>) /\ IsWithinBase(b, Join(Abs(e), c).names)
          THEN Join(Abs(e), c) ELSE Refused
  BY DEF ResolvePlanStepPath, Abs, c
<1>8. IsWithinBase(b, Join(Abs(e), c).names)
  BY <1>3, <1>4, <1>5, Zenon
<1>9. ResolvePlanStepPath(Abs(b), Abs(e), p) = Abs(q)
  BY <1>3, <1>6, <1>7, <1>8, Zenon
<1> QED
  BY <1>4, <1>9, Zenon DEF q, t, c

\* The two programs agree: a path that cliant rewrites for a command, and that is not
\* the directory of the command, is accepted by sarver, and names there, below any
\* source directory, the file that it names on the host (rewriteCommandPath,
\* resolvePlanStepPath).
THEOREM RewrittenIsResolved ==
  ASSUME NEW x \in Seq(Names), NoDots(x), NEW b \in Seq(Names), NoDots(b),
         NEW d \in Seq(Names), NoDots(d), NEW raw \in Path,
         RewriteCommandPath(Abs(x), Abs(x \o d), raw) # Refused,
         Clean(RewriteCommandPath(Abs(x), Abs(x \o d), raw)) # Local(<<>>)
  PROVE  \E t \in Seq(Names) :
           /\ HostPath(Abs(x \o d), raw) = Abs(x \o t)
           /\ ResolvePlanStepPath(Abs(b), Abs(b \o d),
                                  RewriteCommandPath(Abs(x), Abs(x \o d), raw)) = Abs(b \o t)
<1> DEFINE r == RewriteCommandPath(Abs(x), Abs(x \o d), raw)
<1>1. r \in Path /\ ~r.abs
  BY RewriteMirrors
<1>2. PICK t \in Seq(Names) :
        /\ HostPath(Abs(x \o d), raw) = Abs(x \o t)
        /\ \A c \in Seq(Names) : NoDots(c) => Join(Abs(c \o d), r) = Abs(c \o t)
  BY RewriteMirrors
<1> HIDE DEF r
<1>3. Join(Abs(b \o d), r) = Abs(b \o t)
  BY <1>2
<1>4. b \o d \in Seq(Names) /\ NoDots(b \o d)
  BY ConcatFacts, NoDotsConcat
<1>5. IsWithinBase(b, Join(Abs(b \o d), r).names)
  <2>1. Abs(b \o t).names = b \o t
    BY DEF Abs
  <2>2. IsWithinBase(b, b \o t)
    BY WithinConcat
  <2> QED
    BY <1>3, <2>1, <2>2, Zenon
<1>6. Clean(r) # Local(<<>>)
  BY DEF r
<1>7. ResolvePlanStepPath(Abs(b), Abs(b \o d), r) = Abs(b \o t)
  BY <1>1, <1>3, <1>4, <1>5, <1>6, ResolveStep
<1> QED
  BY <1>2, <1>7 DEF r
=============================================================================

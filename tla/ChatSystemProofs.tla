-------------------------- MODULE ChatSystemProofs --------------------------
(***************************************************************************)
(* Theorems about ChatSystem, for every set of members the server has      *)
(* places for, every number of lines each of them types, sockets of any    *)
(* size and reads that end with any line: the chat is a room (ChatRoom),   *)
(* and a reader can tell who has said what.                                *)
(***************************************************************************)
EXTENDS ChatSystem, SequenceTheorems, FiniteSetTheorems, WellFoundedInduction, TLAPS

-----------------------------------------------------------------------------
(* Lemmas: what Only selects.  They are proved by induction over the       *)
(* length of a sequence.                                                   *)

\* A set that has 0 and with each number the next one has them all: of the
\* numbers that it has not, none would be the least.
LEMMA Induction ==
  ASSUME NEW S, 0 \in S, \A n \in Nat : n \in S => n + 1 \in S
  PROVE  Nat \subseteq S
<1> SUFFICES ASSUME NEW q \in Nat, q \notin S PROVE FALSE
  OBVIOUS
<1> DEFINE T == {1..n : n \in Nat \ S}
           R == StrictSubsetOrdering(Nat)
<1>1. T \subseteq FiniteSubsetsOf(Nat)
  <2>1. \A n \in Nat : IsFiniteSet(1..n) /\ 1..n \subseteq Nat
    BY FS_Interval
  <2> QED BY <2>1 DEF FiniteSubsetsOf
<1>2. T # {}
  OBVIOUS
<1>3. IsWellFoundedOn(R, FiniteSubsetsOf(Nat))
  BY FS_StrictSubsetOrderingWellFounded
<1>4. \E x \in T : \A y \in T : << y, x >> \notin R
  <2> HIDE DEF T, R
  <2> QED BY <1>1, <1>2, <1>3, WFMin
<1>5. PICK n \in Nat \ S : \A m \in Nat \ S : << 1..m, 1..n >> \notin R
  BY <1>4
<1>6. n - 1 \in Nat /\ (n - 1) + 1 = n
  BY <1>5
<1>7. n - 1 \in Nat \ S
  BY <1>5, <1>6
<1>8. << 1..(n - 1), 1..n >> \in R
  <2>1. 1..(n - 1) \subseteq 1..n /\ n \in 1..n /\ n \notin 1..(n - 1) /\ 1..n \subseteq Nat
    BY <1>6
  <2>2. 1..(n - 1) # 1..n
    BY <2>1
  <2> QED BY <2>1, <2>2 DEF StrictSubsetOrdering
<1> QED BY <1>5, <1>7, <1>8

\* The recursive function exists: it has been built up to every length.
LEMMA SelectedIs ==
  ASSUME NEW s, NEW S, Len(s) \in Nat
  PROVE  /\ Selected(s, S)[0] = << >>
         /\ \A n \in 1..Len(s) :
              Selected(s, S)[n] = IF s[n] \in S
                                  THEN Append(Selected(s, S)[n - 1], s[n])
                                  ELSE Selected(s, S)[n - 1]
<1> DEFINE Next1(f, n) == IF s[n] \in S THEN Append(f[n - 1], s[n]) ELSE f[n - 1]
           Is(f, q) == f = [n \in 0..q |-> IF n = 0 THEN << >> ELSE Next1(f, n)]
           K == {q \in Nat : \E f : Is(f, q)}
<1>1. ASSUME NEW f, NEW q, Is(f, q), NEW n \in 0..q
      PROVE  f[n] = IF n = 0 THEN << >> ELSE Next1(f, n)
  <2> DEFINE h == [m \in 0..q |-> IF m = 0 THEN << >> ELSE Next1(f, m)]
  <2>1. h[n] = IF n = 0 THEN << >> ELSE Next1(f, n)
    OBVIOUS
  <2>2. f = h
    BY <1>1
  <2> HIDE DEF h
  <2> QED BY <2>1, <2>2
<1>2. 0 \in K
  <2> DEFINE f == [n \in 0..0 |-> << >>]
  <2>1. Is(f, 0)
    OBVIOUS
  <2> HIDE DEF f
  <2> QED BY <2>1
<1>3. ASSUME NEW q \in Nat, q \in K
      PROVE  q + 1 \in K
  <2>1. PICK f : Is(f, q)
    BY <1>3
  <2> DEFINE g == [n \in 0..(q + 1) |-> IF n = 0 THEN << >> ELSE Next1(f, n)]
  <2>2. ASSUME NEW n \in 0..q
        PROVE  g[n] = f[n]
    <3>1. f[n] = IF n = 0 THEN << >> ELSE Next1(f, n)
      BY <1>1, <2>1
    <3> QED BY <3>1
  <2>3. \A n \in 1..(q + 1) : n - 1 \in 0..q
    OBVIOUS
  <2>4. \A n \in 1..(q + 1) : Next1(f, n) = Next1(g, n)
    <3> HIDE DEF g
    <3> QED BY <2>2, <2>3
  <2> HIDE DEF Next1
  <2>5. \A n \in 0..(q + 1) : n # 0 => n \in 1..(q + 1)
    OBVIOUS
  <2>6. Is(g, q + 1)
    <3> DEFINE h == [n \in 0..(q + 1) |-> IF n = 0 THEN << >> ELSE Next1(g, n)]
    <3>1. \A n \in 0..(q + 1) : g[n] = h[n]
      <4> SUFFICES ASSUME NEW n \in 0..(q + 1) PROVE g[n] = h[n]
        OBVIOUS
      <4>1. CASE n = 0
        BY <4>1
      <4>2. CASE n # 0
        <5>1. Next1(f, n) = Next1(g, n)
          BY <2>4, <2>5, <4>2
        <5>2. g[n] = Next1(f, n)
          BY <4>2
        <5>3. h[n] = Next1(g, n)
          BY <4>2
        <5> QED BY <5>1, <5>2, <5>3
      <4> QED BY <4>1, <4>2
    <3>2. g = [n \in 0..(q + 1) |-> g[n]]
      OBVIOUS
    <3>3. g = [n \in 0..(q + 1) |-> h[n]]
      BY <3>1, <3>2
    <3> QED BY <3>3
  <2> HIDE DEF g
  <2> QED BY <2>6
<1>4. \E f : Is(f, Len(s))
  <2> HIDE DEF Is
  <2>1. Nat \subseteq K
    BY <1>2, <1>3, Induction
  <2> QED BY <2>1
<1>5. Is(Selected(s, S), Len(s))
  BY <1>4 DEF Selected
<1> DEFINE f == Selected(s, S)
<1> HIDE DEF f, Is
<1>6. \A n \in 0..Len(s) : f[n] = IF n = 0 THEN << >> ELSE Next1(f, n)
  BY <1>1, <1>5 DEF f
<1>7. 0 \in 0..Len(s) /\ \A n \in 1..Len(s) : n \in 0..Len(s) /\ n # 0
  OBVIOUS
<1> QED BY <1>6, <1>7 DEF f

LEMMA OnlyEmpty == ASSUME NEW S PROVE Only(<< >>, S) = << >>
<1>1. Len(<< >>) = 0
  OBVIOUS
<1> QED BY <1>1, SelectedIs DEF Only

\* What is selected of the front of a sequence does not depend on the rest.
LEMMA OnlyOfFront ==
  ASSUME NEW s, NEW t, NEW S, Len(s) \in Nat, Len(t) \in Nat, Len(s) <= Len(t),
         \A n \in 1..Len(s) : t[n] = s[n]
  PROVE  Selected(t, S)[Len(s)] = Only(s, S)
<1> DEFINE f == Selected(s, S)
           g == Selected(t, S)
           K == {n \in Nat : n <= Len(s) => g[n] = f[n]}
<1>1. /\ f[0] = << >> /\ g[0] = << >>
      /\ \A n \in 1..Len(s) : f[n] = IF s[n] \in S THEN Append(f[n - 1], s[n]) ELSE f[n - 1]
      /\ \A n \in 1..Len(t) : g[n] = IF t[n] \in S THEN Append(g[n - 1], t[n]) ELSE g[n - 1]
  BY SelectedIs
<1> HIDE DEF f, g
<1>2. 0 \in K
  BY <1>1
<1>3. ASSUME NEW n \in Nat, n \in K
      PROVE  n + 1 \in K
  <2> SUFFICES ASSUME n + 1 <= Len(s) PROVE g[n + 1] = f[n + 1]
    OBVIOUS
  <2>1. n + 1 \in 1..Len(s) /\ n + 1 \in 1..Len(t) /\ (n + 1) - 1 = n
    OBVIOUS
  <2>2. f[n] = g[n]
    BY <1>3
  <2> QED BY <1>1, <2>1, <2>2
<1>4. Nat \subseteq K
  <2> HIDE DEF K
  <2> QED BY <1>2, <1>3, Induction
<1> QED BY <1>4 DEF Only, f, g

\* What is selected is in the sequence, and in the set.
LEMMA OnlyType ==
  ASSUME NEW T, NEW s \in Seq(T), NEW S
  PROVE  /\ Only(s, S) \in Seq(S \cap T)
         /\ \A n \in 0..Len(s) : Selected(s, S)[n] \in Seq(S \cap T)
<1> DEFINE f == Selected(s, S)
           K == {n \in Nat : n <= Len(s) => f[n] \in Seq(S \cap T)}
<1>1. Len(s) \in Nat /\ \A n \in 1..Len(s) : s[n] \in T
  BY LenProperties, ElementOfSeq
<1>2. /\ f[0] = << >>
      /\ \A n \in 1..Len(s) : f[n] = IF s[n] \in S THEN Append(f[n - 1], s[n]) ELSE f[n - 1]
  BY <1>1, SelectedIs
<1> HIDE DEF f
<1>3. 0 \in K
  BY <1>2, EmptySeq
<1>4. ASSUME NEW n \in Nat, n \in K
      PROVE  n + 1 \in K
  <2> SUFFICES ASSUME n + 1 <= Len(s) PROVE f[n + 1] \in Seq(S \cap T)
    OBVIOUS
  <2>1. n + 1 \in 1..Len(s) /\ (n + 1) - 1 = n /\ n <= Len(s)
    BY <1>1
  <2>2. f[n] \in Seq(S \cap T)
    BY <1>4, <2>1
  <2>3. s[n + 1] \in S => Append(f[n], s[n + 1]) \in Seq(S \cap T)
    BY <1>1, <2>1, <2>2, AppendProperties
  <2> QED BY <1>2, <2>1, <2>2, <2>3
<1>5. Nat \subseteq K
  <2> HIDE DEF K
  <2> QED BY <1>3, <1>4, Induction
<1>6. \A n \in 0..Len(s) : f[n] \in Seq(S \cap T)
  BY <1>1, <1>5
<1>7. Len(s) \in 0..Len(s)
  BY <1>1
<1> QED BY <1>6, <1>7 DEF Only, f

\* An element behind two sequences is behind the second.
AppendsInside(s, t, e) == Append(s \o t, e) = s \o Append(t, e)

LEMMA AppendOfConcat ==
  ASSUME NEW S, NEW s \in Seq(S), NEW t \in Seq(S), NEW e \in S
  PROVE  AppendsInside(s, t, e)
<1>1. <<e>> \in Seq(S) /\ s \o t \in Seq(S)
  BY ConcatProperties
<1>2. Append(s \o t, e) = (s \o t) \o <<e>> /\ Append(t, e) = t \o <<e>>
  BY <1>1, AppendIsConcat
<1>3. (s \o t) \o <<e>> = s \o (t \o <<e>>)
  BY <1>1, ConcatAssociative
<1> QED BY <1>2, <1>3 DEF AppendsInside

\* What is selected of two sequences is what is selected of each.
LEMMA OnlyOfConcat ==
  ASSUME NEW T, NEW s \in Seq(T), NEW t \in Seq(T), NEW S
  PROVE  Only(s \o t, S) = Only(s, S) \o Only(t, S)
<1> DEFINE st == s \o t
           U == S \cap T
           f == Selected(st, S)
           g == Selected(t, S)
           o == Only(s, S)
           K == {n \in Nat : n <= Len(t) => f[Len(s) + n] = o \o g[n]}
<1>1. /\ Len(s) \in Nat /\ Len(t) \in Nat /\ st \in Seq(T) /\ Len(st) = Len(s) + Len(t)
      /\ \A n \in 1..Len(s) : st[n] = s[n]
      /\ \A n \in 1..Len(t) : st[Len(s) + n] = t[n] /\ t[n] \in T
      /\ Len(st) \in Nat
  BY LenProperties, ConcatProperties, ElementOfSeq
<1> HIDE DEF st
<1>2. /\ g[0] = << >>
      /\ \A n \in 1..Len(t) : g[n] = IF t[n] \in S THEN Append(g[n - 1], t[n]) ELSE g[n - 1]
      /\ \A n \in 1..Len(st) : f[n] = IF st[n] \in S THEN Append(f[n - 1], st[n]) ELSE f[n - 1]
  <2>1. Len(t) \in Nat /\ Len(st) \in Nat
    BY <1>1
  <2>2. \A n \in 1..Len(st) : f[n] = IF st[n] \in S THEN Append(f[n - 1], st[n]) ELSE f[n - 1]
    BY <2>1, SelectedIs
  <2> QED BY <2>1, <2>2, SelectedIs
<1>3. f[Len(s)] = o
  BY <1>1, OnlyOfFront
<1>4. o \in Seq(U) /\ \A n \in 0..Len(t) : g[n] \in Seq(U)
  BY OnlyType
<1> HIDE DEF f, g, o, U
<1>5. 0 \in K
  BY <1>1, <1>2, <1>3, <1>4, ConcatEmptySeq
<1>6. ASSUME NEW n \in Nat, n \in K
      PROVE  n + 1 \in K
  <2> SUFFICES ASSUME n + 1 <= Len(t) PROVE f[Len(s) + (n + 1)] = o \o g[n + 1]
    OBVIOUS
  <2>1. /\ n + 1 \in 1..Len(t) /\ (n + 1) - 1 = n /\ n \in 0..Len(t)
        /\ Len(s) + (n + 1) \in 1..Len(st) /\ (Len(s) + (n + 1)) - 1 = Len(s) + n
    BY <1>1
  <2>2. f[Len(s) + n] = o \o g[n]
    BY <1>6, <2>1
  <2>3. st[Len(s) + (n + 1)] = t[n + 1] /\ t[n + 1] \in T
    BY <1>1, <2>1
  <2>4. CASE t[n + 1] \in S
    <3> DEFINE e == t[n + 1]
               r == g[n]
    <3>1. e \in U /\ r \in Seq(U)
      BY <1>4, <2>1, <2>3, <2>4 DEF U
    <3>2. f[Len(s) + (n + 1)] = Append(f[Len(s) + n], e) /\ g[n + 1] = Append(r, e)
      BY <1>2, <2>1, <2>3, <2>4
    <3> HIDE DEF e, r
    <3>3. Append(o \o r, e) = o \o Append(r, e)
      <4>1. o \in Seq(U) /\ r \in Seq(U) /\ e \in U
        BY <1>4, <3>1
      <4>2. AppendsInside(o, r, e)
        BY <4>1, AppendOfConcat
      <4> QED BY <4>2 DEF AppendsInside
    <3> QED BY <2>2, <3>2, <3>3 DEF r
  <2>5. CASE t[n + 1] \notin S
    BY <1>2, <2>1, <2>2, <2>3, <2>5
  <2> QED BY <2>4, <2>5
<1>7. Nat \subseteq K
  <2> HIDE DEF K
  <2> QED BY <1>5, <1>6, Induction
<1>8. f[Len(s) + Len(t)] = o \o g[Len(t)]
  BY <1>1, <1>7
<1> QED BY <1>1, <1>8 DEF Only, f, g, o, st

\* All are selected of a sequence over the set, and none of one over another.
LEMMA OnlyAll ==
  ASSUME NEW S, NEW s \in Seq(S)
  PROVE  Only(s, S) = s
<1> DEFINE f == Selected(s, S)
           K == {n \in Nat : n <= Len(s) => f[n] = SubSeq(s, 1, n)}
<1>1. Len(s) \in Nat /\ \A n \in 1..Len(s) : s[n] \in S
  BY LenProperties, ElementOfSeq
<1>2. /\ f[0] = << >>
      /\ \A n \in 1..Len(s) : f[n] = IF s[n] \in S THEN Append(f[n - 1], s[n]) ELSE f[n - 1]
  BY <1>1, SelectedIs
<1> HIDE DEF f
<1>3. 0 \in K
  <2>1. SubSeq(s, 1, 0) = << >>
    BY SubSeqEmpty
  <2> QED BY <1>2, <2>1
<1>4. ASSUME NEW n \in Nat, n \in K
      PROVE  n + 1 \in K
  <2> SUFFICES ASSUME n + 1 <= Len(s) PROVE f[n + 1] = SubSeq(s, 1, n + 1)
    OBVIOUS
  <2>1. n + 1 \in 1..Len(s) /\ (n + 1) - 1 = n /\ n <= Len(s)
    BY <1>1
  <2>2. f[n + 1] = Append(SubSeq(s, 1, n), s[n + 1])
    BY <1>1, <1>2, <1>4, <2>1
  <2>3. Append(SubSeq(s, 1, n), s[n + 1]) = SubSeq(s, 1, n + 1)
    BY <1>1, <2>1
  <2> QED BY <2>2, <2>3
<1>5. Nat \subseteq K
  <2> HIDE DEF K
  <2> QED BY <1>3, <1>4, Induction
<1>6. f[Len(s)] = SubSeq(s, 1, Len(s))
  BY <1>1, <1>5
<1> QED BY <1>6, SubSeqFull DEF Only, f

LEMMA OnlyNone ==
  ASSUME NEW T, NEW s \in Seq(T), NEW S, S \cap T = {}
  PROVE  Only(s, S) = << >>
<1>1. Only(s, S) \in Seq({})
  BY OnlyType
<1> DEFINE o == Only(s, S)
<1> HIDE DEF o
<1>2. o = << >>
  <2>1. o \in Seq({})
    BY <1>1 DEF o
  <2>2. Len(o) \in Nat /\ \A n \in 1..Len(o) : o[n] \in {}
    BY <2>1, LenProperties, ElementOfSeq
  <2>3. Len(o) = 0
    BY <2>2
  <2> QED BY <2>1, <2>3, EmptySeq
<1> QED BY <1>2 DEF o

-----------------------------------------------------------------------------
(* Types.                                                                  *)

Spoken == [from : Members, n : Nat \ {0}]

\* A client that is not served has no message to get; the server leaves one in
\* the middle of a message to nobody.
Writing ==
  IF spc = "write"
  THEN /\ message # << >> /\ j \in 1..Len(message)
       /\ j > 1 => k <= Len(clients) /\ WritesTo(clients[k])
  ELSE message = << >> /\ j = 1 /\ k = 1

SystemType == TypeOK /\ Writing

\* What is built line by line is a sequence of lines.
LEMMA SequenceOf ==
  ASSUME NEW S, NEW n \in Nat, NEW f \in [1..n -> S]
  PROVE  f \in Seq(S) /\ Len(f) = n
  OBVIOUS

\* The head of a queue, and the rest.
LEMMA HeadAndTail ==
  ASSUME NEW S, NEW s \in Seq(S), s # << >>
  PROVE  /\ Head(s) \in S /\ Tail(s) \in Seq(S) /\ s[1] = Head(s)
         /\ Len(s) \in Nat \ {0} /\ Len(Tail(s)) = Len(s) - 1
         /\ \A n \in 1..(Len(s) - 1) : Tail(s)[n] = s[n + 1]
         /\ s = <<Head(s)>> \o Tail(s)
         /\ Len(s) > 1 <=> Tail(s) # << >>
<1>1. /\ Head(s) \in S /\ Tail(s) \in Seq(S) /\ s[1] = Head(s)
      /\ Len(s) \in Nat \ {0} /\ Len(Tail(s)) = Len(s) - 1
      /\ \A n \in 1..(Len(s) - 1) : Tail(s)[n] = s[n + 1]
  OBVIOUS
<1> DEFINE h == Head(s)
           t == Tail(s)
           u == <<h>> \o t
<1>2. <<h>> \in Seq(S) /\ Len(<<h>>) = 1 /\ <<h>>[1] = h
  BY <1>1
<1>3. t \in Seq(S) /\ Len(t) = Len(s) - 1
  BY <1>1
<1> HIDE DEF h, t
<1>4. /\ u \in Seq(S) /\ Len(u) = Len(s)
      /\ \A n \in 1..Len(s) : u[n] = IF n <= 1 THEN <<h>>[n] ELSE t[n - 1]
  <2> DEFINE g == <<h>>
  <2>1. g \in Seq(S) /\ Len(g) = 1
    BY <1>2
  <2> HIDE DEF g
  <2>2. /\ g \o t \in Seq(S) /\ Len(g \o t) = 1 + Len(t)
        /\ \A n \in 1..(1 + Len(t)) : (g \o t)[n] = IF n <= 1 THEN g[n] ELSE t[n - 1]
    <3>1. g \in Seq(S) /\ t \in Seq(S)
      BY <1>3, <2>1
    <3>2. /\ g \o t \in Seq(S) /\ Len(g \o t) = Len(g) + Len(t)
          /\ \A n \in 1..(Len(g) + Len(t)) : (g \o t)[n] = IF n <= Len(g) THEN g[n] ELSE t[n - Len(g)]
      BY <3>1, ConcatProperties
    <3> QED BY <2>1, <3>2
  <2>3. 1 + Len(t) = Len(s)
    BY <1>1, <1>3
  <2> QED BY <2>2, <2>3 DEF g
<1>5. \A n \in 1..Len(s) : u[n] = s[n]
  <2> SUFFICES ASSUME NEW n \in 1..Len(s) PROVE u[n] = s[n]
    OBVIOUS
  <2>1. CASE n = 1
    BY <1>1, <1>2, <1>4, <2>1 DEF h
  <2>2. CASE n # 1
    <3>1. n - 1 \in 1..(Len(s) - 1) /\ (n - 1) + 1 = n /\ ~(n <= 1)
      BY <1>1, <2>2
    <3> QED BY <1>1, <1>4, <3>1 DEF t
  <2> QED BY <2>1, <2>2
<1>6. s = u
  <2> HIDE DEF u
  <2> QED BY <1>4, <1>5, SeqEqual
<1>7. Len(s) > 1 <=> t # << >>
  BY <1>1, <1>3, EmptySeq
<1> QED BY <1>1, <1>6, <1>7 DEF h, t

\* An element behind a queue.
LEMMA AppendTo ==
  ASSUME NEW S, NEW s \in Seq(S), NEW e \in S
  PROVE  /\ Append(s, e) \in Seq(S) /\ Len(Append(s, e)) = Len(s) + 1
         /\ Len(s) \in Nat
         /\ Append(s, e) = s \o <<e>> /\ <<e>> \in Seq(S)
  OBVIOUS

\* A read of lines takes a front of them and leaves the rest.
LEMMA TakingAndLeaving ==
  ASSUME NEW S, NEW s \in Seq(S), NEW n \in 1..Len(s)
  PROVE  /\ Taking(s, n) \in Seq(S) /\ Leaving(s, n) \in Seq(S)
         /\ Taking(s, n) \o Leaving(s, n) = s
         /\ Len(Leaving(s, n)) = Len(s) - n /\ Len(Taking(s, n)) = n
         /\ Len(s) \in Nat /\ s # << >>
<1>1. Len(s) \in Nat /\ s # << >>
  BY LenProperties, EmptySeq
<1>2. /\ SubSeq(s, 1, n) \in Seq(S) /\ Len(SubSeq(s, 1, n)) = n
      /\ SubSeq(s, n + 1, Len(s)) \in Seq(S) /\ Len(SubSeq(s, n + 1, Len(s))) = Len(s) - n
  BY <1>1
<1>3. SubSeq(s, 1, n) \o SubSeq(s, n + 1, Len(s)) = s
  <2>1. SubSeq(s, 1, n) \o SubSeq(s, n + 1, Len(s)) = SubSeq(s, 1, Len(s))
    <3>1. 1 \in 1..(Len(s) + 1) /\ n \in (1 - 1)..Len(s) /\ Len(s) \in n..Len(s)
      BY <1>1
    <3> QED BY <3>1, ConcatAdjacentSubSeq
  <2> QED BY <2>1, SubSeqFull
<1> QED BY <1>1, <1>2, <1>3 DEF Taking, Leaving

\* What two parts of a socket bring the room is what each of them brings.
LEMMA ForTheRoomOfConcat ==
  ASSUME NEW T, NEW s \in Seq(T), NEW t \in Seq(T)
  PROVE  ForTheRoom(s \o t) = ForTheRoom(s) \o ForTheRoom(t)
<1> DEFINE W == [from : Members, n : Nat \ {0}]
<1>1. ForTheRoom(s \o t) = Only(s \o t, W) /\ ForTheRoom(s) = Only(s, W) /\ ForTheRoom(t) = Only(t, W)
  BY DEF ForTheRoom
<1> HIDE DEF W
<1>2. Only(s \o t, W) = Only(s, W) \o Only(t, W)
  BY OnlyOfConcat
<1> QED BY <1>1, <1>2

\* What is joined in parts may be joined from either end: the parts of what
\* a client or the server reads, between what it had and what comes after.
Join(r, s, t) == (r \o s) \o t = r \o (s \o t)
JoinBetween(q, r, s, t) == (q \o (r \o s)) \o t = (q \o r) \o (s \o t)

\* Three sequences: the first two may be joined first, or the last two.
LEMMA JoinOfThree ==
  ASSUME NEW S, NEW r \in Seq(S), NEW s \in Seq(S), NEW t \in Seq(S)
  PROVE  Join(r, s, t)
BY ConcatAssociative DEF Join

\* Four sequences, of which the two in the middle were joined.
LEMMA JoinOfFour ==
  ASSUME NEW S, NEW q \in Seq(S), NEW r \in Seq(S), NEW s \in Seq(S), NEW t \in Seq(S)
  PROVE  JoinBetween(q, r, s, t)
<1>1. Join(q, r, s) /\ q \o r \in Seq(S)
  BY JoinOfThree, ConcatProperties
<1>2. Join(q \o r, s, t)
  BY <1>1, JoinOfThree
<1> QED BY <1>1, <1>2 DEF Join, JoinBetween

\* What a read brings the room: lines of one member, each with its number.
LEMMA LinesForTheRoom ==
  ASSUME NEW c \in Members, NEW lines \in Seq([from : {c}, n : Nat])
  PROVE  /\ ForTheRoom(lines) \in Seq([from : {c}, n : Nat \ {0}])
         /\ ForTheRoom(lines) \in Seq(AnyLine)
         /\ Message(ForTheRoom(lines)) \in Seq(Entry)
         /\ Len(Message(ForTheRoom(lines))) = Len(ForTheRoom(lines))
         /\ Len(ForTheRoom(lines)) \in Nat
         /\ Message(ForTheRoom(lines)) = << >> <=> ForTheRoom(lines) = << >>
<1> DEFINE f == ForTheRoom(lines)
           n == Len(f)
<1>1. f \in Seq(Spoken \cap [from : {c}, n : Nat])
  BY OnlyType DEF ForTheRoom, Spoken
<1>2. Spoken \cap [from : {c}, n : Nat] \subseteq [from : {c}, n : Nat \ {0}]
  BY DEF Spoken
<1>3. Spoken \cap [from : {c}, n : Nat] \subseteq AnyLine
  BY DEF Spoken, AnyLine
<1>4. f \in Seq([from : {c}, n : Nat \ {0}]) /\ f \in Seq(AnyLine)
  BY <1>1, <1>2, <1>3, SeqMonotonic
<1> HIDE DEF f
<1>5. n \in Nat /\ \A i \in 1..n : f[i] \in AnyLine
  BY <1>4, LenProperties, ElementOfSeq
<1>6. Message(f) \in [1..n -> Entry]
  BY <1>5 DEF Message, Entry, Prefix
<1>7. Message(f) \in Seq(Entry) /\ Len(Message(f)) = n
  BY <1>5, <1>6, SequenceOf
<1>8. Message(f) = << >> <=> f = << >>
  BY <1>4, <1>7, EmptySeq
<1> QED BY <1>4, <1>5, <1>7, <1>8 DEF f

LEMMA TypeInit == Init => SystemType
<1> SUFFICES ASSUME Init PROVE SystemType
  OBVIOUS
<1>1. ClientType
  BY SystemAssumption DEF Init, ClientType
<1>2. SocketType
  BY SystemAssumption DEF Init, SocketType
<1>3. ServerType /\ Writing
  BY DEF Init, ServerType, Writing
<1>4. HistoryType
  BY DEF Init, HistoryType
<1> QED BY <1>1, <1>2, <1>3, <1>4 DEF SystemType, TypeOK

\* The parts of the invariant that a step of a client, or of the server, leaves
\* alone are kept.
LEMMA TypeKept ==
  /\ ClientType /\ UNCHANGED client => ClientType'
  /\ ServerType /\ Writing /\ UNCHANGED server => ServerType' /\ Writing'
  /\ HistoryType /\ UNCHANGED history => HistoryType'
  BY DEF ClientType, client, ServerType, Writing, WritesTo, server, HistoryType, history

LEMMA TypeOfClients ==
  ASSUME SystemType, NEW c \in Members, Client(c)
  PROVE  SystemType'
<1>1. ClientType /\ SocketType /\ ServerType /\ HistoryType /\ Writing
  BY DEF SystemType, TypeOK
<1>2. UNCHANGED <<server, history>>
  BY DEF Client, Run, Poll, WriteLine, Read
<1>3. (ServerType /\ HistoryType /\ Writing)'
  BY <1>1, <1>2, TypeKept
<1>4. /\ out[c] \in Seq(AnyLine) /\ out[c] \in Seq([from : {c}, n : 1..Lines[c]])
      /\ up[c] \in Seq(AnyLine) /\ up[c] \in Seq([from : {c}, n : 0..Lines[c]])
      /\ screen[c] \in Seq(Entry) /\ down[c] \in Seq(Entry)
      /\ typed[c] \in Nat /\ Lines[c] \in Nat /\ typed[c] <= Lines[c]
  BY <1>1, SystemAssumption DEF ClientType, SocketType
<1>5. CASE Run(c)
  <2>1. ClientType'
    BY <1>1, <1>5 DEF Run, ClientType
  <2> DEFINE first == <<Line(c, 0)>>
  <2>2. first \in Seq(AnyLine) /\ first \in Seq([from : {c}, n : 0..Lines[c]]) /\ Len(first) = 1
    BY <1>4 DEF Line, AnyLine
  <2> HIDE DEF first
  <2>3. up' = [up EXCEPT ![c] = first] /\ down' = down /\ backlog' = Append(backlog, c)
    BY <1>5 DEF Run, first
  <2>4. backlog' \in Seq(Members)
    BY <1>1, <2>3, AppendTo DEF SocketType
  <2>5. Len(first) <= UpRoom
    BY <2>2, SystemAssumption
  <2>6. SocketType'
    BY <1>1, <2>2, <2>3, <2>4, <2>5 DEF SocketType
  <2> QED BY <1>3, <2>1, <2>6 DEF SystemType, TypeOK
<1>6. CASE Poll(c)
  <2>1. PICK n \in 0..(Lines[c] - typed[c]) :
          /\ out' = [out EXCEPT ![c] = [m \in 1..n |-> Line(c, typed[c] + m)]]
          /\ typed' = [typed EXCEPT ![c] = typed[c] + n]
          /\ cpc' = [cpc EXCEPT ![c] = IF n > 0 THEN "write" ELSE "read"]
    BY <1>6 DEF Poll
  <2> DEFINE lines == [m \in 1..n |-> Line(c, typed[c] + m)]
  <2>2. n \in Nat /\ typed[c] + n \in Nat /\ typed[c] + n <= Lines[c]
    BY <1>4
  <2>3. \A m \in 1..n : typed[c] + m \in 1..Lines[c] /\ typed[c] + m \in Nat
    BY <1>4, <2>2
  <2>4. /\ lines \in [1..n -> AnyLine]
        /\ lines \in [1..n -> [from : {c}, n : 1..Lines[c]]]
    BY <2>3 DEF Line, AnyLine
  <2>5. out' = [out EXCEPT ![c] = lines]
    BY <2>1
  <2> HIDE DEF lines
  <2>6. /\ lines \in Seq(AnyLine) /\ lines \in Seq([from : {c}, n : 1..Lines[c]])
        /\ Len(lines) = n
    BY <2>2, <2>4, SequenceOf
  <2>7. lines # << >> <=> n > 0
    BY <2>2, <2>6, EmptySeq
  <2>8. heard' = [heard EXCEPT ![c] = down[c] # << >>] /\ screen' = screen
    BY <1>6 DEF Poll
  <2>9. ClientType'
    <3>1. /\ cpc' \in [Members -> {"run", "poll", "write", "read"}]
          /\ cpc'[c] = "write" <=> out'[c] # << >>
      BY <1>1, <2>1, <2>5, <2>7 DEF ClientType
    <3>2. typed' \in [Members -> Nat] /\ typed'[c] <= Lines[c]
      BY <1>1, <2>1, <2>2 DEF ClientType
    <3>3. heard' \in [Members -> BOOLEAN]
      BY <1>1, <2>8 DEF ClientType
    <3>4. out' \in [Members -> Seq(AnyLine)] /\ out'[c] \in Seq([from : {c}, n : 1..Lines[c]])
      BY <1>1, <2>5, <2>6 DEF ClientType
    <3>5. \A d \in Members \ {c} : cpc'[d] = cpc[d] /\ typed'[d] = typed[d] /\ out'[d] = out[d]
      BY <1>1, <2>1 DEF ClientType
    <3> QED BY <1>1, <2>8, <3>1, <3>2, <3>3, <3>4, <3>5 DEF ClientType
  <2>10. SocketType'
    BY <1>1, <1>6 DEF Poll, SocketType
  <2> QED BY <1>3, <2>9, <2>10 DEF SystemType, TypeOK
<1>7. CASE WriteLine(c)
  <2>1. out[c] # << >>
    BY <1>1, <1>7 DEF WriteLine, ClientType
  <2>2. /\ Head(out[c]) \in AnyLine /\ Tail(out[c]) \in Seq(AnyLine)
        /\ Len(out[c]) > 1 <=> Tail(out[c]) # << >>
    BY <1>4, <2>1, HeadAndTail
  <2>3. /\ Head(out[c]) \in [from : {c}, n : 1..Lines[c]]
        /\ Tail(out[c]) \in Seq([from : {c}, n : 1..Lines[c]])
    BY <1>4, <2>1, HeadAndTail
  <2>4. Head(out[c]) \in [from : {c}, n : 0..Lines[c]]
    BY <1>4, <2>3
  <2> DEFINE u == Append(up[c], Head(out[c]))
             o == Tail(out[c])
             p == IF Len(out[c]) > 1 THEN "write" ELSE IF heard[c] THEN "read" ELSE "poll"
  <2>5. /\ u \in Seq(AnyLine) /\ Len(u) = Len(up[c]) + 1 /\ Len(up[c]) \in Nat
        /\ u \in Seq([from : {c}, n : 0..Lines[c]])
    BY <1>4, <2>2, <2>4, AppendTo
  <2>6. p \in {"poll", "write", "read"} /\ (p = "write" <=> o # << >>)
    BY <2>2
  <2>7. /\ up' = [up EXCEPT ![c] = u] /\ out' = [out EXCEPT ![c] = o]
        /\ cpc' = [cpc EXCEPT ![c] = p] /\ Len(up[c]) < UpRoom
        /\ UNCHANGED <<typed, heard, screen, down, backlog>>
    BY <1>7 DEF WriteLine
  <2> HIDE DEF p, u, o
  <2>8. Len(u) <= UpRoom
    BY <2>5, <2>7, SystemAssumption
  <2>9. o \in Seq(AnyLine) /\ o \in Seq([from : {c}, n : 1..Lines[c]])
    BY <2>2, <2>3 DEF o
  <2>10. ClientType'
    BY <1>1, <2>6, <2>7, <2>9 DEF ClientType
  <2>11. SocketType'
    BY <1>1, <2>5, <2>7, <2>8 DEF SocketType
  <2> QED BY <1>3, <2>10, <2>11 DEF SystemType, TypeOK
<1>8. CASE Read(c)
  <2>1. PICK n \in 1..Len(down[c]) :
          /\ screen' = [screen EXCEPT ![c] = @ \o Taking(down[c], n)]
          /\ down' = [down EXCEPT ![c] = Leaving(@, n)]
    BY <1>8 DEF Read
  <2> DEFINE s == screen[c] \o Taking(down[c], n)
             e == Leaving(down[c], n)
  <2>2. /\ screen' = [screen EXCEPT ![c] = s] /\ down' = [down EXCEPT ![c] = e]
        /\ heard' = [heard EXCEPT ![c] = FALSE] /\ cpc' = [cpc EXCEPT ![c] = "poll"]
        /\ cpc[c] = "read" /\ UNCHANGED <<typed, out, up, backlog>>
    BY <1>8, <2>1 DEF Read
  <2>3. Taking(down[c], n) \in Seq(Entry) /\ e \in Seq(Entry)
        /\ Len(e) = Len(down[c]) - n /\ Len(down[c]) \in Nat
    <3>1. down[c] \in Seq(Entry)
      BY <1>4
    <3> QED BY <3>1, TakingAndLeaving
  <2>4. s \in Seq(Entry) /\ Len(e) <= DownRoom
    <3>1. Len(down[c]) <= DownRoom
      BY <1>1 DEF SocketType
    <3>2. Len(e) <= DownRoom
      <4> HIDE DEF e
      <4> QED BY <2>3, <3>1, SystemAssumption
    <3>3. screen[c] \in Seq(Entry)
      BY <1>4
    <3>4. screen[c] \o Taking(down[c], n) \in Seq(Entry)
      BY <2>3, <3>3, ConcatProperties
    <3> QED BY <3>2, <3>4
  <2> HIDE DEF s, e
  <2>5. ClientType'
    BY <1>1, <2>2, <2>4 DEF ClientType
  <2>6. SocketType'
    BY <1>1, <2>2, <2>3, <2>4 DEF SocketType
  <2> QED BY <1>3, <2>5, <2>6 DEF SystemType, TypeOK
<1> QED BY <1>5, <1>6, <1>7, <1>8 DEF Client

\* The server deals with the client it has served, and has no message.
LEMMA ServedType ==
  ASSUME ready \in Seq(Members), ready # << >>, Served
  PROVE  /\ ready' \in Seq(Members) /\ spc' \in {"poll", "read"}
         /\ spc' # "poll" <=> ready' # << >>
<1>1. Tail(ready) \in Seq(Members) /\ (Len(ready) > 1 <=> Tail(ready) # << >>)
  BY HeadAndTail
<1> QED BY <1>1 DEF Served

\* What waits at a socket of the server are lines of the client at its other end.
LEMMA WaitingLines ==
  ASSUME SocketType, NEW c \in Members
  PROVE  up[c] \in Seq([from : {c}, n : Nat])
<1> DEFINE S == [from : {c}, n : 0..Lines[c]]
           T == [from : {c}, n : Nat]
           s == up[c]
<1>1. s \in Seq(S)
  BY DEF SocketType
<1>2. S \subseteq T
  BY SystemAssumption
<1> HIDE DEF s, S, T
<1>3. s \in Seq(T)
  BY <1>1, <1>2, SeqMonotonic
<1> QED BY <1>3 DEF s, T

\* What a read of the server leaves at the socket, the lines it takes, and those
\* of them that it brings the room.
Left    == up'[Head(ready)]
Taken   == Taking(up[Head(ready)], Len(up[Head(ready)]) - Len(Left))
Brought == ForTheRoom(Taken)

LEMMA ReadTakes ==
  ASSUME SocketType, ServerType, ServerRead
  PROVE  /\ spc = "read" /\ Head(ready) \in Members /\ up[Head(ready)] # << >>
         /\ Taken \in Seq([from : {Head(ready)}, n : Nat])
         /\ Left \in Seq([from : {Head(ready)}, n : Nat])
         /\ Left \in Seq([from : {Head(ready)}, n : 0..Lines[Head(ready)]])
         /\ Len(Left) <= UpRoom
         /\ Taken \o Left = up[Head(ready)]
         /\ up' = [up EXCEPT ![Head(ready)] = Left]
         /\ log' = log \o Brought /\ message' = Message(Brought)
         /\ UNCHANGED <<client, down, backlog, clients, j, k, since>>
         /\ IF Brought = << >> THEN Served ELSE spc' = "write" /\ UNCHANGED ready
<1> DEFINE c == Head(ready)
           s == up[c]
           T == [from : {c}, n : Nat]
           L == [from : {c}, n : 0..Lines[c]]
<1>1. spc = "read" /\ UNCHANGED <<client, down, backlog, clients, j, k, since>>
  BY DEF ServerRead
<1>2. c \in Members
  <2>1. ready \in Seq(Members) /\ ready # << >>
    BY <1>1 DEF ServerType
  <2> QED BY <2>1, HeadAndTail
<1>3. PICK n \in 1..Len(s) :
        LET lines == ForTheRoom(Taking(s, n)) IN
        /\ up' = [up EXCEPT ![c] = Leaving(s, n)]
        /\ log' = log \o lines
        /\ message' = Message(lines)
        /\ IF lines = << >> THEN Served ELSE spc' = "write" /\ UNCHANGED ready
  BY DEF ServerRead
<1>4. s \in Seq(T) /\ s \in Seq(L) /\ Len(s) <= UpRoom /\ up \in [Members -> Seq(AnyLine)]
  BY <1>2, WaitingLines DEF SocketType
<1> HIDE DEF s, T, L, c
<1>5. /\ Taking(s, n) \in Seq(T) /\ Leaving(s, n) \in Seq(T)
      /\ Taking(s, n) \o Leaving(s, n) = s
      /\ Len(Leaving(s, n)) = Len(s) - n /\ Len(s) \in Nat /\ s # << >>
  BY <1>4, TakingAndLeaving
<1>6. Leaving(s, n) \in Seq(L)
  BY <1>4, TakingAndLeaving
<1>7. Left = Leaving(s, n)
  <2>1. up' = [up EXCEPT ![c] = Leaving(s, n)]
    BY <1>3
  <2>2. up'[c] = Leaving(s, n)
    BY <1>2, <1>4, <2>1
  <2> QED BY <2>2 DEF Left, c
<1>8. Len(s) - Len(Left) = n
  <2>1. Len(Left) = Len(s) - n /\ Len(s) \in Nat
    BY <1>5, <1>7
  <2> HIDE DEF Left
  <2> QED BY <2>1
<1>9. Taken = Taking(s, n)
  BY <1>8 DEF Taken, s, c
<1>10. Len(Left) <= UpRoom
  BY <1>4, <1>5, <1>7, SystemAssumption
<1>11. /\ up' = [up EXCEPT ![c] = Left] /\ log' = log \o Brought /\ message' = Message(Brought)
       /\ IF Brought = << >> THEN Served ELSE spc' = "write" /\ UNCHANGED ready
  BY <1>3, <1>7, <1>9 DEF Brought
<1>12. Taken \in Seq(T) /\ Left \in Seq(T) /\ Left \in Seq(L) /\ Taken \o Left = s
  BY <1>5, <1>6, <1>7, <1>9
<1> QED BY <1>1, <1>2, <1>5, <1>10, <1>11, <1>12 DEF s, T, L, c

LEMMA TypeOfServer ==
  ASSUME SystemType, Server
  PROVE  SystemType'
<1>1. ClientType /\ SocketType /\ ServerType /\ HistoryType /\ Writing
  BY DEF SystemType, TypeOK
<1>2. ClientType'
  <2>1. UNCHANGED client
    BY DEF Server, ServerPoll, ServerRead, ServerWrite, SkipSender, ServerWriteEnd
  <2> QED BY <1>1, <2>1, TypeKept
<1>3. /\ clients \in Seq(Members) /\ ready \in Seq(Members) /\ backlog \in Seq(Members)
      /\ message \in Seq(Entry) /\ log \in Seq(AnyLine)
      /\ Len(clients) \in Nat /\ Len(message) \in Nat /\ Len(log) \in Nat
      /\ j \in Nat /\ k \in Nat /\ k \in 1..(Len(clients) + 1)
  BY <1>1, LenProperties DEF ServerType, SocketType, HistoryType
<1>4. CASE ServerPoll
  <2> DEFINE S == {c \in Members : up[c] # << >>}
  <2>1. ready' \in Seq(Members)
    <3>1. Only(clients, S) \in Seq(S \cap Members)
      BY <1>3, OnlyType
    <3>2. Only(clients, S) \in Seq(Members)
      BY <3>1, SeqMonotonic
    <3> QED BY <1>4, <3>2 DEF ServerPoll
  <2>2. /\ spc' \in {"poll", "read"} /\ (spc' # "poll" <=> ready' # << >>)
        /\ spc = "poll" /\ UNCHANGED <<up, down, message, j, k, log>>
    BY <1>4 DEF ServerPoll
  <2>3. message = << >> /\ j = 1 /\ k = 1
    BY <1>1, <2>2 DEF Writing
  <2>4. CASE UNCHANGED <<clients, backlog, since>>
    BY <1>1, <1>2, <2>1, <2>2, <2>3, <2>4
       DEF SystemType, TypeOK, SocketType, ServerType, HistoryType, Writing
  <2>5. CASE backlog # << >>
    <3> DEFINE h == Head(backlog)
    <3>1. h \in Members /\ Tail(backlog) \in Seq(Members)
      BY <1>3, <2>5, HeadAndTail
    <3>2. /\ clients' = Append(clients, h) /\ backlog' = Tail(backlog)
          /\ since' = [since EXCEPT ![h] = Len(log)]
      BY <1>4, <2>5 DEF ServerPoll
    <3> HIDE DEF h
    <3>3. clients' \in Seq(Members) /\ Len(clients') = Len(clients) + 1
      BY <1>3, <3>1, <3>2, AppendTo
    <3>4. HistoryType'
      BY <1>1, <1>3, <2>2, <3>1, <3>2 DEF HistoryType
    <3>5. SocketType'
      BY <1>1, <2>2, <3>1, <3>2 DEF SocketType
    <3>6. ServerType' /\ Writing'
      <4>1. j' \in 1..(Len(message') + 1) /\ k' \in 1..(Len(clients') + 1)
        BY <1>3, <2>2, <2>3, <3>3
      <4> QED BY <1>3, <2>1, <2>2, <2>3, <3>3, <4>1 DEF ServerType, Writing
    <3> QED BY <1>2, <3>4, <3>5, <3>6 DEF SystemType, TypeOK
  <2> QED BY <1>4, <2>4, <2>5 DEF ServerPoll
<1>5. CASE ServerRead
  <2> DEFINE c == Head(ready)
             lines == Brought
             m == Message(lines)
             e == Left
  <2>1. spc = "read" /\ ready # << >> /\ message = << >> /\ j = 1 /\ k = 1
    BY <1>1, <1>5 DEF ServerRead, ServerType, Writing
  <2>2. c \in Members /\ Taken \in Seq([from : {c}, n : Nat])
        /\ e \in Seq([from : {c}, n : 0..Lines[c]]) /\ Len(e) <= UpRoom
    BY <1>1, <1>5, ReadTakes
  <2>3. e \in Seq(AnyLine)
    <3>1. [from : {c}, n : 0..Lines[c]] \subseteq AnyLine
      BY <2>2, SystemAssumption DEF AnyLine
    <3> HIDE DEF e
    <3> QED BY <2>2, <3>1, SeqMonotonic
  <2>4. /\ up' = [up EXCEPT ![c] = e] /\ log' = log \o lines /\ message' = m
        /\ UNCHANGED <<down, backlog, clients, j, k, since>>
        /\ IF lines = << >> THEN Served ELSE spc' = "write" /\ UNCHANGED ready
    BY <1>1, <1>5, ReadTakes
  <2> HIDE DEF c, e
  <2>5. /\ lines \in Seq(AnyLine) /\ m \in Seq(Entry) /\ Len(m) = Len(lines)
        /\ Len(lines) \in Nat /\ (m = << >> <=> lines = << >>)
    BY <2>2, LinesForTheRoom DEF Brought
  <2> HIDE DEF lines, m
  <2>6. HistoryType'
    <3>1. log' \in Seq(AnyLine) /\ Len(log') \in Nat /\ Len(log') >= Len(log)
      BY <1>3, <2>4, <2>5, ConcatProperties
    <3>2. {Away} \cup (0..Len(log)) \subseteq {Away} \cup (0..Len(log'))
      BY <1>3, <3>1
    <3> QED BY <1>1, <2>4, <3>1, <3>2 DEF HistoryType
  <2>7. SocketType'
    <3>1. /\ e \in Seq(AnyLine) /\ e \in Seq([from : {c}, n : 0..Lines[c]])
          /\ Len(e) <= UpRoom /\ up' = [up EXCEPT ![c] = e]
      BY <2>2, <2>3, <2>4
    <3> QED BY <1>1, <2>2, <2>4, <3>1 DEF SocketType
  <2>8. ServerType' /\ Writing'
    <3>1. CASE lines = << >>
      <4>1. message' = << >> /\ j' = 1 /\ k' = 1 /\ UNCHANGED clients
        BY <2>1, <2>4, <2>5, <3>1
      <4>2. /\ ready' \in Seq(Members) /\ spc' \in {"poll", "read"}
            /\ spc' # "poll" <=> ready' # << >>
        BY <1>3, <2>1, <2>4, <3>1, ServedType
      <4>3. j' \in 1..(Len(message') + 1) /\ k' \in 1..(Len(clients') + 1)
        BY <1>3, <4>1
      <4> QED BY <1>3, <4>1, <4>2, <4>3 DEF ServerType, Writing
    <3>2. CASE lines # << >>
      <4>1. /\ message' \in Seq(Entry) /\ message' # << >> /\ j' = 1 /\ k' = 1
            /\ spc' = "write" /\ UNCHANGED <<ready, clients>>
        BY <2>1, <2>4, <2>5, <3>2
      <4>2. Len(message') \in Nat \ {0}
        BY <4>1, EmptySeq
      <4>3. /\ j' \in 1..(Len(message') + 1) /\ j' \in 1..Len(message') /\ ~(j' > 1)
            /\ k' \in 1..(Len(clients') + 1)
        BY <1>3, <4>1, <4>2
      <4> QED BY <1>3, <2>1, <4>1, <4>3 DEF ServerType, Writing
    <3> QED BY <3>1, <3>2
  <2> QED BY <1>2, <2>6, <2>7, <2>8 DEF SystemType, TypeOK
<1>6. CASE ServerWrite
  <2> DEFINE c == clients[k]
             d == Append(down[c], message[j])
  <2>1. /\ spc = "write" /\ k <= Len(clients) /\ WritesTo(c) /\ Len(down[c]) < DownRoom
        /\ down' = [down EXCEPT ![c] = d]
        /\ IF j < Len(message) THEN j' = j + 1 /\ UNCHANGED k ELSE j' = 1 /\ k' = k + 1
        /\ UNCHANGED <<up, backlog, spc, clients, ready, message, history>>
    BY <1>6 DEF ServerWrite
  <2>2. message # << >> /\ j \in 1..Len(message)
    BY <1>1, <2>1 DEF Writing
  <2>3. c \in Members
    BY <1>3, <2>1
  <2>4. d \in Seq(Entry) /\ Len(d) = Len(down[c]) + 1 /\ Len(down[c]) \in Nat
    <3>1. message[j] \in Entry /\ down[c] \in Seq(Entry)
      BY <1>1, <1>3, <2>2, <2>3, ElementOfSeq DEF SocketType
    <3> QED BY <3>1, AppendTo
  <2>5. HistoryType'
    BY <1>1, <2>1, TypeKept
  <2>6. SocketType'
    <3> HIDE DEF c, d
    <3>1. Len(d) <= DownRoom
      BY <2>1, <2>4, SystemAssumption
    <3> QED BY <1>1, <2>1, <2>3, <2>4, <3>1 DEF SocketType
  <2>7. /\ j' \in 1..Len(message) /\ k' \in 1..(Len(clients) + 1)
        /\ j' > 1 => k' = k
    BY <1>3, <2>1, <2>2
  <2>8. ServerType' /\ Writing'
    <3>1. j' \in 1..(Len(message') + 1)
      BY <1>3, <2>1, <2>7
    <3>2. j' > 1 => k' <= Len(clients') /\ WritesTo(clients[k])' 
      BY <2>1, <2>7 DEF WritesTo
    <3> QED BY <1>1, <1>3, <2>1, <2>2, <2>7, <3>1, <3>2 DEF ServerType, Writing
  <2> QED BY <1>2, <2>5, <2>6, <2>8 DEF SystemType, TypeOK
<1>7. CASE SkipSender
  <2>1. /\ spc = "write" /\ k <= Len(clients) /\ ~WritesTo(clients[k]) /\ k' = k + 1
        /\ UNCHANGED <<up, down, backlog, spc, clients, ready, message, j, history>>
    BY <1>7 DEF SkipSender
  <2>2. message # << >> /\ j \in 1..Len(message) /\ ~(j > 1)
    BY <1>1, <2>1 DEF Writing
  <2>3. k' \in 1..(Len(clients) + 1)
    BY <1>3, <2>1
  <2>4. HistoryType' /\ SocketType'
    BY <1>1, <2>1, TypeKept DEF SocketType
  <2>5. ServerType' /\ Writing'
    BY <1>1, <2>1, <2>2, <2>3 DEF ServerType, Writing
  <2> QED BY <1>2, <2>4, <2>5 DEF SystemType, TypeOK
<1>8. CASE ServerWriteEnd
  <2>1. /\ spc = "write" /\ k > Len(clients) /\ k' = 1 /\ message' = << >> /\ Served
        /\ UNCHANGED <<up, down, backlog, clients, j, history>>
    BY <1>8 DEF ServerWriteEnd
  <2>2. j = 1
    <3>1. j \in 1..Len(message) /\ ~(j > 1)
      BY <1>1, <1>3, <2>1 DEF Writing
    <3> QED BY <3>1
  <2>3. ready # << >>
    BY <1>1, <2>1 DEF ServerType
  <2>4. /\ ready' \in Seq(Members) /\ spc' \in {"poll", "read"}
        /\ spc' # "poll" <=> ready' # << >>
    BY <1>3, <2>1, <2>3, ServedType
  <2>5. HistoryType' /\ SocketType'
    BY <1>1, <2>1, TypeKept DEF SocketType
  <2>6. j' \in 1..(Len(message') + 1) /\ k' \in 1..(Len(clients') + 1)
    BY <1>3, <2>1, <2>2
  <2>7. ServerType' /\ Writing'
    BY <1>3, <2>1, <2>2, <2>4, <2>6 DEF ServerType, Writing
  <2> QED BY <1>2, <2>5, <2>7 DEF SystemType, TypeOK
<1> QED BY <1>4, <1>5, <1>6, <1>7, <1>8 DEF Server

LEMMA TypeStep == SystemType /\ [Next]_vars => SystemType'
<1> SUFFICES ASSUME SystemType, [Next]_vars PROVE SystemType'
  OBVIOUS
<1>1. CASE UNCHANGED vars
  <2>1. ClientType /\ SocketType /\ ServerType /\ HistoryType /\ Writing
    BY DEF SystemType, TypeOK
  <2>2. UNCHANGED <<client, up, down, backlog, server, history>>
    BY <1>1 DEF vars
  <2>3. SocketType'
    BY <2>1, <2>2 DEF SocketType
  <2> QED BY <2>1, <2>2, <2>3, TypeKept DEF SystemType, TypeOK
<1> QED BY <1>1, TypeOfClients, TypeOfServer DEF Next

LEMMA TypeInductive == Spec => []SystemType
  BY TypeInit, TypeStep, PTL DEF Spec

\* For every number of members and sockets of any size: no socket holds more
\* than it has room for, and nobody looks for a line or a client behind the
\* last one.
THEOREM SystemTypeCorrect == Spec => []TypeOK
<1>1. SystemType => TypeOK
  BY DEF SystemType
<1> QED BY <1>1, TypeInductive, PTL

-----------------------------------------------------------------------------
(* Who has said what.                                                      *)

\* All that has got to a client.
Got(c) == screen[c] \o down[c]

\* A client reads what is there: nothing more gets to it.
LEMMA GotByClients ==
  ASSUME SystemType, NEW c \in Members, Client(c)
  PROVE  \A d \in Members : Got(d)' = Got(d)
<1>1. screen \in [Members -> Seq(Entry)] /\ down \in [Members -> Seq(Entry)]
  BY DEF SystemType, TypeOK, ClientType, SocketType
<1>2. CASE Read(c)
  <2>1. PICK n \in 1..Len(down[c]) :
          /\ screen' = [screen EXCEPT ![c] = @ \o Taking(down[c], n)]
          /\ down' = [down EXCEPT ![c] = Leaving(@, n)]
    BY <1>2 DEF Read
  <2> DEFINE s == screen[c]
             t == Taking(down[c], n)
             e == Leaving(down[c], n)
  <2>2. s \in Seq(Entry) /\ t \in Seq(Entry) /\ e \in Seq(Entry) /\ t \o e = down[c]
    BY <1>1, TakingAndLeaving
  <2>3. screen' = [screen EXCEPT ![c] = s \o t] /\ down' = [down EXCEPT ![c] = e]
    BY <2>1
  <2> SUFFICES ASSUME NEW d \in Members PROVE screen'[d] \o down'[d] = screen[d] \o down[d]
    BY DEF Got
  <2>4. CASE d = c
    <3>1. screen'[c] = s \o t /\ down'[c] = e
      BY <1>1, <2>3
    <3>2. (s \o t) \o e = s \o (t \o e)
      <4> HIDE DEF s, t, e
      <4>1. Join(s, t, e)
        BY <2>2, JoinOfThree
      <4> QED BY <4>1 DEF Join
    <3> QED BY <2>2, <2>4, <3>1, <3>2
  <2>5. CASE d # c
    BY <1>1, <2>3, <2>5
  <2> QED BY <2>4, <2>5
<1>3. CASE Run(c) \/ Poll(c) \/ WriteLine(c)
  BY <1>3 DEF Run, Poll, WriteLine, Got
<1> QED BY <1>2, <1>3 DEF Client

\* An entry behind two joined sequences is one behind the second of them.
LEMMA EntryBehind ==
  \A x, y \in Seq(Entry), z \in Entry : Append(x \o y, z) = x \o Append(y, z)
<1> TAKE s, t \in Seq(Entry), e \in Entry
<1>1. <<e>> \in Seq(Entry) /\ s \o t \in Seq(Entry)
  BY ConcatProperties
<1>2. Append(s \o t, e) = (s \o t) \o <<e>> /\ Append(t, e) = t \o <<e>>
  BY <1>1, AppendIsConcat
<1> QED BY <1>1, <1>2, ConcatAssociative

\* A write of the server gets one entry of the message to one client.
LEMMA GotByWrite ==
  ASSUME SystemType, ServerWrite
  PROVE  /\ clients[k] \in Members /\ message[j] \in Entry /\ j \in 1..Len(message)
         /\ Got(clients[k]) \in Seq(Entry)
         /\ \A d \in Members :
              Got(d)' = IF d = clients[k] THEN Append(Got(d), message[j]) ELSE Got(d)
<1> DEFINE c == clients[k]
           e == message[j]
<1>1. /\ screen \in [Members -> Seq(Entry)] /\ down \in [Members -> Seq(Entry)]
      /\ clients \in Seq(Members) /\ message \in Seq(Entry) /\ k \in 1..(Len(clients) + 1)
      /\ spc = "write" => j \in 1..Len(message)
  BY DEF SystemType, TypeOK, ClientType, SocketType, ServerType, Writing
<1>2. /\ spc = "write" /\ k <= Len(clients) /\ screen' = screen /\ clients' = clients
      /\ down' = [down EXCEPT ![c] = Append(down[c], e)]
  BY DEF ServerWrite, client
<1>3. c \in Members /\ j \in 1..Len(message) /\ e \in Entry
  BY <1>1, <1>2, ElementOfSeq
<1>4. screen[c] \in Seq(Entry) /\ down[c] \in Seq(Entry)
  BY <1>1, <1>3
<1> DEFINE a == screen[c]
           b == down[c]
<1>5. a \in Seq(Entry) /\ b \in Seq(Entry)
  BY <1>4
<1> HIDE DEF a, b, e, c
<1>6. Got(c) \in Seq(Entry)
  BY <1>4, ConcatProperties DEF Got
<1>7. ASSUME NEW d \in Members, d = c
      PROVE  Got(d)' = Append(Got(d), e)
  <2>1. down'[d] = Append(b, e) /\ screen'[d] = a
    BY <1>1, <1>2, <1>7 DEF a, b
  <2>2. Append(a \o b, e) = a \o Append(b, e)
    <3>1. a \in Seq(Entry) /\ b \in Seq(Entry) /\ e \in Entry
      BY <1>3, <1>5
    <3> QED BY <3>1, EntryBehind, Zenon
  <2>3. Got(d) = a \o b
    BY <1>7 DEF Got, a, b
  <2> QED BY <2>1, <2>2, <2>3 DEF Got
<1>8. ASSUME NEW d \in Members, d # c
      PROVE  Got(d)' = Got(d)
  <2>1. down'[d] = down[d] /\ screen'[d] = screen[d]
    BY <1>1, <1>2, <1>8
  <2> QED BY <2>1 DEF Got
<1> QED BY <1>3, <1>6, <1>7, <1>8 DEF e, c

Attributed(s) ==
  \A n \in 1..Len(s) :
    s[n].prefix \/ (n > 1 /\ s[n - 1].line.from = s[n].line.from)

\* A message is of one member and starts with the name, and who gets it next
\* has got the line before it last: nobody else writes to a client.
AllAttributed == \A c \in Members : Attributed(Got(c))
NameInFront ==
  \A n \in 1..Len(message) : /\ message[n].line.from = Head(ready)
                             /\ n > 1 \/ message[n].prefix
LastGot(c) == Got(c)[Len(Got(c))]
InTheMiddle ==
  j > 1 => Got(clients[k]) # << >> /\ LastGot(clients[k]).line.from = Head(ready)

Attribution == AllAttributed /\ NameInFront /\ InTheMiddle

\* An entry with the name, or of the member of the last one, behind entries
\* that can be attributed.
LEMMA AttributedAppend ==
  ASSUME NEW s \in Seq(Entry), Attributed(s), NEW e \in Entry,
         e.prefix \/ (s # << >> /\ s[Len(s)].line.from = e.line.from)
  PROVE  Attributed(Append(s, e))
<1> DEFINE a == Append(s, e)
<1>1. /\ Len(s) \in Nat /\ Len(a) = Len(s) + 1 /\ a[Len(s) + 1] = e
      /\ \A n \in 1..Len(s) : a[n] = s[n]
  BY AppendProperties, LenProperties
<1>2. s # << >> => Len(s) > 0
  BY <1>1, EmptySeq
<1> HIDE DEF a
<1> SUFFICES ASSUME NEW n \in 1..Len(a)
             PROVE  a[n].prefix \/ (n > 1 /\ a[n - 1].line.from = a[n].line.from)
  BY DEF Attributed, a
<1>3. CASE n = Len(s) + 1
  <2>1. n - 1 = Len(s) /\ (s # << >> => n > 1 /\ a[n - 1] = s[Len(s)])
    BY <1>1, <1>2, <1>3
  <2> QED BY <1>1, <1>3, <2>1
<1>4. CASE n # Len(s) + 1
  <2>1. n \in 1..Len(s) /\ (n > 1 => n - 1 \in 1..Len(s))
    BY <1>1, <1>4
  <2>2. s[n].prefix \/ (n > 1 /\ s[n - 1].line.from = s[n].line.from)
    BY <2>1 DEF Attributed
  <2> QED BY <1>1, <2>1, <2>2
<1> QED BY <1>3, <1>4

\* The message of a read: its lines, the first of them with the name.
LEMMA MessageOfRead ==
  ASSUME SystemType, ServerRead
  PROVE  /\ \A n \in 1..Len(message') : /\ message'[n].line.from = Head(ready)
                                        /\ n > 1 \/ message'[n].prefix
         /\ message' # << >> => ready' = ready
         /\ j' = 1
<1> DEFINE c == Head(ready)
           lines == Brought
<1>1. /\ spc = "read" /\ message' = Message(lines) /\ UNCHANGED j
      /\ lines # << >> => UNCHANGED ready
  BY ReadTakes DEF SystemType, TypeOK
<1>2. ready \in Seq(Members) /\ ready # << >> /\ j = 1 /\ SocketType
  BY <1>1 DEF SystemType, TypeOK, ServerType, Writing
<1>3. c \in Members /\ Taken \in Seq([from : {c}, n : Nat])
  BY ReadTakes DEF SystemType, TypeOK
<1> HIDE DEF c
<1>5. /\ lines \in Seq([from : {c}, n : Nat \ {0}]) /\ Len(Message(lines)) = Len(lines)
      /\ (Message(lines) = << >> <=> lines = << >>)
  BY <1>3, LinesForTheRoom DEF Brought
<1> HIDE DEF lines
<1>6. ASSUME NEW n \in 1..Len(lines)
      PROVE  Message(lines)[n].line.from = c /\ (n > 1 \/ Message(lines)[n].prefix)
  <2>1. Message(lines)[n] = [line |-> lines[n], prefix |-> n = 1]
    BY DEF Message, Prefix
  <2>2. lines[n] \in [from : {c}, n : Nat \ {0}]
    BY <1>5, ElementOfSeq
  <2>3. n = 1 \/ n > 1
    BY <1>5
  <2> DEFINE m == Message(lines)[n]
  <2>4. m.line = lines[n] /\ m.prefix = (n = 1)
    BY <2>1
  <2> HIDE DEF m
  <2>5. m.line.from = c
    BY <2>2, <2>4
  <2> QED BY <2>3, <2>4, <2>5 DEF m
<1> QED BY <1>1, <1>2, <1>5, <1>6 DEF c

LEMMA AttributionInit == Init => Attribution
<1> SUFFICES ASSUME Init PROVE Attribution
  OBVIOUS
<1>1. \A c \in Members : Got(c) = << >>
  <2> DEFINE e == << >>
  <2>1. screen = [c \in Members |-> e] /\ down = [c \in Members |-> e] /\ e \o e = e
    BY DEF Init
  <2> HIDE DEF e
  <2>2. \A c \in Members : Got(c) = e
    BY <2>1 DEF Got
  <2> QED BY <2>2 DEF e
<1>2. message = << >> /\ j = 1
  BY DEF Init
<1>3. Len(message) = 0
  BY <1>2
<1> QED BY <1>1, <1>2, <1>3 DEF Attribution, AllAttributed, NameInFront, InTheMiddle, Attributed

LEMMA AttributionByWrite ==
  ASSUME SystemType, Attribution, ServerWrite
  PROVE  Attribution'
<1> DEFINE c == clients[k]
           e == message[j]
           g == Append(Got(c), e)
<1>1. /\ c \in Members /\ e \in Entry /\ j \in 1..Len(message) /\ Got(c) \in Seq(Entry)
      /\ \A d \in Members : Got(d)' = IF d = c THEN g ELSE Got(d)
  <2>1. \A d \in Members : d = c => Append(Got(d), e) = g
    OBVIOUS
  <2> QED BY <2>1, GotByWrite
<1>2. /\ UNCHANGED <<clients, ready, message>>
      /\ j' > 1 => k' = k
  BY DEF ServerWrite
<1>3. Attributed(Got(c)) /\ e.line.from = Head(ready)
  BY <1>1 DEF Attribution, AllAttributed, NameInFront
<1>4. e.prefix \/ (Got(c) # << >> /\ Got(c)[Len(Got(c))].line.from = e.line.from)
  <2>1. CASE j = 1
    BY <1>1, <2>1 DEF Attribution, NameInFront
  <2>2. CASE j # 1
    <3>1. j > 1
      BY <1>1, <2>2, LenProperties DEF SystemType, TypeOK, ServerType
    <3> QED BY <1>3, <3>1 DEF Attribution, InTheMiddle, LastGot
  <2> QED BY <2>1, <2>2
<1>5. g # << >> /\ g[Len(g)] = e
  <2> HIDE DEF e
  <2> QED BY <1>1, AppendProperties, LenProperties, EmptySeq
<1> HIDE DEF g, e, c
<1>6. Attributed(g)
  BY <1>1, <1>3, <1>4, AttributedAppend DEF g
<1>7. AllAttributed'
  <2> SUFFICES ASSUME NEW d \in Members PROVE Attributed(Got(d)')
    BY DEF Attributed, AllAttributed
  <2>1. CASE d = c
    BY <1>1, <1>6, <2>1
  <2>2. CASE d # c
    BY <1>1, <2>2 DEF Attribution, AllAttributed
  <2> QED BY <2>1, <2>2
<1>8. NameInFront'
  BY <1>2 DEF Attribution, NameInFront
<1>9. InTheMiddle'
  <2> SUFFICES ASSUME j' > 1
               PROVE  /\ Got(clients[k])' # << >>
                      /\ LastGot(clients[k])'.line.from = Head(ready')
    BY DEF InTheMiddle
  <2>1. PICK d \in Members : d = c
    BY <1>1
  <2>2. clients[k]' = d /\ ready' = ready
    BY <1>2, <2>1 DEF c
  <2>3. Got(d)' = g
    BY <1>1, <2>1
  <2>4. Got(clients[k])' = g
    BY <2>2, <2>3 DEF Got
  <2>5. LastGot(clients[k])' = g[Len(g)]
    BY <2>4 DEF LastGot
  <2> QED BY <1>3, <1>5, <2>2, <2>4, <2>5
<1> QED BY <1>7, <1>8, <1>9 DEF Attribution

LEMMA AttributionKept ==
  ASSUME SystemType, Attribution, [Next]_vars
  PROVE  Attribution'
<1>1. CASE UNCHANGED vars \/ \E c \in Members : Client(c)
  <2>1. \A d \in Members : Got(d)' = Got(d)
    BY <1>1, GotByClients DEF vars, client, Got
  <2>2. UNCHANGED server
    BY <1>1 DEF vars, Client, Run, Poll, WriteLine, Read
  <2>3. AllAttributed'
    BY <2>1 DEF Attribution, AllAttributed, Attributed
  <2>4. NameInFront'
    BY <2>2 DEF Attribution, NameInFront, server
  <2>5. InTheMiddle'
    <3> SUFFICES ASSUME j' > 1
                 PROVE  /\ Got(clients[k])' # << >>
                        /\ LastGot(clients[k])'.line.from = Head(ready')
      BY DEF InTheMiddle
    <3>1. j > 1 /\ ready' = ready
      BY <2>2 DEF server
    <3>2. clients[k] \in Members
      <4>1. /\ clients \in Seq(Members) /\ k \in 1..(Len(clients) + 1) /\ k <= Len(clients)
        BY <3>1, LenProperties DEF SystemType, TypeOK, ServerType, Writing
      <4> QED BY <4>1, LenProperties, ElementOfSeq
    <3>3. PICK d \in Members : d = clients[k]
      BY <3>2
    <3>4. Got(d)' = Got(d) /\ clients[k]' = d
      BY <2>1, <2>2, <3>3 DEF server
    <3>5. Got(clients[k])' = Got(d)
      BY <3>4 DEF Got
    <3>6. LastGot(clients[k])' = LastGot(d)
      BY <3>5 DEF LastGot
    <3> QED BY <3>1, <3>3, <3>5, <3>6 DEF Attribution, InTheMiddle
  <2> QED BY <2>3, <2>4, <2>5 DEF Attribution
<1>2. CASE ServerPoll \/ ServerRead \/ SkipSender \/ ServerWriteEnd
  <2>1. /\ \A d \in Members : Got(d)' = Got(d)
        /\ j' = 1 /\ NameInFront'
    <3>1. \A d \in Members : Got(d)' = Got(d)
      BY <1>2 DEF ServerPoll, ServerRead, SkipSender, ServerWriteEnd, client, Got
    <3>2. CASE ServerPoll
      <4>1. message' = << >> /\ j' = 1
        BY <3>2 DEF ServerPoll, SystemType, Writing
      <4> QED BY <3>1, <4>1 DEF NameInFront
    <3>3. CASE ServerRead
      <4>1. message' = << >> \/ ready' = ready
        BY <3>3, MessageOfRead
      <4>2. NameInFront'
        BY <3>3, <4>1, MessageOfRead DEF NameInFront
      <4> QED BY <3>1, <3>3, <4>2, MessageOfRead
    <3>4. CASE SkipSender
      <4>1. j \in 1..Len(message) /\ ~(j > 1)
        BY <3>4 DEF SkipSender, SystemType, Writing
      <4>2. Len(message) \in Nat
        BY LenProperties DEF SystemType, TypeOK, ServerType
      <4> QED BY <3>1, <3>4, <4>1, <4>2 DEF SkipSender, Attribution, NameInFront
    <3>5. CASE ServerWriteEnd
      <4>1. j \in 1..Len(message) /\ ~(j > 1)
        <5>1. k > Len(clients) /\ spc = "write" /\ k \in Nat /\ Len(clients) \in Nat
          BY <3>5, LenProperties DEF ServerWriteEnd, SystemType, TypeOK, ServerType
        <5> QED BY <5>1 DEF SystemType, Writing
      <4>2. Len(message) \in Nat
        BY LenProperties DEF SystemType, TypeOK, ServerType
      <4>3. message' = << >> /\ j' = 1
        BY <3>5, <4>1, <4>2 DEF ServerWriteEnd
      <4> QED BY <3>1, <4>3 DEF NameInFront
    <3> QED BY <1>2, <3>2, <3>3, <3>4, <3>5
  <2>2. AllAttributed'
    BY <2>1 DEF Attribution, AllAttributed, Attributed
  <2> QED BY <2>1, <2>2 DEF Attribution, InTheMiddle
<1> QED BY <1>1, <1>2, AttributionByWrite DEF Next, Server

\* For every number of members and lines: a line that stands on a screen
\* without the name of its member follows a line of the same member.
THEOREM WhoSaidWhatIsKnown == Spec => []LinesCanBeAttributed
<1> DEFINE IInv == SystemType /\ Attribution
<1>1. Init => IInv
  BY TypeInit, AttributionInit
<1>2. IInv /\ [Next]_vars => IInv'
  <2>1. SystemType /\ [Next]_vars => SystemType'
    BY TypeStep
  <2> QED BY <2>1, AttributionKept
<1>3. IInv => LinesCanBeAttributed
  <2> SUFFICES ASSUME SystemType, Attribution, NEW c \in Members, NEW n \in 1..Len(screen[c])
               PROVE  \/ screen[c][n].prefix
                      \/ n > 1 /\ screen[c][n - 1].line.from = screen[c][n].line.from
    BY DEF LinesCanBeAttributed
  <2> DEFINE s == screen[c]
             d == down[c]
  <2>1. s \in Seq(Entry) /\ d \in Seq(Entry)
    BY DEF SystemType, TypeOK, ClientType, SocketType
  <2>2. Attributed(s \o d)
    BY DEF Attribution, AllAttributed, Got
  <2> HIDE DEF s, d
  <2>3. /\ Len(s) \in Nat /\ Len(d) \in Nat /\ Len(s \o d) = Len(s) + Len(d)
        /\ \A i \in 1..Len(s) : (s \o d)[i] = s[i]
    BY <2>1, ConcatProperties, LenProperties
  <2>4. n \in 1..Len(s) /\ n \in 1..Len(s \o d) /\ (n > 1 => n - 1 \in 1..Len(s))
    BY <2>3 DEF s
  <2>5. (s \o d)[n].prefix \/ (n > 1 /\ (s \o d)[n - 1].line.from = (s \o d)[n].line.from)
    BY <2>2, <2>4 DEF Attributed
  <2> QED BY <2>3, <2>4, <2>5 DEF s
<1> QED BY <1>1, <1>2, <1>3, PTL DEF Spec

-----------------------------------------------------------------------------
(* The room: the invariants that relate it to the sockets and the loops.   *)

\* What one member has said, and what the others have since it came.
SaidBy(c)    == Only(log, [from : {c}, n : Nat])
ForeignTo(c) == Only(SubSeq(log, since[c] + 1, Len(log)), [from : Members \ {c}, n : Nat])

\* A member connects, then waits to be accepted, then has one place.
Came    == {c \in Members : since[c] # Away}
Waiting == {c \in Members : since[c] = Away /\ cpc[c] # "run"}
Distinct(s) == \A m, n \in 1..Len(s) : s[m] = s[n] => m = n

Places ==
  /\ \A c \in Members : cpc[c] = "run" => since[c] = Away /\ up[c] = << >>
  /\ \A c \in Members : since[c] = Away => screen[c] = << >> /\ down[c] = << >>
  /\ backlog \in Seq(Waiting) /\ Distinct(backlog)
  /\ clients \in Seq(Came) /\ Distinct(clients)
  /\ \A c \in Came : \E m \in 1..Len(clients) : clients[m] = c
  /\ ready \in Seq(Came)

\* What a member has said, what is on its way to the server and what is left
\* to write are the lines that it has typed.
AllTyped(c) == [m \in 1..typed[c] |-> Line(c, m)]
Saying == \A c \in Members : (SaidBy(c) \o ForTheRoom(up[c])) \o out[c] = AllTyped(c)

\* What of the message the client at a place is still to get.
FirstDue(m) ==
  IF spc # "write" \/ m < k \/ ~WritesTo(clients[m]) THEN Len(message) + 1
  ELSE IF m = k THEN j ELSE 1
Due(m) == SubSeq(message, FirstDue(m), Len(message))
Meant(m) == Got(clients[m]) \o Due(m)

\* What a client has got and is still to get is what the others have said.
Delivered == \A m \in 1..Len(clients) : LinesOf(Meant(m)) = ForeignTo(clients[m])

SystemInv == SystemType /\ Places /\ Saying /\ Delivered

-----------------------------------------------------------------------------
(* Lemmas about parts of sequences, and the lines of entries.              *)

LEMMA EqualSeqs ==
  ASSUME NEW S, NEW s \in Seq(S), NEW t \in Seq(S), Len(s) = Len(t),
         \A n \in 1..Len(s) : s[n] = t[n]
  PROVE  s = t
  BY SeqEqual

LEMMA FrontOfConcat ==
  ASSUME NEW S, NEW s \in Seq(S), NEW t \in Seq(S)
  PROVE  SubSeq(s \o t, 1, Len(s)) = s
  OBVIOUS

LEMMA BackOfConcat ==
  ASSUME NEW S, NEW s \in Seq(S), NEW t \in Seq(S), NEW a \in 0..Len(s)
  PROVE  SubSeq(s \o t, a + 1, Len(s \o t)) = SubSeq(s, a + 1, Len(s)) \o t
<1> DEFINE st == s \o t
           u == SubSeq(st, a + 1, Len(st))
           v == SubSeq(s, a + 1, Len(s))
<1>1. /\ st \in Seq(S) /\ Len(st) = Len(s) + Len(t) /\ Len(s) \in Nat /\ Len(t) \in Nat
      /\ \A n \in 1..(Len(s) + Len(t)) : st[n] = IF n <= Len(s) THEN s[n] ELSE t[n - Len(s)]
  BY ConcatProperties, LenProperties
<1> HIDE DEF st
<1>2. /\ u \in Seq(S) /\ Len(u) = Len(st) - a
      /\ \A n \in 1..(Len(st) - a) : u[n] = st[a + n]
  BY <1>1
<1>3. /\ v \in Seq(S) /\ Len(v) = Len(s) - a
      /\ \A n \in 1..(Len(s) - a) : v[n] = s[a + n]
  BY <1>1
<1> HIDE DEF u, v
<1>4. /\ v \o t \in Seq(S) /\ Len(v \o t) = Len(v) + Len(t)
      /\ \A n \in 1..(Len(v) + Len(t)) : (v \o t)[n] = IF n <= Len(v) THEN v[n] ELSE t[n - Len(v)]
  BY <1>3, ConcatProperties
<1>5. ASSUME NEW n \in 1..Len(u)
      PROVE  u[n] = (v \o t)[n]
  <2>1. /\ u[n] = st[a + n] /\ a + n \in 1..(Len(s) + Len(t)) /\ n \in 1..(Len(v) + Len(t))
    BY <1>1, <1>2, <1>3
  <2>2. CASE n <= Len(v)
    <3>1. a + n <= Len(s) /\ n \in 1..(Len(s) - a)
      BY <1>1, <1>3, <2>1, <2>2
    <3> QED BY <1>1, <1>3, <1>4, <2>1, <2>2, <3>1
  <2>3. CASE ~(n <= Len(v))
    <3>1. ~(a + n <= Len(s)) /\ (a + n) - Len(s) = n - Len(v)
      BY <1>1, <1>3, <2>1, <2>3
    <3> QED BY <1>1, <1>4, <2>1, <2>3, <3>1
  <2> QED BY <2>2, <2>3
<1>6. Len(u) = Len(v \o t)
  BY <1>1, <1>2, <1>3, <1>4
<1>7. u = v \o t
  BY <1>2, <1>4, <1>5, <1>6, EqualSeqs
<1> QED BY <1>7 DEF u, v, st

LEMMA BackFromHere ==
  ASSUME NEW S, NEW s \in Seq(S), NEW n \in 1..Len(s)
  PROVE  SubSeq(s, n, Len(s)) = <<s[n]>> \o SubSeq(s, n + 1, Len(s))
  OBVIOUS

LEMMA NothingBehind ==
  ASSUME NEW S, NEW s \in Seq(S)
  PROVE  SubSeq(s, Len(s) + 1, Len(s)) = << >>
  OBVIOUS

LEMMA LinesOfType ==
  ASSUME NEW s \in Seq(Entry)
  PROVE  /\ LinesOf(s) \in Seq(AnyLine) /\ Len(LinesOf(s)) = Len(s)
         /\ \A n \in 1..Len(s) : LinesOf(s)[n] = s[n].line
<1>1. Len(s) \in Nat /\ \A n \in 1..Len(s) : s[n] \in Entry
  BY LenProperties, ElementOfSeq
<1>2. LinesOf(s) \in [1..Len(s) -> AnyLine]
  BY <1>1 DEF LinesOf, Entry
<1> QED BY <1>1, <1>2, SequenceOf DEF LinesOf

LEMMA LinesOfConcat ==
  ASSUME NEW s \in Seq(Entry), NEW t \in Seq(Entry)
  PROVE  LinesOf(s \o t) = LinesOf(s) \o LinesOf(t)
<1> DEFINE a == LinesOf(s)
           b == LinesOf(t)
           st == s \o t
           ab == LinesOf(st)
<1>1. /\ st \in Seq(Entry) /\ Len(st) = Len(s) + Len(t) /\ Len(s) \in Nat /\ Len(t) \in Nat
      /\ \A n \in 1..(Len(s) + Len(t)) : st[n] = IF n <= Len(s) THEN s[n] ELSE t[n - Len(s)]
  BY ConcatProperties, LenProperties
<1>2. /\ a \in Seq(AnyLine) /\ Len(a) = Len(s) /\ \A n \in 1..Len(s) : a[n] = s[n].line
      /\ b \in Seq(AnyLine) /\ Len(b) = Len(t) /\ \A n \in 1..Len(t) : b[n] = t[n].line
  BY LinesOfType
<1>3. ab \in Seq(AnyLine) /\ Len(ab) = Len(st) /\ \A n \in 1..Len(st) : ab[n] = st[n].line
  BY <1>1, LinesOfType
<1> HIDE DEF a, b, ab, st
<1>4. /\ a \o b \in Seq(AnyLine) /\ Len(a \o b) = Len(s) + Len(t)
      /\ \A n \in 1..(Len(s) + Len(t)) : (a \o b)[n] = IF n <= Len(s) THEN a[n] ELSE b[n - Len(s)]
  <2>1. a \in Seq(AnyLine) /\ b \in Seq(AnyLine)
    BY <1>2
  <2>2. /\ a \o b \in Seq(AnyLine) /\ Len(a \o b) = Len(a) + Len(b)
        /\ \A n \in 1..(Len(a) + Len(b)) : (a \o b)[n] = IF n <= Len(a) THEN a[n] ELSE b[n - Len(a)]
    BY <2>1, ConcatProperties
  <2> QED BY <1>2, <2>2
<1>5. \A n \in 1..Len(ab) : ab[n] = (a \o b)[n]
  <2> SUFFICES ASSUME NEW n \in 1..Len(ab) PROVE ab[n] = (a \o b)[n]
    OBVIOUS
  <2>1. n \in 1..(Len(s) + Len(t)) /\ n \in 1..Len(st)
    BY <1>1, <1>3
  <2>2. CASE n <= Len(s)
    <3>1. n \in 1..Len(s)
      BY <1>1, <2>1, <2>2
    <3> QED BY <1>1, <1>2, <1>3, <1>4, <2>1, <2>2, <3>1
  <2>3. CASE ~(n <= Len(s))
    <3>1. n - Len(s) \in 1..Len(t)
      BY <1>1, <2>1, <2>3
    <3> QED BY <1>1, <1>2, <1>3, <1>4, <2>1, <2>3, <3>1
  <2> QED BY <2>2, <2>3
<1>6. ab = a \o b
  BY <1>1, <1>3, <1>4, <1>5, EqualSeqs
<1> QED BY <1>6 DEF ab, a, b, st

LEMMA LinesOfMessage ==
  ASSUME NEW lines \in Seq(AnyLine), Message(lines) \in Seq(Entry),
         Len(Message(lines)) = Len(lines)
  PROVE  LinesOf(Message(lines)) = lines
<1> DEFINE m == Message(lines)
           l == LinesOf(m)
<1>1. /\ l \in Seq(AnyLine) /\ Len(l) = Len(lines)
      /\ \A n \in 1..Len(lines) : l[n] = m[n].line
  BY LinesOfType
<1>2. \A n \in 1..Len(lines) : m[n].line = lines[n]
  BY DEF Message
<1> HIDE DEF m, l
<1>3. l = lines
  BY <1>1, <1>2, EqualSeqs
<1> QED BY <1>3 DEF m, l

LEMMA NoLines == LinesOf(<< >>) = << >>
  BY LinesOfType, EmptySeq

\* The operators of the room are those of the system, with the same log.
LEMMA RoomSays ==
  ASSUME NEW c
  PROVE  RoomOf!Said(c) = SaidBy(c) /\ RoomOf!Foreign(c) = ForeignTo(c)
  BY DEF RoomOf!Said, RoomOf!Foreign, SaidBy, ForeignTo, Only, Selected, RoomOf!Only, RoomOf!Selected

-----------------------------------------------------------------------------
(* A member has one place, and what it has typed is somewhere once.        *)

\* A new element behind, and the first one gone.
LEMMA DistinctAppend ==
  ASSUME NEW S, NEW s \in Seq(S), Distinct(s), NEW e, e \notin S
  PROVE  Distinct(Append(s, e))
<1> DEFINE a == Append(s, e)
           T == S \cup {e}
<1>1. s \in Seq(T)
  BY SeqMonotonic
<1>2. /\ Len(a) = Len(s) + 1 /\ Len(s) \in Nat /\ a[Len(s) + 1] = e
      /\ \A n \in 1..Len(s) : a[n] = s[n]
  BY <1>1, AppendProperties, LenProperties
<1>3. \A n \in 1..Len(s) : s[n] # e
  BY ElementOfSeq
<1> HIDE DEF a
<1> SUFFICES ASSUME NEW m \in 1..Len(a), NEW n \in 1..Len(a), a[m] = a[n] PROVE m = n
  BY DEF Distinct, a
<1>4. (m \in 1..Len(s) \/ m = Len(s) + 1) /\ (n \in 1..Len(s) \/ n = Len(s) + 1)
  BY <1>2
<1> QED BY <1>2, <1>3, <1>4 DEF Distinct

LEMMA DistinctTail ==
  ASSUME NEW S, NEW s \in Seq(S), s # << >>, Distinct(s)
  PROVE  Tail(s) \in Seq(S \ {Head(s)}) /\ Distinct(Tail(s))
<1> DEFINE t == Tail(s)
           h == Head(s)
<1>1. /\ t \in Seq(S) /\ s[1] = h /\ Len(s) \in Nat \ {0} /\ Len(t) = Len(s) - 1
      /\ \A n \in 1..(Len(s) - 1) : t[n] = s[n + 1]
  BY HeadAndTail
<1> HIDE DEF t, h
<1>2. \A n \in 1..Len(t) : n + 1 \in 1..Len(s) /\ n + 1 # 1 /\ 1 \in 1..Len(s) /\ t[n] = s[n + 1]
  BY <1>1
<1>3. \A n \in 1..Len(t) : t[n] \in S /\ t[n] # h
  BY <1>1, <1>2, ElementOfSeq DEF Distinct
<1>4. t \in Seq(S \ {h})
  BY <1>1, <1>3
<1>5. Distinct(t)
  <2> SUFFICES ASSUME NEW m \in 1..Len(t), NEW n \in 1..Len(t), t[m] = t[n] PROVE m = n
    BY DEF Distinct
  <2>1. m + 1 = n + 1
    BY <1>2 DEF Distinct
  <2> QED BY <1>1, <2>1
<1> QED BY <1>4, <1>5 DEF t, h

LEMMA PlacesInit == Init => Places
<1> SUFFICES ASSUME Init PROVE Places
  OBVIOUS
<1>1. Came = {}
  BY DEF Init, Came
<1> DEFINE e == << >>
<1>2. /\ e \in Seq(Waiting) /\ e \in Seq(Came) /\ Len(e) = 0
      /\ backlog = e /\ clients = e /\ ready = e
      /\ up = [c \in Members |-> e] /\ down = [c \in Members |-> e]
      /\ screen = [c \in Members |-> e] /\ since = [c \in Members |-> Away]
  BY DEF Init
<1> HIDE DEF e
<1>3. Distinct(e)
  BY <1>2 DEF Distinct
<1>4. \A c \in Members : /\ since[c] = Away /\ up[c] = e
                         /\ screen[c] = e /\ down[c] = e
  BY <1>2
<1>5. \A c \in Members : since[c] = Away /\ up[c] = << >> /\ screen[c] = << >> /\ down[c] = << >>
  BY <1>4 DEF e
<1> QED BY <1>1, <1>2, <1>3, <1>5 DEF Places

LEMMA PlacesByClients ==
  ASSUME SystemType, Places, NEW c \in Members, Client(c)
  PROVE  Places'
<1>1. /\ cpc \in [Members -> {"run", "poll", "write", "read"}]
      /\ up \in [Members -> Seq(AnyLine)] /\ screen \in [Members -> Seq(Entry)]
      /\ down \in [Members -> Seq(Entry)]
  BY DEF SystemType, TypeOK, ClientType, SocketType
<1>2. /\ \A d \in Members : cpc[d] = "run" => since[d] = Away /\ up[d] = << >>
      /\ \A d \in Members : since[d] = Away => screen[d] = << >> /\ down[d] = << >>
      /\ backlog \in Seq(Waiting) /\ Distinct(backlog)
      /\ clients \in Seq(Came) /\ Distinct(clients)
      /\ \A d \in Came : \E m \in 1..Len(clients) : clients[m] = d
      /\ ready \in Seq(Came)
  BY DEF Places
<1>3. UNCHANGED <<clients, ready, since>> /\ Came' = Came
  BY DEF Client, Run, Poll, WriteLine, Read, server, history, Came
<1>4. \A d \in Members : since[d] = Away => screen'[d] = << >> /\ down'[d] = << >>
  <2>1. CASE Read(c)
    <3> SUFFICES ASSUME NEW d \in Members, since[d] = Away
                 PROVE  screen'[d] = << >> /\ down'[d] = << >>
      OBVIOUS
    <3>1. PICK n \in 1..Len(down[c]) :
            /\ screen' = [screen EXCEPT ![c] = @ \o Taking(down[c], n)]
            /\ down' = [down EXCEPT ![c] = Leaving(@, n)]
      BY <2>1 DEF Read
    <3>2. down[c] # << >>
      BY <1>1, TakingAndLeaving
    <3>3. d # c /\ screen[d] = << >> /\ down[d] = << >>
      BY <1>2, <3>2
    <3>4. screen'[d] = screen[d] /\ down'[d] = down[d]
      BY <1>1, <3>1, <3>3
    <3> QED BY <3>3, <3>4
  <2>2. CASE Run(c) \/ Poll(c) \/ WriteLine(c)
    BY <1>2, <2>2 DEF Run, Poll, WriteLine
  <2> QED BY <2>1, <2>2 DEF Client
<1>5. CASE Run(c)
  <2>1. /\ cpc[c] = "run" /\ backlog' = Append(backlog, c) /\ cpc' = [cpc EXCEPT ![c] = "poll"]
        /\ \A d \in Members \ {c} : up'[d] = up[d]
    BY <1>1, <1>5 DEF Run
  <2>2. c \notin Waiting /\ Waiting \subseteq Waiting' /\ c \in Waiting'
    BY <1>1, <1>2, <1>3, <2>1 DEF Waiting
  <2>3. backlog' \in Seq(Waiting') /\ Distinct(backlog')
    <3>1. backlog \in Seq(Waiting')
      BY <1>2, <2>2, SeqMonotonic
    <3>2. Append(backlog, c) \in Seq(Waiting')
      BY <2>2, <3>1, AppendTo
    <3> QED BY <1>2, <2>1, <2>2, <3>2, DistinctAppend
  <2>4. \A d \in Members : cpc'[d] = "run" => since'[d] = Away /\ up'[d] = << >>
    BY <1>1, <1>2, <1>3, <2>1
  <2> QED BY <1>2, <1>3, <1>4, <2>3, <2>4 DEF Places, Distinct
<1>6. CASE Poll(c) \/ WriteLine(c) \/ Read(c)
  <2>1. /\ \A d \in Members : cpc'[d] = "run" <=> cpc[d] = "run"
        /\ backlog' = backlog
    BY <1>1, <1>6 DEF Poll, WriteLine, Read
  <2>2. \A d \in Members : cpc[d] = "run" => up'[d] = up[d]
    BY <1>1, <1>6 DEF Poll, WriteLine, Read
  <2>3. Waiting' = Waiting
    BY <1>3, <2>1 DEF Waiting
  <2>4. \A d \in Members : cpc'[d] = "run" => since'[d] = Away /\ up'[d] = << >>
    BY <1>2, <1>3, <2>1, <2>2
  <2> QED BY <1>2, <1>3, <1>4, <2>1, <2>3, <2>4 DEF Places, Distinct
<1> QED BY <1>5, <1>6 DEF Client

LEMMA PlacesByServer ==
  ASSUME SystemType, Places, Server
  PROVE  Places'
<1>1. /\ up \in [Members -> Seq(AnyLine)] /\ down \in [Members -> Seq(Entry)]
      /\ since \in [Members -> {Away} \cup (0..Len(log))] /\ Len(log) \in Nat
      /\ spc # "poll" => ready # << >>
  BY LenProperties DEF SystemType, TypeOK, SocketType, HistoryType, ServerType
<1>2. /\ \A d \in Members : cpc[d] = "run" => since[d] = Away /\ up[d] = << >>
      /\ \A d \in Members : since[d] = Away => screen[d] = << >> /\ down[d] = << >>
      /\ backlog \in Seq(Waiting) /\ Distinct(backlog)
      /\ clients \in Seq(Came) /\ Distinct(clients)
      /\ \A d \in Came : \E m \in 1..Len(clients) : clients[m] = d
      /\ ready \in Seq(Came)
  BY DEF Places
<1>3. UNCHANGED <<cpc, screen>>
  BY DEF Server, ServerPoll, ServerRead, ServerWrite, SkipSender, ServerWriteEnd, client
<1>4. ready # << >> => Tail(ready) \in Seq(Came)
  BY <1>2, HeadAndTail
<1>5. CASE ServerPoll
  <2>1. ready' \in Seq(Came)
    <3> DEFINE S == {c \in Members : up[c] # << >>}
    <3>1. Only(clients, S) \in Seq(S \cap Came)
      BY <1>2, OnlyType
    <3>2. Only(clients, S) \in Seq(Came)
      BY <3>1, SeqMonotonic
    <3> QED BY <1>5, <3>2 DEF ServerPoll
  <2>2. UNCHANGED <<up, down>>
    BY <1>5 DEF ServerPoll
  <2>3. CASE UNCHANGED <<clients, backlog, since>>
    <3>1. Came' = Came /\ Waiting' = Waiting
      BY <1>3, <2>3 DEF Came, Waiting
    <3> QED BY <1>2, <1>3, <2>1, <2>2, <2>3, <3>1 DEF Places, Distinct
  <2>4. CASE backlog # << >>
    <3> DEFINE h == Head(backlog)
    <3>1. h \in Waiting /\ Tail(backlog) \in Seq(Waiting \ {h}) /\ Distinct(Tail(backlog))
      BY <1>2, <2>4, HeadAndTail, DistinctTail
    <3>2. /\ clients' = Append(clients, h) /\ backlog' = Tail(backlog)
          /\ since' = [since EXCEPT ![h] = Len(log)]
      BY <1>5, <2>4 DEF ServerPoll
    <3> HIDE DEF h
    <3>3. /\ h \in Members /\ since[h] = Away /\ cpc[h] # "run"
          /\ since'[h] # Away /\ \A d \in Members \ {h} : since'[d] = since[d]
      BY <1>1, <3>1, <3>2 DEF Waiting, Away
    <3>4. Came' = Came \cup {h} /\ Waiting' = Waiting \ {h} /\ h \notin Came
      BY <1>3, <3>3 DEF Came, Waiting
    <3>5. clients' \in Seq(Came') /\ Distinct(clients') /\ ready' \in Seq(Came')
      <4>1. clients \in Seq(Came') /\ ready' \in Seq(Came') /\ h \in Came'
        BY <1>2, <2>1, <3>4, SeqMonotonic
      <4>2. Append(clients, h) \in Seq(Came')
        BY <4>1, AppendTo
      <4>3. Distinct(Append(clients, h))
        BY <1>2, <3>4, DistinctAppend
      <4> QED BY <3>2, <4>1, <4>2, <4>3
    <3>6. \A d \in Came' : \E m \in 1..Len(clients') : clients'[m] = d
      <4>1. /\ Len(clients') = Len(clients) + 1 /\ Len(clients) \in Nat
            /\ clients'[Len(clients) + 1] = h
            /\ \A m \in 1..Len(clients) : clients'[m] = clients[m]
        <5> DEFINE C == Came'
        <5>1. clients \in Seq(C) /\ h \in C
          BY <1>2, <3>4, SeqMonotonic
        <5> HIDE DEF C
        <5> QED BY <3>2, <5>1, AppendProperties, LenProperties
      <4> SUFFICES ASSUME NEW d \in Came' PROVE \E m \in 1..Len(clients') : clients'[m] = d
        OBVIOUS
      <4>2. CASE d = h
        <5>1. Len(clients) + 1 \in 1..Len(clients')
          BY <4>1
        <5> QED BY <4>1, <4>2, <5>1
      <4>3. CASE d # h
        <5>1. PICK m \in 1..Len(clients) : clients[m] = d
          BY <1>2, <3>4, <4>3
        <5>2. m \in 1..Len(clients') /\ clients'[m] = d
          BY <4>1, <5>1
        <5> QED BY <5>2
      <4> QED BY <4>2, <4>3
    <3>7. backlog' \in Seq(Waiting') /\ Distinct(backlog')
      BY <3>1, <3>2, <3>4
    <3>8. /\ \A d \in Members : cpc'[d] = "run" => since'[d] = Away /\ up'[d] = << >>
          /\ \A d \in Members : since'[d] = Away => screen'[d] = << >> /\ down'[d] = << >>
      BY <1>2, <1>3, <2>2, <3>3
    <3>9. Distinct(backlog)' /\ Distinct(clients)'
      BY <3>5, <3>7 DEF Distinct
    <3> QED BY <3>5, <3>6, <3>7, <3>8, <3>9 DEF Places
  <2> QED BY <1>5, <2>3, <2>4 DEF ServerPoll
<1>6. CASE ServerRead \/ ServerWrite \/ SkipSender \/ ServerWriteEnd
  <2>1. UNCHANGED <<backlog, clients, since>>
    BY <1>6 DEF ServerRead, ServerWrite, SkipSender, ServerWriteEnd, history
  <2>2. Came' = Came /\ Waiting' = Waiting
    BY <1>3, <2>1 DEF Came, Waiting
  <2>3. ready' \in Seq(Came)
    <3>1. spc # "poll"
      BY <1>6 DEF ServerRead, ServerWrite, SkipSender, ServerWriteEnd
    <3>2. ready' = ready \/ ready' = Tail(ready)
      BY <1>6 DEF ServerRead, ServerWrite, SkipSender, ServerWriteEnd, Served
    <3> QED BY <1>1, <1>2, <1>4, <3>1, <3>2
  <2>4. \A d \in Members : up[d] = << >> => up'[d] = << >>
    <3>1. CASE ServerRead
      <4> DEFINE c == Head(ready)
                 e == << >>
      <4>1. up[c] # e /\ up' = [up EXCEPT ![c] = Left]
        BY <3>1, ReadTakes DEF SystemType, TypeOK
      <4> HIDE DEF c, e
      <4>2. \A d \in Members : up[d] = e => up'[d] = e
        BY <1>1, <4>1
      <4> QED BY <4>2 DEF e
    <3>2. CASE ServerWrite \/ SkipSender \/ ServerWriteEnd
      BY <3>2 DEF ServerWrite, SkipSender, ServerWriteEnd
    <3> QED BY <1>6, <3>1, <3>2
  <2>5. \A d \in Members : since[d] = Away => down'[d] = down[d]
    <3>1. CASE ServerWrite
      <4>1. clients[k] \in Came
        <5>1. k \in 1..Len(clients)
          BY <3>1, LenProperties DEF ServerWrite, SystemType, TypeOK, ServerType
        <5> QED BY <1>2, <5>1, ElementOfSeq
      <4> DEFINE c == clients[k]
      <4>2. \A d \in Members \ {c} : down'[d] = down[d]
        BY <1>1, <3>1 DEF ServerWrite
      <4> QED BY <4>1, <4>2 DEF Came
    <3>2. CASE ServerRead \/ SkipSender \/ ServerWriteEnd
      BY <3>2 DEF ServerRead, SkipSender, ServerWriteEnd
    <3> QED BY <1>6, <3>1, <3>2
  <2>6. /\ \A d \in Members : cpc'[d] = "run" => since'[d] = Away /\ up'[d] = << >>
        /\ \A d \in Members : since'[d] = Away => screen'[d] = << >> /\ down'[d] = << >>
    BY <1>2, <1>3, <2>1, <2>4, <2>5
  <2> QED BY <1>2, <2>1, <2>2, <2>3, <2>6 DEF Places, Distinct
<1> QED BY <1>5, <1>6 DEF Server

\* The lines typed so far, and those typed next.
LEMMA TypedOn ==
  ASSUME NEW c \in Members, NEW a \in Nat, NEW n \in Nat
  PROVE  [m \in 1..a |-> Line(c, m)] \o [m \in 1..n |-> Line(c, a + m)]
           = [m \in 1..(a + n) |-> Line(c, m)]
<1> DEFINE s == [m \in 1..a |-> Line(c, m)]
           t == [m \in 1..n |-> Line(c, a + m)]
           u == [m \in 1..(a + n) |-> Line(c, m)]
<1>1. s \in [1..a -> AnyLine] /\ t \in [1..n -> AnyLine] /\ u \in [1..(a + n) -> AnyLine]
  BY DEF Line, AnyLine
<1>2. /\ \A m \in 1..a : s[m] = Line(c, m)
      /\ \A m \in 1..n : t[m] = Line(c, a + m)
      /\ \A m \in 1..(a + n) : u[m] = Line(c, m)
  OBVIOUS
<1> HIDE DEF s, t, u
<1>3. /\ s \in Seq(AnyLine) /\ Len(s) = a /\ t \in Seq(AnyLine) /\ Len(t) = n
      /\ u \in Seq(AnyLine) /\ Len(u) = a + n
  BY <1>1, SequenceOf
<1>4. /\ s \o t \in Seq(AnyLine) /\ Len(s \o t) = a + n
      /\ \A m \in 1..(a + n) : (s \o t)[m] = IF m <= a THEN s[m] ELSE t[m - a]
  <2>1. s \in Seq(AnyLine) /\ t \in Seq(AnyLine)
    BY <1>3
  <2>2. /\ s \o t \in Seq(AnyLine) /\ Len(s \o t) = Len(s) + Len(t)
        /\ \A m \in 1..(Len(s) + Len(t)) : (s \o t)[m] = IF m <= Len(s) THEN s[m] ELSE t[m - Len(s)]
    BY <2>1, ConcatProperties
  <2> QED BY <1>3, <2>2
<1>5. \A m \in 1..(a + n) : (s \o t)[m] = u[m]
  <2> SUFFICES ASSUME NEW m \in 1..(a + n) PROVE (s \o t)[m] = u[m]
    OBVIOUS
  <2>1. CASE m <= a
    <3>1. m \in 1..a
      BY <2>1
    <3> QED BY <1>2, <1>4, <2>1, <3>1
  <2>2. CASE ~(m <= a)
    <3>1. m - a \in 1..n /\ a + (m - a) = m
      BY <2>2
    <3> QED BY <1>2, <1>4, <2>2, <3>1
  <2> QED BY <2>1, <2>2
<1>6. s \o t = u
  BY <1>3, <1>4, <1>5, EqualSeqs
<1> QED BY <1>6 DEF s, t, u

\* What is selected of the log are lines, and so is what waits for the room.
LEMMA SaidType ==
  ASSUME SystemType, NEW c \in Members
  PROVE  /\ SaidBy(c) \in Seq(AnyLine) /\ ForTheRoom(up[c]) \in Seq(AnyLine)
         /\ since[c] # Away => since[c] \in 0..Len(log) /\ ForeignTo(c) \in Seq(AnyLine)
<1>1. log \in Seq(AnyLine) /\ SocketType /\ since[c] \in {Away} \cup (0..Len(log)) /\ Len(log) \in Nat
  BY LenProperties DEF SystemType, TypeOK, HistoryType
<1>2. SaidBy(c) \in Seq(AnyLine)
  <2> DEFINE S == [from : {c}, n : Nat]
  <2>1. Only(log, S) \in Seq(S \cap AnyLine)
    BY <1>1, OnlyType
  <2>2. Only(log, S) \in Seq(AnyLine)
    BY <2>1, SeqMonotonic
  <2> QED BY <2>2 DEF SaidBy
<1>3. ASSUME since[c] # Away
      PROVE  since[c] \in 0..Len(log) /\ ForeignTo(c) \in Seq(AnyLine)
  <2> DEFINE S == [from : Members \ {c}, n : Nat]
             b == SubSeq(log, since[c] + 1, Len(log))
  <2>1. since[c] \in 0..Len(log) /\ b \in Seq(AnyLine)
    BY <1>1, <1>3
  <2> HIDE DEF b, S
  <2>2. Only(b, S) \in Seq(S \cap AnyLine)
    BY <2>1, OnlyType
  <2>3. Only(b, S) \in Seq(AnyLine)
    BY <2>2, SeqMonotonic
  <2> QED BY <2>1, <2>3 DEF ForeignTo, b, S
<1>4. ForTheRoom(up[c]) \in Seq(AnyLine)
  BY <1>1, WaitingLines, LinesForTheRoom
<1> QED BY <1>1, <1>2, <1>3, <1>4

LEMMA ReadBrings ==
  ASSUME SystemType, ServerRead
  PROVE  /\ Head(ready) \in Members /\ Brought \in Seq(AnyLine)
         /\ Message(Brought) \in Seq(Entry) /\ LinesOf(Message(Brought)) = Brought
         /\ Message(Brought) = << >> <=> Brought = << >>
         /\ spc = "read" /\ message = << >> /\ j = 1 /\ k = 1
         /\ \A d \in Members :
              /\ SaidBy(d)' = IF d = Head(ready) THEN SaidBy(d) \o Brought ELSE SaidBy(d)
              /\ since[d] # Away =>
                   ForeignTo(d)' = IF d = Head(ready) THEN ForeignTo(d) ELSE ForeignTo(d) \o Brought
<1> DEFINE c == Head(ready)
           lines == Brought
           From(d) == [from : {d}, n : Nat]
           Others(d) == [from : Members \ {d}, n : Nat]
<1>1. spc = "read" /\ log' = log \o lines /\ UNCHANGED since
  BY ReadTakes DEF SystemType, TypeOK
<1>2. /\ ready \in Seq(Members) /\ ready # << >> /\ message = << >> /\ j = 1 /\ k = 1
      /\ SocketType /\ log \in Seq(AnyLine) /\ since \in [Members -> {Away} \cup (0..Len(log))]
  BY <1>1 DEF SystemType, TypeOK, ServerType, HistoryType, Writing
<1>3. c \in Members /\ Taken \in Seq([from : {c}, n : Nat])
  BY ReadTakes DEF SystemType, TypeOK
<1> HIDE DEF c
<1>5. /\ lines \in Seq([from : {c}, n : Nat \ {0}]) /\ lines \in Seq(AnyLine)
      /\ Message(lines) \in Seq(Entry) /\ Len(Message(lines)) = Len(lines)
      /\ Message(lines) = << >> <=> lines = << >>
  BY <1>3, LinesForTheRoom DEF Brought
<1> HIDE DEF lines
<1>6. LinesOf(Message(lines)) = lines
  BY <1>5, LinesOfMessage
<1>7. lines \in Seq(From(c))
  <2> DEFINE T == From(c)
  <2>1. [from : {c}, n : Nat \ {0}] \subseteq T
    OBVIOUS
  <2> HIDE DEF T
  <2>2. lines \in Seq(T)
    BY <1>5, <2>1, SeqMonotonic
  <2> QED BY <2>2 DEF T
<1>8. ASSUME NEW d \in Members
      PROVE  /\ Only(lines, From(d)) = IF d = c THEN lines ELSE << >>
             /\ Only(lines, Others(d)) = IF d = c THEN << >> ELSE lines
  <2>1. CASE d = c
    <3> DEFINE S == From(c)
               T == Others(c)
    <3>1. lines \in Seq(S) /\ T \cap S = {}
      BY <1>7
    <3> HIDE DEF S, T
    <3>2. Only(lines, S) = lines /\ Only(lines, T) = << >>
      BY <3>1, OnlyAll, OnlyNone
    <3> QED BY <2>1, <3>2 DEF S, T
  <2>2. CASE d # c
    <3> DEFINE F == From(c)
               S == From(d)
               T == Others(d)
    <3>1. lines \in Seq(F) /\ S \cap F = {} /\ F \subseteq T
      BY <1>3, <1>7, <2>2
    <3> HIDE DEF F, S, T
    <3>2. lines \in Seq(T)
      BY <3>1, SeqMonotonic
    <3>3. Only(lines, S) = << >> /\ Only(lines, T) = lines
      BY <3>1, <3>2, OnlyAll, OnlyNone
    <3> QED BY <2>2, <3>3 DEF S, T
  <2> QED BY <2>1, <2>2
<1>9. ASSUME NEW d \in Members
      PROVE  SaidBy(d)' = IF d = c THEN SaidBy(d) \o lines ELSE SaidBy(d)
  <2> DEFINE S == From(d)
  <2>1. Only(lines, S) = IF d = c THEN lines ELSE << >>
    BY <1>8
  <2> HIDE DEF S
  <2>2. Only(log', S) = Only(log, S) \o Only(lines, S)
    BY <1>1, <1>2, <1>5, OnlyOfConcat
  <2>3. Only(log, S) \o << >> = Only(log, S)
    <3>1. Only(log, S) \in Seq(S \cap AnyLine)
      BY <1>2, OnlyType
    <3> QED BY <3>1, ConcatEmptySeq
  <2>4. Only(log', S) = IF d = c THEN Only(log, S) \o lines ELSE Only(log, S)
    BY <2>1, <2>2, <2>3
  <2> QED BY <2>4 DEF SaidBy, S
<1>10. ASSUME NEW d \in Members, since[d] # Away
       PROVE  ForeignTo(d)' = IF d = c THEN ForeignTo(d) ELSE ForeignTo(d) \o lines
  <2> DEFINE S == Others(d)
             b == SubSeq(log, since[d] + 1, Len(log))
  <2>1. Only(lines, S) = IF d = c THEN << >> ELSE lines
    BY <1>8
  <2> HIDE DEF S
  <2>2. since[d] \in 0..Len(log) /\ b \in Seq(AnyLine)
    <3>1. since[d] \in 0..Len(log)
      BY <1>2, <1>10
    <3> QED BY <1>2, <3>1
  <2>3. SubSeq(log', since'[d] + 1, Len(log')) = b \o lines
    BY <1>1, <1>2, <1>5, <2>2, BackOfConcat
  <2> HIDE DEF b
  <2>4. Only(b \o lines, S) = Only(b, S) \o Only(lines, S)
    BY <1>5, <2>2, OnlyOfConcat
  <2>5. Only(b, S) \o << >> = Only(b, S)
    <3>1. Only(b, S) \in Seq(S \cap AnyLine)
      BY <2>2, OnlyType
    <3> QED BY <3>1, ConcatEmptySeq
  <2>6. Only(b \o lines, S) = IF d = c THEN Only(b, S) ELSE Only(b, S) \o lines
    BY <2>1, <2>4, <2>5
  <2> QED BY <2>3, <2>6 DEF ForeignTo, S, b
<1> QED BY <1>1, <1>2, <1>3, <1>5, <1>6, <1>9, <1>10 DEF lines, c

\* Line 0, the name, is not for the room; a line that was typed is.
LEMMA NameIsTaken ==
  ASSUME NEW c \in Members
  PROVE  ForTheRoom(<<Line(c, 0)>>) = << >> /\ ForTheRoom(<< >>) = << >>
<1> DEFINE T == {Line(c, 0)}
           s == <<Line(c, 0)>>
<1>1. s \in Seq(T) /\ Spoken \cap T = {}
  BY DEF Line, Spoken
<1> HIDE DEF s, T
<1>2. Only(s, Spoken) = << >>
  BY <1>1, OnlyNone
<1>3. Only(<< >>, Spoken) = << >>
  BY OnlyEmpty
<1> QED BY <1>2, <1>3 DEF ForTheRoom, Spoken, s

LEMMA LineForTheRoom ==
  ASSUME NEW s \in Seq(AnyLine), NEW e \in Spoken
  PROVE  ForTheRoom(Append(s, e)) = ForTheRoom(s) \o <<e>>
<1> DEFINE T == AnyLine
           S == Spoken
<1>1. e \in T
  BY DEF Spoken, AnyLine
<1> HIDE DEF S, T
<1>2. s \in Seq(T) /\ e \in S
  BY DEF S, T
<1>3. Append(s, e) = s \o <<e>> /\ <<e>> \in Seq(T) /\ <<e>> \in Seq(S)
  BY <1>1, <1>2, AppendTo
<1> DEFINE g == <<e>>
<1>4. g \in Seq(T) /\ g \in Seq(S)
  BY <1>3
<1> HIDE DEF g
<1>5. Only(s \o g, S) = Only(s, S) \o Only(g, S) /\ Only(g, S) = g
  BY <1>2, <1>4, OnlyOfConcat, OnlyAll
<1> QED BY <1>3, <1>5 DEF ForTheRoom, S, Spoken, g

LEMMA SayingInit == Init => Saying
<1> SUFFICES ASSUME Init, NEW c \in Members
             PROVE  (SaidBy(c) \o ForTheRoom(up[c])) \o out[c] = AllTyped(c)
  BY DEF Saying
<1> DEFINE e == << >>
<1>1. log = e /\ up[c] = e /\ out[c] = e /\ typed[c] = 0
  BY DEF Init
<1>2. AllTyped(c) = e
  BY <1>1 DEF AllTyped
<1>3. (e \o e) \o e = e
  OBVIOUS
<1> HIDE DEF e
<1>4. SaidBy(c) = e
  BY <1>1, OnlyEmpty DEF SaidBy, e
<1>5. ForTheRoom(up[c]) = e
  BY <1>1, NameIsTaken DEF e
<1> QED BY <1>1, <1>2, <1>3, <1>4, <1>5

LEMMA SayingByClients ==
  ASSUME SystemType, Places, Saying, NEW c \in Members, Client(c)
  PROVE  Saying'
<1>1. /\ typed \in [Members -> Nat] /\ out \in [Members -> Seq(AnyLine)]
      /\ up \in [Members -> Seq(AnyLine)] /\ log' = log
      /\ out[c] \in Seq([from : {c}, n : 1..Lines[c]])
      /\ cpc[c] = "write" <=> out[c] # << >>
  BY DEF SystemType, TypeOK, ClientType, SocketType, Client, Run, Poll, WriteLine, Read, history
<1>2. \A d \in Members : SaidBy(d)' = SaidBy(d)
  BY <1>1 DEF SaidBy
<1> DEFINE S == SaidBy(c)
           F == ForTheRoom(up[c])
           O == out[c]
<1>3. S \in Seq(AnyLine) /\ F \in Seq(AnyLine) /\ O \in Seq(AnyLine) /\ typed[c] \in Nat
  BY <1>1, SaidType
<1>4. S \o F \in Seq(AnyLine)
  BY <1>3, ConcatProperties
<1>5. (S \o F) \o O = AllTyped(c)
  BY DEF Saying
<1> SUFFICES (S \o ForTheRoom(up'[c])) \o out'[c] = AllTyped(c)'
  <2>1. \A d \in Members \ {c} : up'[d] = up[d] /\ out'[d] = out[d] /\ typed'[d] = typed[d]
    BY <1>1 DEF Client, Run, Poll, WriteLine, Read
  <2>2. \A d \in Members \ {c} : AllTyped(d)' = AllTyped(d)
    BY <2>1 DEF AllTyped
  <2> HIDE DEF S
  <2>3. ASSUME NEW d \in Members, d # c
        PROVE  (SaidBy(d)' \o ForTheRoom(up'[d])) \o out'[d] = AllTyped(d)'
    BY <1>2, <2>1, <2>2, <2>3 DEF Saying
  <2>4. SaidBy(c)' = S
    BY <1>2 DEF S
  <2> QED BY <2>3, <2>4 DEF Saying, ForTheRoom
<1> HIDE DEF S, F, O
<1>6. CASE Run(c)
  <2>1. /\ cpc[c] = "run" /\ up' = [up EXCEPT ![c] = <<Line(c, 0)>>]
        /\ UNCHANGED <<out, typed>>
    BY <1>6 DEF Run
  <2>2. up[c] = << >>
    BY <2>1 DEF Places
  <2>3. F = << >>
    BY <2>2, NameIsTaken DEF F
  <2>4. ForTheRoom(up'[c]) = << >>
    <3>1. up'[c] = <<Line(c, 0)>>
      BY <1>1, <2>1
    <3> QED BY <3>1, NameIsTaken
  <2>5. AllTyped(c)' = AllTyped(c) /\ out'[c] = O
    BY <2>1 DEF AllTyped, O
  <2> QED BY <1>5, <2>3, <2>4, <2>5
<1>7. CASE Poll(c)
  <2>1. PICK n \in 0..(Lines[c] - typed[c]) :
          /\ out' = [out EXCEPT ![c] = [m \in 1..n |-> Line(c, typed[c] + m)]]
          /\ typed' = [typed EXCEPT ![c] = typed[c] + n]
    BY <1>7 DEF Poll
  <2>2. O = << >> /\ up' = up /\ n \in Nat
    BY <1>1, <1>7, SystemAssumption DEF Poll, O
  <2>3. S \o F = AllTyped(c)
    BY <1>4, <1>5, <2>2, ConcatEmptySeq
  <2>4. out'[c] = [m \in 1..n |-> Line(c, typed[c] + m)] /\ typed'[c] = typed[c] + n
    BY <1>1, <2>1
  <2>5. AllTyped(c) \o [m \in 1..n |-> Line(c, typed[c] + m)] = AllTyped(c)'
    <3> DEFINE a == typed[c]
    <3>1. a \in Nat /\ n \in Nat
      BY <1>3, <2>2
    <3>2. /\ AllTyped(c) = [m \in 1..a |-> Line(c, m)]
          /\ AllTyped(c)' = [m \in 1..(a + n) |-> Line(c, m)]
      BY <2>4 DEF AllTyped
    <3> HIDE DEF a
    <3>3. [m \in 1..a |-> Line(c, m)] \o [m \in 1..n |-> Line(c, a + m)]
            = [m \in 1..(a + n) |-> Line(c, m)]
      BY <3>1, TypedOn, ZenonT(30)
    <3> QED BY <3>2, <3>3 DEF a
  <2>6. ForTheRoom(up'[c]) = F
    BY <2>2 DEF F
  <2> QED BY <2>3, <2>4, <2>5, <2>6
<1>8. CASE WriteLine(c)
  <2> DEFINE h == Head(out[c])
             t == Tail(out[c])
  <2>1. /\ cpc[c] = "write" /\ UNCHANGED typed
        /\ up' = [up EXCEPT ![c] = Append(up[c], h)] /\ out' = [out EXCEPT ![c] = t]
    BY <1>8 DEF WriteLine
  <2>2. O # << >>
    BY <1>1, <2>1 DEF O
  <2>3. h \in AnyLine /\ t \in Seq(AnyLine) /\ O = <<h>> \o t
    BY <1>3, <2>2, HeadAndTail DEF O
  <2>4. h \in Spoken
    <3>1. h \in [from : {c}, n : 1..Lines[c]]
      BY <1>1, <2>2, HeadAndTail DEF O
    <3>2. 1..Lines[c] \subseteq Nat \ {0}
      BY SystemAssumption
    <3> QED BY <3>1, <3>2 DEF Spoken
  <2>5. up'[c] = Append(up[c], h) /\ out'[c] = t
    BY <1>1, <2>1
  <2> HIDE DEF h, t
  <2>6. ForTheRoom(up'[c]) = F \o <<h>>
    <3>1. up[c] \in Seq(AnyLine)
      BY <1>1
    <3>2. ForTheRoom(Append(up[c], h)) = ForTheRoom(up[c]) \o <<h>>
      BY <2>4, <3>1, LineForTheRoom
    <3> QED BY <2>5, <3>2 DEF F
  <2>7. (S \o (F \o <<h>>)) \o t = (S \o F) \o (<<h>> \o t)
    <3> DEFINE g == <<h>>
    <3>1. g \in Seq(AnyLine)
      BY <2>3
    <3> HIDE DEF g
    <3>2. F \o g \in Seq(AnyLine)
      BY <1>3, <3>1, ConcatProperties
    <3>3. S \o (F \o g) = (S \o F) \o g
      <4>1. S \in Seq(AnyLine) /\ F \in Seq(AnyLine)
        BY <1>3
      <4> QED BY <3>1, <4>1, ConcatAssociative, SMTT(30)
    <3>4. ((S \o F) \o g) \o t = (S \o F) \o (g \o t)
      <4> DEFINE x == S \o F
      <4>1. x \in Seq(AnyLine) /\ g \in Seq(AnyLine) /\ t \in Seq(AnyLine)
        BY <1>4, <2>3, <3>1
      <4> HIDE DEF x
      <4>2. (x \o g) \o t = x \o (g \o t)
        BY <4>1, ConcatAssociative, SMTT(30)
      <4> QED BY <4>2 DEF x
    <3> QED BY <3>3, <3>4 DEF g
  <2>8. AllTyped(c)' = AllTyped(c)
    BY <2>1 DEF AllTyped
  <2> QED BY <1>5, <2>3, <2>5, <2>6, <2>7, <2>8
<1>9. CASE Read(c)
  <2>1. UNCHANGED <<up, out, typed>>
    BY <1>9 DEF Read
  <2>2. ForTheRoom(up'[c]) = F /\ out'[c] = O /\ AllTyped(c)' = AllTyped(c)
    BY <2>1 DEF F, O, AllTyped
  <2> QED BY <1>5, <2>2
<1> QED BY <1>6, <1>7, <1>8, <1>9 DEF Client

LEMMA SayingByServer ==
  ASSUME SystemType, Saying, Server
  PROVE  Saying'
<1>1. UNCHANGED <<out, typed>>
  BY DEF Server, ServerPoll, ServerRead, ServerWrite, SkipSender, ServerWriteEnd, client
<1>2. \A d \in Members : AllTyped(d)' = AllTyped(d)
  BY <1>1 DEF AllTyped
<1>3. CASE ServerRead
  <2> DEFINE c == Head(ready)
             F == ForTheRoom(Left)
             B == Brought
  <2>1. up' = [up EXCEPT ![c] = Left] /\ up \in [Members -> Seq(AnyLine)]
    BY <1>3, ReadTakes DEF SystemType, TypeOK, SocketType
  <2> SUFFICES ASSUME NEW d \in Members
               PROVE  (SaidBy(d)' \o ForTheRoom(up'[d])) \o out[d] = AllTyped(d)
    BY <1>1, <1>2 DEF Saying, ForTheRoom
  <2>2. SaidBy(d)' = IF d = c THEN SaidBy(d) \o B ELSE SaidBy(d)
    BY <1>3, ReadBrings
  <2>3. (SaidBy(d) \o ForTheRoom(up[d])) \o out[d] = AllTyped(d)
    BY DEF Saying
  <2>4. c \in Members /\ ForTheRoom(up[c]) = B \o F
        /\ B \in Seq(AnyLine) /\ F \in Seq(AnyLine)
    <3> DEFINE T == [from : {c}, n : Nat]
    <3>1. c \in Members /\ Taken \in Seq(T) /\ Left \in Seq(T) /\ Taken \o Left = up[c]
      BY <1>3, ReadTakes DEF SystemType, TypeOK
    <3>2. B \in Seq(AnyLine) /\ F \in Seq(AnyLine)
      BY <3>1, LinesForTheRoom DEF Brought
    <3> HIDE DEF T, c
    <3>3. ForTheRoom(Taken \o Left) = ForTheRoom(Taken) \o ForTheRoom(Left)
      BY <3>1, ForTheRoomOfConcat
    <3> QED BY <3>1, <3>2, <3>3 DEF Brought
  <2>5. CASE d = c
    <3> DEFINE S == SaidBy(d)
    <3>1. up'[d] = Left /\ ForTheRoom(up[d]) = B \o F
      BY <2>1, <2>4, <2>5
    <3>2. S \in Seq(AnyLine)
      BY SaidType
    <3> HIDE DEF S, B, F
    <3>3. (S \o B) \o F = S \o (B \o F)
      BY <2>4, <3>2, ConcatAssociative
    <3>4. ForTheRoom(up'[d]) = F /\ SaidBy(d)' = S \o B
      BY <2>2, <2>5, <3>1 DEF F, S
    <3> QED BY <2>3, <3>1, <3>3, <3>4 DEF S
  <2> HIDE DEF c
  <2>6. CASE d # c
    BY <2>1, <2>2, <2>3, <2>6
  <2> QED BY <2>5, <2>6
<1>4. CASE ServerPoll \/ ServerWrite \/ SkipSender \/ ServerWriteEnd
  <2>1. UNCHANGED <<up, log>>
    BY <1>4 DEF ServerPoll, ServerWrite, SkipSender, ServerWriteEnd, history
  <2> QED BY <1>1, <1>2, <2>1 DEF Saying, SaidBy, ForTheRoom
<1> QED BY <1>3, <1>4 DEF Server

-----------------------------------------------------------------------------
(* What the others have said is got, or still due.                         *)

\* The places of different members.
LEMMA PlaceOf ==
  ASSUME SystemType, Places, NEW m \in 1..Len(clients)
  PROVE  /\ clients[m] \in Members /\ since[clients[m]] # Away
         /\ since[clients[m]] \in 0..Len(log)
         /\ Got(clients[m]) \in Seq(Entry) /\ Due(m) \in Seq(Entry) /\ Meant(m) \in Seq(Entry)
         /\ FirstDue(m) \in 1..(Len(message) + 1)
<1>1. clients \in Seq(Came)
  BY DEF Places
<1>2. clients[m] \in Came
  BY <1>1, ElementOfSeq
<1>3. clients[m] \in Members /\ since[clients[m]] # Away
  BY <1>2 DEF Came
<1> DEFINE c == clients[m]
<1>4. screen[c] \in Seq(Entry) /\ down[c] \in Seq(Entry) /\ since[c] \in 0..Len(log)
  BY <1>3 DEF SystemType, TypeOK, ClientType, SocketType, HistoryType
<1>5. Got(c) \in Seq(Entry)
  BY <1>4, ConcatProperties DEF Got
<1>6. /\ message \in Seq(Entry) /\ Len(message) \in Nat
      /\ spc = "write" => j \in 1..Len(message) /\ Len(message) \in Nat \ {0}
  BY LenProperties, EmptySeq DEF SystemType, TypeOK, ServerType, Writing
<1>7. FirstDue(m) \in 1..(Len(message) + 1)
  BY <1>6 DEF FirstDue
<1> DEFINE f == FirstDue(m)
<1>8. Due(m) \in Seq(Entry)
  <2>1. f \in 1..(Len(message) + 1)
    BY <1>7
  <2> HIDE DEF f
  <2>2. SubSeq(message, f, Len(message)) \in Seq(Entry)
    BY <1>6, <2>1
  <2> QED BY <2>2 DEF Due, f
<1>9. Meant(m) \in Seq(Entry)
  <2> DEFINE d == Due(m)
             g == Got(c)
  <2>1. d \in Seq(Entry) /\ g \in Seq(Entry)
    BY <1>5, <1>8
  <2> HIDE DEF d, g
  <2>2. g \o d \in Seq(Entry)
    BY <2>1, ConcatProperties
  <2> QED BY <2>2 DEF Meant, g, d
<1> QED BY <1>3, <1>4, <1>5, <1>7, <1>8, <1>9

\* Nothing is due while the server does not write.
LEMMA NothingDue ==
  ASSUME spc # "write", message = << >>, NEW m
  PROVE  Due(m) = << >>
<1>1. FirstDue(m) = Len(message) + 1 /\ Len(message) = 0
  BY DEF FirstDue
<1>2. SubSeq(message, 1, 0) = << >>
  BY SubSeqEmpty
<1> QED BY <1>1, <1>2 DEF Due

LEMMA DeliveredInit == Init => Delivered
<1> SUFFICES ASSUME Init PROVE Len(clients) = 0
  BY DEF Delivered
<1> QED BY DEF Init

LEMMA DeliveredByClients ==
  ASSUME SystemType, Places, Delivered, NEW c \in Members, Client(c)
  PROVE  Delivered'
<1>1. UNCHANGED <<server, history>>
  BY DEF Client, Run, Poll, WriteLine, Read
<1>2. clients' = clients
  BY <1>1 DEF server
<1> SUFFICES ASSUME NEW m \in 1..Len(clients)
             PROVE  LinesOf(Meant(m)') = ForeignTo(clients[m])'
  BY <1>2 DEF Delivered, LinesOf
<1>3. PICK d \in Members : d = clients[m]
  BY PlaceOf
<1>4. Got(d)' = Got(d)
  BY GotByClients
<1>5. clients'[m] = d
  BY <1>2, <1>3
<1>6. Got(clients[m])' = Got(d)
  BY <1>4, <1>5 DEF Got
<1>7. Due(m)' = Due(m)
  BY <1>1 DEF Due, FirstDue, WritesTo, server
<1>8. Meant(m)' = Meant(m)
  BY <1>3, <1>6, <1>7 DEF Meant
<1>9. ForeignTo(clients[m])' = ForeignTo(clients[m])
  BY <1>1 DEF ForeignTo, server, history
<1> QED BY <1>8, <1>9 DEF Delivered

\* A write takes an entry from what is due to what is got.
LEMMA MeantByWrite ==
  ASSUME SystemType, Places, ServerWrite, NEW m \in 1..Len(clients)
  PROVE  Meant(m)' = Meant(m)
<1>1. /\ spc = "write" /\ k <= Len(clients) /\ WritesTo(clients[k])
      /\ IF j < Len(message) THEN j' = j + 1 /\ UNCHANGED k ELSE j' = 1 /\ k' = k + 1
      /\ UNCHANGED <<spc, clients, ready, message>>
  BY DEF ServerWrite
<1>2. /\ clients[k] \in Members /\ message[j] \in Entry /\ j \in 1..Len(message)
      /\ \A d \in Members :
           Got(d)' = IF d = clients[k] THEN Append(Got(d), message[j]) ELSE Got(d)
  BY GotByWrite
<1>3. /\ k \in 1..Len(clients) /\ Len(message) \in Nat /\ Len(clients) \in Nat /\ k \in Nat
      /\ message \in Seq(Entry) /\ m \in Nat /\ j \in Nat
  BY <1>1, LenProperties DEF SystemType, TypeOK, ServerType
<1>4. \A n \in 1..Len(clients) : WritesTo(clients[n])' <=> WritesTo(clients[n])
  BY <1>1 DEF WritesTo
<1>5. PICK d \in Members : d = clients[m]
  BY PlaceOf
<1>6. clients[m]' = d
  BY <1>1, <1>5
<1>7. Meant(m)' = Got(d)' \o Due(m)'
  <2>1. Got(clients[m])' = Got(d)'
    BY <1>6 DEF Got
  <2> QED BY <2>1 DEF Meant
<1>8. CASE m = k
  <2> DEFINE e == message[j]
             g == Got(d)
             r == SubSeq(message, j + 1, Len(message))
  <2>1. FirstDue(m) = j /\ FirstDue(m)' = j + 1
    <3>1. ~(k < k)
      BY <1>3
    <3>2. FirstDue(m) = j
      BY <1>1, <1>8, <3>1 DEF FirstDue
    <3>3. CASE j < Len(message)
      BY <1>1, <1>3, <1>4, <1>8, <3>3 DEF FirstDue
    <3>4. CASE ~(j < Len(message))
      <4>1. k' = k + 1 /\ j = Len(message) /\ k < k + 1 /\ Len(message') = Len(message)
        BY <1>1, <1>2, <1>3, <3>4
      <4>2. FirstDue(m)' = Len(message) + 1
        BY <1>8, <4>1 DEF FirstDue
      <4> QED BY <3>2, <4>1, <4>2
    <3> QED BY <3>2, <3>3, <3>4
  <2>2. Due(m) = <<e>> \o r
    BY <1>2, <1>3, <2>1, BackFromHere DEF Due
  <2>3. Due(m)' = r
    BY <1>1, <2>1 DEF Due
  <2>4. Got(d)' = Append(g, e) /\ e \in Entry /\ g \in Seq(Entry)
    <3>1. d = clients[k]
      BY <1>5, <1>8
    <3>2. g \in Seq(Entry)
      BY <1>5, PlaceOf
    <3> QED BY <1>2, <3>1, <3>2
  <2>5. r \in Seq(Entry)
    <3>1. j + 1 \in 1..(Len(message) + 1)
      BY <1>2, <1>3
    <3> QED BY <1>3, <3>1
  <2> HIDE DEF e, g, r
  <2>6. Append(g, e) \o r = g \o (<<e>> \o r)
    <3> DEFINE x == <<e>>
    <3>1. Append(g, e) = g \o x /\ x \in Seq(Entry)
      BY <2>4, AppendTo
    <3> HIDE DEF x
    <3>2. (g \o x) \o r = g \o (x \o r)
      BY <2>4, <2>5, <3>1, ConcatAssociative
    <3> QED BY <3>1, <3>2 DEF x
  <2>7. Meant(m) = g \o (<<e>> \o r)
    BY <1>5, <2>2 DEF Meant, g
  <2> QED BY <1>7, <2>3, <2>4, <2>6, <2>7
<1>9. CASE m # k
  <2>1. d # clients[k]
    BY <1>3, <1>5, <1>9 DEF Places, Distinct
  <2>2. Got(d)' = Got(d)
    BY <1>2, <2>1
  <2>3. FirstDue(m)' = FirstDue(m)
    <3>1. WritesTo(clients[m])' <=> WritesTo(clients[m])
      BY <1>4
    <3>2. m < k' <=> m < k
      BY <1>1, <1>3, <1>9
    <3>3. m = k' => j' = 1
      BY <1>1, <1>9
    <3>4. (IF m = k' THEN j' ELSE 1) = 1 /\ (IF m = k THEN j ELSE 1) = 1
      BY <1>9, <3>3
    <3> QED BY <1>1, <3>1, <3>2, <3>4 DEF FirstDue
  <2>4. Due(m)' = Due(m)
    BY <1>1, <2>3 DEF Due
  <2> QED BY <1>5, <1>7, <2>2, <2>4 DEF Meant
<1> QED BY <1>8, <1>9

\* The sender, and the end of a message, leave nothing due that was not.
LEMMA MeantBySkip ==
  ASSUME SystemType, Places, SkipSender \/ ServerWriteEnd, NEW m \in 1..Len(clients)
  PROVE  Meant(m)' = Meant(m)
<1>1. /\ spc = "write" /\ UNCHANGED <<client, down, clients, j>>
      /\ message # << >> /\ j \in 1..Len(message) /\ (j > 1 => k <= Len(clients) /\ WritesTo(clients[k]))
  BY DEF SkipSender, ServerWriteEnd, SystemType, Writing
<1>2. /\ Len(message) \in Nat /\ Len(clients) \in Nat /\ k \in Nat /\ message \in Seq(Entry)
      /\ m \in Nat /\ j \in Nat /\ m <= Len(clients)
  BY LenProperties DEF SystemType, TypeOK, ServerType
<1>3. Got(clients[m])' = Got(clients[m])
  BY <1>1 DEF Got, client
<1>4. Due(m)' = Due(m)
  <2>1. CASE SkipSender
    <3>1. /\ k <= Len(clients) /\ ~WritesTo(clients[k]) /\ k' = k + 1
          /\ UNCHANGED <<spc, ready, message>>
      BY <2>1 DEF SkipSender
    <3>2. j = 1
      BY <1>1, <1>2, <3>1
    <3>3. WritesTo(clients[m])' <=> WritesTo(clients[m])
      BY <1>1, <3>1 DEF WritesTo
    <3>4. CASE m = k
      <4>1. m < k' /\ ~WritesTo(clients[m]) /\ Len(message') = Len(message)
        BY <1>2, <3>1, <3>4
      <4>2. FirstDue(m)' = Len(message) + 1 /\ FirstDue(m) = Len(message) + 1
        BY <4>1 DEF FirstDue
      <4> QED BY <3>1, <4>2 DEF Due
    <3>5. CASE m # k
      <4>1. m < k' <=> m < k
        BY <1>2, <3>1, <3>5
      <4>2. (IF m = k' THEN j' ELSE 1) = 1 /\ (IF m = k THEN j ELSE 1) = 1
        BY <1>1, <3>2, <3>5
      <4>3. FirstDue(m)' = FirstDue(m)
        BY <3>1, <3>3, <4>1, <4>2 DEF FirstDue
      <4> QED BY <3>1, <4>3 DEF Due
    <3> QED BY <3>4, <3>5
  <2>2. CASE ServerWriteEnd
    <3>1. k > Len(clients) /\ message' = << >> /\ spc' # "write"
      BY <2>2 DEF ServerWriteEnd, Served
    <3>2. m < k
      BY <1>2, <3>1
    <3>3. Due(m) = << >>
      <4>1. FirstDue(m) = Len(message) + 1
        BY <3>2 DEF FirstDue
      <4> QED BY <1>2, <4>1, NothingBehind DEF Due
    <3>4. Due(m)' = << >>
      <4>1. FirstDue(m)' = Len(message') + 1 /\ Len(message') = 0
        BY <3>1 DEF FirstDue
      <4>2. SubSeq(message', 1, 0) = << >>
        BY SubSeqEmpty
      <4>3. Due(m)' = SubSeq(message', FirstDue(m)', Len(message'))
        BY DEF Due
      <4> QED BY <4>1, <4>2, <4>3
    <3> QED BY <3>3, <3>4
  <2> QED BY <2>1, <2>2
<1> QED BY <1>3, <1>4 DEF Meant

\* A read brings lines that are due to everybody but their member.
LEMMA MeantByRead ==
  ASSUME SystemType, Places, ServerRead, NEW m \in 1..Len(clients)
  PROVE  Meant(m)' = IF clients[m] = Head(ready) THEN Meant(m)
                     ELSE Meant(m) \o Message(Brought)
<1> DEFINE c == Head(ready)
           M == Message(Brought)
           g == Got(clients[m])
<1>1. /\ spc = "read" /\ message = << >> /\ j = 1 /\ k = 1
      /\ M \in Seq(Entry) /\ (M = << >> <=> Brought = << >>)
  BY ReadBrings
<1>2. /\ message' = M /\ UNCHANGED <<client, down, clients, j, k>>
      /\ IF Brought = << >> THEN Served ELSE spc' = "write" /\ UNCHANGED ready
  BY ReadTakes DEF SystemType, TypeOK
<1>3. g \in Seq(Entry) /\ m \in Nat /\ m >= 1
  BY PlaceOf
<1>4. Got(clients[m])' = g
  BY <1>2 DEF Got, client
<1>5. Due(m) = << >>
  BY <1>1, NothingDue
<1> HIDE DEF M, g, c
<1>6. Meant(m) = g /\ g \o << >> = g
  BY <1>3, <1>5, ConcatEmptySeq DEF Meant, g
<1>7. Meant(m)' = g \o Due(m)'
  BY <1>4 DEF Meant
<1>8. CASE Brought = << >>
  <2>1. spc' # "write" /\ M = << >> /\ message' = << >>
    BY <1>1, <1>2, <1>8 DEF Served
  <2>2. FirstDue(m)' = Len(message') + 1 /\ Len(message') = 0
    BY <2>1 DEF FirstDue
  <2>3. SubSeq(message', 1, 0) = << >> /\ Due(m)' = SubSeq(message', FirstDue(m)', Len(message'))
    BY SubSeqEmpty DEF Due
  <2>4. Due(m)' = << >>
    BY <2>2, <2>3
  <2> QED BY <1>6, <1>7, <2>1, <2>4 DEF M
<1>9. CASE Brought # << >>
  <2>1. spc' = "write" /\ ready' = ready /\ k' = 1 /\ j' = 1 /\ ~(m < k')
    BY <1>1, <1>2, <1>3, <1>9
  <2>2. WritesTo(clients[m])' <=> clients[m] # c
    BY <1>2, <2>1 DEF WritesTo, c
  <2>3. Due(m)' = SubSeq(message', FirstDue(m)', Len(message'))
    BY DEF Due
  <2>4. CASE clients[m] = c
    <3>1. FirstDue(m)' = Len(message') + 1
      BY <2>2, <2>4 DEF FirstDue
    <3>2. Due(m)' = << >>
      BY <1>1, <1>2, <2>3, <3>1, NothingBehind
    <3> QED BY <1>6, <1>7, <2>4, <3>2 DEF c
  <2>5. CASE clients[m] # c
    <3>1. FirstDue(m)' = 1
      BY <2>1, <2>2, <2>5 DEF FirstDue
    <3>2. Due(m)' = M
      BY <1>1, <1>2, <2>3, <3>1, SubSeqFull
    <3> QED BY <1>6, <1>7, <2>5, <3>2 DEF c, M
  <2> QED BY <2>4, <2>5
<1> QED BY <1>8, <1>9

LEMMA DeliveredByServer ==
  ASSUME SystemType, Places, Delivered, Server
  PROVE  Delivered'
<1>1. CASE ServerWrite \/ SkipSender \/ ServerWriteEnd
  <2>1. UNCHANGED <<clients, log, since>>
    BY <1>1 DEF ServerWrite, SkipSender, ServerWriteEnd, history
  <2> SUFFICES ASSUME NEW m \in 1..Len(clients)
               PROVE  LinesOf(Meant(m)') = ForeignTo(clients[m])'
    BY <2>1 DEF Delivered, LinesOf
  <2>2. Meant(m)' = Meant(m)
    BY <1>1, MeantByWrite, MeantBySkip
  <2>3. ForeignTo(clients[m])' = ForeignTo(clients[m])
    BY <2>1 DEF ForeignTo
  <2> QED BY <2>2, <2>3 DEF Delivered
<1>2. CASE ServerRead
  <2>1. UNCHANGED clients
    BY <1>2 DEF ServerRead
  <2> SUFFICES ASSUME NEW m \in 1..Len(clients)
               PROVE  LinesOf(Meant(m)') = ForeignTo(clients[m])'
    BY <2>1 DEF Delivered, LinesOf
  <2>2. PICK d \in Members : d = clients[m]
    BY PlaceOf
  <2>3. since[d] # Away /\ Meant(m) \in Seq(Entry)
    BY <2>2, PlaceOf
  <2>4. ForeignTo(clients[m])' = ForeignTo(d)'
    BY <2>1, <2>2 DEF ForeignTo
  <2>5. ForeignTo(d)' = IF d = Head(ready) THEN ForeignTo(d) ELSE ForeignTo(d) \o Brought
    BY <1>2, <2>3, ReadBrings
  <2>6. Meant(m)' = IF d = Head(ready) THEN Meant(m) ELSE Meant(m) \o Message(Brought)
    BY <1>2, <2>2, MeantByRead
  <2>7. LinesOf(Meant(m)) = ForeignTo(d)
    BY <2>2 DEF Delivered
  <2>8. LinesOf(Meant(m) \o Message(Brought)) = ForeignTo(d) \o Brought
    <3> DEFINE x == Meant(m)
               y == Message(Brought)
    <3>1. x \in Seq(Entry) /\ y \in Seq(Entry) /\ LinesOf(y) = Brought
      BY <1>2, <2>3, ReadBrings
    <3>2. LinesOf(x) = ForeignTo(d)
      BY <2>7
    <3> HIDE DEF x, y
    <3>3. LinesOf(x \o y) = LinesOf(x) \o LinesOf(y)
      BY <3>1, LinesOfConcat
    <3> QED BY <3>1, <3>2, <3>3 DEF x, y
  <2> QED BY <2>4, <2>5, <2>6, <2>7, <2>8
<1>3. CASE ServerPoll
  <2>1. /\ spc = "poll" /\ message = << >> /\ message' = << >> /\ spc' # "write"
        /\ UNCHANGED <<screen, down, log>> /\ clients \in Seq(Came) /\ log \in Seq(AnyLine)
        /\ since \in [Members -> {Away} \cup (0..Len(log))]
    BY <1>3 DEF ServerPoll, client, SystemType, Writing, Places, TypeOK, HistoryType
  <2>2. ASSUME NEW m
        PROVE  Due(m) = << >> /\ Due(m)' = << >>
    <3>1. Due(m) = << >>
      BY <2>1, NothingDue
    <3>2. FirstDue(m)' = Len(message') + 1 /\ Len(message') = 0
      BY <2>1 DEF FirstDue
    <3>3. SubSeq(message', 1, 0) = << >> /\ Due(m)' = SubSeq(message', FirstDue(m)', Len(message'))
      BY SubSeqEmpty DEF Due
    <3> QED BY <3>1, <3>2, <3>3
  <2>3. ASSUME NEW m \in 1..Len(clients), clients'[m] = clients[m],
               since'[clients[m]] = since[clients[m]]
        PROVE  LinesOf(Meant(m))' = ForeignTo(clients[m])'
    <3>1. Meant(m)' = Meant(m)
      BY <2>1, <2>2, <2>3 DEF Meant, Got
    <3>2. ForeignTo(clients[m])' = ForeignTo(clients[m])
      BY <2>1, <2>3 DEF ForeignTo
    <3> QED BY <3>1, <3>2 DEF Delivered, LinesOf
  <2>4. CASE UNCHANGED <<clients, backlog, since>>
    BY <2>3, <2>4 DEF Delivered
  <2>5. CASE backlog # << >>
    <3> DEFINE h == Head(backlog)
               last == Len(clients) + 1
    <3>1. backlog \in Seq(Waiting)
      BY DEF Places
    <3>2. h \in Members /\ since[h] = Away
      BY <2>5, <3>1, HeadAndTail DEF Waiting
    <3>3. /\ clients' = Append(clients, h) /\ since' = [since EXCEPT ![h] = Len(log)]
      BY <1>3, <2>5 DEF ServerPoll
    <3>4. /\ Len(clients) \in Nat /\ Len(clients') = last /\ clients'[last] = h
          /\ \A m \in 1..Len(clients) : clients'[m] = clients[m] /\ clients[m] \in Came
      <4> DEFINE T == Came \cup {h}
      <4>1. clients \in Seq(T) /\ h \in T
        BY <2>1, SeqMonotonic
      <4> HIDE DEF T, h
      <4>2. \A m \in 1..Len(clients) : clients[m] \in Came
        BY <2>1, ElementOfSeq
      <4> QED BY <3>3, <4>1, <4>2, AppendProperties, LenProperties
    <3> HIDE DEF h
    <3>5. ASSUME NEW m \in 1..Len(clients)
          PROVE  LinesOf(Meant(m))' = ForeignTo(clients[m])'
      <4>1. clients[m] # h /\ clients[m] \in Members
        BY <3>2, <3>4 DEF Came
      <4>2. since'[clients[m]] = since[clients[m]]
        BY <2>1, <3>3, <4>1
      <4> QED BY <2>3, <3>4, <4>2
    <3>6. ASSUME NEW m, m = last
          PROVE  LinesOf(Meant(m))' = ForeignTo(clients[m])'
      <4>1. PICK d \in Members : d = h
        BY <3>2
      <4>2. clients'[m] = d
        BY <3>4, <3>6, <4>1
      <4>3. screen[d] = << >> /\ down[d] = << >>
        BY <3>2, <4>1 DEF Places
      <4>4. Meant(m)' = << >>
        <5> DEFINE e == << >>
        <5>1. screen'[d] = e /\ down'[d] = e /\ Due(m)' = e /\ (e \o e) \o e = e
          BY <2>1, <2>2, <4>3
        <5> HIDE DEF e
        <5>2. Meant(m)' = e
          BY <4>2, <5>1 DEF Meant, Got
        <5> QED BY <5>2 DEF e
      <4>5. ForeignTo(clients[m])' = << >>
        <5>1. since'[d] = Len(log)
          BY <2>1, <3>3, <4>1
        <5>2. SubSeq(log', since'[d] + 1, Len(log')) = << >>
          BY <2>1, <5>1, NothingBehind
        <5> DEFINE S == [from : Members \ {d}, n : Nat]
        <5>3. Only(<< >>, S) = << >>
          BY OnlyEmpty
        <5>4. ForeignTo(clients[m])' = Only(SubSeq(log', since'[d] + 1, Len(log')), S)
          BY <4>2 DEF ForeignTo
        <5> QED BY <5>2, <5>3, <5>4
      <4>6. LinesOf(Meant(m))' = LinesOf(<< >>)
        BY <4>4 DEF LinesOf
      <4> QED BY <4>5, <4>6, NoLines
    <3>7. \A m \in 1..Len(clients') : m \in 1..Len(clients) \/ m = last
      BY <3>4
    <3> HIDE DEF last
    <3> QED BY <3>5, <3>6, <3>7 DEF Delivered
  <2> QED BY <1>3, <2>4, <2>5 DEF ServerPoll
<1> QED BY <1>1, <1>2, <1>3 DEF Server

LEMMA SystemInvInit == Init => SystemInv
  BY TypeInit, PlacesInit, SayingInit, DeliveredInit DEF SystemInv

LEMMA SystemInvKept == SystemInv /\ [Next]_vars => SystemInv'
<1> SUFFICES ASSUME SystemType, Places, Saying, Delivered, [Next]_vars PROVE SystemInv'
  BY DEF SystemInv
<1>1. SystemType'
  BY TypeStep
<1>2. CASE UNCHANGED vars
  <2>1. Places'
    BY <1>2 DEF Places, Distinct, Waiting, Came, vars, client, server, history
  <2>2. Saying'
    BY <1>2 DEF Saying, SaidBy, ForTheRoom, AllTyped, vars, client, history
  <2>3. UNCHANGED <<screen, down, clients, message, spc, k, j, ready, log, since>>
    BY <1>2 DEF vars, client, server, history
  <2>4. \A m : Meant(m)' = Meant(m) /\ ForeignTo(clients[m])' = ForeignTo(clients[m])
    BY <2>3 DEF Meant, Got, Due, FirstDue, WritesTo, ForeignTo
  <2>5. Delivered'
    BY <2>3, <2>4 DEF Delivered, LinesOf
  <2> QED BY <1>1, <2>1, <2>2, <2>5 DEF SystemInv
<1>3. CASE \E c \in Members : Client(c)
  BY <1>1, <1>3, PlacesByClients, SayingByClients, DeliveredByClients DEF SystemInv
<1>4. CASE Server
  BY <1>1, <1>4, PlacesByServer, SayingByServer, DeliveredByServer DEF SystemInv
<1> QED BY <1>2, <1>3, <1>4 DEF Next

-----------------------------------------------------------------------------
(* Each step of the system is a step of the room, or none.                 *)

LEMMA RoomInit == Init => RoomOf!Init
<1> SUFFICES ASSUME Init PROVE RoomOf!Init
  OBVIOUS
<1> DEFINE e == << >>
<1>1. screen = [c \in Members |-> e] /\ LinesOf(e) = e
  BY NoLines DEF Init
<1>2. log = e /\ since = [c \in Members |-> Away]
  BY DEF Init
<1> HIDE DEF e
<1>3. SeenLines = [c \in Members |-> e]
  BY <1>1 DEF SeenLines
<1> QED BY <1>2, <1>3 DEF RoomOf!Init, RoomOf!Away, Away, e

\* What comes to the screen is the front of what the others have said.
LEMMA ReadIsSee ==
  ASSUME SystemInv, NEW c \in Members, Read(c)
  PROVE  RoomOf!See(c)
<1>1. SystemType /\ Places /\ Delivered
  BY DEF SystemInv
<1>2. /\ screen \in [Members -> Seq(Entry)] /\ down \in [Members -> Seq(Entry)]
      /\ UNCHANGED <<log, since>>
  BY <1>1 DEF SystemType, TypeOK, ClientType, SocketType, Read, history
<1>3. PICK n \in 1..Len(down[c]) :
        screen' = [screen EXCEPT ![c] = @ \o Taking(down[c], n)]
  BY DEF Read
<1> DEFINE t == Taking(down[c], n)
           e == Leaving(down[c], n)
<1>4. /\ t \in Seq(Entry) /\ e \in Seq(Entry) /\ t \o e = down[c] /\ down[c] # << >>
      /\ screen' = [screen EXCEPT ![c] = screen[c] \o t]
  BY <1>2, <1>3, TakingAndLeaving
<1> HIDE DEF t, e
<1>5. since[c] # Away
  BY <1>1, <1>4 DEF Places
<1>6. RoomOf!See(c)
  <2>1. PICK m \in 1..Len(clients) : clients[m] = c
    BY <1>1, <1>5 DEF Places, Came
  <2> DEFINE s == screen[c]
             g == s \o t
             d == e \o Due(m)
             f == ForeignTo(c)
  <2>2. g \in Seq(Entry) /\ d \in Seq(Entry) /\ LinesOf(g \o d) = f /\ s \in Seq(Entry)
    <3> DEFINE u == Due(m)
    <3>1. /\ s \in Seq(Entry) /\ u \in Seq(Entry)
          /\ LinesOf((s \o down[c]) \o u) = f
      BY <1>1, <1>2, <2>1, PlaceOf DEF Delivered, Meant, Got
    <3> HIDE DEF s, u, f
    <3>2. t \in Seq(Entry) /\ e \in Seq(Entry) /\ t \o e = down[c]
      BY <1>4
    <3>3. s \o t \in Seq(Entry) /\ e \o u \in Seq(Entry)
      BY <3>1, <3>2, ConcatProperties
    <3>4. JoinBetween(s, t, e, u)
      BY <3>1, <3>2, JoinOfFour
    <3>5. LinesOf((s \o t) \o (e \o u)) = f
      BY <3>1, <3>2, <3>4 DEF JoinBetween
    <3> QED BY <3>1, <3>3, <3>5 DEF u
  <2>3. Len(s) \in Nat /\ Len(g) \in Nat /\ Len(s) <= Len(g)
    <3> HIDE DEF s
    <3> QED BY <1>4, <2>2, ConcatProperties, LenProperties
  <2>4. screen' = [screen EXCEPT ![c] = g]
    BY <1>4
  <2> HIDE DEF g, d, f, s
  <2>5. f = LinesOf(g) \o LinesOf(d)
    BY <2>2, LinesOfConcat
  <2>6. /\ LinesOf(g) \in Seq(AnyLine) /\ Len(LinesOf(g)) = Len(g)
        /\ LinesOf(d) \in Seq(AnyLine) /\ Len(LinesOf(s)) = Len(s)
    BY <2>2, LinesOfType
  <2>7. SubSeq(f, 1, Len(g)) = LinesOf(g) /\ Len(f) \in Nat /\ Len(g) <= Len(f)
    <3> DEFINE x == LinesOf(g)
               y == LinesOf(d)
    <3>1. x \in Seq(AnyLine) /\ y \in Seq(AnyLine) /\ Len(x) = Len(g) /\ f = x \o y
      BY <2>5, <2>6
    <3> HIDE DEF x, y
    <3>2. SubSeq(x \o y, 1, Len(x)) = x
      BY <3>1, FrontOfConcat
    <3>3. Len(x \o y) = Len(x) + Len(y) /\ Len(x) \in Nat /\ Len(y) \in Nat
      BY <3>1, ConcatProperties, LenProperties
    <3> QED BY <3>1, <3>2, <3>3 DEF x
  <2>8. SeenLines' = [SeenLines EXCEPT ![c] = SubSeq(f, 1, Len(g))]
    <3>1. SeenLines' = [x \in Members |-> LinesOf(screen'[x])]
      BY DEF SeenLines, LinesOf
    <3>2. \A x \in Members : screen'[x] = IF x = c THEN g ELSE screen[x]
      BY <1>2, <2>4
    <3> QED BY <2>7, <3>1, <3>2 DEF SeenLines
  <2>9. Len(SeenLines[c]) = Len(s)
    BY <2>6 DEF SeenLines, s
  <2>10. Len(g) \in Len(SeenLines[c])..Len(RoomOf!Foreign(c)) /\ RoomOf!Foreign(c) = f
    BY <2>3, <2>7, <2>9, RoomSays DEF f
  <2> QED BY <1>2, <1>5, <2>8, <2>10 DEF RoomOf!See, RoomOf!Away, Away
<1> QED BY <1>6

\* A client that is accepted joins.
LEMMA PollIsJoin ==
  ASSUME SystemInv, ServerPoll
  PROVE  (\E c \in Members : RoomOf!Join(c)) \/ UNCHANGED RoomOf!vars
<1>1. UNCHANGED <<screen, log>>
  BY DEF ServerPoll, client
<1>2. SeenLines' = SeenLines
  BY <1>1 DEF SeenLines, LinesOf
<1>3. CASE UNCHANGED since
  BY <1>1, <1>2, <1>3 DEF RoomOf!vars
<1>4. CASE backlog # << >>
  <2> DEFINE h == Head(backlog)
  <2>1. backlog \in Seq(Waiting)
    BY DEF SystemInv, Places
  <2>2. h \in Waiting
    BY <1>4, <2>1, HeadAndTail
  <2>3. since' = [since EXCEPT ![h] = Len(log)]
    BY <1>4 DEF ServerPoll
  <2> HIDE DEF h
  <2>4. RoomOf!Join(h)
    BY <1>1, <1>2, <2>2, <2>3 DEF RoomOf!Join, RoomOf!Away, Away, Waiting
  <2> QED BY <2>2, <2>4 DEF Waiting
<1> QED BY <1>3, <1>4 DEF ServerPoll

\* The lines of one read are the next of their member.
LEMMA ReadIsPost ==
  ASSUME SystemInv, ServerRead
  PROVE  (\E c \in Members : RoomOf!Post(c)) \/ UNCHANGED RoomOf!vars
<1> DEFINE c == Head(ready)
           lines == Brought
           a == Len(SaidBy(c))
           n == Len(lines)
<1>1. SystemType /\ Places /\ Saying
  BY DEF SystemInv
<1>2. /\ UNCHANGED <<screen, since>> /\ log' = log \o lines
  BY <1>1, ReadTakes DEF SystemType, TypeOK, client
<1>3. SeenLines' = SeenLines
  BY <1>2 DEF SeenLines, LinesOf
<1>4. c \in Members /\ lines \in Seq(AnyLine) /\ spc = "read"
  BY <1>1, ReadBrings
<1>5. since[c] # Away
  <2>1. ready \in Seq(Came) /\ ready # << >>
    BY <1>1, <1>4 DEF Places, SystemType, TypeOK, ServerType
  <2>2. c \in Came
    BY <2>1, HeadAndTail
  <2> QED BY <2>2 DEF Came
<1>6. CASE lines = << >>
  <2>1. log \in Seq(AnyLine)
    BY <1>1 DEF SystemType, TypeOK, HistoryType
  <2>2. log' = log
    BY <1>2, <1>6, <2>1, ConcatEmptySeq
  <2> QED BY <1>2, <1>3, <2>2 DEF RoomOf!vars
<1>7. CASE lines # << >>
  <2> DEFINE S == SaidBy(c)
             F == ForTheRoom(Left)
             o == out[c]
             O == F \o o
             L == lines
             A == AllTyped(c)
  <2>1. (S \o L) \o O = A /\ S \in Seq(AnyLine) /\ L \in Seq(AnyLine) /\ O \in Seq(AnyLine)
    <3> DEFINE T == [from : {c}, n : Nat]
    <3>1. Taken \in Seq(T) /\ Left \in Seq(T) /\ Taken \o Left = up[c]
      BY <1>1, ReadTakes DEF SystemType, TypeOK
    <3>2. F \in Seq(AnyLine)
      BY <1>4, <3>1, LinesForTheRoom
    <3>3. S \in Seq(AnyLine) /\ L \in Seq(AnyLine) /\ o \in Seq(AnyLine)
      BY <1>1, <1>4, SaidType DEF SystemType, TypeOK, ClientType
    <3>4. (S \o ForTheRoom(up[c])) \o o = A
      BY <1>1, <1>4 DEF Saying
    <3> HIDE DEF c, T
    <3>5. ForTheRoom(up[c]) = L \o F
      BY <3>1, ForTheRoomOfConcat DEF Brought
    <3> HIDE DEF S, F, o, L, A
    <3>6. JoinBetween(S, L, F, o)
      BY <3>2, <3>3, JoinOfFour
    <3>7. F \o o \in Seq(AnyLine)
      BY <3>2, <3>3, ConcatProperties
    <3>8. (S \o L) \o (F \o o) = A
      BY <3>4, <3>5, <3>6 DEF JoinBetween
    <3> QED BY <3>3, <3>7, <3>8
  <2>2. S \in Seq(AnyLine) /\ L \in Seq(AnyLine) /\ O \in Seq(AnyLine)
    BY <2>1
  <2>3. /\ typed[c] \in Nat /\ typed[c] <= Lines[c] /\ Lines[c] \in Nat
        /\ \A i \in 1..typed[c] : A[i] = Line(c, i)
        /\ Len(A) = typed[c]
    <3>1. typed[c] \in Nat /\ typed[c] <= Lines[c] /\ Lines[c] \in Nat
      BY <1>1, <1>4, SystemAssumption DEF SystemType, TypeOK, ClientType
    <3>2. A \in [1..typed[c] -> AnyLine]
      BY <1>4, <3>1 DEF AllTyped, Line, AnyLine
    <3> QED BY <3>1, <3>2, SequenceOf DEF AllTyped
  <2> HIDE DEF S, O, L, A
  <2>4. /\ Len(S) \in Nat /\ Len(L) \in Nat \ {0} /\ Len(O) \in Nat
        /\ Len((S \o L) \o O) = (Len(S) + Len(L)) + Len(O)
        /\ \A i \in 1..Len(L) : ((S \o L) \o O)[Len(S) + i] = L[i]
    <3>1. Len(S) \in Nat /\ Len(L) \in Nat \ {0} /\ Len(O) \in Nat
      BY <1>7, <2>2, LenProperties, EmptySeq DEF L
    <3> DEFINE x == S \o L
    <3>2. /\ x \in Seq(AnyLine) /\ Len(x) = Len(S) + Len(L)
          /\ \A i \in 1..(Len(S) + Len(L)) : x[i] = IF i <= Len(S) THEN S[i] ELSE L[i - Len(S)]
      BY <2>2, ConcatProperties
    <3> HIDE DEF x
    <3>3. /\ Len(x \o O) = Len(x) + Len(O)
          /\ \A i \in 1..(Len(x) + Len(O)) : (x \o O)[i] = IF i <= Len(x) THEN x[i] ELSE O[i - Len(x)]
      <4>1. x \in Seq(AnyLine) /\ O \in Seq(AnyLine)
        BY <2>2, <3>2
      <4> QED BY <4>1, ConcatProperties
    <3>4. ASSUME NEW i \in 1..Len(L)
          PROVE  (x \o O)[Len(S) + i] = L[i]
      <4>1. /\ Len(S) + i \in 1..(Len(S) + Len(L)) /\ Len(S) + i \in 1..(Len(x) + Len(O))
            /\ Len(S) + i <= Len(x) /\ ~(Len(S) + i <= Len(S)) /\ (Len(S) + i) - Len(S) = i
        BY <3>1, <3>2
      <4> QED BY <3>2, <3>3, <4>1
    <3> QED BY <3>1, <3>2, <3>3, <3>4 DEF x
  <2>5. Len(L) \in 1..(Lines[c] - Len(S))
    BY <2>1, <2>3, <2>4
  <2>6. L = [i \in 1..Len(L) |-> [from |-> c, n |-> Len(S) + i]]
    <3> DEFINE f == [i \in 1..Len(L) |-> [from |-> c, n |-> Len(S) + i]]
    <3>1. f \in [1..Len(L) -> AnyLine]
      BY <1>4, <2>4 DEF AnyLine
    <3>2. \A i \in 1..Len(L) : f[i] = Line(c, Len(S) + i)
      BY DEF Line
    <3> HIDE DEF f
    <3>3. f \in Seq(AnyLine) /\ Len(f) = Len(L)
      BY <2>4, <3>1, SequenceOf
    <3>4. \A i \in 1..Len(L) : L[i] = f[i]
      <4> SUFFICES ASSUME NEW i \in 1..Len(L) PROVE L[i] = f[i]
        OBVIOUS
      <4>1. Len(S) + i \in 1..typed[c]
        BY <2>1, <2>3, <2>4
      <4> QED BY <2>1, <2>3, <2>4, <3>2, <4>1
    <3>5. L = f
      BY <2>2, <3>3, <3>4, EqualSeqs
    <3> QED BY <3>5 DEF f
  <2>7. RoomOf!Said(c) = S
    BY RoomSays DEF S
  <2>8. log' = log \o L
    BY <1>2 DEF L
  <2> HIDE DEF c, lines
  <2>9. RoomOf!Post(c)
    BY <1>2, <1>3, <1>5, <2>5, <2>6, <2>7, <2>8 DEF RoomOf!Post, RoomOf!Away, Away
  <2> QED BY <1>4, <2>9
<1> QED BY <1>6, <1>7

\* For every number of members and lines and sockets of any size: what comes
\* to the screens is what a room shows.
THEOREM ChatIsARoom == Spec => RefinesRoom
<1>1. SystemInv /\ [Next]_vars => [RoomOf!Next]_RoomOf!vars
  <2> SUFFICES ASSUME SystemInv, [Next]_vars
               PROVE  RoomOf!Next \/ UNCHANGED RoomOf!vars
    OBVIOUS
  <2>1. UNCHANGED <<log, since, screen>> => UNCHANGED RoomOf!vars
    BY DEF RoomOf!vars, SeenLines, LinesOf
  <2>2. CASE UNCHANGED vars
    BY <2>1, <2>2 DEF vars, client, history
  <2>3. ASSUME NEW c \in Members, Client(c)
        PROVE  RoomOf!Next \/ UNCHANGED RoomOf!vars
    <3>1. CASE Read(c)
      BY <3>1, ReadIsSee DEF RoomOf!Next
    <3>2. CASE Run(c) \/ Poll(c) \/ WriteLine(c)
      BY <2>1, <3>2 DEF Run, Poll, WriteLine, history
    <3> QED BY <2>3, <3>1, <3>2 DEF Client
  <2>4. CASE Server
    <3>1. CASE ServerPoll
      BY <3>1, PollIsJoin DEF RoomOf!Next
    <3>2. CASE ServerRead
      BY <3>2, ReadIsPost DEF RoomOf!Next
    <3>3. CASE ServerWrite \/ SkipSender \/ ServerWriteEnd
      BY <2>1, <3>3 DEF ServerWrite, SkipSender, ServerWriteEnd, client, history
    <3> QED BY <2>4, <3>1, <3>2, <3>3 DEF Server
  <2> QED BY <2>2, <2>3, <2>4 DEF Next
<1> QED BY SystemInvInit, SystemInvKept, RoomInit, <1>1, PTL DEF Spec, RefinesRoom

-----------------------------------------------------------------------------
(* When everything waits.                                                  *)

\* Whoever waits to be accepted is in the backlog.
Queued == \A c \in Waiting : \E m \in 1..Len(backlog) : backlog[m] = c

LEMMA QueuedStep ==
  ASSUME SystemInv, Queued, [Next]_vars
  PROVE  Queued'
<1>1. /\ cpc \in [Members -> {"run", "poll", "write", "read"}] /\ backlog \in Seq(Members)
      /\ since \in [Members -> {Away} \cup (0..Len(log))] /\ Len(log) \in Nat
  BY LenProperties DEF SystemInv, SystemType, TypeOK, ClientType, SocketType, HistoryType
<1>2. ASSUME backlog' = backlog, Waiting' = Waiting
      PROVE  Queued'
  BY <1>2 DEF Queued
<1>3. ASSUME NEW c \in Members, Run(c)
      PROVE  Queued'
  <2>1. backlog' = Append(backlog, c) /\ since' = since /\ cpc' = [cpc EXCEPT ![c] = "poll"]
    BY <1>3 DEF Run, history
  <2>2. /\ Len(backlog') = Len(backlog) + 1 /\ backlog'[Len(backlog) + 1] = c
        /\ \A m \in 1..Len(backlog) : backlog'[m] = backlog[m]
        /\ Len(backlog) \in Nat
    BY <1>1, <2>1, AppendProperties, LenProperties
  <2>3. ASSUME NEW d \in Waiting'
        PROVE  \E m \in 1..Len(backlog') : backlog'[m] = d
    <3>1. CASE d = c
      <4>1. Len(backlog) + 1 \in 1..Len(backlog')
        BY <2>2
      <4> QED BY <2>2, <3>1, <4>1
    <3>2. CASE d # c
      <4>1. d \in Waiting
        BY <1>1, <2>1, <2>3, <3>2 DEF Waiting
      <4>2. PICK m \in 1..Len(backlog) : backlog[m] = d
        BY <4>1 DEF Queued
      <4>3. m \in 1..Len(backlog') /\ backlog'[m] = d
        BY <2>2, <4>2
      <4> QED BY <4>3
    <3> QED BY <3>1, <3>2
  <2> QED BY <2>3 DEF Queued
<1>4. ASSUME NEW c \in Members, Poll(c) \/ WriteLine(c) \/ Read(c)
      PROVE  Queued'
  <2>1. /\ UNCHANGED <<backlog, since>> /\ cpc[c] # "run"
        /\ \E call \in {"poll", "write", "read"} : cpc' = [cpc EXCEPT ![c] = call]
    BY <1>4 DEF Poll, WriteLine, Read, history
  <2>2. Waiting' = Waiting
    BY <1>1, <2>1 DEF Waiting
  <2> QED BY <1>2, <2>1, <2>2
<1>5. CASE ServerPoll
  <2>1. CASE backlog = << >>
    <3>1. UNCHANGED <<cpc, backlog, since>>
      BY <1>5, <2>1 DEF ServerPoll, client
    <3> QED BY <1>2, <3>1 DEF Waiting
  <2>2. CASE backlog # << >>
    <3> DEFINE h == Head(backlog)
    <3>1. /\ backlog' = Tail(backlog) /\ since' = [since EXCEPT ![h] = Len(log)] /\ cpc' = cpc
      BY <1>5, <2>2 DEF ServerPoll, client
    <3>2. /\ h \in Members /\ backlog[1] = h
          /\ Len(backlog) \in Nat \ {0} /\ Len(Tail(backlog)) = Len(backlog) - 1
          /\ \A n \in 1..(Len(backlog) - 1) : Tail(backlog)[n] = backlog[n + 1]
      BY <1>1, <2>2, HeadAndTail
    <3> HIDE DEF h
    <3>3. ASSUME NEW d \in Waiting'
          PROVE  \E m \in 1..Len(backlog') : backlog'[m] = d
      <4>1. d \in Waiting /\ d # h
        BY <1>1, <3>1, <3>2, <3>3 DEF Waiting, Away
      <4>2. PICK m \in 1..Len(backlog) : backlog[m] = d
        BY <4>1 DEF Queued
      <4>3. m - 1 \in 1..(Len(backlog) - 1) /\ (m - 1) + 1 = m
        BY <3>2, <4>1, <4>2
      <4>4. m - 1 \in 1..Len(backlog') /\ backlog'[m - 1] = d
        BY <3>1, <3>2, <4>2, <4>3
      <4> QED BY <4>4
    <3> QED BY <3>3 DEF Queued
  <2> QED BY <2>1, <2>2
<1>6. CASE ServerRead \/ ServerWrite \/ SkipSender \/ ServerWriteEnd
  <2>1. UNCHANGED <<cpc, backlog, since>>
    BY <1>6 DEF ServerRead, ServerWrite, SkipSender, ServerWriteEnd, client, history
  <2> QED BY <1>2, <2>1 DEF Waiting
<1>7. CASE UNCHANGED vars
  <2>1. UNCHANGED <<cpc, backlog, since>>
    BY <1>7 DEF vars, client, history
  <2> QED BY <1>2, <2>1 DEF Waiting
<1> QED BY <1>3, <1>4, <1>5, <1>6, <1>7 DEF Next, Server, Client

\* If all wait and no two of them for each other, the server and all who have
\* run wait in poll, and no socket to the server holds a line.
LEMMA AllInPoll ==
  ASSUME SystemInv, Queued, ServerWaits, \A d \in Members : ClientWaits(d), ~BothWrite
  PROVE  /\ spc = "poll"
         /\ \A d \in Members : up[d] = << >> /\ cpc[d] \in {"run", "poll"}
<1>1. /\ up \in [Members -> Seq(AnyLine)] /\ down \in [Members -> Seq(Entry)]
      /\ clients \in Seq(Members) /\ k \in Nat \ {0} /\ Len(clients) \in Nat
      /\ cpc \in [Members -> {"run", "poll", "write", "read"}]
  <2>1. ClientType /\ SocketType /\ ServerType
    BY DEF SystemInv, SystemType, TypeOK
  <2>2. cpc \in [Members -> {"run", "poll", "write", "read"}]
    BY <2>1, Zenon DEF ClientType
  <2>3. up \in [Members -> Seq(AnyLine)] /\ down \in [Members -> Seq(Entry)]
    BY <2>1, Zenon DEF SocketType
  <2>4. clients \in Seq(Members) /\ k \in 1..(Len(clients) + 1)
    BY <2>1, Zenon DEF ServerType
  <2>5. Len(clients) \in Nat
    BY <2>4, LenProperties
  <2>6. k \in Nat \ {0}
    <3> DEFINE l == Len(clients)
    <3> HIDE DEF l
    <3>1. l \in Nat /\ k \in 1..(l + 1)
      BY <2>4, <2>5 DEF l
    <3> QED BY <3>1
  <2> QED BY <2>2, <2>3, <2>4, <2>5, <2>6
<1>2. /\ \A d \in Members : cpc[d] = "run" => since[d] = Away /\ up[d] = << >>
      /\ clients \in Seq(Came)
      /\ \A d \in Came : \E m \in 1..Len(clients) : clients[m] = d
  BY DEF SystemInv, Places
<1>3. Len(<< >>) = 0 /\ UpRoom > 0 /\ DownRoom > 0
  BY SystemAssumption
<1>4. CASE spc = "write" /\ k <= Len(clients) /\ Len(down[clients[k]]) = DownRoom
  <2> DEFINE d == clients[k]
  <2>1. d \in Came /\ d \in Members /\ since[d] # Away
    <3>1. k \in 1..Len(clients)
      BY <1>1, <1>4
    <3>2. d \in Came
      BY <1>2, <3>1, ElementOfSeq
    <3> QED BY <3>2 DEF Came
  <2>2. cpc[d] = "write" /\ Len(up[d]) = UpRoom
    <3>1. ClientWaits(d) /\ down[d] # << >> /\ cpc[d] # "run"
      BY <1>2, <1>3, <1>4, <2>1
    <3> QED BY <3>1 DEF ClientWaits
  <2>3. BothWrite
    BY <1>4, <2>1, <2>2 DEF BothWrite
  <2> QED BY <2>3
<1>5. CASE /\ spc = "poll" /\ backlog = << >>
           /\ \A m \in 1..Len(clients) : up[clients[m]] = << >>
  <2>1. ASSUME NEW d \in Members
        PROVE  up[d] = << >>
    <3>1. CASE since[d] # Away
      BY <1>2, <1>5, <3>1 DEF Came
    <3>2. CASE cpc[d] = "run"
      BY <1>2, <3>2
    <3>3. CASE since[d] = Away /\ cpc[d] # "run"
      <4>1. \E m \in 1..Len(backlog) : backlog[m] = d
        BY <3>3 DEF Queued, Waiting
      <4> QED BY <1>3, <1>5, <4>1
    <3> QED BY <3>1, <3>2, <3>3
  <2>2. ASSUME NEW d \in Members
        PROVE  cpc[d] \in {"run", "poll"}
    <3>1. ClientWaits(d) /\ Len(up[d]) # UpRoom
      BY <1>3, <2>1
    <3> QED BY <3>1 DEF ClientWaits
  <2> QED BY <1>5, <2>1, <2>2
<1> QED BY <1>4, <1>5 DEF ServerWaits

\* Then all that was typed has been said, and all of it is on every screen.
LEMMA AllIsSeen ==
  ASSUME SystemInv, Queued, ServerWaits, \A d \in Members : ClientWaits(d), ~BothWrite,
         NEW c \in Members, since[c] # Away
  PROVE  CaughtUp(c)
<1>1. spc = "poll" /\ \A d \in Members : up[d] = << >> /\ cpc[d] \in {"run", "poll"}
  BY AllInPoll
<1>2. SystemType /\ Places /\ Saying /\ Delivered
  BY DEF SystemInv
<1> DEFINE e == << >>
<1>3. ASSUME NEW d \in Members
      PROVE  Len(SaidBy(d)) = typed[d]
  <2>1. out[d] = e /\ up[d] = e
    BY <1>1, <1>2 DEF SystemType, TypeOK, ClientType
  <2>2. ForTheRoom(up[d]) = e
    BY <2>1, OnlyEmpty DEF ForTheRoom
  <2>3. (SaidBy(d) \o ForTheRoom(up[d])) \o out[d] = AllTyped(d)
    BY <1>2 DEF Saying
  <2>4. SaidBy(d) \in Seq(AnyLine)
    BY <1>2, SaidType
  <2>5. (SaidBy(d) \o e) \o e = SaidBy(d)
    BY <2>4, ConcatEmptySeq
  <2> HIDE DEF e
  <2>6. SaidBy(d) = AllTyped(d)
    BY <2>1, <2>2, <2>3, <2>5
  <2>7. typed[d] \in Nat
    BY <1>2 DEF SystemType, TypeOK, ClientType
  <2>8. Len(AllTyped(d)) = typed[d]
    BY <2>7 DEF AllTyped
  <2> QED BY <2>6, <2>8
<1>4. LinesOf(screen[c]) = ForeignTo(c)
  <2>1. PICK m \in 1..Len(clients) : clients[m] = c
    BY <1>2 DEF Places, Came
  <2>2. down[c] = e
    <3>1. ClientWaits(c) /\ cpc[c] = "poll"
      BY <1>1, <1>2 DEF Places
    <3> QED BY <3>1 DEF ClientWaits
  <2>3. Due(m) = e
    BY <1>1, <1>2, NothingDue DEF SystemType, Writing
  <2>4. screen[c] \in Seq(Entry)
    BY <1>2 DEF SystemType, TypeOK, ClientType
  <2>5. (screen[c] \o e) \o e = screen[c]
    BY <2>4, ConcatEmptySeq
  <2> HIDE DEF e
  <2>6. Meant(m) = screen[c]
    BY <2>1, <2>2, <2>3, <2>5 DEF Meant, Got
  <2>7. LinesOf(Meant(m)) = ForeignTo(clients[m])
    BY <1>2 DEF Delivered
  <2> QED BY <2>1, <2>6, <2>7
<1>5. SeenLines[c] = RoomOf!Foreign(c)
  BY <1>4, RoomSays DEF SeenLines
<1>6. \A d \in Members : Len(RoomOf!Said(d)) = typed[d]
  BY <1>3, RoomSays
<1> QED BY <1>5, <1>6 DEF CaughtUp

\* When the server and every client wait, each in a call that cannot return, a
\* client and the server wait in writes to each other (consume_full and
\* write_full block, and one thread does all of either side), or every line that
\* was typed has been read, broadcast and shown: the bounded sockets, the poll of
\* either side and the order of the writes leave no other way to get stuck.
THEOREM NothingElseBlocks == Spec => []WaitsOnlyWhenDone
<1>1. Init => Queued
  BY DEF Init, Queued, Waiting
<1>2. SystemInv /\ Queued => WaitsOnlyWhenDone
  BY AllIsSeen DEF WaitsOnlyWhenDone
<1>3. SystemInv /\ Queued /\ [Next]_vars => Queued'
  BY QueuedStep
<1> QED BY <1>1, <1>2, <1>3, SystemInvInit, SystemInvKept, PTL DEF Spec
=============================================================================

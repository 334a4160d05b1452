----------------------- MODULE ChatServerRelayProofs ------------------------
(***************************************************************************)
(* What the others hear of a peer, for every number of clients: when each  *)
(* read brings whole lines and no client is moved into the place of        *)
(* another, event_loop broadcasts what was sent, in order and under the    *)
(* name of who sent it.                                                    *)
(***************************************************************************)
EXTENDS ChatServerProofs

-----------------------------------------------------------------------------
(* The environment in which the server works as meant.                     *)

\* Every read ends where a line ends.
WholeReads == ReadData => said[fds[i]][taken'[fds[i]]] = NL

\* No client is moved to another element by a removal: the last one may leave.
InPlace == \A j \in 1..Len(fds') : j <= Len(fds) => fds'[j] = fds[j]

LinesArriveWhole == WholeReads /\ InPlace

-----------------------------------------------------------------------------
(* The inductive invariant.                                                *)

\* What has been collected for element j, and is not broadcast yet.
AtHand(j)    == pc = "collect" /\ j = i
Collected(j) == IF AtHand(j) THEN messages.body ELSE << >>

\* All that the server has made of what it has read from the client at j: the
\* name and its newline, what was broadcast, what is collected, and the buffer.
Heard(j) ==
  IF info[j].connected
  THEN (info[j].name \o << NL >>)
         \o (relayed[fds[j]] \o (Collected(j) \o Contents(info[j].buffer)))
  ELSE << >>

\* Nothing is left to read of a connection that was reset.
Drained(c) == Rst(c) /\ taken[c] = Len(said[c])

\* That is what was sent, as far as it was read; a reset may have discarded
\* the rest.
HeardIsSaid(j) ==
  \E m \in 0..Len(said[fds[j]]) : /\ Heard(j) = SubSeq(said[fds[j]], 1, m)
                                  /\ m = taken[fds[j]] \/ Drained(fds[j])

\* A name is part of one line, and comes before all else.
NameIsLine(j) ==
  IF info[j].connected THEN info[j].name \in Seq(Conns) ELSE relayed[fds[j]] = << >>

\* Between two reads a buffer is empty.
Emptied(j) == ~AtHand(j) => info[j].buffer.size = 0

Elements == \A j \in 1..Len(fds) : HeardIsSaid(j) /\ NameIsLine(j) /\ Emptied(j)

EndsInLine(s) == s = << >> \/ s[Len(s)] = NL

\* The client whose lines are collected has a name, and no part of a line is
\* left behind them; they are written under its name.
Handling ==
  /\ pc = "collect" => info[i].connected /\ EndsInLine(Contents(info[i].buffer))
  /\ pc = "write" => info[i].connected /\ messages.name = info[i].name
  /\ pc \in {"poll", "accept", "signal", "clients"} => messages.body = << >>

\* Of a connection that is not accepted nothing was read.
Unheard ==
  \A c \in Conns : link[c] \in {"none", "queued"} =>
                     relayed[c] = << >> /\ (taken[c] = 0 \/ Drained(c))

\* Of one that is closed what was broadcast is what was sent; of one that is
\* accepted Elements says it.
IsFront(s, t) == Len(s) <= Len(t) /\ s = SubSeq(t, 1, Len(s))
Faithful(c)   == IsFront(relayed[c], ToRoom(c))

Gone == \A c \in Conns : link[c] = "closed" => Faithful(c)

RelayInv == RoundInv /\ Elements /\ Handling /\ Unheard /\ Gone

-----------------------------------------------------------------------------
(* Lemmas: lines.                                                          *)

\* What peers send are bytes.
LEMMA SentBytes ==
  ASSUME NEW s \in Seq(Conns \cup {NL})
  PROVE  s \in Seq(Byte)
<1>1. Conns \cup {NL} \subseteq Byte
  BY DEF Byte
<1> QED BY <1>1, SeqMonotonic

\* One sequence behind another.
LEMMA Behind ==
  ASSUME NEW S, NEW s \in Seq(S), NEW t \in Seq(S)
  PROVE  /\ s \o t \in Seq(S) /\ Len(s \o t) = Len(s) + Len(t)
         /\ Len(s) \in Nat /\ Len(t) \in Nat
         /\ \A j \in 1..Len(s) : (s \o t)[j] = s[j]
         /\ \A j \in 1..Len(t) : (s \o t)[Len(s) + j] = t[j]
  OBVIOUS

\* What is behind the first n elements.
LEMMA BackOf ==
  ASSUME NEW S, NEW s \in Seq(S), NEW n \in 0..Len(s)
  PROVE  /\ SubSeq(s, n + 1, Len(s)) \in Seq(S)
         /\ Len(SubSeq(s, n + 1, Len(s))) = Len(s) - n
         /\ \A j \in 1..(Len(s) - n) : SubSeq(s, n + 1, Len(s))[j] = s[n + j]
  OBVIOUS

\* The first newline of a sequence is in it.
LEMMA LineEndIs ==
  ASSUME NEW s \in Seq(Byte)
  PROVE  /\ LineEnd(s) \in 0..Len(s) /\ Len(s) \in Nat
         /\ \A j \in 1..Len(s) :
              s[j] = NL => /\ LineEnd(s) \in 1..j /\ s[LineEnd(s)] = NL
                           /\ \A m \in 1..(LineEnd(s) - 1) : s[m] # NL
<1> DEFINE First(j) == s[j] = NL /\ \A m \in 1..(j - 1) : s[m] # NL
<1>1. Len(s) \in Nat
  BY LenProperties
<1>2. CASE \E j \in 1..Len(s) : s[j] = NL
  <2>1. \E j \in 1..Len(s) : First(j)
    <3> DEFINE S == {j \in 1..Len(s) : s[j] = NL}
    <3>1. S # {} /\ S \subseteq Nat
      BY <1>2
    <3>2. \E j \in S : \A n \in S : j <= n
      <4> HIDE DEF S
      <4> QED BY <3>1, Array!LeastElement, ArrayConstants
    <3> QED BY <3>2, <1>1
  <2>2. LineEnd(s) \in 1..Len(s) /\ First(LineEnd(s))
    BY <2>1, <1>2 DEF LineEnd
  <2>3. \A j \in 1..Len(s) : s[j] = NL => ~(j \in 1..(LineEnd(s) - 1))
    BY <2>2
  <2> QED BY <1>1, <2>2, <2>3
<1>3. CASE ~\E j \in 1..Len(s) : s[j] = NL
  BY <1>1, <1>3 DEF LineEnd
<1> QED BY <1>2, <1>3

\* A name, its newline and what follows: the name is the first line, and what
\* follows is the front of what is for the room.
LEMMA NameAndRest ==
  ASSUME NEW s \in Seq(Conns \cup {NL}), NEW m \in 0..Len(s),
         NEW name \in Seq(Conns), NEW r \in Seq(Byte), NEW t \in Seq(Byte),
         (name \o << NL >>) \o (r \o t) = SubSeq(s, 1, m)
  PROVE  /\ SubSeq(s, 1, LineEnd(s) - 1) = name
         /\ IsFront(r, SubSeq(s, LineEnd(s) + 1, Len(s)))
<1> DEFINE f == name \o << NL >>
           g == r \o t
           n == Len(name)
<1>1. s \in Seq(Byte) /\ Len(s) \in Nat
  BY SentBytes, LenProperties
<1>2. /\ n \in Nat /\ \A j \in 1..n : name[j] \in Conns
      /\ Len(f) = n + 1 /\ f[n + 1] = NL /\ \A j \in 1..n : f[j] = name[j]
      /\ f \in Seq(Byte)
  BY ElementOfSeq, LenProperties DEF Byte
<1>3. /\ g \in Seq(Byte) /\ Len(g) = Len(r) + Len(t) /\ Len(r) \in Nat /\ Len(t) \in Nat
      /\ \A j \in 1..Len(r) : g[j] = r[j]
  BY ConcatProperties, LenProperties
<1> HIDE DEF f, g
<1>4. /\ Len(f \o g) = (n + 1) + Len(g)
      /\ \A j \in 1..(n + 1) : (f \o g)[j] = f[j]
      /\ \A j \in 1..Len(g) : (f \o g)[(n + 1) + j] = g[j]
  <2>1. Len(f) = n + 1
    BY <1>2
  <2>2. /\ Len(f \o g) = Len(f) + Len(g)
        /\ \A j \in 1..Len(f) : (f \o g)[j] = f[j]
        /\ \A j \in 1..Len(g) : (f \o g)[Len(f) + j] = g[j]
    <3>1. f \in Seq(Byte) /\ g \in Seq(Byte)
      BY <1>2, <1>3
    <3> QED BY <3>1, Behind
  <2> HIDE DEF n
  <2> QED BY <2>1, <2>2
<1>5. /\ Len(SubSeq(s, 1, m)) = m /\ \A j \in 1..m : SubSeq(s, 1, m)[j] = s[j]
  BY <1>1
<1>6. f \o g = SubSeq(s, 1, m)
  BY DEF f, g
<1>7. /\ (n + 1) + (Len(r) + Len(t)) = m
      /\ \A j \in 1..n : s[j] = name[j] /\ s[j] # NL
      /\ s[n + 1] = NL
      /\ \A j \in 1..Len(r) : s[(n + 1) + j] = r[j]
  <2>1. (n + 1) + (Len(r) + Len(t)) = m
    BY <1>3, <1>4, <1>5, <1>6
  <2>2. \A j \in 1..(n + 1) : j \in 1..m /\ s[j] = f[j]
    BY <1>2, <1>3, <1>4, <1>5, <1>6, <2>1
  <2>3. \A j \in 1..n : j \in 1..(n + 1) /\ s[j] = name[j]
    BY <1>2, <2>2
  <2>4. NL \notin Conns
    BY ServerAssumption
  <2>5. \A j \in 1..Len(r) : (n + 1) + j \in 1..m /\ j \in 1..Len(g)
    BY <1>2, <1>3, <2>1
  <2>6. \A j \in 1..Len(r) : s[(n + 1) + j] = r[j]
    BY <1>3, <1>4, <1>5, <1>6, <2>5
  <2> QED BY <1>2, <2>1, <2>2, <2>3, <2>4, <2>6
<1> HIDE DEF n
<1>8. LineEnd(s) = n + 1
  <2>1. n + 1 \in 1..Len(s)
    BY <1>1, <1>2, <1>3, <1>7
  <2>2. LineEnd(s) \in 1..(n + 1) /\ s[LineEnd(s)] = NL
    BY <1>1, <1>7, <2>1, LineEndIs
  <2> QED BY <1>2, <1>7, <2>2
<1>9. SubSeq(s, 1, (n + 1) - 1) = name
  <2>1. (n + 1) - 1 = n /\ n \in 0..Len(s)
    BY <1>1, <1>2, <1>3, <1>7
  <2> DEFINE u == SubSeq(s, 1, n)
  <2>2. u \in Seq(Byte) /\ Len(u) = n /\ \A j \in 1..n : u[j] = s[j]
    BY <1>1, <2>1
  <2>3. name \in Seq(Byte) /\ Len(name) = n
    BY SeqMonotonic DEF Byte, n
  <2> HIDE DEF u
  <2>4. \A j \in 1..n : u[j] = name[j]
    BY <1>7, <2>2
  <2>5. u = name
    BY <2>2, <2>3, <2>4, SeqEqual
  <2> QED BY <2>1, <2>5 DEF u
<1> DEFINE room == SubSeq(s, (n + 1) + 1, Len(s))
<1>10. /\ room \in Seq(Byte) /\ Len(room) = Len(s) - (n + 1) /\ Len(r) <= Len(room)
       /\ \A j \in 1..Len(r) : room[j] = s[(n + 1) + j]
  <2>1. n + 1 \in Nat /\ (n + 1) + Len(r) <= Len(s) /\ n + 1 <= Len(s)
    BY <1>1, <1>2, <1>3, <1>7
  <2> DEFINE q == n + 1
  <2> HIDE DEF q
  <2>2. /\ SubSeq(s, q + 1, Len(s)) \in Seq(Byte)
        /\ Len(SubSeq(s, q + 1, Len(s))) = Len(s) - q
        /\ \A j \in 1..(Len(s) - q) : SubSeq(s, q + 1, Len(s))[j] = s[q + j]
    <3>1. q \in 0..Len(s)
      BY <1>1, <2>1 DEF q
    <3> QED BY <1>1, <3>1, BackOf
  <2>3. \A j \in 1..Len(r) : j \in 1..(Len(s) - q)
    BY <1>1, <1>3, <2>1 DEF q
  <2>4. Len(r) <= Len(s) - q
    BY <1>1, <1>3, <2>1 DEF q
  <2> QED BY <2>2, <2>3, <2>4 DEF q
<1> HIDE DEF room
<1>11. r = SubSeq(room, 1, Len(r))
  <2> DEFINE u == SubSeq(room, 1, Len(r))
  <2>1. Len(r) \in 0..Len(room)
    BY <1>3, <1>10, LenProperties
  <2>2. u \in Seq(Byte) /\ Len(u) = Len(r) /\ \A j \in 1..Len(r) : u[j] = room[j]
    BY <1>10, <2>1
  <2>3. \A j \in 1..Len(r) : u[j] = r[j]
    BY <1>7, <1>10, <2>2
  <2> HIDE DEF u
  <2>4. u = r
    BY <2>2, <2>3, SeqEqual
  <2> QED BY <2>4 DEF u
<1> QED BY <1>8, <1>9, <1>10, <1>11 DEF room, IsFront

-----------------------------------------------------------------------------
(* What the invariant means.                                               *)

\* The types that the proofs below need.
LEMMA RelayTypes ==
  ASSUME RoundInv
  PROVE  /\ fds \in Seq(Conns) /\ Len(fds) \in Nat /\ Len(fds) <= MaxClients
         /\ \A j \in 1..Len(fds) : /\ fds[j] \in Conns /\ j \in Slots
                                   /\ info[j] \in ClientInfo /\ info[j].buffer \in Buffer
                                   /\ link[fds[j]] = "accepted"
         /\ \A j, m \in 1..Len(fds) : fds[j] = fds[m] => j = m
         /\ \A c \in Conns : link[c] = "accepted" => \E j \in 1..Len(fds) : fds[j] = c
         /\ info \in [Slots -> ClientInfo]
         /\ messages \in Messages /\ messages.body \in Seq(Byte)
         /\ i \in Nat \ {0} /\ nready \in Nat
         /\ relayed \in [Conns -> Seq(Byte)] /\ taken \in [Conns -> Nat]
         /\ said \in [Conns -> Seq(Conns \cup {NL})]
         /\ \A c \in Conns : Len(said[c]) \in Nat /\ taken[c] <= Len(said[c])
         /\ link \in [Conns -> {"none", "queued", "accepted", "closed"}]
         /\ peer \in [Conns -> {"idle", "open", "fin", "rst", "finrst"}]
<1>1. /\ LoopType /\ ClientsType /\ SocketType /\ StreamType
      /\ Lists(link, fds, "accepted")
  BY DEF RoundInv, TypeInv, TypeOK, Owners
<1>2. /\ fds \in Seq(Conns) /\ Len(fds) \in Nat /\ Len(fds) <= MaxClients /\ MaxClients \in Nat
      /\ \A j \in 1..Len(fds) : fds[j] \in Conns
  BY <1>1, LenProperties, ElementOfSeq, ServerAssumption DEF ClientsType
<1>3. \A j \in 1..Len(fds) : j \in Slots /\ info[j] \in ClientInfo
  BY <1>1, <1>2 DEF ClientsType, Slots
<1>4. \A j \in 1..Len(fds) : info[j].buffer \in Buffer
  BY <1>3 DEF ClientInfo
<1>5. messages.body \in Seq(Byte)
  BY <1>1 DEF LoopType, Messages
<1>6. \A c \in Conns : Len(said[c]) \in Nat
  BY <1>1, LenProperties DEF StreamType
<1> QED
  BY <1>1, <1>2, <1>3, <1>4, <1>5, <1>6 DEF ClientsType, LoopType, SocketType, StreamType, Lists

\* The data of a buffer are bytes.
LEMMA ContentsBytes ==
  ASSUME NEW b \in Buffer
  PROVE  /\ Contents(b) \in Seq(Byte) /\ Len(Contents(b)) = b.size /\ b.size \in Nat
         /\ \A j \in 1..b.size : Contents(b)[j] = b.mem[j]
         /\ b.size = 0 => Contents(b) = << >>
<1>1. /\ Contents(b) \in Seq(Byte) /\ Len(Contents(b)) = b.size /\ b.size \in 0..Cap
      /\ \A j \in 1..b.size : Contents(b)[j] = b.mem[j]
  BY ArrayConstants, ArrayOperators, Array!ContentsAre
<1>2. b.size = 0 => Contents(b) = << >>
  BY ArrayConstants, ArrayOperators, Array!EmptyContents
<1> QED BY <1>1, <1>2, ServerAssumption

\* Where nothing was broadcast nothing is wrong.
LEMMA SilenceFaithful ==
  ASSUME RoundInv, NEW c \in Conns, relayed[c] = << >>
  PROVE  Faithful(c)
<1> DEFINE s == said[c]
           room == SubSeq(s, LineEnd(s) + 1, Len(s))
<1>1. s \in Seq(Conns \cup {NL})
  BY RelayTypes
<1>2. LineEnd(s) \in 0..Len(s)
  BY <1>1, SentBytes, LineEndIs
<1> HIDE DEF s
<1>3. room \in Seq(Conns \cup {NL})
  BY <1>1, <1>2, BackOf
<1> HIDE DEF room
<1>4. Len(room) \in Nat /\ SubSeq(room, 1, 0) = << >> /\ Len(<< >>) = 0
  BY <1>3
<1>5. ToRoom(c) = room
  BY DEF ToRoom, room, s
<1>6. Len(relayed[c]) = 0
  BY <1>4
<1> QED BY <1>4, <1>5, <1>6 DEF Faithful, IsFront

\* What is heard of a client is its name and what the room has heard of it.
LEMMA ElementFaithful ==
  ASSUME RoundInv, NEW j \in 1..Len(fds), HeardIsSaid(j), NameIsLine(j)
  PROVE  /\ Faithful(fds[j])
         /\ info[j].connected => info[j].name = OwnName(fds[j])
<1> DEFINE c == fds[j]
           s == said[c]
           r == relayed[c]
           b == info[j].buffer
           t == Collected(j) \o Contents(b)
<1>1. c \in Conns /\ s \in Seq(Conns \cup {NL}) /\ Len(s) \in Nat /\ r \in Seq(Byte)
      /\ b \in Buffer /\ messages.body \in Seq(Byte)
  BY RelayTypes
<1>2. PICK m \in 0..Len(s) : Heard(j) = SubSeq(s, 1, m)
  BY DEF HeardIsSaid
<1>3. CASE info[j].connected
  <2>1. Contents(b) \in Seq(Byte) /\ Collected(j) \in Seq(Byte)
    BY <1>1, ContentsBytes, EmptySeq DEF Collected
  <2>2. t \in Seq(Byte)
    BY <2>1, ConcatProperties
  <2>3. (info[j].name \o << NL >>) \o (r \o t) = SubSeq(s, 1, m) /\ info[j].name \in Seq(Conns)
    BY <1>2, <1>3 DEF Heard, NameIsLine
  <2> DEFINE name == info[j].name
  <2>4. /\ s \in Seq(Conns \cup {NL}) /\ r \in Seq(Byte) /\ m \in 0..Len(s)
        /\ (name \o << NL >>) \o (r \o t) = SubSeq(s, 1, m) /\ name \in Seq(Conns)
    BY <1>1, <2>3
  <2> HIDE DEF s, r, t, name
  <2>5. /\ SubSeq(s, 1, LineEnd(s) - 1) = name
        /\ IsFront(r, SubSeq(s, LineEnd(s) + 1, Len(s)))
    BY <2>2, <2>4, NameAndRest
  <2> QED BY <2>5 DEF Faithful, OwnName, ToRoom, s, r, name
<1>4. CASE ~info[j].connected
  <2>1. r = << >>
    BY <1>4 DEF NameIsLine
  <2>2. Faithful(c)
    BY <1>1, <2>1, SilenceFaithful
  <2> QED BY <1>4, <2>2
<1> QED BY <1>3, <1>4

LEMMA RelayMeans == RelayInv => Attribution /\ Integrity
<1> SUFFICES ASSUME RelayInv PROVE Attribution /\ Integrity
  OBVIOUS
<1>1. RoundInv /\ Elements /\ Handling /\ Unheard /\ Gone
  BY DEF RelayInv
<1>2. ASSUME NEW c \in Conns PROVE Faithful(c)
  <2>1. CASE link[c] = "accepted"
    <3>1. PICK j \in 1..Len(fds) : fds[j] = c
      BY <1>1, <2>1, RelayTypes
    <3>2. Faithful(fds[j])
      BY <1>1, ElementFaithful DEF Elements
    <3> QED BY <3>1, <3>2
  <2>2. CASE link[c] \in {"none", "queued"}
    BY <1>1, <2>2, SilenceFaithful DEF Unheard
  <2>3. CASE link[c] = "closed"
    BY <1>1, <2>3 DEF Gone
  <2> QED BY <1>1, <2>1, <2>2, <2>3, RelayTypes
<1>3. Attribution
  <2> SUFFICES ASSUME pc = "write" PROVE messages.name = OwnName(fds[i])
    BY DEF Attribution
  <2>1. i \in 1..Len(fds)
    BY <1>1, RelayTypes DEF RoundInv, TypeInv, InLoop
  <2> QED BY <1>1, <2>1, ElementFaithful DEF Elements, Handling
<1> QED BY <1>2, <1>3 DEF Integrity, Faithful, IsFront

-----------------------------------------------------------------------------
(* The invariant is kept.                                                  *)

LEMMA RelayInit == Init => RelayInv
<1> SUFFICES ASSUME Init PROVE RelayInv
  OBVIOUS
<1>1. RoundInv /\ Len(fds) = 0
  BY RoundInit DEF Init
<1>2. Elements
  BY <1>1 DEF Elements
<1>3. Handling
  BY DEF Init, Handling, NoMessages
<1> QED BY <1>1, <1>2, <1>3 DEF Init, RelayInv, Unheard, Gone

\* A step that leaves a client and what is at hand of it alone.
LEMMA ElementKept ==
  ASSUME RelayInv, NEW j \in 1..Len(fds),
         fds'[j] = fds[j], info'[j] = info[j],
         relayed'[fds[j]] = relayed[fds[j]], said'[fds[j]] = said[fds[j]],
         \/ taken'[fds[j]] = taken[fds[j]]
         \/ taken'[fds[j]] = Len(said[fds[j]]) /\ peer'[fds[j]] = "rst",
         peer[fds[j]] \in {"rst", "finrst"} => peer'[fds[j]] \in {"rst", "finrst"},
         AtHand(j)' <=> AtHand(j), AtHand(j) => messages' = messages
  PROVE  (HeardIsSaid(j) /\ NameIsLine(j) /\ Emptied(j))'
<1> DEFINE c == fds[j]
<1>1. HeardIsSaid(j) /\ NameIsLine(j) /\ Emptied(j)
  BY DEF RelayInv, Elements
<1>2. Collected(j)' = Collected(j)
  BY DEF Collected
<1>3. Heard(j)' = Heard(j)
  BY <1>2 DEF Heard
<1>4. PICK m \in 0..Len(said[c]) : Heard(j) = SubSeq(said[c], 1, m) /\ (m = taken[c] \/ Drained(c))
  BY <1>1 DEF HeardIsSaid
<1>5. m = taken'[c] \/ (peer'[c] \in {"rst", "finrst"} /\ taken'[c] = Len(said'[c]))
  BY <1>4 DEF Drained, Rst
<1>6. HeardIsSaid(j)'
  BY <1>3, <1>4, <1>5 DEF HeardIsSaid, Drained, Rst
<1>7. NameIsLine(j)' /\ Emptied(j)'
  BY <1>1 DEF NameIsLine, Emptied
<1> QED BY <1>6, <1>7

\* A closed connection stays as it is.
LEMMA GoneKept ==
  ASSUME RelayInv,
         \A c \in Conns : link'[c] = "closed" => relayed'[c] = relayed[c] /\ said'[c] = said[c]
  PROVE  Gone'
<1> SUFFICES ASSUME NEW c \in Conns, link'[c] = "closed" PROVE Faithful(c)'
  BY DEF Gone
<1>1. Faithful(c)
  BY RelayMeans DEF Integrity, Faithful, IsFront
<1> QED BY <1>1 DEF Faithful, IsFront, ToRoom

\* What peers send comes behind what was read.
LEMMA RelaySend ==
  ASSUME RelayInv, RoundInv', NEW d \in Conns, Send(d)
  PROVE  RelayInv'
<1>1. RoundInv /\ Elements /\ Handling /\ Unheard /\ Gone
  BY DEF RelayInv
<1>2. /\ UNCHANGED <<pc, fds, info, i, messages, relayed, link, peer, taken>>
      /\ peer[d] = "open" /\ link[d] \in {"queued", "accepted"}
  BY DEF Send, server, Attached
<1>3. PICK text \in Seq(Conns \cup {NL}) : said' = [said EXCEPT ![d] = said[d] \o text]
  <2>1. PICK shape \in Shapes :
          said' = [said EXCEPT ![d] =
                     @ \o [j \in 1..Len(shape) |-> IF shape[j] = "nl" THEN NL ELSE d]]
    BY DEF Send
  <2>2. Len(shape) \in Nat
    BY ServerAssumption, LenProperties
  <2>3. [j \in 1..Len(shape) |-> IF shape[j] = "nl" THEN NL ELSE d] \in Seq(Conns \cup {NL})
    BY <2>2
  <2> QED BY <2>1, <2>3
<1>4. /\ said \in [Conns -> Seq(Conns \cup {NL})] /\ Len(said[d]) \in Nat
      /\ \A j \in 1..Len(fds) : fds[j] \in Conns
      /\ \A c \in Conns : c # d => said'[c] = said[c]
      /\ said'[d] = said[d] \o text
  BY <1>1, <1>3, RelayTypes
<1>5. ~Drained(d) /\ \A c \in Conns : Drained(c) => Drained(c)'
  <2>1. ~Drained(d)
    BY <1>2 DEF Drained, Rst
  <2> QED BY <1>2, <1>4, <2>1 DEF Drained, Rst
<1>6. Elements'
  <2> SUFFICES ASSUME NEW j \in 1..Len(fds) PROVE (HeardIsSaid(j) /\ NameIsLine(j) /\ Emptied(j))'
    BY <1>2 DEF Elements
  <2>1. CASE fds[j] # d
    <3>1. (AtHand(j)' <=> AtHand(j)) /\ messages' = messages
      BY <1>2 DEF AtHand
    <3> DEFINE c == fds[j]
    <3>2. /\ c \in Conns /\ said'[c] = said[c] /\ taken'[c] = taken[c]
          /\ relayed'[c] = relayed[c] /\ peer'[c] = peer[c]
      BY <1>2, <1>4, <2>1
    <3>3. fds'[j] = fds[j] /\ info'[j] = info[j]
      BY <1>2
    <3> QED BY <3>1, <3>2, <3>3, ElementKept
  <2>2. CASE fds[j] = d
    <3>1. HeardIsSaid(j) /\ NameIsLine(j) /\ Emptied(j)
      BY <1>1 DEF Elements
    <3>2. PICK m \in 0..Len(said[d]) : Heard(j) = SubSeq(said[d], 1, m) /\ m = taken[d]
      BY <1>5, <2>2, <3>1 DEF HeardIsSaid
    <3>3. Heard(j)' = Heard(j)
      BY <1>2 DEF Heard, Collected, AtHand
    <3> DEFINE s == said[d]
    <3>4. s \in Seq(Conns \cup {NL}) /\ text \in Seq(Conns \cup {NL}) /\ m \in 0..Len(s)
      BY <1>4
    <3>5. said'[d] = s \o text
      BY <1>4
    <3> HIDE DEF s
    <3>6. SubSeq(s \o text, 1, m) = SubSeq(s, 1, m) /\ m \in 0..Len(s \o text)
      BY <3>4
    <3>7. Heard(j)' = SubSeq(said'[d], 1, m) /\ m \in 0..Len(said'[d]) /\ m = taken'[d]
      BY <1>2, <3>2, <3>3, <3>5, <3>6 DEF s
    <3>8. HeardIsSaid(j)'
      BY <1>2, <2>2, <3>7 DEF HeardIsSaid
    <3>9. NameIsLine(j)' /\ Emptied(j)'
      BY <1>2, <3>1 DEF NameIsLine, Emptied, AtHand
    <3> QED BY <3>8, <3>9
  <2> QED BY <2>1, <2>2
<1>7. Handling' /\ Unheard'
  BY <1>1, <1>2, <1>5 DEF Handling, Unheard
<1>8. Gone'
  <2>1. link'[d] # "closed"
    BY <1>2
  <2> QED BY <1>2, <1>4, <2>1, GoneKept
<1> QED BY <1>6, <1>7, <1>8 DEF RelayInv

\* Nothing else outside changes what was read or broadcast, but a reset, which
\* may discard what was not read.
LEMMA RelayEnvironment ==
  ASSUME RelayInv, RoundInv', Environment
  PROVE  RelayInv'
<1>1. RoundInv /\ Elements /\ Handling /\ Unheard /\ Gone
  BY DEF RelayInv
<1>2. CASE \E d \in Conns : Send(d)
  BY <1>2, RelaySend
<1>3. CASE ~\E d \in Conns : Send(d)
  <2>1. /\ UNCHANGED <<pc, fds, info, i, messages, relayed, said>>
        /\ \A c \in Conns :
             /\ \/ taken'[c] = taken[c]
                \/ taken'[c] = Len(said[c]) /\ peer'[c] = "rst"
             /\ peer[c] \in {"rst", "finrst"} => peer'[c] \in {"rst", "finrst"}
             /\ link'[c] = link[c] \/ (link[c] = "none" /\ link'[c] = "queued")
    <3>1. /\ taken \in [Conns -> Nat]
          /\ link \in [Conns -> {"none", "queued", "accepted", "closed"}]
          /\ peer \in [Conns -> {"idle", "open", "fin", "rst", "finrst"}]
      BY <1>1, RelayTypes
    <3>2. ASSUME NEW d \in Conns, Connect(d)
          PROVE  link[d] = "none"
      BY <1>1, <3>2 DEF Connect, RoundInv, Fresh
    <3>3. ASSUME NEW d \in Conns, Connect(d) \/ Receive(d) \/ Close(d) \/ ResetAnswer(d)
          PROVE  /\ UNCHANGED <<pc, fds, info, i, messages, relayed, said, taken>>
                 /\ \A c \in Conns :
                      /\ peer[c] \in {"rst", "finrst"} => peer'[c] \in {"rst", "finrst"}
                      /\ link'[c] = link[c] \/ (link[c] = "none" /\ link'[c] = "queued")
      BY <3>1, <3>2, <3>3 DEF Connect, Receive, Close, ResetAnswer, server
    <3>4. ASSUME NEW d \in Conns, Reset(d)
          PROVE  /\ UNCHANGED <<pc, fds, info, i, messages, relayed, said, link>>
                 /\ \A c \in Conns :
                      /\ \/ taken'[c] = taken[c]
                         \/ taken'[c] = Len(said[c]) /\ peer'[c] = "rst"
                      /\ peer[c] \in {"rst", "finrst"} => peer'[c] \in {"rst", "finrst"}
      <4>1. /\ UNCHANGED <<pc, fds, info, i, messages, relayed, said, link>>
            /\ peer' = [peer EXCEPT ![d] = "rst"] /\ peer[d] = "open"
            /\ \E lost \in BOOLEAN :
                 taken' = [taken EXCEPT ![d] = IF lost THEN Len(said[d]) ELSE taken[d]]
        BY <3>4 DEF Reset, server
      <4> QED BY <3>1, <4>1
    <3>5. CASE Interrupt
      BY <3>5 DEF Interrupt, server
    <3> QED BY <1>3, <3>3, <3>4, <3>5 DEF Environment
  <2>2. Elements'
    <3> SUFFICES ASSUME NEW j \in 1..Len(fds) PROVE (HeardIsSaid(j) /\ NameIsLine(j) /\ Emptied(j))'
      BY <2>1 DEF Elements
    <3>1. fds[j] \in Conns
      BY <1>1, RelayTypes
    <3>2. (AtHand(j)' <=> AtHand(j)) /\ messages' = messages
      BY <2>1 DEF AtHand
    <3>3. /\ fds'[j] = fds[j] /\ info'[j] = info[j]
          /\ relayed'[fds[j]] = relayed[fds[j]] /\ said'[fds[j]] = said[fds[j]]
      BY <2>1
    <3>4. /\ \/ taken'[fds[j]] = taken[fds[j]]
             \/ taken'[fds[j]] = Len(said[fds[j]]) /\ peer'[fds[j]] = "rst"
          /\ peer[fds[j]] \in {"rst", "finrst"} => peer'[fds[j]] \in {"rst", "finrst"}
      BY <2>1, <3>1
    <3> QED BY <3>2, <3>3, <3>4, ElementKept
  <2>3. Handling'
    BY <1>1, <2>1 DEF Handling
  <2>4. Unheard'
    <3> SUFFICES ASSUME NEW c \in Conns, link'[c] \in {"none", "queued"}
                 PROVE  relayed'[c] = << >> /\ (taken'[c] = 0 \/ Drained(c)')
      BY DEF Unheard
    <3>1. relayed[c] = << >> /\ (taken[c] = 0 \/ Drained(c))
      BY <1>1, <2>1 DEF Unheard
    <3> QED BY <2>1, <3>1 DEF Drained, Rst
  <2>5. Gone'
    BY <2>1, GoneKept
  <2> QED BY <2>2, <2>3, <2>4, <2>5 DEF RelayInv
<1> QED BY <1>2, <1>3

\* A step that makes nothing of what was read.
LEMMA RelayQuiet ==
  ASSUME RelayInv, RoundInv', Handling', UNCHANGED <<info, relayed, said, taken, peer>>,
         \A j \in 1..Len(fds') : j \in 1..Len(fds) /\ fds'[j] = fds[j],
         pc # "collect", pc' # "collect",
         \A c \in Conns : link'[c] \in {"none", "queued"} => link[c] \in {"none", "queued"}
  PROVE  RelayInv'
<1>1. Elements /\ Unheard
  BY DEF RelayInv
<1>2. Elements'
  <2> SUFFICES ASSUME NEW j \in 1..Len(fds') PROVE (HeardIsSaid(j) /\ NameIsLine(j) /\ Emptied(j))'
    BY DEF Elements
  <2>1. j \in 1..Len(fds) /\ fds'[j] = fds[j]
    OBVIOUS
  <2>2. (AtHand(j)' <=> AtHand(j)) /\ ~AtHand(j)
    BY DEF AtHand
  <2> QED BY <2>1, <2>2, ElementKept
<1>3. Unheard'
  <2> SUFFICES ASSUME NEW c \in Conns, link'[c] \in {"none", "queued"}
               PROVE  relayed'[c] = << >> /\ (taken'[c] = 0 \/ Drained(c)')
    BY DEF Unheard
  <2>1. relayed[c] = << >> /\ (taken[c] = 0 \/ Drained(c))
    BY <1>1 DEF Unheard
  <2> QED BY <2>1 DEF Drained, Rst
<1>4. Gone'
  BY GoneKept
<1> QED BY <1>2, <1>3, <1>4 DEF RelayInv

\* A new client has said nothing yet.
LEMMA RelayAccept ==
  ASSUME RelayInv, RoundInv', Accept
  PROVE  RelayInv'
<1>0. PICK c : c = Head(backlog)
  OBVIOUS
<1>1. RoundInv /\ Elements /\ Handling /\ Unheard
  BY DEF RelayInv
<1>2. /\ pc = "accept" /\ backlog # << >> /\ pc' \in {"signal", "poll"}
      /\ UNCHANGED <<messages, relayed, said, taken, peer>>
      /\ IF Len(fds) >= MaxClients THEN Reject(c) ELSE Admit(c)
  <2>1. pc = "accept" /\ backlog # << >>
    BY <1>1 DEF Accept, RoundInv, TypeInv, Backed
  <2>2. pc' \in {"signal", "poll"}
    <3>1. \E table : Handled("signal", table, i)
      BY DEF Accept
    <3> QED BY <1>1, <3>1, HandledCases, RelayTypes
  <2> QED BY <1>0, <2>1, <2>2 DEF Accept
<1>3. c \in Conns /\ link[c] = "queued"
  <2>1. backlog \in Seq(Conns) /\ Lists(link, backlog, "queued")
    BY <1>1 DEF RoundInv, TypeInv, TypeOK, SocketType, Owners
  <2>2. c \in Conns /\ c = backlog[1] /\ 1 \in 1..Len(backlog)
    BY <1>0, <1>2, <2>1
  <2> QED BY <2>1, <2>2 DEF Lists
<1>4. Handling'
  BY <1>1, <1>2 DEF Handling
<1>5. CASE Len(fds) >= MaxClients
  <2>1. link' = [link EXCEPT ![c] = "closed"] /\ UNCHANGED <<fds, info>>
    BY <1>2, <1>5 DEF Reject
  <2>2. \A d \in Conns : link'[d] \in {"none", "queued"} => link[d] \in {"none", "queued"}
    BY <1>1, <2>1, RelayTypes
  <2> QED BY <1>2, <1>4, <2>1, <2>2, RelayQuiet
<1>6. CASE ~(Len(fds) >= MaxClients)
  <2>0. PICK n : n = Len(fds) + 1
    OBVIOUS
  <2>1. /\ fds' = Append(fds, c) /\ link' = [link EXCEPT ![c] = "accepted"]
        /\ info' = [info EXCEPT ![n] = [name |-> NoName, connected |-> FALSE,
                                         buffer |-> ClearBuffer(info[n].buffer)]]
    BY <1>2, <1>6, <2>0 DEF Admit
  <2>2. /\ fds \in Seq(Conns) /\ Len(fds) \in Nat /\ Len(fds) < MaxClients /\ MaxClients \in Nat
        /\ info \in [Slots -> ClientInfo] /\ n \in Slots
        /\ link \in [Conns -> {"none", "queued", "accepted", "closed"}]
    BY <1>1, <1>6, <2>0, RelayTypes, ServerAssumption DEF Slots
  <2>3. Len(fds') = n /\ fds'[n] = c /\ \A j \in 1..Len(fds) : fds'[j] = fds[j]
    BY <1>3, <2>0, <2>1, <2>2
  <2>4. \A j \in 1..Len(fds) : j \in Slots /\ j # n /\ info'[j] = info[j]
    BY <2>0, <2>1, <2>2 DEF Slots
  <2>5. relayed[c] = << >> /\ (taken[c] = 0 \/ Drained(c))
    BY <1>1, <1>3 DEF Unheard
  <2>6. (HeardIsSaid(n) /\ NameIsLine(n) /\ Emptied(n))'
    <3>1. ~info'[n].connected /\ info'[n].buffer = [info[n].buffer EXCEPT !.size = 0]
      BY <2>1, <2>2 DEF ClearBuffer
    <3>2. info'[n].buffer.size = 0
      <4>1. info[n].buffer \in Buffer
        BY <2>2 DEF ClientInfo
      <4> QED BY <3>1, <4>1 DEF Buffer
    <3>3. Heard(n)' = << >>
      BY <3>1 DEF Heard
    <3>4. 0 \in 0..Len(said[c]) /\ SubSeq(said[c], 1, 0) = << >>
      <4>1. said[c] \in Seq(Conns \cup {NL})
        BY <1>1, <1>3, RelayTypes
      <4> QED BY <4>1
    <3>5. fds'[n] = c /\ said'[c] = said[c] /\ taken'[c] = taken[c] /\ (Drained(c)' <=> Drained(c))
      BY <1>2, <2>3 DEF Drained, Rst
    <3>6. HeardIsSaid(n)'
      BY <2>5, <3>3, <3>4, <3>5 DEF HeardIsSaid, Drained, Rst
    <3>7. NameIsLine(n)' /\ Emptied(n)'
      BY <1>2, <2>5, <3>1, <3>2, <3>5 DEF NameIsLine, Emptied
    <3> QED BY <3>6, <3>7
  <2>7. Elements'
    <3> SUFFICES ASSUME NEW j \in 1..Len(fds'), j # n
                 PROVE  (HeardIsSaid(j) /\ NameIsLine(j) /\ Emptied(j))'
      BY <2>6 DEF Elements
    <3>1. j \in 1..Len(fds)
      BY <2>0, <2>2, <2>3
    <3>2. (AtHand(j)' <=> AtHand(j)) /\ ~AtHand(j)
      BY <1>2 DEF AtHand
    <3> QED BY <1>2, <2>3, <2>4, <3>1, <3>2, ElementKept
  <2>8. Unheard'
    <3> SUFFICES ASSUME NEW d \in Conns, link'[d] \in {"none", "queued"}
                 PROVE  relayed'[d] = << >> /\ (taken'[d] = 0 \/ Drained(d)')
      BY DEF Unheard
    <3>1. relayed[d] = << >> /\ (taken[d] = 0 \/ Drained(d))
      BY <1>1, <2>1, <2>2 DEF Unheard
    <3> QED BY <1>2, <3>1 DEF Drained, Rst
  <2>9. Gone'
    BY <1>2, GoneKept
  <2> QED BY <1>4, <2>7, <2>8, <2>9 DEF RelayInv
<1> QED BY <1>5, <1>6

\* A removal that moves no client.
LEMMA RelayRemove ==
  ASSUME RelayInv, RoundInv', InPlace, pc = "clients", i <= Len(fds), Remove
  PROVE  RelayInv'
<1>1. RoundInv /\ Handling
  BY DEF RelayInv
<1>2. /\ fds \in Seq(Conns) /\ Len(fds) \in Nat /\ i \in 1..Len(fds)
      /\ link \in [Conns -> {"none", "queued", "accepted", "closed"}]
  BY <1>1, RelayTypes
<1>3. /\ fds' = SwapPop(fds, i) /\ link' = [link EXCEPT ![fds[i]] = "closed"]
      /\ UNCHANGED <<info, messages, relayed, said, taken, peer>>
      /\ pc' \in {"clients", "poll"}
  <2>1. pc' \in {"clients", "poll"}
    <3>1. \E table : Handled("clients", table, i)
      BY DEF Remove
    <3> QED BY <1>1, <3>1, HandledCases, RelayTypes
  <2> QED BY <2>1 DEF Remove
<1>4. \A j \in 1..Len(fds') : j \in 1..Len(fds) /\ fds'[j] = fds[j]
  <2>1. Len(fds') = Len(fds) - 1
    BY <1>2, <1>3, SwapPopType
  <2> QED BY <1>2, <2>1 DEF InPlace
<1>5. Handling'
  BY <1>1, <1>3 DEF Handling
<1>6. \A c \in Conns : link'[c] \in {"none", "queued"} => link[c] \in {"none", "queued"}
  BY <1>2, <1>3
<1> QED BY <1>3, <1>4, <1>5, <1>6, RelayQuiet

\* The end of the loop or of the process.
LEMMA RelayEnd ==
  ASSUME RelayInv, RoundInv', pc # "collect", pc' \in {"stopped", "threw", "sigpipe"},
         fds' = << >>, CloseAll, UNCHANGED <<info, relayed, said, taken, peer>>
  PROVE  RelayInv'
<1>1. Handling' /\ pc' # "collect"
  BY DEF Handling
<1>2. \A j \in 1..Len(fds') : j \in 1..Len(fds) /\ fds'[j] = fds[j]
  OBVIOUS
<1>3. \A c \in Conns : link'[c] \in {"none", "queued"} => link[c] \in {"none", "queued"}
  BY DEF CloseAll
<1> QED BY <1>1, <1>2, <1>3, RelayQuiet

-----------------------------------------------------------------------------
(* Lines are collected and broadcast.                                      *)

\* The end of what ends where a line ends.
LEMMA EndOfLines ==
  ASSUME NEW s \in Seq(Byte), NEW t \in Seq(Byte), EndsInLine(s \o t)
  PROVE  EndsInLine(t)
<1> SUFFICES ASSUME t # << >> PROVE t[Len(t)] = NL
  BY DEF EndsInLine
<1> DEFINE u == s \o t
<1>1. /\ Len(u) = Len(s) + Len(t) /\ Len(s) \in Nat /\ Len(t) \in Nat
      /\ \A j \in 1..Len(t) : u[Len(s) + j] = t[j]
  BY Behind
<1>2. Len(t) > 0
  BY <1>1, EmptySeq
<1> HIDE DEF u
<1>3. u # << >> /\ Len(t) \in 1..Len(t)
  BY <1>1, <1>2
<1>4. u[Len(u)] = NL
  BY <1>3 DEF EndsInLine, u
<1> QED BY <1>1, <1>3, <1>4

\* Where no delimiter is left nothing is left.
LEMMA NothingLeft ==
  ASSUME NEW b \in Buffer, EndsInLine(Contents(b)), ~(FindDelim(b, NL) > 0)
  PROVE  b.size = 0 /\ Contents(b) = << >>
<1>1. b.size \in Nat /\ Len(Contents(b)) = b.size /\ \A j \in 1..b.size : Contents(b)[j] = b.mem[j]
  BY ContentsBytes
<1>2. \A j \in 1..b.size : b.mem[j] = NL => FindDelim(b, NL) > 0
  BY ArrayConstants, ArrayOperators, Array!FindDelimIs
<1>3. b.size = 0
  <2> SUFFICES ASSUME b.size # 0 PROVE FALSE
    OBVIOUS
  <2>1. b.size \in 1..b.size
    BY <1>1
  <2>2. Contents(b) # << >>
    BY <1>1
  <2>3. b.mem[b.size] = NL
    BY <1>1, <2>1, <2>2 DEF EndsInLine
  <2> QED BY <1>2, <2>1, <2>3
<1> QED BY <1>3, ContentsBytes

\* A client of which no more and no less is heard than before.
LEMMA HeardKept ==
  ASSUME RelayInv, NEW j \in 1..Len(fds), fds' = fds, Heard(j)' = Heard(j),
         UNCHANGED <<said, taken, peer>>
  PROVE  HeardIsSaid(j)'
<1>1. HeardIsSaid(j)
  BY DEF RelayInv, Elements
<1> QED BY <1>1 DEF HeardIsSaid, Drained, Rst

\* The other clients, when only what is at hand of client i changes.
LEMMA OthersKept ==
  ASSUME RelayInv, pc = "collect" \/ pc' = "collect" => i' = i, UNCHANGED <<fds, said, taken, peer>>,
         \A m \in 1..Len(fds) : m # i => info'[m] = info[m] /\ relayed'[fds[m]] = relayed[fds[m]],
         NEW j \in 1..Len(fds), j # i
  PROVE  (HeardIsSaid(j) /\ NameIsLine(j) /\ Emptied(j))'
<1>1. ~AtHand(j) /\ ~AtHand(j)'
  BY DEF AtHand
<1> QED BY <1>1, ElementKept

\* One more line is collected.
LEMMA RelayCollect ==
  ASSUME RelayInv, RoundInv', CollectLine
  PROVE  RelayInv'
<1>0. PICK e : e = i
  OBVIOUS
<1> DEFINE b == info[e].buffer
           f == FirstChunk(b, NL)
           r == ConsumeOnce(b, NL)
<1>1. RoundInv /\ Elements /\ Handling /\ Unheard
  BY DEF RelayInv
<1>2. /\ pc = "collect" /\ UNCHANGED <<pc, fds, i, link, peer, said, taken, relayed>>
      /\ messages' = [messages EXCEPT !.body = messages.body \o f]
      /\ info' = [info EXCEPT ![e].buffer = r]
  BY <1>0 DEF CollectLine, net
<1>3. /\ e \in 1..Len(fds) /\ e \in Slots /\ b \in Buffer
      /\ info \in [Slots -> ClientInfo] /\ messages \in Messages /\ messages.body \in Seq(Byte)
      /\ fds[e] \in Conns /\ relayed[fds[e]] \in Seq(Byte)
      /\ \A j \in 1..Len(fds) : j \in Slots
      /\ info[e].connected /\ EndsInLine(Contents(b))
  <2>1. e \in 1..Len(fds)
    BY <1>0, <1>1, <1>2, RelayTypes DEF RoundInv, TypeInv, InLoop
  <2> QED BY <1>0, <1>1, <1>2, <2>1, RelayTypes DEF Handling
<1>4. r \in Buffer /\ f \in Seq(Byte) /\ f \o Contents(r) = Contents(b) /\ Contents(r) \in Seq(Byte)
  BY <1>3, ConsumeContents, ContentsBytes
<1> HIDE DEF f, r
<1>5. /\ info'[e].buffer = r /\ info'[e].name = info[e].name
      /\ info'[e].connected = info[e].connected
      /\ \A j \in 1..Len(fds) : j # e => info'[j] = info[j]
      /\ messages'.body = messages.body \o f
  <2>1. info[e] \in ClientInfo
    BY <1>3
  <2>2. info'[e] = [info[e] EXCEPT !.buffer = r]
    BY <1>2, <1>3
  <2>3. /\ [info[e] EXCEPT !.buffer = r].buffer = r
        /\ [info[e] EXCEPT !.buffer = r].name = info[e].name
        /\ [info[e] EXCEPT !.buffer = r].connected = info[e].connected
    BY <2>1 DEF ClientInfo
  <2>4. \A j \in 1..Len(fds) : j # e => info'[j] = info[j]
    BY <1>2, <1>3
  <2>5. messages'.body = messages.body \o f
    BY <1>2, <1>3 DEF Messages
  <2> QED BY <2>2, <2>3, <2>4, <2>5
<1>6. (messages.body \o f) \o Contents(r) = messages.body \o Contents(b)
  <2>1. messages.body \in Seq(Byte) /\ f \in Seq(Byte) /\ Contents(r) \in Seq(Byte)
    BY <1>3, <1>4
  <2> DEFINE t == Contents(r)
             u == messages.body
  <2>2. (u \o f) \o t = u \o (f \o t)
    <3>1. u \in Seq(Byte) /\ f \in Seq(Byte) /\ t \in Seq(Byte)
      BY <2>1
    <3> HIDE DEF t, u
    <3> QED BY <3>1, ConcatAssociative
  <2> QED BY <1>4, <2>2
<1>7. Heard(e)' = Heard(e)
  <2>1. Collected(e) = messages.body /\ Collected(e)' = messages.body \o f
    BY <1>0, <1>2, <1>5 DEF Collected, AtHand
  <2>2. Contents(info[e].buffer)' = Contents(r)
    BY <1>2, <1>5
  <2>3. (Collected(e) \o Contents(info[e].buffer))' = Collected(e) \o Contents(info[e].buffer)
    BY <1>6, <2>1, <2>2
  <2>4. /\ info'[e].connected = info[e].connected /\ info'[e].name = info[e].name
        /\ relayed'[fds'[e]] = relayed[fds[e]]
    BY <1>2, <1>5
  <2> QED BY <2>3, <2>4 DEF Heard
<1>8. Elements'
  <2>1. HeardIsSaid(e)'
    BY <1>2, <1>3, <1>7, HeardKept
  <2>2. NameIsLine(e)' /\ Emptied(e)'
    BY <1>0, <1>1, <1>2, <1>3, <1>5 DEF Elements, NameIsLine, Emptied, AtHand
  <2>3. ASSUME NEW j \in 1..Len(fds), j # e
        PROVE  (HeardIsSaid(j) /\ NameIsLine(j) /\ Emptied(j))'
    BY <1>0, <1>2, <1>5, <2>3, OthersKept
  <2> QED BY <1>2, <2>1, <2>2, <2>3 DEF Elements
<1>9. Handling'
  <2>1. EndsInLine(Contents(r))
    BY <1>3, <1>4, EndOfLines
  <2> QED BY <1>0, <1>2, <1>3, <1>5, <2>1 DEF Handling
<1>10. Unheard' /\ Gone'
  BY <1>1, <1>2, GoneKept DEF Unheard, Drained, Rst
<1> QED BY <1>8, <1>9, <1>10 DEF RelayInv

\* All lines are collected: the buffer is empty, and they are broadcast if
\* there are any.
LEMMA RelayCollectEnd ==
  ASSUME RelayInv, RoundInv', CollectEnd
  PROVE  RelayInv'
<1>0. PICK e : e = i
  OBVIOUS
<1> DEFINE b == info[e].buffer
<1>1. RoundInv /\ Elements /\ Handling /\ Unheard
  BY DEF RelayInv
<1>2. /\ pc = "collect" /\ UNCHANGED <<fds, info, link, peer, said, taken>>
      /\ ~(FindDelim(b, NL) > 0)
  BY <1>0 DEF CollectEnd, AnotherLine, net
<1>3. /\ e \in 1..Len(fds) /\ b \in Buffer
      /\ messages \in Messages /\ messages.body \in Seq(Byte) /\ nready \in Nat
      /\ fds[e] \in Conns /\ relayed \in [Conns -> Seq(Byte)]
      /\ \A j \in 1..Len(fds) : fds[j] \in Conns /\ (fds[j] = fds[e] => j = e)
      /\ info[e].connected /\ EndsInLine(Contents(b))
      /\ link[fds[e]] = "accepted"
  <2>1. e \in 1..Len(fds)
    BY <1>0, <1>1, <1>2, RelayTypes DEF RoundInv, TypeInv, InLoop
  <2> QED BY <1>0, <1>1, <1>2, <2>1, RelayTypes DEF Handling
<1>4. b.size = 0 /\ Contents(b) = << >>
  BY <1>2, <1>3, NothingLeft
<1>5. Collected(e) = messages.body /\ messages.body \o << >> = messages.body
  BY <1>0, <1>2, <1>3 DEF Collected, AtHand
<1>6. /\ pc' \in {"write", "clients", "poll"} /\ (pc' = "write" => i' = i)
      /\ pc' # "write" => messages.body = << >> /\ UNCHANGED <<messages, relayed>>
      /\ pc' = "write" => /\ messages'.name = info[e].name
                          /\ relayed' = [relayed EXCEPT ![fds[e]] = @ \o messages.body]
  <2>1. CASE messages.body = << >>
    <3>1. Handled("clients", pollfds, i + 1) /\ UNCHANGED <<messages, relayed>>
      BY <1>0, <2>1 DEF CollectEnd
    <3>2. pc' \in {"clients", "poll"}
      BY <1>3, <3>1, HandledCases
    <3> QED BY <2>1, <3>1, <3>2
  <2>2. CASE messages.body # << >>
    BY <1>0, <1>3, <2>2 DEF CollectEnd, Messages
  <2> QED BY <2>1, <2>2
<1>7. /\ relayed'[fds[e]] = relayed[fds[e]] \o messages.body
      /\ \A c \in Conns : c # fds[e] => relayed'[c] = relayed[c]
  <2>1. CASE pc' = "write"
    BY <1>3, <1>6, <2>1
  <2>2. CASE pc' # "write"
    <3>1. relayed[fds[e]] \o << >> = relayed[fds[e]]
      BY <1>3
    <3> QED BY <1>6, <2>2, <3>1
  <2> QED BY <2>1, <2>2
<1>8. Heard(e)' = Heard(e)
  <2> DEFINE name == info[e].name \o << NL >>
  <2>1. Collected(e)' = << >>
    BY <1>0, <1>6 DEF Collected, AtHand
  <2>2. Heard(e) = name \o (relayed[fds[e]] \o (messages.body \o << >>))
    BY <1>3, <1>4, <1>5 DEF Heard
  <2>3. Heard(e)' = name \o ((relayed[fds[e]] \o messages.body) \o (<< >> \o << >>))
    BY <1>2, <1>3, <1>4, <1>7, <2>1 DEF Heard
  <2>4. << >> \o << >> = << >> /\ relayed[fds[e]] \o messages.body \in Seq(Byte)
    BY <1>3, ConcatProperties
  <2>5. (relayed[fds[e]] \o messages.body) \o << >> = relayed[fds[e]] \o messages.body
    BY <2>4, ConcatEmptySeq
  <2> HIDE DEF name
  <2> QED BY <1>5, <2>2, <2>3, <2>4, <2>5
<1>9. Elements'
  <2>1. HeardIsSaid(e)'
    BY <1>2, <1>3, <1>8, HeardKept
  <2>2. NameIsLine(e)' /\ Emptied(e)'
    BY <1>1, <1>2, <1>3, <1>4 DEF Elements, NameIsLine, Emptied
  <2>3. ASSUME NEW j \in 1..Len(fds), j # e
        PROVE  (HeardIsSaid(j) /\ NameIsLine(j) /\ Emptied(j))'
    <3>1. ~AtHand(j) /\ ~AtHand(j)'
      BY <1>0, <1>6, <2>3 DEF AtHand
    <3>2. relayed'[fds[j]] = relayed[fds[j]]
      BY <1>3, <1>7, <2>3
    <3> QED BY <1>2, <2>3, <3>1, <3>2, ElementKept
  <2> QED BY <1>2, <2>1, <2>2, <2>3 DEF Elements
<1>10. Handling'
  BY <1>0, <1>2, <1>3, <1>6 DEF Handling
<1>11. Unheard' /\ Gone'
  <2>1. \A c \in Conns : link'[c] # "accepted" => relayed'[c] = relayed[c]
    BY <1>2, <1>3, <1>7
  <2>2. Gone'
    BY <1>2, <2>1, GoneKept
  <2>3. Unheard'
    BY <1>1, <1>2, <2>1 DEF Unheard, Drained, Rst
  <2> QED BY <2>2, <2>3
<1> QED BY <1>9, <1>10, <1>11 DEF RelayInv

-----------------------------------------------------------------------------
(* Whole lines are read.                                                   *)

\* What is read into an empty buffer is its contents.
LEMMA ReadContents ==
  ASSUME NEW b \in Buffer, b.size = 0, NEW bytes \in Seq(Byte), Len(bytes) <= FreeSpace(b),
         NEW unknown \in [Uncovered(b, Len(bytes)) -> {Junk, NL}]
  PROVE  /\ Receives(b, bytes, unknown) \in Buffer
         /\ Contents(Receives(b, bytes, unknown)) = bytes
<1> DEFINE n == Len(bytes)
           m == [j \in 1..Cap |-> IF j - 0 \in 1..n THEN bytes[j - 0] ELSE b.mem[j]]
           s == Store(b, 0, bytes)
           t == IncreaseSize(s, n)
           u == [j \in 1..Cap |-> IF j \in DOMAIN unknown THEN unknown[j] ELSE t.mem[j]]
           r == Receives(b, bytes, unknown)
<1>1. n \in 0..Cap /\ n \in Nat /\ Cap \in Nat /\ b.mem \in [1..Cap -> Byte]
  BY LenProperties, ServerAssumption DEF FreeSpace, Buffer
<1>2. r \in Buffer
  BY <1>1, ReceivesType
<1>3. m \in [1..Cap -> Byte] /\ \A j \in 1..n : m[j] = bytes[j]
  <2>1. \A j \in 1..n : bytes[j] \in Byte
    BY ElementOfSeq
  <2>2. \A j \in 1..n : j \in 1..Cap /\ j - 0 = j
    BY <1>1
  <2>3. \A j \in 1..Cap : j - 0 \in 1..n => j - 0 = j
    BY <1>1
  <2> HIDE DEF n
  <2> QED BY <1>1, <2>1, <2>2, <2>3
<1>4. s = [b EXCEPT !.mem = m]
  BY DEF Store
<1> HIDE DEF m
<1>5. s \in Buffer /\ s.size = 0 /\ s.mem = m
  <2> HIDE DEF s
  <2>1. s.size = b.size
    BY <1>3, <1>4, SetMem
  <2> QED BY <1>3, <1>4, <2>1, SetMem
<1>6. t = [s EXCEPT !.size = n]
  <2> HIDE DEF s
  <2> QED BY <1>1, <1>5 DEF IncreaseSize, Buffer
<1> HIDE DEF s, n
<1>7. t \in Buffer /\ t.size = n /\ t.mem = m
  BY <1>1, <1>5, <1>6, SetSize
<1>8. DOMAIN unknown = {}
  <2>1. DOMAIN unknown = Uncovered(b, n)
    BY DEF n
  <2>2. (n + 1)..(b.size + n) = {}
    BY <1>1
  <2> QED BY <2>1, <2>2 DEF Uncovered
<1> HIDE DEF t
<1>9. u \in [1..Cap -> Byte] /\ u = m
  BY <1>3, <1>7, <1>8
<1>10. r = [t EXCEPT !.mem = u]
  BY DEF Receives, t, s, n
<1> HIDE DEF u, r
<1>11. r.size = n /\ r.mem = m
  BY <1>7, <1>9, <1>10, SetMem
<1>12. Contents(r) = bytes
  <2>1. r \in Array!Buffer /\ bytes \in Seq(Array!Byte) /\ r.size = Len(bytes)
        /\ \A j \in 1..r.size : r.mem[j] = bytes[j]
    BY <1>2, <1>3, <1>11, ArrayOperators DEF n
  <2>2. Array!Contents(r) = bytes
    BY <2>1, ArrayConstants, Array!ContentsEqual
  <2> QED BY <2>2, ArrayOperators
<1> QED BY <1>2, <1>12 DEF r

\* A client that has no name takes the first of the lines that were read.
LEMMA NamedIs ==
  ASSUME NEW client \in ClientInfo, ~client.connected,
         NEW bytes \in Seq(Conns \cup {NL}), Contents(client.buffer) = bytes,
         bytes # << >>, bytes[Len(bytes)] = NL
  PROVE  /\ Named(client).connected
         /\ Named(client).name \in Seq(Conns)
         /\ Named(client).buffer \in Buffer
         /\ (Named(client).name \o << NL >>) \o Contents(Named(client).buffer) = bytes
         /\ EndsInLine(Contents(Named(client).buffer))
<1> DEFINE b == client.buffer
           n == FindDelim(b, NL)
           line == FirstChunk(b, NL)
           rest == ConsumeOnce(b, NL)
           name == SubSeq(line, 1, Len(line) - 1)
<1>1. b \in Buffer /\ bytes \in Seq(Byte)
  BY SentBytes DEF ClientInfo
<1>2. /\ b.size = Len(bytes) /\ b.size \in Nat /\ \A j \in 1..b.size : bytes[j] = b.mem[j]
      /\ b.size > 0
  BY <1>1, ContentsBytes, EmptySeq
<1>3. /\ n \in 0..b.size
      /\ \A j \in 1..b.size : b.mem[j] = NL => n > 0 /\ n <= j
      /\ n > 0 => b.mem[n] = NL
  BY <1>1, ArrayConstants, ArrayOperators, Array!FindDelimIs
<1>4. /\ rest \in Buffer /\ line \in Seq(Byte) /\ Len(line) = n
      /\ line = SubSeq(bytes, 1, n)
      /\ line \o Contents(rest) = bytes
  <2>1. line = SubSeq(Contents(b), 1, n)
    BY <1>1, ArrayConstants, ArrayOperators, Array!ConsumeContents
  <2> QED BY <1>1, <2>1, ConsumeContents
<1> HIDE DEF b, n, line, rest
<1>5. n \in 1..b.size /\ n \in Nat /\ bytes[n] = NL
  <2>1. b.size \in 1..b.size
    BY <1>2
  <2>2. n > 0
    BY <1>2, <1>3, <2>1
  <2> QED BY <1>2, <1>3, <2>2
<1>6. \A j \in 1..(n - 1) : bytes[j] \in Conns
  <2> SUFFICES ASSUME NEW j \in 1..(n - 1) PROVE bytes[j] \in Conns
    OBVIOUS
  <2>1. j \in 1..b.size /\ ~(n <= j)
    BY <1>2, <1>5
  <2>2. bytes[j] # NL
    BY <1>2, <1>3, <2>1
  <2>3. bytes[j] \in Conns \cup {NL}
    BY <1>2, <2>1, ElementOfSeq
  <2> QED BY <2>2, <2>3
<1>7. \A j \in 1..n : line[j] = bytes[j]
  <2>1. n \in 0..Len(bytes)
    BY <1>2, <1>5
  <2> QED BY <1>4, <2>1
<1>8. name \in Seq(Conns) /\ Len(name) = n - 1 /\ \A j \in 1..(n - 1) : name[j] = line[j]
  <2>1. /\ n - 1 \in 0..Len(line) /\ n - 1 \in Nat /\ name = SubSeq(line, 1, n - 1)
        /\ \A j \in 1..(n - 1) : j \in 1..n
    BY <1>4, <1>5
  <2>2. /\ SubSeq(line, 1, n - 1) \in Seq(Byte) /\ Len(SubSeq(line, 1, n - 1)) = n - 1
        /\ \A j \in 1..(n - 1) : SubSeq(line, 1, n - 1)[j] = line[j]
    BY <1>4, <2>1
  <2> DEFINE q == SubSeq(line, 1, n - 1)
  <2> HIDE DEF q
  <2>3. \A j \in 1..Len(q) : q[j] \in Conns
    BY <1>6, <1>7, <2>1, <2>2 DEF q
  <2>4. q \in [1..Len(q) -> Conns] /\ Len(q) \in Nat
    BY <2>1, <2>2, <2>3, LenProperties DEF q
  <2>5. q \in Seq(Conns)
    BY <2>4
  <2> QED BY <2>1, <2>2, <2>5 DEF q
<1> HIDE DEF name
<1>9. name \o << NL >> = line
  <2> DEFINE f == name \o << NL >>
  <2>1. name \in Seq(Byte) /\ << NL >> \in Seq(Byte)
    <3>1. Conns \subseteq Byte /\ NL \in Byte
      BY DEF Byte
    <3> QED BY <1>8, <3>1, SeqMonotonic
  <2>2. /\ f \in Seq(Byte) /\ Len(f) = (n - 1) + 1
        /\ \A j \in 1..(n - 1) : f[j] = name[j]
        /\ f[(n - 1) + 1] = NL
    BY <1>8, <2>1
  <2>3. (n - 1) + 1 = n /\ \A j \in 1..n : j \in 1..(n - 1) \/ j = n
    BY <1>5
  <2>4. line[n] = NL
    BY <1>5, <1>7
  <2> HIDE DEF f
  <2>5. f \in Seq(Byte) /\ Len(f) = n /\ \A j \in 1..n : f[j] = line[j]
    BY <1>8, <2>2, <2>3, <2>4
  <2>6. f = line
    BY <1>4, <2>5, SeqEqual
  <2> QED BY <2>6 DEF f
<1>10. Named(client) = [name |-> name, connected |-> TRUE, buffer |-> rest]
  <2>1. line # << >>
    BY <1>4, <1>5, EmptySeq
  <2> QED BY <2>1 DEF Named, b, line, name, rest
<1>11. EndsInLine(Contents(rest))
  <2>1. Contents(rest) \in Seq(Byte)
    BY <1>4, ContentsBytes
  <2>2. EndsInLine(line \o Contents(rest))
    BY <1>4 DEF EndsInLine
  <2> QED BY <1>4, <2>1, <2>2, EndOfLines
<1> DEFINE r == Named(client)
<1>12. r.connected /\ r.name = name /\ r.buffer = rest
  BY <1>10
<1> HIDE DEF r
<1>13. /\ r.connected /\ r.name \in Seq(Conns) /\ r.buffer \in Buffer
       /\ (r.name \o << NL >>) \o Contents(r.buffer) = bytes
       /\ EndsInLine(Contents(r.buffer))
  BY <1>4, <1>8, <1>9, <1>11, <1>12
<1> QED BY <1>13 DEF r

\* A read of whole lines: they come behind what was read, and nothing is in
\* the buffer but lines.
LEMMA RelayRead ==
  ASSUME RelayInv, RoundInv', ReadData, WholeReads
  PROVE  RelayInv'
<1>0. PICK e : e = i
  OBVIOUS
<1>1. PICK c : c = fds[e]
  OBVIOUS
<1>2. PICK s : s = said[c]
  OBVIOUS
<1>3. PICK m : m = taken[c]
  OBVIOUS
<1>4. PICK client : client = info[e]
  OBVIOUS
<1> DEFINE b == client.buffer
           n == ReadSize(c, b)
           bytes == SubSeq(s, m + 1, m + n)
           got(unknown) == [client EXCEPT !.buffer = Receives(b, bytes, unknown)]
<1>5. RoundInv /\ Elements /\ Handling /\ Unheard
  BY DEF RelayInv
<1>6. /\ pc = "clients" /\ e \in 1..Len(fds) /\ e \in Slots
      /\ c \in Conns /\ client \in ClientInfo /\ b \in Buffer /\ info \in [Slots -> ClientInfo]
      /\ s \in Seq(Conns \cup {NL}) /\ Len(s) \in Nat /\ m \in 0..Len(s)
      /\ taken \in [Conns -> Nat] /\ link[c] = "accepted"
      /\ \A j \in 1..Len(fds) : j \in Slots /\ fds[j] \in Conns /\ (fds[j] = c => j = e)
      /\ relayed[c] \in Seq(Byte) /\ nready \in Nat
  <2>1. pc = "clients" /\ i <= Len(fds)
    BY DEF ReadData, Reading
  <2>2. e \in 1..Len(fds)
    BY <1>0, <1>5, <2>1, RelayTypes
  <2>3. c \in Conns
    BY <1>1, <1>5, <2>2, RelayTypes
  <2>4. /\ e \in Slots /\ client \in ClientInfo /\ b \in Buffer /\ info \in [Slots -> ClientInfo]
        /\ link[c] = "accepted" /\ nready \in Nat
    BY <1>1, <1>4, <1>5, <2>2, RelayTypes
  <2>5. /\ s \in Seq(Conns \cup {NL}) /\ Len(s) \in Nat /\ m \in 0..Len(s)
        /\ taken \in [Conns -> Nat] /\ relayed[c] \in Seq(Byte)
    BY <1>2, <1>3, <1>5, <2>3, RelayTypes
  <2>6. \A j \in 1..Len(fds) : j \in Slots /\ fds[j] \in Conns /\ (fds[j] = c => j = e)
    BY <1>1, <1>5, <2>2, RelayTypes
  <2> QED BY <2>1, <2>2, <2>3, <2>4, <2>5, <2>6
<1>7. b.size = 0 /\ Contents(b) = << >> /\ messages.body = << >>
  <2>1. b.size = 0
    BY <1>4, <1>5, <1>6 DEF Elements, Emptied, AtHand
  <2> QED BY <1>5, <1>6, <2>1, ContentsBytes DEF Handling
<1>8. /\ n > 0 /\ taken' = [taken EXCEPT ![c] = m + n]
      /\ \E unknown \in [Uncovered(b, n) -> {Junk, NL}] :
           info' = [info EXCEPT ![e] = Named(got(unknown))]
      /\ UNCHANGED <<fds, messages, relayed, said, peer, link>>
      /\ IF info'[e].connected
         THEN pc' = "collect" /\ i' = i
         ELSE Handled("clients", pollfds, e + 1)
  BY <1>0, <1>1, <1>2, <1>3, <1>4 DEF ReadData
<1>9. n \in 1..(Len(s) - m) /\ n <= FreeSpace(b)
  <2>1. Pending(c) = Len(s) - m
    BY <1>2, <1>3 DEF Pending
  <2>2. FreeSpace(b) \in Nat /\ Pending(c) \in Nat
    BY <1>6, <2>1, ServerAssumption DEF FreeSpace, Buffer
  <2> QED BY <1>8, <2>1, <2>2 DEF ReadSize
<1> HIDE DEF n
<1>10. /\ bytes \in Seq(Conns \cup {NL}) /\ Len(bytes) = n
       /\ bytes[n] = s[m + n]
       /\ SubSeq(s, 1, m + n) = SubSeq(s, 1, m) \o bytes
       /\ m + n \in 0..Len(s)
  <2>1. n \in 0..(Len(s) - m) /\ n \in 1..n /\ m + n \in 0..Len(s)
    BY <1>6, <1>9
  <2>2. Array!GoesOn(Conns \cup {NL}, s, m, n, bytes)
    <3>1. /\ s \in Seq(Conns \cup {NL}) /\ m \in 0..Len(s) /\ n \in 0..(Len(s) - m)
      BY <1>6, <2>1
    <3> QED BY <3>1, ArrayConstants, Array!FrontAndNext
  <2> HIDE DEF bytes
  <2> QED BY <2>1, <2>2 DEF Array!GoesOn
<1> HIDE DEF bytes
<1>11. bytes # << >> /\ bytes[Len(bytes)] = NL /\ bytes \in Seq(Byte) /\ EndsInLine(bytes)
  <2>1. taken'[c] = m + n
    BY <1>6, <1>8
  <2>2. s[m + n] = NL
    BY <1>0, <1>1, <1>2, <2>1 DEF WholeReads
  <2>3. bytes # << >>
    BY <1>9, <1>10, EmptySeq
  <2> QED BY <1>10, <2>2, <2>3, SentBytes DEF EndsInLine
<1>12. PICK unknown \in [Uncovered(b, n) -> {Junk, NL}] :
         info' = [info EXCEPT ![e] = Named(got(unknown))]
  BY <1>8
<1> DEFINE full == got(unknown)
<1>13. /\ full \in ClientInfo /\ full.buffer \in Buffer /\ Contents(full.buffer) = bytes
       /\ full.connected = client.connected /\ full.name = client.name
  <2> DEFINE r == Receives(b, bytes, unknown)
  <2>1. r \in Buffer /\ Contents(r) = bytes
    <3>1. Len(bytes) <= FreeSpace(b) /\ unknown \in [Uncovered(b, Len(bytes)) -> {Junk, NL}]
      BY <1>9, <1>10, <1>12
    <3> HIDE DEF b
    <3> QED BY <1>6, <1>7, <1>11, <3>1, ReadContents
  <2> HIDE DEF r
  <2>2. full = [client EXCEPT !.buffer = r]
    BY DEF r
  <2> HIDE DEF full
  <2>3. full \in ClientInfo /\ full.buffer = r
        /\ full.connected = client.connected /\ full.name = client.name
    BY <1>6, <2>1, <2>2 DEF ClientInfo
  <2> QED BY <2>1, <2>3
<1> HIDE DEF full
<1> DEFINE now == Named(full)
<1>14. now \in ClientInfo /\ info'[e] = now /\ \A j \in 1..Len(fds) : j # e => info'[j] = info[j]
  <2>1. now \in ClientInfo
    BY <1>13, NamedType
  <2>2. info' = [info EXCEPT ![e] = now]
    BY <1>12 DEF full
  <2> HIDE DEF now
  <2> QED BY <1>6, <2>1, <2>2
<1>15. Heard(e) = SubSeq(s, 1, m)
  <2>1. HeardIsSaid(e)
    BY <1>5, <1>6 DEF Elements
  <2>2. ~Drained(c)
    BY <1>2, <1>3, <1>9, <1>6 DEF Drained
  <2> QED BY <1>1, <1>2, <1>3, <2>1, <2>2 DEF HeardIsSaid
<1> DEFINE r == relayed[c]
<1>16. /\ now.connected /\ now.name \in Seq(Conns) /\ EndsInLine(Contents(now.buffer))
       /\ (now.name \o << NL >>) \o (r \o (messages.body \o Contents(now.buffer)))
            = SubSeq(s, 1, m + n)
  <2>1. CASE client.connected
    <3>1. now = full
      BY <1>13, <2>1 DEF Named
    <3> DEFINE name == client.name \o << NL >>
    <3>2. client.name \in Seq(Conns)
      BY <1>4, <1>5, <1>6, <2>1 DEF Elements, NameIsLine
    <3>3. name \in Seq(Byte)
      <4>1. Conns \subseteq Byte /\ NL \in Byte
        BY DEF Byte
      <4>2. client.name \in Seq(Byte) /\ << NL >> \in Seq(Byte)
        BY <3>2, <4>1, SeqMonotonic
      <4> QED BY <4>2, ConcatProperties
    <3>4. Heard(e) = name \o (r \o (<< >> \o << >>))
      <4>1. Collected(e) = << >>
        BY <1>6 DEF Collected, AtHand
      <4> QED BY <1>1, <1>4, <1>7, <2>1, <4>1 DEF Heard
    <3> HIDE DEF name, r
    <3>5. r \in Seq(Byte)
      BY <1>6 DEF r
    <3>6. << >> \o << >> = << >> /\ r \o << >> = r /\ << >> \o bytes = bytes
      BY <1>11, <3>5, ConcatEmptySeq
    <3>7. SubSeq(s, 1, m + n) = (name \o r) \o bytes
      BY <1>10, <1>15, <3>4, <3>6
    <3>8. (name \o r) \o bytes = name \o (r \o bytes)
      BY <1>11, <3>3, <3>5, ConcatAssociative
    <3>9. now.name \o << NL >> = name /\ messages.body \o Contents(now.buffer) = bytes
      BY <1>7, <1>13, <3>1, <3>6 DEF name
    <3>10. now.connected /\ now.name \in Seq(Conns) /\ EndsInLine(Contents(now.buffer))
      BY <1>11, <1>13, <2>1, <3>1, <3>2
    <3> QED BY <3>7, <3>8, <3>9, <3>10
  <2>2. CASE ~client.connected
    <3>1. /\ now.connected /\ now.name \in Seq(Conns) /\ now.buffer \in Buffer
          /\ (now.name \o << NL >>) \o Contents(now.buffer) = bytes
          /\ EndsInLine(Contents(now.buffer))
      BY <1>10, <1>11, <1>13, <2>2, NamedIs
    <3>2. Heard(e) = << >> /\ r = << >>
      BY <1>1, <1>4, <1>5, <1>6, <2>2 DEF Heard, Elements, NameIsLine
    <3> HIDE DEF now, r
    <3>3. Contents(now.buffer) \in Seq(Byte)
      BY <3>1, ContentsBytes
    <3>4. r \o (messages.body \o Contents(now.buffer)) = Contents(now.buffer)
      BY <1>7, <3>2, <3>3, ConcatEmptySeq
    <3>5. SubSeq(s, 1, m + n) = bytes
      BY <1>10, <1>11, <1>15, <3>2, ConcatEmptySeq
    <3> QED BY <3>1, <3>4, <3>5
  <2> QED BY <2>1, <2>2
<1> HIDE DEF now
<1>17. pc' = "collect" /\ i' = i /\ taken'[c] = m + n /\ \A d \in Conns : d # c => taken'[d] = taken[d]
  BY <1>6, <1>8, <1>14, <1>16
<1>18. Elements'
  <2>1. HeardIsSaid(e)'
    <3>1. AtHand(e)' /\ Collected(e)' = messages.body
      BY <1>0, <1>8, <1>17 DEF Collected, AtHand
    <3>2. info'[e] = now /\ fds'[e] = c /\ relayed'[c] = r /\ said'[c] = s
      BY <1>1, <1>2, <1>8, <1>14
    <3>3. Contents(info[e].buffer)' = Contents(now.buffer)
      BY <3>2
    <3>4. Heard(e)' = (now.name \o << NL >>) \o (r \o (messages.body \o Contents(now.buffer)))
      BY <1>16, <3>1, <3>2, <3>3 DEF Heard
    <3>5. Heard(e)' = SubSeq(s, 1, m + n)
      BY <1>16, <3>4
    <3> QED BY <1>10, <1>17, <3>2, <3>5 DEF HeardIsSaid
  <2>2. NameIsLine(e)' /\ Emptied(e)'
    BY <1>0, <1>14, <1>16, <1>17 DEF NameIsLine, Emptied, AtHand
  <2>3. ASSUME NEW j \in 1..Len(fds), j # e
        PROVE  (HeardIsSaid(j) /\ NameIsLine(j) /\ Emptied(j))'
    <3>1. ~AtHand(j) /\ ~AtHand(j)'
      BY <1>0, <1>17, <2>3 DEF AtHand
    <3>2. taken'[fds[j]] = taken[fds[j]]
      BY <1>6, <1>17, <2>3
    <3>3. /\ fds'[j] = fds[j] /\ info'[j] = info[j]
          /\ relayed'[fds[j]] = relayed[fds[j]] /\ said'[fds[j]] = said[fds[j]]
          /\ peer'[fds[j]] = peer[fds[j]]
      BY <1>8, <1>14, <2>3
    <3> QED BY <3>1, <3>2, <3>3, ElementKept
  <2> QED BY <1>8, <2>1, <2>2, <2>3 DEF Elements
<1>19. Handling'
  BY <1>0, <1>14, <1>16, <1>17 DEF Handling
<1>20. Unheard'
  <2> SUFFICES ASSUME NEW d \in Conns, link'[d] \in {"none", "queued"}
               PROVE  relayed'[d] = << >> /\ (taken'[d] = 0 \/ Drained(d)')
    BY DEF Unheard
  <2>1. d # c
    BY <1>6, <1>8
  <2>2. relayed[d] = << >> /\ (taken[d] = 0 \/ Drained(d))
    BY <1>5, <1>8 DEF Unheard
  <2> QED BY <1>8, <1>17, <2>1, <2>2 DEF Drained, Rst
<1>21. Gone'
  BY <1>8, GoneKept
<1> QED BY <1>18, <1>19, <1>20, <1>21 DEF RelayInv

-----------------------------------------------------------------------------
(* The theorems.                                                           *)

\* The steps of the loop.
LEMMA RelayServer ==
  ASSUME RelayInv, RoundInv', Server, LinesArriveWhole
  PROVE  RelayInv'
<1>1. RoundInv /\ Handling
  BY DEF RelayInv
<1>2. nready \in Nat
  BY <1>1, RelayTypes
<1> DEFINE Idle == /\ UNCHANGED <<fds, info, relayed, said, taken, peer, link>>
                   /\ pc # "collect" /\ pc' # "collect"
<1>3. ASSUME Idle, Handling' PROVE RelayInv'
  BY <1>3, RelayQuiet
<1>4. CASE Poll
  <2>1. Idle /\ pc = "poll" /\ pc' = "accept" /\ messages' = messages
    BY <1>4 DEF Poll, net
  <2> QED BY <1>1, <1>3, <2>1 DEF Handling
<1>5. CASE NoAccept \/ NoSignal
  <2>1. Idle /\ pc \in {"accept", "signal"} /\ pc' \in {"signal", "clients"} /\ messages' = messages
    BY <1>5 DEF NoAccept, NoSignal, server, net
  <2> QED BY <1>1, <1>3, <2>1 DEF Handling
<1>6. CASE PassClient
  <2>1. Idle /\ pc = "clients" /\ pc' \in {"clients", "poll"} /\ messages' = messages
    BY <1>6 DEF PassClient, NextRound, LeaveRound, net
  <2> QED BY <1>1, <1>3, <2>1 DEF Handling
<1>7. CASE SkipSender \/ WriteClient
  <2>1. Idle /\ pc = "write" /\ pc' = "write" /\ messages' = messages /\ i' = i
    BY <1>7 DEF SkipSender, WriteClient, Writing, net
  <2> QED BY <1>1, <1>3, <2>1 DEF Handling
<1>8. CASE WriteEnd
  <2>1. Handled("clients", pollfds, i + 1)
    BY <1>8 DEF WriteEnd
  <2>2. Idle /\ pc' \in {"clients", "poll"} /\ messages'.body = << >>
    BY <1>2, <1>8, <2>1, HandledCases DEF WriteEnd, NoMessages, net
  <2> QED BY <1>3, <2>2 DEF Handling
<1>9. CASE Accept
  BY <1>9, RelayAccept
<1>10. CASE RemoveFailed
  BY <1>10, RelayRemove DEF RemoveFailed, LinesArriveWhole
<1>11. CASE ReadEnd
  BY <1>11, RelayRemove DEF ReadEnd, Reading, LinesArriveWhole
<1>12. CASE ReadFails
  BY <1>12, RelayEnd DEF ReadFails, Reading, Die, LeaveRound
<1>13. CASE WriteFails
  <2>1. pc = "write" /\ Die(IF Fin(fds[k]) THEN "sigpipe" ELSE "threw")
    BY <1>13 DEF WriteFails, Writing
  <2> QED BY <2>1, RelayEnd DEF Die, LeaveRound
<1>14. CASE Signal
  BY <1>14, RelayEnd DEF Signal, LeaveRound
<1>15. CASE ReadData
  BY <1>15, RelayRead DEF LinesArriveWhole
<1>16. CASE CollectLine
  BY <1>16, RelayCollect
<1>17. CASE CollectEnd
  BY <1>17, RelayCollectEnd
<1> QED BY <1>4, <1>5, <1>6, <1>7, <1>8, <1>9, <1>10, <1>11, <1>12, <1>13, <1>14,
           <1>15, <1>16, <1>17 DEF Server

LEMMA RelayStep ==
  ASSUME RelayInv, [Next]_vars, [LinesArriveWhole]_vars
  PROVE  RelayInv'
<1>1. RoundInv'
  BY RoundStep DEF RelayInv
<1>2. CASE UNCHANGED vars
  <2>1. UNCHANGED <<pc, fds, info, i, messages, link, peer, said, taken, relayed>>
    BY <1>2 DEF vars, server, net
  <2>2. Elements'
    <3> SUFFICES ASSUME NEW j \in 1..Len(fds) PROVE (HeardIsSaid(j) /\ NameIsLine(j) /\ Emptied(j))'
      BY <2>1 DEF Elements
    <3>1. AtHand(j)' <=> AtHand(j)
      BY <2>1 DEF AtHand
    <3> QED BY <2>1, <3>1, ElementKept
  <2>3. Handling' /\ Unheard'
    BY <2>1 DEF RelayInv, Handling, Unheard, Drained, Rst
  <2>4. Gone'
    BY <2>1, GoneKept
  <2> QED BY <1>1, <2>2, <2>3, <2>4 DEF RelayInv
<1>3. CASE ~UNCHANGED vars
  <2>1. LinesArriveWhole /\ Next
    BY <1>3
  <2> QED BY <1>1, <2>1, RelayServer, RelayEnvironment DEF Next
<1> QED BY <1>2, <1>3

LEMMA RelayInductive == Spec /\ [][LinesArriveWhole]_vars => []RelayInv
<1>1. RelayInv /\ [Next]_vars /\ [LinesArriveWhole]_vars => RelayInv'
  BY RelayStep
<1> QED BY <1>1, RelayInit, PTL DEF Spec

\* As long as every read ends where a line ends and no removal moves a client
\* to another element, respond_to_client writes what a peer sent under the
\* name that peer gave itself, however many clients there are and in whatever
\* order they are accepted, read and removed.
THEOREM LinesAreAttributed == Spec /\ [][LinesArriveWhole]_vars => []Attribution
<1>1. RelayInv => Attribution
  BY RelayMeans
<1> QED BY <1>1, RelayInductive, PTL

\* ... and what has been broadcast for a connection is the front of what its
\* peer sent behind its name: no line is lost, doubled, cut or taken from
\* another, through the buffer's moves and through consume_full.
THEOREM LinesReachTheRoom == Spec /\ [][LinesArriveWhole]_vars => []Integrity
<1>1. RelayInv => Integrity
  BY RelayMeans
<1> QED BY <1>1, RelayInductive, PTL

-----------------------------------------------------------------------------
(* Peers for which that holds: they stay, each of their writes is whole    *)
(* lines and arrives as it was written, and all of them fit in a buffer.   *)

Considerate ==
  /\ Leavers = {}
  /\ \A shape \in Shapes : shape # << >> => shape[Len(shape)] = "nl"
  /\ MaxBytes <= Cap

\* What such peers have done.
PeersStay ==
  \A c \in Conns : /\ peer[c] \in {"idle", "open"}
                   /\ Len(said[c]) <= MaxBytes
                   /\ EndsInLine(said[c])

LEMMA PeersStayStep ==
  ASSUME Considerate, RoundInv, PeersStay, [Next]_vars
  PROVE  PeersStay'
<1>1. /\ peer \in [Conns -> {"idle", "open", "fin", "rst", "finrst"}]
      /\ said \in [Conns -> Seq(Conns \cup {NL})] /\ \A c \in Conns : Len(said[c]) \in Nat
  BY RelayTypes
<1>2. CASE UNCHANGED <<peer, said>>
  BY <1>2 DEF PeersStay, EndsInLine
<1>3. ASSUME NEW d \in Conns, Send(d) PROVE PeersStay'
  <2>1. PICK shape \in Shapes :
          /\ Len(said[d]) + Len(shape) <= MaxBytes
          /\ said' = [said EXCEPT ![d] =
                        @ \o [j \in 1..Len(shape) |-> IF shape[j] = "nl" THEN NL ELSE d]]
    BY <1>3 DEF Send
  <2> DEFINE text == [j \in 1..Len(shape) |-> IF shape[j] = "nl" THEN NL ELSE d]
             s == said[d]
  <2>2. Len(shape) \in Nat /\ (shape # << >> => Len(shape) \in 1..Len(shape))
    BY ServerAssumption, LenProperties, EmptySeq
  <2>3. text \in Seq(Conns \cup {NL}) /\ Len(text) = Len(shape)
    BY <2>2
  <2>4. shape # << >> => text[Len(shape)] = NL
    BY <2>2 DEF Considerate
  <2>5. s \in Seq(Conns \cup {NL}) /\ EndsInLine(s)
    BY <1>1 DEF PeersStay
  <2>6. said'[d] = s \o text /\ \A c \in Conns : c # d => said'[c] = said[c]
    BY <1>1, <2>1
  <2>7. Len(s) + Len(text) <= MaxBytes
    BY <2>1, <2>3
  <2>8. shape = << >> => text = << >>
    BY <2>2, <2>3, EmptySeq
  <2>9. shape # << >> => Len(text) \in 1..Len(text)
    BY <2>2, <2>3
  <2>10. shape # << >> => text[Len(text)] = NL
    BY <2>3, <2>4
  <2> HIDE DEF text, s
  <2>11. /\ s \o text \in Seq(Conns \cup {NL}) /\ Len(s \o text) = Len(s) + Len(text)
         /\ Len(s) \in Nat /\ Len(text) \in Nat
         /\ \A j \in 1..Len(text) : (s \o text)[Len(s) + j] = text[j]
    <3>1. s \in Seq(Conns \cup {NL}) /\ text \in Seq(Conns \cup {NL})
      BY <2>3, <2>5
    <3> QED BY <3>1, Behind
  <2>12. EndsInLine(s \o text)
    <3>1. CASE shape = << >>
      <4>1. s \o text = s
        BY <2>5, <2>8, <3>1, ConcatEmptySeq
      <4> QED BY <2>5, <4>1
    <3>2. CASE shape # << >>
      BY <2>9, <2>10, <2>11, <3>2 DEF EndsInLine
    <3> QED BY <3>1, <3>2
  <2>13. UNCHANGED peer
    BY <1>3 DEF Send
  <2>14. ASSUME NEW c \in Conns
         PROVE  peer'[c] \in {"idle", "open"} /\ Len(said'[c]) <= MaxBytes /\ EndsInLine(said'[c])
    <3>1. CASE c = d
      BY <2>6, <2>7, <2>11, <2>12, <2>13, <3>1 DEF PeersStay
    <3>2. CASE c # d
      <4>1. said'[c] = said[c]
        BY <2>6, <3>2
      <4> QED BY <2>13, <4>1 DEF PeersStay
    <3> QED BY <3>1, <3>2
  <2> QED BY <2>14 DEF PeersStay, EndsInLine
<1>4. ASSUME NEW d \in Conns, Connect(d) PROVE PeersStay'
  <2>1. said' = said /\ \A c \in Conns : peer'[c] \in {"open", peer[c]}
    BY <1>1, <1>4 DEF Connect
  <2> QED BY <2>1 DEF PeersStay, EndsInLine
<1>5. ASSUME NEW d \in Conns, Close(d) \/ Reset(d) \/ ResetAnswer(d) PROVE FALSE
  BY <1>5 DEF Close, Reset, ResetAnswer, Considerate, PeersStay
<1>6. ASSUME NEW d \in Conns, Receive(d) PROVE UNCHANGED <<peer, said>>
  BY <1>6 DEF Receive
<1>7. CASE Interrupt
  BY <1>2, <1>7 DEF Interrupt
<1>8. CASE Server
  <2>1. UNCHANGED <<peer, said>>
    BY <1>8 DEF Server, Poll, Accept, NoAccept, Signal, NoSignal, PassClient, RemoveFailed,
       ReadEnd, ReadFails, ReadData, CollectLine, CollectEnd, SkipSender, WriteClient,
       WriteFails, WriteEnd, Remove, Die, server, net
  <2> QED BY <1>2, <2>1
<1>9. CASE Environment
  BY <1>2, <1>3, <1>4, <1>5, <1>6, <1>7, <1>9 DEF Environment
<1>10. CASE UNCHANGED vars
  BY <1>2, <1>10 DEF vars, net
<1> QED BY <1>8, <1>9, <1>10 DEF Next

\* Every step they allow is one in which lines arrive whole.
LEMMA PeersStayWhole ==
  ASSUME Considerate, RelayInv, PeersStay, [Next]_vars
  PROVE  [LinesArriveWhole]_vars
<1> SUFFICES ASSUME Next PROVE LinesArriveWhole
  OBVIOUS
<1>1. RoundInv /\ Elements
  BY DEF RelayInv
<1>2. fds \in Seq(Conns) /\ Len(fds) \in Nat /\ i \in Nat \ {0}
  BY <1>1, RelayTypes
<1>3. ASSUME Reading
      PROVE  /\ fds[i] \in Conns /\ FreeSpace(info[i].buffer) = Cap
             /\ Len(said[fds[i]]) \in Nat /\ taken[fds[i]] \in Nat
             /\ taken \in [Conns -> Nat]
             /\ Pending(fds[i]) \in 0..Cap /\ ~Fin(fds[i])
             /\ EndsInLine(said[fds[i]])
  <2>1. i \in 1..Len(fds) /\ pc = "clients"
    BY <1>2, <1>3 DEF Reading
  <2>2. fds[i] \in Conns /\ taken \in [Conns -> Nat] /\ Len(said[fds[i]]) \in Nat
        /\ taken[fds[i]] <= Len(said[fds[i]])
    BY <1>1, <2>1, RelayTypes
  <2>3. FreeSpace(info[i].buffer) = Cap
    <3>1. info[i].buffer.size = 0
      BY <1>1, <2>1 DEF Elements, Emptied, AtHand
    <3> QED BY <3>1, ServerAssumption DEF FreeSpace
  <2>4. Len(said[fds[i]]) <= Cap
    BY <2>2, ServerAssumption DEF PeersStay, Considerate
  <2>5. Pending(fds[i]) \in 0..Cap
    BY <2>2, <2>4, ServerAssumption DEF Pending
  <2> QED BY <2>2, <2>3, <2>5 DEF PeersStay, Fin
<1>4. WholeReads
  <2> SUFFICES ASSUME ReadData PROVE said[fds[i]][taken'[fds[i]]] = NL
    BY DEF WholeReads
  <2> DEFINE c == fds[i]
             n == ReadSize(c, info[i].buffer)
  <2>1. Reading /\ n > 0 /\ taken' = [taken EXCEPT ![c] = taken[c] + n]
    BY DEF ReadData
  <2>2. n = Pending(c)
    BY <1>3, <2>1 DEF ReadSize
  <2> HIDE DEF n
  <2>3. taken'[c] = Len(said[c]) /\ Len(said[c]) > 0
    BY <1>3, <2>1, <2>2 DEF Pending
  <2>4. said[c] # << >>
    BY <2>3
  <2> QED BY <1>3, <2>1, <2>3, <2>4 DEF EndsInLine
<1>5. ~ReadEnd
  BY <1>3, ServerAssumption DEF ReadEnd
<1>6. ~RemoveFailed
  <2> SUFFICES ASSUME RemoveFailed PROVE FALSE
    OBVIOUS
  <2>1. i \in Coming /\ pc = "clients" /\ "POLLERR" \in pollfds[i + 2].revents
    BY <1>2 DEF RemoveFailed, Coming
  <2>2. Rst(fds[i])
    BY <1>1, <2>1 DEF RoundInv, Reported, InRound
  <2>3. fds[i] \in Conns
    BY <1>1, <2>1, RelayTypes DEF Coming
  <2> QED BY <2>2, <2>3 DEF PeersStay, Rst
<1>7. InPlace
  <2>1. CASE Accept
    <3>1. fds' = fds \/ fds' = Append(fds, Head(backlog))
      BY <2>1 DEF Accept, Admit, Reject
    <3> QED BY <1>2, <3>1 DEF InPlace
  <2>2. CASE Signal \/ ReadFails \/ WriteFails
    <3>1. fds' = << >>
      BY <2>2 DEF Signal, ReadFails, WriteFails, Die
    <3> QED BY <3>1 DEF InPlace
  <2>3. CASE Environment
    BY <2>3 DEF Environment, Connect, Send, Receive, Close, Reset, ResetAnswer, Interrupt,
       server, InPlace
  <2>4. CASE \/ Poll \/ NoAccept \/ NoSignal \/ PassClient \/ ReadData \/ CollectLine
             \/ CollectEnd \/ SkipSender \/ WriteClient \/ WriteEnd
    <3>1. fds' = fds
      BY <2>4 DEF Poll, NoAccept, NoSignal, PassClient, ReadData, CollectLine, CollectEnd,
         SkipSender, WriteClient, WriteEnd, server
    <3> QED BY <3>1 DEF InPlace
  <2> QED BY <1>5, <1>6, <2>1, <2>2, <2>3, <2>4 DEF Next, Server
<1> QED BY <1>4, <1>7 DEF LinesArriveWhole

\* Peers that stay and write whole lines need no more than that: every message
\* is broadcast under its sender's name, and nothing is lost or made up.
THEOREM ConsideratePeersAreHeard ==
  ASSUME Considerate
  PROVE  Spec => [](Attribution /\ Integrity)
<1> DEFINE Inv == RelayInv /\ PeersStay
<1>1. Init => Inv
  <2> SUFFICES ASSUME Init PROVE PeersStay
    BY RelayInit
  <2>1. \A c \in Conns : said[c] = << >> /\ peer[c] = "idle"
    BY DEF Init
  <2> QED BY <2>1, ServerAssumption DEF PeersStay, EndsInLine
<1>2. Inv /\ [Next]_vars => Inv'
  <2> SUFFICES ASSUME RelayInv, PeersStay, [Next]_vars PROVE Inv'
    OBVIOUS
  <2>1. PeersStay'
    BY PeersStayStep DEF RelayInv
  <2>2. RelayInv'
    BY PeersStayWhole, RelayStep
  <2> QED BY <2>1, <2>2
<1>3. Inv => Attribution /\ Integrity
  BY RelayMeans
<1> HIDE DEF Inv
<1> QED BY <1>1, <1>2, <1>3, PTL DEF Spec

-----------------------------------------------------------------------------
(* No line waits in a buffer: it has one only while respond_to_client is   *)
(* taking the lines of its client out, whichever of the clients past the   *)
(* end of the vector the memory belonged to.                               *)

LinesTaken ==
  \A s \in Slots : FindDelim(info[s].buffer, NL) > 0 => pc = "collect" /\ s = i

LinesInv == TypeInv /\ LinesTaken

\* find_delim answers with a place among the data.
LEMMA DelimType ==
  ASSUME NEW b \in Buffer
  PROVE  FindDelim(b, NL) \in Nat
<1>1. FindDelim(b, NL) \in 0..b.size
  BY ArrayConstants, ArrayOperators, Array!FindDelimIs
<1> QED BY <1>1 DEF Buffer

\* Where there is no data there is no delimiter.
LEMMA NoDataNoLine ==
  ASSUME NEW b \in Buffer, b.size = 0
  PROVE  FindDelim(b, NL) = 0
<1>1. 1..b.size = {}
  OBVIOUS
<1> QED BY <1>1 DEF FindDelim

\* The steps that leave the clients' buffers alone.
LEMMA LinesStay ==
  ASSUME LinesInv, info' = info, pc # "collect"
  PROVE  LinesTaken'
  BY DEF LinesInv, LinesTaken

LEMMA LinesInit == Init => LinesInv
<1> SUFFICES ASSUME Init PROVE LinesInv
  OBVIOUS
<1>1. TypeInv
  BY TypeInit
<1>2. ASSUME NEW s \in Slots PROVE FindDelim(info[s].buffer, NL) = 0
  <2>1. info[s] \in ClientInfo /\ info[s].buffer = Uninitialised
    BY <1>1 DEF Init, TypeInv, TypeOK, ClientsType
  <2> QED BY <2>1, NoDataNoLine DEF ClientInfo, Uninitialised
<1>3. LinesTaken
  BY <1>2 DEF LinesTaken
<1> QED BY <1>1, <1>3 DEF LinesInv

LEMMA LinesStep == LinesInv /\ [Next]_vars => LinesInv'
<1> SUFFICES ASSUME LinesInv, [Next]_vars PROVE LinesInv'
  OBVIOUS
<1>1. TypeInv /\ TypeInv'
  <2>1. CASE UNCHANGED vars
    BY <2>1 DEF LinesInv, TypeInv, TypeOK, LoopType, ClientsType, SocketType, StreamType,
                InLoop, Backed, vars, server, net
  <2> QED BY <2>1, TypeEnvironment, TypeServer DEF LinesInv, Next
<1>2. /\ info \in [Slots -> ClientInfo] /\ info' \in [Slots -> ClientInfo]
      /\ Len(fds) \in Nat /\ Len(fds) <= MaxClients /\ nready \in Nat /\ i \in Nat \ {0}
  BY <1>1, LenProperties DEF TypeInv, TypeOK, ClientsType, LoopType
<1> SUFFICES LinesTaken'
  BY <1>1 DEF LinesInv
<1>3. ASSUME info' = info, pc' = pc, i' = i
      PROVE  LinesTaken'
  BY <1>3 DEF LinesInv, LinesTaken
<1>4. CASE Environment \/ UNCHANGED vars
  <2>1. UNCHANGED <<pc, info, i>>
    BY <1>4 DEF Environment, Connect, Send, Receive, Close, Reset, ResetAnswer, Interrupt,
                vars, server
  <2> QED BY <1>3, <2>1
<1>5. CASE Accept
  <2> DEFINE s == Len(fds) + 1
  <2>1. pc = "accept"
    BY <1>5 DEF Accept
  <2>2. CASE Len(fds) >= MaxClients
    <3>1. info' = info
      BY <1>5, <2>2 DEF Accept, Reject
    <3> QED BY <2>1, <3>1, LinesStay
  <2>3. CASE ~(Len(fds) >= MaxClients)
    <3>1. info' = [info EXCEPT ![s] = [name |-> NoName, connected |-> FALSE,
                                       buffer |-> ClearBuffer(info[s].buffer)]]
      BY <1>5, <2>3 DEF Accept, Admit
    <3>2. s \in Slots
      BY <1>2, <2>3, ServerAssumption DEF Slots
    <3>3. info[s].buffer \in Buffer
      BY <1>2, <3>2 DEF ClientInfo
    <3> HIDE DEF s
    <3>4. info'[s].buffer \in Buffer /\ info'[s].buffer.size = 0
      BY <1>2, <3>1, <3>2, <3>3 DEF ClientInfo, ClearBuffer, Buffer
    <3>5. FindDelim(info'[s].buffer, NL) = 0
      BY <3>4, NoDataNoLine
    <3>6. \A t \in Slots : t # s => info'[t] = info[t] /\ FindDelim(info[t].buffer, NL) <= 0
      <4>1. \A t \in Slots : ~(FindDelim(info[t].buffer, NL) > 0)
        BY <2>1 DEF LinesInv, LinesTaken
      <4>2. \A t \in Slots : FindDelim(info[t].buffer, NL) \in Nat
        BY <1>2, DelimType DEF ClientInfo
      <4> QED BY <1>2, <3>1, <4>1, <4>2
    <3>7. ~(0 > 0)
      OBVIOUS
    <3> QED BY <2>1, <3>5, <3>6, <3>7 DEF LinesInv, LinesTaken
  <2> QED BY <2>2, <2>3
<1>6. CASE ReadData
  <2>1. pc = "clients" /\ i \in Slots /\ (info'[i].connected => pc' = "collect" /\ i' = i)
    <3>1. pc = "clients" /\ i <= Len(fds)
      BY <1>6 DEF ReadData, Reading
    <3>2. info'[i].connected => pc' = "collect" /\ i' = i
      BY <1>6 DEF ReadData
    <3> QED BY <1>2, <3>1, <3>2, ServerAssumption DEF Slots
  <2>2. PICK client : info' = [info EXCEPT ![i] = Named(client)]
    BY <1>6 DEF ReadData
  <2>3. ASSUME ~info'[i].connected
        PROVE  FindDelim(info'[i].buffer, NL) = 0
    <3>1. info'[i] = Named(client) /\ info'[i] \in ClientInfo
      BY <1>2, <2>1, <2>2
    <3>2. info'[i] = client /\ FirstChunk(client.buffer, NL) = << >>
      BY <2>3, <3>1 DEF Named
    <3>3. info'[i].buffer \in Buffer /\ FirstChunk(info'[i].buffer, NL) = << >>
      BY <3>1, <3>2 DEF ClientInfo
    <3> QED BY <3>3, ConsumeOnceType
  <2>4. ASSUME NEW s \in Slots, FindDelim(info'[s].buffer, NL) > 0
        PROVE  pc' = "collect" /\ s = i'
    <3>1. s = i
      <4>1. ~(FindDelim(info[s].buffer, NL) > 0)
        BY <2>1 DEF LinesInv, LinesTaken
      <4>2. s # i => info'[s] = info[s]
        BY <1>2, <2>2
      <4> QED BY <2>4, <4>1, <4>2
    <3>2. info'[i].connected
      BY <2>3, <2>4, <3>1
    <3> QED BY <2>1, <3>1, <3>2
  <2> QED BY <2>4 DEF LinesTaken
<1>7. CASE CollectLine
  <2>1. /\ pc = "collect" /\ pc' = pc /\ i' = i
        /\ \E b : info' = [info EXCEPT ![i].buffer = b]
    BY <1>7 DEF CollectLine
  <2>2. ASSUME NEW s \in Slots, FindDelim(info'[s].buffer, NL) > 0
        PROVE  s = i
    <3>1. s # i => info'[s] = info[s]
      BY <1>2, <2>1
    <3> QED BY <2>2, <3>1 DEF LinesInv, LinesTaken
  <2> QED BY <2>1, <2>2 DEF LinesTaken
<1>8. CASE CollectEnd
  <2>1. pc = "collect" /\ info' = info /\ ~(FindDelim(info[i].buffer, NL) > 0)
    BY <1>8 DEF CollectEnd, AnotherLine
  <2> QED BY <2>1 DEF LinesInv, LinesTaken
<1>9. CASE \/ Poll \/ NoAccept \/ Signal \/ NoSignal \/ PassClient \/ RemoveFailed \/ ReadEnd
           \/ ReadFails
  <2>1. info' = info /\ pc # "collect"
    BY <1>9 DEF Poll, NoAccept, Signal, NoSignal, PassClient, RemoveFailed, ReadEnd, Remove,
                ReadFails, Reading, Die, server
  <2> QED BY <2>1, LinesStay
<1>10. CASE SkipSender \/ WriteClient \/ WriteFails \/ WriteEnd
  <2>1. info' = info /\ pc # "collect"
    BY <1>10 DEF SkipSender, WriteClient, WriteFails, Writing, Die, WriteEnd
  <2> QED BY <2>1, LinesStay
<1> QED BY <1>4, <1>5, <1>6, <1>7, <1>8, <1>9, <1>10 DEF Next, Server

\* When the server waits in poll no client of the vector has a whole line in its
\* buffer: respond_to_client takes out all there are, behind a name as well, and
\* no swap of a removal gives a client of the room a line that was left.
THEOREM NoLineIsLeft == Spec => []NoLineWaits
<1>1. LinesInv => NoLineWaits
  <2> SUFFICES ASSUME LinesInv, pc = "poll", NEW j \in 1..Len(fds)
               PROVE  FindDelim(info[j].buffer, NL) = 0
    BY DEF NoLineWaits
  <2>1. j \in Slots /\ info[j].buffer \in Buffer
    BY LenProperties, ServerAssumption
       DEF LinesInv, TypeInv, TypeOK, ClientsType, ClientInfo, Slots
  <2>2. FindDelim(info[j].buffer, NL) \in Nat
    BY <2>1, DelimType
  <2>3. ~(FindDelim(info[j].buffer, NL) > 0)
    BY <2>1 DEF LinesInv, LinesTaken
  <2> QED BY <2>2, <2>3
<1> QED BY <1>1, LinesInit, LinesStep, PTL DEF Spec
=============================================================================

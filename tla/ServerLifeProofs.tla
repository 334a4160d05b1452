-------------------------- MODULE ServerLifeProofs --------------------------
(***************************************************************************)
(* Ownership of descriptors through the life of a server, for every set of *)
(* numbers and every number of clients.                                    *)
(***************************************************************************)
EXTENDS ServerLife, TLAPS

\* What objects hold and what numbers mean.
Held == [fd : [Objects -> Fds \cup {None}], kind : [Fds -> Kinds]]

\* In s every open number is in x or held by one object.
Sound(s, x) ==
  /\ \A n \in Fds : s.kind[n] # "free" <=> (n \in x \/ \E o \in Objects : s.fd[o] = n)
  /\ \A o, p \in Objects : s.fd[o] = s.fd[p] /\ s.fd[o] # None => o = p
  /\ \A o \in Objects : s.fd[o] \notin x

-----------------------------------------------------------------------------
(* What the operations of ScopedFileDescriptor return and keep sound.      *)

LEMMA NoneIsNoNumber == LifeAssumption => None \notin Fds
  BY DEF LifeAssumption, None

LEMMA ResetIs ==
  ASSUME NEW s \in Held, NEW os \in SUBSET Objects
  PROVE  /\ Reset(s, os) \in Held
         /\ \A o \in Objects : Reset(s, os).fd[o] = IF o \in os THEN None ELSE s.fd[o]
         /\ \A n \in Fds : Reset(s, os).kind[n] =
              IF \E o \in os : s.fd[o] = n THEN "free" ELSE s.kind[n]
  BY DEF Held, Reset, Kinds

LEMMA OwnIs ==
  ASSUME NEW s \in Held, NEW o \in Objects, NEW n \in Fds
  PROVE  /\ Own(s, o, n) \in Held
         /\ \A p \in Objects : Own(s, o, n).fd[p] = IF p = o THEN n ELSE s.fd[p]
         /\ Own(s, o, n).kind = s.kind
  BY DEF Held, Own

LEMMA OpenedIs ==
  ASSUME NEW s \in Held, NEW n \in Fds, NEW what \in Kinds
  PROVE  /\ Opened(s, n, what) \in Held
         /\ Opened(s, n, what).fd = s.fd
         /\ \A m \in Fds : Opened(s, n, what).kind[m] = IF m = n THEN what ELSE s.kind[m]
  BY DEF Held, Opened

LEMMA MoveIs ==
  ASSUME NEW s \in Held, NEW to \in Objects, NEW from \in Objects, to # from
  PROVE  /\ Move(s, to, from) \in Held
         /\ \A p \in Objects : Move(s, to, from).fd[p] =
              IF p = from THEN None ELSE IF p = to THEN s.fd[from] ELSE s.fd[p]
         /\ Move(s, to, from).kind = s.kind
  BY DEF Held, Move

\* A moved descriptor has one owner, as before.
LEMMA MoveKeepsSound ==
  ASSUME NEW s \in Held, NEW to \in Objects, NEW from \in Objects, NEW x,
         to # from, s.fd[to] = None, LifeAssumption, Sound(s, x)
  PROVE  Sound(Move(s, to, from), x)
<1> DEFINE t == Move(s, to, from)
<1>1. /\ \A p \in Objects : t.fd[p] =
           IF p = from THEN None ELSE IF p = to THEN s.fd[from] ELSE s.fd[p]
      /\ t.kind = s.kind
  BY MoveIs
<1> HIDE DEF t
<1>2. ASSUME NEW n \in Fds
      PROVE  (\E o \in Objects : t.fd[o] = n) <=> (\E o \in Objects : s.fd[o] = n)
  BY <1>1, NoneIsNoNumber
<1>3. \A n \in Fds : t.kind[n] # "free" <=> (n \in x \/ \E o \in Objects : t.fd[o] = n)
  BY <1>1, <1>2 DEF Sound
<1>4. \A o, p \in Objects : t.fd[o] = t.fd[p] /\ t.fd[o] # None => o = p
  BY <1>1 DEF Sound
<1>5. \A o \in Objects : t.fd[o] \notin x
  BY <1>1 DEF Sound
<1> QED
  BY <1>3, <1>4, <1>5 DEF Sound, t

\* reset() and destruction close what the objects held, and nothing else.
LEMMA ResetKeepsSound ==
  ASSUME NEW s \in Held, NEW os \in SUBSET Objects, NEW x \in SUBSET Fds,
         LifeAssumption, Sound(s, x)
  PROVE  Sound(Reset(s, os), x)
<1> DEFINE t == Reset(s, os)
<1>1. /\ \A o \in Objects : t.fd[o] = IF o \in os THEN None ELSE s.fd[o]
      /\ \A n \in Fds : t.kind[n] = IF \E o \in os : s.fd[o] = n THEN "free" ELSE s.kind[n]
  BY ResetIs
<1> HIDE DEF t
<1>2. None \notin x /\ None \notin Fds
  BY NoneIsNoNumber
<1>3. ASSUME NEW n \in Fds
      PROVE  t.kind[n] # "free" <=> (n \in x \/ \E o \in Objects : t.fd[o] = n)
  <2>1. CASE \E o \in os : s.fd[o] = n
    <3>1. PICK o \in os : s.fd[o] = n
      BY <2>1
    <3>2. t.kind[n] = "free" /\ n \notin x
      BY <1>1, <2>1, <3>1 DEF Sound
    <3>3. \A p \in Objects : t.fd[p] # n
      BY <1>1, <1>2, <3>1 DEF Sound
    <3> QED
      BY <3>2, <3>3
  <2>2. CASE ~ \E o \in os : s.fd[o] = n
    <3>1. (\E o \in Objects : t.fd[o] = n) <=> (\E o \in Objects : s.fd[o] = n)
      BY <1>1, <1>2, <2>2
    <3> QED
      BY <1>1, <2>2, <3>1 DEF Sound
  <2> QED
    BY <2>1, <2>2
<1>4. \A o, p \in Objects : t.fd[o] = t.fd[p] /\ t.fd[o] # None => o = p
  BY <1>1 DEF Sound
<1>5. \A o \in Objects : t.fd[o] \notin x
  BY <1>1, <1>2 DEF Sound
<1> QED
  BY <1>3, <1>4, <1>5 DEF Sound, t

\* A new descriptor given to an object that holds none.
LEMMA OpenKeepsSound ==
  ASSUME NEW s \in Held, NEW n \in Fds, NEW what \in Kinds \ {"free"}, NEW o \in Objects,
         NEW x, s.kind[n] = "free", s.fd[o] = None, LifeAssumption, Sound(s, x)
  PROVE  Sound(Own(Opened(s, n, what), o, n), x)
<1> DEFINE t == Own(Opened(s, n, what), o, n)
<1>1. /\ \A p \in Objects : t.fd[p] = IF p = o THEN n ELSE s.fd[p]
      /\ \A m \in Fds : t.kind[m] = IF m = n THEN what ELSE s.kind[m]
  BY OpenedIs, OwnIs
<1> HIDE DEF t
<1>2. n # None /\ n \notin x /\ \A p \in Objects : s.fd[p] # n
  BY NoneIsNoNumber DEF Sound
<1>3. ASSUME NEW m \in Fds
      PROVE  t.kind[m] # "free" <=> (m \in x \/ \E p \in Objects : t.fd[p] = m)
  <2>1. CASE m = n
    BY <1>1, <2>1
  <2>2. CASE m # n
    <3>1. m # None
      BY NoneIsNoNumber
    <3>2. (\E p \in Objects : t.fd[p] = m) <=> (\E p \in Objects : s.fd[p] = m)
      BY <1>1, <2>2, <3>1
    <3> QED
      BY <1>1, <2>2, <3>2 DEF Sound
  <2> QED
    BY <2>1, <2>2
<1>4. \A p, q \in Objects : t.fd[p] = t.fd[q] /\ t.fd[p] # None => p = q
  BY <1>1, <1>2 DEF Sound
<1>5. \A p \in Objects : t.fd[p] \notin x
  BY <1>1, <1>2 DEF Sound
<1> QED
  BY <1>3, <1>4, <1>5 DEF Sound, t

\* All of it at once, for a new descriptor and for a move into an object that
\* holds none: its reset() closes nothing.
Given(t, s, n, what, o) ==
  /\ \A p \in Objects : t.fd[p] = IF p = o THEN n ELSE s.fd[p]
  /\ \A m \in Fds : t.kind[m] = IF m = n THEN what ELSE s.kind[m]

Moved(t, s, to, from) ==
  /\ \A p \in Objects : t.fd[p] =
       IF p = from THEN None ELSE IF p = to THEN s.fd[from] ELSE s.fd[p]
  /\ \A m \in Fds : t.kind[m] = s.kind[m]

LEMMA OpenFor ==
  ASSUME NEW s \in Held, NEW n \in Fds, NEW what \in Kinds \ {"free"}, NEW o \in Objects,
         NEW x, s.kind[n] = "free", s.fd[o] = None, LifeAssumption, Sound(s, x),
         NEW t, t = Own(Opened(s, n, what), o, n)
  PROVE  t \in Held /\ Sound(t, x) /\ Given(t, s, n, what, o)
<1>1. Sound(t, x)
  BY OpenKeepsSound
<1>2. what \in Kinds
  OBVIOUS
<1>3. /\ Opened(s, n, what) \in Held
      /\ Opened(s, n, what).fd = s.fd
      /\ \A m \in Fds : Opened(s, n, what).kind[m] = IF m = n THEN what ELSE s.kind[m]
  BY <1>2, OpenedIs
<1>4. /\ t \in Held
      /\ \A p \in Objects : t.fd[p] = IF p = o THEN n ELSE Opened(s, n, what).fd[p]
      /\ t.kind = Opened(s, n, what).kind
  BY <1>3, OwnIs
<1> QED
  BY <1>1, <1>3, <1>4 DEF Given

LEMMA MoveIntoEmpty ==
  ASSUME NEW s \in Held, NEW to \in Objects, NEW from \in Objects, NEW x \in SUBSET Fds,
         to # from, s.fd[to] = None, LifeAssumption, Sound(s, x),
         NEW t, t = MoveAssign(s, to, from)
  PROVE  t \in Held /\ Sound(t, x) /\ Moved(t, s, to, from)
<1> DEFINE r == Reset(s, {to})
<1>1. {to} \in SUBSET Objects
  OBVIOUS
<1>2. /\ r \in Held
      /\ \A p \in Objects : r.fd[p] = IF p \in {to} THEN None ELSE s.fd[p]
      /\ \A m \in Fds : r.kind[m] = IF \E p \in {to} : s.fd[p] = m THEN "free" ELSE s.kind[m]
  BY <1>1, ResetIs
<1>3. Sound(r, x)
  BY <1>1, ResetKeepsSound
<1>4. t = Move(r, to, from)
  BY DEF MoveAssign
<1> HIDE DEF r
<1>5. (\A p \in Objects : r.fd[p] = s.fd[p]) /\ \A m \in Fds : r.kind[m] = s.kind[m]
  BY <1>2, NoneIsNoNumber
<1>6. Sound(t, x)
  <2>1. r \in Held /\ r.fd[to] = None
    BY <1>2
  <2> QED
    BY <1>3, <1>4, <2>1, MoveKeepsSound
<1>7. /\ t \in Held
      /\ \A p \in Objects : t.fd[p] =
           IF p = from THEN None ELSE IF p = to THEN r.fd[from] ELSE r.fd[p]
      /\ t.kind = r.kind
  BY <1>2, <1>4 DEF Move, Held
<1>8. /\ \A p \in Objects : t.fd[p] =
           IF p = from THEN None ELSE IF p = to THEN s.fd[from] ELSE s.fd[p]
      /\ \A m \in Fds : t.kind[m] = s.kind[m]
  BY <1>5, <1>7
<1> QED
  BY <1>6, <1>7, <1>8 DEF Moved

-----------------------------------------------------------------------------
(* The invariant.                                                          *)

Holdings == pc # "killed" => Sound(Now, {connfd} \ {None})

\* A running server's members, and those of one that does not run.
MembersLive ==
  /\ fd[listenfd] # None /\ kind[fd[listenfd]] = "listening"
  /\ fd[signalfd] # None /\ kind[fd[signalfd]] = "signalfd"
  /\ \A j \in Slots : fd[j] # None <=> j <= size
  /\ \A j \in Slots : j <= size => kind[fd[j]] = "connection"
  /\ blocked
MembersEmpty == size = 0 /\ \A o \in Members : fd[o] = None

Temporaries ==
  pc # "killed" =>
    /\ fd[temporary] = None
    /\ fd[temp_socket] # None <=> pc \in Setup \ {"socket"}
    /\ pc \in {"sigprocmask", "signalfd"} => kind[fd[temp_socket]] = "listening"
    /\ pc = "signalfd" => blocked
    /\ connfd # None <=> pc = "accepted"
    /\ pc = "accepted" => kind[connfd] = "connection"

MembersFit ==
  /\ pc \in Setup => ~running
  /\ pc \in {"loop", "accepted"} => running
  /\ pc \notin {"destroyed", "killed"} => IF running THEN MembersLive ELSE MembersEmpty

LifeInv == TypeOK /\ Holdings /\ Temporaries /\ MembersFit

LEMMA NowHeld == ASSUME TypeOK PROVE Now \in Held /\ Now.fd = fd /\ Now.kind = kind
  BY DEF TypeOK, Now, Held

LEMMA ObjectsAre ==
  /\ listenfd \in Members /\ signalfd \in Members /\ Slots \subseteq Members
  /\ Members \subseteq Objects /\ temp_socket \in Objects /\ temporary \in Objects
  /\ temp_socket \notin Members /\ temporary \notin Members /\ temp_socket # temporary
  /\ listenfd # signalfd /\ listenfd \notin Slots /\ signalfd \notin Slots
  BY DEF Members, Objects, Locals, Slots, listenfd, signalfd, temp_socket, temporary

\* A state that is sound once the descriptors have changed is so as a state.
LEMMA BecomeSound ==
  ASSUME NEW s \in Held, Become(s), NEW x, Sound(s, x), x = {connfd'} \ {None}
  PROVE  Holdings' /\ fd' \in [Objects -> Fds \cup {None}] /\ kind' \in [Fds -> Kinds]
<1>1. fd' = s.fd /\ kind' = s.kind
  BY DEF Become
<1> QED
  BY <1>1 DEF Held, Holdings, Sound, Now

LEMMA HoldingsAreOwnedOnce == ASSUME TypeOK, Holdings, LifeAssumption PROVE OwnedOnce
<1> SUFFICES ASSUME pc # "killed" PROVE OwnedOnce
  BY DEF OwnedOnce
<1>1. Sound(Now, {connfd} \ {None}) /\ Now.fd = fd /\ Now.kind = kind
  BY NowHeld DEF Holdings
<1>2. ASSUME NEW n PROVE n \in Open <=> n \in {fd[o] : o \in Owners} \cup ({connfd} \ {None})
  <2>1. CASE n \in Fds
    <3>1. n # None
      BY <2>1, NoneIsNoNumber
    <3>2. n \in Open <=> (n \in {connfd} \ {None} \/ \E o \in Objects : fd[o] = n)
      BY <1>1, <2>1 DEF Open, Sound
    <3>3. (\E o \in Objects : fd[o] = n) <=> n \in {fd[o] : o \in Owners}
      BY <3>1 DEF Owners
    <3> QED
      BY <3>2, <3>3
  <2>2. CASE n \notin Fds
    BY <2>2 DEF Open, Owners, TypeOK
  <2> QED
    BY <2>1, <2>2
<1>3. \A o, p \in Owners : fd[o] = fd[p] => o = p
  BY <1>1 DEF Owners, Sound
<1>4. \A o \in Owners : fd[o] # connfd
  BY <1>1 DEF Owners, Sound
<1>5. Open = {fd[o] : o \in Owners} \cup ({connfd} \ {None})
  BY <1>2
<1> QED
  BY <1>3, <1>4, <1>5 DEF OwnedOnce

LEMMA InvImpliesRuns == ASSUME LifeInv, LifeAssumption PROVE RunsOrHoldsNoDescriptor
<1> SUFFICES ASSUME pc \in {"idle", "loop"} PROVE RunsOrHoldsNoDescriptor
  BY DEF RunsOrHoldsNoDescriptor
<1>0. size \in 0..MaxClients /\ MaxClients \in Nat
  BY DEF LifeInv, TypeOK, LifeAssumption
<1>1. CASE running
  <2>1. MembersLive
    BY <1>1 DEF LifeInv, MembersFit
  <2>2. \A j \in 1..size : j \in Slots /\ j <= size
    BY <1>0 DEF Slots
  <2>3. \A o \in {listenfd, signalfd} \cup 1..size : fd[o] # None
    BY <2>1, <2>2 DEF MembersLive
  <2>4. \A j \in 1..size : kind[fd[j]] = "connection"
    BY <2>1, <2>2 DEF MembersLive
  <2> QED
    BY <1>1, <2>1, <2>3, <2>4 DEF RunsOrHoldsNoDescriptor, MembersLive
<1>2. CASE ~running
  <2>1. MembersEmpty /\ fd[temporary] = None /\ fd[temp_socket] = None /\ connfd = None
    BY <1>2 DEF LifeInv, MembersFit, Temporaries, Setup
  <2>2. \A o \in Objects : fd[o] = None
    BY <2>1 DEF MembersEmpty, Objects, Locals
  <2>3. OwnedOnce
    BY HoldingsAreOwnedOnce DEF LifeInv
  <2>4. Open = {}
    BY <2>1, <2>2, <2>3 DEF OwnedOnce, Owners
  <2> QED
    BY <1>2, <2>1, <2>4 DEF RunsOrHoldsNoDescriptor, MembersEmpty
<1> QED
  BY <1>1, <1>2

-----------------------------------------------------------------------------
(* Every step keeps it: first run(), then the loop, then the ends.         *)

LEMMA SetupSteps ==
  ASSUME LifeInv, LifeAssumption, RunCall \/ Configure \/ EventLoopCall \/ LoopFails
  PROVE  LifeInv'
<1> USE DEF Setup, Kinds
<1>1. CASE RunCall \/ EventLoopCall \/ LoopFails
  <2>1. UNCHANGED <<running, objects, signals>> /\ pc \in {"idle", "loop"}
        /\ pc' \in {"idle", "loop", "socket"} /\ result' \in {"ok", "logic_error", "system_error"}
        /\ (pc' = "socket" => ~running) /\ (pc' = "loop" => running)
    BY <1>1 DEF RunCall, EventLoopCall, LoopFails, LifeInv, TypeOK
  <2>2. TypeOK'
    BY <2>1 DEF LifeInv, TypeOK, objects, signals
  <2>3. Holdings'
    BY <2>1 DEF LifeInv, Holdings, Now, objects, Sound
  <2>4. Temporaries' /\ MembersFit'
    BY <2>1 DEF LifeInv, Temporaries, MembersFit, MembersLive, MembersEmpty, objects, signals
  <2> QED
    BY <2>2, <2>3, <2>4 DEF LifeInv
<1>2. CASE Configure
  <2>1. /\ pc \in {"setsockopt", "bind", "listen", "sigprocmask"}
        /\ pc' \in {"bind", "listen", "sigprocmask", "signalfd"}
        /\ UNCHANGED <<running, fd, size, connfd, pending, result>>
        /\ blocked' \in BOOLEAN /\ (pc' = "signalfd" => blocked')
    BY <1>2 DEF Configure, LifeInv, TypeOK
  <2>2. fd[temp_socket] \in Fds /\ ~running /\ connfd = None
    BY <2>1, ObjectsAre DEF LifeInv, TypeOK, Temporaries, MembersFit
  <2>3. /\ kind' \in [Fds -> Kinds]
        /\ \A n \in Fds : kind'[n] # "free" <=> kind[n] # "free"
        /\ pc' \in {"sigprocmask", "signalfd"} => kind'[fd[temp_socket]] = "listening"
    <3>1. Sound(Now, {}) /\ Now.fd = fd /\ Now.kind = kind
      BY <2>1, <2>2, NowHeld DEF LifeInv, Holdings
    <3>2. kind[fd[temp_socket]] # "free"
      BY <2>2, <3>1, ObjectsAre DEF Sound
    <3> QED
      BY <1>2, <2>2, <3>2 DEF Configure, LifeInv, TypeOK, Temporaries
  <2>4. TypeOK'
    BY <2>1, <2>3 DEF LifeInv, TypeOK
  <2>5. Holdings'
    BY <2>1, <2>3 DEF LifeInv, Holdings, Now, Sound
  <2>6. Temporaries' /\ MembersFit'
    BY <2>1, <2>2, <2>3 DEF LifeInv, Temporaries, MembersFit, MembersEmpty
  <2> QED
    BY <2>4, <2>5, <2>6 DEF LifeInv
<1> QED
  BY <1>1, <1>2

LEMMA SocketStep == ASSUME LifeInv, LifeAssumption, Socket PROVE LifeInv'
<1> USE DEF Setup, Kinds
<1>1. PICK n \in Fds : Lowest(n) /\ Become(Own(Opened(Now, n, "socket"), temp_socket, n))
  BY DEF Socket
<1>2. /\ pc = "socket" /\ pc' = "setsockopt" /\ connfd = None /\ kind[n] = "free"
      /\ UNCHANGED <<running, size, connfd, signals, result>>
  BY <1>1 DEF Socket, Lowest, LifeInv, Temporaries
<1>3. Now \in Held /\ Now.fd = fd /\ Now.kind = kind /\ Sound(Now, {})
      /\ fd[temp_socket] = None /\ fd[temporary] = None /\ ~running /\ MembersEmpty
  BY <1>2, NowHeld, ObjectsAre DEF LifeInv, Temporaries, Holdings, MembersFit, TypeOK
<1>4. Now.kind[n] = "free" /\ Now.fd[temp_socket] = None
      /\ temp_socket \in Objects /\ "socket" \in Kinds \ {"free"}
  BY <1>2, <1>3, ObjectsAre
<1> HIDE DEF Kinds
<1>5. PICK t : t = Own(Opened(Now, n, "socket"), temp_socket, n)
  OBVIOUS
<1>6. t \in Held /\ Sound(t, {}) /\ Given(t, Now, n, "socket", temp_socket)
  BY <1>3, <1>4, <1>5, OpenFor
<1>7. Become(t) /\ fd' = t.fd
  BY <1>1, <1>5 DEF Become
<1>8. Holdings' /\ fd' \in [Objects -> Fds \cup {None}] /\ kind' \in [Fds -> Kinds]
  <2>1. {} = {connfd'} \ {None}
    BY <1>2
  <2> QED
    BY <1>6, <1>7, <2>1, BecomeSound
<1>9. \A p \in Objects : fd'[p] = IF p = temp_socket THEN n ELSE fd[p]
  BY <1>3, <1>6, <1>7 DEF Given
<1>10. TypeOK'
  BY <1>2, <1>8 DEF LifeInv, TypeOK, signals
<1>11. Temporaries' /\ MembersFit'
  BY <1>2, <1>3, <1>9, ObjectsAre, NoneIsNoNumber DEF Temporaries, MembersFit, MembersEmpty
<1> QED
  BY <1>8, <1>10, <1>11 DEF LifeInv

LEMMA StartStep == ASSUME LifeInv, LifeAssumption, Start PROVE LifeInv'
<1> USE DEF Setup, Kinds
<1>0. PICK n \in Fds :
         /\ Lowest(n)
         /\ Become(MoveAssign(MoveAssign(Own(Opened(Now, n, "signalfd"), temporary, n),
                                         signalfd, temporary),
                              listenfd, temp_socket))
  BY DEF Start
<1>1. PICK made, given, t :
         /\ Lowest(n)
         /\ made = Own(Opened(Now, n, "signalfd"), temporary, n)
         /\ given = MoveAssign(made, signalfd, temporary)
         /\ t = MoveAssign(given, listenfd, temp_socket)
         /\ Become(t)
  BY <1>0
<1>2. /\ pc = "signalfd" /\ pc' = "idle" /\ running' = TRUE /\ result' = "ok"
      /\ connfd = None /\ kind[n] = "free" /\ blocked
      /\ UNCHANGED <<size, connfd, signals>>
  BY <1>1 DEF Start, Lowest, LifeInv, Temporaries
<1>3. Now \in Held /\ Now.fd = fd /\ Now.kind = kind /\ Sound(Now, {})
      /\ fd[temp_socket] # None /\ fd[temporary] = None /\ MembersEmpty
      /\ kind[fd[temp_socket]] = "listening"
  BY <1>2, NowHeld, ObjectsAre DEF LifeInv, Temporaries, Holdings, MembersFit, TypeOK
<1>4. Now.kind[n] = "free" /\ Now.fd[temporary] = None
      /\ temporary \in Objects /\ "signalfd" \in Kinds \ {"free"} /\ {} \in SUBSET Fds
  BY <1>2, <1>3, ObjectsAre
<1> HIDE DEF Kinds
<1>5. made \in Held /\ Sound(made, {}) /\ Given(made, Now, n, "signalfd", temporary)
  BY <1>1, <1>3, <1>4, OpenFor
<1>6. signalfd \in Objects /\ signalfd # temporary /\ made.fd[signalfd] = None
  BY <1>3, <1>5, ObjectsAre DEF MembersEmpty, Given
<1>7. given \in Held /\ Sound(given, {}) /\ Moved(given, made, signalfd, temporary)
  BY <1>1, <1>4, <1>5, <1>6, MoveIntoEmpty
<1>8. listenfd \in Objects /\ temp_socket \in Objects /\ listenfd # temp_socket
      /\ given.fd[listenfd] = None
  BY <1>3, <1>5, <1>7, ObjectsAre DEF MembersEmpty, Given, Moved
<1>9. t \in Held /\ Sound(t, {}) /\ Moved(t, given, listenfd, temp_socket)
  BY <1>1, <1>4, <1>7, <1>8, MoveIntoEmpty
<1>10. Holdings' /\ fd' \in [Objects -> Fds \cup {None}] /\ kind' \in [Fds -> Kinds]
  <2>1. {} = {connfd'} \ {None}
    BY <1>2
  <2> QED
    BY <1>1, <1>9, <2>1, BecomeSound
<1>11. /\ \A p \in Objects : fd'[p] =
             IF p \in {temp_socket, temporary} THEN None
             ELSE IF p = listenfd THEN fd[temp_socket] ELSE IF p = signalfd THEN n ELSE fd[p]
       /\ \A m \in Fds : kind'[m] = IF m = n THEN "signalfd" ELSE kind[m]
  <2>1. fd' = t.fd /\ kind' = t.kind
    BY <1>1 DEF Become
  <2>2. \A m \in Fds : kind'[m] = IF m = n THEN "signalfd" ELSE kind[m]
    BY <1>3, <1>5, <1>7, <1>9, <2>1 DEF Given, Moved
  <2>3. \A p \in Objects : given.fd[p] =
             IF p = temporary THEN None ELSE IF p = signalfd THEN n ELSE fd[p]
    BY <1>3, <1>5, <1>7, ObjectsAre DEF Given, Moved
  <2>4. \A p \in Objects : t.fd[p] =
             IF p = temp_socket THEN None
             ELSE IF p = listenfd THEN given.fd[temp_socket] ELSE given.fd[p]
    BY <1>9 DEF Moved
  <2> QED
    BY <2>4, <2>1, <2>2, <2>3, ObjectsAre
<1>12. TypeOK'
  BY <1>2, <1>10 DEF LifeInv, TypeOK, signals
<1>13. Temporaries'
  BY <1>2, <1>11, ObjectsAre DEF Temporaries
<1>14. MembersLive'
  <2>1. fd'[listenfd] = fd[temp_socket] /\ fd'[signalfd] = n
    BY <1>11, ObjectsAre
  <2>2. fd[temp_socket] \in Fds /\ fd[temp_socket] # n
    BY <1>2, <1>3, ObjectsAre DEF LifeInv, TypeOK
  <2>3. kind'[fd[temp_socket]] = "listening" /\ kind'[n] = "signalfd"
    BY <1>3, <1>11, <2>2
  <2>4. \A j \in Slots : fd'[j] = None
    BY <1>3, <1>11, ObjectsAre DEF MembersEmpty
  <2>5. size' = 0 /\ blocked' /\ \A j \in Slots : ~(j <= 0)
    BY <1>2, <1>3 DEF MembersEmpty, signals, Slots
  <2> QED
    BY <2>1, <2>2, <2>3, <2>4, <2>5, NoneIsNoNumber DEF MembersLive
<1>15. MembersFit'
  BY <1>2, <1>14 DEF MembersFit
<1> QED
  BY <1>10, <1>12, <1>13, <1>15 DEF LifeInv

\* accept_socket: the new descriptor is nobody's yet.
LEMMA AcceptStep == ASSUME LifeInv, LifeAssumption, AcceptSocket PROVE LifeInv'
<1>1. PICK n \in Fds : Lowest(n) /\ connfd' = n /\ Become(Opened(Now, n, "connection"))
  BY DEF AcceptSocket
<1>2. /\ pc = "loop" /\ pc' = "accepted" /\ connfd = None /\ kind[n] = "free" /\ running
      /\ UNCHANGED <<running, size, signals, result>>
  BY <1>1 DEF AcceptSocket, Lowest, LifeInv, Temporaries, MembersFit
<1>3. Now \in Held /\ Now.fd = fd /\ Now.kind = kind /\ Sound(Now, {}) /\ MembersLive
      /\ "connection" \in Kinds
  BY <1>2, NowHeld DEF LifeInv, Holdings, MembersFit, Kinds
<1>4. PICK t : t = Opened(Now, n, "connection")
  OBVIOUS
<1>5. t \in Held /\ t.fd = fd
      /\ \A m \in Fds : t.kind[m] = IF m = n THEN "connection" ELSE kind[m]
  BY <1>3, <1>4 DEF Opened, Held
<1>6. \A o \in Objects : fd[o] # n
  BY <1>2, <1>3 DEF Sound
<1>7. Sound(t, {n})
  BY <1>3, <1>5, <1>6 DEF Sound
<1>8. Become(t) /\ fd' = fd /\ kind' = t.kind
  BY <1>1, <1>4, <1>5 DEF Become
<1>9. n # None /\ {n} = {connfd'} \ {None}
  BY <1>1, NoneIsNoNumber
<1>10. Holdings' /\ fd' \in [Objects -> Fds \cup {None}] /\ kind' \in [Fds -> Kinds]
  BY <1>5, <1>7, <1>8, <1>9, BecomeSound
<1>11. TypeOK'
  BY <1>1, <1>2, <1>10 DEF LifeInv, TypeOK, signals
<1>12. Temporaries'
  BY <1>1, <1>2, <1>5, <1>8, <1>9, ObjectsAre DEF LifeInv, Temporaries, Setup
<1>13. MembersLive'
  <2>1. \A o \in Objects : fd[o] # None => kind'[fd[o]] = kind[fd[o]]
    BY <1>5, <1>6, <1>8 DEF LifeInv, TypeOK
  <2> QED
    BY <1>2, <1>3, <1>8, <2>1, ObjectsAre DEF MembersLive, signals
<1> QED
  BY <1>2, <1>10, <1>11, <1>12, <1>13 DEF LifeInv, MembersFit, Setup

LEMMA RejectStep == ASSUME LifeInv, LifeAssumption, Reject PROVE LifeInv'
<1>1. /\ pc = "accepted" /\ pc' = "loop" /\ connfd' = None /\ running /\ connfd \in Fds
      /\ kind' = [kind EXCEPT ![connfd] = "free"]
      /\ UNCHANGED <<running, fd, size, signals, result>>
  BY DEF Reject, LifeInv, TypeOK, Temporaries, MembersFit
<1>2. Sound(Now, {connfd}) /\ Now.fd = fd /\ Now.kind = kind /\ MembersLive
  BY <1>1, NowHeld, NoneIsNoNumber DEF LifeInv, Holdings, MembersFit
<1>3. /\ kind' \in [Fds -> Kinds]
      /\ \A m \in Fds : kind'[m] = IF m = connfd THEN "free" ELSE kind[m]
  BY <1>1 DEF LifeInv, TypeOK, Kinds
<1>4. \A o \in Objects : fd[o] # connfd
  BY <1>2 DEF Sound
<1>5. Now' \in Held /\ Now'.fd = fd /\ Now'.kind = kind'
  BY <1>1, <1>3 DEF Now, Held, LifeInv, TypeOK
<1>6. Sound(Now', {})
  <2>1. \A n \in Fds : kind'[n] # "free" <=> \E o \in Objects : fd[o] = n
    BY <1>2, <1>3, <1>4 DEF Sound
  <2>2. \A o, p \in Objects : fd[o] = fd[p] /\ fd[o] # None => o = p
    BY <1>2 DEF Sound
  <2> QED
    BY <1>5, <2>1, <2>2 DEF Sound
<1>7. Holdings'
  BY <1>1, <1>6 DEF Holdings
<1>8. TypeOK'
  BY <1>1, <1>3 DEF LifeInv, TypeOK, signals
<1>9. Temporaries'
  BY <1>1 DEF LifeInv, Temporaries, Setup
<1>10. MembersLive'
  <2>1. \A o \in Objects : fd[o] # None => kind'[fd[o]] = kind[fd[o]]
    BY <1>3, <1>4 DEF LifeInv, TypeOK
  <2> QED
    BY <1>1, <1>2, <2>1, ObjectsAre DEF MembersLive, signals
<1> QED
  BY <1>1, <1>7, <1>8, <1>9, <1>10 DEF LifeInv, MembersFit, Setup

\* The ClientInfo takes the descriptor over.
LEMMA AdmitStep == ASSUME LifeInv, LifeAssumption, Admit PROVE LifeInv'
<1> DEFINE new == size + 1
<1>1. PICK own, t : /\ own = Own(Now, temporary, connfd)
                    /\ t = Move(own, new, temporary) /\ Become(t)
  BY DEF Admit
<1>2. /\ pc = "accepted" /\ pc' = "loop" /\ connfd' = None /\ running /\ connfd \in Fds
      /\ ~(size >= MaxClients) /\ size' = new /\ kind[connfd] = "connection"
      /\ UNCHANGED <<running, signals, result>>
  BY DEF Admit, Full, LifeInv, TypeOK, Temporaries, MembersFit
<1>3. Now \in Held /\ Now.fd = fd /\ Now.kind = kind /\ Sound(Now, {connfd}) /\ MembersLive
      /\ fd[temporary] = None /\ fd[temp_socket] = None
  BY <1>2, NowHeld, NoneIsNoNumber DEF LifeInv, Holdings, MembersFit, Temporaries, Setup
<1>4. size \in Nat /\ MaxClients \in Nat /\ new \in Slots /\ ~(new <= size)
      /\ \A j \in Slots : j <= new <=> j <= size \/ j = new
  BY <1>2 DEF LifeInv, TypeOK, LifeAssumption, Slots
<1> HIDE DEF new
<1>5. /\ own \in Held /\ own.kind = kind
      /\ \A p \in Objects : own.fd[p] = IF p = temporary THEN connfd ELSE fd[p]
  BY <1>1, <1>2, <1>3, ObjectsAre DEF Own, Held
<1>6. Sound(own, {})
  <2>1. \A o \in Objects : fd[o] # connfd
    BY <1>3 DEF Sound
  <2>2. \A n \in Fds : (\E o \in Objects : own.fd[o] = n)
                        <=> (n = connfd \/ \E o \in Objects : fd[o] = n)
    BY <1>3, <1>5, ObjectsAre, NoneIsNoNumber
  <2>3. \A n \in Fds : own.kind[n] # "free" <=> \E o \in Objects : own.fd[o] = n
    <3>1. \A n \in Fds : kind[n] # "free" <=> (n = connfd \/ \E o \in Objects : fd[o] = n)
      BY <1>3 DEF Sound
    <3>2. own.kind = kind
      BY <1>5
    <3> QED
      BY <2>2, <3>1, <3>2
  <2>4. \A o, p \in Objects : own.fd[o] = own.fd[p] /\ own.fd[o] # None => o = p
    BY <1>3, <1>5, <2>1 DEF Sound
  <2> QED
    BY <2>3, <2>4 DEF Sound
<1>7. new \in Objects /\ temporary \in Objects /\ new # temporary /\ own.fd[new] = None
  BY <1>3, <1>4, <1>5, ObjectsAre DEF MembersLive
<1>8. /\ t \in Held /\ t.kind = kind
      /\ \A p \in Objects : t.fd[p] =
           IF p = temporary THEN None ELSE IF p = new THEN connfd ELSE fd[p]
  BY <1>1, <1>5, <1>7 DEF Move, Held
<1>9. Sound(t, {})
  BY <1>1, <1>5, <1>6, <1>7, MoveKeepsSound
<1>10. {} = {connfd'} \ {None}
  BY <1>2
<1>11. Holdings' /\ fd' \in [Objects -> Fds \cup {None}] /\ kind' \in [Fds -> Kinds]
  BY <1>1, <1>8, <1>9, <1>10, BecomeSound
<1>12. fd' = t.fd /\ kind' = kind
  BY <1>1, <1>8 DEF Become
<1>13. size' \in 0..MaxClients
  BY <1>2, <1>4 DEF new
<1>14. TypeOK'
  BY <1>2, <1>11, <1>13 DEF LifeInv, TypeOK, signals
<1>15. Temporaries'
  BY <1>2, <1>3, <1>7, <1>8, <1>12, <1>4, ObjectsAre DEF Temporaries, Setup
<1>16. MembersLive'
  <2>1. fd'[listenfd] = fd[listenfd] /\ fd'[signalfd] = fd[signalfd]
    BY <1>4, <1>8, <1>12, ObjectsAre
  <2>2. \A j \in Slots : fd'[j] = IF j = new THEN connfd ELSE fd[j]
    BY <1>4, <1>8, <1>12, ObjectsAre
  <2>3. \A j \in Slots : fd'[j] # None <=> j <= new
    BY <1>2, <1>3, <1>4, <2>2, NoneIsNoNumber DEF MembersLive
  <2>4. \A j \in Slots : j <= new => kind'[fd'[j]] = "connection"
    BY <1>2, <1>3, <1>4, <1>12, <2>2 DEF MembersLive
  <2> QED
    BY <1>2, <1>3, <1>12, <2>1, <2>3, <2>4 DEF MembersLive, signals
<1> QED
  BY <1>2, <1>11, <1>14, <1>15, <1>16 DEF LifeInv, MembersFit, Setup

\* The last client takes the place of the one that goes.
LEMMA RemoveStep == ASSUME LifeInv, LifeAssumption, NEW i \in Slots, Remove(i) PROVE LifeInv'
<1>1. PICK m, t : /\ m = MoveAssign(Now, i, size)
                  /\ t = Reset(m, {size}) /\ Become(t)
  BY DEF Remove
<1>2. /\ pc = "loop" /\ connfd = None /\ running /\ i <= size /\ size' = size - 1
      /\ UNCHANGED <<pc, running, connfd, signals, result>>
  BY DEF Remove, LifeInv, Temporaries, MembersFit
<1>3. Now \in Held /\ Now.fd = fd /\ Now.kind = kind /\ Sound(Now, {}) /\ MembersLive
      /\ fd[temporary] = None /\ fd[temp_socket] = None
  BY <1>2, NowHeld DEF LifeInv, Holdings, MembersFit, Temporaries, Setup
<1>4. /\ size \in Nat /\ size \in Slots /\ i \in Objects /\ size \in Objects
      /\ size' \in 0..MaxClients
      /\ \A j \in Slots : j <= size' <=> j <= size /\ j # size
  BY <1>2, ObjectsAre DEF LifeInv, TypeOK, LifeAssumption, Slots
<1>5. fd[i] \in Fds /\ fd[size] \in Fds
  BY <1>2, <1>3, <1>4 DEF MembersLive, LifeInv, TypeOK
<1>6. /\ m \in Held /\ Sound(m, {})
      /\ \A p \in Objects \ {size} : m.fd[p] = IF p = i THEN fd[size] ELSE fd[p]
      /\ i # size => m.fd[size] = None
      /\ i = size => m = Now
      /\ \A n \in Fds : m.kind[n] = IF i # size /\ n = fd[i] THEN "free" ELSE kind[n]
  <2>1. CASE i = size
    BY <1>1, <1>3, <2>1 DEF MoveAssign
  <2>2. CASE i # size
    <3>1. PICK r : r = Reset(Now, {i})
      OBVIOUS
    <3>2. {i} \in SUBSET Objects /\ {} \in SUBSET Fds
      BY <1>4
    <3>3. /\ r \in Held
          /\ \A o \in Objects : r.fd[o] = IF o \in {i} THEN None ELSE fd[o]
          /\ \A n \in Fds : r.kind[n] = IF \E o \in {i} : fd[o] = n THEN "free" ELSE kind[n]
      BY <1>3, <3>1, <3>2, ResetIs
    <3>4. Sound(r, {})
      BY <1>3, <3>1, <3>2, ResetKeepsSound
    <3>5. m = Move(r, i, size) /\ r.fd[i] = None
      BY <1>1, <1>4, <2>2, <3>1, <3>3 DEF MoveAssign
    <3>6. Sound(m, {})
      BY <1>4, <2>2, <3>3, <3>4, <3>5, MoveKeepsSound
    <3>7. /\ m \in Held /\ m.kind = r.kind
          /\ \A p \in Objects : m.fd[p] =
               IF p = size THEN None ELSE IF p = i THEN r.fd[size] ELSE r.fd[p]
      BY <1>4, <2>2, <3>3, <3>5 DEF Move, Held
    <3> QED
      BY <1>4, <2>2, <3>3, <3>6, <3>7
  <2> QED
    BY <2>1, <2>2
<1>7. {size} \in SUBSET Objects /\ {} \in SUBSET Fds
  BY <1>4
<1>8. /\ t \in Held
      /\ \A o \in Objects : t.fd[o] = IF o \in {size} THEN None ELSE m.fd[o]
      /\ \A n \in Fds : t.kind[n] = IF \E o \in {size} : m.fd[o] = n THEN "free" ELSE m.kind[n]
  BY <1>1, <1>6, <1>7, ResetIs
<1>9. Sound(t, {})
  BY <1>1, <1>6, <1>7, ResetKeepsSound
<1>10. /\ \A p \in Objects : t.fd[p] =
            IF p = size THEN None ELSE IF p = i THEN fd[size] ELSE fd[p]
       /\ \A n \in Fds : t.kind[n] = IF n = fd[i] THEN "free" ELSE kind[n]
  <2>1. CASE i = size
    BY <1>3, <1>6, <1>8, <2>1
  <2>2. CASE i # size
    <3>1. \A n \in Fds : m.fd[size] # n
      BY <1>6, <2>2, NoneIsNoNumber
    <3> QED
      BY <1>4, <1>6, <1>8, <2>2, <3>1
  <2> QED
    BY <2>1, <2>2
<1>11. {} = {connfd'} \ {None}
  BY <1>2
<1>12. Holdings' /\ fd' \in [Objects -> Fds \cup {None}] /\ kind' \in [Fds -> Kinds]
  BY <1>1, <1>8, <1>9, <1>11, BecomeSound
<1>13. fd' = t.fd /\ kind' = t.kind
  BY <1>1 DEF Become
<1>14. TypeOK'
  BY <1>2, <1>4, <1>12 DEF LifeInv, TypeOK, signals
<1>15. Temporaries'
  <2>1. fd'[temporary] = None /\ fd'[temp_socket] = None
    BY <1>3, <1>4, <1>10, <1>13, ObjectsAre
  <2> QED
    BY <1>2, <2>1 DEF Temporaries, Setup
<1>16. MembersLive'
  <2>1. fd'[listenfd] = fd[listenfd] /\ fd'[signalfd] = fd[signalfd]
    BY <1>4, <1>10, <1>13, ObjectsAre
  <2>2. \A j \in Slots : fd'[j] = IF j = size THEN None ELSE IF j = i THEN fd[size] ELSE fd[j]
    BY <1>10, <1>13, ObjectsAre
  <2>3. \A o \in Objects : fd[o] # None /\ o # i => kind'[fd[o]] = kind[fd[o]]
    <3>1. ASSUME NEW o \in Objects, fd[o] # None, o # i PROVE fd[o] \in Fds /\ fd[o] # fd[i]
      BY <1>3, <1>4, <3>1 DEF Sound, LifeInv, TypeOK
    <3> QED
      BY <1>10, <1>13, <3>1
  <2>4. \A j \in Slots : fd'[j] # None <=> j <= size'
    BY <1>2, <1>3, <1>4, <1>5, <2>2, NoneIsNoNumber DEF MembersLive
  <2>5. ASSUME NEW j \in Slots, j <= size' PROVE kind'[fd'[j]] = "connection"
    <3>1. j <= size /\ j # size
      BY <1>4, <2>5
    <3>2. CASE j = i
      <4>1. fd'[j] = fd[size] /\ size # i /\ size \in Objects
        BY <1>4, <2>2, <3>1, <3>2
      <4>2. fd[size] # None /\ kind[fd[size]] = "connection"
        BY <1>3, <1>4 DEF MembersLive
      <4> QED
        BY <2>3, <4>1, <4>2
    <3>3. CASE j # i
      BY <1>3, <1>4, <2>2, <2>3, <3>1, <3>3, ObjectsAre DEF MembersLive
    <3> QED
      BY <3>2, <3>3
  <2>6. i # listenfd /\ i # signalfd
    BY ObjectsAre
  <2>7. kind'[fd'[listenfd]] = "listening" /\ kind'[fd'[signalfd]] = "signalfd"
    BY <1>3, <2>1, <2>3, <2>6, ObjectsAre DEF MembersLive
  <2> QED
    BY <1>2, <1>3, <2>1, <2>4, <2>5, <2>7 DEF MembersLive, signals
<1> QED
  BY <1>2, <1>12, <1>14, <1>15, <1>16 DEF LifeInv, MembersFit, Setup

\* The destructors and stop(): what a set of objects held is closed.
LEMMA ResetSteps ==
  ASSUME LifeInv, LifeAssumption, pc \in Setup \cup {"idle", "loop"},
         NEW os \in SUBSET Objects, Become(Reset(Now, os)), UNCHANGED connfd,
         pc' \notin {"killed", "accepted"}
  PROVE  /\ Holdings' /\ fd' \in [Objects -> Fds \cup {None}] /\ kind' \in [Fds -> Kinds]
         /\ \A o \in Objects : fd'[o] = IF o \in os THEN None ELSE fd[o]
<1>1. Now \in Held /\ Now.fd = fd /\ connfd = None /\ Sound(Now, {}) /\ {} \in SUBSET Fds
  BY NowHeld DEF LifeInv, Holdings, Temporaries, Setup
<1>2. PICK t : t = Reset(Now, os)
  OBVIOUS
<1>3. t \in Held /\ \A o \in Objects : t.fd[o] = IF o \in os THEN None ELSE fd[o]
  BY <1>1, <1>2, ResetIs
<1>4. Sound(t, {})
  BY <1>1, <1>2, ResetKeepsSound
<1>5. Become(t) /\ fd' = t.fd /\ {} = {connfd'} \ {None}
  BY <1>1, <1>2 DEF Become
<1>6. Holdings' /\ fd' \in [Objects -> Fds \cup {None}] /\ kind' \in [Fds -> Kinds]
  BY <1>3, <1>4, <1>5, BecomeSound
<1> QED
  BY <1>3, <1>5, <1>6

LEMMA EndSteps ==
  ASSUME LifeInv, LifeAssumption, SetupFails \/ Signal \/ StopCall \/ Destroy
  PROVE  LifeInv'
<1>0. MaxClients \in Nat /\ Members \in SUBSET Objects /\ {temp_socket} \in SUBSET Objects
  BY ObjectsAre DEF LifeAssumption
<1>1. CASE SetupFails
  <2>1. /\ pc \in Setup /\ pc' = "idle" /\ result' = "system_error" /\ ~running
        /\ Become(Reset(Now, {temp_socket})) /\ UNCHANGED <<running, size, connfd, signals>>
        /\ connfd = None /\ fd[temporary] = None /\ MembersEmpty
    BY <1>1 DEF SetupFails, LifeInv, MembersFit, Temporaries, Setup
  <2>2. /\ Holdings' /\ fd' \in [Objects -> Fds \cup {None}] /\ kind' \in [Fds -> Kinds]
        /\ \A o \in Objects : fd'[o] = IF o \in {temp_socket} THEN None ELSE fd[o]
    BY <1>0, <2>1, ResetSteps
  <2>3. TypeOK'
    BY <2>1, <2>2 DEF LifeInv, TypeOK, signals
  <2>4. Temporaries' /\ MembersFit'
    BY <2>1, <2>2, ObjectsAre DEF Temporaries, MembersFit, MembersEmpty, Setup
  <2> QED
    BY <2>2, <2>3, <2>4 DEF LifeInv
<1>2. CASE Signal \/ StopCall \/ Destroy
  <2>0. 0 \in 0..MaxClients /\ size \in 0..MaxClients /\ running \in BOOLEAN
        /\ pending \subseteq Signals /\ result \in {"ok", "logic_error", "system_error"}
    BY <1>0 DEF LifeInv, TypeOK
  <2>1. /\ pc \in {"idle", "loop"} /\ pc' \in {"idle", "destroyed"}
        /\ Become(Reset(Now, Members)) /\ UNCHANGED <<connfd, blocked>>
        /\ pending' \subseteq Signals /\ result' \in {"ok", "logic_error", "system_error"}
        /\ connfd = None /\ fd[temporary] = None /\ fd[temp_socket] = None
        /\ size' \in 0..MaxClients /\ running' \in BOOLEAN
        /\ (pc' = "idle" => size' = 0 /\ ~running')
    <3>1. CASE Signal
      BY <2>0, <3>1 DEF Signal, Stop, LifeInv, Temporaries, Setup
    <3>2. CASE StopCall
      BY <2>0, <3>2 DEF StopCall, Stop, LifeInv, Temporaries, Setup, signals
    <3>3. CASE Destroy
      BY <2>0, <3>3 DEF Destroy, LifeInv, Temporaries, Setup, signals
    <3> QED
      BY <1>2, <3>1, <3>2, <3>3
  <2>2. /\ Holdings' /\ fd' \in [Objects -> Fds \cup {None}] /\ kind' \in [Fds -> Kinds]
        /\ \A o \in Objects : fd'[o] = IF o \in Members THEN None ELSE fd[o]
    BY <1>0, <2>1, ResetSteps
  <2>3. TypeOK'
    BY <2>1, <2>2 DEF LifeInv, TypeOK
  <2>4. Temporaries' /\ MembersFit'
    BY <2>1, <2>2, ObjectsAre DEF Temporaries, MembersFit, MembersEmpty, Setup
  <2> QED
    BY <2>2, <2>3, <2>4 DEF LifeInv
<1> QED
  BY <1>1, <1>2

LEMMA SignalsSent ==
  ASSUME LifeInv, LifeAssumption, (\E s \in Signals : Interrupt(s)) \/ Sigpipe \/ UNCHANGED vars
  PROVE  LifeInv'
<1>1. CASE Killed
  BY <1>1 DEF Killed, LifeInv, TypeOK, Holdings, Temporaries, MembersFit, Setup, Kinds, signals
<1>2. CASE UNCHANGED <<pc, running, objects, blocked, result>> /\ pending' \subseteq Signals
  <2>1. TypeOK'
    BY <1>2 DEF LifeInv, TypeOK, objects
  <2>2. Holdings'
    BY <1>2 DEF LifeInv, Holdings, Now, objects, Sound
  <2>3. Temporaries' /\ MembersFit'
    BY <1>2 DEF LifeInv, Temporaries, MembersFit, MembersLive, MembersEmpty, objects
  <2> QED
    BY <2>1, <2>2, <2>3 DEF LifeInv
<1>3. pending \subseteq Signals
  BY DEF LifeInv, TypeOK
<1> QED
  BY <1>1, <1>2, <1>3 DEF Interrupt, Sigpipe, vars, signals

LEMMA LifeStep == ASSUME LifeInv, LifeAssumption, [Next]_vars PROVE LifeInv'
  BY SetupSteps, SocketStep, StartStep, AcceptStep, RejectStep, AdmitStep, RemoveStep,
     EndSteps, SignalsSent DEF Next

LEMMA LifeInit == ASSUME Init, LifeAssumption PROVE LifeInv
<1>1. TypeOK
  <2>1. 0 \in 0..MaxClients
    BY DEF LifeAssumption
  <2>2. fd \in [Objects -> Fds \cup {None}] /\ kind \in [Fds -> Kinds]
    BY DEF Init, Kinds
  <2> QED
    BY <2>1, <2>2 DEF Init, TypeOK
<1>2. Holdings
  <2>1. Now.fd = fd /\ Now.kind = kind
    BY DEF Now
  <2>2. Sound(Now, {})
    BY <2>1, NoneIsNoNumber DEF Sound, Init
  <2> QED
    BY <2>2 DEF Holdings, Init
<1>3. Temporaries /\ MembersFit
  BY ObjectsAre DEF Init, Temporaries, MembersFit, MembersEmpty, Setup
<1> QED
  BY <1>1, <1>2, <1>3 DEF LifeInv

LEMMA LifeInvariance == Spec => []LifeInv
<1>1. Init => LifeInv
  BY LifeAssumption, LifeInit
<1>2. LifeInv /\ [Next]_vars => LifeInv'
  BY LifeAssumption, LifeStep
<1> QED
  BY <1>1, <1>2, PTL DEF Spec

-----------------------------------------------------------------------------
(* The theorems.                                                           *)

\* No call, failure or signal leaves a server with more than max_clients
\* clients or with values of another kind: the check of clients.size() before
\* push_back (chat_server.cpp:104) is enough.
THEOREM LifeTypeCorrect == Spec => []TypeOK
<1>1. LifeInv => TypeOK
  BY DEF LifeInv
<1> QED
  BY <1>1, LifeInvariance, PTL

\* The descriptors open in the process are exactly those the server's objects
\* and accept_socket's caller hold, each once: nothing leaks when run() throws
\* half-way, a client that leaves is closed once although its element is
\* overwritten by the last one, and stop() closes everything.
THEOREM DescriptorsOwnedOnce == Spec => []OwnedOnce
<1>1. LifeInv => OwnedOnce
  BY LifeAssumption, HoldingsAreOwnedOnce DEF LifeInv
<1> QED
  BY <1>1, LifeInvariance, PTL

\* Behind every call that returns or throws the server runs, with its sockets
\* and the signals blocked, or none of its descriptors is open, whatever failed.
\* What a failed run() leaves of the signal mask is not part of it.
THEOREM RunsOrNoDescriptor == Spec => []RunsOrHoldsNoDescriptor
<1>1. LifeInv => RunsOrHoldsNoDescriptor
  BY LifeAssumption, InvImpliesRuns
<1> QED
  BY <1>1, LifeInvariance, PTL
=============================================================================

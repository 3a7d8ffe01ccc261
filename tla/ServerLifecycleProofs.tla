------------------------ MODULE ServerLifecycleProofs ------------------------
(***************************************************************************)
(* Proofs about ServerLifecycle, for any set of connections.               *)
(*                                                                         *)
(* First what a walk along a list is for any pointers: it is the walk from *)
(* the rest of its node, and ends when the pointers have no cycle, which a *)
(* rank that descends along them shows; the first node that stays is what  *)
(* LooperUpdate links to.  Then the invariant: where the three threads     *)
(* stand (ControlInv), the shape of the list, which always holds           *)
(* (ShapeInv), and, as long as no push went astray, that the mutex keeps   *)
(* three threads apart (LockInv), that the list holds every accepted       *)
(* socket and no freed node (ListInv), and that the walks of main and the  *)
(* looper stand on it (WalkInv).                                           *)
(***************************************************************************)
EXTENDS ServerLifecycle, Induction

-----------------------------------------------------------------------------
(* Walks along a list, for any pointers r.                                 *)

(* The pointers a walk from p follows, with r for the rest of each node.   *)
WalkIn(r, p) ==
  {q \in Pointer : \A S \in SUBSET Pointer :
                     p \in S /\ (\A c \in S \cap Conn : r[c] \in S) => q \in S}

(* k shows that the list has no cycle.                                     *)
Ranked(r, k) == k \in [Pointer -> Nat] /\ \A c \in Conn : k[r[c]] < k[c]

(* The first node from p on that is not in dead.                           *)
FirstIn(r, dead, p) ==
  LET stays == WalkIn(r, p) \ dead
  IN CHOOSE q \in stays : stays \subseteq WalkIn(r, q)

(* A walk begins where it begins, and goes on from a node to its rest.     *)
LEMMA WalkFrom ==
  ASSUME NEW r \in [Conn -> Pointer], NEW p \in Pointer
  PROVE  /\ p \in WalkIn(r, p) /\ WalkIn(r, p) \subseteq Pointer
         /\ \A c \in WalkIn(r, p) \cap Conn : r[c] \in WalkIn(r, p)
BY DEF WalkIn

(* It goes nowhere else.                                                   *)
LEMMA WalkLeast ==
  ASSUME NEW r, NEW p, NEW S \in SUBSET Pointer,
         p \in S, \A c \in S \cap Conn : r[c] \in S
  PROVE  WalkIn(r, p) \subseteq S
BY DEF WalkIn

(* From a pointer that is no node the walk does not go on.                 *)
LEMMA WalkEnd ==
  ASSUME NEW r \in [Conn -> Pointer], NEW p \in Pointer \ Conn
  PROVE  WalkIn(r, p) = {p}
<1> DEFINE S == {p}
<1>1. S \in SUBSET Pointer /\ p \in S /\ S \cap Conn = {}
  OBVIOUS
<1> HIDE DEF S
<1>2. WalkIn(r, p) \subseteq S
  BY <1>1, WalkLeast
<1> QED BY <1>2, WalkFrom DEF S

(* What is on a walk has its own walk on it.                               *)
LEMMA WalkOn ==
  ASSUME NEW r \in [Conn -> Pointer], NEW p \in Pointer, NEW q \in WalkIn(r, p)
  PROVE  WalkIn(r, q) \subseteq WalkIn(r, p)
<1> DEFINE S == WalkIn(r, p)
<1>1. S \in SUBSET Pointer /\ \A c \in S \cap Conn : r[c] \in S
  BY WalkFrom
<1> HIDE DEF S
<1> QED BY <1>1, WalkLeast DEF S

(* A walk from a node is the node and the walk from its rest.              *)
LEMMA WalkNode ==
  ASSUME NEW r \in [Conn -> Pointer], NEW c \in Conn
  PROVE  WalkIn(r, c) = {c} \cup WalkIn(r, r[c])
<1> DEFINE T == WalkIn(r, r[c])
           S == {c} \cup T
<1>1. c \in Pointer /\ r[c] \in Pointer
  BY DEF Pointer
<1>2. r[c] \in T /\ T \in SUBSET Pointer /\ \A d \in T \cap Conn : r[d] \in T
  BY <1>1, WalkFrom
<1>3. c \in WalkIn(r, c) /\ r[c] \in WalkIn(r, c)
  BY <1>1, WalkFrom
<1>4. T \subseteq WalkIn(r, c)
  BY <1>1, <1>3, WalkOn
<1> HIDE DEF T
<1>5. WalkIn(r, c) \subseteq S
  <2>1. S \in SUBSET Pointer /\ c \in S /\ \A d \in S \cap Conn : r[d] \in S
    BY <1>1, <1>2
  <2> HIDE DEF S
  <2> QED BY <2>1, WalkLeast
<1> QED BY <1>3, <1>4, <1>5 DEF T

(* The ranks descend along a walk.                                         *)
LEMMA WalkDescends ==
  ASSUME NEW r \in [Conn -> Pointer], NEW k, Ranked(r, k),
         NEW p \in Pointer, NEW q \in WalkIn(r, p)
  PROVE  q = p \/ k[q] < k[p]
<1> DEFINE S == {s \in Pointer : s = p \/ k[s] < k[p]}
<1>1. k \in [Pointer -> Nat] /\ \A c \in Conn : k[r[c]] < k[c]
  BY DEF Ranked
<1>2. ASSUME NEW c \in S \cap Conn PROVE r[c] \in S
  <2>1. c \in Pointer /\ r[c] \in Pointer
    BY <1>2
  <2>2. k[c] \in Nat /\ k[r[c]] \in Nat /\ k[p] \in Nat /\ k[r[c]] < k[c]
    BY <1>1, <1>2, <2>1
  <2>3. c = p \/ k[c] < k[p]
    BY <1>2
  <2>4. k[r[c]] < k[p]
    BY <2>2, <2>3
  <2> QED BY <2>1, <2>4
<1>3. WalkIn(r, p) \subseteq S
  <2>1. S \in SUBSET Pointer /\ p \in S
    OBVIOUS
  <2> HIDE DEF S
  <2> QED BY <1>2, <2>1, WalkLeast
<1> QED BY <1>3

(* A list has no cycle: a node is not on the walk from its rest.           *)
LEMMA NoCycle ==
  ASSUME NEW r \in [Conn -> Pointer], NEW k, Ranked(r, k), NEW c \in Conn
  PROVE  c \notin WalkIn(r, r[c])
<1>1. c \in Pointer /\ r[c] \in Pointer
  BY DEF Pointer
<1>2. k[c] \in Nat /\ k[r[c]] \in Nat /\ k[r[c]] < k[c]
  BY <1>1 DEF Ranked
<1>3. c \in WalkIn(r, r[c]) => c = r[c] \/ k[c] < k[r[c]]
  BY <1>1, WalkDescends
<1>4. ~(c = r[c] \/ k[c] < k[r[c]])
  BY <1>2
<1> QED BY <1>3, <1>4

(* A node that is not on the walk may change.                              *)
LEMMA WalkElsewhere ==
  ASSUME NEW r \in [Conn -> Pointer], NEW p \in Pointer,
         NEW a \in Conn, a \notin WalkIn(r, p), NEW v \in Pointer
  PROVE  WalkIn([r EXCEPT ![a] = v], p) = WalkIn(r, p)
<1> DEFINE t == [r EXCEPT ![a] = v]
           S == WalkIn(r, p)
           T == WalkIn(t, p)
<1>1. t \in [Conn -> Pointer] /\ \A c \in Conn \ {a} : t[c] = r[c]
  OBVIOUS
<1> HIDE DEF t
<1>2. T \subseteq S
  <2>1. S \in SUBSET Pointer /\ p \in S /\ \A c \in S \cap Conn : r[c] \in S
    BY WalkFrom
  <2> HIDE DEF S
  <2>2. \A c \in S \cap Conn : t[c] \in S
    BY <1>1, <2>1 DEF S
  <2> QED BY <2>1, <2>2, WalkLeast
<1>3. S \subseteq T
  <2>1. T \in SUBSET Pointer /\ p \in T /\ \A c \in T \cap Conn : t[c] \in T
    BY <1>1, WalkFrom
  <2>2. a \notin T
    BY <1>2
  <2> HIDE DEF T
  <2>3. \A c \in T \cap Conn : r[c] \in T
    BY <1>1, <2>1, <2>2
  <2> QED BY <2>1, <2>3, WalkLeast
<1> QED BY <1>2, <1>3 DEF t

-----------------------------------------------------------------------------
(* The first node that is not dead.                                        *)

(* A dead node is skipped.                                                 *)
LEMMA FirstSkips ==
  ASSUME NEW r \in [Conn -> Pointer], NEW dead, NEW c \in Conn, c \in dead
  PROVE  FirstIn(r, dead, c) = FirstIn(r, dead, r[c])
<1>1. WalkIn(r, c) \ dead = WalkIn(r, r[c]) \ dead
  BY WalkNode
<1> QED BY <1>1 DEF FirstIn

(* Another one is the first itself.                                        *)
LEMMA FirstStays ==
  ASSUME NEW r \in [Conn -> Pointer], NEW k, Ranked(r, k), NEW dead,
         NEW p \in Pointer, p \notin dead
  PROVE  FirstIn(r, dead, p) = p
<1> DEFINE stays == WalkIn(r, p) \ dead
           q == FirstIn(r, dead, p)
<1>1. p \in stays /\ stays \subseteq WalkIn(r, p)
  BY WalkFrom
<1>2. q \in stays /\ stays \subseteq WalkIn(r, q)
  BY <1>1 DEF FirstIn
<1>3. q \in WalkIn(r, p) /\ p \in WalkIn(r, q) /\ q \in Pointer
  BY <1>1, <1>2, WalkFrom
<1> HIDE DEF q
<1>4. k[p] \in Nat /\ k[q] \in Nat
  BY <1>3 DEF Ranked
<1>5. q = p \/ (k[q] < k[p] /\ k[p] < k[q])
  BY <1>3, WalkDescends
<1> QED BY <1>4, <1>5 DEF q

(* There is one, further down the list.                                    *)
LEMMA FirstExists ==
  ASSUME NEW r \in [Conn -> Pointer], NEW k, Ranked(r, k), NEW dead \in SUBSET Conn,
         NEW p \in Pointer
  PROVE  FirstIn(r, dead, p) \in WalkIn(r, p) \ dead
<1> DEFINE Ok(q) == FirstIn(r, dead, q) \in WalkIn(r, q) \ dead
           Bad == {q \in Pointer : ~Ok(q)}
           S == {k[q] : q \in Bad}
<1>1. k \in [Pointer -> Nat] /\ \A c \in Conn : k[r[c]] < k[c]
  BY DEF Ranked
<1> SUFFICES Bad = {}
  OBVIOUS
<1> SUFFICES ASSUME Bad # {} PROVE FALSE
  OBVIOUS
<1>2. S \in SUBSET Nat /\ S # {}
  BY <1>1
<1>3. PICK m \in S : \A n \in S : m <= n
  <2> HIDE DEF S
  <2> QED BY <1>2, LeastInSet
<1>4. PICK q \in Bad : k[q] = m
  BY <1>3
<1>5. q \in dead
  <2>1. q \notin dead => FirstIn(r, dead, q) = q
    BY <1>4, FirstStays
  <2>2. q \in WalkIn(r, q)
    BY <1>4, WalkFrom
  <2> QED BY <1>4, <2>1, <2>2
<1>6. q \in Conn /\ r[q] \in Pointer /\ q \in Pointer
  BY <1>4, <1>5
<1>7. k[r[q]] \in Nat /\ k[r[q]] < k[q] /\ k[q] \in Nat
  BY <1>1, <1>6
<1>8. Ok(r[q])
  <2>1. r[q] \notin Bad
    <3>1. r[q] \in Bad => k[r[q]] \in S
      OBVIOUS
    <3>2. r[q] \in Bad => m <= k[r[q]]
      BY <1>3, <3>1
    <3> QED BY <1>4, <1>7, <3>2
  <2> QED BY <1>6, <2>1
<1>9. FirstIn(r, dead, q) = FirstIn(r, dead, r[q]) /\ WalkIn(r, r[q]) \subseteq WalkIn(r, q)
  BY <1>5, <1>6, FirstSkips, WalkNode
<1>10. Ok(q)
  BY <1>8, <1>9
<1> QED BY <1>4, <1>10

(* What is left of a list when the dead are taken out.                     *)
LEMMA Prune ==
  ASSUME NEW r \in [Conn -> Pointer], NEW k, Ranked(r, k), NEW dead \in SUBSET Conn,
         NEW h \in Pointer, NEW t,
         t = [c \in Conn |-> IF c \in WalkIn(r, h) THEN FirstIn(r, dead, r[c]) ELSE r[c]]
  PROVE  /\ t \in [Conn -> Pointer] /\ FirstIn(r, dead, h) \in WalkIn(r, h)
         /\ \A c \in Conn : t[c] = r[c] \/ t[c] \in WalkIn(r, h)
         /\ WalkIn(t, FirstIn(r, dead, h)) = WalkIn(r, h) \ dead
         /\ Ranked(t, k)
<1> DEFINE F(q) == FirstIn(r, dead, q)
           W == WalkIn(r, h)
           L == W \ dead
           T == WalkIn(t, F(h))
<1>1. /\ h \in W /\ W \in SUBSET Pointer /\ \A c \in W \cap Conn : r[c] \in W
      /\ \A q \in W : WalkIn(r, q) \subseteq W
  BY WalkFrom, WalkOn
<1>2. \A q \in Pointer : F(q) \in WalkIn(r, q) \ dead
  BY FirstExists
<1>3. \A q \in W : F(q) \in L
  BY <1>1, <1>2
<1>4. \A c \in Conn : r[c] \in Pointer /\ c \in Pointer
  BY DEF Pointer
<1> HIDE DEF F, W
<1>5. \A c \in Conn : t[c] = IF c \in W THEN F(r[c]) ELSE r[c]
  BY DEF F, W
<1>6. t \in [Conn -> Pointer]
  <2>1. ASSUME NEW c \in Conn PROVE t[c] \in Pointer
    <3>1. CASE c \in W
      <4>1. r[c] \in W
        BY <1>1, <3>1
      <4>2. F(r[c]) \in Pointer
        BY <1>1, <1>3, <4>1
      <4> QED BY <1>5, <3>1, <4>2
    <3>2. CASE c \notin W
      BY <1>4, <1>5, <3>2
    <3> QED BY <3>1, <3>2
  <2>2. t = [c \in Conn |-> t[c]]
    BY Zenon
  <2> QED BY <2>1, <2>2
<1>7. T \subseteq L
  <2>1. ASSUME NEW c \in L \cap Conn PROVE t[c] \in L
    <3>1. c \in Conn /\ c \in W /\ r[c] \in W
      BY <1>1
    <3>2. F(r[c]) \in L
      BY <1>3, <3>1
    <3> QED BY <1>5, <3>1, <3>2
  <2>2. L \in SUBSET Pointer /\ F(h) \in L
    BY <1>1, <1>3
  <2> HIDE DEF L
  <2> QED BY <2>1, <2>2, WalkLeast
<1>8. F(h) \in T /\ T \in SUBSET Pointer /\ \A c \in T \cap Conn : t[c] \in T
  <2>1. F(h) \in Pointer
    BY <1>1, <1>3
  <2> QED BY <1>6, <2>1, WalkFrom
<1> HIDE DEF T
<1>9. L \subseteq T
  <2> DEFINE S == {q \in W : F(q) \in T}
  <2>1. h \in S /\ S \in SUBSET Pointer
    BY <1>1, <1>8
  <2>2. ASSUME NEW c \in S \cap Conn PROVE r[c] \in S
    <3>1. c \in W /\ F(c) \in T /\ r[c] \in W /\ c \in Pointer
      BY <1>1, <1>4, <2>2
    <3>2. CASE c \in dead
      <4>1. F(c) = F(r[c])
        BY <3>2, FirstSkips DEF F
      <4> QED BY <3>1, <4>1
    <3>3. CASE c \notin dead
      <4>1. F(c) = c
        BY <3>1, <3>3, FirstStays DEF F
      <4>2. t[c] \in T
        BY <1>8, <3>1, <4>1
      <4> QED BY <1>5, <3>1, <4>2
    <3> QED BY <3>2, <3>3
  <2>3. W \subseteq S
    <3> HIDE DEF S
    <3> QED BY <2>1, <2>2, WalkLeast DEF W
  <2>4. ASSUME NEW q \in L PROVE q \in T
    <3>1. q \in Pointer /\ q \notin dead /\ F(q) \in T
      BY <1>1, <2>3
    <3>2. F(q) = q
      BY <3>1, FirstStays DEF F
    <3> QED BY <3>1, <3>2
  <2> QED BY <2>4
<1>10. Ranked(t, k)
  <2>1. k \in [Pointer -> Nat] /\ \A c \in Conn : k[r[c]] < k[c]
    BY DEF Ranked
  <2>2. ASSUME NEW c \in Conn PROVE k[t[c]] < k[c]
    <3>1. CASE c \in W
      <4> DEFINE q == F(r[c])
      <4>1. r[c] \in Pointer /\ c \in Pointer
        BY <1>4
      <4>2. q \in WalkIn(r, r[c]) /\ q \in Pointer
        BY <1>2, <4>1, WalkFrom
      <4> HIDE DEF q
      <4>3. q = r[c] \/ k[q] < k[r[c]]
        BY <4>1, <4>2, WalkDescends
      <4>4. k[q] \in Nat /\ k[r[c]] \in Nat /\ k[c] \in Nat /\ k[r[c]] < k[c]
        BY <2>1, <4>1, <4>2
      <4>5. k[q] < k[c]
        BY <4>3, <4>4
      <4> QED BY <1>5, <3>1, <4>5 DEF q
    <3>2. CASE c \notin W
      BY <1>5, <2>1, <3>2
    <3> QED BY <3>1, <3>2
  <2> QED BY <2>1, <2>2 DEF Ranked
<1>11. F(h) \in W /\ \A c \in Conn : t[c] = r[c] \/ t[c] \in W
  BY <1>1, <1>3, <1>5
<1> QED BY <1>6, <1>7, <1>9, <1>10, <1>11 DEF F, W, T

(* What nothing points to is on no list.                                   *)
LEMMA Unreached ==
  ASSUME NEW r \in [Conn -> Pointer], NEW p \in Pointer,
         NEW a, a # p, \A c \in Conn : r[c] # a
  PROVE  a \notin WalkIn(r, p)
<1> DEFINE S == WalkIn(r, p) \ {a}
<1>1. S \in SUBSET Pointer /\ p \in S /\ \A c \in S \cap Conn : r[c] \in S
  BY WalkFrom
<1> HIDE DEF S
<1>2. WalkIn(r, p) \subseteq S
  BY <1>1, WalkLeast
<1> QED BY <1>2 DEF S

(* A new node before a list.                                               *)
LEMMA Push ==
  ASSUME NEW r \in [Conn -> Pointer], NEW k, Ranked(r, k), NEW p \in Pointer,
         NEW a \in Conn, a # p, \A c \in Conn : r[c] # a
  PROVE  LET t == [r EXCEPT ![a] = p]
         IN /\ WalkIn(t, a) = {a} \cup WalkIn(r, p) /\ a \notin WalkIn(r, p)
            /\ \E l : Ranked(t, l)
<1> DEFINE t == [r EXCEPT ![a] = p]
           l == [k EXCEPT ![a] = k[p] + 1]
<1>1. a \notin WalkIn(r, p)
  BY Unreached
<1>2. WalkIn(t, p) = WalkIn(r, p)
  BY <1>1, WalkElsewhere
<1>3. t \in [Conn -> Pointer] /\ t[a] = p /\ \A c \in Conn \ {a} : t[c] = r[c]
  OBVIOUS
<1> HIDE DEF t
<1>4. WalkIn(t, a) = {a} \cup WalkIn(r, p)
  BY <1>2, <1>3, WalkNode
<1>5. k \in [Pointer -> Nat] /\ \A c \in Conn : k[r[c]] < k[c]
  BY DEF Ranked
<1>6. a \in Pointer /\ \A c \in Conn : c \in Pointer /\ r[c] \in Pointer
  BY DEF Pointer
<1>7. /\ l \in [Pointer -> Nat] /\ l[a] = k[p] + 1
      /\ \A q \in Pointer \ {a} : l[q] = k[q]
  BY <1>5, <1>6
<1> HIDE DEF l
<1>8. ASSUME NEW c \in Conn PROVE l[t[c]] < l[c]
  <2>1. CASE c = a
    <3>1. l[t[c]] = k[p] /\ k[p] \in Nat
      BY <1>3, <1>5, <1>7, <2>1
    <3> QED BY <1>7, <2>1, <3>1
  <2>2. CASE c # a
    BY <1>3, <1>5, <1>6, <1>7, <2>2
  <2> QED BY <2>1, <2>2
<1>9. Ranked(t, l)
  BY <1>7, <1>8 DEF Ranked
<1> QED BY <1>1, <1>4, <1>9 DEF t

(* Walk and NextAlive are these for the list of the server.                *)
LEMMA WalkIs == \A p : Walk(p) = WalkIn(rest, p)
BY DEF Walk, Closed, WalkIn

Dead == {c \in Conn : conn[c] = "closed"}

(* The nodes that have lost their socket are the dead.                             *)
LEMMA NextAliveIs == \A p : NextAlive(p) = FirstIn(rest, Dead, p)
<1> SUFFICES ASSUME NEW p PROVE NextAlive(p) = FirstIn(rest, Dead, p)
  OBVIOUS
<1>1. {q \in Walk(p) : q \in Conn => conn[q] # "closed"} = WalkIn(rest, p) \ Dead
  BY WalkIs DEF Dead
<1> QED BY <1>1, WalkIs DEF NextAlive, FirstIn

-----------------------------------------------------------------------------
(* The inductive invariant.                                                *)

(* What main does before the list and the mutex are there.                 *)
NoList  == {"tcp", "udp", "clients"}
NoMutex == NoList \cup {"mutex"}

(* The list, without a node that main is about to drop.                    *)
Head   == IF mNode = NULL THEN clients ELSE rest[mNode]
Listed == WalkIn(rest, Head)

(* The connections the list has not seen yet.                              *)
Unlisted == {c \in Conn : conn[c] \in {"none", "queued"} \/ c = aSock}

(* The places of main and the looper while they walk the list.             *)
Sending == {"walk", "waits"}
Serving == {"serve", "waits"}

(* How the places of the three threads and the mutex fit together.         *)
ControlInv ==
  /\ TypeOK
  /\ lpc = "none" <=> mpc \in NoMutex \cup {"looper"}
  /\ apc = "none" <=> mpc = "tcp"
  /\ mutex = "raw" => mpc \in NoMutex
  /\ mutex = "gone" => mpc \in Popping
  /\ mpc \in Popping \cup {"destroy"} => lpc = "done"
  /\ mNode # Wild /\ (mNode = NULL <=> mpc # "popped")
  /\ aSock = NULL <=> apc \notin {"lock", "push", "stuck"}
  /\ proc = "exit" => mpc = "join acceptor" /\ apc = "done"

(* No cycle, and no pointer to a connection that is not listed yet.        *)
ShapeInv ==
  /\ \E k : Ranked(rest, k)
  /\ \A c \in Unlisted : /\ c \notin freed \cup {clients, mNode, mHead, aRest, lHead}
                         /\ \A d \in Conn : rest[d] # c
  /\ aSock \in Conn => conn[aSock] \in {"open", "eof"}

(* Mutual exclusion, as long as no push is astray.                         *)
LockInv ==
  astray = {} =>
    /\ mpc \in NoMutex => mutex = "raw"
    /\ apc = "push" => mutex = "acceptor" /\ (mpc \notin Popping => aRest = clients)
    /\ mpc \in Sending => mutex = "main"
    /\ lpc \in Serving \cup {"update"} => mutex = "looper"
    /\ lpc = "update" => lHead = clients

(* As long, the list has no node that was freed, and every accepted socket *)
(* that no thread is about to list or to free.                             *)
ListInv ==
  astray = {} =>
    /\ Listed \cap freed = {}
    /\ Wild \in Listed => mpc \in NoList
    /\ mpc \in NoList => clients \notin Conn
    /\ \A c \in Conn : conn[c] \in {"open", "eof"} => c \in {aSock, mNode} \cup Listed
    /\ mpc \in {"tquit", "join acceptor"} => clients = NULL
    /\ mNode # NULL => clients = mNode

(* As long, both walks stand on the list, or at its end.                   *)
WalkInv ==
  astray = {} => /\ mpc \in Sending => mHead \in Listed
                 /\ lpc \in Serving => lHead \in Listed

IInv ==
  ControlInv /\ ShapeInv /\ LockInv /\ ListInv /\ WalkInv /\ UndefinedOnlyAstray

(* Walking the list and what peers do change no more than this.            *)
LEMMA TypeKept ==
  ASSUME TypeOK,
         UNCHANGED <<opened, mutex, clients, rest, freed, gquit, quit, tquit, mNode,
                     apc, aSock, aRest, hit, astray>>,
         proc' \in {proc, "sigpipe", "undefined"},
         conn' \in [Conn -> {"none", "queued", "open", "eof", "closed"}],
         mpc' \in {mpc, "walk", "waits"}, mHead' \in Pointer,
         lpc' \in {lpc, "serve", "waits"}, lHead' \in Pointer
  PROVE  TypeOK'
<1>1. {opened, gquit, quit, tquit, hit}' \subseteq BOOLEAN
  BY DEF TypeOK
<1>2. {clients, mNode, mHead, aRest, lHead}' \subseteq Pointer
  BY DEF TypeOK
<1>3. /\ mpc' \in Starting \cup Popping
                  \cup {"run", "lock", "walk", "waits", "free", "join looper", "destroy"}
      /\ lpc' \in {"none", "top", "select", "lock", "serve", "waits", "update", "done"}
  BY DEF TypeOK
<1>4. proc' \in {"up", "abort", "sigpipe", "undefined", "exit"}
  BY DEF TypeOK
<1>5. /\ mutex' \in {"raw", "free", "main", "acceptor", "looper", "gone"}
      /\ rest' \in [Conn -> Pointer] /\ freed' \subseteq Conn /\ astray' \subseteq Conn
      /\ apc' \in {"none", "top", "select", "lock", "push", "stuck", "done"}
      /\ aSock' \in Conn \cup {NULL}
  BY DEF TypeOK
<1> QED BY <1>1, <1>2, <1>3, <1>4, <1>5 DEF TypeOK

(* Every step but one keeps the threads in their places.                   *)
LEMMA ControlKept ==
  ASSUME ControlInv, [Next]_vars, ~LooperUpdate
  PROVE  ControlInv'
<1> USE LifecycleAssumption DEF ControlInv, TypeOK, NoMutex, NoList, Starting, Popping,
        Pointer, list, mptr, main, acceptor, looper, history, MainGoes, AcceptorGoes,
        LooperGoes, Asserts
<1>1. CASE TcpServerNew
  BY ZenonT(30), <1>1 DEF TcpServerNew
<1>2. CASE UdpClientNew
  BY ZenonT(30), <1>2 DEF UdpClientNew
<1>3. CASE SetClients
  BY <1>3 DEF SetClients
<1>4. CASE MutexInit
  BY <1>4 DEF MutexInit
<1>5. CASE StartLooper
  BY <1>5 DEF StartLooper
<1>6. CASE StartRunning
  BY <1>6 DEF StartRunning
<1>7. CASE MainSends
  <2>1. /\ mpc = "walk"
        /\ UNCHANGED <<opened, mutex, clients, rest, freed, conn, gquit, quit, tquit,
                       mNode, apc, aSock, aRest, lpc, lHead, hit, astray>>
    BY <1>7 DEF MainSends
  <2>2. /\ mpc' \in {"walk", "waits"} /\ proc' \in {"up", "sigpipe", "undefined"}
        /\ mHead' = mHead \/ (mHead \in Conn /\ mHead' = rest[mHead])
    BY <1>7 DEF MainSends
  <2>3. proc' \in {proc, "sigpipe", "undefined"} /\ mHead' \in Pointer
    BY <1>7, <2>2 DEF MainSends
  <2> HIDE DEF NoMutex, NoList, Starting, Popping, Pointer
  <2>T. TypeOK'
    BY <2>1, <2>2, <2>3, TypeKept
  <2> HIDE DEF TypeOK
  <2> USE DEF NoMutex, NoList, Popping
  <2> QED BY <2>1, <2>2, <2>T
<1>8. CASE StopRunning
  BY <1>8 DEF StopRunning
<1>9. CASE SetQuit
  BY <1>9 DEF SetQuit
<1>10. CASE JoinLooper
  BY <1>10 DEF JoinLooper, LooperJoined
<1>11. CASE DestroyMutex
  BY <1>11 DEF DestroyMutex
<1>12. CASE Pop
  <2>1. /\ mpc = "pop" /\ clients # NULL
        /\ UNCHANGED <<opened, mutex, clients, rest, conn, gquit, quit, tquit, mHead,
                       apc, aSock, aRest, lpc, lHead, hit, astray>>
    BY <1>12 DEF Pop
  <2>2. CASE clients \in freed \cup {Wild}
    <3>1. proc' = "undefined" /\ UNCHANGED <<mpc, mNode, freed>>
      BY <1>12, <2>2 DEF Pop
    <3> QED BY <2>1, <3>1
  <2>3. CASE clients \notin freed \cup {Wild}
    <3>1. mpc' = "popped" /\ mNode' = clients /\ freed' = freed \cup {clients}
          /\ proc' = proc
      BY <1>12, <2>3 DEF Pop
    <3> QED BY <2>1, <2>3, <3>1
  <2> QED BY <2>2, <2>3
<1>13. CASE Popped
  BY <1>13 DEF Popped, AfterPop
<1>14. CASE PopEnds
  BY <1>14 DEF PopEnds
<1>15. CASE SetTcpQuit
  BY <1>15 DEF SetTcpQuit
<1>16. CASE JoinAcceptor
  BY <1>16 DEF JoinAcceptor
<1>17. CASE AcceptorTop
  BY <1>17 DEF AcceptorTop
<1>18. CASE AcceptorTimeout
  BY <1>18 DEF AcceptorTimeout, AfterTimeout
<1>19. CASE AcceptFuncLock
  BY ZenonT(60), <1>19 DEF AcceptFuncLock
<1>20. CASE AcceptFuncHangs
  BY <1>20 DEF AcceptFuncHangs
<1>21. CASE AcceptFuncPush
  BY <1>21 DEF AcceptFuncPush, Unlocked
<1>22. CASE LooperEnds
  BY <1>22 DEF LooperEnds
<1>23. CASE LooperBuild
  BY <1>23 DEF LooperBuild
<1>24. CASE LooperSelect
  BY <1>24 DEF LooperSelect
<1>25. CASE LooperLock
  BY <1>25 DEF LooperLock
<1>26. ASSUME NEW c \in Conn, Accept(c) PROVE ControlInv'
  BY ZenonT(30), <1>26 DEF Accept
<1>27. ASSUME NEW c \in Conn, PeerConnect(c) PROVE ControlInv'
  <2>1. conn' \in [Conn -> {"none", "queued", "open", "eof", "closed"}]
    BY <1>27 DEF PeerConnect
  <2>2. UNCHANGED <<proc, opened, mutex, clients, rest, freed, mpc, gquit, quit, tquit,
                    mNode, mHead, apc, aSock, aRest, lpc, lHead, hit, astray>>
    BY <1>27 DEF PeerConnect
  <2> HIDE DEF NoMutex, NoList, Starting, Popping, Pointer
  <2>4. mHead \in Pointer /\ lHead \in Pointer
    OBVIOUS
  <2> HIDE DEF TypeOK
  <2>3. TypeOK'
    BY <2>1, <2>2, <2>4, TypeKept
  <2> QED BY <2>2, <2>3
<1>28. ASSUME NEW c \in Conn, PeerClose(c) PROVE ControlInv'
  <2>1. conn' \in [Conn -> {"none", "queued", "open", "eof", "closed"}]
    BY <1>28 DEF PeerClose
  <2>2. UNCHANGED <<proc, opened, mutex, clients, rest, freed, mpc, gquit, quit, tquit,
                    mNode, mHead, apc, aSock, aRest, lpc, lHead, hit, astray>>
    BY <1>28 DEF PeerClose
  <2> HIDE DEF NoMutex, NoList, Starting, Popping, Pointer
  <2>4. mHead \in Pointer /\ lHead \in Pointer
    OBVIOUS
  <2> HIDE DEF TypeOK
  <2>3. TypeOK'
    BY <2>1, <2>2, <2>4, TypeKept
  <2> QED BY <2>2, <2>3
<1>29. ASSUME NEW t \in {"main", "acceptor", "looper"}, Sigint(t) PROVE ControlInv'
  <2>1. UNCHANGED <<proc, opened, mutex, clients, rest, freed, conn, mpc, quit, tquit,
                    mNode, mHead, aSock, aRest, lHead, astray>>
    BY <1>29 DEF Sigint
  <2>2. gquit' \in BOOLEAN /\ hit' \in BOOLEAN
    BY <1>29 DEF Sigint
  <2>3. /\ apc' = apc \/ (apc = "select" /\ apc' = "done")
        /\ lpc' = lpc \/ (lpc = "select" /\ lpc' = "done")
    BY <1>29 DEF Sigint
  <2> HIDE DEF NoMutex, NoList, Starting, Popping, Pointer
  <2>4. TypeOK'
    <3>1. {opened, gquit, quit, tquit, hit}' \subseteq BOOLEAN
      BY <2>1, <2>2
    <3>2. {clients, mNode, mHead, aRest, lHead}' \subseteq Pointer
      BY <2>1
    <3>3. /\ apc' \in {"none", "top", "select", "lock", "push", "stuck", "done"}
          /\ lpc' \in {"none", "top", "select", "lock", "serve", "waits", "update", "done"}
      BY <2>3
    <3> QED BY <2>1, <3>1, <3>2, <3>3
  <2> HIDE DEF TypeOK
  <2> USE DEF NoMutex, NoList, Popping
  <2> QED BY <2>1, <2>3, <2>4
<1>30. CASE UNCHANGED vars
  <2>1. UNCHANGED <<proc, opened, mutex, clients, rest, freed, conn, mpc, gquit, quit, tquit,
                    mNode, mHead, apc, aSock, aRest, lpc, lHead, hit, astray>>
    BY <1>30 DEF vars
  <2> HIDE DEF NoMutex, NoList, Starting, Popping, Pointer
  <2>2. /\ mHead \in Pointer /\ lHead \in Pointer
        /\ conn' \in [Conn -> {"none", "queued", "open", "eof", "closed"}]
    BY <2>1
  <2> HIDE DEF TypeOK
  <2>3. TypeOK'
    BY <2>1, <2>2, TypeKept
  <2> QED BY <2>1, <2>3
<1>31. CASE MainHasPacket
  BY <1>31 DEF MainHasPacket
<1>32. CASE MainLock
  BY <1>32 DEF MainLock
<1>33. CASE MainUnlocks
  BY <1>33 DEF MainUnlocks
<1>34. CASE LooperServe
  <2>1. /\ lpc = "serve"
        /\ UNCHANGED <<opened, mutex, clients, rest, freed, mpc, gquit, quit, tquit,
                       mNode, mHead, apc, aSock, aRest, hit, astray>>
    BY <1>34 DEF LooperServe
  <2>2. /\ lpc' \in {"serve", "waits"} /\ proc' \in {"up", "sigpipe", "undefined"}
        /\ lHead' = lHead \/ (lHead \in Conn /\ lHead' = rest[lHead])
        /\ conn' = conn \/ conn' = [conn EXCEPT ![lHead] = "closed"]
    BY <1>34 DEF LooperServe
  <2>3. conn' \in [Conn -> {"none", "queued", "open", "eof", "closed"}]
    BY <2>2
  <2>4. lHead' \in Pointer
    BY ONLY <2>2, TypeOK DEF TypeOK, Pointer
  <2>5. proc' \in {proc, "sigpipe", "undefined"}
    BY <1>34 DEF LooperServe
  <2> HIDE DEF NoMutex, NoList, Starting, Popping, Pointer
  <2>T. TypeOK'
    BY <2>1, <2>2, <2>3, <2>4, <2>5, TypeKept
  <2> HIDE DEF TypeOK
  <2> USE DEF NoMutex, NoList, Popping
  <2> QED BY <2>1, <2>2, <2>T
<1>35. CASE LooperServed
  BY ZenonT(60), <1>35 DEF LooperServed
<1>36. ASSUME NEW c \in Conn, PeerDrain(c) PROVE ControlInv'
  <2>1. UNCHANGED <<proc, opened, mutex, clients, rest, freed, conn, gquit, quit, tquit,
                    mNode, apc, aSock, aRest, hit, astray>>
    BY <1>36 DEF PeerDrain
  <2>2. \/ mpc = "waits" /\ mpc' = "walk" /\ mHead' = rest[c] /\ UNCHANGED <<lpc, lHead>>
        \/ lpc = "waits" /\ lpc' = "serve" /\ lHead' = rest[c] /\ UNCHANGED <<mpc, mHead>>
    BY <1>36 DEF PeerDrain
  <2>3. mHead' \in Pointer /\ lHead' \in Pointer
    BY <2>2
  <2> HIDE DEF NoMutex, NoList, Starting, Popping, Pointer
  <2>T. TypeOK'
    BY <2>1, <2>2, <2>3, TypeKept
  <2> HIDE DEF TypeOK
  <2> USE DEF NoMutex, NoList, Popping
  <2> QED BY <2>1, <2>2, <2>T
<1> QED BY <1>1, <1>2, <1>3, <1>4, <1>5, <1>6, <1>7, <1>8, <1>9, <1>10, <1>11, <1>12,
           <1>13, <1>14, <1>15, <1>16, <1>17, <1>18, <1>19, <1>20, <1>21, <1>22, <1>23,
           <1>24, <1>25, <1>26, <1>27, <1>28, <1>29, <1>30, <1>31, <1>32, <1>33, <1>34,
           <1>35, <1>36
        DEF Next, MainSteps, AcceptorNext, LooperNext

(* What the walk of the looper leaves of the list.                         *)
LEMMA UpdatePrunes ==
  ASSUME ControlInv, ShapeInv, LooperUpdate
  PROVE  LET W == WalkIn(rest, lHead)
         IN /\ rest' \in [Conn -> Pointer] /\ \E k : Ranked(rest', k)
            /\ W \in SUBSET Pointer /\ clients' \in W
            /\ \A c \in Conn : rest'[c] = rest[c] \/ rest'[c] \in W
            /\ WalkIn(rest', clients') = W \ Dead
            /\ freed' = freed \cup (W \cap Dead) /\ conn' = conn
<1> DEFINE W == WalkIn(rest, lHead)
<1>1. rest \in [Conn -> Pointer] /\ lHead \in Pointer
  BY DEF ControlInv, TypeOK
<1>2. PICK k : Ranked(rest, k)
  BY DEF ShapeInv
<1>3. rest' = [c \in Conn |-> IF c \in W THEN FirstIn(rest, Dead, rest[c]) ELSE rest[c]]
  BY WalkIs, NextAliveIs DEF LooperUpdate
<1>4. clients' = FirstIn(rest, Dead, lHead)
  BY NextAliveIs DEF LooperUpdate
<1>5. Dead \in SUBSET Conn
  BY DEF Dead
<1>6. Gone = W \cap Dead
  BY WalkIs DEF Gone, Dead
<1>7. freed' = freed \cup (W \cap Dead) /\ conn' = conn
  BY <1>6 DEF LooperUpdate
<1>8. W \in SUBSET Pointer
  BY <1>1, WalkFrom
<1>9. /\ rest' \in [Conn -> Pointer] /\ clients' \in W
      /\ \A c \in Conn : rest'[c] = rest[c] \/ rest'[c] \in W
      /\ WalkIn(rest', clients') = W \ Dead
      /\ Ranked(rest', k)
  <2> DEFINE t == [c \in Conn |-> IF c \in W THEN FirstIn(rest, Dead, rest[c]) ELSE rest[c]]
  <2>1. /\ t \in [Conn -> Pointer] /\ FirstIn(rest, Dead, lHead) \in W
        /\ \A c \in Conn : t[c] = rest[c] \/ t[c] \in W
        /\ WalkIn(t, FirstIn(rest, Dead, lHead)) = W \ Dead
        /\ Ranked(t, k)
    <3>1. t = [c \in Conn |-> IF c \in WalkIn(rest, lHead)
                              THEN FirstIn(rest, Dead, rest[c]) ELSE rest[c]]
      OBVIOUS
    <3> HIDE DEF t
    <3>2. \A dead \in SUBSET Conn, h \in Pointer : \A u :
            u = [c \in Conn |-> IF c \in WalkIn(rest, h) THEN FirstIn(rest, dead, rest[c])
                                                        ELSE rest[c]]
            => /\ u \in [Conn -> Pointer] /\ FirstIn(rest, dead, h) \in WalkIn(rest, h)
               /\ \A c \in Conn : u[c] = rest[c] \/ u[c] \in WalkIn(rest, h)
               /\ WalkIn(u, FirstIn(rest, dead, h)) = WalkIn(rest, h) \ dead
               /\ Ranked(u, k)
      <4> HIDE DEF W
      <4> QED BY ONLY <1>1, <1>2, Prune
    <3> QED BY ONLY ZenonT(30), <1>1, <1>5, <3>1, <3>2
  <2>2. rest' = t
    BY <1>3
  <2> HIDE DEF t, W
  <2> QED BY <1>4, <2>1, <2>2
<1> QED BY <1>7, <1>8, <1>9

(* The last step keeps the threads in their places too.                    *)
LEMMA ControlUpdated ==
  ASSUME ControlInv, ShapeInv, LooperUpdate
  PROVE  ControlInv'
<1> DEFINE W == WalkIn(rest, lHead)
<1>1. /\ rest' \in [Conn -> Pointer] /\ W \in SUBSET Pointer /\ clients' \in W
      /\ freed' = freed \cup (W \cap Dead) /\ conn' = conn
  BY UpdatePrunes
<1> HIDE DEF W
<1>2. freed' \subseteq Conn /\ clients' \in Pointer
  BY <1>1 DEF ControlInv, TypeOK, Dead
<1>3. /\ UNCHANGED <<proc, opened, mpc, gquit, quit, tquit, mNode, mHead, apc, aSock,
                     aRest, hit, astray>>
      /\ lpc = "update" /\ lpc' = "top" /\ mutex' = "free" /\ lHead' = NULL
  BY DEF LooperUpdate, LooperGoes, mptr, main, acceptor, history
<1>4. TypeOK'
  <2>1. {opened, gquit, quit, tquit, hit}' \subseteq BOOLEAN
    BY <1>3 DEF ControlInv, TypeOK
  <2>2. {clients, mNode, mHead, aRest, lHead}' \subseteq Pointer
    BY <1>2, <1>3 DEF ControlInv, TypeOK, Pointer
  <2> QED BY <1>1, <1>2, <1>3, <2>1, <2>2 DEF ControlInv, TypeOK
<1> QED BY <1>3, <1>4 DEF ControlInv, NoMutex, NoList, Popping

-----------------------------------------------------------------------------
(* The shape of the list.                                                  *)

(* The list never has a cycle, and no step points to a connection before  *)
(* list_push does.                                                         *)
LEMMA ShapeKept ==
  ASSUME ControlInv, ShapeInv, [Next]_vars
  PROVE  ShapeInv'
<1> DEFINE Same == UNCHANGED <<clients, rest, freed, conn, mNode, mHead, aSock, aRest, lHead>>
<1> USE LifecycleAssumption DEF list, mptr, main, acceptor, looper, history
<1>T. /\ {clients, mNode, mHead, aRest, lHead} \subseteq Pointer /\ rest \in [Conn -> Pointer]
      /\ freed \subseteq Conn /\ aSock \in Conn \cup {NULL}
      /\ conn \in [Conn -> {"none", "queued", "open", "eof", "closed"}]
      /\ aSock = NULL <=> apc \notin {"lock", "push", "stuck"}
      /\ mNode = NULL <=> mpc # "popped"
      /\ mNode # Wild /\ NULL \notin Conn
  BY DEF ControlInv, TypeOK
<1>0. ASSUME Same PROVE ShapeInv'
  BY <1>0 DEF ShapeInv, Unlisted
<1>1. CASE SetClients
  <2>1. clients' = NULL /\ UNCHANGED <<rest, freed, conn, mNode, mHead, aSock, aRest, lHead>>
    BY <1>1 DEF SetClients
  <2> QED BY <1>T, <2>1 DEF ShapeInv, Unlisted
<1>2. CASE Pop
  <2>1. UNCHANGED <<clients, rest, conn, mHead, aSock, aRest, lHead>>
    BY <1>2 DEF Pop
  <2>2. CASE clients \in freed \cup {Wild}
    <3>1. Same
      BY <1>2, <2>1, <2>2 DEF Pop
    <3> QED BY <1>0, <3>1
  <2>3. CASE clients \notin freed \cup {Wild}
    <3>1. mNode' = clients /\ freed' = freed \cup {clients}
      BY <1>2, <2>3 DEF Pop
    <3> QED BY <2>1, <3>1 DEF ShapeInv, Unlisted
  <2> QED BY <2>2, <2>3
<1>3. CASE Popped
  <2>1. /\ mNode \in Conn /\ clients' = rest[mNode] /\ mNode' = NULL
        /\ conn' = [conn EXCEPT ![mNode] = "closed"]
        /\ UNCHANGED <<rest, freed, mHead, aSock, aRest, lHead>>
    BY <1>3, <1>T DEF Popped, MainGoes, Pointer
  <2>2. Unlisted' \subseteq Unlisted
    BY <1>T, <2>1 DEF Unlisted
  <2>3. \A c \in Unlisted : /\ c \notin freed \cup {clients, mNode, mHead, aRest, lHead}
                            /\ \A d \in Conn : rest[d] # c
    BY DEF ShapeInv
  <2>4. aSock \in Conn => aSock # mNode
    BY <2>3 DEF Unlisted
  <2>5. (aSock \in Conn => conn[aSock] \in {"open", "eof"})'
    BY <1>T, <2>1, <2>4 DEF ShapeInv
  <2>6. NULL \notin Unlisted'
    BY DEF Unlisted
  <2> QED BY <2>1, <2>2, <2>3, <2>5, <2>6 DEF ShapeInv
<1>4. ASSUME NEW c \in Conn, Accept(c) PROVE ShapeInv'
  <2>1. CASE proc' = "abort" /\ UNCHANGED <<apc, aSock, conn>>
    <3>1. Same
      BY <1>4, <2>1 DEF Accept
    <3> QED BY <1>0, <3>1
  <2>2. CASE apc' = "lock" /\ aSock' = c /\ conn' = [conn EXCEPT ![c] = "open"]
    <3>1. /\ apc = "select" /\ conn[c] = "queued"
          /\ UNCHANGED <<clients, rest, freed, mNode, mHead, aRest, lHead>>
      BY <1>4 DEF Accept
    <3>2. Unlisted' \subseteq Unlisted
      BY <1>T, <2>2, <3>1 DEF Unlisted
    <3>3. conn'[c] = "open"
      BY <1>T, <2>2
    <3> QED BY <2>2, <3>1, <3>2, <3>3 DEF ShapeInv
  <2> QED BY <1>4, <2>1, <2>2 DEF Accept
<1>5. CASE AcceptFuncLock
  <2>1. aRest' = clients /\ UNCHANGED <<clients, rest, freed, conn, mNode, mHead, aSock, lHead>>
    BY <1>5 DEF AcceptFuncLock
  <2> QED BY <2>1 DEF ShapeInv, Unlisted
<1>6. CASE AcceptFuncPush
  <2>1. /\ aSock \in Conn /\ rest' = [rest EXCEPT ![aSock] = aRest] /\ clients' = aSock
        /\ aSock' = NULL /\ aRest' = NULL /\ UNCHANGED <<freed, conn, mNode, mHead, lHead>>
    BY <1>6, <1>T DEF AcceptFuncPush, AcceptorGoes
  <2>2. \A c \in Unlisted : /\ c \notin freed \cup {clients, mNode, mHead, aRest, lHead}
                            /\ \A d \in Conn : rest[d] # c
    BY DEF ShapeInv
  <2>3. aSock \in Unlisted /\ conn[aSock] \in {"open", "eof"}
    BY <2>1 DEF Unlisted, ShapeInv
  <2>4. Unlisted' \subseteq Unlisted /\ aSock \notin Unlisted' /\ NULL \notin Unlisted'
    BY <2>1, <2>3 DEF Unlisted
  <2>5. PICK k : Ranked(rest, k)
    BY DEF ShapeInv
  <2>6. \E l : Ranked(rest', l)
    <3>1. aSock # aRest /\ (\A d \in Conn : rest[d] # aSock) /\ aRest \in Pointer
      BY <1>T, <2>2, <2>3
    <3> QED BY <1>T, <2>1, <2>5, <3>1, Push
  <2>7. \A c \in Unlisted' : \A d \in Conn : rest'[d] # c
    BY <1>T, <2>1, <2>2, <2>4
  <2> QED BY <2>1, <2>2, <2>4, <2>6, <2>7 DEF ShapeInv
<1>7. CASE MainLock \/ MainSends \/ LooperLock \/ LooperServed
  <2>1. /\ mHead' \in {mHead, clients} \/ (mHead \in Conn /\ mHead' = rest[mHead])
        /\ lHead' \in {lHead, clients}
        /\ UNCHANGED <<clients, rest, freed, conn, mNode, aSock, aRest>>
    <3>1. CASE MainLock
      BY <3>1 DEF MainLock
    <3>2. CASE MainSends
      <4>1. mHead' = mHead \/ (mHead \in Conn /\ mHead' = rest[mHead])
        BY <1>T, <3>2 DEF MainSends, Pointer
      <4> QED BY <3>2, <4>1 DEF MainSends
    <3>3. CASE LooperLock \/ LooperServed
      BY <3>3 DEF LooperLock, LooperServed
    <3> QED BY <1>7, <3>1, <3>2, <3>3
  <2> QED BY <2>1 DEF ShapeInv, Unlisted
<1>8. CASE LooperUpdate
  <2> DEFINE W == WalkIn(rest, lHead)
  <2>1. /\ \E k : Ranked(rest', k)
        /\ clients' \in W
        /\ \A c \in Conn : rest'[c] = rest[c] \/ rest'[c] \in W
        /\ freed' = freed \cup (W \cap Dead) /\ conn' = conn
    BY <1>8, UpdatePrunes
  <2>2. lHead' = NULL /\ UNCHANGED <<mNode, mHead, aSock, aRest>>
    BY <1>8 DEF LooperUpdate
  <2>3. \A c \in Unlisted : /\ c \notin freed \cup {clients, mNode, mHead, aRest, lHead}
                            /\ \A d \in Conn : rest[d] # c
    BY DEF ShapeInv
  <2>4. \A c \in Unlisted : c \notin W
    BY <1>T, <2>3, Unreached
  <2> HIDE DEF W
  <2>5. Unlisted' \subseteq Unlisted /\ NULL \notin Unlisted'
    BY <2>1, <2>2 DEF Unlisted
  <2>6. (aSock \in Conn => conn[aSock] \in {"open", "eof"})'
    BY <2>1, <2>2, <2>4 DEF ShapeInv, Unlisted
  <2>7. \A c \in Unlisted' : /\ c \notin freed' \cup {clients', mNode', mHead', aRest', lHead'}
                             /\ \A d \in Conn : rest'[d] # c
    BY <2>1, <2>2, <2>3, <2>4, <2>5
  <2> QED BY <2>1, <2>6, <2>7 DEF ShapeInv
<1>9. ASSUME NEW c \in Conn, PeerConnect(c) \/ PeerClose(c) PROVE ShapeInv'
  <2>1. /\ \/ conn[c] = "none" /\ conn' = [conn EXCEPT ![c] = "queued"]
           \/ conn[c] = "open" /\ conn' = [conn EXCEPT ![c] = "eof"]
        /\ UNCHANGED <<clients, rest, freed, mNode, mHead, aSock, aRest, lHead>>
    <3>1. CASE PeerConnect(c)
      BY <3>1 DEF PeerConnect
    <3>2. CASE PeerClose(c)
      BY <3>2 DEF PeerClose
    <3> QED BY <1>9, <3>1, <3>2
  <2>2. Unlisted' \subseteq Unlisted
    BY <1>T, <2>1 DEF Unlisted
  <2>3. (aSock \in Conn => conn[aSock] \in {"open", "eof"})'
    BY <1>T, <2>1 DEF ShapeInv
  <2> QED BY <2>1, <2>2, <2>3 DEF ShapeInv
<1>10. CASE \/ MainHasPacket
            \/ MainSteps /\ ~(SetClients \/ MainLock \/ MainSends \/ Pop \/ Popped)
  <2>1. Same
    BY <1>10 DEF MainSteps, TcpServerNew, UdpClientNew, MutexInit, StartLooper,
       StartRunning, MainHasPacket, MainUnlocks, StopRunning, SetQuit, JoinLooper, DestroyMutex, PopEnds,
       SetTcpQuit, JoinAcceptor, Asserts
  <2> QED BY <1>0, <2>1
<1>11. CASE AcceptorTop \/ AcceptorTimeout \/ AcceptFuncHangs
  <2>1. Same
    BY <1>11 DEF AcceptorTop, AcceptorTimeout, AcceptFuncHangs
  <2> QED BY <1>0, <2>1
<1>12. CASE LooperEnds \/ LooperBuild \/ LooperSelect
  <2>1. Same
    BY <1>12 DEF LooperEnds, LooperBuild, LooperSelect
  <2> QED BY <1>0, <2>1
<1>13. ASSUME NEW t, Sigint(t) PROVE ShapeInv'
  <2>1. Same
    BY <1>13 DEF Sigint
  <2> QED BY <1>0, <2>1
<1>14. CASE UNCHANGED vars
  <2>1. Same
    BY <1>14 DEF vars
  <2> QED BY <1>0, <2>1
<1>15. CASE LooperServe
  <2>1. /\ lHead' = lHead \/ (lHead \in Conn /\ lHead' = rest[lHead])
        /\ UNCHANGED <<clients, rest, freed, mNode, mHead, aSock, aRest>>
    BY <1>T, <1>15 DEF LooperServe, Pointer
  <2>2. conn' = conn \/ (lHead \in Conn /\ conn' = [conn EXCEPT ![lHead] = "closed"])
    BY <1>T, <1>15 DEF LooperServe, Pointer
  <2>3. \A c \in Unlisted : /\ c \notin freed \cup {clients, mNode, mHead, aRest, lHead}
                            /\ \A d \in Conn : rest[d] # c
    BY DEF ShapeInv
  <2>4. Unlisted' \subseteq Unlisted
    BY <1>T, <2>1, <2>2 DEF Unlisted
  <2>5. aSock \in Conn => aSock # lHead
    BY <2>3 DEF Unlisted
  <2>6. (aSock \in Conn => conn[aSock] \in {"open", "eof"})'
    BY <1>T, <2>1, <2>2, <2>5 DEF ShapeInv
  <2>7. \A c \in Unlisted' : /\ c \notin freed' \cup {clients', mNode', mHead', aRest', lHead'}
                             /\ \A d \in Conn : rest'[d] # c
    BY <2>1, <2>3, <2>4
  <2> QED BY <2>1, <2>6, <2>7 DEF ShapeInv
<1>16. ASSUME NEW c \in Conn, PeerDrain(c) PROVE ShapeInv'
  <2>1. /\ mHead' \in {mHead, rest[c]} /\ lHead' \in {lHead, rest[c]}
        /\ UNCHANGED <<clients, rest, freed, conn, mNode, aSock, aRest>>
    BY <1>16 DEF PeerDrain
  <2> QED BY <2>1 DEF ShapeInv, Unlisted
<1> QED BY <1>1, <1>2, <1>3, <1>4, <1>5, <1>6, <1>7, <1>8, <1>9, <1>10, <1>11, <1>12,
           <1>13, <1>14, <1>15, <1>16 DEF Next, MainSteps, AcceptorNext, LooperNext

(* What went astray stays so.                                              *)
LEMMA AstrayGrows == ASSUME [Next]_vars PROVE astray' = {} => astray = {}
<1> USE DEF history
<1>1. CASE AcceptFuncLock \/ AcceptFuncPush
  BY <1>1 DEF AcceptFuncLock, AcceptFuncPush
<1>2. CASE MainSteps \/ MainHasPacket
  BY <1>2 DEF MainSteps, TcpServerNew, UdpClientNew, SetClients, MutexInit, StartLooper,
     StartRunning, MainHasPacket, MainLock, MainSends, MainUnlocks, StopRunning, SetQuit, JoinLooper, DestroyMutex, Pop, Popped,
     PopEnds, SetTcpQuit, JoinAcceptor, Asserts
<1>3. CASE AcceptorNext /\ ~(AcceptFuncLock \/ AcceptFuncPush)
  BY <1>3 DEF AcceptorNext, AcceptorTop, AcceptorTimeout, Accept, AcceptFuncHangs
<1>4. CASE LooperNext
  BY <1>4 DEF LooperNext, LooperEnds, LooperBuild, LooperSelect, LooperLock,
     LooperServe, LooperServed, LooperUpdate
<1>5. ASSUME NEW c, PeerConnect(c) \/ PeerClose(c) \/ PeerDrain(c)
      PROVE astray' = {} => astray = {}
  BY <1>5 DEF PeerConnect, PeerClose, PeerDrain
<1>6. ASSUME NEW t, Sigint(t) PROVE astray' = {} => astray = {}
  BY <1>6 DEF Sigint
<1>7. CASE UNCHANGED vars
  BY <1>7 DEF vars
<1> QED BY <1>1, <1>2, <1>3, <1>4, <1>5, <1>6, <1>7 DEF Next

-----------------------------------------------------------------------------
(* Mutual exclusion.                                                       *)

(* Each step keeps the mutex with the thread that believes to hold it.     *)
LEMMA LockKept ==
  ASSUME ControlInv, LockInv, [Next]_vars
  PROVE  LockInv'
<1> SUFFICES ASSUME astray' = {}
             PROVE  /\ mpc' \in NoMutex => mutex' = "raw"
                    /\ apc' = "push" => /\ mutex' = "acceptor"
                                        /\ mpc' \notin Popping => aRest' = clients'
                    /\ mpc' \in Sending => mutex' = "main"
                    /\ lpc' \in Serving \cup {"update"} => mutex' = "looper"
                    /\ lpc' = "update" => lHead' = clients'
  BY DEF LockInv, NoMutex, NoList, Popping, Sending, Serving
<1> DEFINE Goal == /\ mpc' \in NoMutex => mutex' = "raw"
                   /\ apc' = "push" => /\ mutex' = "acceptor"
                                       /\ mpc' \notin Popping => aRest' = clients'
                   /\ mpc' \in Sending => mutex' = "main"
                   /\ lpc' \in Serving \cup {"update"} => mutex' = "looper"
                   /\ lpc' = "update" => lHead' = clients'
<1>A. /\ mpc \in NoMutex => mutex = "raw"
      /\ apc = "push" => mutex = "acceptor" /\ (mpc \notin Popping => aRest = clients)
      /\ mpc \in Sending => mutex = "main"
      /\ lpc \in Serving \cup {"update"} => mutex = "looper"
      /\ lpc = "update" => lHead = clients
  BY AstrayGrows DEF LockInv
<1>C. /\ lpc = "none" <=> mpc \in NoMutex \cup {"looper"}
      /\ mpc \in Popping \cup {"destroy"} => lpc = "done"
      /\ aSock = NULL <=> apc \notin {"lock", "push", "stuck"}
  BY DEF ControlInv
<1> HIDE DEF ControlInv, LockInv
<1> USE DEF list, mptr, main, acceptor, looper, history, MainGoes, AcceptorGoes,
        LooperGoes, Asserts, NoMutex, NoList, Popping, Sending, Serving
<1>1. CASE TcpServerNew \/ UdpClientNew \/ SetClients \/ MutexInit
  BY <1>1, <1>A, <1>C DEF TcpServerNew, UdpClientNew, SetClients, MutexInit
<1>2. CASE StartLooper \/ StartRunning \/ StopRunning \/ SetQuit
  BY <1>2, <1>A, <1>C DEF StartLooper, StartRunning, StopRunning, SetQuit
<1>3. CASE JoinLooper \/ DestroyMutex \/ PopEnds \/ SetTcpQuit \/ JoinAcceptor
  BY <1>3, <1>A, <1>C
     DEF JoinLooper, LooperJoined, DestroyMutex, PopEnds, SetTcpQuit, JoinAcceptor
<1>4. CASE Pop \/ Popped
  BY <1>4, <1>A, <1>C DEF Pop, Popped, AfterPop
<1>5. CASE AcceptorTop \/ AcceptorTimeout \/ AcceptFuncHangs \/ \E c \in Conn : Accept(c)
  BY <1>5, <1>A, <1>C DEF AcceptorTop, AcceptorTimeout, AfterTimeout, AcceptFuncHangs, Accept
<1>6. CASE AcceptFuncLock
  <2>1. mutex = "free" /\ mutex' = "acceptor"
    BY <1>6 DEF AcceptFuncLock
  <2>2. aRest' = clients /\ UNCHANGED <<mpc, clients, lpc, lHead>>
    BY <1>6 DEF AcceptFuncLock
  <2> QED BY <1>A, <2>1, <2>2
<1>7. CASE AcceptFuncPush
  BY <1>7, <1>A, <1>C DEF AcceptFuncPush, Unlocked
<1>8. CASE LooperNext
  BY <1>8, <1>A, <1>C
     DEF LooperNext, LooperEnds, LooperBuild, LooperSelect, LooperLock, LooperServe,
         LooperServed, LooperUpdate
<1>9. ASSUME NEW c, PeerConnect(c) \/ PeerClose(c) \/ PeerDrain(c) PROVE Goal
  BY <1>9, <1>A DEF PeerConnect, PeerClose, PeerDrain
<1>10. ASSUME NEW t, Sigint(t) PROVE Goal
  <2>1. /\ UNCHANGED <<mpc, mutex, aRest, clients, lHead>>
        /\ apc' = apc \/ apc' = "done"
        /\ lpc' = lpc \/ lpc' = "done"
    BY <1>10 DEF Sigint
  <2> QED BY <1>A, <2>1
<1>11. CASE UNCHANGED vars
  BY <1>11, <1>A DEF vars
<1>12. CASE MainHasPacket \/ MainLock
  BY <1>12, <1>A, <1>C DEF MainHasPacket, MainLock
<1>13. CASE MainSends \/ MainUnlocks
  BY <1>13, <1>A, <1>C DEF MainSends, MainUnlocks
<1> QED BY <1>1, <1>2, <1>3, <1>4, <1>5, <1>6, <1>7, <1>8, <1>9, <1>10, <1>11, <1>12,
           <1>13 DEF Next, MainSteps, AcceptorNext

-----------------------------------------------------------------------------
(* What the list holds.                                                    *)

(* As long as no push is astray, the list of a running server is whole.    *)
LEMMA NotBroken ==
  ASSUME ControlInv, ListInv, astray = {}, mpc \notin NoList \cup {"popped"}
  PROVE  Broken(clients) = FALSE
<1>1. Walk(clients) = Listed
  BY WalkIs DEF Listed, Head, ControlInv
<1>2. Listed \cap freed = {} /\ Wild \notin Listed
  BY DEF ListInv
<1> QED BY <1>1, <1>2 DEF Broken

(* Only these steps follow the pointers of the list, or close no file.     *)
LEMMA UndefinedBy ==
  ASSUME [Next]_vars, proc' = "undefined", proc # "undefined"
  PROVE  MainSends \/ StopRunning \/ Pop \/ LooperBuild \/ LooperServe \/ LooperServed
<1> USE DEF Asserts, MainGoes, AcceptorGoes, LooperGoes
<1>1. CASE MainSteps \/ MainHasPacket
  BY <1>1 DEF MainSteps, TcpServerNew, UdpClientNew, SetClients, MutexInit, StartLooper,
     StartRunning, MainHasPacket, MainLock, MainUnlocks, SetQuit, JoinLooper,
     DestroyMutex, Popped, PopEnds, SetTcpQuit, JoinAcceptor
<1>2. CASE AcceptorNext
  BY <1>2 DEF AcceptorNext, AcceptorTop, AcceptorTimeout, Accept, AcceptFuncLock,
     AcceptFuncHangs, AcceptFuncPush
<1>3. CASE LooperNext
  BY <1>3 DEF LooperNext, LooperEnds, LooperSelect, LooperLock, LooperUpdate
<1>4. ASSUME NEW c, PeerConnect(c) \/ PeerClose(c) \/ PeerDrain(c) PROVE FALSE
  BY <1>4 DEF PeerConnect, PeerClose, PeerDrain
<1>5. ASSUME NEW t, Sigint(t) PROVE FALSE
  BY <1>5 DEF Sigint
<1>6. CASE UNCHANGED vars
  BY <1>6 DEF vars
<1> QED BY <1>1, <1>2, <1>3, <1>4, <1>5, <1>6 DEF Next

(* A file is opened or not for good.                                       *)
LEMMA OpenedStays == ASSUME [Next]_vars PROVE opened' = opened
<1> USE DEF Asserts
<1>1. CASE MainSteps \/ MainHasPacket
  BY <1>1 DEF MainSteps, TcpServerNew, UdpClientNew, SetClients, MutexInit, StartLooper,
     StartRunning, MainHasPacket, MainLock, MainSends, MainUnlocks, StopRunning, SetQuit, JoinLooper, DestroyMutex, Pop,
     Popped, PopEnds, SetTcpQuit, JoinAcceptor
<1>2. CASE AcceptorNext
  BY <1>2 DEF AcceptorNext, AcceptorTop, AcceptorTimeout, Accept, AcceptFuncLock,
     AcceptFuncHangs, AcceptFuncPush
<1>3. CASE LooperNext
  BY <1>3 DEF LooperNext, LooperEnds, LooperBuild, LooperSelect, LooperLock, LooperServe,
     LooperServed, LooperUpdate
<1>4. ASSUME NEW c, PeerConnect(c) \/ PeerClose(c) \/ PeerDrain(c) PROVE opened' = opened
  BY <1>4 DEF PeerConnect, PeerClose, PeerDrain
<1>5. ASSUME NEW t, Sigint(t) PROVE opened' = opened
  BY <1>5 DEF Sigint
<1>6. CASE UNCHANGED vars
  BY <1>6 DEF vars
<1> QED BY <1>1, <1>2, <1>3, <1>4, <1>5, <1>6 DEF Next

(* The steps that follow the pointers of the list find it whole, unless a  *)
(* push went astray.                                                       *)
LEMMA UndefinedKept ==
  ASSUME ControlInv, ListInv, WalkInv, UndefinedOnlyAstray, [Next]_vars
  PROVE  UndefinedOnlyAstray'
<1> SUFFICES ASSUME astray' = {}, opened, proc' = "undefined" PROVE FALSE
  BY OpenedStays DEF UndefinedOnlyAstray
<1>1. astray = {} /\ proc # "undefined"
  BY AstrayGrows DEF UndefinedOnlyAstray
<1>2. MainSends \/ StopRunning \/ Pop \/ LooperBuild \/ LooperServe \/ LooperServed
  BY <1>1, UndefinedBy
<1>3. /\ lpc = "none" <=> mpc \in NoMutex \cup {"looper"}
      /\ mpc \in Popping \cup {"destroy"} => lpc = "done"
  BY DEF ControlInv
<1> USE DEF NoMutex, NoList, Popping
<1>W. /\ mpc \in Sending => mHead \in Listed
      /\ lpc \in Serving => lHead \in Listed
      /\ mpc \notin NoList => Listed \cap (freed \cup {Wild}) = {}
  BY <1>1 DEF WalkInv, ListInv
<1>4. CASE MainSends
  <2>1. mpc = "walk" /\ mHead \in freed \cup {Wild}
    BY <1>1, <1>4 DEF MainSends
  <2> QED BY <1>W, <2>1 DEF Sending
<1>5. CASE StopRunning
  BY <1>1, <1>5 DEF StopRunning
<1>6. CASE Pop
  <2>1. mpc = "pop" /\ clients \in freed \cup {Wild}
    BY <1>1, <1>6 DEF Pop
  <2>2. clients \in Walk(clients)
    <3>1. clients \in Pointer /\ rest \in [Conn -> Pointer]
      BY DEF ControlInv, TypeOK
    <3> QED BY <3>1, WalkIs, WalkFrom
  <2>3. Broken(clients)
    BY <2>1, <2>2 DEF Broken
  <2> QED BY <1>1, <2>1, <2>3, NotBroken
<1>7. CASE LooperBuild
  <2>1. lpc = "top" /\ Broken(clients)
    BY <1>1, <1>7 DEF LooperBuild
  <2> QED BY <1>1, <1>3, <2>1, NotBroken
<1>8. CASE LooperServe
  <2>1. lpc = "serve" /\ lHead \in freed \cup {Wild}
    BY <1>1, <1>8 DEF LooperServe
  <2> QED BY <1>3, <1>W, <2>1 DEF Serving
<1>9. CASE LooperServed
  <2>1. lpc = "serve" /\ Broken(clients)
    BY <1>1, <1>9 DEF LooperServed
  <2> QED BY <1>1, <1>3, <2>1, NotBroken
<1> QED BY <1>2, <1>4, <1>5, <1>6, <1>7, <1>8, <1>9

(* The list keeps every accepted socket and nothing that was freed.        *)
LEMMA ListKept ==
  ASSUME ControlInv, ShapeInv, LockInv, ListInv, [Next]_vars
  PROVE  ListInv'
<1> DEFINE Whole == /\ Listed \cap freed = {}
                    /\ Wild \in Listed => mpc \in NoList
                    /\ mpc \in NoList => clients \notin Conn
                    /\ \A c \in Conn : conn[c] \in {"open", "eof"}
                                         => c \in {aSock, mNode} \cup Listed
                    /\ mpc \in {"tquit", "join acceptor"} => clients = NULL
                    /\ mNode # NULL => clients = mNode
<1> SUFFICES ASSUME astray' = {} PROVE Whole'
  BY DEF ListInv
<1>A. astray = {}
  BY AstrayGrows
<1>W. Whole
  BY <1>A DEF ListInv
<1>T. /\ {clients, mNode, mHead, aRest, lHead} \subseteq Pointer /\ rest \in [Conn -> Pointer]
      /\ freed \subseteq Conn /\ aSock \in Conn \cup {NULL}
      /\ conn \in [Conn -> {"none", "queued", "open", "eof", "closed"}]
      /\ aSock = NULL <=> apc \notin {"lock", "push", "stuck"}
      /\ mNode = NULL <=> mpc # "popped"
      /\ mNode # Wild /\ NULL \notin Conn /\ Wild \notin Conn /\ NULL # Wild
  BY LifecycleAssumption DEF ControlInv, TypeOK
<1>C. /\ lpc = "none" <=> mpc \in NoMutex \cup {"looper"}
      /\ mpc \in Popping \cup {"destroy"} => lpc = "done"
  BY DEF ControlInv
<1>L. /\ mpc \in NoMutex => mutex = "raw"
      /\ apc = "push" => mutex = "acceptor" /\ (mpc \notin Popping => aRest = clients)
      /\ lpc = "update" => lHead = clients
  BY <1>A DEF LockInv
<1>U. \A c \in Unlisted : /\ c \notin freed \cup {clients, mNode, mHead, aRest, lHead}
                          /\ \A d \in Conn : rest[d] # c
  BY DEF ShapeInv
<1> USE DEF list, mptr, main, acceptor, looper, history, MainGoes, AcceptorGoes,
        LooperGoes, Asserts
<1>0. ASSUME UNCHANGED <<clients, rest, freed, mNode, aSock>>,
             \A c \in Conn : conn'[c] \in {"open", "eof"} => conn[c] = conn'[c],
             \/ mpc' = mpc
             \/ mpc \in NoList /\ mpc' \in NoList
             \/ {mpc, mpc'} \cap (NoList \cup {"tquit", "join acceptor"}) = {}
             \/ {mpc, mpc'} \subseteq {"tquit", "join acceptor"}
      PROVE  Whole'
  <2>1. Listed' = Listed
    BY <1>0 DEF Listed, Head
  <2>2. ~({"tquit", "join acceptor"} \cap NoList # {})
    BY DEF NoList
  <2> QED BY <1>0, <1>W, <2>1, <2>2
<1>1. CASE SetClients
  <2>1. /\ mpc = "clients" /\ mpc' = "mutex" /\ clients' = NULL
        /\ UNCHANGED <<rest, freed, conn, mNode, aSock>>
    BY <1>1 DEF SetClients
  <2>2. mNode = NULL /\ clients \in Pointer \ Conn
    BY <1>T, <1>W, <2>1 DEF NoList
  <2>3. Listed = {clients}
    BY <1>T, <2>2, WalkEnd DEF Listed, Head
  <2>4. Listed' = {NULL}
    <3>1. WalkIn(rest, NULL) = {NULL}
      BY <1>T, WalkEnd DEF Pointer
    <3> QED BY <2>1, <2>2, <3>1 DEF Listed, Head
  <2> QED BY <1>T, <1>W, <2>1, <2>2, <2>3, <2>4
<1>2. CASE Pop
  <2>1. /\ mpc = "pop" /\ clients # NULL
        /\ UNCHANGED <<clients, rest, conn, aSock>>
    BY <1>2 DEF Pop
  <2>2. mNode = NULL /\ Listed = WalkIn(rest, clients)
    BY <1>T, <2>1 DEF Listed, Head
  <2>3. clients \in Listed
    BY <1>T, <2>2, WalkFrom
  <2>4. clients \in Conn /\ clients \notin freed \cup {Wild}
    BY <1>T, <1>W, <2>1, <2>3 DEF NoList, Pointer
  <2>5. mNode' = clients /\ freed' = freed \cup {clients} /\ mpc' = "popped"
    BY <1>2, <2>4 DEF Pop
  <2>6. Listed' = WalkIn(rest, rest[clients])
    BY <1>T, <2>1, <2>4, <2>5 DEF Listed, Head
  <2>7. Listed = {clients} \cup Listed'
    BY <1>T, <2>2, <2>4, <2>6, WalkNode
  <2>8. clients \notin Listed'
    <3>1. PICK k : Ranked(rest, k)
      BY DEF ShapeInv
    <3> QED BY <1>T, <2>4, <2>6, <3>1, NoCycle
  <2>9. Listed' \cap freed' = {} /\ Wild \notin Listed'
    BY <1>W, <2>1, <2>5, <2>7, <2>8 DEF NoList
  <2>10. (\A c \in Conn : conn[c] \in {"open", "eof"} => c \in {aSock, mNode} \cup Listed)'
    <3> SUFFICES ASSUME NEW c \in Conn, conn[c] \in {"open", "eof"}
                 PROVE  c \in {aSock, clients} \cup Listed'
      BY <2>1, <2>5
    <3>1. c \in {aSock, NULL} \cup Listed
      BY <1>W, <2>2
    <3> QED BY <1>T, <2>7, <3>1
  <2> HIDE DEF Listed
  <2> QED BY <2>1, <2>5, <2>9, <2>10 DEF NoList
<1>3. CASE Popped
  <2>1. /\ mpc = "popped" /\ mpc' = "pop" /\ clients' = rest[mNode] /\ mNode' = NULL
        /\ conn' = [conn EXCEPT ![mNode] = "closed"]
        /\ UNCHANGED <<rest, freed, aSock>>
    BY <1>3 DEF Popped, AfterPop
  <2>2. mNode \in Conn
    BY <1>T, <2>1 DEF Pointer
  <2>3. Listed' = Listed
    BY <1>T, <2>1, <2>2 DEF Listed, Head
  <2>4. \A c \in Conn : conn'[c] \in {"open", "eof"} => c # mNode /\ conn'[c] = conn[c]
    BY <1>T, <2>1, <2>2
  <2> QED BY <1>W, <2>1, <2>3, <2>4 DEF NoList
<1>4. CASE PopEnds
  <2>1. /\ mpc = "pop" /\ mpc' = "tquit" /\ clients = NULL
        /\ UNCHANGED <<clients, rest, freed, conn, mNode, aSock>>
    BY <1>4 DEF PopEnds
  <2>2. Listed' = Listed
    BY <2>1 DEF Listed, Head
  <2> QED BY <1>W, <1>T, <2>1, <2>2 DEF NoList
<1>5. ASSUME NEW c \in Conn, Accept(c) PROVE Whole'
  <2>1. CASE proc' = "abort" /\ UNCHANGED <<apc, aSock, conn>>
    BY <1>0, <1>5, <2>1 DEF Accept
  <2>2. CASE apc' = "lock" /\ aSock' = c /\ conn' = [conn EXCEPT ![c] = "open"]
    <3>1. apc = "select" /\ UNCHANGED <<clients, rest, freed, mNode, mpc>>
      BY <1>5 DEF Accept
    <3>2. aSock = NULL
      BY <1>T, <3>1
    <3>3. Listed' = Listed
      BY <3>1 DEF Listed, Head
    <3>4. \A d \in Conn : d # c => conn'[d] = conn[d]
      BY <1>T, <2>2
    <3> QED BY <1>T, <1>W, <2>2, <3>1, <3>2, <3>3, <3>4
  <2> QED BY <1>5, <2>1, <2>2 DEF Accept
<1>6. CASE AcceptFuncPush
  <2>1. /\ apc = "push" /\ rest' = [rest EXCEPT ![aSock] = aRest] /\ clients' = aSock
        /\ aSock' = NULL /\ mpc \notin Popping /\ UNCHANGED <<freed, conn, mNode, mpc>>
    BY <1>6 DEF AcceptFuncPush
  <2>2. aSock \in Conn /\ aRest = clients /\ mNode = NULL /\ mpc \notin NoMutex
    BY <1>T, <1>L, <2>1 DEF Popping
  <2>3. aSock \in Unlisted
    BY <2>2 DEF Unlisted
  <2>4. aSock \notin freed /\ aSock # aRest /\ \A d \in Conn : rest[d] # aSock
    BY <1>U, <2>3
  <2>5. WalkIn(rest', aSock) = {aSock} \cup WalkIn(rest, aRest)
    <3>1. PICK k : Ranked(rest, k)
      BY DEF ShapeInv
    <3>2. aRest \in Pointer
      BY <1>T
    <3>3. WalkIn([rest EXCEPT ![aSock] = aRest], aSock) = {aSock} \cup WalkIn(rest, aRest)
      BY <1>T, <2>2, <2>4, <3>1, <3>2, Push
    <3> QED BY <2>1, <3>3
  <2>6. Listed' = {aSock} \cup Listed
    BY <2>1, <2>2, <2>5 DEF Listed, Head
  <2>7. mpc \notin NoList \cup {"tquit", "join acceptor"}
    BY <2>1, <2>2 DEF NoMutex, Popping
  <2> QED BY <1>T, <1>W, <2>1, <2>2, <2>4, <2>6, <2>7
<1>7. CASE LooperUpdate
  <2> DEFINE W == WalkIn(rest, lHead)
  <2>1. /\ W \in SUBSET Pointer
        /\ WalkIn(rest', clients') = W \ Dead
        /\ freed' = freed \cup (W \cap Dead) /\ conn' = conn
    BY <1>7, UpdatePrunes
  <2>2. lpc = "update" /\ UNCHANGED <<mNode, aSock, mpc>>
    BY <1>7 DEF LooperUpdate
  <2>3. mpc \notin NoMutex \cup Popping /\ mNode = NULL /\ lHead = clients
    BY <1>T, <1>C, <1>L, <2>2 DEF Popping
  <2>4. Listed = W
    BY <2>3 DEF Listed, Head
  <2>5. Listed' = W \ Dead
    BY <2>1, <2>2, <2>3 DEF Listed, Head
  <2> HIDE DEF W
  <2>6. (\A c \in Conn : conn[c] \in {"open", "eof"} => c \in {aSock, mNode} \cup Listed)'
    <3> SUFFICES ASSUME NEW c \in Conn, conn'[c] \in {"open", "eof"}
                 PROVE  c \in {aSock, mNode} \cup (W \ Dead)
      BY <2>2, <2>5
    <3>1. c \notin Dead /\ conn[c] = conn'[c]
      BY <2>1 DEF Dead
    <3> QED BY <1>W, <2>4, <3>1
  <2>7. Listed' \cap freed' = {} /\ Wild \notin Listed'
    BY <1>W, <2>1, <2>3, <2>4, <2>5 DEF NoMutex
  <2>8. mpc' \notin NoList \cup {"tquit", "join acceptor"}
    BY <2>2, <2>3 DEF NoMutex, Popping
  <2> QED BY <2>2, <2>3, <2>6, <2>7, <2>8
<1>8. ASSUME NEW c \in Conn, PeerConnect(c) \/ PeerClose(c) PROVE Whole'
  <2>1. /\ \/ conn[c] = "none" /\ conn' = [conn EXCEPT ![c] = "queued"]
           \/ conn[c] = "open" /\ conn' = [conn EXCEPT ![c] = "eof"]
        /\ UNCHANGED <<clients, rest, freed, mNode, aSock, mpc>>
    BY <1>8 DEF PeerConnect, PeerClose
  <2>2. \A d \in Conn : conn'[d] \in {"open", "eof"} => conn[d] \in {"open", "eof"}
    BY <1>T, <2>1
  <2>3. Listed' = Listed
    BY <2>1 DEF Listed, Head
  <2> QED BY <1>W, <2>1, <2>2, <2>3
<1> USE DEF NoList
<1>9. CASE TcpServerNew \/ UdpClientNew \/ MutexInit \/ StartLooper \/ StartRunning
  BY <1>0, <1>9 DEF TcpServerNew, UdpClientNew, MutexInit, StartLooper, StartRunning
<1>10. CASE MainHasPacket \/ MainLock \/ MainSends \/ MainUnlocks
  BY <1>0, <1>10 DEF MainHasPacket, MainLock, MainSends, MainUnlocks
<1>11. CASE StopRunning \/ SetQuit \/ JoinLooper \/ DestroyMutex
  BY <1>0, <1>11 DEF StopRunning, SetQuit, JoinLooper, DestroyMutex
<1>12. CASE SetTcpQuit \/ JoinAcceptor
  BY <1>0, <1>12 DEF SetTcpQuit, JoinAcceptor
<1>13. CASE AcceptorTop \/ AcceptorTimeout \/ AcceptFuncLock \/ AcceptFuncHangs
  BY <1>0, <1>13 DEF AcceptorTop, AcceptorTimeout, AcceptFuncLock, AcceptFuncHangs
<1>14. CASE LooperEnds \/ LooperBuild \/ LooperSelect \/ LooperLock \/ LooperServed
  BY <1>0, <1>14 DEF LooperEnds, LooperBuild, LooperSelect, LooperLock, LooperServed
<1>15. CASE LooperServe
  <2>1. UNCHANGED <<clients, rest, freed, mNode, aSock, mpc>>
    BY <1>15 DEF LooperServe
  <2>2. conn' = conn \/ conn' = [conn EXCEPT ![lHead] = "closed"]
    BY <1>15 DEF LooperServe
  <2>3. \A c \in Conn : conn'[c] \in {"open", "eof"} => conn[c] = conn'[c]
    BY <1>T, <2>2
  <2> QED BY <1>0, <2>1, <2>3
<1>16. ASSUME NEW c \in Conn, PeerDrain(c) PROVE Whole'
  <2>1. UNCHANGED <<clients, rest, freed, conn, mNode, aSock>>
    BY <1>16 DEF PeerDrain
  <2>2. mpc' = mpc \/ (mpc = "waits" /\ mpc' = "walk")
    BY <1>16 DEF PeerDrain
  <2> QED BY <1>0, <2>1, <2>2
<1>17. ASSUME NEW t, Sigint(t) PROVE Whole'
  BY <1>0, <1>17 DEF Sigint
<1>18. CASE UNCHANGED vars
  BY <1>0, <1>18 DEF vars
<1> QED BY <1>1, <1>2, <1>3, <1>4, <1>5, <1>6, <1>7, <1>8, <1>9, <1>10, <1>11, <1>12,
           <1>13, <1>14, <1>15, <1>16, <1>17, <1>18
        DEF Next, MainSteps, AcceptorNext, LooperNext

(* Both walks stay on the list: nobody else changes it meanwhile.          *)
LEMMA WalksKept ==
  ASSUME ControlInv, LockInv, ListInv, WalkInv, [Next]_vars
  PROVE  WalkInv'
<1> DEFINE OnList == /\ mpc \in Sending => mHead \in Listed
                     /\ lpc \in Serving => lHead \in Listed
<1> SUFFICES ASSUME astray' = {} PROVE OnList'
  BY DEF WalkInv
<1>A. astray = {}
  BY AstrayGrows
<1>W. OnList
  BY <1>A DEF WalkInv
<1>T. /\ {clients, mNode, mHead, lHead} \subseteq Pointer /\ rest \in [Conn -> Pointer]
      /\ mNode # Wild /\ (mNode = NULL <=> mpc # "popped")
      /\ lpc = "none" <=> mpc \in NoMutex \cup {"looper"}
      /\ mpc \in Popping \cup {"destroy"} => lpc = "done"
  BY DEF ControlInv, TypeOK
<1>L. /\ apc = "push" => mutex = "acceptor"
      /\ mpc \in Sending => mutex = "main"
      /\ lpc \in Serving \cup {"update"} => mutex = "looper"
  BY <1>A DEF LockInv
<1>N. \A q \in Listed \cap Conn : rest[q] \in Listed
  <2>1. Head \in Pointer
    BY <1>T DEF Head, Pointer
  <2> QED BY <1>T, <2>1, WalkFrom DEF Listed
<1>H. mNode = NULL => clients \in Listed
  BY <1>T, WalkFrom DEF Listed, Head
<1> USE DEF list, mptr, main, acceptor, looper, history, MainGoes, AcceptorGoes,
        LooperGoes, Asserts
<1> DEFINE Same == /\ UNCHANGED <<clients, rest, mNode>>
                   /\ mpc' \in Sending => mpc \in Sending /\ mHead' = mHead
                   /\ lpc' \in Serving => lpc \in Serving /\ lHead' = lHead
<1>0. ASSUME Same PROVE OnList'
  <2>1. Listed' = Listed
    BY <1>0 DEF Listed, Head
  <2> QED BY <1>0, <1>W, <2>1
<1>1. CASE MainLock
  <2>1. mHead' = clients /\ UNCHANGED <<clients, rest, mNode, lpc, lHead>> /\ mpc = "lock"
    BY <1>1 DEF MainLock
  <2>2. Listed' = Listed
    BY <2>1 DEF Listed, Head
  <2> QED BY <1>H, <1>T, <1>W, <2>1, <2>2
<1>2. CASE MainSends
  <2>1. /\ mpc = "walk" /\ UNCHANGED <<clients, rest, mNode, lpc, lHead>>
        /\ mHead' = mHead \/ (mHead \in Conn /\ mHead' = rest[mHead])
    BY <1>2, <1>T DEF MainSends, Pointer
  <2>2. Listed' = Listed
    BY <2>1 DEF Listed, Head
  <2>3. mHead \in Listed
    BY <1>W, <2>1 DEF Sending
  <2> QED BY <1>N, <1>W, <2>1, <2>2, <2>3
<1>3. CASE LooperLock
  <2>1. lHead' = clients /\ UNCHANGED <<clients, rest, mNode, mpc, mHead>> /\ lpc = "lock"
    BY <1>3 DEF LooperLock
  <2>2. Listed' = Listed
    BY <2>1 DEF Listed, Head
  <2>3. mNode = NULL
    BY <1>T, <2>1 DEF Popping
  <2> QED BY <1>H, <1>W, <2>1, <2>2, <2>3
<1>4. CASE LooperServe
  <2>1. /\ lpc = "serve" /\ UNCHANGED <<clients, rest, mNode, mpc, mHead>>
        /\ lHead' = lHead \/ (lHead \in Conn /\ lHead' = rest[lHead])
    BY <1>4, <1>T DEF LooperServe, Pointer
  <2>2. Listed' = Listed
    BY <2>1 DEF Listed, Head
  <2>3. lHead \in Listed
    BY <1>W, <2>1 DEF Serving
  <2> QED BY <1>N, <1>W, <2>1, <2>2, <2>3
<1>5. ASSUME NEW c \in Conn, PeerDrain(c) PROVE OnList'
  <2>1. UNCHANGED <<clients, rest, mNode>>
    BY <1>5 DEF PeerDrain
  <2>2. Listed' = Listed
    BY <2>1 DEF Listed, Head
  <2>3. CASE mpc = "waits" /\ mHead = c /\ mHead' = rest[c] /\ UNCHANGED <<lpc, lHead>>
    <3>1. rest[c] \in Listed
      BY <1>N, <1>W, <2>3 DEF Sending
    <3> QED BY <1>W, <2>2, <2>3, <3>1
  <2>4. CASE lpc = "waits" /\ lHead = c /\ lHead' = rest[c] /\ UNCHANGED <<mpc, mHead>>
    <3>1. rest[c] \in Listed
      BY <1>N, <1>W, <2>4 DEF Serving
    <3> QED BY <1>W, <2>2, <2>4, <3>1
  <2> QED BY <1>5, <2>3, <2>4 DEF PeerDrain
<1>6. CASE SetClients \/ Pop \/ Popped
  <2>1. mpc' \notin Sending
    BY <1>6 DEF SetClients, Pop, Popped, AfterPop, Sending
  <2>2. lpc' \in {"none", "done"}
    BY <1>6, <1>T DEF SetClients, Pop, Popped, NoMutex, NoList, Popping
  <2> QED BY <2>1, <2>2 DEF Serving
<1>7. CASE AcceptFuncPush \/ LooperUpdate
  <2>1. apc = "push" \/ lpc = "update"
    BY <1>7 DEF AcceptFuncPush, LooperUpdate
  <2>2. mpc' = mpc /\ lpc' \in {lpc, "top"}
    BY <1>7 DEF AcceptFuncPush, LooperUpdate
  <2>3. mpc \notin Sending /\ (apc = "push" => lpc \notin Serving)
    BY <1>L, <2>1
  <2>4. lpc' \notin Serving
    <3>1. CASE AcceptFuncPush
      BY <2>3, <3>1 DEF AcceptFuncPush
    <3>2. CASE LooperUpdate
      BY <3>2 DEF LooperUpdate, Serving
    <3> QED BY <1>7, <3>1, <3>2
  <2> QED BY <2>2, <2>3, <2>4
<1> USE DEF Sending, Serving
<1>8. CASE TcpServerNew \/ UdpClientNew \/ MutexInit \/ StartLooper \/ StartRunning
  BY <1>0, <1>8 DEF TcpServerNew, UdpClientNew, MutexInit, StartLooper, StartRunning
<1>9. CASE MainHasPacket \/ MainUnlocks \/ StopRunning \/ SetQuit \/ JoinLooper
  BY <1>0, <1>9 DEF MainHasPacket, MainUnlocks, StopRunning, SetQuit, JoinLooper
<1>10. CASE DestroyMutex \/ PopEnds \/ SetTcpQuit \/ JoinAcceptor
  BY <1>0, <1>10 DEF DestroyMutex, PopEnds, SetTcpQuit, JoinAcceptor
<1>11. CASE AcceptorTop \/ AcceptorTimeout \/ AcceptFuncLock \/ AcceptFuncHangs
  BY <1>0, <1>11 DEF AcceptorTop, AcceptorTimeout, AcceptFuncLock, AcceptFuncHangs
<1>12. CASE LooperEnds \/ LooperBuild \/ LooperSelect \/ LooperServed
  BY <1>0, <1>12 DEF LooperEnds, LooperBuild, LooperSelect, LooperServed
<1>13. ASSUME NEW c, Accept(c) \/ PeerConnect(c) \/ PeerClose(c) PROVE OnList'
  BY <1>0, <1>13 DEF Accept, PeerConnect, PeerClose
<1>14. ASSUME NEW t, Sigint(t) PROVE OnList'
  BY <1>0, <1>14 DEF Sigint
<1>15. CASE UNCHANGED vars
  BY <1>0, <1>15 DEF vars
<1> QED BY <1>1, <1>2, <1>3, <1>4, <1>5, <1>6, <1>7, <1>8, <1>9, <1>10, <1>11, <1>12,
           <1>13, <1>14, <1>15 DEF Next, MainSteps, AcceptorNext, LooperNext

(* The server begins in the invariant ...                                  *)
LEMMA InitInv == Init => IInv
<1> SUFFICES ASSUME Init PROVE IInv
  OBVIOUS
<1> USE LifecycleAssumption DEF Init
<1>1. ControlInv
  BY DEF ControlInv, TypeOK, Starting, Popping, Pointer, NoMutex, NoList
<1>2. ShapeInv
  <2>1. \E k : Ranked(rest, k)
    <3> DEFINE k == [q \in Pointer |-> IF q \in Conn THEN 1 ELSE 0]
    <3>1. \A c \in Conn : c \in Pointer /\ rest[c] \in Pointer \ Conn
      BY DEF Pointer
    <3>2. k \in [Pointer -> Nat] /\ \A c \in Conn : k[rest[c]] = 0 /\ k[c] = 1
      BY <3>1
    <3> HIDE DEF k
    <3>3. ASSUME NEW c \in Conn PROVE k[rest[c]] < k[c]
      <4>1. k[rest[c]] = 0 /\ k[c] = 1
        BY <3>2
      <4> QED BY <4>1
    <3> QED BY <3>2, <3>3 DEF Ranked
  <2>2. \A c \in Conn : /\ c \notin freed \cup {clients, mNode, mHead, aRest, lHead}
                        /\ \A d \in Conn : rest[d] # c
    OBVIOUS
  <2> QED BY <2>1, <2>2 DEF ShapeInv, Unlisted
<1>3. LockInv
  BY DEF LockInv, NoMutex, NoList, Sending, Serving
<1>4. ListInv
  <2>1. Listed \subseteq Pointer /\ freed = {}
    BY <1>1, WalkFrom DEF Listed, Head, ControlInv, TypeOK
  <2> QED BY <2>1 DEF ListInv, NoList
<1>5. WalkInv
  BY DEF WalkInv, Sending, Serving
<1>6. UndefinedOnlyAstray
  BY DEF UndefinedOnlyAstray
<1> QED BY <1>1, <1>2, <1>3, <1>4, <1>5, <1>6 DEF IInv

(* ... and each step keeps it.                                             *)
LEMMA StepInv == IInv /\ [Next]_vars => IInv'
<1> SUFFICES ASSUME IInv, [Next]_vars PROVE IInv'
  OBVIOUS
<1>1. ControlInv'
  BY ControlKept, ControlUpdated DEF IInv
<1>2. ShapeInv'
  BY ShapeKept DEF IInv
<1>3. LockInv'
  BY LockKept DEF IInv
<1>4. ListInv'
  BY ListKept DEF IInv
<1>5. WalkInv'
  BY WalksKept DEF IInv
<1>6. UndefinedOnlyAstray'
  BY UndefinedKept DEF IInv
<1> QED BY <1>1, <1>2, <1>3, <1>4, <1>5, <1>6 DEF IInv

(* The list, its mutex and the threads fit together in every state.        *)
THEOREM InductiveInvariant == Spec => []IInv
BY InitInv, StepInv, PTL DEF Spec

(* Every variable keeps its type.                                          *)
THEOREM TypeCorrect == Spec => []TypeOK
<1>1. IInv => TypeOK
  BY DEF IInv, ControlInv
<1> QED BY <1>1, InductiveInvariant, PTL

(* Unless a push went astray, an accepted socket is the acceptor's, main's *)
(* or on the list until it is freed, and none is left when main returns.   *)
THEOREM SocketsAreHeld == Spec => []SocketsHeld
<1>1. IInv => SocketsHeld
  <2> SUFFICES ASSUME IInv, astray = {}, NEW c \in Conn, conn[c] \in {"open", "eof"}
               PROVE  c \in {aSock, mNode} \cup Walk(clients) /\ proc # "exit"
    BY DEF SocketsHeld
  <2>1. /\ rest \in [Conn -> Pointer] /\ {clients, mNode} \subseteq Pointer
        /\ mNode # Wild /\ (mNode = NULL <=> mpc # "popped")
        /\ aSock = NULL <=> apc \notin {"lock", "push", "stuck"}
        /\ proc = "exit" => mpc = "join acceptor" /\ apc = "done"
    BY DEF IInv, ControlInv, TypeOK
  <2>2. /\ c \in {aSock, mNode} \cup Listed
        /\ mpc \in {"tquit", "join acceptor"} => clients = NULL
    BY DEF IInv, ListInv
  <2>3. CASE mNode = NULL
    <3>1. Listed = Walk(clients)
      BY <2>3, WalkIs DEF Listed, Head
    <3>2. ASSUME proc = "exit" PROVE FALSE
      <4>1. clients = NULL /\ aSock = NULL
        BY <2>1, <2>2, <3>2
      <4>2. Walk(clients) = {NULL}
        BY <2>1, <4>1, WalkIs, WalkEnd, LifecycleAssumption DEF Pointer
      <4> QED BY <2>2, <2>3, <3>1, <4>1, <4>2, LifecycleAssumption
    <3> QED BY <2>2, <3>1, <3>2
  <2>4. CASE mNode # NULL
    <3>1. mNode \in Conn /\ clients = mNode /\ mpc = "popped"
      BY <2>1, <2>4 DEF IInv, ListInv, Pointer
    <3>2. Walk(clients) = {mNode} \cup Listed
      BY <2>1, <2>4, <3>1, WalkIs, WalkNode DEF Listed, Head
    <3> QED BY <2>1, <2>2, <3>1, <3>2
  <2> QED BY <2>3, <2>4
<1> QED BY <1>1, InductiveInvariant, PTL

(* Nothing but a push astray or a file that did not open leads the server  *)
(* to undefined behaviour.                                                 *)
THEOREM UndefinedIsAstray == Spec => []UndefinedOnlyAstray
<1>1. IInv => UndefinedOnlyAstray
  BY DEF IInv
<1> QED BY <1>1, InductiveInvariant, PTL
=============================================================================
